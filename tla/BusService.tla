----------------------------- MODULE BusService -----------------------------
(***************************************************************************)
(* What the UART0 arbiter of the car node promises to the components that  *)
(* share the USART (the CC2420 radio over SPI and the car/reader driver    *)
(* over UART): one holder at a time, nobody is granted the bus without     *)
(* asking, and whoever asks is eventually served if holders give it back.  *)
(* The contract is the one of the TinyOS Resource interface the code uses: *)
(* request / immediateRequest / granted / release.                         *)
(***************************************************************************)
CONSTANTS Clients,      \* the components wired to the bus
          None          \* nobody holds the bus; not a client

VARIABLES holder,       \* the client that holds the bus, or None
          waiting       \* the clients that asked and were not yet granted

busVars == <<holder, waiting>>

BusTypeOK == holder \in Clients \cup {None} /\ waiting \subseteq Clients

BusInit == holder = None /\ waiting = {}

Ask(c) == /\ c \notin waiting /\ holder # c
          /\ waiting' = waiting \cup {c}
          /\ UNCHANGED holder

\* An idle bus nobody waits for is handed over within the call.
TakeAtOnce(c) == /\ holder = None /\ waiting = {}
                 /\ holder' = c
                 /\ UNCHANGED waiting

Grant(c) == /\ holder = None /\ c \in waiting
            /\ holder' = c
            /\ waiting' = waiting \ {c}

Give(c) == /\ holder = c
           /\ holder' = None
           /\ UNCHANGED waiting

BusNext == \E c \in Clients : Ask(c) \/ TakeAtOnce(c) \/ Grant(c) \/ Give(c)

BusSafety == BusInit /\ [][BusNext]_busVars

BusSpec == BusSafety /\ \A c \in Clients : SF_busVars(Grant(c))
=============================================================================
