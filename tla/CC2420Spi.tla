------------------------------ MODULE CC2420Spi ------------------------------
(***************************************************************************)
(* CC2420SpiP: how the parts of the radio stack (control, transmit,        *)
(* receive) share the SPI bus to the CC2420.  The bus is one client, SPI,  *)
(* of the USART0 arbiter; it is asked for when the first part needs it,    *)
(* handed on from part to part, and given back when none is left.          *)
(* Every operation is an atomic section of the code.                       *)
(***************************************************************************)
EXTENDS Uart0Arbiter, FiniteSets

CONSTANTS SpiClients,     \* the CLIENT_IDs wired to CC2420SpiP
          SPI,            \* the client of the arbiter that stands for them
          NO_HOLDER

ASSUME SpiAssumption == /\ SPI \in Clients
                        /\ SpiClients \subseteq Nat
                        /\ NO_HOLDER \notin SpiClients

VARIABLES working,        \* WorkingState is S_BUSY
          m_holder,
          m_requests,     \* the clients whose bit is set
          grantTask       \* the task grant is in the scheduler's queue

spiVars == <<working, m_holder, m_requests, grantTask>>
busVars == <<spiVars, arbVars>>

SpiTypeOK == /\ ArbTypeOK
             /\ working \in BOOLEAN
             /\ m_holder \in SpiClients \cup {NO_HOLDER}
             /\ m_requests \subseteq SpiClients
             /\ grantTask \in BOOLEAN

SpiInit == /\ ArbInit
           /\ working = FALSE
           /\ m_holder = NO_HOLDER
           /\ m_requests = {}
           /\ grantTask = FALSE

----------------------------------------------------------------------------
(* immediateRequest succeeds if nobody of the stack works on the bus and   *)
(* the stack owns USART0 already, or gets it at once.                      *)
CanTakeNow == ~working /\ (Owner(SPI) \/ arbState = "CONTROLLED")

TakeNow(c) == /\ CanTakeNow
              /\ working' = TRUE
              /\ m_holder' = c
              /\ IF Owner(SPI) THEN UNCHANGED arbVars ELSE ImmediateRequest(SPI)
              /\ UNCHANGED <<m_requests, grantTask>>

SpiRequest(c) ==
  \/ /\ ~working
     /\ working' = TRUE
     /\ m_holder' = c
     /\ \/ Owner(SPI) /\ grantTask' = TRUE /\ UNCHANGED arbVars
        \/ ~Owner(SPI) /\ Request(SPI) /\ UNCHANGED grantTask
     /\ UNCHANGED m_requests
  \/ /\ working
     /\ m_requests' = m_requests \cup {c}
     /\ UNCHANGED <<working, m_holder, grantTask, arbVars>>

\* m_holder is NO_HOLDER when the search starts, so that it always starts
\* at client 0.
NextRequest == CHOOSE c \in m_requests : \A d \in m_requests : c <= d

\* Mutant of HandOn: the task grant is not posted.
HandOnUnposted == /\ m_requests # {}
                  /\ m_holder' = NextRequest
                  /\ m_requests' = m_requests \ {NextRequest}
                  /\ UNCHANGED <<working, grantTask, arbVars>>

HandOn == /\ m_requests # {}
          /\ m_holder' = NextRequest
          /\ m_requests' = m_requests \ {NextRequest}
          /\ grantTask' = TRUE
          /\ UNCHANGED <<working, arbVars>>

\* Mutant of GiveBack: USART0 is kept, whether or not somebody wants it.
GiveBackNothing(abort) == /\ m_requests = {}
                          /\ m_holder' = NO_HOLDER
                          /\ working' = FALSE
                          /\ UNCHANGED <<m_requests, grantTask, arbVars>>

\* abort: the transmitter keeps USART0 to be quick with an acknowledgement.
GiveBack(abort) == /\ m_requests = {}
                   /\ m_holder' = NO_HOLDER
                   /\ working' = FALSE
                   /\ IF abort THEN UNCHANGED arbVars ELSE Release(SPI)
                   /\ UNCHANGED <<m_requests, grantTask>>

SpiRelease(c, abort) == IF m_holder = c THEN HandOn \/ GiveBack(abort)
                                        ELSE UNCHANGED busVars

\* attemptRelease without abort.
AttemptRelease == /\ IF m_requests = {} /\ m_holder = NO_HOLDER /\ ~working
                     THEN Release(SPI) ELSE UNCHANGED arbVars
                  /\ UNCHANGED spiVars

\* The arbiter's task signals granted, which posts grant.
SpiGranted == /\ GrantedTask(SPI)
              /\ grantTask' = TRUE
              /\ UNCHANGED <<working, m_holder, m_requests>>

\* The task grant; the handler of client c follows.
Grant(c) == /\ grantTask
            /\ m_holder = c
            /\ grantTask' = FALSE

----------------------------------------------------------------------------
\* A client that has been granted the bus, or took it at once.
Holds(c) == m_holder = c /\ Owner(SPI) /\ ~grantTask
WaitsFor(c) == c \in m_requests \/ (m_holder = c /\ ~Holds(c))

\* The stack works on the bus exactly while there is a holder; a holder is
\* granted once, and waits for it only while the task is posted or USART0 is
\* somebody else's; a client in line is not the holder.
SpiInv ==
  /\ working <=> m_holder # NO_HOLDER
  /\ ~working => m_requests = {} /\ ~grantTask /\ ~Queued(SPI) /\ ~Promised(SPI)
  /\ m_holder \notin m_requests
  /\ working => Involved(SPI)
  /\ grantTask => Owner(SPI)

SpiHolder == IF \E c \in SpiClients : Holds(c) THEN m_holder ELSE NO_HOLDER
SpiWaiting == {c \in SpiClients : WaitsFor(c)}

Spi == INSTANCE BusService WITH Clients <- SpiClients, None <- NO_HOLDER,
                                holder <- SpiHolder, waiting <- SpiWaiting

\* What the stack sees of the bus is a bus service again, although it is
\* given away in between and the search for the next client is not fair.
ImplementsSpiService == Spi!BusSpec
=============================================================================
