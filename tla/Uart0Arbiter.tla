---------------------------- MODULE Uart0Arbiter ----------------------------
(***************************************************************************)
(* The arbiter of the MSP430 USART0 on the car node (ArbiterP with an FCFS *)
(* queue, instance ArbiterP__1 of the compiled program).  Two components   *)
(* share this USART: the CC2420 radio (SPI) and the car driver CarP (UART).*)
(*                                                                         *)
(* The state RES_IMM_GRANTING exists only  inside an atomic section and is *)
(* therefore not a state of the model.  The operations Request, Release,   *)
(* ImmediateRequest and GrantedTask are also the building blocks of the    *)
(* modules that EXTEND this one.                                           *)
(***************************************************************************)
EXTENDS Naturals, Sequences

CONSTANTS Clients,        \* ids of the clients wired to the arbiter
          DefaultOwner,   \* default_owner_id
          NoRes           \* NO_RES

ASSUME ArbiterAssumption == /\ DefaultOwner \notin Clients
                            /\ NoRes \notin Clients
                            /\ DefaultOwner # NoRes

VARIABLES arbState,       \* "CONTROLLED", "GRANTING" or "BUSY"
          resId,          \* the client that owns the resource
          reqResId,       \* the client the pending grantedTask will serve
          resQ,           \* FcfsResourceQueueC: the clients in line
          grantedTask     \* grantedTask is in the scheduler's queue

arbVars == <<arbState, resId, reqResId, resQ, grantedTask>>

ArbTypeOK == /\ arbState \in {"CONTROLLED", "GRANTING", "BUSY"}
             /\ resId \in Clients \cup {DefaultOwner, NoRes}
             /\ reqResId \in Clients
             /\ resQ \in Seq(Clients)
             /\ grantedTask \in BOOLEAN

\* reqResId is not initialised by the code; no grantedTask is posted then.
ArbInit == /\ arbState = "CONTROLLED"
           /\ resId = DefaultOwner
           /\ reqResId \in Clients
           /\ resQ = << >>
           /\ grantedTask = FALSE

----------------------------------------------------------------------------
Owner(c) == arbState = "BUSY" /\ resId = c                  \* isOwner
Queued(c) == \E i \in 1 .. Len(resQ) : resQ[i] = c          \* isEnqueued
Promised(c) == grantedTask /\ reqResId = c
Involved(c) == Owner(c) \/ Queued(c) \/ Promised(c)

Enqueue(c) == resQ' = IF Queued(c) THEN resQ ELSE Append(resQ, c)

\* In RES_CONTROLLED the default owner gives way at once and posts the task.
Request(c) ==
  \/ /\ arbState = "CONTROLLED"
     /\ arbState' = "GRANTING"
     /\ reqResId' = c
     /\ grantedTask' = TRUE
     /\ UNCHANGED <<resId, resQ>>
  \/ /\ arbState # "CONTROLLED"
     /\ Enqueue(c)
     /\ UNCHANGED <<arbState, resId, reqResId, grantedTask>>

ImmediateRequest(c) ==
  IF arbState = "CONTROLLED"
  THEN /\ arbState' = "BUSY"
       /\ resId' = c
       /\ reqResId' = c
       /\ UNCHANGED <<resQ, grantedTask>>
  ELSE UNCHANGED arbVars

\* Mutant of HandOver: the granted client stays in the queue.
HandOverKeepsHead == /\ arbState' = "GRANTING"
                     /\ resId' = NoRes
                     /\ reqResId' = Head(resQ)
                     /\ UNCHANGED resQ
                     /\ grantedTask' = TRUE

HandOver == /\ arbState' = "GRANTING"
            /\ resId' = NoRes
            /\ reqResId' = Head(resQ)
            /\ resQ' = Tail(resQ)
            /\ grantedTask' = TRUE

BackToDefault == /\ arbState' = "CONTROLLED"
                 /\ resId' = DefaultOwner
                 /\ UNCHANGED <<reqResId, resQ, grantedTask>>

\* Mutant of Release: the queue is not looked at.
ReleaseForgetsQueue(c) == \/ Owner(c) /\ BackToDefault
                          \/ ~Owner(c) /\ UNCHANGED arbVars

\* A release by anybody but the owner fails and changes nothing.
Release(c) ==
  \/ Owner(c) /\ resQ # << >> /\ HandOver
  \/ Owner(c) /\ resQ = << >> /\ BackToDefault
  \/ ~Owner(c) /\ UNCHANGED arbVars

\* The task that makes c the owner; the client's granted event follows.
GrantedTask(c) == /\ grantedTask
                  /\ reqResId = c
                  /\ grantedTask' = FALSE
                  /\ resId' = c
                  /\ arbState' = "BUSY"
                  /\ UNCHANGED <<reqResId, resQ>>

----------------------------------------------------------------------------
(* The arbiter with clients that keep the Resource contract: a client asks *)
(* only when it is not involved yet, and releases what it owns.            *)
ClientRequests(c) == ~Involved(c) /\ Request(c)
ClientTriesAtOnce(c) == ~Involved(c) /\ arbState = "CONTROLLED" /\ ImmediateRequest(c)
ClientReleases(c) == Owner(c) /\ Release(c)

ArbNext == \E c \in Clients : \/ ClientRequests(c)
                              \/ ClientTriesAtOnce(c)
                              \/ ClientReleases(c)
                              \/ GrantedTask(c)

\* The scheduler runs every posted task; a client gives the bus back.
ArbFairness == /\ WF_arbVars(\E c \in Clients : GrantedTask(c))
               /\ \A c \in Clients : WF_arbVars(ClientReleases(c))

ArbSpec == ArbInit /\ [][ArbNext]_arbVars /\ ArbFairness

----------------------------------------------------------------------------
(* The inductive invariant of the arbiter, in named parts.                 *)

\* A grant is in progress exactly while its task is posted: a grant can be
\* neither lost nor run twice.
TaskMatchesState == grantedTask <=> (arbState = "GRANTING")

\* The bus idles only when nobody waits for it.
IdleMeansNobodyWaits == arbState = "CONTROLLED" => resId = DefaultOwner /\ resQ = << >>

\* Only a client owns, and while a grant is in progress nobody does.
OwnerIsClient == /\ arbState = "BUSY" => resId \in Clients
                 /\ arbState = "GRANTING" => resId \notin Clients

\* A client stands in line at most once, and not at all while it is served.
ServedOnce == /\ \A i, j \in 1 .. Len(resQ) : resQ[i] = resQ[j] => i = j
              /\ arbState = "BUSY" => ~Queued(resId)
              /\ arbState = "GRANTING" => ~Queued(reqResId)

ArbInv == /\ ArbTypeOK
          /\ TaskMatchesState
          /\ IdleMeansNobodyWaits
          /\ OwnerIsClient
          /\ ServedOnce

----------------------------------------------------------------------------
(* The arbiter implements the bus service.                                 *)
Holder == IF arbState = "BUSY" THEN resId ELSE NoRes
Waiting == {c \in Clients : Queued(c) \/ Promised(c)}

Service == INSTANCE BusService WITH None <- NoRes, holder <- Holder, waiting <- Waiting

\* Every arbiter step is a step of the service or leaves it unchanged, and
\* FCFS order gives every waiting client the bus.
ImplementsService == Service!BusSpec
=============================================================================
