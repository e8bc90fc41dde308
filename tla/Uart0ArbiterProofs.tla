------------------------- MODULE Uart0ArbiterProofs -------------------------
(***************************************************************************)
(* Proofs about the UART0 arbiter, for any set of clients: its invariant   *)
(* is inductive, and every step of it is a step of the bus service.        *)
(***************************************************************************)
EXTENDS Uart0Arbiter, TLAPS

\* The initial state of the compiled arbiter satisfies the invariant.
LEMMA ArbInitInv == ArbInit => ArbInv
<1> SUFFICES ASSUME ArbInit PROVE ArbInv
  OBVIOUS
<1>1. << >> \in Seq(Clients)
  OBVIOUS
<1>2. ArbTypeOK
  BY <1>1 DEF ArbInit, ArbTypeOK
<1>3. TaskMatchesState
  BY DEF ArbInit, TaskMatchesState
<1>4. IdleMeansNobodyWaits /\ OwnerIsClient
  BY ArbiterAssumption DEF ArbInit, IdleMeansNobodyWaits, OwnerIsClient
<1>5. ServedOnce
  BY DEF ArbInit, ServedOnce
<1> QED
  BY <1>2, <1>3, <1>4, <1>5 DEF ArbInv

\* A request of a client that is not involved keeps the arbiter consistent;
\* it is the operation the driver and the radio start every use with.
LEMMA RequestInv ==
  ASSUME NEW c \in Clients, ArbInv, ~Involved(c), Request(c)
  PROVE  ArbInv'
<1> USE DEF ArbInv, ArbTypeOK, TaskMatchesState, IdleMeansNobodyWaits, OwnerIsClient
<1>1. CASE arbState = "CONTROLLED"
  BY <1>1, ArbiterAssumption DEF Request, ServedOnce, Queued
<1>2. CASE arbState # "CONTROLLED"
  <2>1. /\ resQ' = Append(resQ, c)
        /\ UNCHANGED <<arbState, resId, reqResId, grantedTask>>
    BY <1>2 DEF Request, Enqueue, Involved
  <2>2. /\ Len(resQ') = Len(resQ) + 1
        /\ \A i \in 1 .. Len(resQ) : resQ'[i] = resQ[i]
        /\ resQ'[Len(resQ) + 1] = c
        /\ resQ' \in Seq(Clients)
    BY <2>1
  <2>3. \A i \in 1 .. Len(resQ) : resQ[i] # c
    BY DEF Involved, Queued
  <2>4. \A i, j \in 1 .. Len(resQ') : resQ'[i] = resQ'[j] => i = j
    BY <2>2, <2>3 DEF ServedOnce
  <2>5. /\ arbState = "BUSY" => resId # c
        /\ arbState = "GRANTING" => reqResId # c
    BY DEF Involved, Owner, Promised
  <2>6. /\ (arbState = "BUSY" => ~Queued(resId))'
        /\ (arbState = "GRANTING" => ~Queued(reqResId))'
    BY <2>1, <2>2, <2>5 DEF ServedOnce, Queued
  <2> QED
    BY <1>2, <2>1, <2>2, <2>4, <2>6 DEF ServedOnce
<1> QED
  BY <1>1, <1>2

\* immediateRequest keeps the arbiter consistent.
LEMMA ImmediateRequestInv ==
  ASSUME NEW c \in Clients, ArbInv, ImmediateRequest(c)
  PROVE  ArbInv'
  BY ArbiterAssumption
  DEF ArbInv, ArbTypeOK, TaskMatchesState, IdleMeansNobodyWaits, OwnerIsClient,
      ServedOnce, Queued, ImmediateRequest, arbVars

\* The task that grants keeps the arbiter consistent.
LEMMA GrantedTaskInv ==
  ASSUME NEW c \in Clients, ArbInv, GrantedTask(c)
  PROVE  ArbInv'
  BY ArbiterAssumption
  DEF ArbInv, ArbTypeOK, TaskMatchesState, IdleMeansNobodyWaits, OwnerIsClient,
      ServedOnce, Queued, GrantedTask

\* A release, by the owner or by somebody else, keeps the arbiter consistent.
LEMMA ReleaseInv ==
  ASSUME NEW c \in Clients, ArbInv, Release(c)
  PROVE  ArbInv'
<1> USE DEF ArbInv, ArbTypeOK, TaskMatchesState, IdleMeansNobodyWaits, OwnerIsClient
<1>1. CASE Owner(c) /\ resQ # << >> /\ HandOver
  <2>1. /\ Head(resQ) = resQ[1]
        /\ resQ[1] \in Clients
        /\ 1 \in 1 .. Len(resQ)
        /\ resQ' \in Seq(Clients)
        /\ Len(resQ') = Len(resQ) - 1
        /\ \A i \in 1 .. Len(resQ') : resQ'[i] = resQ[i + 1]
    BY <1>1 DEF HandOver
  <2>2. \A i, j \in 1 .. Len(resQ') : resQ'[i] = resQ'[j] => i = j
    BY <2>1 DEF ServedOnce
  <2>3. \A i \in 1 .. Len(resQ') : resQ'[i] # resQ[1]
    BY <2>1 DEF ServedOnce
  <2> QED
    BY <1>1, <2>1, <2>2, <2>3, ArbiterAssumption DEF HandOver, ServedOnce, Queued, Owner
<1>2. CASE Owner(c) /\ resQ = << >> /\ BackToDefault
  BY <1>2, ArbiterAssumption DEF BackToDefault, ServedOnce, Queued, Owner
<1>3. CASE ~Owner(c) /\ UNCHANGED arbVars
  BY <1>3 DEF arbVars, ServedOnce, Queued
<1> QED
  BY <1>1, <1>2, <1>3 DEF Release

----------------------------------------------------------------------------
(* Who is involved after each operation.                                   *)

\* An accepted request involves its client, and nobody else.
LEMMA RequestInvolves ==
  ASSUME NEW c \in Clients, ArbInv, ~Involved(c), Request(c)
  PROVE  /\ Involved(c)'
         /\ \A d \in Clients : /\ Owner(d)' <=> Owner(d)
                               /\ d # c => (Involved(d)' <=> Involved(d))
<1> USE DEF ArbInv, ArbTypeOK, TaskMatchesState, IdleMeansNobodyWaits
<1>1. CASE arbState = "CONTROLLED"
  BY <1>1 DEF Request, Involved, Owner, Queued, Promised
<1>2. CASE arbState # "CONTROLLED"
  <2>1. /\ resQ' = Append(resQ, c)
        /\ UNCHANGED <<arbState, resId, reqResId, grantedTask>>
    BY <1>2 DEF Request, Enqueue, Involved
  <2>2. /\ Len(resQ') = Len(resQ) + 1
        /\ Len(resQ) \in Nat
        /\ \A i \in 1 .. Len(resQ) : resQ'[i] = resQ[i]
        /\ resQ'[Len(resQ) + 1] = c
    BY <2>1
  <2>3. \A d \in Clients : Queued(d)' <=> Queued(d) \/ d = c
    BY <2>2 DEF Queued
  <2> QED
    BY <2>1, <2>3 DEF Involved, Owner, Promised
<1> QED
  BY <1>1, <1>2

\* A successful immediateRequest makes its client the owner.
LEMMA ImmediateRequestInvolves ==
  ASSUME NEW c \in Clients, ArbInv, ClientTriesAtOnce(c)
  PROVE  \A d \in Clients : d # c => /\ Owner(d)' <=> Owner(d)
                                     /\ Involved(d)' <=> Involved(d)
  BY DEF ArbInv, TaskMatchesState, ClientTriesAtOnce, ImmediateRequest, Involved,
         Owner, Queued, Promised

\* After its release the owner is not involved any more; the others are
\* involved as before, and none of them owns the bus yet.
LEMMA ReleaseInvolves ==
  ASSUME NEW c \in Clients, ArbInv, Owner(c), Release(c)
  PROVE  /\ ~Involved(c)'
         /\ \A d \in Clients : d # c => /\ Owner(d)' <=> Owner(d)
                                        /\ Involved(d)' <=> Involved(d)
<1> USE DEF ArbInv, ArbTypeOK, TaskMatchesState
<1>1. CASE resQ = << >>
  <2>1. BackToDefault
    BY <1>1 DEF Release
  <2>2. \A d \in Clients : ~Queued(d) /\ ~Queued(d)' /\ ~Promised(d) /\ ~Promised(d)'
    BY <1>1, <2>1 DEF BackToDefault, Queued, Promised, Owner
  <2> QED
    BY <2>1, <2>2 DEF BackToDefault, Involved, Owner
<1>2. CASE resQ # << >>
  <2>1. HandOver
    BY <1>2 DEF Release
  <2>2. /\ Head(resQ) = resQ[1]
        /\ Len(resQ) \in Nat /\ Len(resQ) > 0
        /\ Len(resQ') = Len(resQ) - 1
        /\ \A i \in 1 .. Len(resQ') : resQ'[i] = resQ[i + 1]
    BY <1>2, <2>1 DEF HandOver
  <2>3. ASSUME NEW d \in Clients PROVE Queued(d) <=> Queued(d)' \/ d = resQ[1]
    <3>1. ASSUME Queued(d) PROVE Queued(d)' \/ d = resQ[1]
      <4>1. PICK i \in 1 .. Len(resQ) : resQ[i] = d
        BY <3>1 DEF Queued
      <4>2. CASE i # 1
        <5>1. i - 1 \in 1 .. Len(resQ') /\ (i - 1) + 1 = i
          BY <4>2, <2>2
        <5> QED
          BY <5>1, <4>1, <2>2 DEF Queued
      <4> QED
        BY <4>1, <4>2
    <3>2. ASSUME Queued(d)' \/ d = resQ[1] PROVE Queued(d)
      BY <3>2, <2>2 DEF Queued
    <3> QED
      BY <3>1, <3>2
  <2>4. ~grantedTask /\ grantedTask' /\ reqResId' = resQ[1]
    BY <2>1, <2>2 DEF HandOver, Owner
  <2>5. ~Queued(c) /\ \A d \in Clients : ~Promised(d) /\ (Promised(d)' <=> d = resQ[1])
    BY <2>4 DEF Owner, ServedOnce, Promised
  <2>6. \A d \in Clients : ~Owner(d)' /\ (d # c => ~Owner(d))
    BY <2>1 DEF HandOver, Owner
  <2> QED
    BY <2>3, <2>5, <2>6 DEF Involved
<1> QED
  BY <1>1, <1>2

\* The grant makes its client the owner and involves nobody else.
LEMMA GrantedTaskInvolves ==
  ASSUME NEW c \in Clients, ArbInv, GrantedTask(c)
  PROVE  /\ Owner(c)'
         /\ \A d \in Clients : /\ ~Owner(d)
                               /\ d # c => ~Owner(d)'
                               /\ Involved(d)' <=> Involved(d)
  BY DEF ArbInv, ArbTypeOK, TaskMatchesState, GrantedTask, Involved, Owner, Queued, Promised

----------------------------------------------------------------------------
\* The arbiter's invariant holds for any number of clients that keep the
\* Resource contract.
THEOREM ArbiterCorrect == ArbSpec => []ArbInv
<1>1. ArbInit => ArbInv
  BY ArbInitInv
<1>2. ArbInv /\ [ArbNext]_arbVars => ArbInv'
  <2> SUFFICES ASSUME ArbInv, [ArbNext]_arbVars PROVE ArbInv'
    OBVIOUS
  <2>1. ASSUME NEW c \in Clients, ClientRequests(c) PROVE ArbInv'
    BY <2>1, RequestInv DEF ClientRequests
  <2>2. ASSUME NEW c \in Clients, ClientTriesAtOnce(c) PROVE ArbInv'
    BY <2>2, ImmediateRequestInv DEF ClientTriesAtOnce
  <2>3. ASSUME NEW c \in Clients, ClientReleases(c) PROVE ArbInv'
    BY <2>3, ReleaseInv DEF ClientReleases
  <2>4. ASSUME NEW c \in Clients, GrantedTask(c) PROVE ArbInv'
    BY <2>4, GrantedTaskInv
  <2>5. CASE UNCHANGED arbVars
    BY <2>5 DEF arbVars, ArbInv, ArbTypeOK, TaskMatchesState, IdleMeansNobodyWaits,
                OwnerIsClient, ServedOnce, Queued
  <2> QED
    BY <2>1, <2>2, <2>3, <2>4, <2>5 DEF ArbNext
<1> QED
  BY <1>1, <1>2, PTL DEF ArbSpec

----------------------------------------------------------------------------
(* The arbiter implements the bus service (its safety part).               *)

\* The line and its promise, seen as a set, after each change of the line.
LEMMA WaitingAfterAppend ==
  ASSUME NEW c \in Clients, resQ \in Seq(Clients), resQ' = Append(resQ, c),
         UNCHANGED <<reqResId, grantedTask>>
  PROVE  Waiting' = Waiting \cup {c}
<1>1. /\ Len(resQ') = Len(resQ) + 1
      /\ \A i \in 1 .. Len(resQ) : resQ'[i] = resQ[i]
      /\ resQ'[Len(resQ) + 1] = c
      /\ Len(resQ) \in Nat
  OBVIOUS
<1>2. \A d \in Clients : Queued(d)' <=> Queued(d) \/ d = c
  BY <1>1 DEF Queued
<1> QED
  BY <1>2 DEF Waiting, Promised

\* After the bus has been handed over, those who waited wait or are promised it.
LEMMA WaitingAfterHandOver ==
  ASSUME ArbInv, arbState = "BUSY", resQ # << >>, HandOver
  PROVE  Waiting' = Waiting
<1>1. /\ Head(resQ) = resQ[1]
      /\ Len(resQ) \in Nat /\ Len(resQ) > 0
      /\ Len(resQ') = Len(resQ) - 1
      /\ \A i \in 1 .. Len(resQ') : resQ'[i] = resQ[i + 1]
  BY DEF ArbInv, ArbTypeOK, HandOver
<1>2. \A d \in Clients : Queued(d) <=> Queued(d)' \/ d = resQ[1]
  <2> TAKE d \in Clients
  <2>1. ASSUME Queued(d) PROVE Queued(d)' \/ d = resQ[1]
    <3>1. PICK i \in 1 .. Len(resQ) : resQ[i] = d
      BY <2>1 DEF Queued
    <3>2. CASE i = 1
      BY <3>1, <3>2
    <3>3. CASE i # 1
      <4>1. i - 1 \in 1 .. Len(resQ') /\ (i - 1) + 1 = i
        BY <3>3, <1>1
      <4> QED
        BY <4>1, <3>1, <1>1 DEF Queued
    <3> QED
      BY <3>2, <3>3
  <2>2. ASSUME Queued(d)' \/ d = resQ[1] PROVE Queued(d)
    BY <2>2, <1>1 DEF Queued
  <2> QED
    BY <2>1, <2>2
<1>3. ~grantedTask /\ grantedTask' /\ reqResId' = resQ[1]
  BY <1>1 DEF HandOver, ArbInv, TaskMatchesState, ArbTypeOK
<1> QED
  BY <1>2, <1>3 DEF Waiting, Promised

\* Every step of the arbiter is a step of the bus service or changes neither
\* the holder nor the set of those who wait.
LEMMA StepRefines ==
  ASSUME ArbInv, [ArbNext]_arbVars
  PROVE  [Service!BusNext]_(Service!busVars)
<1> USE DEF Service!BusNext, Service!busVars
<1> USE ArbiterAssumption
<1>1. ASSUME NEW c \in Clients, ClientRequests(c) PROVE Service!Ask(c)
  <2>1. c \notin Waiting /\ Holder # c
    BY <1>1 DEF ClientRequests, Involved, Waiting, Holder, Owner
  <2>2. CASE arbState = "CONTROLLED"
    <3>1. Holder' = Holder
      BY <1>1, <2>2 DEF ClientRequests, Request, Holder
    <3>2. Waiting' = Waiting \cup {c}
      BY <1>1, <2>2 DEF ClientRequests, Request, Waiting, Promised, Queued,
                        ArbInv, TaskMatchesState, IdleMeansNobodyWaits
    <3> QED
      BY <2>1, <3>1, <3>2 DEF Service!Ask
  <2>3. CASE arbState # "CONTROLLED"
    <3>1. /\ resQ' = Append(resQ, c)
          /\ UNCHANGED <<arbState, resId, reqResId, grantedTask>>
      BY <1>1, <2>3 DEF ClientRequests, Request, Enqueue, Involved
    <3>2. Waiting' = Waiting \cup {c}
      BY <3>1, WaitingAfterAppend DEF ArbInv, ArbTypeOK
    <3> QED
      BY <2>1, <3>1, <3>2 DEF Service!Ask, Holder
  <2> QED
    BY <2>2, <2>3
<1>2. ASSUME NEW c \in Clients, ClientTriesAtOnce(c) PROVE Service!TakeAtOnce(c)
  <2>1. Holder = NoRes /\ Holder' = c
    BY <1>2 DEF ClientTriesAtOnce, ImmediateRequest, Holder
  <2>2. Waiting = {} /\ Waiting' = {}
    BY <1>2 DEF ClientTriesAtOnce, ImmediateRequest, Waiting, Promised, Queued,
                ArbInv, TaskMatchesState, IdleMeansNobodyWaits
  <2> QED
    BY <2>1, <2>2 DEF Service!TakeAtOnce
<1>3. ASSUME NEW c \in Clients, ClientReleases(c) PROVE Service!Give(c)
  <2>1. Holder = c /\ Holder' = NoRes
    BY <1>3 DEF ClientReleases, Release, Owner, HandOver, BackToDefault, Holder
  <2>2. Waiting' = Waiting
    <3>1. CASE resQ # << >>
      BY <1>3, <3>1, WaitingAfterHandOver DEF ClientReleases, Release, Owner
    <3>2. CASE resQ = << >>
      BY <1>3, <3>2 DEF ClientReleases, Release, BackToDefault, Waiting, Promised, Queued
    <3> QED
      BY <3>1, <3>2
  <2> QED
    BY <2>1, <2>2 DEF Service!Give
<1>4. ASSUME NEW c \in Clients, GrantedTask(c) PROVE Service!Grant(c)
  <2>1. Holder = NoRes /\ Holder' = c
    BY <1>4 DEF GrantedTask, Holder, ArbInv, TaskMatchesState
  <2>2. c \in Waiting /\ Waiting' = Waiting \ {c}
    BY <1>4 DEF GrantedTask, Waiting, Promised, Queued, ArbInv, TaskMatchesState, ServedOnce
  <2> QED
    BY <2>1, <2>2 DEF Service!Grant
<1>5. CASE UNCHANGED arbVars
  BY <1>5 DEF arbVars, Holder, Waiting, Queued, Promised
<1> QED
  BY <1>1, <1>2, <1>3, <1>4, <1>5 DEF ArbNext

\* The arbiter implements the bus service, for any number of clients: nobody
\* holds the bus without having asked, and no two hold it together.
THEOREM ArbiterImplementsService == ArbSpec => Service!BusSafety
<1>1. ArbInit => Service!BusInit
  BY DEF ArbInit, Service!BusInit, Holder, Waiting, Promised, Queued
<1> QED
  BY <1>1, ArbiterCorrect, StepRefines, PTL DEF ArbSpec, Service!BusSafety
=============================================================================
