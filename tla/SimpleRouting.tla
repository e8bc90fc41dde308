---------------------------- MODULE SimpleRouting ----------------------------
(***************************************************************************)
(* more_manual/SimpleRoutingC: the destination floods numbered route       *)
(* frames (Timer0), every node keeps the best metric and the neighbour it  *)
(* has it from, and repeats each flood once, after a random delay          *)
(* (Timer1).  A data frame that a source broadcasts makes its hearers      *)
(* potential speakers (PSP), which tell each other who they are (control   *)
(* frames); the one with the smallest id forwards the data to its next     *)
(* hop, and so does every normal node a data frame is addressed to.        *)
(*                                                                         *)
(* All three kinds of frames are sent from the one message_t packet[n],    *)
(* whose payload starts with two or three 16-bit words of each kind (w).   *)
(* Each kind has a slot of its own in the send queue of the radio:         *)
(* "queued" after send, "sent" once the radio has copied and sent packet   *)
(* (in one step, as if the copy could not be interrupted), "free" after    *)
(* sendDone.  send writes kind and destination into packet before it looks *)
(* at the slot, the length after (AMQueueEntryP, AMQueueImplP).  air[n]    *)
(* holds the frames node n's radio has received and no handler has seen    *)
(* yet.                                                                    *)
(***************************************************************************)
EXTENDS Naturals, FiniteSets, Sequences

CONSTANTS Nodes, RECV_NODE_ID,
          Link,           \* <<n, m>> : node m can hear node n
          INF,            \* the largest word, 2^16 - 1 in the code
          MAX_CNT,        \* bound: how many floods the destination starts
          LOSSY,          \* frames may be lost
          ROUNDS_APART,   \* a flood is over before the next one starts
          RX_CAP,         \* frames that wait at a radio; more are dropped
          SourceFrames,   \* payloads of the source's data frames
          SourceRange     \* the nodes that hear the source

Words == 0 .. INF
AM_BROADCAST_ADDR == INF
Kinds == {"route", "control", "data"}

ASSUME RoutingAssumption ==
  /\ Nodes \subseteq Words \ {0, INF} /\ IsFiniteSet(Nodes)
  /\ INF \in Nat /\ Cardinality(Nodes) < INF
  /\ RECV_NODE_ID \in Nodes /\ Link \subseteq Nodes \X Nodes
  /\ MAX_CNT \in Nat /\ MAX_CNT < INF /\ RX_CAP \in Nat
  /\ LOSSY \in BOOLEAN /\ ROUNDS_APART \in BOOLEAN
  /\ SourceFrames \subseteq [1 .. 3 -> Words] /\ SourceRange \subseteq Nodes

VARIABLES busy, type, cur_nexthop_node_id, cur_metric, cur_id, is_PSP, locked,
          cnt, timer0, timer1, packet, slot, air

routeVars == <<cur_nexthop_node_id, cur_metric, cur_id>>
pspVars == <<type, is_PSP, locked>>
timerVars == <<cnt, timer0, timer1>>
sendVars == <<busy, packet, slot>>
vars == <<routeVars, pspVars, timerVars, sendVars, air>>

Frame == [kind : Kinds \cup {"none"}, to : Words, len : Kinds \cup {"none"},
          w : [1 .. 3 -> Words]]

TypeOK == /\ busy \in [Nodes -> BOOLEAN]
          /\ type \in [Nodes -> {"NOR", "DST", "PSP"}]
          /\ cur_nexthop_node_id \in [Nodes -> Words]
          /\ cur_metric \in [Nodes -> Words]
          /\ cur_id \in [Nodes -> Words]
          /\ is_PSP \in [Nodes -> SUBSET Words]
          /\ locked \in [Nodes -> BOOLEAN]
          /\ cnt \in 1 .. MAX_CNT + 1
          /\ timer0 \in BOOLEAN /\ timer1 \in [Nodes -> BOOLEAN]
          /\ packet \in [Nodes -> Frame]
          /\ slot \in [Nodes -> [Kinds -> {"free", "queued", "sent"}]]
          /\ air \in [Nodes -> SUBSET Frame]

\* All nodes have booted and their radios are on.
Init == /\ busy = [n \in Nodes |-> FALSE]
        /\ type = [n \in Nodes |-> IF n = RECV_NODE_ID THEN "DST" ELSE "NOR"]
        /\ cur_nexthop_node_id = [n \in Nodes |-> 0]
        /\ cur_metric = [n \in Nodes |-> INF]
        /\ cur_id = [n \in Nodes |-> 0]
        /\ is_PSP = [n \in Nodes |-> {}]
        /\ locked = [n \in Nodes |-> FALSE]
        /\ cnt = 1
        /\ timer0 = TRUE /\ timer1 = [n \in Nodes |-> FALSE]
        /\ packet = [n \in Nodes |-> [kind |-> "none", to |-> 0, len |-> "none",
                                      w |-> [i \in 1 .. 3 |-> 0]]]
        /\ slot = [n \in Nodes |-> [k \in Kinds |-> "free"]]
        /\ air = [n \in Nodes |-> {}]

----------------------------------------------------------------------------
\* Writing the words new over the start of the payload of packet p.
Written(p, new) == [p EXCEPT !.w = [i \in 1 .. 3 |-> IF i <= Len(new) THEN new[i] ELSE @[i]]]

\* The packet p when it has been given to send, as a frame of kind k.
Addressed(p, k, to, accepted) ==
  [p EXCEPT !.kind = k, !.to = to, !.len = IF accepted THEN k ELSE @]

\* send of packet p as kind k; with mark it sets busy when it is accepted.
Send(n, p, k, to, mark) ==
  LET accepted == slot[n][k] = "free"
  IN /\ packet' = [packet EXCEPT ![n] = Addressed(p, k, to, accepted)]
     /\ slot' = [slot EXCEPT ![n][k] = IF accepted THEN "queued" ELSE @]
     /\ busy' = [busy EXCEPT ![n] = @ \/ (mark /\ accepted)]

\* packet is written although nothing is sent.
OnlyWrite(n, p) == /\ packet' = [packet EXCEPT ![n] = p]
                   /\ UNCHANGED <<slot, busy>>

Heard(n, f) == /\ f \in air[n]
               /\ air' = [air EXCEPT ![n] = @ \ {f}]

\* Nothing is under way and no node is about to send.
Quiet == \A n \in Nodes : /\ air[n] = {} /\ ~timer1[n]
                          /\ \A k \in Kinds : slot[n][k] = "free"

----------------------------------------------------------------------------
\* Timer0 of the destination: the next flood.  When the node is busy, or its
\* slot is full, the timer is not started again.
Timer0Fired ==
  /\ timer0 /\ cnt <= MAX_CNT
  /\ ROUNDS_APART => Quiet
  /\ LET n == RECV_NODE_ID
         p == Written(packet[n], <<cnt, n, 0>>)
         free == slot[n]["route"] = "free"
     IN /\ IF busy[n] THEN OnlyWrite(n, p)
                      ELSE Send(n, p, "route", AM_BROADCAST_ADDR, TRUE)
        /\ IF ~busy[n] /\ free
           THEN /\ cur_id' = [cur_id EXCEPT ![n] = cnt]
                /\ cnt' = cnt + 1
                /\ UNCHANGED timer0
           ELSE /\ timer0' = FALSE
                /\ UNCHANGED <<cnt, cur_id>>
  /\ UNCHANGED <<cur_nexthop_node_id, cur_metric, pspVars, timer1, air>>

\* Mutant of Hop: the metric of the frame is taken as it is.
HopFree(x) == x

\* rm->metric + 1, in 16 bits.
Hop(x) == (x + 1) % (INF + 1)

\* Mutant of Better: the first route is kept.
BetterThanNone(n, x) == cur_metric[n] = INF

Better(n, x) == cur_metric[n] > Hop(x)

\* AMRouteReceive.receive: w is <<id, nodeid, metric>>.
RouteReceive(n, f) ==
  /\ f.kind = "route" /\ Heard(n, f)
  /\ IF f.len = "route" /\ Better(n, f.w[3])
     THEN /\ cur_metric' = [cur_metric EXCEPT ![n] = Hop(f.w[3])]
          /\ cur_nexthop_node_id' = [cur_nexthop_node_id EXCEPT ![n] = f.w[2]]
     ELSE UNCHANGED <<cur_metric, cur_nexthop_node_id>>
  /\ IF f.len = "route" /\ cur_id[n] < f.w[1]
     THEN /\ cur_id' = [cur_id EXCEPT ![n] = f.w[1]]
          /\ timer1' = [timer1 EXCEPT ![n] = TRUE]
     ELSE UNCHANGED <<cur_id, timer1>>
  /\ UNCHANGED <<pspVars, cnt, timer0, sendVars>>

\* Timer1: the node repeats the flood.  This send does not set busy.
Timer1Fired(n) ==
  /\ timer1[n]
  /\ timer1' = [timer1 EXCEPT ![n] = FALSE]
  /\ LET p == Written(packet[n], <<cur_id[n], n, cur_metric[n]>>)
     IN IF busy[n] THEN OnlyWrite(n, p)
                   ELSE Send(n, p, "route", AM_BROADCAST_ADDR, FALSE)
  /\ UNCHANGED <<routeVars, pspVars, cnt, timer0, air>>

----------------------------------------------------------------------------
\* isSP: the node is the smallest speaker it knows of.
isSP(n, known) == n \in known /\ \A m \in known : n <= m

Room == {m \in Nodes : Cardinality(air[m]) < RX_CAP}

\* Who gets frame f of node n: a radio drops what is addressed to another node.
Hearers(n, f) == {m \in Room : <<n, m>> \in Link /\ f.to \in {m, AM_BROADCAST_ADDR}}

Broadcast(n, f, a) == \E S \in SUBSET Hearers(n, f) :
                         /\ ~LOSSY => S = Hearers(n, f)
                         /\ air' = [m \in Nodes |-> IF m \in S THEN a[m] \cup {f} ELSE a[m]]

RadioIdle(n) == \A k \in Kinds : slot[n][k] = "free"

\* AMDataReceive.receive of a data frame that is addressed to this node:
\* w is <<nodeid, counter, data>>.
DataReceiveOwn(n, f) ==
  LET p == Written(packet[n], f.w)
  IN /\ Heard(n, f)
     /\ IF ~busy[n] /\ (isSP(n, is_PSP[n]) \/ type[n] = "NOR")
        THEN Send(n, p, "data", cur_nexthop_node_id[n], TRUE)
        ELSE OnlyWrite(n, p)
     /\ UNCHANGED pspVars

\* The same of a broadcast data frame, when the node is busy or has told the
\* others already: it is a speaker now, and may be the one to forward.
DataReceiveKnown(n, f) ==
  LET known == is_PSP[n] \cup {n}
      p == Written(packet[n], f.w)
  IN /\ busy[n] \/ locked[n]
     /\ Heard(n, f)
     /\ type' = [type EXCEPT ![n] = "PSP"]
     /\ is_PSP' = [is_PSP EXCEPT ![n] = known]
     /\ IF ~busy[n] /\ isSP(n, known)
        THEN Send(n, p, "data", cur_nexthop_node_id[n], TRUE)
        ELSE OnlyWrite(n, p)
     /\ UNCHANGED locked

\* The same when it tells the others first: the control frame is sent, and
\* then its packet is overwritten with the data, before or after a radio
\* with nothing else to do has copied it.  (The control slot is full only
\* while an earlier control frame, which was refused by nobody, is pending.)
DataReceiveFirst(n, f) ==
  LET known == is_PSP[n] \cup {n}
      c == Addressed(Written(packet[n], <<n, cur_metric[n]>>), "control",
                     AM_BROADCAST_ADDR, slot[n]["control"] = "free")
  IN /\ ~busy[n] /\ ~locked[n]
     /\ f \in air[n]
     /\ type' = [type EXCEPT ![n] = "PSP"]
     /\ is_PSP' = [is_PSP EXCEPT ![n] = known]
     /\ IF slot[n]["control"] = "free"
        THEN /\ locked' = [locked EXCEPT ![n] = TRUE]
             /\ busy' = [busy EXCEPT ![n] = TRUE]
             /\ packet' = [packet EXCEPT ![n] = Written(c, f.w)]
             /\ \/ /\ slot' = [slot EXCEPT ![n]["control"] = "queued"]
                   /\ air' = [air EXCEPT ![n] = @ \ {f}]
                \/ /\ RadioIdle(n)
                   /\ slot' = [slot EXCEPT ![n]["control"] = "sent"]
                   /\ Broadcast(n, c, [air EXCEPT ![n] = @ \ {f}])
        ELSE /\ air' = [air EXCEPT ![n] = @ \ {f}]
             /\ IF isSP(n, known)
                THEN Send(n, Written(c, f.w), "data", cur_nexthop_node_id[n], TRUE)
                ELSE OnlyWrite(n, Written(c, f.w))
             /\ UNCHANGED locked

DataReceive(n, f) ==
  /\ f.kind = "data"
  /\ \/ f.len # "data" /\ Heard(n, f) /\ UNCHANGED <<pspVars, sendVars>>
     \/ f.len = "data" /\ f.to = n /\ DataReceiveOwn(n, f)
     \/ /\ f.len = "data" /\ f.to = AM_BROADCAST_ADDR
        /\ DataReceiveKnown(n, f) \/ DataReceiveFirst(n, f)
  /\ UNCHANGED <<routeVars, timerVars>>

\* AMControlReceive.receive: w starts with <<nodeid, metric>>.
ControlReceive(n, f) ==
  /\ f.kind = "control" /\ Heard(n, f)
  /\ IF f.len = "control"
     THEN /\ is_PSP' = [is_PSP EXCEPT ![n] = @ \cup {f.w[1]}]
          /\ LET p == Written(packet[n], <<f.w[1], f.w[2]>>)
             IN IF type[n] # "PSP" THEN UNCHANGED sendVars
                ELSE IF busy[n] THEN OnlyWrite(n, p)
                ELSE Send(n, p, "control", AM_BROADCAST_ADDR, TRUE)
     ELSE UNCHANGED <<is_PSP, sendVars>>
  /\ UNCHANGED <<routeVars, type, locked, timerVars>>

----------------------------------------------------------------------------
\* The radio copies packet and sends it, one message at a time.
Transmit(n, k) ==
  /\ slot[n][k] = "queued" /\ \A j \in Kinds : slot[n][j] # "sent"
  /\ slot' = [slot EXCEPT ![n][k] = "sent"]
  /\ Broadcast(n, packet[n], air)
  /\ UNCHANGED <<routeVars, pspVars, timerVars, busy, packet>>

\* Mutant of SendDone: busy is not cleared after a control frame.
SendDoneNotControl(n, k) ==
  /\ slot[n][k] = "sent"
  /\ slot' = [slot EXCEPT ![n][k] = "free"]
  /\ busy' = [busy EXCEPT ![n] = @ /\ k = "control"]
  /\ UNCHANGED <<routeVars, pspVars, timerVars, packet, air>>

\* AMControlSend.sendDone, AMDataSend.sendDone, AMRouteSend.sendDone: each
\* clears the one busy flag.
SendDone(n, k) ==
  /\ slot[n][k] = "sent"
  /\ slot' = [slot EXCEPT ![n][k] = "free"]
  /\ busy' = [busy EXCEPT ![n] = FALSE]
  /\ UNCHANGED <<routeVars, pspVars, timerVars, packet, air>>

\* The source of the data, which is not one of the nodes, broadcasts.
SourceSends(w) ==
  /\ \E S \in SUBSET (SourceRange \cap Room) :
       /\ ~LOSSY => S = SourceRange \cap Room
       /\ air' = [n \in Nodes |->
            IF n \in S THEN air[n] \cup {[kind |-> "data", to |-> AM_BROADCAST_ADDR,
                                          len |-> "data", w |-> w]}
                       ELSE air[n]]
  /\ UNCHANGED <<routeVars, pspVars, timerVars, sendVars>>

Receive(n) == \E f \in air[n] : RouteReceive(n, f) \/ DataReceive(n, f) \/ ControlReceive(n, f)

NodeStep(n) == \/ Timer1Fired(n) \/ Receive(n)
               \/ \E k \in Kinds : Transmit(n, k) \/ SendDone(n, k)

Next == \/ Timer0Fired
        \/ \E n \in Nodes : NodeStep(n)
        \/ \E w \in SourceFrames : SourceSends(w)

Fairness == /\ WF_vars(Timer0Fired)
            /\ \A n \in Nodes :
                 /\ WF_vars(Timer1Fired(n)) /\ WF_vars(Receive(n))
                 /\ WF_vars(\E k \in Kinds : Transmit(n, k))
                 /\ WF_vars(\E k \in Kinds : SendDone(n, k))

Spec == Init /\ [][Next]_vars
FairSpec == Spec /\ Fairness

----------------------------------------------------------------------------
Reached == {n \in Nodes : cur_metric[n] < INF}

\* The next hop of a node is the destination or closer to it than the node:
\* following next hops never returns to a node (the route update at
\* SimpleRoutingC.nc:209-214, with frames that are older than the metric of
\* the node that sent them).  The destination's own entry is not followed as
\* long as there is no data traffic.
LoopFree == \A n \in Reached :
              LET p == cur_nexthop_node_id[n]
              IN p \in Nodes /\ (p = RECV_NODE_ID \/ cur_metric[p] < cur_metric[n])

\* What a route frame may say: where it comes from, and a metric which that
\* node has, or had.  No metric exceeds the number of nodes with a route.
GenuineRoute(f) == /\ f.kind = "route" /\ f.len = "route"
                   /\ f.to = AM_BROADCAST_ADDR
                   /\ f.w[2] \in Nodes /\ f.w[3] <= Cardinality(Reached)
                   /\ f.w[2] = RECV_NODE_ID \/ cur_metric[f.w[2]] <= f.w[3]

\* With no data traffic only genuine routes go round, and metric + 1 does not
\* overflow (SimpleRoutingC.nc:67-86, 201-245).
RouteInv == /\ TypeOK
            /\ \A n \in Nodes :
                 /\ \A f \in air[n] : GenuineRoute(f)
                 /\ slot[n]["data"] = "free" /\ slot[n]["control"] = "free"
                 /\ slot[n]["route"] = "queued" => GenuineRoute(packet[n])
                 /\ timer1[n] => n \in Reached
                 /\ n \in Reached => cur_metric[n] <= Cardinality(Reached)
            /\ LoopFree

\* The nodes that k hops, or fewer, connect with the destination.
Within[k \in Nat] == IF k = 0 THEN {RECV_NODE_ID}
                     ELSE LET near == Within[k - 1]
                          IN near \cup {m \in Nodes : \E n \in near : <<n, m>> \in Link}

\* A metric is the length of a way that exists, whatever is lost
\* (SimpleRoutingC.nc:209-211).
MetricIsReal == \A n \in Reached : n \in Within[cur_metric[n]]

\* When nothing is lost and floods do not overlap, k floods give every node
\* within k hops its shortest metric, although each node repeats a flood
\* only once and perhaps before it has heard the best way
\* (SimpleRoutingC.nc:226-229).
FloodsSettle == Quiet => \A k \in 1 .. cnt - 1 : \A n \in Within[k] \ {RECV_NODE_ID} :
                           cur_metric[n] <= k

\* ... so that in the end every node has its shortest metric.
Converges == <>[](\A n \in Nodes \ {RECV_NODE_ID} :
                    /\ n \in Reached
                    /\ \A k \in 0 .. cur_metric[n] - 1 : n \notin Within[k])

\* The lock of the one packet is always given back, although Timer1's sends do
\* not set it and any sendDone clears it (SimpleRoutingC.nc:73-75, 89-113,
\* 148-150, 161-165, 189-190, 242).
BusyClears == \A n \in Nodes : busy[n] ~> ~busy[n]

=============================================================================
