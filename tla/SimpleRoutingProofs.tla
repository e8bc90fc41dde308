------------------------- MODULE SimpleRoutingProofs -------------------------
(***************************************************************************)
(* SimpleRouting in any network, while there is no data traffic: whatever  *)
(* is lost, routes are free of loops and a metric is the length of a real  *)
(* way.  When nothing is lost and floods do not overlap, after k floods    *)
(* the metrics of the nodes within k hops are their distances.             *)
(***************************************************************************)
EXTENDS SimpleRouting, FiniteSetTheorems, WellFoundedInduction, TLAPS

\* No metric can overflow: fewer nodes have a route than there are words.
LEMMA ReachedBound ==
  /\ IsFiniteSet(Reached) /\ Cardinality(Reached) \in Nat
  /\ Cardinality(Reached) <= Cardinality(Nodes)
  /\ Cardinality(Nodes) \in Nat /\ Cardinality(Nodes) < INF
<1>1. IsFiniteSet(Nodes) /\ Reached \subseteq Nodes
  BY RoutingAssumption DEF Reached
<1>2. /\ IsFiniteSet(Reached) /\ Cardinality(Reached) <= Cardinality(Nodes)
  BY <1>1, FS_Subset
<1> QED
  BY <1>1, <1>2, FS_CardinalityType, RoutingAssumption

\* When metrics only fall, no node loses its route.
LEMMA ReachedGrows ==
  ASSUME TypeOK, TypeOK', \A n \in Nodes : cur_metric'[n] <= cur_metric[n]
  PROVE  /\ Reached \subseteq Reached'
         /\ Cardinality(Reached) <= Cardinality(Reached')
         /\ Cardinality(Reached') \in Nat /\ Cardinality(Reached') <= Cardinality(Nodes)
         /\ \A n \in Reached' \ Reached : Cardinality(Reached) + 1 <= Cardinality(Reached')
<1>1. Reached \subseteq Reached'
  <2>1. \A n \in Nodes : cur_metric[n] \in Nat /\ cur_metric'[n] \in Nat
    BY DEF TypeOK, Words
  <2> QED
    BY <2>1, RoutingAssumption DEF Reached
<1>2. Reached' \subseteq Nodes /\ IsFiniteSet(Nodes)
  BY RoutingAssumption DEF Reached
<1>3. /\ IsFiniteSet(Reached') /\ Cardinality(Reached') \in Nat
      /\ Cardinality(Reached') <= Cardinality(Nodes)
  BY <1>2, FS_Subset, FS_CardinalityType
<1>4. Cardinality(Reached) <= Cardinality(Reached')
  BY <1>1, <1>3, FS_Subset
<1>5. ASSUME NEW n \in Reached', n \notin Reached
      PROVE  Cardinality(Reached) + 1 <= Cardinality(Reached')
  <2>1. IsFiniteSet(Reached) /\ Cardinality(Reached) \in Nat
    BY ReachedBound
  <2>2. Cardinality(Reached \cup {n}) = Cardinality(Reached) + 1
    BY <1>5, <2>1, FS_AddElement
  <2>3. Reached \cup {n} \subseteq Reached'
    BY <1>1, <1>5
  <2> QED
    BY <1>3, <2>2, <2>3, FS_Subset
<1> QED
  BY <1>1, <1>3, <1>4, <1>5

\* A genuine frame stays genuine when metrics only fall.
LEMMA GenuineStays ==
  ASSUME TypeOK, TypeOK', \A n \in Nodes : cur_metric'[n] <= cur_metric[n],
         NEW f \in Frame, GenuineRoute(f)
  PROVE  GenuineRoute(f)'
<1>1. /\ Cardinality(Reached) <= Cardinality(Reached') /\ Cardinality(Reached') \in Nat
  BY ReachedGrows
<1>2. Cardinality(Reached) \in Nat
  BY ReachedBound
<1>3. f.w[3] \in Nat /\ f.w[2] \in Nodes
  BY DEF GenuineRoute, Frame, Words
<1>4. cur_metric[f.w[2]] \in Nat /\ cur_metric'[f.w[2]] \in Nat
  BY <1>3 DEF TypeOK, Words
<1> QED
  BY <1>1, <1>2, <1>3, <1>4 DEF GenuineRoute

\* The words 1 to 3 of a packet that is written with three words.
LEMMA WrittenThree ==
  ASSUME NEW p \in Frame, NEW a \in Words, NEW b \in Words, NEW c \in Words
  PROVE  /\ Written(p, <<a, b, c>>) \in Frame /\ Written(p, <<a, b, c>>).w[1] = a
         /\ Written(p, <<a, b, c>>).w[2] = b /\ Written(p, <<a, b, c>>).w[3] = c
         /\ Written(p, <<a, b, c>>).kind = p.kind /\ Written(p, <<a, b, c>>).to = p.to
         /\ Written(p, <<a, b, c>>).len = p.len
<1>1. Written(p, <<a, b, c>>) = [p EXCEPT !.w = [i \in 1 .. 3 |-> IF i <= 3 THEN <<a, b, c>>[i] ELSE p.w[i]]]
  BY DEF Written, Frame
<1>2. [i \in 1 .. 3 |-> IF i <= 3 THEN <<a, b, c>>[i] ELSE p.w[i]] \in [1 .. 3 -> Words]
  OBVIOUS
<1> QED
  BY <1>1, <1>2 DEF Frame

\* A route frame that node n writes and sends, or only writes over a packet
\* that was one, keeps types and pending route frames genuine.
LEMMA RouteSend ==
  ASSUME TypeOK, NEW n \in Nodes, NEW p \in Frame, NEW mark \in BOOLEAN,
         slot[n]["route"] = "queued" => p.kind = "route" /\ p.len = "route"
                                        /\ p.to = AM_BROADCAST_ADDR,
         \/ Send(n, p, "route", AM_BROADCAST_ADDR, mark)
         \/ OnlyWrite(n, p)
  PROVE  /\ packet' \in [Nodes -> Frame]
         /\ slot' \in [Nodes -> [Kinds -> {"free", "queued", "sent"}]]
         /\ busy' \in [Nodes -> BOOLEAN]
         /\ \A m \in Nodes \ {n} : packet'[m] = packet[m] /\ slot'[m] = slot[m]
         /\ slot'[n]["data"] = slot[n]["data"] /\ slot'[n]["control"] = slot[n]["control"]
         /\ packet'[n].w = p.w
         /\ slot'[n]["route"] = "queued" =>
              packet'[n].kind = "route" /\ packet'[n].len = "route"
              /\ packet'[n].to = AM_BROADCAST_ADDR
<1>0. "route" \in Kinds /\ AM_BROADCAST_ADDR \in Words
  BY RoutingAssumption DEF Kinds, Words, AM_BROADCAST_ADDR
<1>1. CASE OnlyWrite(n, p)
  BY <1>1 DEF OnlyWrite, TypeOK
<1>2. CASE Send(n, p, "route", AM_BROADCAST_ADDR, mark)
  <2> DEFINE ok == slot[n]["route"] = "free"
             q == Addressed(p, "route", AM_BROADCAST_ADDR, ok)
  <2>1. /\ q \in Frame /\ q.w = p.w /\ q.kind = "route" /\ q.to = AM_BROADCAST_ADDR
        /\ q.len = IF ok THEN "route" ELSE p.len
    BY <1>0 DEF Addressed, Frame
  <2>2. /\ packet' = [packet EXCEPT ![n] = q]
        /\ slot' = [slot EXCEPT ![n]["route"] = IF ok THEN "queued" ELSE @]
        /\ busy' = [busy EXCEPT ![n] = @ \/ (mark /\ ok)]
    BY <1>2 DEF Send
  <2>3. slot'[n]["route"] = "queued" => packet'[n].len = "route"
    BY <2>1, <2>2, <1>0 DEF TypeOK
  <2>4. busy' \in [Nodes -> BOOLEAN]
    BY <2>2 DEF TypeOK
  <2>5. slot' \in [Nodes -> [Kinds -> {"free", "queued", "sent"}]]
    BY <2>2, <1>0 DEF TypeOK
  <2> HIDE DEF q, ok
  <2> QED
    BY <2>1, <2>2, <2>3, <2>4, <2>5 DEF TypeOK, Kinds
<1> QED
  BY <1>1, <1>2

\* Where metrics and next hops stay, so do routes and what frames may say.
LEMMA SameRoutes ==
  ASSUME UNCHANGED <<cur_metric, cur_nexthop_node_id>>, LoopFree
  PROVE  LoopFree' /\ Reached' = Reached /\ \A f \in Frame : GenuineRoute(f)' <=> GenuineRoute(f)
  BY DEF LoopFree, Reached, GenuineRoute

\* A node that sends or writes a genuine route keeps the invariant.
LEMMA RouteSendInv ==
  ASSUME RouteInv, NEW n \in Nodes, NEW id \in Words, NEW x \in Words, NEW mark \in BOOLEAN,
         UNCHANGED <<cur_metric, cur_nexthop_node_id, air, type, is_PSP, locked>>,
         x <= Cardinality(Reached), n = RECV_NODE_ID \/ cur_metric[n] <= x,
         cur_id' \in [Nodes -> Words], cnt' \in 1 .. MAX_CNT + 1, timer0' \in BOOLEAN,
         timer1' \in [Nodes -> BOOLEAN], \A m \in Nodes : timer1'[m] => timer1[m],
         \/ Send(n, Written(packet[n], <<id, n, x>>), "route", AM_BROADCAST_ADDR, mark)
         \/ OnlyWrite(n, Written(packet[n], <<id, n, x>>))
  PROVE  RouteInv'
<1> DEFINE p == Written(packet[n], <<id, n, x>>)
<1>1. TypeOK /\ LoopFree /\ n \in Words
  BY RoutingAssumption DEF RouteInv
<1>2. /\ p \in Frame /\ p.w[2] = n /\ p.w[3] = x
      /\ p.kind = packet[n].kind /\ p.to = packet[n].to /\ p.len = packet[n].len
  BY <1>1, WrittenThree DEF TypeOK
<1>3. slot[n]["route"] = "queued" => p.kind = "route" /\ p.len = "route" /\ p.to = AM_BROADCAST_ADDR
  BY <1>2 DEF RouteInv, GenuineRoute
<1> HIDE DEF p
<1>4. /\ packet' \in [Nodes -> Frame]
      /\ slot' \in [Nodes -> [Kinds -> {"free", "queued", "sent"}]]
      /\ busy' \in [Nodes -> BOOLEAN]
      /\ \A m \in Nodes \ {n} : packet'[m] = packet[m] /\ slot'[m] = slot[m]
      /\ slot'[n]["data"] = slot[n]["data"] /\ slot'[n]["control"] = slot[n]["control"]
      /\ packet'[n].w = p.w
      /\ slot'[n]["route"] = "queued" =>
           packet'[n].kind = "route" /\ packet'[n].len = "route"
           /\ packet'[n].to = AM_BROADCAST_ADDR
  BY <1>1, <1>2, <1>3, RouteSend DEF p
<1>5. TypeOK'
  BY <1>1, <1>4 DEF TypeOK
<1>6. LoopFree' /\ Reached' = Reached /\ \A f \in Frame : GenuineRoute(f)' <=> GenuineRoute(f)
  BY <1>1, SameRoutes
<1>7. slot'[n]["route"] = "queued" => GenuineRoute(packet[n])'
  BY <1>2, <1>4, <1>6 DEF GenuineRoute
<1>8. \A m \in Nodes : packet'[m] \in Frame /\ air[m] \subseteq Frame
  BY <1>1, <1>4 DEF TypeOK
<1>9. \A m \in Nodes : slot'[m]["route"] = "queued" => GenuineRoute(packet[m])'
  <2>1. ASSUME NEW m \in Nodes, m # n, slot'[m]["route"] = "queued" PROVE GenuineRoute(packet[m])'
    <3>1. packet'[m] = packet[m] /\ GenuineRoute(packet[m])
      BY <1>4, <2>1 DEF RouteInv
    <3> QED
      BY <1>6, <3>1 DEF GenuineRoute
  <2> QED
    BY <1>7, <2>1
<1>10. \A m \in Nodes : slot'[m]["data"] = "free" /\ slot'[m]["control"] = "free"
  BY <1>4 DEF RouteInv
<1>11. \A m \in Nodes : \A g \in air'[m] : GenuineRoute(g)'
  BY <1>6, <1>8 DEF RouteInv
<1>12. \A m \in Nodes : /\ timer1'[m] => m \in Reached'
                        /\ m \in Reached' => cur_metric'[m] <= Cardinality(Reached')
  BY <1>6 DEF RouteInv
<1> QED
  BY <1>5, <1>6, <1>9, <1>10, <1>11, <1>12 DEF RouteInv

\* The destination starts a flood.
LEMMA Timer0Inv ==
  ASSUME RouteInv, Timer0Fired
  PROVE  RouteInv'
<1> DEFINE n == RECV_NODE_ID
           p == Written(packet[n], <<cnt, n, 0>>)
<1>1. /\ n \in Nodes /\ cnt \in Words /\ 0 \in Words /\ 0 <= Cardinality(Reached)
      /\ cnt + 1 \in 1 .. MAX_CNT + 1
  BY RoutingAssumption, ReachedBound DEF Timer0Fired, RouteInv, TypeOK, Words
<1>2. /\ cur_id' \in [Nodes -> Words] /\ cnt' \in 1 .. MAX_CNT + 1 /\ timer0' \in BOOLEAN
      /\ timer1' = timer1 /\ timer1' \in [Nodes -> BOOLEAN]
  BY <1>1 DEF Timer0Fired, RouteInv, TypeOK
<1>3. UNCHANGED <<cur_metric, cur_nexthop_node_id, air, type, is_PSP, locked>>
  BY DEF Timer0Fired, pspVars
<1>4. Send(n, p, "route", AM_BROADCAST_ADDR, TRUE) \/ OnlyWrite(n, p)
  BY DEF Timer0Fired
<1> QED
  BY <1>1, <1>2, <1>3, <1>4, RouteSendInv

\* A node repeats a flood.
LEMMA Timer1Inv ==
  ASSUME RouteInv, NEW n \in Nodes, Timer1Fired(n)
  PROVE  RouteInv'
<1> DEFINE p == Written(packet[n], <<cur_id[n], n, cur_metric[n]>>)
<1>1. /\ cur_id[n] \in Words /\ cur_metric[n] \in Words
      /\ cur_metric[n] <= Cardinality(Reached) /\ cur_metric[n] <= cur_metric[n]
  BY DEF Timer1Fired, RouteInv, TypeOK, Words
<1>2. /\ cur_id' \in [Nodes -> Words] /\ cnt' \in 1 .. MAX_CNT + 1 /\ timer0' \in BOOLEAN
      /\ timer1' \in [Nodes -> BOOLEAN] /\ \A m \in Nodes : timer1'[m] => timer1[m]
  BY DEF Timer1Fired, RouteInv, TypeOK, routeVars
<1>3. UNCHANGED <<cur_metric, cur_nexthop_node_id, air, type, is_PSP, locked>>
  BY DEF Timer1Fired, pspVars, routeVars
<1>4. Send(n, p, "route", AM_BROADCAST_ADDR, FALSE) \/ OnlyWrite(n, p)
  BY DEF Timer1Fired
<1> QED
  BY <1>1, <1>2, <1>3, <1>4, RouteSendInv

\* A route that is heard: the metric falls to one more than a metric which
\* the sender has, or had.
LEMMA RouteReceiveInv ==
  ASSUME RouteInv, NEW n \in Nodes, NEW f \in air[n], RouteReceive(n, f)
  PROVE  RouteInv'
<1>1. /\ TypeOK /\ LoopFree /\ f \in Frame /\ GenuineRoute(f)
      /\ Cardinality(Reached) \in Nat /\ Cardinality(Reached) < INF /\ INF \in Nat
  BY ReachedBound, RoutingAssumption DEF RouteInv, TypeOK
<1>2. /\ f.w[1] \in Words /\ f.w[2] \in Nodes /\ f.w[3] \in Nat /\ f.w[3] <= Cardinality(Reached)
      /\ Hop(f.w[3]) = f.w[3] + 1 /\ f.w[3] + 1 \in Words /\ f.w[2] \in Words
      /\ f.len = "route"
  BY <1>1, RoutingAssumption DEF GenuineRoute, Frame, Words, Hop
<1>3. \A m \in Nodes : cur_metric[m] \in Nat /\ cur_metric[m] <= INF
  BY <1>1 DEF TypeOK, Words
<1>4. /\ UNCHANGED <<type, is_PSP, locked, cnt, timer0, busy, packet, slot>>
      /\ air' = [air EXCEPT ![n] = @ \ {f}]
  BY DEF RouteReceive, Heard, pspVars, sendVars
<1>5. \/ /\ cur_metric[n] > f.w[3] + 1
         /\ cur_metric' = [cur_metric EXCEPT ![n] = f.w[3] + 1]
         /\ cur_nexthop_node_id' = [cur_nexthop_node_id EXCEPT ![n] = f.w[2]]
      \/ /\ cur_metric[n] <= f.w[3] + 1
         /\ UNCHANGED <<cur_metric, cur_nexthop_node_id>>
  BY <1>2, <1>3 DEF RouteReceive, Better
<1>6. /\ cur_id' \in [Nodes -> Words] /\ timer1' \in [Nodes -> BOOLEAN]
      /\ \A m \in Nodes \ {n} : timer1'[m] = timer1[m]
  BY <1>1, <1>2 DEF RouteReceive, TypeOK
<1>7. cur_metric' \in [Nodes -> Words] /\ cur_nexthop_node_id' \in [Nodes -> Words]
  <2>1. cur_metric \in [Nodes -> Words] /\ cur_nexthop_node_id \in [Nodes -> Words]
    BY <1>1 DEF TypeOK
  <2> QED
    BY <1>2, <1>5, <2>1
<1>8. TypeOK'
  BY <1>1, <1>4, <1>6, <1>7 DEF TypeOK
<1>9. \A m \in Nodes : cur_metric'[m] <= cur_metric[m] /\ cur_metric'[m] \in Nat
  BY <1>1, <1>2, <1>3, <1>5 DEF TypeOK
<1>10. /\ Reached \subseteq Reached' /\ Cardinality(Reached) <= Cardinality(Reached')
       /\ Cardinality(Reached') \in Nat
       /\ \A m \in Reached' \ Reached : Cardinality(Reached) + 1 <= Cardinality(Reached')
  BY <1>1, <1>8, <1>9, ReachedGrows
<1>11. \A g \in Frame : GenuineRoute(g) => GenuineRoute(g)'
  BY <1>1, <1>8, <1>9, GenuineStays
<1>12. n \in Reached' /\ cur_metric'[n] <= Cardinality(Reached')
  <2>1. CASE cur_metric[n] > f.w[3] + 1
    <3>1. cur_metric'[n] = f.w[3] + 1 /\ cur_metric'[n] < INF
      BY <1>1, <1>2, <1>3, <1>5, <2>1 DEF TypeOK
    <3>2. n \in Reached'
      BY <3>1 DEF Reached
    <3>3. CASE n \in Reached
      <4>1. cur_metric[n] <= Cardinality(Reached)
        BY <3>3 DEF RouteInv
      <4> QED
        BY <1>1, <1>3, <1>9, <1>10, <3>2, <4>1
    <3>4. CASE n \notin Reached
      <4>1. Cardinality(Reached) + 1 <= Cardinality(Reached')
        BY <1>10, <3>2, <3>4
      <4> QED
        BY <1>1, <1>2, <1>10, <3>1, <3>2, <4>1
    <3> QED
      BY <3>3, <3>4
  <2>2. CASE cur_metric[n] <= f.w[3] + 1
    <3>1. cur_metric' = cur_metric
      BY <1>2, <1>3, <1>5, <2>2
    <3>2. Cardinality(Reached) + 1 <= INF
      BY <1>1
    <3>3. n \in Reached
      <4>1. SUFFICES ASSUME cur_metric[n] >= INF PROVE FALSE
        BY <1>1, <1>3 DEF Reached
      <4>2. Cardinality(Reached) + 1 <= Cardinality(Nodes)
        <5>1. n \notin Reached /\ Reached \cup {n} \subseteq Nodes /\ IsFiniteSet(Nodes)
          BY <4>1, <1>1, <1>3, RoutingAssumption DEF Reached
        <5>2. Cardinality(Reached \cup {n}) = Cardinality(Reached) + 1
          BY <5>1, ReachedBound, FS_AddElement
        <5> QED
          BY <5>1, <5>2, FS_Subset
      <4> QED
        BY <1>1, <1>2, <1>3, <2>2, <4>1, <4>2, ReachedBound
    <3>4. cur_metric[n] <= Cardinality(Reached)
      BY <3>3 DEF RouteInv
    <3> QED
      BY <1>1, <1>3, <1>10, <3>1, <3>3, <3>4
  <2> QED
    BY <1>2, <1>3, <2>1, <2>2
<1>13. \A m \in Nodes : m \in Reached' => cur_metric'[m] <= Cardinality(Reached')
  <2>1. ASSUME NEW m \in Nodes, m # n, m \in Reached' PROVE cur_metric'[m] <= Cardinality(Reached')
    <3>1. cur_metric'[m] = cur_metric[m] /\ m \in Reached
      BY <1>1, <1>5, <2>1 DEF Reached, TypeOK
    <3>2. cur_metric[m] <= Cardinality(Reached)
      BY <3>1 DEF RouteInv
    <3> QED
      BY <1>1, <1>3, <1>10, <3>1, <3>2
  <2> QED
    BY <1>12, <2>1
<1>14. LoopFree'
  <2>1. SUFFICES ASSUME NEW m \in Reached'
                 PROVE  /\ cur_nexthop_node_id'[m] \in Nodes
                        /\ \/ cur_nexthop_node_id'[m] = RECV_NODE_ID
                           \/ cur_metric'[cur_nexthop_node_id'[m]] < cur_metric'[m]
    BY DEF LoopFree
  <2>2. m \in Nodes
    BY <2>1 DEF Reached
  <2>3. CASE m = n /\ cur_metric[n] > f.w[3] + 1
    <3>1. cur_nexthop_node_id'[m] = f.w[2] /\ cur_metric'[m] = f.w[3] + 1
      BY <1>1, <1>2, <1>3, <1>5, <2>3 DEF TypeOK
    <3>2. f.w[2] = RECV_NODE_ID \/ cur_metric'[f.w[2]] <= f.w[3]
      <4>1. f.w[2] = RECV_NODE_ID \/ cur_metric[f.w[2]] <= f.w[3]
        BY <1>1 DEF GenuineRoute
      <4> QED
        BY <1>2, <1>3, <1>9, <4>1
    <3> QED
      BY <1>2, <1>9, <3>1, <3>2
  <2>4. CASE m # n \/ cur_metric[n] <= f.w[3] + 1
    <3>1. cur_nexthop_node_id'[m] = cur_nexthop_node_id[m] /\ cur_metric'[m] = cur_metric[m]
      BY <1>1, <1>2, <1>3, <1>5, <2>2, <2>4 DEF TypeOK
    <3>2. m \in Reached
      BY <2>1, <2>2, <3>1 DEF Reached
    <3>3. /\ cur_nexthop_node_id[m] \in Nodes
          /\ \/ cur_nexthop_node_id[m] = RECV_NODE_ID
             \/ cur_metric[cur_nexthop_node_id[m]] < cur_metric[m]
      BY <1>1, <3>2 DEF LoopFree
    <3> QED
      BY <1>3, <1>9, <2>2, <3>1, <3>3
  <2> QED
    BY <1>2, <1>3, <2>3, <2>4
<1>15. \A m \in Nodes : /\ air[m] \subseteq Frame /\ air'[m] \subseteq air[m]
                        /\ packet[m] \in Frame
  BY <1>1, <1>4 DEF TypeOK
<1>16. \A m \in Nodes : timer1'[m] => m \in Reached'
  BY <1>6, <1>10, <1>12 DEF RouteInv
<1>17. \A m \in Nodes : \A g \in air'[m] : GenuineRoute(g)'
  BY <1>11, <1>15 DEF RouteInv
<1>18. \A m \in Nodes : slot'[m]["route"] = "queued" => GenuineRoute(packet[m])'
  <2>1. ASSUME NEW m \in Nodes, slot'[m]["route"] = "queued" PROVE GenuineRoute(packet[m])'
    <3>1. packet' = packet /\ GenuineRoute(packet[m])
      BY <1>4, <2>1 DEF RouteInv
    <3> QED
      BY <1>11, <1>15, <3>1 DEF GenuineRoute
  <2> QED
    BY <2>1
<1>19. \A m \in Nodes : slot'[m]["data"] = "free" /\ slot'[m]["control"] = "free"
  BY <1>4 DEF RouteInv
<1> QED
  BY <1>8, <1>13, <1>14, <1>16, <1>17, <1>18, <1>19 DEF RouteInv

\* The radio sends a packet, or reports it sent.
LEMMA RadioInv ==
  ASSUME RouteInv, NEW n \in Nodes, NEW k \in Kinds, Transmit(n, k) \/ SendDone(n, k)
  PROVE  RouteInv'
<1>1. TypeOK /\ LoopFree
  BY DEF RouteInv
<1>2. UNCHANGED <<routeVars, pspVars, timerVars, packet>>
  BY DEF Transmit, SendDone
<1>3. LoopFree' /\ Reached' = Reached /\ \A f \in Frame : GenuineRoute(f)' <=> GenuineRoute(f)
  BY <1>1, <1>2, SameRoutes DEF routeVars
<1>4. /\ slot' \in [Nodes -> [Kinds -> {"free", "queued", "sent"}]]
      /\ \A m \in Nodes : /\ slot'[m]["route"] = "queued" => slot[m]["route"] = "queued"
                          /\ slot[m]["data"] = "free" => slot'[m]["data"] = "free"
                          /\ slot[m]["control"] = "free" => slot'[m]["control"] = "free"
  <2>1. \E x \in {"free", "sent"} : slot' = [slot EXCEPT ![n][k] = x] /\ slot[n][k] # "free"
    BY DEF Transmit, SendDone
  <2> QED
    BY <1>1, <2>1 DEF TypeOK, Kinds
<1>5. busy' \in [Nodes -> BOOLEAN]
  BY <1>1 DEF TypeOK, Transmit, SendDone
<1>6. \A m \in Nodes : \A f \in air'[m] : f \in Frame /\ GenuineRoute(f)
  <2>1. CASE Transmit(n, k)
    <3>1. slot[n][k] = "queued" /\ packet[n] \in Frame
      BY <1>1, <2>1 DEF Transmit, TypeOK
    <3>2. GenuineRoute(packet[n])
      BY <3>1 DEF RouteInv, Kinds
    <3>3. PICK S \in SUBSET Hearers(n, packet[n]) :
            air' = [m \in Nodes |-> IF m \in S THEN air[m] \cup {packet[n]} ELSE air[m]]
      BY <2>1 DEF Transmit, Broadcast
    <3> QED
      BY <1>1, <3>1, <3>2, <3>3 DEF RouteInv, TypeOK
  <2>2. CASE SendDone(n, k)
    BY <1>1, <2>2 DEF SendDone, RouteInv, TypeOK
  <2> QED
    BY <2>1, <2>2
<1>7. air' \in [Nodes -> SUBSET Frame]
  <2>1. CASE Transmit(n, k)
    <3>1. PICK S \in SUBSET Hearers(n, packet[n]) :
            air' = [m \in Nodes |-> IF m \in S THEN air[m] \cup {packet[n]} ELSE air[m]]
      BY <2>1 DEF Transmit, Broadcast
    <3>2. \A m \in Nodes : air[m] \in SUBSET Frame /\ packet[n] \in Frame
      BY <1>1 DEF TypeOK
    <3> QED
      BY <3>1, <3>2
  <2>2. CASE SendDone(n, k)
    BY <1>1, <2>2 DEF SendDone, TypeOK
  <2> QED
    BY <2>1, <2>2
<1>8. TypeOK'
  BY <1>1, <1>2, <1>4, <1>5, <1>7 DEF TypeOK, routeVars, pspVars, timerVars
<1>9. \A m \in Nodes : slot'[m]["route"] = "queued" => GenuineRoute(packet[m])'
  <2>1. ASSUME NEW m \in Nodes, slot'[m]["route"] = "queued" PROVE GenuineRoute(packet[m])'
    <3>1. slot[m]["route"] = "queued"
      BY <1>4, <2>1
    <3>2. GenuineRoute(packet[m])
      BY <3>1 DEF RouteInv
    <3>3. packet[m] \in Frame
      BY <1>1 DEF TypeOK
    <3>4. packet' = packet /\ cur_metric' = cur_metric /\ Reached' = Reached
      BY <1>2, <1>3 DEF routeVars
    <3> QED
      BY <3>2, <3>3, <3>4 DEF GenuineRoute
  <2> QED
    BY <2>1
<1>10. \A m \in Nodes : /\ timer1'[m] => m \in Reached'
                        /\ m \in Reached' => cur_metric'[m] <= Cardinality(Reached')
  BY <1>2, <1>3 DEF RouteInv, routeVars, timerVars
<1>11. \A m \in Nodes : \A f \in air'[m] : GenuineRoute(f)'
  BY <1>3, <1>6
<1>12. \A m \in Nodes : slot'[m]["data"] = "free" /\ slot'[m]["control"] = "free"
  BY <1>4 DEF RouteInv
<1> QED
  BY <1>3, <1>8, <1>9, <1>10, <1>11, <1>12 DEF RouteInv

\* Every step keeps the invariant, when nobody sends data.
LEMMA RouteStep ==
  ASSUME SourceFrames = {}, RouteInv, [Next]_vars
  PROVE  RouteInv'
<1>1. CASE Timer0Fired
  BY <1>1, Timer0Inv
<1>2. ASSUME NEW n \in Nodes, NodeStep(n) PROVE RouteInv'
  <2>1. CASE Timer1Fired(n)
    BY <2>1, Timer1Inv
  <2>2. CASE Receive(n)
    <3>1. PICK f \in air[n] : RouteReceive(n, f) \/ DataReceive(n, f) \/ ControlReceive(n, f)
      BY <2>2 DEF Receive
    <3>2. f.kind = "route"
      BY DEF RouteInv, GenuineRoute
    <3> QED
      BY <3>1, <3>2, RouteReceiveInv DEF DataReceive, ControlReceive
  <2>3. CASE \E k \in Kinds : Transmit(n, k) \/ SendDone(n, k)
    BY <2>3, RadioInv
  <2> QED
    BY <1>2, <2>1, <2>2, <2>3 DEF NodeStep
<1>3. CASE UNCHANGED vars
  <2>1. UNCHANGED <<cur_metric, cur_nexthop_node_id, slot, packet, air, timer1>>
    BY <1>3 DEF vars, routeVars, sendVars, timerVars
  <2>2. TypeOK'
    BY <1>3 DEF RouteInv, TypeOK, vars, routeVars, pspVars, sendVars, timerVars
  <2> QED
    BY <2>1, <2>2 DEF RouteInv, LoopFree, Reached, GenuineRoute
<1> QED
  BY <1>1, <1>2, <1>3 DEF Next

\* Nothing has a route at first.
LEMMA RouteInit ==
  ASSUME Init
  PROVE  RouteInv
<1>1. TypeOK
  BY RoutingAssumption DEF Init, TypeOK, Frame, Words, Kinds
<1>2. \A n \in Nodes : n \notin Reached
  BY RoutingAssumption DEF Init, Reached
<1>3. LoopFree
  BY <1>2 DEF LoopFree, Reached
<1>4. \A n \in Nodes : /\ air[n] = {} /\ ~timer1[n]
                       /\ \A k \in Kinds : slot[n][k] = "free"
  BY DEF Init
<1> QED
  BY <1>1, <1>2, <1>3, <1>4 DEF RouteInv, Kinds

\* The inductive invariant of routing, in any network of fewer than 2^16 - 1
\* nodes, whatever frames are lost or late.
THEOREM RoutingInvariant == SourceFrames = {} => (Spec => []RouteInv)
<1>1. ASSUME SourceFrames = {} PROVE Spec => []RouteInv
  <2>1. Init => RouteInv
    BY RouteInit
  <2>2. RouteInv /\ [Next]_vars => RouteInv'
    BY <1>1, RouteStep
  <2> QED
    BY <2>1, <2>2, PTL DEF Spec
<1> QED
  BY <1>1

\* Next hops lead towards the destination and never in a circle.
THEOREM RoutesAreLoopFree == SourceFrames = {} => (Spec => []LoopFree)
<1>1. RouteInv => LoopFree
  BY DEF RouteInv
<1> QED
  BY <1>1, RoutingInvariant, PTL
----------------------------------------------------------------------------
\* The ways of k steps from the destination, each over a link or none at all.
Ways(k) == {p \in [0 .. k -> Nodes] :
              /\ p[0] = RECV_NODE_ID
              /\ \A i \in 1 .. k : p[i] = p[i - 1] \/ <<p[i - 1], p[i]>> \in Link}

\* Where they end is what the recursive definition of Within describes, ...
LEMMA WaysExtend ==
  ASSUME NEW k \in Nat
  PROVE  {p[k] : p \in Ways(k)} =
           IF k = 0 THEN {RECV_NODE_ID}
           ELSE LET near == {p[k - 1] : p \in Ways(k - 1)}
                IN near \cup {m \in Nodes : \E n \in near : <<n, m>> \in Link}
<1>1. CASE k = 0
  <2>1. [i \in 0 .. 0 |-> RECV_NODE_ID] \in Ways(0)
    BY RoutingAssumption DEF Ways
  <2> QED
    BY <1>1, <2>1 DEF Ways
<1>2. CASE k # 0
  <2> DEFINE near == {p[k - 1] : p \in Ways(k - 1)}
  <2>1. ASSUME NEW p \in Ways(k)
        PROVE  p[k] \in near \/ \E n \in near : <<n, p[k]>> \in Link /\ p[k] \in Nodes
    <3> DEFINE q == [i \in 0 .. k - 1 |-> p[i]]
    <3>1. q \in Ways(k - 1) /\ q[k - 1] = p[k - 1]
      BY <1>2 DEF Ways
    <3>2. p[k] \in Nodes /\ (p[k] = p[k - 1] \/ <<p[k - 1], p[k]>> \in Link)
      BY <1>2 DEF Ways
    <3> QED
      BY <3>1, <3>2
  <2>2. ASSUME NEW p \in Ways(k - 1), NEW m \in Nodes,
               m = p[k - 1] \/ <<p[k - 1], m>> \in Link
        PROVE  \E q \in Ways(k) : q[k] = m
    <3> DEFINE q == [i \in 0 .. k |-> IF i = k THEN m ELSE p[i]]
    <3>1. \A i \in 0 .. k - 1 : i \in 0 .. k /\ q[i] = p[i] /\ p[i] \in Nodes
      BY <1>2 DEF Ways
    <3>2. q[k] = m /\ q \in [0 .. k -> Nodes] /\ q[0] = RECV_NODE_ID
      BY <1>2, <3>1 DEF Ways
    <3>3. ASSUME NEW i \in 1 .. k PROVE q[i] = q[i - 1] \/ <<q[i - 1], q[i]>> \in Link
      <4>1. q[i - 1] = p[i - 1] /\ (i < k => q[i] = p[i])
        BY <3>1
      <4>2. CASE i = k
        BY <2>2, <3>2, <4>1, <4>2
      <4>3. CASE i < k
        BY <4>1, <4>3 DEF Ways
      <4> QED
        BY <4>2, <4>3
    <3> QED
      BY <3>2, <3>3 DEF Ways
  <2>3. near \subseteq Nodes
    BY <1>2 DEF Ways
  <2> QED
    BY <1>2, <2>1, <2>2, <2>3
<1> QED
  BY <1>1, <1>2

\* ... and so the definition defines something.
LEMMA WithinUnfolds ==
  \A k \in Nat : Within[k] = IF k = 0 THEN {RECV_NODE_ID}
                             ELSE LET near == Within[k - 1]
                                  IN near \cup {m \in Nodes : \E n \in near : <<n, m>> \in Link}
<1> DEFINE g == [k \in Nat |-> {p[k] : p \in Ways(k)}]
           Step(f) == [k \in Nat |-> IF k = 0 THEN {RECV_NODE_ID}
                                     ELSE LET near == f[k - 1]
                                          IN near \cup {m \in Nodes : \E n \in near : <<n, m>> \in Link}]
<1>1. ASSUME NEW k \in Nat PROVE g[k] = Step(g)[k]
  <2>1. k # 0 => g[k - 1] = {p[k - 1] : p \in Ways(k - 1)}
    OBVIOUS
  <2> QED
    BY <2>1, WaysExtend
<1>2. g = Step(g)
  BY <1>1
<1>3. Within = CHOOSE f : f = Step(f)
  BY DEF Within
<1>4. Within = Step(Within)
  BY <1>2, <1>3
<1> QED
  BY <1>4

\* Who hears a node within k hops is within k + 1.
LEMMA WithinHears ==
  ASSUME NEW k \in Nat, NEW n \in Within[k], NEW m \in Nodes, <<n, m>> \in Link
  PROVE  m \in Within[k + 1]
<1>1. k + 1 \in Nat /\ k + 1 # 0 /\ (k + 1) - 1 = k
  OBVIOUS
<1> QED
  BY <1>1, WithinUnfolds

\* What a route frame says of its sender, and a node knows of itself, are the
\* lengths of ways there are; and only who hears the sender has its frame.
RealInv ==
  \A n \in Nodes :
    /\ \A f \in air[n] : f.w[2] \in Within[f.w[3]] /\ <<f.w[2], n>> \in Link
    /\ slot[n]["route"] = "queued" => packet[n].w[2] = n /\ n \in Within[packet[n].w[3]]
    /\ n \in Reached => n \in Within[cur_metric[n]]

\* A node writes its own name and metric.
LEMMA RealSend ==
  ASSUME RouteInv, RealInv, NEW n \in Nodes, NEW id \in Words, NEW x \in Words,
         NEW mark \in BOOLEAN, UNCHANGED <<cur_metric, air>>, n \in Within[x],
         \/ Send(n, Written(packet[n], <<id, n, x>>), "route", AM_BROADCAST_ADDR, mark)
         \/ OnlyWrite(n, Written(packet[n], <<id, n, x>>))
  PROVE  RealInv'
<1> DEFINE p == Written(packet[n], <<id, n, x>>)
<1>1. TypeOK /\ n \in Words /\ packet[n] \in Frame
  BY RoutingAssumption DEF RouteInv, TypeOK
<1>2. /\ p \in Frame /\ p.w[2] = n /\ p.w[3] = x
      /\ p.kind = packet[n].kind /\ p.to = packet[n].to /\ p.len = packet[n].len
  BY <1>1, WrittenThree
<1>3. slot[n]["route"] = "queued" => p.kind = "route" /\ p.len = "route" /\ p.to = AM_BROADCAST_ADDR
  BY <1>2 DEF RouteInv, GenuineRoute
<1> HIDE DEF p
<1>4. /\ \A m \in Nodes \ {n} : packet'[m] = packet[m] /\ slot'[m] = slot[m]
      /\ packet'[n].w = p.w
  BY <1>1, <1>2, <1>3, RouteSend DEF p
<1> QED
  BY <1>2, <1>4 DEF RealInv, Reached

\* A node takes one more than the metric of the neighbour it hears.
LEMMA RealReceive ==
  ASSUME RouteInv, RealInv, NEW n \in Nodes, NEW f \in air[n], RouteReceive(n, f)
  PROVE  RealInv'
<1>1. /\ TypeOK /\ f \in Frame /\ f.w[3] \in Nat /\ Hop(f.w[3]) = f.w[3] + 1
  <2>1. f \in Frame /\ f.w[3] <= Cardinality(Reached)
    BY DEF RouteInv, TypeOK, GenuineRoute
  <2>2. f.w[3] \in Nat /\ f.w[3] + 1 < INF + 1
    BY <2>1, ReachedBound, RoutingAssumption DEF Frame, Words
  <2> QED
    BY <2>1, <2>2, RoutingAssumption DEF RouteInv, Hop
<1>2. n \in Within[f.w[3] + 1]
  BY <1>1, WithinHears DEF RealInv
<1>3. /\ UNCHANGED <<packet, slot>> /\ air' = [air EXCEPT ![n] = @ \ {f}]
      /\ \/ cur_metric' = [cur_metric EXCEPT ![n] = f.w[3] + 1]
         \/ cur_metric' = cur_metric
  BY <1>1 DEF RouteReceive, Heard, sendVars
<1>4. \A m \in Nodes : m \in Reached' => m \in Within[cur_metric'[m]]
  <2>1. \A m \in Nodes : \/ cur_metric'[m] = cur_metric[m]
                         \/ m = n /\ cur_metric'[m] = f.w[3] + 1
    BY <1>1, <1>3 DEF TypeOK
  <2> QED
    BY <1>2, <2>1 DEF RealInv, Reached
<1>5. \A m \in Nodes : air'[m] \subseteq air[m]
  BY <1>1, <1>3 DEF TypeOK
<1> QED
  BY <1>3, <1>4, <1>5 DEF RealInv

\* The radio gives a pending packet to nodes that hear it.
LEMMA RealRadio ==
  ASSUME RouteInv, RealInv, NEW n \in Nodes, NEW k \in Kinds, Transmit(n, k) \/ SendDone(n, k)
  PROVE  RealInv'
<1>1. TypeOK /\ k \in Kinds
  BY DEF RouteInv
<1>2. UNCHANGED <<cur_metric, packet>>
  BY DEF Transmit, SendDone, routeVars
<1>3. \A m \in Nodes : slot'[m]["route"] = "queued" => slot[m]["route"] = "queued"
  BY <1>1 DEF Transmit, SendDone, TypeOK, Kinds
<1>4. ASSUME NEW m \in Nodes, NEW f \in air'[m]
      PROVE  f.w[2] \in Within[f.w[3]] /\ <<f.w[2], m>> \in Link
  <2>1. CASE Transmit(n, k)
    <3>1. slot[n]["route"] = "queued"
      BY <2>1 DEF Transmit, RouteInv, Kinds
    <3>2. PICK S \in SUBSET Hearers(n, packet[n]) :
            air' = [i \in Nodes |-> IF i \in S THEN air[i] \cup {packet[n]} ELSE air[i]]
      BY <2>1 DEF Transmit, Broadcast
    <3>3. f \in air[m] \/ (m \in S /\ f = packet[n])
      BY <1>4, <3>2
    <3> QED
      BY <3>1, <3>3 DEF RealInv, Hearers
  <2>2. CASE SendDone(n, k)
    BY <1>4, <2>2 DEF SendDone, RealInv
  <2> QED
    BY <2>1, <2>2
<1> QED
  BY <1>2, <1>3, <1>4 DEF RealInv, Reached

\* Every step keeps metrics real, when nobody sends data.
LEMMA RealStep ==
  ASSUME SourceFrames = {}, RouteInv, RealInv, [Next]_vars
  PROVE  RealInv'
<1>0. TypeOK
  BY DEF RouteInv
<1>1. CASE Timer0Fired
  <2> DEFINE p == Written(packet[RECV_NODE_ID], <<cnt, RECV_NODE_ID, 0>>)
  <2>1. RECV_NODE_ID \in Nodes /\ cnt \in Words /\ 0 \in Words /\ TRUE \in BOOLEAN
    BY <1>0, RoutingAssumption DEF TypeOK, Words
  <2>2. /\ UNCHANGED <<cur_metric, air>>
        /\ Send(RECV_NODE_ID, p, "route", AM_BROADCAST_ADDR, TRUE) \/ OnlyWrite(RECV_NODE_ID, p)
    BY <1>1 DEF Timer0Fired
  <2>3. RECV_NODE_ID \in Within[0]
    BY WithinUnfolds
  <2> QED
    BY <2>1, <2>2, <2>3, RealSend
<1>2. ASSUME NEW n \in Nodes, NodeStep(n) PROVE RealInv'
  <2>1. CASE Timer1Fired(n)
    <3> DEFINE p == Written(packet[n], <<cur_id[n], n, cur_metric[n]>>)
    <3>1. /\ cur_id[n] \in Words /\ cur_metric[n] \in Words /\ FALSE \in BOOLEAN
          /\ n \in Within[cur_metric[n]]
      BY <1>0, <2>1 DEF Timer1Fired, RouteInv, RealInv, TypeOK
    <3>2. /\ UNCHANGED <<cur_metric, air>>
          /\ Send(n, p, "route", AM_BROADCAST_ADDR, FALSE) \/ OnlyWrite(n, p)
      BY <2>1 DEF Timer1Fired, routeVars
    <3> QED
      BY <3>1, <3>2, RealSend
  <2>2. CASE Receive(n)
    <3>1. PICK f \in air[n] : RouteReceive(n, f) \/ DataReceive(n, f) \/ ControlReceive(n, f)
      BY <2>2 DEF Receive
    <3>2. f.kind = "route"
      BY DEF RouteInv, GenuineRoute
    <3> QED
      BY <3>1, <3>2, RealReceive DEF DataReceive, ControlReceive
  <2>3. CASE \E k \in Kinds : Transmit(n, k) \/ SendDone(n, k)
    BY <2>3, RealRadio
  <2> QED
    BY <1>2, <2>1, <2>2, <2>3 DEF NodeStep
<1>3. CASE UNCHANGED vars
  BY <1>3 DEF vars, routeVars, sendVars, RealInv, Reached
<1> QED
  BY <1>1, <1>2, <1>3 DEF Next

\* MetricIsReal: in any network and whatever is lost or late, a metric is the
\* length of a way over links from the destination to the node.
THEOREM MetricsAreReal == SourceFrames = {} => (Spec => []MetricIsReal)
<1>1. ASSUME SourceFrames = {} PROVE Spec => []MetricIsReal
  <2>1. Init => RouteInv /\ RealInv
    BY RouteInit, RoutingAssumption DEF Init, RealInv, Reached, Kinds
  <2>2. RouteInv /\ RealInv /\ [Next]_vars => (RouteInv /\ RealInv)'
    BY <1>1, RouteStep, RealStep
  <2>3. RealInv => MetricIsReal
    BY DEF RealInv, MetricIsReal, Reached
  <2> QED
    BY <2>1, <2>2, <2>3, PTL DEF Spec
<1> QED
  BY <1>1

----------------------------------------------------------------------------
\* The number of the flood that is going on, or has gone on last.
Flood == cnt - 1

\* The floods before it have given everybody in their reach a shortest metric.
Settled == \A k \in 0 .. Flood - 1 : \A n \in Within[k] \ {RECV_NODE_ID} : cur_metric[n] <= k

\* A frame of this flood, whose sender knew that.
Current(f) == /\ f.w[1] = Flood
              /\ \A k \in 0 .. Flood - 1 : f.w[2] \in Within[k] => f.w[3] <= k

\* Node n has not sent in this flood.
Silent(n) == \A m \in Nodes : \A g \in air[m] : g.w[2] # n

\* Who hears node n has its frame, or has handled it: it belongs to the flood
\* and, by way of n, its metric is as good as n's place makes it.
Told(n) ==
  \A m \in Nodes :
    <<n, m>> \in Link =>
      \/ \E g \in air[m] : g.w[2] = n
      \/ /\ cur_id[m] = Flood
         /\ \A k \in 0 .. Flood - 1 :
              n \in Within[k] => m = RECV_NODE_ID \/ cur_metric[m] <= k + 1

\* Nothing of an earlier flood is left, and who sends has heard of this one.
InFlood ==
  \A n \in Nodes :
    /\ cur_id[n] <= Flood /\ (n = RECV_NODE_ID => cur_id[n] = Flood)
    /\ busy[n] => n = RECV_NODE_ID /\ slot[n]["route"] # "free"
    /\ timer1[n] => cur_id[n] = Flood /\ slot[n]["route"] = "free" /\ n # RECV_NODE_ID
    /\ slot[n]["route"] # "free" => cur_id[n] = Flood
    /\ slot[n]["route"] = "queued" => Current(packet[n])
    /\ \A f \in air[n] : Current(f)

\* A node sends once in a flood, so a radio holds one frame of each node at most.
SendsOnce ==
  \A n \in Nodes :
    /\ timer1[n] \/ slot[n]["route"] = "queued" \/ cur_id[n] < Flood => Silent(n)
    /\ \A f, g \in air[n] : f.w[2] = g.w[2] => f = g

\* Whoever has heard of the flood passes it on.
PassesOn ==
  \A n \in Nodes : cur_id[n] = Flood /\ Flood >= 1 =>
                     timer1[n] \/ slot[n]["route"] = "queued" \/ Told(n)

\* The inductive invariant of floods that do not overlap.
SettleParts == Settled /\ InFlood /\ SendsOnce /\ PassesOn
SettleInv == RouteInv /\ RealInv /\ SettleParts

\* What the types say of the variables used here.
LEMMA SettleTypes ==
  ASSUME TypeOK
  PROVE  /\ Flood \in Nat /\ cnt = Flood + 1
         /\ \A n \in Nodes : cur_id[n] \in Nat /\ cur_metric[n] \in Nat
         /\ \A n \in Nodes : packet[n] \in Frame /\ air[n] \subseteq Frame
  BY DEF TypeOK, Flood, Words

\* Induction over the natural numbers, from their least element.
LEMMA LeastNumber ==
  ASSUME NEW T \in SUBSET Nat, T # {}
  PROVE  \E x \in T : \A y \in T : x <= y
<1>1. PICK x \in T : \A y \in T : ~ (<<y, x>> \in OpToRel(<, Nat))
  BY NatLessThanWellFounded, WFMin
<1>2. \A y \in T : y \in Nat /\ ~ (y < x)
  BY <1>1 DEF OpToRel
<1> QED
  BY <1>2

\* A set of nodes that holds the destination, and who hears one of its nodes,
\* holds every node that any number of hops connects.
LEMMA WithinClosed ==
  ASSUME NEW S, RECV_NODE_ID \in S,
         \A n \in S, m \in Nodes : <<n, m>> \in Link => m \in S
  PROVE  \A k \in Nat : Within[k] \subseteq S
<1> DEFINE bad == {k \in Nat : ~ (Within[k] \subseteq S)}
<1>1. SUFFICES ASSUME bad # {} PROVE FALSE
  OBVIOUS
<1>2. PICK k \in bad : \A j \in bad : k <= j
  BY <1>1, LeastNumber
<1>3. CASE k = 0
  BY <1>3, WithinUnfolds
<1>4. CASE k # 0
  <2>1. k - 1 \in Nat /\ k - 1 \notin bad
    BY <1>2, <1>4
  <2>2. Within[k - 1] \subseteq S
    BY <2>1
  <2>3. Within[k] \subseteq S
    BY <1>4, <2>2, WithinUnfolds
  <2> QED
    BY <2>3
<1> QED
  BY <1>3, <1>4

\* A flood that is over has settled the metrics one hop further.
LEMMA FloodOver ==
  ASSUME SettleInv, Quiet
  PROVE  \A k \in 1 .. Flood : \A n \in Within[k] \ {RECV_NODE_ID} : cur_metric[n] <= k
<1> DEFINE S == {n \in Nodes : cur_id[n] = Flood}
<1>0. TypeOK /\ Settled /\ InFlood /\ PassesOn
  BY DEF SettleInv, SettleParts, RouteInv
<1>1. SUFFICES ASSUME NEW k \in 1 .. Flood, NEW m \in Within[k] \ {RECV_NODE_ID}
               PROVE  cur_metric[m] <= k
  OBVIOUS
<1>2. Flood \in Nat /\ Flood >= 1 /\ k \in Nat /\ k - 1 \in 0 .. Flood - 1
  BY <1>0, <1>1, SettleTypes
<1>3. \A n \in S : Told(n)
  BY <1>0, <1>2 DEF PassesOn, Quiet, Kinds
<1>4. \A n \in S, j \in Nodes : <<n, j>> \in Link => j \in S
  BY <1>3 DEF Told, Quiet
<1>5. RECV_NODE_ID \in S
  BY <1>0, RoutingAssumption DEF InFlood
<1>6. Within[k - 1] \subseteq S
  <2> HIDE DEF S
  <2>1. \A j \in Nat : Within[j] \subseteq S
    BY <1>4, <1>5, WithinClosed
  <2> QED
    BY <1>2, <2>1
<1>7. \/ m \in Within[k - 1]
      \/ m \in Nodes /\ \E n \in Within[k - 1] : <<n, m>> \in Link
  BY <1>1, <1>2, WithinUnfolds
<1>8. CASE m \in Within[k - 1]
  <2>1. cur_metric[m] <= k - 1 /\ cur_metric[m] \in Nat
    BY <1>0, <1>1, <1>2, <1>6, <1>8, SettleTypes DEF Settled
  <2> QED
    BY <1>2, <2>1
<1>9. CASE m \in Nodes /\ \E n \in Within[k - 1] : <<n, m>> \in Link
  <2>1. PICK n \in Within[k - 1] : <<n, m>> \in Link
    BY <1>9
  <2>2. Told(n)
    BY <1>3, <1>6
  <2>3. cur_metric[m] <= (k - 1) + 1
    BY <1>1, <1>2, <1>9, <2>1, <2>2 DEF Told, Quiet
  <2> QED
    BY <1>2, <2>3
<1> QED
  BY <1>7, <1>8, <1>9

\* The destination starts the next flood when the last one is over.
LEMMA SettleTimer0 ==
  ASSUME ROUNDS_APART, SettleInv, Timer0Fired
  PROVE  SettleParts'
<1> DEFINE d == RECV_NODE_ID
           p == Written(packet[d], <<cnt, d, 0>>)
<1>0. /\ TypeOK /\ InFlood /\ Quiet /\ d \in Nodes /\ "route" \in Kinds
  BY RoutingAssumption DEF Timer0Fired, SettleInv, SettleParts, RouteInv, Kinds
<1>1. /\ \A n \in Nodes : air[n] = {} /\ ~timer1[n] /\ slot[n]["route"] = "free" /\ ~busy[n]
  BY <1>0 DEF Quiet, InFlood
<1>2. /\ cnt' = cnt + 1 /\ cur_id' = [cur_id EXCEPT ![d] = cnt]
      /\ Send(d, p, "route", AM_BROADCAST_ADDR, TRUE)
      /\ UNCHANGED <<cur_metric, timer1, air>>
  BY <1>0, <1>1 DEF Timer0Fired
<1>3. /\ packet[d] \in Frame /\ cnt \in Words /\ d \in Words /\ 0 \in Words
      /\ cnt = Flood + 1 /\ Flood \in Nat
  BY <1>0, SettleTypes, RoutingAssumption DEF TypeOK, Words
<1>4. p \in Frame /\ p.w[1] = cnt /\ p.w[2] = d /\ p.w[3] = 0
  BY <1>3, WrittenThree
<1>5. Flood' = cnt
  BY <1>2, <1>3 DEF Flood
<1>6. /\ slot' = [slot EXCEPT ![d]["route"] = "queued"]
      /\ busy' = [busy EXCEPT ![d] = TRUE]
      /\ packet' = [packet EXCEPT ![d] = Addressed(p, "route", AM_BROADCAST_ADDR, TRUE)]
  BY <1>0, <1>1, <1>2 DEF Send
<1>7. packet'[d].w = p.w
  BY <1>0, <1>4, <1>6 DEF Addressed, Frame, TypeOK
<1>8. /\ \A n \in Nodes : slot'[n]["route"] = IF n = d THEN "queued" ELSE "free"
      /\ \A n \in Nodes : busy'[n] <=> n = d
      /\ \A n \in Nodes : cur_id'[n] = IF n = d THEN cnt ELSE cur_id[n]
  BY <1>0, <1>1, <1>2, <1>6 DEF TypeOK
<1>9. \A n \in Nodes : cur_id[n] \in Nat /\ cur_id[n] <= Flood
  BY <1>0, SettleTypes DEF InFlood
<1>10. Current(packet[d])'
  BY <1>2, <1>4, <1>5, <1>7 DEF Current
<1> HIDE DEF p
<1>11. Settled'
  <2>1. SUFFICES ASSUME NEW k \in 0 .. cnt - 1, NEW n \in Within[k] \ {RECV_NODE_ID}
                 PROVE  cur_metric'[n] <= k
    BY <1>5 DEF Settled
  <2>2. k # 0
    BY <2>1, WithinUnfolds
  <2> QED
    BY <1>0, <1>2, <1>3, <2>1, <2>2, FloodOver
<1>12. InFlood'
  BY <1>1, <1>2, <1>3, <1>5, <1>8, <1>9, <1>10 DEF InFlood
<1>13. SendsOnce'
  BY <1>1, <1>2 DEF SendsOnce, Silent
<1>14. PassesOn'
  BY <1>3, <1>5, <1>8, <1>9 DEF PassesOn
<1> QED
  BY <1>11, <1>12, <1>13, <1>14 DEF SettleParts

\* A node passes the flood on.
LEMMA SettleTimer1 ==
  ASSUME SettleInv, NEW n \in Nodes, Timer1Fired(n)
  PROVE  SettleParts'
<1> DEFINE p == Written(packet[n], <<cur_id[n], n, cur_metric[n]>>)
<1>0. /\ TypeOK /\ Settled /\ InFlood /\ SendsOnce /\ PassesOn /\ "route" \in Kinds
  BY DEF SettleInv, SettleParts, RouteInv, Kinds
<1>1. /\ timer1[n] /\ cur_id[n] = Flood /\ slot[n]["route"] = "free" /\ n # RECV_NODE_ID
      /\ ~busy[n] /\ Silent(n)
  BY <1>0 DEF Timer1Fired, InFlood, SendsOnce
<1>2. /\ Send(n, p, "route", AM_BROADCAST_ADDR, FALSE)
      /\ timer1' = [timer1 EXCEPT ![n] = FALSE]
      /\ UNCHANGED <<cur_metric, cur_id, cnt, air>> /\ Flood' = Flood
  BY <1>1 DEF Timer1Fired, routeVars, Flood
<1>3. /\ packet[n] \in Frame /\ cur_id[n] \in Words /\ n \in Words /\ cur_metric[n] \in Words
  BY <1>0, RoutingAssumption DEF TypeOK
<1>4. p \in Frame /\ p.w[1] = cur_id[n] /\ p.w[2] = n /\ p.w[3] = cur_metric[n]
  BY <1>3, WrittenThree
<1>5. /\ slot' = [slot EXCEPT ![n]["route"] = "queued"]
      /\ busy' = [busy EXCEPT ![n] = busy[n]]
      /\ packet' = [packet EXCEPT ![n] = Addressed(p, "route", AM_BROADCAST_ADDR, TRUE)]
  <2>1. busy[n] \in BOOLEAN
    BY <1>0 DEF TypeOK
  <2> QED
    BY <1>1, <1>2, <2>1 DEF Send
<1>6. packet'[n].w = p.w
  BY <1>0, <1>4, <1>5 DEF Addressed, Frame, TypeOK
<1>7. Current(packet'[n])
  <2>1. ASSUME NEW k \in 0 .. Flood - 1, n \in Within[k] PROVE cur_metric[n] <= k
    BY <1>0, <1>1, <2>1 DEF Settled
  <2> QED
    BY <1>1, <1>4, <1>6, <2>1 DEF Current
<1> HIDE DEF p
<1>8. /\ \A m \in Nodes \ {n} : packet'[m] = packet[m]
      /\ \A m \in Nodes : /\ slot'[m]["route"] = IF m = n THEN "queued" ELSE slot[m]["route"]
                          /\ timer1'[m] <=> timer1[m] /\ m # n
                          /\ busy'[m] = busy[m]
  BY <1>0, <1>2, <1>5 DEF TypeOK
<1>9. Settled'
  BY <1>0, <1>2 DEF Settled
<1>10. InFlood'
  BY <1>0, <1>1, <1>2, <1>7, <1>8 DEF InFlood, Current
<1>11. SendsOnce'
  BY <1>0, <1>1, <1>2, <1>8 DEF SendsOnce, Silent
<1>12. PassesOn'
  BY <1>0, <1>2, <1>8 DEF PassesOn, Told
<1> QED
  BY <1>9, <1>10, <1>11, <1>12 DEF SettleParts

\* A node hears a frame of the flood.
LEMMA SettleReceive ==
  ASSUME SettleInv, NEW n \in Nodes, NEW f \in air[n], RouteReceive(n, f)
  PROVE  SettleParts'
<1>0. /\ TypeOK /\ Settled /\ InFlood /\ SendsOnce /\ PassesOn
  BY DEF SettleInv, SettleParts, RouteInv
<1>1. /\ f \in Frame /\ f.w[3] \in Nat /\ Hop(f.w[3]) = f.w[3] + 1 /\ f.len = "route"
  <2>1. f \in Frame /\ f.w[3] <= Cardinality(Reached) /\ f.len = "route"
    BY DEF SettleInv, RouteInv, TypeOK, GenuineRoute
  <2>2. f.w[3] \in Nat /\ f.w[3] + 1 < INF + 1
    BY <2>1, ReachedBound, RoutingAssumption DEF Frame, Words
  <2> QED
    BY <2>1, <2>2, RoutingAssumption DEF Hop
<1>2. /\ Current(f) /\ f.w[1] = Flood /\ Flood \in Nat
  BY <1>0, SettleTypes DEF InFlood, Current
<1>3. /\ UNCHANGED <<packet, slot, busy, cnt>> /\ Flood' = Flood
      /\ air' = [air EXCEPT ![n] = @ \ {f}]
      /\ \/ cur_metric[n] > f.w[3] + 1 /\ cur_metric' = [cur_metric EXCEPT ![n] = f.w[3] + 1]
         \/ ~(cur_metric[n] > f.w[3] + 1) /\ cur_metric' = cur_metric
      /\ \/ /\ cur_id[n] < Flood /\ cur_id' = [cur_id EXCEPT ![n] = Flood]
            /\ timer1' = [timer1 EXCEPT ![n] = TRUE]
         \/ ~(cur_id[n] < Flood) /\ UNCHANGED <<cur_id, timer1>>
  BY <1>1, <1>2 DEF RouteReceive, Heard, Better, sendVars, Flood
<1>4. \A m \in Nodes : cur_id[m] \in Nat /\ cur_metric[m] \in Nat
  BY <1>0, SettleTypes
<1>5. /\ cur_metric'[n] <= f.w[3] + 1 /\ cur_metric'[n] \in Nat
      /\ \A m \in Nodes : cur_metric'[m] \in Nat /\ cur_metric'[m] <= cur_metric[m]
  <2>1. f.w[3] + 1 \in Nat
    BY <1>1
  <2>2. CASE cur_metric[n] > f.w[3] + 1
    <3>1. /\ cur_metric'[n] = f.w[3] + 1
          /\ \A m \in Nodes \ {n} : cur_metric'[m] = cur_metric[m]
      BY <1>0, <1>3, <2>2 DEF TypeOK
    <3> QED
      BY <1>4, <2>1, <2>2, <3>1
  <2>3. CASE ~(cur_metric[n] > f.w[3] + 1)
    BY <1>3, <1>4, <2>1, <2>3
  <2> QED
    BY <2>2, <2>3
<1>6. /\ cur_id'[n] = Flood /\ \A m \in Nodes : cur_id'[m] = cur_id[m] \/ (m = n /\ timer1'[n])
      /\ \A m \in Nodes \ {n} : cur_id'[m] = cur_id[m] /\ timer1'[m] = timer1[m]
      /\ timer1[n] => timer1'[n]
      /\ timer1'[n] => timer1[n] \/ cur_id[n] < Flood
  <2>1. CASE cur_id[n] < Flood
    BY <1>0, <1>3, <2>1 DEF TypeOK
  <2>2. CASE ~(cur_id[n] < Flood)
    <3>1. cur_id[n] <= Flood
      BY <1>0 DEF InFlood
    <3> QED
      BY <1>2, <1>3, <1>4, <2>2, <3>1
  <2> QED
    BY <2>1, <2>2
<1>7. /\ air'[n] = air[n] \ {f} /\ \A m \in Nodes \ {n} : air'[m] = air[m]
  BY <1>0, <1>3 DEF TypeOK
<1>8. Settled'
  <2>1. SUFFICES ASSUME NEW k \in 0 .. Flood - 1, NEW m \in Within[k] \ {RECV_NODE_ID}
                 PROVE  cur_metric'[m] <= k
    BY <1>3 DEF Settled
  <2>2. k \in Nat /\ cur_metric[m] <= k
    BY <1>0, <1>2, <2>1 DEF Settled
  <2>3. m \in Nodes
    BY <2>1, <2>2, RoutingAssumption, WithinClosed
  <2> QED
    BY <1>4, <1>5, <2>2, <2>3
<1>9. InFlood'
  BY <1>0, <1>2, <1>3, <1>4, <1>6, <1>7 DEF InFlood, Current
<1>10. \A m \in Nodes : Silent(m) => Silent(m)'
  BY <1>7 DEF Silent
<1>11. SendsOnce'
  <2>1. ASSUME NEW m \in Nodes, timer1'[m] \/ slot'[m]["route"] = "queued" \/ cur_id'[m] < Flood
        PROVE  Silent(m)
    BY <1>0, <1>2, <1>3, <1>6, <2>1 DEF SendsOnce
  <2> QED
    BY <1>0, <1>3, <1>7, <1>10, <2>1 DEF SendsOnce
<1>12. ASSUME NEW k \in Nodes, Told(k) PROVE Told(k)'
  <2>1. SUFFICES ASSUME NEW m \in Nodes, <<k, m>> \in Link
                 PROVE  \/ \E g \in air'[m] : g.w[2] = k
                        \/ /\ cur_id'[m] = Flood
                           /\ \A j \in 0 .. Flood - 1 :
                                k \in Within[j] => m = RECV_NODE_ID \/ cur_metric'[m] <= j + 1
    BY <1>3 DEF Told
  <2>2. CASE m = n /\ f.w[2] = k
    <3>1. ASSUME NEW j \in 0 .. Flood - 1, k \in Within[j] PROVE cur_metric'[m] <= j + 1
      <4>1. f.w[3] <= j
        BY <1>2, <2>2, <3>1 DEF Current
      <4> QED
        BY <1>1, <1>2, <1>5, <2>2, <3>1, <4>1
    <3> QED
      BY <1>6, <2>2, <3>1
  <2>3. CASE \E g \in air'[m] : g.w[2] = k
    BY <2>3
  <2>4. CASE ~(m = n /\ f.w[2] = k) /\ ~(\E g \in air'[m] : g.w[2] = k)
    <3>1. ~(\E g \in air[m] : g.w[2] = k)
      BY <1>7, <2>4
    <3>2. /\ cur_id[m] = Flood
          /\ \A j \in 0 .. Flood - 1 :
               k \in Within[j] => m = RECV_NODE_ID \/ cur_metric[m] <= j + 1
      BY <1>12, <2>1, <3>1 DEF Told
    <3>3. cur_id'[m] = Flood
      BY <1>6, <3>2
    <3>4. ASSUME NEW j \in 0 .. Flood - 1, k \in Within[j], m # RECV_NODE_ID
          PROVE  cur_metric'[m] <= j + 1
      <4>1. cur_metric[m] <= j + 1
        BY <3>2, <3>4
      <4> QED
        BY <1>2, <1>4, <1>5, <3>4, <4>1
    <3> QED
      BY <3>3, <3>4
  <2> QED
    BY <2>2, <2>3, <2>4
<1>13. PassesOn'
  BY <1>0, <1>3, <1>6, <1>12 DEF PassesOn
<1> QED
  BY <1>8, <1>9, <1>11, <1>13 DEF SettleParts

\* A radio that holds one frame of a node at most, and none of node n, has
\* room for one of n.
LEMMA RoomForOne ==
  ASSUME SettleInv, Cardinality(Nodes) <= RX_CAP, NEW n \in Nodes, Silent(n), NEW m \in Nodes
  PROVE  m \in Room
<1> DEFINE sender == [g \in air[m] |-> g.w[2]]
<1>1. \A g \in air[m] : g.w[2] \in Nodes \ {n}
  BY DEF SettleInv, RouteInv, GenuineRoute, Silent
<1>2. \A f, g \in air[m] : sender[f] = sender[g] => f = g
  BY DEF SettleInv, SettleParts, SendsOnce
<1>3. sender \in Injection(air[m], Nodes \ {n})
  BY <1>1, <1>2 DEF Injection, IsInjective
<1>4. /\ IsFiniteSet(Nodes \ {n}) /\ Cardinality(Nodes \ {n}) = Cardinality(Nodes) - 1
      /\ Cardinality(Nodes) \in Nat
  BY RoutingAssumption, FS_RemoveElement, FS_CardinalityType
<1>5. /\ IsFiniteSet(air[m]) /\ Cardinality(air[m]) <= Cardinality(Nodes \ {n})
  BY <1>3, <1>4, FS_Injection
<1>6. Cardinality(air[m]) \in Nat
  BY <1>5, FS_CardinalityType
<1> QED
  BY <1>4, <1>5, <1>6, RoutingAssumption DEF Room

\* A node's frame goes to everybody who hears it.
LEMMA SettleTransmit ==
  ASSUME ~LOSSY, Cardinality(Nodes) <= RX_CAP, SettleInv, NEW n \in Nodes, NEW k \in Kinds,
         Transmit(n, k)
  PROVE  SettleParts'
<1>0. /\ TypeOK /\ Settled /\ InFlood /\ SendsOnce /\ PassesOn /\ "route" \in Kinds
  BY DEF SettleInv, SettleParts, RouteInv, Kinds
<1>1. k = "route" /\ slot[n]["route"] = "queued"
  BY DEF Transmit, SettleInv, RouteInv, Kinds
<1>2. /\ packet[n].to = AM_BROADCAST_ADDR /\ packet[n].w[2] = n /\ Current(packet[n])
      /\ Silent(n) /\ cur_id[n] = Flood
  BY <1>0, <1>1 DEF SettleInv, RouteInv, GenuineRoute, RealInv, InFlood, SendsOnce
<1>3. /\ UNCHANGED <<cur_metric, cur_id, cnt, timer1, busy, packet>> /\ Flood' = Flood
      /\ slot' = [slot EXCEPT ![n]["route"] = "sent"]
  BY <1>1 DEF Transmit, routeVars, timerVars, Flood
<1>4. \A m \in Nodes : air'[m] = IF <<n, m>> \in Link THEN air[m] \cup {packet[n]} ELSE air[m]
  <2>1. air' = [m \in Nodes |-> IF m \in Hearers(n, packet[n]) THEN air[m] \cup {packet[n]}
                                                               ELSE air[m]]
    BY DEF Transmit, Broadcast
  <2>2. \A m \in Nodes : m \in Hearers(n, packet[n]) <=> <<n, m>> \in Link
    BY <1>2, RoomForOne DEF Hearers
  <2> QED
    BY <2>1, <2>2
<1>5. /\ slot'[n]["route"] = "sent"
      /\ \A m \in Nodes \ {n} : slot'[m]["route"] = slot[m]["route"]
  BY <1>0, <1>3 DEF TypeOK
<1>6. Settled'
  BY <1>0, <1>3 DEF Settled
<1>7. InFlood'
  <2>1. \A m \in Nodes : \A f \in air'[m] : Current(f)
    BY <1>0, <1>2, <1>4 DEF InFlood
  <2>2. \A m \in Nodes : slot'[m]["route"] # "free" => cur_id[m] = Flood
    BY <1>0, <1>2, <1>5 DEF InFlood
  <2>3. \A m \in Nodes : /\ slot[m]["route"] # "free" <=> slot'[m]["route"] # "free"
                         /\ slot'[m]["route"] = "queued" => slot[m]["route"] = "queued"
    BY <1>1, <1>5
  <2>4. \A m \in Nodes : timer1[m] => slot'[m]["route"] = "free"
    BY <1>0, <2>3 DEF InFlood
  <2> QED
    BY <1>0, <1>3, <2>1, <2>2, <2>3, <2>4 DEF InFlood, Current
<1>8. SendsOnce'
  <2>1. ASSUME NEW m \in Nodes, timer1[m] \/ slot'[m]["route"] = "queued" \/ cur_id[m] < Flood
        PROVE  Silent(m)'
    <3>1. m # n
      BY <1>0, <1>1, <1>2, <1>5, <2>1, SettleTypes DEF InFlood
    <3>2. Silent(m)
      BY <1>0, <1>5, <2>1, <3>1 DEF SendsOnce
    <3> QED
      BY <1>2, <1>4, <3>1, <3>2 DEF Silent
  <2>2. ASSUME NEW m \in Nodes, NEW f \in air'[m], NEW g \in air'[m], f.w[2] = g.w[2]
        PROVE  f = g
    <3>1. \A h \in air[m] : h.w[2] # n
      BY <1>2 DEF Silent
    <3>2. /\ f \in air[m] \/ f = packet[n]
          /\ g \in air[m] \/ g = packet[n]
      BY <1>4, <2>2
    <3>3. f \in air[m] /\ g \in air[m] => f = g
      BY <1>0, <2>2 DEF SendsOnce
    <3> QED
      BY <1>2, <2>2, <3>1, <3>2, <3>3
  <2> QED
    BY <1>3, <2>1, <2>2 DEF SendsOnce
<1>9. PassesOn'
  <2>1. Told(n)'
    BY <1>2, <1>4 DEF Told
  <2>2. \A m \in Nodes : Told(m) => Told(m)'
    BY <1>3, <1>4 DEF Told
  <2> QED
    BY <1>0, <1>3, <1>5, <2>1, <2>2 DEF PassesOn
<1> QED
  BY <1>6, <1>7, <1>8, <1>9 DEF SettleParts

\* A send ends.
LEMMA SettleSendDone ==
  ASSUME SettleInv, NEW n \in Nodes, NEW k \in Kinds, SendDone(n, k)
  PROVE  SettleParts'
<1>0. /\ TypeOK /\ Settled /\ InFlood /\ SendsOnce /\ PassesOn
  BY DEF SettleInv, SettleParts, RouteInv
<1>1. k = "route" /\ slot[n]["route"] = "sent"
  BY DEF SendDone, SettleInv, RouteInv, Kinds
<1>2. /\ UNCHANGED <<cur_metric, cur_id, cnt, timer1, packet, air>> /\ Flood' = Flood
      /\ slot' = [slot EXCEPT ![n]["route"] = "free"]
      /\ busy' = [busy EXCEPT ![n] = FALSE]
  BY <1>1 DEF SendDone, routeVars, timerVars, Flood
<1>3. /\ slot'[n]["route"] = "free" /\ ~busy'[n]
      /\ \A m \in Nodes \ {n} : slot'[m]["route"] = slot[m]["route"] /\ busy'[m] = busy[m]
  BY <1>0, <1>1, <1>2 DEF TypeOK, Kinds
<1>4. Settled'
  BY <1>0, <1>2 DEF Settled
<1>5. InFlood'
  BY <1>0, <1>2, <1>3 DEF InFlood, Current
<1>6. SendsOnce'
  BY <1>0, <1>2, <1>3 DEF SendsOnce, Silent
<1>7. PassesOn'
  BY <1>0, <1>1, <1>2, <1>3 DEF PassesOn, Told
<1> QED
  BY <1>4, <1>5, <1>6, <1>7 DEF SettleParts

\* When no frame is lost, no radio is short of room, and a flood waits for the
\* end of the last one.
Undisturbed == /\ SourceFrames = {} /\ ~LOSSY /\ ROUNDS_APART
               /\ Cardinality(Nodes) <= RX_CAP

\* Every step keeps the invariant of undisturbed floods.
LEMMA SettleStep ==
  ASSUME Undisturbed, SettleInv, [Next]_vars
  PROVE  SettleInv'
<1>0. RouteInv' /\ RealInv'
  BY RouteStep, RealStep DEF Undisturbed, SettleInv
<1>1. ASSUME Timer0Fired PROVE SettleParts'
  BY <1>1, SettleTimer0 DEF Undisturbed
<1>2. ASSUME NEW n \in Nodes, NodeStep(n) PROVE SettleParts'
  <2>1. CASE Timer1Fired(n)
    BY <2>1, SettleTimer1
  <2>2. CASE Receive(n)
    <3>1. PICK f \in air[n] : RouteReceive(n, f) \/ DataReceive(n, f) \/ ControlReceive(n, f)
      BY <2>2 DEF Receive
    <3>2. f.kind = "route"
      BY DEF SettleInv, RouteInv, GenuineRoute
    <3> QED
      BY <3>1, <3>2, SettleReceive DEF DataReceive, ControlReceive
  <2>3. CASE \E k \in Kinds : Transmit(n, k) \/ SendDone(n, k)
    BY <2>3, SettleTransmit, SettleSendDone DEF Undisturbed
  <2> QED
    BY <1>2, <2>1, <2>2, <2>3 DEF NodeStep
<1>3. ASSUME UNCHANGED vars PROVE SettleParts'
  <2>1. /\ UNCHANGED <<cur_metric, cur_id, cnt, timer1, busy, packet, slot, air>>
        /\ Flood' = Flood
    BY <1>3 DEF vars, routeVars, sendVars, timerVars, Flood
  <2>2. Settled' /\ InFlood'
    BY <2>1 DEF SettleInv, SettleParts, Settled, InFlood, Current
  <2>3. SendsOnce' /\ PassesOn'
    BY <2>1 DEF SettleInv, SettleParts, SendsOnce, PassesOn, Silent, Told
  <2> QED
    BY <2>2, <2>3 DEF SettleParts
<1>4. SettleParts'
  BY <1>1, <1>2, <1>3 DEF Next, Undisturbed
<1> QED
  BY <1>0, <1>4 DEF SettleInv

\* No flood has started at first.
LEMMA SettleInit ==
  ASSUME Init
  PROVE  SettleInv
<1>1. RouteInv
  BY RouteInit
<1>2. RealInv
  BY RoutingAssumption DEF Init, RealInv, Reached, Kinds
<1>3. Flood = 0
  BY DEF Init, Flood
<1>4. Settled
  BY <1>3 DEF Settled
<1>5. \A n \in Nodes : /\ cur_id[n] = 0 /\ ~busy[n] /\ ~timer1[n] /\ air[n] = {}
                       /\ slot[n]["route"] = "free"
  BY DEF Init, Kinds
<1>6. InFlood /\ SendsOnce /\ PassesOn
  BY <1>3, <1>5 DEF InFlood, SendsOnce, PassesOn, Silent
<1> QED
  BY <1>1, <1>2, <1>4, <1>6 DEF SettleInv, SettleParts

\* FloodsSettle: in any network where no frame is lost and floods do not
\* overlap, k floods give every node within k hops a metric of k at most.
THEOREM FloodsSettleMetrics == Undisturbed => (Spec => []FloodsSettle)
<1>1. ASSUME Undisturbed PROVE Spec => []FloodsSettle
  <2>1. Init => SettleInv
    BY SettleInit
  <2>2. SettleInv /\ [Next]_vars => SettleInv'
    BY <1>1, SettleStep
  <2>3. SettleInv => FloodsSettle
    BY FloodOver DEF FloodsSettle, Flood
  <2> QED
    BY <2>1, <2>2, <2>3, PTL DEF Spec
<1> QED
  BY <1>1

\* What Converges reaches: nodes within as many hops as there have been floods
\* have a route, and their metric is the number of hops, no way being shorter.
ShortestKnown ==
  Quiet => \A k \in 1 .. cnt - 1 : \A n \in Within[k] \ {RECV_NODE_ID} :
             /\ n \in Reached /\ n \in Within[cur_metric[n]]
             /\ \A j \in 0 .. cur_metric[n] - 1 : n \notin Within[j]

\* Both together: when floods do not overlap, the metrics of nodes within k
\* hops are exactly their distances after k floods.
THEOREM MetricsBecomeShortest == Undisturbed => (Spec => []ShortestKnown)
<1>1. ASSUME RouteInv, MetricIsReal, FloodsSettle, Quiet,
             NEW k \in 1 .. cnt - 1, NEW n \in Within[k] \ {RECV_NODE_ID}
      PROVE  /\ n \in Reached /\ n \in Within[cur_metric[n]]
             /\ \A j \in 0 .. cur_metric[n] - 1 : n \notin Within[j]
  <2>1. n \in Nodes
    BY <1>1, RoutingAssumption, WithinClosed
  <2>2. cnt - 1 \in Nat /\ cnt - 1 < INF /\ cur_metric[n] \in Nat /\ INF \in Nat
    BY <1>1, <2>1, RoutingAssumption DEF RouteInv, TypeOK, Words
  <2>3. cur_metric[n] <= k
    BY <1>1 DEF FloodsSettle
  <2>4. n \in Reached /\ n \in Within[cur_metric[n]]
    BY <1>1, <2>1, <2>2, <2>3 DEF Reached, MetricIsReal
  <2>5. ASSUME NEW j \in 0 .. cur_metric[n] - 1, n \in Within[j] PROVE FALSE
    <3>1. j # 0
      BY <1>1, <2>5, WithinUnfolds
    <3>2. j \in 1 .. cnt - 1
      BY <1>1, <2>2, <2>3, <2>5, <3>1
    <3>3. cur_metric[n] <= j
      BY <1>1, <2>5, <3>2 DEF FloodsSettle
    <3> QED
      BY <2>2, <2>5, <3>3
  <2> QED
    BY <2>4, <2>5
<1>2. RouteInv /\ MetricIsReal /\ FloodsSettle => ShortestKnown
  BY <1>1 DEF ShortestKnown
<1>3. Undisturbed => SourceFrames = {}
  BY DEF Undisturbed
<1> QED
  BY <1>2, <1>3, RoutingInvariant, MetricsAreReal, FloodsSettleMetrics, PTL
=============================================================================
