------------------------------- MODULE MinMax --------------------------------
(***************************************************************************)
(* RadioToLedsC of final/706/BiDaXiao: every node is given a number over   *)
(* its serial line; the network floods the smallest and the largest of     *)
(* them, and the root prints what it knows when that has not changed for   *)
(* some ticks of MilliTimer, or when time is up.                           *)
(*                                                                         *)
(* A node sends its status when it improves, and when it hears a frame     *)
(* that is worse on both ends, STALE_COUNT_THD times at most.  A node with *)
(* a number far from the middle starts the flood (SendTimer).  The root    *)
(* listens only.  SUCCESS is 0: busy_radio is set when send is refused.    *)
(*                                                                         *)
(* slot[n] is the node's slot in the send queue of its radio: "queued"     *)
(* after send, "sent" once the radio has copied and sent the packet (in    *)
(* one step, as if the copy could not be interrupted), and free after      *)
(* sendDone.  heard[n] holds the frames a node's radio has received and    *)
(* its handler has not.  The two counters of MilliTimer are read by the    *)
(* root only and kept for the root only.                                   *)
(***************************************************************************)
EXTENDS Naturals

CONSTANTS Nodes, ROOT_NODE_ID,
          Link,                \* <<n, m>> : node m can hear node n
          Number,              \* Number[n] : what node n is given
          NUM_MOD,             \* numbers are numbers modulo this (2^16)
          SMALL_MID_VALUE, BIG_MID_VALUE,
          STALE_COUNT_THD,
          STALE_CAP,           \* bound: stale_count is not counted any further
          STABLE_THD, END_TIME,
          RADIO_FIRST,         \* a node's number comes when its radio is on
          WELL_TIMED           \* see Calm

Nums == 0 .. NUM_MOD - 1

ASSUME MinMaxAssumption ==
  /\ ROOT_NODE_ID \in Nodes /\ Link \subseteq Nodes \X Nodes
  /\ NUM_MOD \in Nat \ {0, 1} /\ Number \in [Nodes -> Nums]
  /\ {SMALL_MID_VALUE, BIG_MID_VALUE, STALE_COUNT_THD, STALE_CAP} \subseteq Nat
  /\ STABLE_THD \in Nat /\ END_TIME \in Nat
  /\ STALE_COUNT_THD < STALE_CAP
  /\ RADIO_FIRST \in BOOLEAN /\ WELL_TIMED \in BOOLEAN
  /\ WELL_TIMED => RADIO_FIRST

VARIABLES radioOn, serial_received, status, stale_count,
          busy_radio, packet, slot, resendTimer, sendTimer,
          heard,
          last_status, status_stable_count, time_count,
          result_sent, report  \* what the root has printed, once it has

sendVars == <<busy_radio, packet, slot, resendTimer>>
rootVars == <<last_status, status_stable_count, time_count, result_sent, report>>
vars == <<radioOn, serial_received, status, stale_count, sendVars, sendTimer, heard, rootVars>>

Status == [min : Nums, max : Nums]

TypeOK == /\ radioOn \in [Nodes -> BOOLEAN]
          /\ serial_received \in [Nodes -> BOOLEAN]
          /\ status \in [Nodes -> Status]
          /\ stale_count \in [Nodes -> 0 .. STALE_CAP]
          /\ busy_radio \in [Nodes -> BOOLEAN]
          /\ packet \in [Nodes -> Status]
          /\ slot \in [Nodes -> {"free", "queued", "sent"}]
          /\ resendTimer \in [Nodes -> BOOLEAN]
          /\ sendTimer \in [Nodes -> BOOLEAN]
          /\ heard \in [Nodes -> SUBSET Status]
          /\ last_status \in Status
          /\ status_stable_count \in 0 .. STABLE_THD
          /\ time_count \in 0 .. END_TIME
          /\ result_sent \in BOOLEAN /\ report \in Status

Both(x) == [min |-> x, max |-> x]

Init == /\ radioOn = [n \in Nodes |-> FALSE]
        /\ serial_received = [n \in Nodes |-> FALSE]
        /\ status = [n \in Nodes |-> Both(0)]
        /\ stale_count = [n \in Nodes |-> 0]
        /\ busy_radio = [n \in Nodes |-> FALSE]
        /\ packet = [n \in Nodes |-> Both(0)]
        /\ slot = [n \in Nodes |-> "free"]
        /\ resendTimer = [n \in Nodes |-> FALSE]
        /\ sendTimer = [n \in Nodes |-> FALSE]
        /\ heard = [n \in Nodes |-> {}]
        /\ last_status = Both(1)
        /\ status_stable_count = 0 /\ time_count = 0
        /\ result_sent = FALSE /\ report = Both(0)

Capped(x, cap) == IF x < cap THEN x + 1 ELSE cap

Numbered == {n \in Nodes : serial_received[n]}

\* Nothing is going on any more, nor will be: the flood is over.
Quiet == \A n \in Nodes : /\ serial_received[n] /\ heard[n] = {}
                          /\ slot[n] = "free" /\ ~resendTimer[n] /\ ~sendTimer[n]

\* With WELL_TIMED the flood starts when all nodes have their numbers, no
\* frame is lost, a handler finds the node's last send finished (Calm), and
\* the flood is over before the root could count to its thresholds.
Calm(n) == WELL_TIMED => slot[n] = "free" /\ Numbered = Nodes

----------------------------------------------------------------------------
\* Mutant of SendStatus: the status is not copied into the packet.
SendStatusUncopied(n, st, p, timer) ==
  /\ packet' = [packet EXCEPT ![n] = p]
  /\ \/ /\ ~serial_received[n] \/ n = ROOT_NODE_ID
        /\ resendTimer' = [resendTimer EXCEPT ![n] = timer]
        /\ UNCHANGED <<busy_radio, slot>>
     \/ /\ serial_received[n] /\ n # ROOT_NODE_ID /\ busy_radio[n]
        /\ resendTimer' = [resendTimer EXCEPT ![n] = TRUE]
        /\ UNCHANGED <<busy_radio, slot>>
     \/ /\ serial_received[n] /\ n # ROOT_NODE_ID /\ ~busy_radio[n]
        /\ resendTimer' = [resendTimer EXCEPT ![n] = timer]
        /\ \/ /\ radioOn[n] /\ slot[n] = "free"
              /\ slot' = [slot EXCEPT ![n] = "queued"]
              /\ UNCHANGED busy_radio
           \/ /\ ~radioOn[n] \/ slot[n] # "free"
              /\ busy_radio' = [busy_radio EXCEPT ![n] = TRUE]
              /\ UNCHANGED slot

\* sendStatus of node n with status st, when packet holds p and the
\* ResendTimer runs iff timer.  The packet is written while it is pending, too.
SendStatus(n, st, p, timer) ==
  \/ /\ ~serial_received[n] \/ n = ROOT_NODE_ID
     /\ packet' = [packet EXCEPT ![n] = p]
     /\ resendTimer' = [resendTimer EXCEPT ![n] = timer]
     /\ UNCHANGED <<busy_radio, slot>>
  \/ /\ serial_received[n] /\ n # ROOT_NODE_ID /\ busy_radio[n]
     /\ packet' = [packet EXCEPT ![n] = p]
     /\ resendTimer' = [resendTimer EXCEPT ![n] = TRUE]
     /\ UNCHANGED <<busy_radio, slot>>
  \/ /\ serial_received[n] /\ n # ROOT_NODE_ID /\ ~busy_radio[n]
     /\ packet' = [packet EXCEPT ![n] = st]
     /\ resendTimer' = [resendTimer EXCEPT ![n] = timer]
     /\ \/ /\ radioOn[n] /\ slot[n] = "free"            \* SUCCESS
           /\ slot' = [slot EXCEPT ![n] = "queued"]
           /\ UNCHANGED busy_radio
        \/ /\ ~radioOn[n] \/ slot[n] # "free"           \* FAIL, EBUSY
           /\ busy_radio' = [busy_radio EXCEPT ![n] = TRUE]
           /\ UNCHANGED slot

----------------------------------------------------------------------------
\* AMControl.startDone; on an error the radio is started again.
StartDone(n) == /\ ~radioOn[n]
                /\ radioOn' = [radioOn EXCEPT ![n] = TRUE]
                /\ UNCHANGED <<serial_received, status, stale_count, sendVars, sendTimer,
                               heard, rootVars>>

\* The node is given a number far from the middle, and starts the flood.
Starts(n) == Number[n] < SMALL_MID_VALUE \/ Number[n] > BIG_MID_VALUE

\* SerialReceive.receive: what the node has heard before is forgotten.
SerialReceive(n) ==
  /\ ~serial_received[n]
  /\ RADIO_FIRST => radioOn[n]
  /\ status' = [status EXCEPT ![n] = Both(Number[n])]
  /\ last_status' = IF n = ROOT_NODE_ID THEN Both((Number[n] + 1) % NUM_MOD) ELSE last_status
  /\ serial_received' = [serial_received EXCEPT ![n] = TRUE]
  /\ sendTimer' = [sendTimer EXCEPT ![n] = Starts(n)]
  /\ UNCHANGED <<radioOn, stale_count, sendVars, heard, status_stable_count, time_count,
                 result_sent, report>>

SendTimerFired(n) ==
  /\ sendTimer[n] /\ Calm(n)
  /\ sendTimer' = [sendTimer EXCEPT ![n] = FALSE]
  /\ SendStatus(n, status[n], packet[n], resendTimer[n])
  /\ UNCHANGED <<radioOn, serial_received, status, stale_count, heard, rootVars>>

ResendTimerFired(n) ==
  /\ resendTimer[n] /\ Calm(n)
  /\ SendStatus(n, status[n], packet[n], FALSE)
  /\ UNCHANGED <<radioOn, serial_received, status, stale_count, sendTimer, heard, rootVars>>

Better(f, s) == f.max > s.max \/ f.min < s.min
Stale(f, s) == s.max > f.max /\ s.min < f.min

\* Mutant of Merged: the minimum is looked at only when the maximum is no news.
MergedElse(f, s) == [min |-> IF f.max <= s.max /\ f.min < s.min THEN f.min ELSE s.min,
                     max |-> IF f.max > s.max THEN f.max ELSE s.max]

Merged(f, s) == [min |-> IF f.min < s.min THEN f.min ELSE s.min,
                 max |-> IF f.max > s.max THEN f.max ELSE s.max]

\* Mutant of Answers: every frame is answered.
AnswersEvery(n, f) == TRUE

Answers(n, f) == \/ Better(f, status[n])
                 \/ Stale(f, status[n]) /\ stale_count[n] < STALE_COUNT_THD

\* Receive.receive: the frame goes into packet whether the node answers or not.
Receive(n, f) ==
  /\ f \in heard[n] /\ Calm(n)
  /\ heard' = [heard EXCEPT ![n] = @ \ {f}]
  /\ status' = [status EXCEPT ![n] = Merged(f, @)]
  /\ stale_count' = [stale_count EXCEPT ![n] =
                       IF Better(f, status[n]) THEN 0
                       ELSE IF Stale(f, status[n]) THEN Capped(@, STALE_CAP) ELSE @]
  /\ \/ /\ Answers(n, f)
        /\ SendStatus(n, Merged(f, status[n]), f, resendTimer[n])
     \/ /\ ~Answers(n, f)
        /\ packet' = [packet EXCEPT ![n] = f]
        /\ UNCHANGED <<busy_radio, slot, resendTimer>>
  /\ UNCHANGED <<radioOn, serial_received, sendTimer, rootVars>>

Hearers(n) == {m \in Nodes : <<n, m>> \in Link /\ radioOn[m]}

\* The radio of node n sends the packet; some neighbours hear it.
Transmit(n) ==
  /\ slot[n] = "queued"
  /\ slot' = [slot EXCEPT ![n] = "sent"]
  /\ \E H \in SUBSET Hearers(n) :
       /\ WELL_TIMED => H = Hearers(n)
       /\ heard' = [m \in Nodes |-> heard[m] \cup IF m \in H THEN {packet[n]} ELSE {}]
  /\ UNCHANGED <<radioOn, serial_received, status, stale_count, busy_radio, packet,
                 resendTimer, sendTimer, rootVars>>

\* Mutant of SendDone: the flag is cleared on success only.
SendDoneOnSuccess(n) ==
  /\ slot[n] \in {"queued", "sent"}
  /\ slot' = [slot EXCEPT ![n] = "free"]
  /\ busy_radio' = [busy_radio EXCEPT ![n] = @ /\ slot[n] = "queued"]
  /\ resendTimer' = [resendTimer EXCEPT ![n] = @ \/ slot[n] = "queued"]
  /\ UNCHANGED <<radioOn, serial_received, status, stale_count, packet, sendTimer,
                 heard, rootVars>>

\* AMSend.sendDone, with SUCCESS, or with ERETRY when nothing was sent.
SendDone(n) ==
  /\ slot[n] \in {"queued", "sent"}
  /\ slot' = [slot EXCEPT ![n] = "free"]
  /\ busy_radio' = [busy_radio EXCEPT ![n] = FALSE]
  /\ resendTimer' = [resendTimer EXCEPT ![n] = @ \/ slot[n] = "queued"]
  /\ UNCHANGED <<radioOn, serial_received, status, stale_count, packet, sendTimer,
                 heard, rootVars>>

\* Mutant of Prints: the root must be stable and out of time.
PrintsIfBoth(stable, t) == stable /\ t >= END_TIME

Prints(stable, t) == stable \/ t >= END_TIME

\* Mutant of Printed: what the root knew at the last tick.
PrintedLast == last_status

Printed == status[ROOT_NODE_ID]

\* MilliTimer.fired of the root; time_count stands still once it is stable.
MilliTimerFired ==
  /\ radioOn[ROOT_NODE_ID]
  /\ WELL_TIMED => Quiet \/ (status_stable_count < STABLE_THD /\ time_count + 1 < END_TIME)
  /\ LET stable == status_stable_count >= STABLE_THD
         t == IF stable THEN time_count ELSE Capped(time_count, END_TIME)
     IN /\ time_count' = t
        /\ result_sent' = (result_sent \/ Prints(stable, t))
  /\ report' = IF result_sent' /\ ~result_sent THEN Printed ELSE report
  /\ status_stable_count' = IF last_status = status[ROOT_NODE_ID]
                            THEN Capped(status_stable_count, STABLE_THD) ELSE 0
  /\ last_status' = status[ROOT_NODE_ID]
  /\ UNCHANGED <<radioOn, serial_received, status, stale_count, sendVars, sendTimer, heard>>

----------------------------------------------------------------------------
NodeStep(n) == \/ StartDone(n) \/ SerialReceive(n)
               \/ SendTimerFired(n) \/ ResendTimerFired(n)
               \/ (\E f \in heard[n] : Receive(n, f))
               \/ Transmit(n) \/ SendDone(n)

Next == MilliTimerFired \/ \E n \in Nodes : NodeStep(n)

\* Radios start, every node is given its number, timers fire, received frames
\* are handled and sends end.  A radio that retries sends in the end.
Fairness == /\ WF_vars(MilliTimerFired)
            /\ \A n \in Nodes : /\ WF_vars(StartDone(n)) /\ WF_vars(SerialReceive(n))
                                /\ WF_vars(SendTimerFired(n))
                                /\ WF_vars(ResendTimerFired(n))
                                /\ WF_vars(\E f \in heard[n] : Receive(n, f))
                                /\ SF_vars(Transmit(n)) /\ WF_vars(SendDone(n))

Spec == Init /\ [][Next]_vars /\ Fairness

----------------------------------------------------------------------------
Truth == [min |-> CHOOSE x \in {Number[n] : n \in Nodes} : \A n \in Nodes : x <= Number[n],
          max |-> CHOOSE x \in {Number[n] : n \in Nodes} : \A n \in Nodes : x >= Number[n]]

\* Both ends are numbers that some node has been given.
Genuine(s) == \E i, j \in Numbered : s.min = Number[i] /\ s.max = Number[j]

\* Nobody invents a number, although a packet is overwritten by every frame
\* that is heard, also while it is pending: what is heard, and what a numbered
\* node knows, are numbers that were given to nodes.  A copy of the packet into
\* the radio is taken as whole.
OnlyGivenNumbers ==
  \A n \in Nodes : /\ \A f \in heard[n] : Genuine(f)
                   /\ slot[n] = "queued" => Genuine(packet[n])
                   /\ serial_received[n] => Genuine(status[n])

\* The flag that is set when a send is refused never outlives the send it
\* waits for, so a node does not fall silent for good; if numbers come when the
\* radio is on (RADIO_FIRST): a send that a radio refuses because it is off sets
\* the flag with nothing pending (RadioToLedsC.nc:116-119).
BusyMeansPending == \A n \in Nodes : busy_radio[n] => slot[n] # "free"

\* Whatever is lost or repeated, the nodes stop answering each other.
FloodEnds == <>[](\A n \in Nodes : slot[n] = "free" /\ heard[n] = {})

\* What the network must be like for the flood to do its work.  S is closed
\* when it holds every node that can hear one of its nodes that passes frames
\* on: the starters reach every node then, and every node reaches the root.
Closed(S) == \A e \in Link : e[1] \in S /\ e[1] # ROOT_NODE_ID => e[2] \in S
FloodReachesAll ==
  \A S \in SUBSET Nodes :
    Closed(S) => /\ {n \in Nodes \ {ROOT_NODE_ID} : Starts(n)} \subseteq S => S = Nodes
                 /\ S # {} => ROOT_NODE_ID \in S

\* When a well-timed flood is over, the root knows the true extremes.
RootKnows == WELL_TIMED /\ Quiet => status[ROOT_NODE_ID] = Truth

\* What the root prints is then true, ...
ReportIsTrue == WELL_TIMED /\ result_sent => report = Truth

\* ... and it prints in any case.
RootReports == <>result_sent

\* A numbered node knows its own number at least.
OwnNumberKnown == \A n \in Numbered : status[n].min <= Number[n] /\ Number[n] <= status[n].max

MinMaxInv == TypeOK /\ OnlyGivenNumbers /\ OwnNumberKnown
=============================================================================
