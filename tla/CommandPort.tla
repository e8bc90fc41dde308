----------------------------- MODULE CommandPort -----------------------------
(***************************************************************************)
(* What the car driver promises to the application that uses it: one       *)
(* command at a time, kept as it is until it is finished; readDone at most *)
(* once per accepted command and never without one, with either no data or *)
(* the data of the very tag that was asked for; and every accepted command *)
(* is finished.                                                            *)
(***************************************************************************)
CONSTANTS Ops, CmdVals          \* opcodes and their arguments

VARIABLES phase,                \* "ready", "working" or "signalled"
          op, val,              \* the last accepted command
          result                \* bytes reported by readDone, << >> for FAIL

portVars == <<phase, op, val, result>>

DataOf(t) == <<t, t>>           \* the two data bytes of tag t

PortInit == /\ phase = "ready"
            /\ result = << >>
            /\ op \in Ops /\ val \in CmdVals

Accept(o, v) == /\ phase = "ready"
                /\ phase' = "working"
                /\ op' = o /\ val' = v
                /\ UNCHANGED result

Signal(r) == /\ phase = "working"
             /\ r # << >> => op = "QUIRYREADER" /\ r = DataOf(val)
             /\ phase' = "signalled"
             /\ result' = r
             /\ UNCHANGED <<op, val>>

Finish == /\ phase \in {"working", "signalled"}
          /\ phase' = "ready"
          /\ result' = << >>
          /\ UNCHANGED <<op, val>>

SignalAny == Signal(<< >>) \/ Signal(DataOf(val))

PortNext == \/ \E o \in Ops, v \in CmdVals : Accept(o, v)
            \/ SignalAny
            \/ Finish

PortSafety == PortInit /\ [][PortNext]_portVars

PortSpec == PortSafety /\ WF_portVars(SignalAny \/ Finish)
=============================================================================
