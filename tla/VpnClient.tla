------------------------------ MODULE VpnClient ------------------------------
(***************************************************************************)
(* What the coordinator and the switches rely on of whatever talks to the  *)
(* Fritz!Box: an answer is about the box as it was while the call ran, and *)
(* a call switches the VPN only as it was asked to, MaxSwitches times at   *)
(* most, and not after it has returned.  One VPN is enough to say so.      *)
(*                                                                         *)
(* The module states the promise alone; the sessions are shown to keep it. *)
(***************************************************************************)
EXTENDS Naturals

CONSTANTS
  Task,        \* the callers
  MaxSwitches  \* how often one call may switch the VPN

VARIABLES
  vpn,   \* the VPN on the box: "on", "off", or "gone" when the box has none
  call   \* per task the running call, or the answer of the last one

VpnStates == {"on", "off", "gone"}

\* Any number of answers may say that the call failed; none of them says what
\* became of the VPN.
Failures == {"outage", "denied", "false"}

Running(t) == call[t].answer = "none"

\* A call that is not running, and what the last one answered
Idle(answer) == [want |-> "list", seen |-> {}, switches |-> 0, answer |-> answer]

Init ==
  /\ vpn \in VpnStates
  /\ call = [t \in Task |-> Idle("outage")]

\* A call asks for the listing, or for the VPN to be "on" or "off".
Start(t, want) ==
  /\ ~Running(t)
  /\ call' = [call EXCEPT ![t] =
                [want |-> want, seen |-> {vpn}, switches |-> 0, answer |-> "none"]]
  /\ UNCHANGED vpn

\* Running calls witness every state the VPN passes through.
Witnessed(state, calls) ==
  [t \in Task |-> IF calls[t].answer = "none"
                  THEN [calls[t] EXCEPT !.seen = @ \union {state}] ELSE calls[t]]

Switch(t) ==
  /\ Running(t) /\ call[t].want # "list" /\ call[t].switches < MaxSwitches
  /\ vpn # "gone"
  /\ vpn' = call[t].want
  /\ call' = Witnessed(vpn', [call EXCEPT ![t].switches = @ + 1])

\* The user of the box switches, creates or deletes the VPN.
Interfere ==
  /\ vpn' \in VpnStates
  /\ call' = Witnessed(vpn', call)

\* A listing is one the box had, "true" means that the VPN was as wanted.
Answers(c) ==
  Failures \union
    (IF c.want = "list" THEN c.seen ELSE IF c.want \in c.seen THEN {"true"} ELSE {})

Return(t) ==
  /\ Running(t)
  /\ \E a \in Answers(call[t]) : call' = [call EXCEPT ![t] = Idle(a)]
  /\ UNCHANGED vpn

Next ==
  \/ \E t \in Task : \/ \E want \in {"list", "on", "off"} : Start(t, want)
                     \/ Switch(t)
                     \/ Return(t)
  \/ Interfere

Spec == Init /\ [][Next]_<<vpn, call>>
=============================================================================
