-------------------------- MODULE MCHostedTransport --------------------------
(* Instances of HostedTransport for TLC: two calls compete for a request     *)
(* channel of one slot, and the event channel has one slot.                  *)
EXTENDS HostedTransport

CONSTANTS c1, c2

MCCalls == {c1, c2}
===============================================================================
