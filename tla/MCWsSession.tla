---------------------------- MODULE MCWsSession ----------------------------
(* WsSession for TLC: two PLCs of one net id whose ports differ in the high
   byte only, a port nobody configured, sessions of one worker. *)
EXTENDS WsSession

CONSTANT s1    \* one of the sessions

MCWorkerOf == [s \in Sessions |-> "w"]
MCOctets == [n \in {"net"} |-> <<172, 16, 21, 1, 1, 1>>]
At(port) == [net |-> "net", port |-> port]
MCPlcs == {At(800), At(288)}
\* Both at one PLC, one at each, one at a port that nobody configured.
MCVisits == {[s \in Sessions |-> IF s = s1 THEN At(800) ELSE At(port)] : port \in {800, 288, 7}}
MCDisconnects == {At(800)}
=============================================================================
