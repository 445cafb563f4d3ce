---------------------------- MODULE FrameStream ----------------------------
(***************************************************************************)
(* What is left of the PLC's stream of frames behind AdsClientCodec: a     *)
(* read takes some frames and hands on the first of them, the others are   *)
(* lost.  It may end inside a frame; the reader is then adrift until a     *)
(* read ends on a boundary again, and what it hands on while adrift is no  *)
(* frame at all.                                                           *)
(***************************************************************************)
EXTENDS Naturals, Sequences

CONSTANTS
    MaxFrames,     \* bound: frames the PLC sends
    Known,         \* those of a command the reader knows
    Bogus          \* what is handed on while adrift

VARIABLES sent, taken, adrift, delivered

vars == <<sent, taken, adrift, delivered>>

Init == sent = 0 /\ taken = 0 /\ ~adrift /\ delivered = <<>>

Send ==
    /\ sent < MaxFrames
    /\ sent' = sent + 1
    /\ UNCHANGED <<taken, adrift, delivered>>

Take(k) ==
    /\ ~adrift /\ taken + k <= sent
    /\ taken' = taken + k
    /\ adrift' \in BOOLEAN
    /\ delivered' = IF taken + 1 \in Known THEN Append(delivered, taken + 1) ELSE delivered
    /\ UNCHANGED sent

Drift(k) ==
    /\ adrift /\ taken + k <= sent
    /\ taken' = taken + k
    /\ adrift' \in BOOLEAN
    /\ delivered' \in {delivered, Append(delivered, Bogus)}
    /\ UNCHANGED sent

Next ==
    \/ Send
    \/ \E k \in 1..MaxFrames : Take(k)
    \/ \E k \in 0..MaxFrames : Drift(k)

Spec == Init /\ [][Next]_vars
=============================================================================
