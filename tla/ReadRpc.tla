------------------------------ MODULE ReadRpc ------------------------------
(***************************************************************************)
(* What the multiplexer is promised when it sends an AdsReadReq to the     *)
(* AdsClient actor (client.rs, `impl Handler<AdsReadReq> for AdsClient`):  *)
(* a future that settles at most once, and when it settles with data the   *)
(* data is the PLC's answer to that very request.                          *)
(***************************************************************************)
CONSTANT Reads      \* the read requests, each issued at most once

VARIABLES
    reply,          \* what the caller's future of a request has come to
    answers         \* pairs <<request, the request whose data it was given>>

vars == <<reply, answers>>

ReplyState == {"unsent", "waiting", "ok", "canceled", "closed"}

TypeOK ==
    /\ reply \in [Reads -> ReplyState]
    /\ answers \subseteq Reads \X Reads

Init ==
    /\ reply = [r \in Reads |-> "unsent"]
    /\ answers = {}

\* The caller issues a request; the mailbox takes it, or is closed.
Call(r) ==
    /\ reply[r] = "unsent"
    /\ reply' \in {[reply EXCEPT ![r] = s] : s \in {"waiting", "closed"}}
    /\ UNCHANGED answers

\* The request's own data arrives.
Answer(r) ==
    /\ reply[r] = "waiting"
    /\ reply' = [reply EXCEPT ![r] = "ok"]
    /\ answers' = answers \cup {<<r, r>>}

\* The server goes away: every outstanding request fails, in one step.
Fail ==
    /\ reply' \in [Reads -> ReplyState]
    /\ \A r \in Reads :
          IF reply[r] = "waiting"
          THEN reply'[r] \in {"canceled", "closed"}
          ELSE reply'[r] = reply[r]
    /\ UNCHANGED answers

Next == Fail \/ \E r \in Reads : Call(r) \/ Answer(r)

Spec == Init /\ [][Next]_vars
=============================================================================
