------------------------------ MODULE AdsPipe ------------------------------
(***************************************************************************)
(* What lies between the multiplexer and the memory of the PLC, as         *)
(* AdsToWsMultiplexer.tla takes it to be: a pipe.  Requests execute one by *)
(* one in the order issued, a read is answered with the memory as it was   *)
(* when the read executed, and when the connection ends all that is on its *)
(* way is lost at once.                                                    *)
(***************************************************************************)
EXTENDS Sequences

CONSTANTS
    Reads, Writes   \* the requests, each issued at most once

VARIABLES
    up,             \* is there a connection?
    pipe,           \* requests not yet executed
    memory,         \* the writes executed
    sample,         \* read -> the memory when it executed
    reply,          \* what the caller's future of a read has come to
    answers         \* pairs <<read, the memory it was answered with>>

vars == <<up, pipe, memory, sample, reply, answers>>

ReplyState == {"unsent", "waiting", "executed", "ok", "canceled", "closed"}

Init ==
    /\ up = TRUE /\ pipe = <<>> /\ memory = {}
    /\ sample = [r \in Reads |-> {}]
    /\ reply = [r \in Reads |-> "unsent"]
    /\ answers = {}

Ask(r) ==
    /\ up /\ reply[r] = "unsent"
    /\ pipe' = Append(pipe, r)
    /\ reply' = [reply EXCEPT ![r] = "waiting"]
    /\ UNCHANGED <<up, memory, sample, answers>>

Refuse(r) ==
    /\ ~up /\ reply[r] = "unsent"
    /\ reply' = [reply EXCEPT ![r] = "closed"]
    /\ UNCHANGED <<up, pipe, memory, sample, answers>>

Tell(w) ==
    /\ up
    /\ w \notin memory /\ \A i \in DOMAIN pipe : pipe[i] # w
    /\ pipe' = Append(pipe, w)
    /\ UNCHANGED <<up, memory, sample, reply, answers>>

\* The oldest request executes.
Oldest(q) == up /\ pipe # <<>> /\ Head(pipe) = q /\ pipe' = Tail(pipe)

ExecuteWrite(w) ==
    /\ Oldest(w)
    /\ memory' = memory \cup {w}
    /\ UNCHANGED <<up, sample, reply, answers>>

ExecuteRead(r) ==
    /\ Oldest(r) /\ reply[r] = "waiting"
    /\ sample' = [sample EXCEPT ![r] = memory]
    /\ reply' = [reply EXCEPT ![r] = "executed"]
    /\ UNCHANGED <<up, memory, answers>>

\* The answer arrives, however much has executed since.
Deliver(r) ==
    /\ up /\ reply[r] = "executed"
    /\ reply' = [reply EXCEPT ![r] = "ok"]
    /\ answers' = answers \cup {<<r, sample[r]>>}
    /\ UNCHANGED <<up, pipe, memory, sample>>

Lose ==
    /\ up /\ up' = FALSE
    /\ pipe' = <<>>
    /\ reply' \in [Reads -> ReplyState]
    /\ \A r \in Reads : IF reply[r] \in {"waiting", "executed"}
                        THEN reply'[r] \in {"canceled", "closed"}
                        ELSE reply'[r] = reply[r]
    /\ UNCHANGED <<memory, sample, answers>>

Next ==
    \/ \E r \in Reads : Ask(r) \/ Refuse(r) \/ ExecuteRead(r) \/ Deliver(r)
    \/ \E w \in Writes : Tell(w) \/ ExecuteWrite(w)
    \/ Lose

Spec == Init /\ [][Next]_vars
=============================================================================
