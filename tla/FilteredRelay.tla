---------------------------- MODULE FilteredRelay ----------------------------
(***************************************************************************)
(* What a relay promises for one direction, whatever goes wrong: of what   *)
(* was sent it delivers allowed messages, unchanged, in the order sent and *)
(* once each.  It may lose any message.  SerialFilter implements it from   *)
(* the VM to PX4, SimCoupler from the gazebo proxy to the VM.              *)
(***************************************************************************)
EXTENDS Subsequence

CONSTANTS
    Messages,   \* what may be sent
    Allowed     \* what may be delivered

VARIABLES
    sent,       \* all that was sent
    queue,      \* what the relay holds
    delivered   \* all that was delivered

vars == <<sent, queue, delivered>>

Init ==
    /\ sent = <<>>
    /\ queue = <<>>
    /\ delivered = <<>>

\* A message that is sent reaches the relay or is lost.
Send(m) ==
    /\ sent' = Append(sent, m)
    /\ queue' \in {queue, Append(queue, m)}
    /\ UNCHANGED delivered

\* The first n messages are delivered, if they all are allowed, and of the
\* others any are lost.
Relay(n) ==
    /\ \A i \in 1..n : queue[i] \in Allowed
    /\ delivered' = delivered \o SubSeq(queue, 1, n)
    /\ \E kept \in SUBSET ((n + 1)..Len(queue)) : queue' = Keep(queue, kept)
    /\ UNCHANGED sent

Next ==
    \/ \E m \in Messages : Send(m)
    \/ \E n \in 0..Len(queue) : Relay(n)

Spec == Init /\ [][Next]_vars
=============================================================================
