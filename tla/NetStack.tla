------------------------------ MODULE NetStack ------------------------------
(***************************************************************************)
(* The two TRENTOS network stacks (nwStack_VM, nwStack_PX4) as one client  *)
(* component sees them through the OS_Socket API, together with the peers  *)
(* at the far ends and the one-shot event notification of each stack.      *)
(*                                                                         *)
(* The stacks are not part of the repository.  Everything in this module   *)
(* is external: it is what the callers in src/components and src/libs rely *)
(* on, with a nondeterministic choice wherever the callers rely on nothing.*)
(*   - Every API call may fail when its precondition does not hold; the    *)
(*     calls named in Faults may fail at any time.                         *)
(*   - OS_Socket_getPendingEvents reports the pending events in ascending  *)
(*     handle order and clears them: the callers keep no event they have   *)
(*     been given.                                                         *)
(*   - A bounded read or a single accept that leaves work behind raises    *)
(*     its event again: the callers read and accept once per event.        *)
(*   - A registered callback fires once: the callers register it again     *)
(*     after every run.                                                    *)
(***************************************************************************)
EXTENDS Integers, Sequences, FiniteSets

CONSTANTS
    Handles,    \* the socket handles a stack may give to this component
    Frames,     \* what the peers of each stack send; one element is one message
    Pad,        \* filler that a write beyond the data puts on the wire
    MTU,        \* the most elements one OS_Socket_read returns
    Faults,     \* the API calls that may fail although nothing is wrong
    MaxConns,   \* bound: connection attempts of the peers, per stack
    MaxSends    \* bound: frames the peers of each stack send

Stacks == {"VM", "PX4"}
Frame  == Frames["VM"] \cup Frames["PX4"]

ASSUME NetAssumption ==
    /\ Handles \subseteq Nat
    /\ Pad \notin Frame
    /\ MTU \in Nat \ {0}
    /\ MaxConns \in Nat
    /\ MaxSends \in [Stacks -> Nat]

VARIABLES
    nw,         \* status of each stack, as OS_Socket_getStatus reports it
    sk,         \* the socket table of each stack
    armed,      \* is a callback registered on the stack's interface
    signal,     \* has the stack notified since the last callback started
    wire,       \* what this component has written to the peers, per stack
    conns,      \* connection attempts made, per stack
    sent        \* frames the peers have sent, per stack

netVars == <<nw, sk, armed, signal, wire, conns, sent>>

Sockets == Stacks \X Handles
\* A handle that OS_Socket_create or accept never set: zero-initialised, with
\* no interface behind it, so that every call on it fails.
NoHandle == -1

EventBits  == {"ERROR", "FIN", "CONN_EST", "CONN_ACPT", "READ"}
DownEvents == {"ERROR", "FIN"}

\* st is the state of the entry, ev its pending events, in the frames that
\* arrived and were not read, q the connections that wait to be accepted.
SocketStates == {"free", "created", "bound", "listening", "connecting", "open", "down"}

SocketRecord == [st : SocketStates, ev : SUBSET EventBits, in : Seq(Frame), q : Nat]

FreeSocket == [st |-> "free", ev |-> {}, in |-> <<>>, q |-> 0]
Fresh(st)  == [FreeSocket EXCEPT !.st = st]

InUse(s, h)   == h \in Handles /\ sk[<<s, h>>].st # "free"
IsIn(s, h, st) == h \in Handles /\ sk[<<s, h>>].st = st
FreeHandles(s) == {h \in Handles : sk[<<s, h>>].st = "free"}

NetInit ==
    /\ nw = [s \in Stacks |-> "STARTING"]
    /\ sk = [k \in Sockets |-> FreeSocket]
    /\ armed = [s \in Stacks |-> FALSE]
    /\ signal = [s \in Stacks |-> FALSE]
    /\ wire = [s \in Stacks |-> <<>>]
    /\ conns = [s \in Stacks |-> 0]
    /\ sent = [s \in Stacks |-> <<>>]

NetTypeOK ==
    /\ nw \in [Stacks -> {"STARTING", "RUNNING", "FATAL_ERROR"}]
    /\ sk \in [Sockets -> SocketRecord]
    /\ armed \in [Stacks -> BOOLEAN]
    /\ signal \in [Stacks -> BOOLEAN]
    /\ wire \in [Stacks -> Seq(Frame \cup {Pad})]
    /\ conns \in [Stacks -> Nat]
    /\ sent \in [Stacks -> Seq(Frame)]

-----------------------------------------------------------------------------
(* The stack and the peers move on their own.                              *)

\* UNINITIALIZED and INITIALIZED are one value: the caller treats both alike.
StackBoot(s) ==
    /\ nw[s] = "STARTING"
    /\ \/ nw' = [nw EXCEPT ![s] = "RUNNING"]
       \/ "stack" \in Faults /\ nw' = [nw EXCEPT ![s] = "FATAL_ERROR"]
    /\ UNCHANGED <<sk, armed, signal, wire, conns, sent>>

Notify(s) == signal' = [signal EXCEPT ![s] = TRUE]

PeerConnect(s, h) ==
    /\ IsIn(s, h, "listening")
    /\ conns[s] < MaxConns
    /\ conns' = [conns EXCEPT ![s] = @ + 1]
    /\ sk' = [sk EXCEPT ![<<s, h>>].q = @ + 1, ![<<s, h>>].ev = @ \cup {"CONN_ACPT"}]
    /\ Notify(s)
    /\ UNCHANGED <<nw, armed, wire, sent>>

\* A connection is given up before it was accepted; its event stays.
PeerGivesUp(s, h) ==
    /\ sk[<<s, h>>].q > 0
    /\ sk' = [sk EXCEPT ![<<s, h>>].q = @ - 1]
    /\ UNCHANGED <<nw, armed, signal, wire, conns, sent>>

\* The peer of a connecting socket accepts or refuses.
PeerAnswer(s, h) ==
    /\ IsIn(s, h, "connecting")
    /\ \/ sk' = [sk EXCEPT ![<<s, h>>].st = "open", ![<<s, h>>].ev = @ \cup {"CONN_EST"}]
       \/ sk' = [sk EXCEPT ![<<s, h>>].st = "down", ![<<s, h>>].ev = @ \cup {"ERROR"}]
    /\ Notify(s)
    /\ UNCHANGED <<nw, armed, wire, conns, sent>>

PeerSend(s, h, f) ==
    /\ IsIn(s, h, "open")
    /\ Len(sent[s]) < MaxSends[s]
    /\ sent' = [sent EXCEPT ![s] = Append(@, f)]
    /\ sk' = [sk EXCEPT ![<<s, h>>].in = Append(@, f), ![<<s, h>>].ev = @ \cup {"READ"}]
    /\ Notify(s)
    /\ UNCHANGED <<nw, armed, wire, conns>>

\* The peer ends an established connection.  A reset would raise ERROR; the
\* callbacks treat the two alike.
PeerClose(s, h) ==
    /\ IsIn(s, h, "open")
    /\ sk' = [sk EXCEPT ![<<s, h>>].st = "down", ![<<s, h>>].ev = @ \cup {"FIN"}]
    /\ Notify(s)
    /\ UNCHANGED <<nw, armed, wire, conns, sent>>

PeerStep ==
    \E s \in Stacks, h \in Handles :
        \/ PeerConnect(s, h)
        \/ PeerGivesUp(s, h)
        \/ PeerAnswer(s, h)
        \/ \E f \in Frames[s] : PeerSend(s, h, f)
        \/ PeerClose(s, h)

-----------------------------------------------------------------------------
(* The OS_Socket API.  ok is the outcome: TRUE for OS_SUCCESS.             *)

OS_Socket_create(s, h, ok) ==
    /\ IF ok THEN h \in FreeHandles(s)
             ELSE FreeHandles(s) = {} \/ "create" \in Faults
    /\ sk' = IF ok THEN [sk EXCEPT ![<<s, h>>] = Fresh("created")] ELSE sk
    /\ UNCHANGED <<nw, armed, signal, wire, conns, sent>>

\* Registering fires nothing by itself.  With a callback registered already
\* the call may fail or may replace it by the same callback.
OS_Socket_regCallback(s, ok) ==
    /\ ok \/ armed[s] \/ "reg" \in Faults
    /\ armed' = IF ok THEN [armed EXCEPT ![s] = TRUE] ELSE armed
    /\ UNCHANGED <<nw, sk, signal, wire, conns, sent>>

\* bind, listen and connect move a socket from one state to the next.
SocketCall(call, s, h, from, to, ok) ==
    /\ IF ok THEN IsIn(s, h, from) ELSE ~IsIn(s, h, from) \/ call \in Faults
    /\ sk' = IF ok THEN [sk EXCEPT ![<<s, h>>].st = to] ELSE sk
    /\ UNCHANGED <<nw, armed, signal, wire, conns, sent>>

OS_Socket_bind(s, h, ok)    == SocketCall("bind", s, h, "created", "bound", ok)
OS_Socket_listen(s, h, ok)  == SocketCall("listen", s, h, "bound", "listening", ok)
OS_Socket_connect(s, h, ok) == SocketCall("connect", s, h, "created", "connecting", ok)

OS_Socket_close(s, h, ok) ==
    /\ IF ok THEN InUse(s, h) ELSE ~InUse(s, h) \/ "close" \in Faults
    /\ sk' = IF ok THEN [sk EXCEPT ![<<s, h>>] = FreeSocket] ELSE sk
    /\ UNCHANGED <<nw, armed, signal, wire, conns, sent>>

AcceptTryAgain(s, l) == IsIn(s, l, "listening") /\ sk[<<s, l>>].q = 0
AcceptFails(s, l) ==
    \/ ~IsIn(s, l, "listening")
    \/ sk[<<s, l>>].q > 0 /\ (FreeHandles(s) = {} \/ "accept" \in Faults)

\* The successful accept: the waiting connection becomes socket h.
OS_Socket_accept(s, l, h) ==
    /\ IsIn(s, l, "listening")
    /\ sk[<<s, l>>].q > 0
    /\ h \in FreeHandles(s)
    /\ sk' = [sk EXCEPT ![<<s, h>>] = Fresh("open"),
                        ![<<s, l>>].q = @ - 1,
                        ![<<s, l>>].ev = IF sk[<<s, l>>].q > 1 THEN @ \cup {"CONN_ACPT"} ELSE @]
    /\ signal' = [signal EXCEPT ![s] = @ \/ sk[<<s, l>>].q > 1]
    /\ UNCHANGED <<nw, armed, wire, conns, sent>>

Readable(s, h) ==
    h \in Handles /\ sk[<<s, h>>].st \in {"open", "down"} /\ sk[<<s, h>>].in # <<>>
ReadFails(s, h) == ~Readable(s, h) \/ "read" \in Faults
ReadLen(s, h)   == IF Len(sk[<<s, h>>].in) < MTU THEN Len(sk[<<s, h>>].in) ELSE MTU
Arrived(s, h)   == SubSeq(sk[<<s, h>>].in, 1, ReadLen(s, h))

\* What has arrived on a socket and was not read yet; on no socket, nothing.
WaitingOn(s, h) == IF h \in Handles THEN sk[<<s, h>>].in ELSE <<>>

\* The successful read: Arrived(s, h) is handed to the caller.
OS_Socket_read(s, h) ==
    /\ Readable(s, h)
    /\ LET rest == SubSeq(sk[<<s, h>>].in, ReadLen(s, h) + 1, Len(sk[<<s, h>>].in))
       IN  /\ sk' = [sk EXCEPT ![<<s, h>>].in = rest,
                               ![<<s, h>>].ev = IF rest # <<>> THEN @ \cup {"READ"} ELSE @]
           /\ signal' = [signal EXCEPT ![s] = @ \/ rest # <<>>]
    /\ UNCHANGED <<nw, armed, wire, conns, sent>>

\* A write reaches the peer of an open socket, whole or (fault "short") cut.
OS_Socket_write(s, h, data, ok) ==
    /\ IF ok THEN IsIn(s, h, "open") ELSE ~IsIn(s, h, "open") \/ "write" \in Faults
    /\ \/ wire' = IF ok THEN [wire EXCEPT ![s] = @ \o data] ELSE wire
       \/ /\ ok /\ "short" \in Faults
          /\ \E n \in 1..(Len(data) - 1) :
                wire' = [wire EXCEPT ![s] = @ \o SubSeq(data, 1, n)]
    /\ UNCHANGED <<nw, sk, armed, signal, conns, sent>>

Pending(s) == {h \in Handles : sk[<<s, h>>].ev # {}}

\* The successful report: every pending event of stack s is handed over.
OS_Socket_getPendingEvents(s) ==
    /\ sk' = [k \in Sockets |-> IF k[1] = s THEN [sk[k] EXCEPT !.ev = {}] ELSE sk[k]]
    /\ UNCHANGED <<nw, armed, signal, wire, conns, sent>>
=============================================================================
