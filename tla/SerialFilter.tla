---------------------------- MODULE SerialFilter ----------------------------
(***************************************************************************)
(* components/SerialFilter: the relay between the Linux VM (a server on    *)
(* nwStack_VM) and the PX4 flight controller (a client on nwStack_PX4).    *)
(* Three threads run it: MAIN runs post_init, and the thread of each stack *)
(* runs that stack's callback.  One action is one call that can block,     *)
(* fail or be seen by another thread.                                      *)
(*                                                                         *)
(* A frame is a whole MAVLink message (module MavlinkFilter); how messages *)
(* fall apart over reads is the subject of module MavlinkStream.           *)
(***************************************************************************)
EXTENDS EventLoop, MavlinkFilter, Subsequence

VARIABLES
    buf,        \* what a callback has read, or the filter has yet to see
    ret_buf     \* what the filter has appended for PX4

vars == <<netVars, ctx, pc, tgt, loopVars, buf, ret_buf>>
bufVars == <<buf, ret_buf>>

Labels == InitLabels \cup LoopLabels \cup {"filter", "write"}

Init ==
    /\ NetInit
    /\ LoopInit
    /\ ctx = [s \in Stacks |-> InitialContext]
    /\ pc = [t \in Threads |-> IF t = "MAIN" THEN "nw_wait" ELSE "idle"]
    /\ tgt = [t \in Threads |-> "VM"]
    /\ buf = [s \in Stacks |-> <<>>]
    /\ ret_buf = <<>>

-----------------------------------------------------------------------------
(* socket_PX4_event_callback                                               *)

\* ERROR or FIN: whatever close returns, conn_init is cleared, and the rest
\* of the event mask is handled all the same.
PX4_Close ==
    /\ pc["PX4"] = "close"
    /\ \E ok \in BOOLEAN : OS_Socket_close("PX4", ctx["PX4"].handle, ok)
    /\ ctx' = [ctx EXCEPT !["PX4"].conn = FALSE]
    /\ Goto("PX4", "handle")
    /\ UNCHANGED <<tgt, loopVars, bufVars>>

PX4_ConnEst ==
    /\ pc["PX4"] = "handle"
    /\ "CONN_EST" \in Mask("PX4")
    /\ ctx' = [ctx EXCEPT !["PX4"].conn = TRUE]
    /\ Goto("PX4", "reset")
    /\ UNCHANGED <<netVars, tgt, loopVars, bufVars>>

\* The length written is len_requested, the size of the zeroed buffer, and
\* not the length that was read.
Padded(data) == data \o [i \in 1..(MTU - Len(data)) |-> Pad]

\* Variant of PX4_Read that takes the zeroed buffer as its data, connected or not.
PX4_ReadWholeBuffer ==
    /\ pc["PX4"] = "handle"
    /\ "CONN_EST" \notin Mask("PX4")
    /\ "READ" \in Mask("PX4")
    /\ OS_Socket_read("PX4", ctx["PX4"].handle)
    /\ buf' = [buf EXCEPT !["PX4"] = Padded(Arrived("PX4", ctx["PX4"].handle))]
    /\ Goto("PX4", "write")
    /\ UNCHANGED <<ctx, tgt, loopVars, ret_buf>>

\* The data of a read is dropped when the VM is not connected.
PX4_Read ==
    /\ pc["PX4"] = "handle"
    /\ "CONN_EST" \notin Mask("PX4")
    /\ "READ" \in Mask("PX4")
    /\ \/ /\ OS_Socket_read("PX4", ctx["PX4"].handle)
          /\ IF ctx["VM"].conn
             THEN /\ buf' = [buf EXCEPT !["PX4"] = Arrived("PX4", ctx["PX4"].handle)]
                  /\ Goto("PX4", "write")
             ELSE Goto("PX4", "reset") /\ UNCHANGED buf
       \/ /\ ReadFails("PX4", ctx["PX4"].handle)
          /\ Goto("PX4", "reset")
          /\ UNCHANGED <<netVars, buf>>
    /\ UNCHANGED <<ctx, tgt, loopVars, ret_buf>>

\* Variant of PX4_Write that repeats a short write, from the start.
PX4_WriteUntilWhole ==
    /\ pc["PX4"] = "write"
    /\ \E ok \in BOOLEAN :
          OS_Socket_write("VM", ctx["VM"].client, Padded(buf["PX4"]), ok)
    /\ IF 0 < Len(wire'["VM"]) - Len(wire["VM"]) /\ Len(wire'["VM"]) - Len(wire["VM"]) < MTU
       THEN UNCHANGED <<buf, pc>>
       ELSE buf' = [buf EXCEPT !["PX4"] = <<>>] /\ Goto("PX4", "reset")
    /\ UNCHANGED <<ctx, tgt, loopVars, ret_buf>>

PX4_Write ==
    /\ pc["PX4"] = "write"
    /\ \E ok \in BOOLEAN :
          OS_Socket_write("VM", ctx["VM"].client, Padded(buf["PX4"]), ok)
    /\ buf' = [buf EXCEPT !["PX4"] = <<>>]
    /\ Goto("PX4", "reset")
    /\ UNCHANGED <<ctx, tgt, loopVars, ret_buf>>

\* A mask with none of the bits the callback handles.
PX4_Ignore ==
    /\ pc["PX4"] = "handle"
    /\ Mask("PX4") \cap {"CONN_EST", "READ"} = {}
    /\ Goto("PX4", "reset")
    /\ UNCHANGED <<netVars, ctx, tgt, loopVars, bufVars>>

PX4Callback == PX4_Close \/ PX4_ConnEst \/ PX4_Read \/ PX4_Write \/ PX4_Ignore

-----------------------------------------------------------------------------
(* socket_VM_event_callback                                                *)

\* Variant of SocketToClose that closes as the PX4 callback does.
CloseTheHandle == ctx["VM"].handle

\* The server socket if the event is its own, else whatever client is current.
SocketToClose == IF ctx["VM"].handle = cur["VM"] THEN ctx["VM"].handle ELSE ctx["VM"].client

\* Variant of VM_Close that clears conn_init on ERROR only, not on FIN.
VM_CloseKeepsConn ==
    /\ pc["VM"] = "close"
    /\ \E ok \in BOOLEAN : OS_Socket_close("VM", SocketToClose, ok)
    /\ ctx' = [ctx EXCEPT !["VM"].conn = @ /\ "ERROR" \notin Mask("VM")]
    /\ Goto("VM", "handle")
    /\ UNCHANGED <<tgt, loopVars, bufVars>>

VM_Close ==
    /\ pc["VM"] = "close"
    /\ \E ok \in BOOLEAN : OS_Socket_close("VM", SocketToClose, ok)
    /\ ctx' = [ctx EXCEPT !["VM"].conn = FALSE]
    /\ Goto("VM", "handle")
    /\ UNCHANGED <<tgt, loopVars, bufVars>>

\* The client is connected: connect to PX4, in this thread and still under
\* the mutex.
VM_Accept ==
    /\ pc["VM"] = "handle"
    /\ "CONN_ACPT" \in Mask("VM")
    /\ \E h \in Handles :
          /\ OS_Socket_accept("VM", ctx["VM"].handle, h)
          /\ ctx' = [ctx EXCEPT !["VM"].client = h, !["VM"].conn = TRUE]
    /\ tgt' = [tgt EXCEPT !["VM"] = "PX4"]
    /\ Goto("VM", "nw_wait")
    /\ UNCHANGED <<loopVars, bufVars>>

\* TRY_AGAIN is left alone; after any other error a socket is closed.
VM_AcceptFailed ==
    /\ pc["VM"] = "handle"
    /\ "CONN_ACPT" \in Mask("VM")
    /\ \/ /\ AcceptTryAgain("VM", ctx["VM"].handle)
          /\ UNCHANGED netVars
       \/ /\ AcceptFails("VM", ctx["VM"].handle)
          /\ \E ok \in BOOLEAN : OS_Socket_close("VM", SocketToClose, ok)
    /\ Goto("VM", "reset")
    /\ UNCHANGED <<ctx, tgt, loopVars, bufVars>>

VM_InitDone ==
    /\ pc["VM"] = "init_ok"
    /\ Goto("VM", "reset")
    /\ UNCHANGED <<netVars, ctx, tgt, loopVars, bufVars>>

\* The callback returns: the mutex stays locked, nothing is registered.
VM_InitFailed ==
    /\ pc["VM"] = "init_err"
    /\ batch' = [batch EXCEPT !["VM"] = NoBatch]
    /\ cur' = [cur EXCEPT !["VM"] = NoHandle]
    /\ Goto("VM", "idle")
    /\ UNCHANGED <<netVars, ctx, tgt, mutex, bufVars>>

\* Variant of VM_Read that reads from the listening socket, which never has data.
VM_ReadFromServerSocket ==
    /\ pc["VM"] = "handle"
    /\ "CONN_ACPT" \notin Mask("VM")
    /\ "READ" \in Mask("VM")
    /\ ReadFails("VM", ctx["VM"].handle)
    /\ Goto("VM", "reset")
    /\ UNCHANGED <<netVars, ctx, tgt, loopVars, bufVars>>

VM_Read ==
    /\ pc["VM"] = "handle"
    /\ "CONN_ACPT" \notin Mask("VM")
    /\ "READ" \in Mask("VM")
    /\ \/ /\ OS_Socket_read("VM", ctx["VM"].client)
          /\ buf' = [buf EXCEPT !["VM"] = Arrived("VM", ctx["VM"].client)]
          /\ Goto("VM", "filter")
       \/ /\ ReadFails("VM", ctx["VM"].client)
          /\ Goto("VM", "reset")
          /\ UNCHANGED <<netVars, buf>>
    /\ UNCHANGED <<ctx, tgt, loopVars, ret_buf>>

\* filter_mavlink_message, one message at a time.
VM_Filter ==
    /\ pc["VM"] = "filter"
    /\ buf["VM"] # <<>>
    /\ ret_buf' = IF handle_mavlink_package(Head(buf["VM"]))
                  THEN Append(ret_buf, Head(buf["VM"])) ELSE ret_buf
    /\ buf' = [buf EXCEPT !["VM"] = Tail(@)]
    /\ UNCHANGED <<netVars, ctx, pc, tgt, loopVars>>

\* Nothing is written while PX4 is not connected or when all was dropped.
VM_Filtered ==
    /\ pc["VM"] = "filter"
    /\ buf["VM"] = <<>>
    /\ IF ctx["PX4"].conn /\ ret_buf # <<>>
       THEN Goto("VM", "write") /\ UNCHANGED ret_buf
       ELSE Goto("VM", "reset") /\ ret_buf' = <<>>
    /\ UNCHANGED <<netVars, ctx, tgt, loopVars, buf>>

\* Variant of VM_Write in which ret_buf outlives the event.
VM_WriteKeepsBuffer ==
    /\ pc["VM"] = "write"
    /\ \E ok \in BOOLEAN : OS_Socket_write("PX4", ctx["PX4"].handle, ret_buf, ok)
    /\ Goto("VM", "reset")
    /\ UNCHANGED <<ctx, tgt, loopVars, bufVars>>

VM_Write ==
    /\ pc["VM"] = "write"
    /\ \E ok \in BOOLEAN : OS_Socket_write("PX4", ctx["PX4"].handle, ret_buf, ok)
    /\ ret_buf' = <<>>
    /\ Goto("VM", "reset")
    /\ UNCHANGED <<ctx, tgt, loopVars, buf>>

VM_Ignore ==
    /\ pc["VM"] = "handle"
    /\ Mask("VM") \cap {"CONN_ACPT", "READ"} = {}
    /\ Goto("VM", "reset")
    /\ UNCHANGED <<netVars, ctx, tgt, loopVars, bufVars>>

VMCallback ==
    \/ VM_Close \/ VM_Accept \/ VM_AcceptFailed \/ VM_InitDone \/ VM_InitFailed
    \/ VM_Read \/ VM_Filter \/ VM_Filtered \/ VM_Write \/ VM_Ignore

-----------------------------------------------------------------------------
Initialise(t) == InitStep(t) /\ UNCHANGED <<loopVars, bufVars>>
Loop(t)       == LoopStep(t) /\ UNCHANGED bufVars
Outside(A)    == A /\ UNCHANGED <<ctx, pc, tgt, loopVars, bufVars>>

PX4Thread  == Loop("PX4") \/ PX4Callback
VMThread   == Loop("VM") \/ VMCallback \/ Initialise("VM")
MainThread == Initialise("MAIN")                  \* post_init
Boot       == \E s \in Stacks : Outside(StackBoot(s))
Peers      == Outside(PeerStep)

Next == PX4Thread \/ VMThread \/ MainThread \/ Boot \/ Peers

Spec == Init /\ [][Next]_vars

\* The scheduler runs every thread that can go on, and the stacks come up.
\* Peers need never do anything.
Fairness ==
    /\ WF_vars(PX4Thread)
    /\ WF_vars(VMThread)
    /\ WF_vars(MainThread)
    /\ WF_vars(Boot)

FairSpec == Spec /\ Fairness

-----------------------------------------------------------------------------
(* Properties                                                              *)

TypeOK ==
    /\ NetTypeOK
    /\ HelperTypeOK(Labels)
    /\ LoopTypeOK
    /\ buf \in [Stacks -> Seq(Frame)]
    /\ ret_buf \in Seq(Frame)

\* Between the lock and the unlock of one loop iteration.
Critical(t) == pc[t] \in Labels \ {"idle", "fetch", "next"}

\* A callback that is handling an event holds SharedResourceMutex: the two
\* callbacks never work on the socket contexts at the same time, whatever
\* call fails (SerialFilter.c:95-154 and 201-309).
MutualExclusion == \A t \in Stacks : Critical(t) => mutex = t

\* Whatever the VM sends, whichever calls fail and however often it connects,
\* PX4 receives permitted messages and nothing else.
OnlyPermitted == \A i \in DOMAIN wire["PX4"] : wire["PX4"][i] \in Frame /\ Permitted(wire["PX4"][i])

\* What was written to the VM, the filler of padded writes left out.
WithoutFiller(bytes) == Without(bytes, Pad)

\* Both sides receive what the other one sent in the order in which it was
\* sent, none twice and none made up; messages may be missing (dropped or not
\* yet relayed), and the VM finds filler between them.
RelayInOrder ==
    /\ InOrder(wire["PX4"], sent["VM"])
    /\ InOrder(WithoutFiller(wire["VM"]), sent["PX4"])

\* The messages under way from the VM to PX4, oldest first: those the filter
\* has passed, those it has yet to see, and those waiting in the socket.
UnderWay == ret_buf \o buf["VM"] \o WaitingOn("VM", ctx["VM"].client)

\* The messages under way from PX4 to the VM.
UnderWayBack == buf["PX4"] \o WaitingOn("PX4", ctx["PX4"].handle)

Relay == INSTANCE FilteredRelay WITH
    Messages <- Frames["VM"],
    Allowed <- {m \in Frame : Permitted(m)},
    sent <- sent["VM"],
    queue <- UnderWay,
    delivered <- wire["PX4"]

RelayBack == INSTANCE FilteredRelay WITH
    Messages <- Frames["PX4"],
    Allowed <- Frame,
    sent <- sent["PX4"],
    queue <- UnderWayBack,
    delivered <- WithoutFiller(wire["VM"])

\* SerialFilter implements the abstract relay, once each way: each of its
\* steps sends, delivers or loses messages as FilteredRelay allows, or does
\* none of these.  No failing call, short write or reconnection reorders what
\* is under way, repeats it, or delivers what the filter has not passed; and
\* the padding of SerialFilter.c:122-123 adds filler and nothing else.
ImplementsRelay == Relay!Spec /\ RelayBack!Spec

\* While conn_init says that the VM is connected, client_handle is a socket
\* the stack still knows: what PX4 sends is never written to a closed or
\* recycled handle (SerialFilter.c:135-145).
ClientAlive == ctx["VM"].conn => InUse("VM", ctx["VM"].client)

\* An interface that sleeps has nothing left to do, or will be woken: while
\* events are pending its callback is registered and the stack has notified.
Responsive ==
    \A s \in Stacks : pc[s] = "idle" /\ Pending(s) # {} => armed[s] /\ signal[s]

\* "Find socket handle through socket id" (SerialFilter.c:218): a callback
\* closes the socket whose event it is handling.
ClosesOwnSocket ==
    [][\A h \in Handles :
          pc["VM"] = "close" /\ InUse("VM", h) /\ ~InUse("VM", h)' => h = cur["VM"]]_vars

\* The stack of the VM knows at most one connection, alive or ended.
Connection(h) == sk[<<"VM", h>>].st \in {"open", "down"}
OneConnection == \A g, h \in Handles : Connection(g) /\ Connection(h) => g = h

\* Whenever the stack knows a single connection, what a callback closes is the
\* socket whose event it is handling: an event of an earlier connection does
\* not end the one that came after it (SerialFilter.c:212-225).
ClosesOwnConnection ==
    [][\A h \in Handles :
          /\ pc["VM"] = "close" /\ OneConnection
          /\ InUse("VM", h) /\ ~InUse("VM", h)'
          => h = cur["VM"]]_vars

\* Every callback that was started returns.
CallbacksReturn == \A t \in Stacks : pc[t] = "fetch" ~> pc[t] = "idle"

\* What the VM has sent on an accepted connection is read, or the connection
\* is closed.
VMDataServed == \A h \in Handles : sk[<<"VM", h>>].in # <<>> ~> sk[<<"VM", h>>].in = <<>>

\* What PX4 has sent is read by the PX4 callback, which relays it, or its
\* connection is closed (README.md:5-6, "in both directions").
PX4DataServed == \A h \in Handles : sk[<<"PX4", h>>].in # <<>> ~> sk[<<"PX4", h>>].in = <<>>

\* The relay stays available: the mutex is free again and again.
MutexReleased == []<>(mutex = Free)

\* PX4 data arrives at the VM as it was sent: nothing is made up.
NothingMadeUp == \A i \in DOMAIN wire["VM"] : wire["VM"][i] \in Frame
=============================================================================
