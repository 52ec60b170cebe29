----------------------------- MODULE SimCoupler -----------------------------
(***************************************************************************)
(* components/SimCoupler: forwards what the gazebo proxy sends (a client   *)
(* on nwStack_PX4) to the mission program in the Linux VM (a client on     *)
(* nwStack_VM).  Both sides are servers.  MAIN runs post_init, the thread  *)
(* of each stack runs that stack's callback; one action is one call that   *)
(* can block, fail or be seen by another thread.                           *)
(***************************************************************************)
EXTENDS EventLoop

VARIABLE buf    \* what the PX4 callback has read and not yet written

vars == <<netVars, ctx, pc, tgt, loopVars, buf>>

Labels == InitLabels \cup LoopLabels \cup {"write", "done"}

Init ==
    /\ NetInit
    /\ LoopInit
    /\ ctx = [s \in Stacks |-> InitialContext]
    /\ pc = [t \in Threads |-> IF t = "MAIN" THEN "nw_wait" ELSE "idle"]
    /\ tgt = [t \in Threads |-> "VM"]
    /\ buf = <<>>

-----------------------------------------------------------------------------
(* post_init: the server for the VM and, if it came up, the one for PX4.   *)

SecondServer ==
    /\ pc["MAIN"] = "init_ok"
    /\ tgt["MAIN"] = "VM"
    /\ tgt' = [tgt EXCEPT !["MAIN"] = "PX4"]
    /\ Goto("MAIN", "nw_wait")
    /\ UNCHANGED <<netVars, ctx, loopVars, buf>>

InitsDone ==
    /\ \/ pc["MAIN"] = "init_err"
       \/ pc["MAIN"] = "init_ok" /\ tgt["MAIN"] = "PX4"
    /\ Goto("MAIN", "done")
    /\ UNCHANGED <<netVars, ctx, tgt, loopVars, buf>>

-----------------------------------------------------------------------------
(* Both callbacks                                                          *)

\* Variant of CloseOnDown that clears conn_init on ERROR only, not on FIN.
CloseKeepsConn(t, h) ==
    /\ pc[t] = "close"
    /\ \E ok \in BOOLEAN : OS_Socket_close(t, h, ok)
    /\ ctx' = [ctx EXCEPT ![t].conn = @ /\ "ERROR" \notin Mask(t)]
    /\ Goto(t, "handle")
    /\ UNCHANGED <<tgt, loopVars, buf>>

\* Variant of CloseOnDown that forgets the client at once, not only that it is
\* connected.
CloseForgetsClient(t, h) ==
    /\ pc[t] = "close"
    /\ \E ok \in BOOLEAN : OS_Socket_close(t, h, ok)
    /\ ctx' = [ctx EXCEPT ![t].conn = FALSE, ![t].client = NoHandle]
    /\ Goto(t, "handle")
    /\ UNCHANGED <<tgt, loopVars, buf>>

\* ERROR or FIN: whatever close returns, conn_init is cleared and the rest of
\* the mask is handled all the same.
CloseOnDown(t, h) ==
    /\ pc[t] = "close"
    /\ \E ok \in BOOLEAN : OS_Socket_close(t, h, ok)
    /\ ctx' = [ctx EXCEPT ![t].conn = FALSE]
    /\ Goto(t, "handle")
    /\ UNCHANGED <<tgt, loopVars, buf>>

Accept(t) ==
    /\ pc[t] = "handle"
    /\ "CONN_ACPT" \in Mask(t)
    /\ \E h \in Handles :
          /\ OS_Socket_accept(t, ctx[t].handle, h)
          /\ ctx' = [ctx EXCEPT ![t].client = h, ![t].conn = TRUE]
    /\ Goto(t, "reset")
    /\ UNCHANGED <<tgt, loopVars, buf>>

\* TRY_AGAIN is left alone; after any other error socket h is closed.
AcceptFailed(t, h) ==
    /\ pc[t] = "handle"
    /\ "CONN_ACPT" \in Mask(t)
    /\ \/ /\ AcceptTryAgain(t, ctx[t].handle)
          /\ UNCHANGED netVars
       \/ /\ AcceptFails(t, ctx[t].handle)
          /\ \E ok \in BOOLEAN : OS_Socket_close(t, h, ok)
    /\ Goto(t, "reset")
    /\ UNCHANGED <<ctx, tgt, loopVars, buf>>

\* A mask with none of the bits that callback t handles.
Ignore(t, handled) ==
    /\ pc[t] = "handle"
    /\ Mask(t) \cap handled = {}
    /\ Goto(t, "reset")
    /\ UNCHANGED <<netVars, ctx, tgt, loopVars, buf>>

-----------------------------------------------------------------------------
(* socket_PX4_event_callback                                               *)

\* The socket closed on FIN is the listening one, whose event it is or not.
PX4_Close == CloseOnDown("PX4", ctx["PX4"].handle)

PX4_Accept == Accept("PX4")

PX4_AcceptFailed == AcceptFailed("PX4", ctx["PX4"].client)

\* Variant of PX4_Read that takes the zeroed buffer as its data, as the PX4
\* callback of SerialFilter does when it writes.
PX4_ReadWholeBuffer ==
    /\ pc["PX4"] = "handle"
    /\ "CONN_ACPT" \notin Mask("PX4")
    /\ "READ" \in Mask("PX4")
    /\ OS_Socket_read("PX4", ctx["PX4"].client)
    /\ LET data == Arrived("PX4", ctx["PX4"].client)
       IN  buf' = data \o [i \in 1..(MTU - Len(data)) |-> Pad]
    /\ Goto("PX4", "write")
    /\ UNCHANGED <<ctx, tgt, loopVars>>

\* The data of a read is dropped when the VM is not connected.
PX4_Read ==
    /\ pc["PX4"] = "handle"
    /\ "CONN_ACPT" \notin Mask("PX4")
    /\ "READ" \in Mask("PX4")
    /\ \/ /\ OS_Socket_read("PX4", ctx["PX4"].client)
          /\ IF ctx["VM"].conn
             THEN buf' = Arrived("PX4", ctx["PX4"].client) /\ Goto("PX4", "write")
             ELSE UNCHANGED buf /\ Goto("PX4", "reset")
       \/ /\ ReadFails("PX4", ctx["PX4"].client)
          /\ Goto("PX4", "reset")
          /\ UNCHANGED <<netVars, buf>>
    /\ UNCHANGED <<ctx, tgt, loopVars>>

\* The length written is the length that was read.
PX4_Write ==
    /\ pc["PX4"] = "write"
    /\ \E ok \in BOOLEAN : OS_Socket_write("VM", ctx["VM"].client, buf, ok)
    /\ buf' = <<>>
    /\ Goto("PX4", "reset")
    /\ UNCHANGED <<ctx, tgt, loopVars>>

PX4_Ignore == Ignore("PX4", {"CONN_ACPT", "READ"})

PX4Callback ==
    PX4_Close \/ PX4_Accept \/ PX4_AcceptFailed \/ PX4_Read \/ PX4_Write \/ PX4_Ignore

-----------------------------------------------------------------------------
(* socket_VM_event_callback: READ is not among the events it handles.      *)

\* Variant of SocketToClose that closes as the PX4 callback does.
CloseTheHandle == ctx["VM"].handle

\* The server socket if the event is its own, else whatever client is current.
SocketToClose == IF ctx["VM"].handle = cur["VM"] THEN ctx["VM"].handle ELSE ctx["VM"].client

VM_Close == CloseOnDown("VM", SocketToClose)

VM_Accept == Accept("VM")

VM_AcceptFailed == AcceptFailed("VM", SocketToClose)

VM_Ignore == Ignore("VM", {"CONN_ACPT"})

VMCallback == VM_Close \/ VM_Accept \/ VM_AcceptFailed \/ VM_Ignore

-----------------------------------------------------------------------------
Loop(t)    == LoopStep(t) /\ UNCHANGED buf
Outside(A) == A /\ UNCHANGED <<ctx, pc, tgt, loopVars, buf>>

PX4Thread  == Loop("PX4") \/ PX4Callback
VMThread   == Loop("VM") \/ VMCallback
MainThread ==
    \/ InitStep("MAIN") /\ UNCHANGED <<loopVars, buf>>
    \/ SecondServer
    \/ InitsDone
Boot       == \E s \in Stacks : Outside(StackBoot(s))
Peers      == Outside(PeerStep)

Next == PX4Thread \/ VMThread \/ MainThread \/ Boot \/ Peers

Spec == Init /\ [][Next]_vars

\* The scheduler runs every thread that can go on, and the stacks come up.
\* Peers need never do anything.
Fairness ==
    /\ WF_vars(PX4Thread)
    /\ WF_vars(VMThread)
    /\ WF_vars(MainThread)
    /\ WF_vars(Boot)

FairSpec == Spec /\ Fairness

-----------------------------------------------------------------------------
(* Properties                                                              *)

TypeOK ==
    /\ NetTypeOK
    /\ HelperTypeOK(Labels)
    /\ LoopTypeOK
    /\ buf \in Seq(Frame)

\* Between the lock and the unlock of one loop iteration.
Critical(t) == pc[t] \in {"close", "handle", "write", "reset"}

\* A callback that is handling an event holds SharedResourceMutex: the two
\* callbacks never work on the socket contexts at the same time, whatever
\* call fails (SimCoupler.c:88-174 and 219-281).
MutualExclusion == \A t \in Stacks : Critical(t) => mutex = t

\* The messages under way from the proxy to the VM, oldest first.
UnderWay == buf \o WaitingOn("PX4", ctx["PX4"].client)

Relay == INSTANCE FilteredRelay WITH
    Messages <- Frames["PX4"],
    Allowed <- Frame,
    sent <- sent["PX4"],
    queue <- UnderWay,
    delivered <- wire["VM"]

\* SimCoupler implements the abstract relay: sensor data reaches the VM in the
\* order in which the proxy sent it, none twice and none made up, though a
\* failed call, a short write or a closed socket may lose some of it.
ImplementsRelay == Relay!Spec

\* The handle that sensor data is written to is a socket the stack still
\* knows, as long as conn_init says that the VM is connected
\* (SimCoupler.c:152-158).
VMClientAlive == ctx["VM"].conn => InUse("VM", ctx["VM"].client)

\* An interface that sleeps has nothing left to do, or will be woken.
Responsive ==
    \A s \in Stacks : pc[s] = "idle" /\ Pending(s) # {} => armed[s] /\ signal[s]

\* A VM that disconnects can connect again: nothing but a failed accept takes
\* away the socket that listens for it, a FIN does not (SimCoupler.c:239-240).
ServerSurvivesClients ==
    [][\A h \in Handles : IsIn("VM", h, "listening") /\ ~IsIn("VM", h, "listening")' =>
          pc["VM"] = "handle" /\ "CONN_ACPT" \in Mask("VM")]_vars

\* Every callback that was started returns.
CallbacksReturn == \A t \in Stacks : pc[t] = "fetch" ~> pc[t] = "idle"

\* The PX4 callback is about to read from socket h.
ReadDue(h) ==
    /\ pc["PX4"] = "handle"
    /\ "READ" \in Mask("PX4") /\ "CONN_ACPT" \notin Mask("PX4")
    /\ ctx["PX4"].client = h

\* Each arrival of sensor data leads to a read from the proxy's socket, be it
\* that the proxy disconnects at once, and whatever failed before: an earlier
\* read, or a write to the VM (SimCoupler.c:132-149).  The read itself may
\* fail; its event is gone then, and the data waits for the next arrival.
EachArrivalRead == \A h \in Handles : "READ" \in sk[<<"PX4", h>>].ev ~> ReadDue(h)
=============================================================================
