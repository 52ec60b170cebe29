------------------------------ MODULE EventLoop ------------------------------
(***************************************************************************)
(* The frame that all four socket event callbacks share: fetch the pending *)
(* events, handle them one by one under SharedResourceMutex, clear an      *)
(* entry of the event buffer after each, register the callback again.      *)
(* The handling itself, from label "close" or "handle" to label "reset",   *)
(* belongs to the component.                                               *)
(*                                                                         *)
(* eventBuffer holds one entry per socket with events, in handle order.    *)
(* It is kept by handle: rep is the set of handles reported, todo those    *)
(* the loop has not reached, mask the event mask left in each entry.       *)
(***************************************************************************)
EXTENDS SocketHelper

VARIABLES
    mutex,      \* the owner of SharedResourceMutex
    batch,      \* the local eventBuffer of each callback
    cur         \* the entry each callback is handling

loopVars == <<mutex, batch, cur>>

Free == "nobody"    \* the mutex is not held

LoopLabels == {"idle", "fetch", "next", "close", "handle", "reset"}
NoBatch    == [rep |-> {}, todo |-> {}, mask |-> [h \in Handles |-> {}]]

LoopInit ==
    /\ mutex = Free
    /\ batch = [s \in Stacks |-> NoBatch]
    /\ cur = [s \in Stacks |-> NoHandle]

LoopTypeOK ==
    /\ mutex \in Stacks \cup {Free}
    /\ batch \in [Stacks -> [rep : SUBSET Handles, todo : SUBSET Handles,
                             mask : [Handles -> SUBSET EventBits]]]
    /\ cur \in [Stacks -> Handles \cup {NoHandle}]

\* The event mask of the entry being handled.
Mask(t) == IF cur[t] \in Handles THEN batch[t].mask[cur[t]] ELSE {}

-----------------------------------------------------------------------------
\* The stack's notification reaches the interface thread: the callback that
\* is registered is taken off and run.
Dispatch(t) ==
    /\ pc[t] = "idle"
    /\ armed[t] /\ signal[t]
    /\ armed' = [armed EXCEPT ![t] = FALSE]
    /\ signal' = [signal EXCEPT ![t] = FALSE]
    /\ Goto(t, "fetch")
    /\ UNCHANGED <<nw, sk, wire, conns, sent, ctx, tgt, loopVars>>

\* A failed report ends the callback without registering it again.
Fetch(t) ==
    /\ pc[t] = "fetch"
    /\ \/ /\ OS_Socket_getPendingEvents(t)
          /\ batch' = [batch EXCEPT ![t] = [rep |-> Pending(t), todo |-> Pending(t),
                                           mask |-> [h \in Handles |-> sk[<<t, h>>].ev]]]
          /\ Goto(t, "next")
       \/ /\ "events" \in Faults
          /\ Goto(t, "idle")
          /\ UNCHANGED <<netVars, batch>>
    /\ UNCHANGED <<ctx, tgt, mutex, cur>>

\* event = eventBuffer[i]: entry h, the first the loop has not reached.
Take(t, h) ==
    /\ \A g \in batch[t].todo : h <= g
    /\ cur' = [cur EXCEPT ![t] = h]
    /\ batch' = [batch EXCEPT ![t].todo = @ \ {h}]
    /\ Goto(t, IF batch[t].mask[h] \cap DownEvents # {} THEN "close" ELSE "handle")

\* Variant of Lock whose mutex does not exclude the other callback.
LockWithoutWaiting(t) ==
    /\ pc[t] = "next"
    /\ batch[t].todo # {}
    /\ mutex' = t
    /\ \E h \in batch[t].todo : Take(t, h)
    /\ UNCHANGED <<netVars, ctx, tgt>>

\* The next entry in handle order, under the mutex.  A failed lock ends the
\* callback without registering it again.
Lock(t) ==
    /\ pc[t] = "next"
    /\ batch[t].todo # {}
    /\ \/ /\ mutex = Free
          /\ mutex' = t
          /\ \E h \in batch[t].todo : Take(t, h)
       \/ /\ "lock" \in Faults
          /\ Goto(t, "idle")
          /\ batch' = [batch EXCEPT ![t] = NoBatch]
          /\ UNCHANGED <<mutex, cur>>
    /\ UNCHANGED <<netVars, ctx, tgt>>

\* memset(&eventBuffer[event.socketHandle]): the entry whose index in the
\* buffer is the handle of the event, not the entry that was handled.  An
\* entry cleared before it was handled reads as an event of socket 0.
Rank(S, h) == Cardinality({g \in S : g < h})

ClearEntry(b, h) ==
    LET index == IF b.mask[h] = {} THEN 0 ELSE h
    IN  [b EXCEPT !.mask = [g \in Handles |->
            IF g \in b.rep /\ Rank(b.rep, g) = index THEN {} ELSE b.mask[g]]]

\* Variant of Reset that forgets to unlock.
ResetKeepsMutex(t) ==
    /\ pc[t] = "reset"
    /\ cur[t] \in Handles
    /\ cur' = [cur EXCEPT ![t] = NoHandle]
    /\ batch' = [batch EXCEPT ![t] = ClearEntry(@, cur[t])]
    /\ Goto(t, "next")
    /\ UNCHANGED <<netVars, ctx, tgt, mutex>>

\* reset_VM, reset_PX4: a failed unlock ends the callback, mutex held and
\* callback not registered.
Reset(t) ==
    /\ pc[t] = "reset"
    /\ cur[t] \in Handles
    /\ cur' = [cur EXCEPT ![t] = NoHandle]
    /\ \/ /\ mutex' = Free
          /\ batch' = [batch EXCEPT ![t] = ClearEntry(@, cur[t])]
          /\ Goto(t, "next")
       \/ /\ "unlock" \in Faults
          /\ batch' = [batch EXCEPT ![t] = NoBatch]
          /\ Goto(t, "idle")
          /\ UNCHANGED mutex
    /\ UNCHANGED <<netVars, ctx, tgt>>

\* Variant of Rearm that takes an empty report for a spurious wakeup.
RearmOnlyAfterEvents(t) ==
    /\ pc[t] = "next"
    /\ batch[t].todo = {}
    /\ IF batch[t].rep = {} THEN UNCHANGED netVars ELSE OS_Socket_regCallback(t, TRUE)
    /\ batch' = [batch EXCEPT ![t] = NoBatch]
    /\ Goto(t, "idle")
    /\ UNCHANGED <<ctx, tgt, mutex, cur>>

\* The loop is done.  A failed registration is only logged.
Rearm(t) ==
    /\ pc[t] = "next"
    /\ batch[t].todo = {}
    /\ \E ok \in BOOLEAN : OS_Socket_regCallback(t, ok)
    /\ batch' = [batch EXCEPT ![t] = NoBatch]
    /\ Goto(t, "idle")
    /\ UNCHANGED <<ctx, tgt, mutex, cur>>

LoopStep(t) ==
    \/ Dispatch(t)
    \/ Fetch(t)
    \/ Lock(t)
    \/ Reset(t)
    \/ Rearm(t)
=============================================================================
