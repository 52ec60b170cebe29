---------------------------- MODULE SocketHelper ----------------------------
(***************************************************************************)
(* libs/util/socket_helper: the socket context of each side of a component *)
(* and the initialisation sequences that run inside a thread, one action   *)
(* per OS_Socket call.  A thread enters a sequence at label "nw_wait" with *)
(* the context to initialise in tgt and leaves it at "init_ok" (returned   *)
(* OS_SUCCESS) or "init_err" (returned an error).                          *)
(***************************************************************************)
EXTENDS NetStack

VARIABLES
    ctx,        \* socket_ctx_t of each side: handle, client_handle, conn_init
    pc,         \* what each thread does next
    tgt         \* the context a thread is initialising

\* MAIN runs post_init; the thread of each stack runs that stack's callback.
Threads == Stacks \cup {"MAIN"}

InitLabels == {"nw_wait", "create", "reg", "bind", "listen", "connect", "init_ok", "init_err"}

Goto(t, label) == pc' = [pc EXCEPT ![t] = label]

SocketContext ==
    [handle : Handles \cup {NoHandle}, client : Handles \cup {NoHandle}, conn : BOOLEAN]

\* Zero-initialised static contexts: no handle yet, conn_init = false.
InitialContext == [handle |-> NoHandle, client |-> NoHandle, conn |-> FALSE]

HelperTypeOK(labels) ==
    /\ ctx \in [Stacks -> SocketContext]
    /\ pc \in [Threads -> labels]
    /\ tgt \in [Threads -> Stacks]

-----------------------------------------------------------------------------
\* Polls OS_Socket_getStatus; the spinning iterations change nothing.
wait_for_nw_stack_init_nb(t) ==
    /\ pc[t] = "nw_wait"
    /\ \/ nw[tgt[t]] = "RUNNING" /\ Goto(t, "create")
       \/ nw[tgt[t]] = "FATAL_ERROR" /\ Goto(t, "init_err")
    /\ UNCHANGED <<netVars, ctx, tgt>>

InitCreate(t) ==
    /\ pc[t] = "create"
    /\ \/ \E h \in Handles :
             /\ OS_Socket_create(tgt[t], h, TRUE)
             /\ ctx' = [ctx EXCEPT ![tgt[t]].handle = h]
             /\ Goto(t, "reg")
       \/ /\ OS_Socket_create(tgt[t], NoHandle, FALSE)
          /\ Goto(t, "init_err")
          /\ UNCHANGED ctx
    /\ UNCHANGED tgt

\* Only post_init starts servers; only the VM callback starts a client.
InitRegCallback(t) ==
    /\ pc[t] = "reg"
    /\ \E ok \in BOOLEAN :
          /\ OS_Socket_regCallback(tgt[t], ok)
          /\ Goto(t, IF ~ok THEN "init_err" ELSE IF t = "MAIN" THEN "bind" ELSE "connect")
    /\ UNCHANGED <<ctx, tgt>>

\* A failed bind or listen closes the socket and returns what close returned.
CloseAndReturn(t) ==
    \E closed \in BOOLEAN :
        /\ OS_Socket_close(tgt[t], ctx[tgt[t]].handle, closed)
        /\ Goto(t, IF closed THEN "init_ok" ELSE "init_err")

BindFails(t) ==
    ~IsIn(tgt[t], ctx[tgt[t]].handle, "created") \/ "bind" \in Faults

ListenFails(t) ==
    ~IsIn(tgt[t], ctx[tgt[t]].handle, "bound") \/ "listen" \in Faults

InitBind(t) ==
    /\ pc[t] = "bind"
    /\ \/ OS_Socket_bind(tgt[t], ctx[tgt[t]].handle, TRUE) /\ Goto(t, "listen")
       \/ BindFails(t) /\ CloseAndReturn(t)
    /\ UNCHANGED <<ctx, tgt>>

InitListen(t) ==
    /\ pc[t] = "listen"
    /\ \/ OS_Socket_listen(tgt[t], ctx[tgt[t]].handle, TRUE) /\ Goto(t, "init_ok")
       \/ ListenFails(t) /\ CloseAndReturn(t)
    /\ UNCHANGED <<ctx, tgt>>

InitConnect(t) ==
    /\ pc[t] = "connect"
    /\ \E ok \in BOOLEAN :
          /\ OS_Socket_connect(tgt[t], ctx[tgt[t]].handle, ok)
          /\ Goto(t, IF ok THEN "init_ok" ELSE "init_err")
    /\ UNCHANGED <<ctx, tgt>>

\* One step of init_socket_nb_server (MAIN) or init_socket_nb_client.
InitStep(t) ==
    \/ wait_for_nw_stack_init_nb(t)
    \/ InitCreate(t)
    \/ InitRegCallback(t)
    \/ InitBind(t)
    \/ InitListen(t)
    \/ InitConnect(t)
=============================================================================
