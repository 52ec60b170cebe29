-------------------------- MODULE SimCouplerProofs --------------------------
(***************************************************************************)
(* Theorems about SimCoupler for every set of handles, everything the      *)
(* peers may send, every number of connections and, where a theorem does   *)
(* not say otherwise, every choice of failing calls.                       *)
(***************************************************************************)
EXTENDS SimCoupler, EventLoopProofs, Subsequence

-----------------------------------------------------------------------------
(* Type correctness.                                                       *)

\* The initial state is type correct.
LEMMA InitType == Init => TypeOK
<1> SUFFICES ASSUME Init PROVE TypeOK
  OBVIOUS
<1>1. pc \in [Threads -> Labels] /\ tgt \in [Threads -> Stacks]
  BY DEF Init, Labels, InitLabels, LoopLabels, Threads, Stacks
<1>2. buf \in Seq(Frame)
  BY EmptySeq DEF Init
<1> QED BY <1>1, <1>2, InitTypes DEF Init, TypeOK, HelperTypeOK

\* The next-state relation, one disjunct per kind of step.
LEMMA NextCases ==
    Next <=> \/ \E t \in Stacks : Loop(t)
             \/ InitStep("MAIN") /\ UNCHANGED <<loopVars, buf>>
             \/ SecondServer \/ InitsDone
             \/ PX4Callback
             \/ VMCallback
             \/ Outside((\E s \in Stacks : StackBoot(s)) \/ PeerStep)
  BY DEF Next, PX4Thread, VMThread, MainThread, Boot, Peers, Outside, Stacks

\* Closing a socket in a callback keeps every type.
LEMMA CloseOnDownType ==
    ASSUME TypeOK, NEW t \in Stacks, NEW h, CloseOnDown(t, h)
    PROVE  TypeOK'
<1> USE DEF TypeOK
<1>1. t \in Threads /\ "handle" \in Labels
  BY DEF Threads, Labels, LoopLabels
<1>2. NetTypeOK'
  BY CloseType DEF CloseOnDown
<1>3. pc' \in [Threads -> Labels]
  BY <1>1, GotoType DEF CloseOnDown
<1>4. ctx' \in [Stacks -> SocketContext]
  BY ContextType DEF CloseOnDown
<1> QED BY <1>2, <1>3, <1>4 DEF CloseOnDown, HelperTypeOK, LoopTypeOK, loopVars

\* So does accepting a connection, successful or not.
LEMMA AcceptStepType ==
    ASSUME TypeOK, NEW t \in Stacks, NEW h, Accept(t) \/ AcceptFailed(t, h)
    PROVE  TypeOK'
<1> USE DEF TypeOK
<1>1. t \in Threads /\ "reset" \in Labels
  BY DEF Threads, Labels, LoopLabels
<1>2. pc' \in [Threads -> Labels]
  BY <1>1, GotoType DEF Accept, AcceptFailed
<1>3. CASE Accept(t)
  <2>1. NetTypeOK'
    BY <1>3, AcceptType DEF Accept
  <2>2. ctx' \in [Stacks -> SocketContext]
    BY <1>3, AcceptedContextType DEF Accept
  <2> QED BY <1>2, <1>3, <2>1, <2>2 DEF Accept, HelperTypeOK, LoopTypeOK, loopVars
<1>4. CASE AcceptFailed(t, h)
  <2>1. NetTypeOK'
    BY <1>4, CloseType DEF AcceptFailed, netVars, NetTypeOK
  <2> QED BY <1>2, <1>4, <2>1 DEF AcceptFailed, HelperTypeOK, LoopTypeOK, loopVars
<1> QED BY <1>3, <1>4

\* Ignoring a mask touches nothing but pc.
LEMMA IgnoreType ==
    ASSUME TypeOK, NEW t \in Stacks, NEW handled, Ignore(t, handled)
    PROVE  TypeOK'
<1> USE DEF TypeOK
<1>1. t \in Threads /\ "reset" \in Labels
  BY DEF Threads, Labels, LoopLabels
<1>2. pc' \in [Threads -> Labels] /\ NetTypeOK'
  BY <1>1, GotoType DEF Ignore, netVars, NetTypeOK
<1> QED BY <1>2 DEF Ignore, HelperTypeOK, LoopTypeOK, loopVars

\* The relaying half of socket_PX4_event_callback keeps every type.
LEMMA PX4RelayType ==
    ASSUME TypeOK, PX4_Read \/ PX4_Write
    PROVE  TypeOK'
<1> USE DEF TypeOK
<1>1. "PX4" \in Stacks /\ "VM" \in Stacks /\ "PX4" \in Threads
  BY DEF Stacks, Threads
<1>2. ASSUME NEW label \in {"reset", "write"}, Goto("PX4", label)
      PROVE  pc' \in [Threads -> Labels]
  BY <1>1, <1>2, GotoType DEF Labels, LoopLabels
<1>3. CASE PX4_Read
  <2> DEFINE h == ctx["PX4"].client
  <2>1. CASE OS_Socket_read("PX4", h)
    <3>1. NetTypeOK'
      BY <1>1, <2>1, ReadType
    <3>2. Arrived("PX4", h) \in Seq(Frame)
      BY <1>1, <2>1, ArrivedType DEF OS_Socket_read
    <3>3. pc' \in [Threads -> Labels] /\ buf' \in Seq(Frame)
      BY <1>1, <1>2, <1>3, <3>2 DEF PX4_Read
    <3> QED BY <1>3, <3>1, <3>3 DEF PX4_Read, HelperTypeOK, LoopTypeOK, loopVars
  <2>2. CASE Goto("PX4", "reset") /\ UNCHANGED <<netVars, buf>>
    <3>1. NetTypeOK' /\ pc' \in [Threads -> Labels]
      BY <1>2, <2>2 DEF netVars, NetTypeOK
    <3> QED BY <1>3, <2>2, <3>1 DEF PX4_Read, HelperTypeOK, LoopTypeOK, loopVars
  <2> QED BY <1>3, <2>1, <2>2 DEF PX4_Read
<1>4. CASE PX4_Write
  <2>1. buf \in Seq(Frame \cup {Pad})
    BY SeqMonotonic
  <2>2. NetTypeOK'
    BY <1>1, <1>4, <2>1, WriteType DEF PX4_Write
  <2>3. pc' \in [Threads -> Labels] /\ buf' \in Seq(Frame)
    BY <1>2, <1>4, EmptySeq DEF PX4_Write
  <2> QED BY <1>4, <2>2, <2>3 DEF PX4_Write, HelperTypeOK, LoopTypeOK, loopVars
<1> QED BY <1>3, <1>4

\* Type correctness is inductive.
LEMMA StepType == ASSUME TypeOK, [Next]_vars PROVE TypeOK'
<1> USE DEF TypeOK
<1>1. /\ InitLabels \subseteq Labels /\ LoopLabels \subseteq Labels
      /\ "MAIN" \in Threads /\ "VM" \in Stacks /\ "PX4" \in Stacks
  BY DEF Labels, Threads, Stacks
<1>2. ASSUME NEW t \in Stacks, Loop(t)  PROVE TypeOK'
  <2>1. NetTypeOK' /\ HelperTypeOK(Labels)' /\ LoopTypeOK'
    BY <1>1, <1>2, LoopStepType DEF Loop
  <2> QED BY <1>2, <2>1 DEF Loop
<1>3. CASE InitStep("MAIN") /\ UNCHANGED <<loopVars, buf>>
  <2>1. NetTypeOK' /\ HelperTypeOK(Labels)'
    BY <1>1, <1>3, InitStepType
  <2> QED BY <1>3, <2>1 DEF LoopTypeOK, loopVars
<1>4. CASE SecondServer \/ InitsDone
  <2>1. NetTypeOK' /\ LoopTypeOK'
    BY <1>4 DEF SecondServer, InitsDone, netVars, loopVars, NetTypeOK, LoopTypeOK
  <2>2. pc' \in [Threads -> Labels]
    BY <1>1, <1>4, GotoType DEF SecondServer, InitsDone, Labels, InitLabels
  <2>3. tgt' \in [Threads -> Stacks]
    BY <1>1, <1>4 DEF SecondServer, InitsDone, HelperTypeOK
  <2> QED BY <1>4, <2>1, <2>2, <2>3 DEF SecondServer, InitsDone, HelperTypeOK
<1>5. CASE PX4Callback
  BY <1>1, <1>5, CloseOnDownType, AcceptStepType, IgnoreType, PX4RelayType
     DEF PX4Callback, PX4_Close, PX4_Accept, PX4_AcceptFailed, PX4_Ignore
<1>6. CASE VMCallback
  BY <1>1, <1>6, CloseOnDownType, AcceptStepType, IgnoreType
     DEF VMCallback, VM_Close, VM_Accept, VM_AcceptFailed, VM_Ignore
<1>7. CASE Outside((\E s \in Stacks : StackBoot(s)) \/ PeerStep)
  <2>1. NetTypeOK'
    BY <1>7, EnvironmentType DEF Outside
  <2> QED BY <1>7, <2>1 DEF Outside, HelperTypeOK, LoopTypeOK, loopVars
<1>8. CASE UNCHANGED vars
  BY <1>8 DEF vars, netVars, loopVars, NetTypeOK, HelperTypeOK, LoopTypeOK
<1> QED BY <1>2, <1>3, <1>4, <1>5, <1>6, <1>7, <1>8, NextCases

\* In every reachable state the tables of the stacks, the socket contexts and
\* the variables of the three threads hold values of their types.
THEOREM TypeCorrect == Spec => []TypeOK
  BY InitType, StepType, PTL DEF Spec

-----------------------------------------------------------------------------
(* Mutual exclusion.                                                       *)

CriticalLabels == {"close", "handle", "write", "reset"}

\* What a step of a callback does to its thread and to the mutex.
LEMMA CallbackSteps ==
    ASSUME TypeOK, NEW t \in Stacks, NEW h, NEW handled,
           \/ CloseOnDown(t, h) \/ Accept(t) \/ AcceptFailed(t, h) \/ Ignore(t, handled)
           \/ t = "PX4" /\ (PX4_Read \/ PX4_Write)
    PROVE  /\ UNCHANGED <<tgt, loopVars>>
           /\ \E label \in CriticalLabels : Goto(t, label)
           /\ pc[t] \in CriticalLabels
           /\ pc'[t] \in {"handle", "write", "reset"}
           /\ \A u \in Threads : u # t => pc'[u] = pc[u]
<1>1. /\ UNCHANGED <<tgt, loopVars>>
      /\ \E label \in {"handle", "write", "reset"} : Goto(t, label)
      /\ pc[t] \in CriticalLabels
  BY DEF CloseOnDown, Accept, AcceptFailed, Ignore, PX4_Read, PX4_Write, CriticalLabels
<1>2. t \in Threads
  BY DEF Threads
<1> QED BY <1>1, <1>2 DEF CriticalLabels, Goto, TypeOK, HelperTypeOK

\* The same for the two callbacks as a whole.
LEMMA CallbackMoves ==
    ASSUME TypeOK, NEW t \in Stacks,
           (t = "PX4" /\ PX4Callback) \/ (t = "VM" /\ VMCallback)
    PROVE  /\ UNCHANGED <<tgt, loopVars>>
           /\ \E label \in CriticalLabels : Goto(t, label)
           /\ pc[t] \in CriticalLabels
           /\ pc'[t] \in {"handle", "write", "reset"}
           /\ \A u \in Threads : u # t => pc'[u] = pc[u]
<1>1. PICK h, handled :
         \/ CloseOnDown(t, h) \/ Accept(t) \/ AcceptFailed(t, h) \/ Ignore(t, handled)
         \/ t = "PX4" /\ (PX4_Read \/ PX4_Write)
  <2>1. CASE t = "PX4" /\ PX4Callback
    BY <2>1 DEF PX4Callback, PX4_Close, PX4_Accept, PX4_AcceptFailed, PX4_Ignore
  <2>2. CASE t = "VM" /\ VMCallback
    BY <2>2 DEF VMCallback, VM_Close, VM_Accept, VM_AcceptFailed, VM_Ignore
  <2> QED BY <2>1, <2>2
<1> QED BY <1>1, CallbackSteps

\* With the types, mutual exclusion is inductive.
LEMMA MutexStep ==
    ASSUME TypeOK, MutualExclusion, [Next]_vars
    PROVE  MutualExclusion'
<1>1. "VM" \in Stacks /\ "PX4" \in Stacks /\ "MAIN" \in Threads /\ "MAIN" \notin Stacks
      /\ Stacks \subseteq Threads
  BY DEF Threads, Stacks
<1>2. HelperTypeOK(Labels) /\ Exclusive(CriticalLabels)
  BY DEF TypeOK, MutualExclusion, Critical, Exclusive, CriticalLabels
<1>3. SUFFICES Exclusive(CriticalLabels)'
  BY DEF MutualExclusion, Critical, Exclusive, CriticalLabels
<1>4. ASSUME NEW t \in Stacks, Loop(t)  PROVE Exclusive(CriticalLabels)'
  <2>1. "reset" \in CriticalLabels /\ CriticalLabels \cap {"idle", "fetch", "next"} = {}
    BY DEF CriticalLabels
  <2> QED BY <1>2, <1>4, <2>1, LoopMutex DEF Loop
<1>5. CASE InitStep("MAIN") /\ UNCHANGED <<loopVars, buf>>
  BY <1>1, <1>2, <1>5, InitStepMutex DEF loopVars
<1>6. CASE SecondServer \/ InitsDone
  BY <1>1, <1>2, <1>6, MutexKept DEF SecondServer, InitsDone, loopVars
<1>7. ASSUME NEW t \in Stacks, (t = "PX4" /\ PX4Callback) \/ (t = "VM" /\ VMCallback)
      PROVE  Exclusive(CriticalLabels)'
  BY <1>1, <1>2, <1>7, CallbackMoves, MutexKept DEF loopVars
<1>8. CASE UNCHANGED <<pc, mutex>>
  BY <1>2, <1>8 DEF Exclusive
<1> QED BY <1>1, <1>4, <1>5, <1>6, <1>7, <1>8, NextCases DEF Outside, loopVars, vars

\* The two callbacks never handle events at the same time, whatever fails.
THEOREM MutualExclusionHolds == Spec => []MutualExclusion
<1>1. Init => MutualExclusion
  BY DEF Init, MutualExclusion, Critical, Threads, Stacks
<1> QED BY <1>1, MutexStep, TypeCorrect, PTL DEF Spec

-----------------------------------------------------------------------------
(* The server for the VM.                                                  *)

\* The inductive invariant; post_init starts servers and no client.
Served == ServerOK /\ pc["MAIN"] # "connect"

\* Steps of the PX4 callback leave the server for the VM alone.
LEMMA PX4ServerStep ==
    ASSUME TypeOK, ServerOK, PX4Callback
    PROVE  /\ ServerOK'
           /\ \A h \in Handles : sk'[<<"VM", h>>] = sk[<<"VM", h>>]
<1>1. "PX4" \in Stacks /\ "VM" \in Stacks /\ "VM" \in Threads /\ "MAIN" \in Threads
  BY DEF Stacks, Threads
<1>2. UNCHANGED <<tgt, loopVars>> /\ pc'["VM"] = pc["VM"] /\ pc'["MAIN"] = pc["MAIN"]
  BY <1>1, CallbackMoves
<1>3. ctx'["VM"] = ctx["VM"]
  BY DEF PX4Callback, PX4_Close, PX4_Accept, PX4_AcceptFailed, PX4_Read, PX4_Write, PX4_Ignore,
         CloseOnDown, Accept, AcceptFailed, Ignore, TypeOK, HelperTypeOK, Stacks
<1>4. \A h \in Handles : sk'[<<"VM", h>>] = sk[<<"VM", h>>]
  <2>1. ASSUME NEW h, NEW ok \in BOOLEAN, OS_Socket_close("PX4", h, ok)
        PROVE  \A g \in Handles : sk'[<<"VM", g>>] = sk[<<"VM", g>>]
    BY <1>1, <2>1, CloseFrees DEF TypeOK, Sockets
  <2>2. ASSUME NEW l, NEW h, OS_Socket_accept("PX4", l, h)
        PROVE  \A g \in Handles : sk'[<<"VM", g>>] = sk[<<"VM", g>>]
    <3>1. \A u \in Stacks, g \in Handles : u # "PX4" => sk'[<<u, g>>] = sk[<<u, g>>]
      BY <1>1, <2>2, AcceptOpens DEF TypeOK
    <3> QED BY <1>1, <3>1
  <2>3. ASSUME NEW h, OS_Socket_read("PX4", h)
        PROVE  \A g \in Handles : sk'[<<"VM", g>>] = sk[<<"VM", g>>]
    BY <1>1, <2>3 DEF OS_Socket_read, TypeOK, NetTypeOK, Sockets
  <2>4. CASE UNCHANGED sk
    BY <2>4
  <2> QED BY <2>1, <2>2, <2>3, <2>4 DEF PX4Callback, PX4_Close, PX4_Accept, PX4_AcceptFailed,
         PX4_Read, PX4_Write, PX4_Ignore, CloseOnDown, Accept, AcceptFailed, Ignore,
         OS_Socket_write, netVars
<1>5. Unset' = Unset /\ SettingUp' = SettingUp
  BY <1>2 DEF Unset, SettingUp
<1> QED BY <1>2, <1>3, <1>4, <1>5, OtherSide DEF loopVars

\* SocketToClose is the server's socket only after a failed accept: an event
\* that ends a connection is never one of the server's.
LEMMA ClosesAClient ==
    ASSUME TypeOK, ServerOK, pc["VM"] = "close"
    PROVE  SocketToClose = ctx["VM"].client /\ cur["VM"] # ctx["VM"].handle
<1>1. Mask("VM") \cap DownEvents # {} /\ cur["VM"] \in Handles
  BY DEF ServerOK, Mask
<1>2. EventsOf(cur["VM"]) \cap DownEvents # {}
  BY <1>1 DEF Mask, EventsOf
<1>3. cur["VM"] # ctx["VM"].handle
  BY <1>1, <1>2 DEF ServerOK, RoleOK
<1> QED BY <1>3 DEF SocketToClose

\* An accept that fails closes the server's socket, if any, and no client.
LEMMA FailedAcceptCloses ==
    ASSUME TypeOK, ServerOK, "CONN_ACPT" \in Mask("VM")
    PROVE  SocketToClose = ctx["VM"].handle
<1>1. cur["VM"] \in Handles /\ "CONN_ACPT" \in EventsOf(cur["VM"])
  BY DEF Mask, EventsOf
<1> QED BY <1>1 DEF ServerOK, RoleOK, SocketToClose

\* The VM callback: a client that ends is no client any more, and one that is
\* accepted is one.
LEMMA VMServerStep ==
    ASSUME TypeOK, ServerOK, VMCallback
    PROVE  ServerOK'
<1>1. "VM" \in Stacks /\ "VM" \in Threads /\ "MAIN" \in Threads
  BY DEF Stacks, Threads
<1>2. UNCHANGED <<tgt, loopVars>> /\ pc'["VM"] # "close" /\ pc'["MAIN"] = pc["MAIN"]
  BY <1>1, CallbackMoves
<1>3. Unset' = Unset /\ SettingUp' = SettingUp
  BY <1>2 DEF Unset, SettingUp
<1>4. CASE VM_Close
  <2>1. ~Unset
    BY <1>4 DEF VM_Close, CloseOnDown, ServerOK, Mask, EventsOf
  <2>2. /\ ctx'["VM"].handle = ctx["VM"].handle /\ ctx'["VM"].client = ctx["VM"].client
        /\ ~ctx'["VM"].conn
    BY <1>1, <1>4 DEF VM_Close, CloseOnDown, TypeOK, HelperTypeOK, SocketContext
  <2> QED BY <1>2, <1>3, <1>4, <2>1, <2>2, ServerClose DEF VM_Close, CloseOnDown, TypeOK
<1>5. CASE VM_Accept
  <2>1. PICK h \in Handles : /\ OS_Socket_accept("VM", ctx["VM"].handle, h)
                             /\ ctx' = [ctx EXCEPT !["VM"].client = h, !["VM"].conn = TRUE]
    BY <1>5 DEF VM_Accept, Accept
  <2> QED BY <1>2, <1>3, <2>1, ServerAccept DEF TypeOK
<1>6. CASE VM_AcceptFailed
  <2>1. CASE UNCHANGED netVars
    <3>1. UNCHANGED <<sk, ctx>>
      BY <1>6, <2>1 DEF VM_AcceptFailed, AcceptFailed, netVars
    <3> QED BY <1>2, <1>3, <3>1, OtherSide DEF loopVars
  <2>2. ASSUME NEW ok \in BOOLEAN, OS_Socket_close("VM", SocketToClose, ok)
        PROVE  ServerOK'
    <3>1. SocketToClose = ctx["VM"].handle /\ UNCHANGED ctx
      BY <1>6, FailedAcceptCloses DEF VM_AcceptFailed, AcceptFailed
    <3>2. ctx["VM"].conn => SocketToClose # ctx["VM"].client
      BY <3>1 DEF ServerOK, InUse
    <3> QED BY <1>2, <1>3, <2>2, <3>1, <3>2, ServerClose DEF TypeOK
  <2> QED BY <1>6, <2>1, <2>2 DEF VM_AcceptFailed, AcceptFailed
<1>7. CASE VM_Ignore
  <2>1. UNCHANGED <<sk, ctx>>
    BY <1>7 DEF VM_Ignore, Ignore, netVars
  <2> QED BY <1>2, <1>3, <2>1, OtherSide DEF loopVars
<1> QED BY <1>4, <1>5, <1>6, <1>7 DEF VMCallback

\* The invariant of the server is inductive.
LEMMA ServedStep ==
    ASSUME TypeOK, Served, [Next]_vars
    PROVE  Served'
<1> USE DEF Served
<1>1. "MAIN" \in Threads /\ "VM" \in Threads /\ "MAIN" \notin Stacks /\ Stacks \subseteq Threads
      /\ "PX4" \in Stacks /\ "VM" \in Stacks
  BY DEF Threads, Stacks
<1>2. ASSUME NEW t \in Stacks, Loop(t)  PROVE Served'
  <2>1. pc'["MAIN"] = pc["MAIN"]
    BY <1>1, <1>2 DEF Loop, LoopStep, Dispatch, Fetch, Lock, Take, Reset, Rearm, Goto, TypeOK,
       HelperTypeOK
  <2> QED BY <1>2, <2>1, LoopStepServer DEF Loop, TypeOK
<1>3. CASE InitStep("MAIN") /\ UNCHANGED <<loopVars, buf>>
  <2>1. pc'["MAIN"] # "connect"
    BY <1>1, <1>3 DEF InitStep, wait_for_nw_stack_init_nb, InitCreate, InitRegCallback, InitBind,
       InitListen, InitConnect, CloseAndReturn, Goto, TypeOK, HelperTypeOK
  <2> QED BY <1>3, <2>1, InitStepServer DEF TypeOK
<1>4. CASE SecondServer \/ InitsDone
  <2>1. /\ UNCHANGED <<sk, ctx, batch, cur>> /\ pc'["VM"] = pc["VM"]
        /\ ~Unset' /\ ~SettingUp' /\ pc'["MAIN"] # "connect"
    BY <1>1, <1>4 DEF SecondServer, InitsDone, Goto, TypeOK, HelperTypeOK, netVars, loopVars,
       Unset, SettingUp
  <2> QED BY <2>1, OtherSide
<1>5. CASE PX4Callback
  BY <1>1, <1>5, PX4ServerStep, CallbackMoves
<1>6. CASE VMCallback
  BY <1>1, <1>6, VMServerStep, CallbackMoves
<1>7. CASE Outside((\E s \in Stacks : StackBoot(s)) \/ PeerStep)
  BY <1>7, EnvironmentServer DEF Outside, TypeOK
<1>8. CASE UNCHANGED vars
  <2>1. UNCHANGED <<sk, ctx, batch, cur, pc, tgt>>
    BY <1>8 DEF vars, netVars, loopVars
  <2> QED BY <2>1, OtherSide DEF Unset, SettingUp
<1> QED BY <1>2, <1>3, <1>4, <1>5, <1>6, <1>7, <1>8, NextCases

\* Before post_init has run there is no server and no connection.
LEMMA InitServed == Init => Served
<1> SUFFICES ASSUME Init PROVE Served
  OBVIOUS
<1>1. \A h \in Handles : sk[<<"VM", h>>].st = "free" /\ EventsOf(h) = {}
  BY DEF Init, NetInit, LoopInit, EventsOf, FreeSocket, NoBatch, Sockets, Stacks
<1>2. ctx["VM"] = InitialContext /\ pc["VM"] = "idle" /\ pc["MAIN"] = "nw_wait"
  BY DEF Init, Threads, Stacks
<1>3. ~ctx["VM"].conn /\ ctx["VM"].client = NoHandle /\ NoHandle \notin Handles
  BY <1>2, NetAssumption DEF InitialContext, NoHandle
<1> QED BY <1>1, <1>2, <1>3 DEF Served, ServerOK, RoleOK, SettingUp

\* Sensor data is never written to a handle that the stack has closed or may
\* have given to another connection.
THEOREM VMClientAliveHolds == Spec => []VMClientAlive
<1>1. Served => VMClientAlive
  BY DEF Served, ServerOK, VMClientAlive
<1> QED BY <1>1, InitServed, ServedStep, TypeCorrect, PTL DEF Spec

\* One step: the socket that listens for the VM goes on listening, unless an
\* accept has failed.
LEMMA ServerSurvives ==
    ASSUME TypeOK, Served, [Next]_vars, NEW h \in Handles,
           IsIn("VM", h, "listening"), ~IsIn("VM", h, "listening")'
    PROVE  pc["VM"] = "handle" /\ "CONN_ACPT" \in Mask("VM")
<1>1. "MAIN" \in Threads /\ "VM" \in Stacks /\ "PX4" \in Stacks /\ <<"VM", h>> \in Sockets
  BY DEF Threads, Stacks, Sockets
<1>2. sk[<<"VM", h>>].st = "listening" /\ h = ctx["VM"].handle /\ ~SettingUp
      /\ sk'[<<"VM", h>>].st # "listening"
  BY DEF IsIn, Served, ServerOK, RoleOK
<1>3. ASSUME NEW g, g # h, NEW s \in Stacks, NEW ok \in BOOLEAN, OS_Socket_close(s, g, ok)
      PROVE  FALSE
  BY <1>1, <1>2, <1>3, CloseFrees DEF TypeOK
<1>4. ASSUME NEW t \in Stacks, Loop(t)  PROVE FALSE
  <2>1. CASE UNCHANGED sk
    BY <1>2, <2>1
  <2>2. CASE OS_Socket_getPendingEvents(t)
    <3>1. sk[<<"VM", h>>] \in SocketRecord
      BY <1>1 DEF TypeOK, NetTypeOK
    <3>2. sk'[<<"VM", h>>].st = sk[<<"VM", h>>].st
      BY <1>1, <2>2, <3>1 DEF OS_Socket_getPendingEvents, SocketRecord
    <3> QED BY <1>2, <3>2
  <2> QED BY <1>4, <2>1, <2>2 DEF Loop, LoopStep, Dispatch, Fetch, Lock, Reset, Rearm,
     OS_Socket_regCallback, netVars
<1>5. CASE InitStep("MAIN") /\ UNCHANGED <<loopVars, buf>>
  <2>1. tgt["MAIN"] \in Stacks
    BY <1>1 DEF TypeOK, HelperTypeOK
  <2>2. CASE tgt["MAIN"] = "VM"
    <3>1. pc["MAIN"] \notin {"bind", "listen", "connect"}
      BY <1>2, <2>2 DEF SettingUp, Served
    <3> QED BY <1>1, <1>2, <1>5, <2>2, <3>1 DEF InitStep, wait_for_nw_stack_init_nb, InitCreate,
        InitRegCallback, InitBind, InitListen, InitConnect, OS_Socket_create, FreeHandles,
        OS_Socket_regCallback, netVars, TypeOK, NetTypeOK
  <2>3. CASE tgt["MAIN"] # "VM"
    <3>1. ASSUME NEW g, NEW ok \in BOOLEAN, OS_Socket_create(tgt["MAIN"], g, ok)
          PROVE  FALSE
      BY <1>1, <1>2, <2>1, <2>3, <3>1 DEF OS_Socket_create, TypeOK, NetTypeOK, Sockets
    <3>2. ASSUME NEW call, NEW g, NEW from, NEW to, NEW ok \in BOOLEAN,
                 SocketCall(call, tgt["MAIN"], g, from, to, ok)
          PROVE  FALSE
      BY <1>1, <1>2, <2>1, <2>3, <3>2 DEF SocketCall, TypeOK, NetTypeOK, Sockets
    <3>3. ASSUME NEW g, NEW ok \in BOOLEAN, OS_Socket_close(tgt["MAIN"], g, ok)
          PROVE  FALSE
      BY <1>1, <1>2, <2>1, <2>3, <3>3, CloseFrees DEF TypeOK
    <3> QED BY <1>2, <1>5, <3>1, <3>2, <3>3 DEF InitStep, wait_for_nw_stack_init_nb, InitCreate,
        InitRegCallback, InitBind, InitListen, InitConnect, OS_Socket_bind, OS_Socket_listen,
        OS_Socket_connect, OS_Socket_regCallback, CloseAndReturn, netVars
  <2> QED BY <2>2, <2>3
<1>6. CASE SecondServer \/ InitsDone
  BY <1>2, <1>6 DEF SecondServer, InitsDone, netVars
<1>7. CASE PX4Callback
  BY <1>2, <1>7, PX4ServerStep DEF Served
<1>8. CASE VM_Close
  <2>1. SocketToClose = ctx["VM"].client
    BY <1>8, ClosesAClient DEF VM_Close, CloseOnDown, Served
  <2>2. SocketToClose # h
    BY <1>2, <2>1 DEF Served, ServerOK
  <2> QED BY <1>1, <1>3, <1>8, <2>2 DEF VM_Close, CloseOnDown
<1>9. CASE VM_Accept
  BY <1>1, <1>2, <1>9, AcceptOpens DEF VM_Accept, Accept, TypeOK
<1>10. CASE VM_AcceptFailed
  BY <1>10 DEF VM_AcceptFailed, AcceptFailed
<1>11. CASE VM_Ignore
  BY <1>2, <1>11 DEF VM_Ignore, Ignore, netVars
<1>12. CASE Outside((\E s \in Stacks : StackBoot(s)) \/ PeerStep)
  <2>1. CASE \E s \in Stacks : StackBoot(s)
    BY <1>2, <2>1 DEF StackBoot
  <2>2. CASE PeerStep
    <3>1. PICK s \in Stacks, g \in Handles, r \in SocketRecord :
             /\ Becomes(s, g, r)
             /\ \/ r.st = sk[<<s, g>>].st
                \/ r.st = "listening"
                \/ sk[<<s, g>>].st \in {"connecting", "open"}
      BY <2>2, PeerMoves DEF TypeOK
    <3> QED BY <1>1, <1>2, <3>1 DEF Becomes
  <2> QED BY <1>12, <2>1, <2>2 DEF Outside
<1>13. CASE UNCHANGED vars
  BY <1>2, <1>13 DEF vars, netVars
<1> QED BY <1>4, <1>5, <1>6, <1>7, <1>8, <1>9, <1>10, <1>11, <1>12, <1>13, NextCases DEF VMCallback

\* A VM that disconnects can connect again, whatever happened before.
THEOREM ServerSurvivesClientsHolds == Spec => ServerSurvivesClients
<1>1. TypeOK /\ Served /\ [Next]_vars =>
        [\A h \in Handles : IsIn("VM", h, "listening") /\ ~IsIn("VM", h, "listening")' =>
            pc["VM"] = "handle" /\ "CONN_ACPT" \in Mask("VM")]_vars
  BY ServerSurvives
<1> QED BY <1>1, InitServed, ServedStep, TypeCorrect, PTL DEF Spec, ServerSurvivesClients

-----------------------------------------------------------------------------
(* Responsiveness.                                                         *)

\* The inductive invariant of the notifications.
Attentive ==
    /\ \A s \in Stacks : AttentiveTo(s)
    /\ RegisteredBy("MAIN")

\* No handler catches a stack asleep.
LEMMA CallbackAttentive ==
    ASSUME TypeOK, NEW t \in Stacks, (t = "PX4" /\ PX4Callback) \/ (t = "VM" /\ VMCallback),
           NEW s \in Stacks, AttentiveTo(s)
    PROVE  AttentiveTo(s)' /\ (Woken(s) => Woken(s)')
<1>1. Raises(t)
  <2>1. PICK h, handled :
           \/ CloseOnDown(t, h) \/ Accept(t) \/ AcceptFailed(t, h) \/ Ignore(t, handled)
           \/ t = "PX4" /\ (PX4_Read \/ PX4_Write)
    <3>1. CASE t = "PX4" /\ PX4Callback
      BY <3>1 DEF PX4Callback, PX4_Close, PX4_Accept, PX4_AcceptFailed, PX4_Ignore
    <3>2. CASE t = "VM" /\ VMCallback
      BY <3>2 DEF VMCallback, VM_Close, VM_Accept, VM_AcceptFailed, VM_Ignore
    <3> QED BY <3>1, <3>2
  <2>2. \/ \E g : \E ok \in BOOLEAN : OS_Socket_close(t, g, ok)
        \/ \E l, g : OS_Socket_accept(t, l, g)
        \/ \E g : OS_Socket_read(t, g)
        \/ UNCHANGED <<sk, armed, signal>>
    BY <2>1 DEF CloseOnDown, Accept, AcceptFailed, Ignore, PX4_Read, PX4_Write,
       OS_Socket_write, netVars
  <2> QED BY <2>2, HandlerRaises DEF TypeOK
<1>2. /\ pc[t] \notin {"idle", "fetch"} /\ pc'[t] # "idle"
      /\ \A u \in Stacks : u # t => pc'[u] = pc[u]
  BY CallbackMoves DEF CriticalLabels, Threads
<1> QED BY <1>1, <1>2, HandlerAttentive

\* The strengthening is inductive.
LEMMA AttentiveStep ==
    ASSUME LoopCallsWork, TypeOK, Attentive, [Next]_vars
    PROVE  Attentive'
<1> USE DEF Attentive, TypeOK
<1>1. "MAIN" \in Threads /\ "MAIN" \notin Stacks /\ tgt["MAIN"] \in Stacks
  BY DEF Threads, Stacks, HelperTypeOK
<1>2. ASSUME \A s \in Stacks : AttentiveTo(s)' /\ (Woken(s) => Woken(s)'),
             pc'["MAIN"] = pc["MAIN"] \/ pc'["MAIN"] \in {"nw_wait", "done"},
             pc'["MAIN"] = pc["MAIN"] => UNCHANGED tgt
      PROVE  Attentive'
  BY <1>1, <1>2 DEF RegisteredBy
<1>3. ASSUME NEW t \in Stacks, Loop(t)  PROVE Attentive'
  <2>1. pc'["MAIN"] = pc["MAIN"] /\ UNCHANGED tgt
    BY <1>1, <1>3 DEF Loop, LoopStep, Dispatch, Fetch, Lock, Take, Reset, Rearm, Goto, HelperTypeOK
  <2> QED BY <1>2, <1>3, <2>1, LoopStepAttentive DEF Loop
<1>4. CASE InitStep("MAIN") /\ UNCHANGED <<loopVars, buf>>
  <2>1. \A s \in Stacks : AttentiveTo(s)' /\ (Woken(s) => Woken(s)')
    BY <1>1, <1>4, InitStepAttentive
  <2>2. RegisteredBy("MAIN")'
    BY <1>1, <1>4, <2>1, InitStepRegisters
  <2> QED BY <2>1, <2>2
<1>5. CASE SecondServer \/ InitsDone
  <2>1. UNCHANGED <<sk, armed, signal>>
    BY <1>5 DEF SecondServer, InitsDone, netVars
  <2>2. /\ \A u \in Stacks : pc'[u] = pc[u]
        /\ pc'["MAIN"] \in {"nw_wait", "done"} /\ pc["MAIN"] \notin {"nw_wait", "done"}
    BY <1>1, <1>5 DEF SecondServer, InitsDone, Goto, HelperTypeOK, Threads
  <2>3. \A s \in Stacks : AttentiveTo(s)' /\ (Woken(s) => Woken(s)')
    BY <2>1, <2>2, AttentiveElsewhere
  <2> QED BY <1>2, <2>2, <2>3
<1>6. ASSUME NEW t \in Stacks, (t = "PX4" /\ PX4Callback) \/ (t = "VM" /\ VMCallback)
      PROVE  Attentive'
  BY <1>1, <1>2, <1>6, CallbackMoves, CallbackAttentive
<1>7. CASE Outside((\E s \in Stacks : StackBoot(s)) \/ PeerStep)
  BY <1>2, <1>7, EnvironmentAttentive DEF Outside
<1>8. CASE UNCHANGED vars
  BY <1>2, <1>8, AttentiveElsewhere DEF vars, netVars, loopVars
<1> QED BY <1>3, <1>4, <1>5, <1>6, <1>7, <1>8, NextCases DEF Stacks

\* No stack has pending events while its interface thread sleeps unnotified or
\* its callback is not registered: as long as registering, fetching events,
\* locking and unlocking do not fail, whatever the other calls do.
THEOREM ResponsiveHolds ==
    ASSUME LoopCallsWork
    PROVE  Spec => []Responsive
<1>1. Init => Attentive
  <2> SUFFICES ASSUME Init PROVE Attentive
    OBVIOUS
  <2>1. \A s \in Stacks, h \in Handles : sk[<<s, h>>].st = "free" /\ sk[<<s, h>>].ev = {}
    BY DEF Init, NetInit, FreeSocket, Sockets
  <2>2. pc["MAIN"] = "nw_wait"
    BY DEF Init, Threads
  <2> QED BY <2>1, <2>2 DEF Attentive, AttentiveTo, RegisteredBy, Pending
<1>2. TypeOK /\ Attentive /\ [Next]_vars => Attentive'
  BY AttentiveStep
<1>3. Attentive => Responsive
  <2> SUFFICES ASSUME Attentive, NEW s \in Stacks, pc[s] = "idle", Pending(s) # {}
               PROVE  armed[s] /\ signal[s]
    BY DEF Responsive
  <2>1. signal[s]
    BY DEF Attentive, AttentiveTo
  <2>2. Woken(s)
    BY DEF Attentive, AttentiveTo, Pending
  <2> QED BY <2>1, <2>2 DEF Woken
<1> QED BY <1>1, <1>2, <1>3, TypeCorrect, PTL DEF Spec

-----------------------------------------------------------------------------
(* SimCoupler implements FilteredRelay from the gazebo proxy to the VM,    *)
(* and what the relay promises then holds of SimCoupler.                   *)

\* The relay again, with what is proved about it.
Promise == INSTANCE FilteredRelayProofs WITH
    Messages <- Frames["PX4"],
    Allowed <- Frame,
    sent <- sent["PX4"],
    queue <- UnderWay,
    delivered <- wire["VM"]

RelayStep == [Promise!Next]_(Promise!vars)

\* What waits in the socket of the proxy.
Held == Waiting("PX4")

\* The inductive invariant: the callback holds data only until it has tried
\* to write it.  Without it a read could find data in buf and lose what no
\* failure loses.
HoldsBuf == buf # <<>> => pc["PX4"] = "write"

-----------------------------------------------------------------------------
\* The two parts of what is under way.
LEMMA UnderWayParts ==
    ASSUME TypeOK
    PROVE  /\ buf \in Seq(Frame) /\ Held \in Seq(Frame) /\ UnderWay = buf \o Held
           /\ wire["VM"] \in Seq(Frame \cup {Pad})
<1>1. buf \in Seq(Frame) /\ wire["VM"] \in Seq(Frame \cup {Pad}) /\ NetTypeOK /\ "PX4" \in Stacks
  BY DEF TypeOK, NetTypeOK, Stacks
<1> QED BY <1>1, WaitingType DEF UnderWay, Held, Waiting, WaitingOn

\* A step that leaves what was read alone, and what waits in the socket alone
\* or drops it, is a step of the relay.
LEMMA HeldKept ==
    ASSUME TypeOK, Held' \in {Held, <<>>}, buf' = buf,
           wire'["VM"] = wire["VM"], sent'["PX4"] = sent["PX4"]
    PROVE  RelayStep
<1>1. /\ buf \in Seq(Frame) /\ Held \in Seq(Frame) /\ UnderWay = buf \o Held
      /\ wire["VM"] \in Seq(Frame \cup {Pad})
  BY UnderWayParts
<1>2. UnderWay' = buf \o Held'
  BY DEF UnderWay, Held, Waiting, WaitingOn
<1>3. CASE Held' = Held
  BY <1>1, <1>2, <1>3 DEF RelayStep, Promise!vars
<1>4. CASE Held' = <<>>
  <2>1. UnderWay' = buf
    BY <1>1, <1>2, <1>4, ConcatEmptySeq
  <2> QED BY <1>1, <2>1, Promise!LosingPart DEF RelayStep
<1> QED BY <1>3, <1>4

\* A thread that is not about to write goes on: nothing is held then or now.
LEMMA HoldsBufKept ==
    ASSUME TypeOK, HoldsBuf, buf' = buf, NEW t \in Threads, NEW label, Goto(t, label),
           pc[t] # "write"
    PROVE  HoldsBuf'
<1>1. t # "PX4" => pc'["PX4"] = pc["PX4"]
  BY DEF Goto, TypeOK, HelperTypeOK, Threads, Stacks
<1> QED BY <1>1 DEF HoldsBuf

\* The stacks send nothing, and of the peers only the proxy does: what it
\* sends is under way if it is the current client.
LEMMA EnvironmentRelay ==
    ASSUME TypeOK, HoldsBuf, Outside((\E s \in Stacks : StackBoot(s)) \/ PeerStep)
    PROVE  RelayStep /\ HoldsBuf'
<1>1. UNCHANGED <<ctx, pc, buf>> /\ HoldsBuf'
  BY DEF Outside, HoldsBuf
<1>2. /\ UNCHANGED wire
      /\ \/ sent'["PX4"] = sent["PX4"] /\ Held' = Held
         \/ \E f \in Frames["PX4"] : /\ sent'["PX4"] = Append(sent["PX4"], f)
                                     /\ Held' \in {Held, Append(Held, f)}
  <2>1. "PX4" \in Stacks /\ NetTypeOK /\ ((\E s \in Stacks : StackBoot(s)) \/ PeerStep)
    BY DEF Stacks, TypeOK, Outside
  <2> QED BY <1>1, <2>1, EnvironmentInput DEF Held
<1>3. CASE sent'["PX4"] = sent["PX4"] /\ Held' = Held
  <2>1. RelayStep
    BY <1>1, <1>2, <1>3, HeldKept
  <2> QED BY <1>1, <2>1
<1>4. ASSUME NEW f \in Frames["PX4"], sent'["PX4"] = Append(sent["PX4"], f),
             Held' \in {Held, Append(Held, f)}
      PROVE  RelayStep
  <2>1. buf \in Seq(Frame) /\ Held \in Seq(Frame) /\ UnderWay = buf \o Held
    BY UnderWayParts
  <2>2. UnderWay' = buf \o Held'
    BY <1>1 DEF UnderWay, Held, Waiting, WaitingOn
  <2>3. f \in Frame
    BY DEF Frame
  <2>4. buf \o Append(Held, f) = Append(buf \o Held, f)
    <3>1. <<f>> \in Seq(Frame) /\ buf \o Held \in Seq(Frame)
      <4>1. <<f>> \in Seq(Frame)
        BY <2>3
      <4> QED BY <2>1, <4>1, ConcatProperties
    <3>2. Append(Held, f) = Held \o <<f>> /\ Append(buf \o Held, f) = (buf \o Held) \o <<f>>
      BY <2>1, <2>3, <3>1, AppendIsConcat
    <3> DEFINE one == <<f>>
    <3>3. one \in Seq(Frame)
      BY <3>1
    <3> HIDE DEF one
    <3>4. (buf \o Held) \o one = buf \o (Held \o one)
      BY <2>1, <3>3, ConcatAssociative
    <3> QED BY <3>2, <3>4 DEF one
  <2>5. UnderWay' \in {UnderWay, Append(UnderWay, f)}
    BY <1>4, <2>1, <2>2, <2>4
  <2>6. Promise!Send(f)
    BY <1>2, <1>4, <2>5 DEF Promise!Send
  <2> QED BY <2>6 DEF RelayStep, Promise!Next
<1> QED BY <1>1, <1>2, <1>3, <1>4

\* MAIN and the frame of the callbacks send and deliver nothing.
LEMMA MainAndLoopRelay ==
    ASSUME TypeOK, HoldsBuf,
           \/ \E t \in Stacks : Loop(t)
           \/ InitStep("MAIN") /\ UNCHANGED <<loopVars, buf>>
           \/ SecondServer \/ InitsDone
    PROVE  RelayStep /\ HoldsBuf'
<1>1. "MAIN" \in Threads /\ "PX4" \in Stacks /\ \A t \in Stacks : t \in Threads
  BY DEF Threads, Stacks
<1>2. NetTypeOK /\ HelperTypeOK(Labels)
  BY DEF TypeOK
<1>3. ASSUME NEW t \in Stacks, Loop(t)
      PROVE  RelayStep /\ HoldsBuf'
  <2>1. UNCHANGED <<wire, sent>> /\ Held' \in {Held, <<>>} /\ buf' = buf
    BY <1>1, <1>2, <1>3, LoopStepInput DEF Loop, Held
  <2>2. \E label : Goto(t, label)
    BY <1>3 DEF Loop, LoopStep, Dispatch, Fetch, Lock, Reset, Rearm, Take
  <2>3. pc[t] # "write"
    BY <1>3 DEF Loop, LoopStep, Dispatch, Fetch, Lock, Reset, Rearm
  <2> QED BY <1>1, <2>1, <2>2, <2>3, HeldKept, HoldsBufKept
<1>4. CASE InitStep("MAIN") /\ UNCHANGED <<loopVars, buf>>
  <2>1. UNCHANGED <<wire, sent>> /\ Held' \in {Held, <<>>} /\ buf' = buf
    BY <1>1, <1>2, <1>4, InitStepInput DEF Held
  <2>2. \E label : Goto("MAIN", label)
    BY <1>4 DEF InitStep, wait_for_nw_stack_init_nb, InitCreate, InitRegCallback, InitBind,
         InitListen, InitConnect, CloseAndReturn
  <2>3. pc["MAIN"] # "write"
    BY <1>4 DEF InitStep, wait_for_nw_stack_init_nb, InitCreate, InitRegCallback, InitBind,
         InitListen, InitConnect
  <2> QED BY <1>1, <2>1, <2>2, <2>3, HeldKept, HoldsBufKept
<1>5. CASE SecondServer \/ InitsDone
  <2>1. UNCHANGED <<wire, sent, sk, ctx, buf>>
    BY <1>5 DEF SecondServer, InitsDone, netVars
  <2>2. Held' = Held
    BY <2>1 DEF Held, Waiting, WaitingOn
  <2>3. (\E label : Goto("MAIN", label)) /\ pc["MAIN"] # "write"
    BY <1>5 DEF SecondServer, InitsDone
  <2> QED BY <1>1, <2>1, <2>2, <2>3, HeldKept, HoldsBufKept
<1> QED BY <1>3, <1>4, <1>5

\* The close, accept and ignore handlers of either callback drop at most what
\* waits in the socket they close.
LEMMA HandlersRelay ==
    ASSUME TypeOK, HoldsBuf, NEW t \in Stacks, NEW h,
           CloseOnDown(t, h) \/ Accept(t) \/ AcceptFailed(t, h) \/ \E handled : Ignore(t, handled)
    PROVE  RelayStep /\ HoldsBuf'
<1>1. "PX4" \in Stacks /\ t \in Threads /\ NetTypeOK
  BY DEF Threads, Stacks, TypeOK
<1>2. UNCHANGED <<wire, sent, buf>>
  BY DEF CloseOnDown, Accept, AcceptFailed, Ignore, OS_Socket_close, OS_Socket_accept, netVars
<1>3. Held' \in {Held, <<>>}
  <2>1. ASSUME UNCHANGED sk \/ \E ok \in BOOLEAN : OS_Socket_close(t, h, ok)
        PROVE  InputKept("PX4")
    <3>1. CASE UNCHANGED sk
      BY <3>1 DEF InputKept
    <3> QED BY <1>1, <2>1, <3>1, CloseInput
  <2>2. CASE CloseOnDown(t, h)
    <3>1. ctx'["PX4"].client = ctx["PX4"].client
      BY <1>1, <2>2 DEF CloseOnDown, TypeOK, HelperTypeOK, SocketContext
    <3> QED BY <1>1, <2>1, <2>2, <3>1, WaitingKept DEF CloseOnDown, Held
  <2>3. CASE AcceptFailed(t, h) \/ \E handled : Ignore(t, handled)
    <3>1. UNCHANGED ctx /\ (UNCHANGED sk \/ \E ok \in BOOLEAN : OS_Socket_close(t, h, ok))
      BY <2>3 DEF AcceptFailed, Ignore, netVars
    <3> QED BY <1>1, <2>1, <3>1, WaitingKept DEF Held
  <2>4. ASSUME NEW g \in Handles, OS_Socket_accept(t, ctx[t].handle, g),
               ctx' = [ctx EXCEPT ![t].client = g, ![t].conn = TRUE]
        PROVE  Held' \in {Held, <<>>}
    <3>1. CASE t = "PX4"
      <4>1. ctx'["PX4"].client = g
        BY <1>1, <2>4, <3>1 DEF TypeOK, HelperTypeOK, SocketContext
      <4> QED BY <1>1, <2>4, <3>1, <4>1, AcceptWaiting DEF Held
    <3>2. CASE t # "PX4"
      <4>1. ctx'["PX4"] = ctx["PX4"]
        BY <1>1, <2>4, <3>2 DEF TypeOK, HelperTypeOK
      <4>2. \A k \in Sockets : k[1] # t => sk'[k] = sk[k]
        BY <2>4 DEF OS_Socket_accept, NetTypeOK, TypeOK, Sockets
      <4>3. InputKept("PX4")
        BY <1>1, <3>2, <4>2 DEF InputKept, Sockets
      <4> QED BY <1>1, <4>1, <4>3, WaitingKept DEF Held
    <3> QED BY <3>1, <3>2
  <2> QED BY <2>2, <2>3, <2>4 DEF Accept
<1>4. (\E label : Goto(t, label)) /\ pc[t] # "write"
  BY DEF CloseOnDown, Accept, AcceptFailed, Ignore
<1> QED BY <1>1, <1>2, <1>3, <1>4, HeldKept, HoldsBufKept

\* A read moves sensor data from the socket to the callback, in order, or
\* drops it when the VM is not connected.
LEMMA ReadRelay ==
    ASSUME TypeOK, HoldsBuf, PX4_Read
    PROVE  RelayStep /\ HoldsBuf'
<1>1. /\ "PX4" \in Stacks /\ "PX4" \in Threads /\ NetTypeOK
      /\ pc["PX4"] # "write" /\ buf = <<>> /\ UNCHANGED ctx
  BY DEF PX4_Read, HoldsBuf, Stacks, Threads, TypeOK
<1> DEFINE data == Arrived("PX4", ctx["PX4"].client)
<1>2. CASE UNCHANGED <<netVars, buf>> /\ Goto("PX4", "reset")
  <2>1. UNCHANGED <<wire, sent, buf>> /\ Held' = Held
    BY <1>1, <1>2 DEF Held, Waiting, WaitingOn, netVars
  <2> QED BY <1>1, <1>2, <2>1, HeldKept, HoldsBufKept
<1>3. CASE OS_Socket_read("PX4", ctx["PX4"].client)
  <2>1. /\ UNCHANGED <<wire, sent>>
        /\ data \in Seq(Frame) /\ Held' \in Seq(Frame) /\ Held = data \o Held'
    BY <1>1, <1>3, ReadWaiting DEF Held
  <2>2. UnderWay = data \o Held' /\ wire["VM"] \in Seq(Frame \cup {Pad})
    <3>1. Held \in Seq(Frame) /\ UnderWay = buf \o Held /\ wire["VM"] \in Seq(Frame \cup {Pad})
      BY UnderWayParts
    <3>2. UnderWay = Held
      BY <1>1, <3>1, ConcatEmptySeq
    <3> QED BY <2>1, <3>1, <3>2
  <2>3. CASE buf' = data /\ Goto("PX4", "write")
    <3>1. UnderWay' = data \o Held'
      BY <1>1, <2>3 DEF UnderWay, Held, Waiting, WaitingOn
    <3>2. pc'["PX4"] = "write"
      BY <1>1, <2>3 DEF Goto, TypeOK, HelperTypeOK
    <3> QED BY <2>1, <2>2, <3>1, <3>2 DEF RelayStep, Promise!vars, HoldsBuf
  <2>4. CASE UNCHANGED buf /\ Goto("PX4", "reset")
    <3> HIDE DEF data
    <3> DEFINE rest == Held'
    <3>1. UnderWay' = rest
      <4>1. UnderWay' = <<>> \o Held'
        BY <1>1, <2>4 DEF UnderWay, Held, Waiting, WaitingOn
      <4> QED BY <2>1, <4>1, ConcatEmptySeq
    <3>2. rest \in Seq(Frame) /\ UnderWay = data \o rest
      BY <2>1, <2>2
    <3>3. sent'["PX4"] = sent["PX4"] /\ wire'["VM"] = wire["VM"]
      BY <2>1
    <3>4. HoldsBuf'
      BY <1>1, <2>4, HoldsBufKept
    <3> HIDE DEF rest
    <3>5. Promise!Next
      BY <2>1, <2>2, <3>1, <3>2, <3>3, Promise!LosingPart
    <3> QED BY <3>4, <3>5 DEF RelayStep
  <2> QED BY <1>3, <2>3, <2>4 DEF PX4_Read
<1> QED BY <1>2, <1>3 DEF PX4_Read

\* What a short or failed write leaves of the data is lost, not kept.
LEMMA WriteRelay ==
    ASSUME TypeOK, PX4_Write
    PROVE  RelayStep /\ HoldsBuf'
<1>1. /\ buf \in Seq(Frame) /\ Held \in Seq(Frame) /\ UnderWay = buf \o Held
      /\ wire["VM"] \in Seq(Frame \cup {Pad})
  BY UnderWayParts
<1>2. buf' = <<>> /\ UNCHANGED <<sk, ctx, sent>>
  BY DEF PX4_Write, OS_Socket_write
<1>3. UnderWay' = Held
  <2>1. UnderWay' = <<>> \o Held
    BY <1>2 DEF UnderWay, Held, Waiting, WaitingOn
  <2> QED BY <1>1, <2>1, ConcatEmptySeq
<1>4. Len(buf) \in Nat /\ \A i \in 1..Len(buf) : buf[i] \in Frame
  BY <1>1, LenProperties, ElementOfSeq
<1>5. \E n \in 0..Len(buf) : wire'["VM"] = wire["VM"] \o SubSeq(buf, 1, n)
  <2>1. PICK ok \in BOOLEAN : OS_Socket_write("VM", ctx["VM"].client, buf, ok)
    BY DEF PX4_Write
  <2>2. CASE wire' = wire
    <3>1. wire["VM"] \o SubSeq(buf, 1, 0) = wire["VM"]
      BY <1>1, ConcatEmptySeq
    <3>2. 0 \in 0..Len(buf) /\ wire'["VM"] = wire["VM"] \o SubSeq(buf, 1, 0)
      BY <1>4, <2>2, <3>1
    <3> QED BY <3>2
  <2>3. CASE wire' = [wire EXCEPT !["VM"] = @ \o buf]
    <3>1. SubSeq(buf, 1, Len(buf)) = buf
      BY <1>1
    <3>2. Len(buf) \in 0..Len(buf)
      BY <1>4
    <3>3. wire'["VM"] = wire["VM"] \o SubSeq(buf, 1, Len(buf))
      BY <2>3, <3>1 DEF TypeOK, NetTypeOK, Stacks
    <3> QED BY <3>2, <3>3
  <2>4. ASSUME NEW n \in 1..(Len(buf) - 1), wire' = [wire EXCEPT !["VM"] = @ \o SubSeq(buf, 1, n)]
        PROVE  \E k \in 0..Len(buf) : wire'["VM"] = wire["VM"] \o SubSeq(buf, 1, k)
    <3>1. n \in 0..Len(buf)
      BY <1>4
    <3>2. wire'["VM"] = wire["VM"] \o SubSeq(buf, 1, n)
      BY <2>4 DEF TypeOK, NetTypeOK, Stacks
    <3> QED BY <3>1, <3>2
  <2> QED BY <2>1, <2>2, <2>3, <2>4 DEF OS_Socket_write
<1>6. PICK n \in 0..Len(buf) : wire'["VM"] = wire["VM"] \o SubSeq(buf, 1, n)
  BY <1>5
<1>7. \A i \in 1..n : buf[i] \in Frame
  <2>1. \A i \in 1..n : i \in 1..Len(buf)
    BY <1>4
  <2> QED BY <1>4, <2>1
<1>8. sent'["PX4"] = sent["PX4"]
  BY <1>2
<1>9. Promise!Next
  BY <1>1, <1>3, <1>6, <1>7, <1>8, Promise!Delivering
<1> QED BY <1>2, <1>9 DEF RelayStep, HoldsBuf

\* Every step of SimCoupler is a step of the relay, or none.
LEMMA StepRelay ==
    ASSUME TypeOK, HoldsBuf, [Next]_vars
    PROVE  RelayStep /\ HoldsBuf'
<1>1. CASE UNCHANGED vars
  <2>1. UnderWay' = UnderWay /\ UNCHANGED <<sent, wire>> /\ HoldsBuf'
    BY <1>1 DEF vars, netVars, UnderWay, WaitingOn, HoldsBuf
  <2> QED BY <2>1 DEF RelayStep, Promise!vars
<1>2. CASE PX4Callback
  <2>1. "PX4" \in Stacks
    BY DEF Stacks
  <2> QED BY <1>2, <2>1, ReadRelay, WriteRelay, HandlersRelay DEF PX4Callback, PX4_Close,
         PX4_Accept, PX4_AcceptFailed, PX4_Ignore
<1>3. CASE VMCallback
  <2>1. "VM" \in Stacks
    BY DEF Stacks
  <2> QED BY <1>3, <2>1, HandlersRelay DEF VMCallback, VM_Close, VM_Accept, VM_AcceptFailed,
         VM_Ignore
<1> QED BY <1>1, <1>2, <1>3, NextCases, MainAndLoopRelay, EnvironmentRelay

\* Nothing is under way at first.
LEMMA InitRelay == Init => Promise!Init /\ HoldsBuf
<1> SUFFICES ASSUME Init PROVE Promise!Init /\ HoldsBuf
  OBVIOUS
<1>1. "VM" \in Stacks /\ "PX4" \in Stacks
  BY DEF Stacks
<1>2. sent["PX4"] = <<>> /\ wire["VM"] = <<>> /\ buf = <<>>
  BY <1>1 DEF Init, NetInit
<1>3. ctx["PX4"].client \notin Handles
  BY <1>1, NetAssumption DEF Init, InitialContext, NoHandle
<1>4. UnderWay = <<>>
  BY <1>2, <1>3 DEF UnderWay, WaitingOn
<1> QED BY <1>2, <1>4 DEF Promise!Init, HoldsBuf

\* SimCoupler does what the relay promises.
LEMMA ImplementsPromise == Spec => Promise!Spec
<1>1. TypeOK /\ HoldsBuf /\ [Next]_vars => [Promise!Next]_(Promise!vars) /\ HoldsBuf'
  BY StepRelay DEF RelayStep
<1> QED BY <1>1, InitRelay, TypeCorrect, PTL DEF Spec, Promise!Spec

\* Both instances mean the same by the size of a set and by what is kept.
LEMMA SameKeep ==
    /\ \A S : Promise!Cardinality(S) = Cardinality(S)
    /\ \A seq, K : Relay!Keep(seq, K) = Promise!Keep(seq, K)
<1>1. \A S : Promise!Cardinality(S) = Cardinality(S)
  BY DEF Cardinality, Promise!Cardinality
<1>2. ASSUME NEW seq, NEW K PROVE Relay!Keep(seq, K) = Promise!Keep(seq, K)
  BY DEF Relay!Keep, Promise!Keep, Relay!Cardinality, Promise!Cardinality
<1> QED BY <1>1, <1>2

\* SimCoupler implements the abstract relay: whatever fails and however often
\* either side reconnects, every step sends, delivers or loses sensor data as
\* FilteredRelay allows, or does none of these.
THEOREM ImplementsRelayHolds == Spec => ImplementsRelay
<1>1. Promise!Init => Relay!Init
  BY DEF Promise!Init, Relay!Init
<1>2. [Promise!Next]_(Promise!vars) => [Relay!Next]_(Relay!vars)
  <2>1. ASSUME NEW n \in 0..Len(UnderWay), Promise!Relay(n) PROVE Relay!Relay(n)
    BY <2>1, SameKeep DEF Promise!Relay, Relay!Relay
  <2>2. ASSUME NEW m \in Frames["PX4"], Promise!Send(m) PROVE Relay!Send(m)
    BY <2>2 DEF Promise!Send, Relay!Send
  <2> QED BY <2>1, <2>2 DEF Promise!Next, Relay!Next, Promise!vars, Relay!vars
<1> QED BY <1>1, <1>2, ImplementsPromise, PTL DEF ImplementsRelay, Promise!Spec, Relay!Spec

\* The VM receives sensor data in the order in which the proxies sent it,
\* nothing twice and nothing made up (SimCoupler.c:136-165).
THEOREM SensorDataInOrder == Spec => []InOrder(wire["VM"], sent["PX4"])
<1>1. Promise!InOrder(wire["VM"], sent["PX4"]) => InOrder(wire["VM"], sent["PX4"])
  BY SameKeep DEF Promise!InOrder, InOrder
<1> QED BY <1>1, ImplementsPromise, Promise!DeliversInOrder, PTL
=============================================================================
