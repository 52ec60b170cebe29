------------------------- MODULE SerialFilterProofs -------------------------
(***************************************************************************)
(* Theorems about SerialFilter for every set of handles, every stream of   *)
(* messages, every choice of failing calls and every number of             *)
(* connections.                                                            *)
(***************************************************************************)
EXTENDS SerialFilter, EventLoopProofs, SubsequenceProofs

-----------------------------------------------------------------------------
(* Type correctness: every step of every thread.                           *)

\* The initial state is type correct.
LEMMA InitType == Init => TypeOK
<1> SUFFICES ASSUME Init PROVE TypeOK
  OBVIOUS
<1>1. pc \in [Threads -> Labels] /\ tgt \in [Threads -> Stacks]
  BY DEF Init, Labels, InitLabels, LoopLabels, Threads, Stacks
<1>2. buf \in [Stacks -> Seq(Frame)] /\ ret_buf \in Seq(Frame)
  BY EmptySeq DEF Init
<1> QED BY <1>1, <1>2, InitTypes DEF Init, TypeOK, HelperTypeOK

\* The initialisation sequences of socket_helper keep every type.
LEMMA InitialiseType ==
    ASSUME TypeOK, NEW t \in Threads, Initialise(t)
    PROVE  TypeOK'
<1>1. InitLabels \subseteq Labels
  BY DEF Labels
<1>2. NetTypeOK' /\ HelperTypeOK(Labels)'
  BY <1>1, InitStepType DEF TypeOK, Initialise
<1> QED BY <1>2 DEF TypeOK, Initialise, LoopTypeOK, loopVars, bufVars

\* The frame that the callbacks share keeps every type.
LEMMA LoopType ==
    ASSUME TypeOK, NEW t \in Stacks, Loop(t)
    PROVE  TypeOK'
<1>1. LoopLabels \subseteq Labels
  BY DEF Labels
<1>2. NetTypeOK' /\ HelperTypeOK(Labels)' /\ LoopTypeOK'
  BY <1>1, LoopStepType DEF TypeOK, Loop
<1> QED BY <1>2 DEF TypeOK, Loop, bufVars

\* A padded write holds frames and filler only, also when the data already
\* fills the buffer and there is nothing to pad.
LEMMA PaddedType == \A data \in Seq(Frame) : Padded(data) \in Seq(Frame \cup {Pad})
<1> SUFFICES ASSUME NEW data \in Seq(Frame) PROVE Padded(data) \in Seq(Frame \cup {Pad})
  OBVIOUS
<1> DEFINE missing == IF Len(data) <= MTU THEN MTU - Len(data) ELSE 0
<1>1. missing \in Nat /\ 1..(MTU - Len(data)) = 1..missing
  BY NetAssumption, LenProperties
<1>2. [i \in 1..missing |-> Pad] \in Seq(Frame \cup {Pad})
  BY <1>1, IsASeq
<1>3. data \in Seq(Frame \cup {Pad})
  BY SeqMonotonic
<1> QED BY <1>1, <1>2, <1>3, ConcatProperties DEF Padded

\* The handlers of socket_PX4_event_callback keep every type.
LEMMA PX4CallbackType ==
    ASSUME TypeOK, PX4Callback
    PROVE  TypeOK'
<1> USE DEF TypeOK
<1>1. "PX4" \in Stacks /\ "VM" \in Stacks /\ "PX4" \in Threads
  BY DEF Stacks, Threads
<1>2. ASSUME NEW label \in {"handle", "reset", "write"}, Goto("PX4", label)
      PROVE  pc' \in [Threads -> Labels]
  BY <1>1, <1>2, GotoType DEF Labels, LoopLabels
<1>3. CASE PX4_Close
  <2>1. NetTypeOK' /\ pc' \in [Threads -> Labels]
    BY <1>1, <1>2, <1>3, CloseType DEF PX4_Close
  <2>2. ctx' \in [Stacks -> SocketContext]
    BY <1>1, <1>3, ContextType DEF PX4_Close
  <2> QED BY <1>3, <2>1, <2>2 DEF PX4_Close, HelperTypeOK, LoopTypeOK, loopVars, bufVars
<1>4. CASE PX4_ConnEst
  <2>1. NetTypeOK' /\ pc' \in [Threads -> Labels]
    BY <1>2, <1>4 DEF PX4_ConnEst, netVars, NetTypeOK
  <2>2. ctx' \in [Stacks -> SocketContext]
    BY <1>1, <1>4, ContextType DEF PX4_ConnEst
  <2> QED BY <1>4, <2>1, <2>2 DEF PX4_ConnEst, HelperTypeOK, LoopTypeOK, loopVars, bufVars
<1>5. CASE PX4_Read
  <2> DEFINE h == ctx["PX4"].handle
  <2>1. CASE OS_Socket_read("PX4", h)
    <3>1. NetTypeOK'
      BY <1>1, <2>1, ReadType
    <3>2. Arrived("PX4", h) \in Seq(Frame)
      BY <1>1, <2>1, ArrivedType DEF OS_Socket_read
    <3>3. pc' \in [Threads -> Labels] /\ buf' \in [Stacks -> Seq(Frame)]
      BY <1>1, <1>2, <1>5, <3>2 DEF PX4_Read
    <3> QED BY <1>5, <3>1, <3>3 DEF PX4_Read, HelperTypeOK, LoopTypeOK, loopVars
  <2>2. CASE Goto("PX4", "reset") /\ UNCHANGED <<netVars, buf>>
    <3>1. NetTypeOK' /\ pc' \in [Threads -> Labels]
      BY <1>2, <2>2 DEF netVars, NetTypeOK
    <3> QED BY <1>5, <2>2, <3>1 DEF PX4_Read, HelperTypeOK, LoopTypeOK, loopVars
  <2> QED BY <1>5, <2>1, <2>2 DEF PX4_Read
<1>6. CASE PX4_Write
  <2>1. NetTypeOK'
    BY <1>1, <1>6, WriteType, PaddedType DEF PX4_Write
  <2>2. pc' \in [Threads -> Labels]
    BY <1>2, <1>6 DEF PX4_Write
  <2>3. buf' \in [Stacks -> Seq(Frame)]
    BY <1>6, EmptySeq DEF PX4_Write
  <2> QED BY <1>6, <2>1, <2>2, <2>3 DEF PX4_Write, HelperTypeOK, LoopTypeOK, loopVars
<1>7. CASE PX4_Ignore
  <2>1. NetTypeOK' /\ pc' \in [Threads -> Labels]
    BY <1>2, <1>7 DEF PX4_Ignore, netVars, NetTypeOK
  <2> QED BY <1>7, <2>1 DEF PX4_Ignore, HelperTypeOK, LoopTypeOK, loopVars, bufVars
<1> QED BY <1>3, <1>4, <1>5, <1>6, <1>7 DEF PX4Callback

\* The handlers of socket_VM_event_callback keep every type.
LEMMA VMCallbackType ==
    ASSUME TypeOK, VMCallback
    PROVE  TypeOK'
<1> USE DEF TypeOK
<1>1. "PX4" \in Stacks /\ "VM" \in Stacks /\ "VM" \in Threads
  BY DEF Stacks, Threads
<1>2. ASSUME NEW label \in {"handle", "reset", "write", "filter", "nw_wait", "idle"},
             Goto("VM", label)
      PROVE  pc' \in [Threads -> Labels]
  BY <1>1, <1>2, GotoType DEF Labels, LoopLabels, InitLabels
<1>3. CASE VM_Close
  <2>1. NetTypeOK' /\ pc' \in [Threads -> Labels]
    BY <1>1, <1>2, <1>3, CloseType DEF VM_Close
  <2>2. ctx' \in [Stacks -> SocketContext]
    BY <1>1, <1>3, ContextType DEF VM_Close
  <2> QED BY <1>3, <2>1, <2>2 DEF VM_Close, HelperTypeOK, LoopTypeOK, loopVars, bufVars
<1>4. CASE VM_Accept
  <2>1. NetTypeOK' /\ pc' \in [Threads -> Labels]
    BY <1>1, <1>2, <1>4, AcceptType DEF VM_Accept
  <2>2. ctx' \in [Stacks -> SocketContext]
    BY <1>1, <1>4, AcceptedContextType DEF VM_Accept
  <2>3. tgt' \in [Threads -> Stacks]
    BY <1>1, <1>4 DEF VM_Accept, HelperTypeOK
  <2> QED BY <1>4, <2>1, <2>2, <2>3 DEF VM_Accept, HelperTypeOK, LoopTypeOK, loopVars, bufVars
<1>5. CASE VM_AcceptFailed
  <2>1. NetTypeOK'
    BY <1>1, <1>5, CloseType DEF VM_AcceptFailed, netVars, NetTypeOK
  <2>2. pc' \in [Threads -> Labels]
    BY <1>2, <1>5 DEF VM_AcceptFailed
  <2> QED BY <1>5, <2>1, <2>2 DEF VM_AcceptFailed, HelperTypeOK, LoopTypeOK, loopVars, bufVars
<1>6. CASE VM_InitDone
  <2>1. NetTypeOK' /\ pc' \in [Threads -> Labels]
    BY <1>2, <1>6 DEF VM_InitDone, netVars, NetTypeOK
  <2> QED BY <1>6, <2>1 DEF VM_InitDone, HelperTypeOK, LoopTypeOK, loopVars, bufVars
<1>7. CASE VM_InitFailed
  <2>1. NetTypeOK' /\ pc' \in [Threads -> Labels]
    BY <1>2, <1>7 DEF VM_InitFailed, netVars, NetTypeOK
  <2>2. LoopTypeOK'
    BY <1>7 DEF VM_InitFailed, LoopTypeOK, NoBatch
  <2> QED BY <1>7, <2>1, <2>2 DEF VM_InitFailed, HelperTypeOK, bufVars
<1>8. CASE VM_Read
  <2> DEFINE h == ctx["VM"].client
  <2>1. CASE OS_Socket_read("VM", h) /\ buf' = [buf EXCEPT !["VM"] = Arrived("VM", h)]
             /\ Goto("VM", "filter")
    <3>1. NetTypeOK'
      BY <1>1, <2>1, ReadType
    <3>2. Arrived("VM", h) \in Seq(Frame)
      BY <1>1, <2>1, ArrivedType DEF OS_Socket_read
    <3>3. pc' \in [Threads -> Labels] /\ buf' \in [Stacks -> Seq(Frame)]
      BY <1>1, <1>2, <2>1, <3>2
    <3> QED BY <1>8, <3>1, <3>3 DEF VM_Read, HelperTypeOK, LoopTypeOK, loopVars
  <2>2. CASE Goto("VM", "reset") /\ UNCHANGED <<netVars, buf>>
    <3>1. NetTypeOK' /\ pc' \in [Threads -> Labels]
      BY <1>2, <2>2 DEF netVars, NetTypeOK
    <3> QED BY <1>8, <2>2, <3>1 DEF VM_Read, HelperTypeOK, LoopTypeOK, loopVars
  <2> QED BY <1>8, <2>1, <2>2 DEF VM_Read
<1>9. CASE VM_Filter
  <2>1. NetTypeOK'
    BY <1>9 DEF VM_Filter, netVars, NetTypeOK
  <2>2. Head(buf["VM"]) \in Frame /\ Tail(buf["VM"]) \in Seq(Frame)
    BY <1>1, <1>9, HeadTailProperties DEF VM_Filter
  <2>3. ret_buf' \in Seq(Frame)
    BY <1>9, <2>2, AppendProperties DEF VM_Filter
  <2>4. buf' \in [Stacks -> Seq(Frame)]
    BY <1>9, <2>2 DEF VM_Filter
  <2> QED BY <1>9, <2>1, <2>3, <2>4 DEF VM_Filter, HelperTypeOK, LoopTypeOK, loopVars
<1>10. CASE VM_Filtered
  <2>1. NetTypeOK' /\ pc' \in [Threads -> Labels] /\ ret_buf' \in Seq(Frame)
    BY <1>2, <1>10, EmptySeq DEF VM_Filtered, netVars, NetTypeOK
  <2> QED BY <1>10, <2>1 DEF VM_Filtered, HelperTypeOK, LoopTypeOK, loopVars
<1>11. CASE VM_Write
  <2>1. ret_buf \in Seq(Frame \cup {Pad})
    BY SeqMonotonic
  <2>2. NetTypeOK'
    BY <1>1, <1>11, <2>1, WriteType DEF VM_Write
  <2>3. pc' \in [Threads -> Labels] /\ ret_buf' \in Seq(Frame)
    BY <1>2, <1>11, EmptySeq DEF VM_Write
  <2> QED BY <1>11, <2>2, <2>3 DEF VM_Write, HelperTypeOK, LoopTypeOK, loopVars
<1>12. CASE VM_Ignore
  <2>1. NetTypeOK' /\ pc' \in [Threads -> Labels]
    BY <1>2, <1>12 DEF VM_Ignore, netVars, NetTypeOK
  <2> QED BY <1>12, <2>1 DEF VM_Ignore, HelperTypeOK, LoopTypeOK, loopVars, bufVars
<1> QED BY <1>3, <1>4, <1>5, <1>6, <1>7, <1>8, <1>9, <1>10, <1>11, <1>12 DEF VMCallback

\* A step that changes nothing keeps every type.
LEMMA StutterType == ASSUME TypeOK, UNCHANGED vars PROVE TypeOK'
  BY DEF TypeOK, vars, netVars, loopVars, NetTypeOK, HelperTypeOK, LoopTypeOK

\* The next-state relation, one disjunct per kind of step.
LEMMA NextCases ==
    Next <=> \/ \E t \in Stacks : Loop(t)
             \/ \E t \in {"VM", "MAIN"} : Initialise(t)
             \/ PX4Callback
             \/ VMCallback
             \/ Outside((\E s \in Stacks : StackBoot(s)) \/ PeerStep)
  BY DEF Next, PX4Thread, VMThread, MainThread, Boot, Peers, Outside, Stacks

\* Type correctness is inductive.
LEMMA StepType == ASSUME TypeOK, [Next]_vars PROVE TypeOK'
<1>1. CASE Outside((\E s \in Stacks : StackBoot(s)) \/ PeerStep)
  <2>1. NetTypeOK'
    BY <1>1, EnvironmentType DEF Outside, TypeOK
  <2> QED BY <1>1, <2>1 DEF Outside, TypeOK, HelperTypeOK, LoopTypeOK, loopVars, bufVars
<1>2. \A t \in {"VM", "MAIN"} : t \in Threads
  BY DEF Threads, Stacks
<1> QED BY <1>1, <1>2, NextCases, LoopType, InitialiseType, PX4CallbackType, VMCallbackType,
           StutterType

\* In every reachable state the tables of the stacks, the socket contexts and
\* the variables of the three threads hold values of their types.
THEOREM TypeCorrect == Spec => []TypeOK
  BY InitType, StepType, PTL DEF Spec

-----------------------------------------------------------------------------
(* Mutual exclusion.                                                       *)

CriticalLabels == Labels \ {"idle", "fetch", "next"}

\* The callbacks move inside their critical sections, or leave them with the
\* mutex held; the frame takes and releases it: with the types, mutual
\* exclusion is inductive.
LEMMA MutexStep ==
    ASSUME TypeOK, MutualExclusion, [Next]_vars
    PROVE  MutualExclusion'
<1>1. "VM" \in Threads /\ "PX4" \in Threads
  BY DEF Threads, Stacks
<1>2. HelperTypeOK(Labels) /\ Exclusive(CriticalLabels)
  BY DEF TypeOK, MutualExclusion, Critical, Exclusive, CriticalLabels
<1>3. SUFFICES Exclusive(CriticalLabels)'
  BY DEF MutualExclusion, Critical, Exclusive, CriticalLabels
<1>4. ASSUME NEW t \in Stacks, Loop(t)  PROVE Exclusive(CriticalLabels)'
  <2>1. "reset" \in CriticalLabels /\ CriticalLabels \cap {"idle", "fetch", "next"} = {}
    BY DEF CriticalLabels, Labels, LoopLabels
  <2> QED BY <1>2, <1>4, <2>1, LoopMutex DEF Loop
<1>5. ASSUME NEW t \in {"VM", "MAIN"}, Initialise(t)  PROVE Exclusive(CriticalLabels)'
  <2>1. InitLabels \subseteq CriticalLabels /\ t \in Threads
    BY DEF CriticalLabels, Labels, InitLabels, Threads, Stacks
  <2> QED BY <1>2, <1>5, <2>1, InitStepMutex DEF Initialise, loopVars
<1>6. CASE PX4Callback
  <2>1. UNCHANGED mutex /\ \E label : Goto("PX4", label)
    BY <1>6 DEF PX4Callback, PX4_Close, PX4_ConnEst, PX4_Read, PX4_Write, PX4_Ignore, loopVars
  <2>2. pc["PX4"] \in {"close", "handle", "write"}
    BY <1>6 DEF PX4Callback, PX4_Close, PX4_ConnEst, PX4_Read, PX4_Write, PX4_Ignore
  <2>3. pc["PX4"] \in CriticalLabels
    BY <2>2 DEF CriticalLabels, Labels, LoopLabels
  <2> QED BY <1>1, <1>2, <2>1, <2>3, MutexKept
<1>7. CASE VMCallback
  <2>1. UNCHANGED mutex /\ (pc' = pc \/ \E label : Goto("VM", label))
    BY <1>7 DEF VMCallback, VM_Close, VM_Accept, VM_AcceptFailed, VM_InitDone, VM_InitFailed,
                VM_Read, VM_Filter, VM_Filtered, VM_Write, VM_Ignore, loopVars
  <2>2. pc["VM"] \in {"close", "handle", "init_ok", "init_err", "filter", "write"}
    BY <1>7 DEF VMCallback, VM_Close, VM_Accept, VM_AcceptFailed, VM_InitDone, VM_InitFailed,
                VM_Read, VM_Filter, VM_Filtered, VM_Write, VM_Ignore
  <2>3. pc["VM"] \in CriticalLabels
    BY <2>2 DEF CriticalLabels, Labels, LoopLabels, InitLabels
  <2> QED BY <1>1, <1>2, <2>1, <2>3, MutexKept
<1>8. CASE UNCHANGED <<pc, mutex>>
  BY <1>2, <1>8 DEF Exclusive
<1> QED BY <1>4, <1>5, <1>6, <1>7, <1>8, NextCases DEF Outside, loopVars, vars

\* The two callbacks never handle events at the same time, whatever fails.
THEOREM MutualExclusionHolds == Spec => []MutualExclusion
<1>1. Init => MutualExclusion
  BY DEF Init, MutualExclusion, Critical, Threads, Stacks
<1> QED BY <1>1, MutexStep, TypeCorrect, PTL DEF Spec

-----------------------------------------------------------------------------
(* Only permitted messages reach PX4.                                      *)

\* The rules of the code let nothing else through, for any message at all.
LEMMA FilterSound == \A m : handle_mavlink_package(m) => Permitted(m)
<1> SUFFICES ASSUME NEW m, handle_mavlink_package(m)  PROVE Permitted(m)
  OBVIOUS
<1>1. CASE m.msgid \in {"HEARTBEAT", "PING", "PARAM_REQUEST_READ"}
  BY <1>1 DEF Permitted, CarriesTarget
<1>2. CASE m.msgid = "COMMAND_LONG"
  <2>1. ~handle_mavlink_command_long(m)
    BY <1>2 DEF handle_mavlink_package
  <2>2. CASE m.command \in {21, 22}
    <3>1. ~check_coordinates(m.nan, m.target)
      BY <2>1, <2>2 DEF handle_mavlink_command_long
    <3> QED BY <1>2, <2>2, <3>1 DEF Permitted, CarriesTarget, TargetOf, check_coordinates
  <2>3. CASE m.command \in {176, 400, 511, 512}
    BY <1>2, <2>3 DEF Permitted, CarriesTarget
  <2>4. CASE m.command \notin {21, 22, 176, 400, 511, 512}
    BY <2>1, <2>4 DEF handle_mavlink_command_long
  <2> QED BY <2>2, <2>3, <2>4
<1>3. CASE m.msgid = "COMMAND_INT"
  <2>1. ~handle_mavlink_command_int(m)
    BY <1>3 DEF handle_mavlink_package
  <2> QED BY <1>3, <2>1 DEF handle_mavlink_command_int, check_coordinates, Permitted,
                            CarriesTarget, TargetOf
<1> QED BY <1>1, <1>2, <1>3 DEF handle_mavlink_package

PermittedFrames == {m \in Frame : Permitted(m)}

\* The inductive invariant: what waits in ret_buf is permitted, too.
Sifted == ret_buf \in Seq(PermittedFrames) /\ wire["PX4"] \in Seq(PermittedFrames)

\* A write whose data is permitted keeps the wire to PX4 permitted, even if it is cut.
LEMMA WriteSifted ==
    ASSUME TypeOK, Sifted, NEW h, NEW ok \in BOOLEAN, OS_Socket_write("PX4", h, ret_buf, ok)
    PROVE  wire'["PX4"] \in Seq(PermittedFrames)
<1>1. \A n \in 1..(Len(ret_buf) - 1) : SubSeq(ret_buf, 1, n) \in Seq(PermittedFrames)
  BY SubSeqProperties DEF Sifted
<1>2. PICK data \in Seq(PermittedFrames) :
        wire' = wire \/ wire' = [wire EXCEPT !["PX4"] = @ \o data]
  BY <1>1 DEF OS_Socket_write, Sifted
<1>3. wire["PX4"] \o data \in Seq(PermittedFrames)
  BY <1>2, ConcatProperties DEF Sifted
<1> QED BY <1>2, <1>3 DEF Sifted, TypeOK, NetTypeOK, Stacks

\* All the calls but write leave the wires alone.
LEMMA WireKept ==
    ASSUME NEW s, NEW h,
           \/ \E ok \in BOOLEAN : \/ OS_Socket_create(s, h, ok)
                                  \/ OS_Socket_regCallback(s, ok)
                                  \/ OS_Socket_bind(s, h, ok)
                                  \/ OS_Socket_listen(s, h, ok)
                                  \/ OS_Socket_connect(s, h, ok)
                                  \/ OS_Socket_close(s, h, ok)
           \/ \E l : OS_Socket_accept(s, l, h)
           \/ OS_Socket_read(s, h)
           \/ OS_Socket_getPendingEvents(s)
           \/ UNCHANGED netVars
    PROVE  UNCHANGED wire
  BY DEF OS_Socket_create, OS_Socket_regCallback, OS_Socket_bind, OS_Socket_listen,
         OS_Socket_connect, SocketCall, OS_Socket_close, OS_Socket_accept, OS_Socket_read,
         OS_Socket_getPendingEvents, netVars

\* The strengthening is inductive: only VM_Filter extends ret_buf, by a message the
\* rules accept, and only VM_Write writes towards PX4, what ret_buf holds.
LEMMA SiftedStep ==
    ASSUME TypeOK, Sifted, [Next]_vars
    PROVE  Sifted'
<1>1. CASE UNCHANGED <<wire, ret_buf>>
  BY <1>1 DEF Sifted
<1>2. ASSUME NEW t \in Stacks, Loop(t)  PROVE UNCHANGED <<wire, ret_buf>>
  BY <1>2, WireKept DEF Loop, LoopStep, Dispatch, Fetch, Lock, Reset, Rearm, bufVars
<1>3. ASSUME NEW t \in {"VM", "MAIN"}, Initialise(t)  PROVE UNCHANGED <<wire, ret_buf>>
  BY <1>3, WireKept DEF Initialise, InitStep, wait_for_nw_stack_init_nb, InitCreate,
        InitRegCallback, InitBind, InitListen, InitConnect, CloseAndReturn, bufVars
<1>4. CASE PX4Callback
  <2>1. CASE PX4_Write
    <3>1. wire'["PX4"] = wire["PX4"]
      BY <2>1 DEF PX4_Write, OS_Socket_write, TypeOK, NetTypeOK, Stacks
    <3> QED BY <2>1, <3>1 DEF PX4_Write, Sifted
  <2>2. CASE ~PX4_Write
    BY <1>1, <1>4, <2>2, WireKept DEF PX4Callback, PX4_Close, PX4_ConnEst, PX4_Read,
        PX4_Ignore, bufVars
  <2> QED BY <2>1, <2>2
<1>5. CASE VMCallback
  <2>1. CASE VM_Filter
    <3>1. Head(buf["VM"]) \in Frame
      BY <2>1, HeadTailProperties DEF VM_Filter, TypeOK, Stacks
    <3>2. ret_buf' \in Seq(PermittedFrames)
      BY <2>1, <3>1, FilterSound, AppendProperties DEF VM_Filter, Sifted, PermittedFrames
    <3> QED BY <2>1, <3>2 DEF VM_Filter, Sifted, netVars
  <2>2. CASE VM_Filtered
    BY <2>2, EmptySeq DEF VM_Filtered, Sifted, netVars
  <2>3. CASE VM_Write
    BY <2>3, WriteSifted, EmptySeq DEF VM_Write, Sifted
  <2>4. CASE VM_Close \/ VM_Accept \/ VM_AcceptFailed \/ VM_InitDone \/ VM_InitFailed
             \/ VM_Read \/ VM_Ignore
    BY <1>1, <2>4, WireKept DEF VM_Close, VM_Accept, VM_AcceptFailed, VM_InitDone,
        VM_InitFailed, VM_Read, VM_Ignore, bufVars
  <2> QED BY <1>5, <2>1, <2>2, <2>3, <2>4 DEF VMCallback
<1>6. CASE Outside((\E s \in Stacks : StackBoot(s)) \/ PeerStep)
  <2>1. ASSUME NEW s \in Stacks, StackBoot(s)  PROVE UNCHANGED wire
    BY <2>1 DEF StackBoot
  <2>2. ASSUME NEW s \in Stacks, NEW h \in Handles,
               \/ PeerConnect(s, h) \/ PeerGivesUp(s, h) \/ PeerAnswer(s, h) \/ PeerClose(s, h)
               \/ \E f \in Frames[s] : PeerSend(s, h, f)
        PROVE  UNCHANGED wire
    BY <2>2 DEF PeerConnect, PeerGivesUp, PeerAnswer, PeerSend, PeerClose
  <2>3. UNCHANGED wire
    BY <1>6, <2>1, <2>2 DEF Outside, PeerStep
  <2> QED BY <1>1, <1>6, <2>3 DEF Outside, bufVars
<1>7. CASE UNCHANGED vars
  BY <1>1, <1>7 DEF vars, netVars
<1> QED BY <1>1, <1>2, <1>3, <1>4, <1>5, <1>6, <1>7, NextCases

\* Every message that PX4 receives is one the filter set and the geofence
\* allow: for any traffic, any failing calls, any number of reconnections.
THEOREM OnlyPermittedHolds == Spec => []OnlyPermitted
<1>1. Init => Sifted
  BY EmptySeq DEF Init, NetInit, Sifted, Stacks
<1>2. Sifted => OnlyPermitted
  BY DEF Sifted, OnlyPermitted, PermittedFrames
<1> QED BY <1>1, <1>2, SiftedStep, TypeCorrect, PTL DEF Spec

-----------------------------------------------------------------------------
(* The server for the VM.                                                  *)

\* The inductive invariant: MAIN sets up the server, and the VM callback
\* nothing but the client of PX4.
Served ==
    /\ ServerOK
    /\ tgt["MAIN"] = "VM" /\ pc["MAIN"] # "connect"
    /\ pc["VM"] \in InitLabels => tgt["VM"] = "PX4"

\* The PX4 callback touches no socket of the VM's stack.
LEMMA PX4LeavesVM ==
    ASSUME TypeOK, PX4Callback
    PROVE  \A h \in Handles : sk'[<<"VM", h>>] = sk[<<"VM", h>>]
<1>0. "PX4" \in Stacks /\ "VM" \in Stacks
  BY DEF Stacks
<1>1. ASSUME NEW h, NEW ok \in BOOLEAN, OS_Socket_close("PX4", h, ok)
      PROVE  \A g \in Handles : sk'[<<"VM", g>>] = sk[<<"VM", g>>]
  BY <1>0, <1>1, CloseFrees DEF TypeOK, Sockets
<1>2. ASSUME NEW h, OS_Socket_read("PX4", h)
      PROVE  \A g \in Handles : sk'[<<"VM", g>>] = sk[<<"VM", g>>]
  BY <1>0, <1>2 DEF OS_Socket_read, TypeOK, NetTypeOK, Sockets
<1>3. CASE UNCHANGED sk
  BY <1>3
<1> QED BY <1>1, <1>2, <1>3 DEF PX4Callback, PX4_Close, PX4_ConnEst, PX4_Read, PX4_Write,
       PX4_Ignore, OS_Socket_write, netVars

\* Steps of the PX4 callback leave the server for the VM alone.
LEMMA PX4ServerStep ==
    ASSUME TypeOK, ServerOK, PX4Callback
    PROVE  /\ ServerOK'
           /\ UNCHANGED tgt /\ pc'["VM"] = pc["VM"] /\ pc'["MAIN"] = pc["MAIN"]
<1>1. "PX4" \in Stacks /\ "VM" \in Stacks /\ "VM" \in Threads /\ "MAIN" \in Threads
  BY DEF Stacks, Threads
<1>2. UNCHANGED <<tgt, loopVars>> /\ \E label : Goto("PX4", label)
  BY DEF PX4Callback, PX4_Close, PX4_ConnEst, PX4_Read, PX4_Write, PX4_Ignore
<1>3. pc'["VM"] = pc["VM"] /\ pc'["MAIN"] = pc["MAIN"]
  BY <1>1, <1>2 DEF Goto, TypeOK, HelperTypeOK
<1>4. ctx'["VM"] = ctx["VM"]
  BY DEF PX4Callback, PX4_Close, PX4_ConnEst, PX4_Read, PX4_Write, PX4_Ignore, TypeOK,
         HelperTypeOK, Stacks
<1>5. \A h \in Handles : sk'[<<"VM", h>>] = sk[<<"VM", h>>]
  BY PX4LeavesVM
<1>6. Unset' = Unset /\ SettingUp' = SettingUp
  BY <1>2, <1>3 DEF Unset, SettingUp
<1> QED BY <1>2, <1>3, <1>4, <1>5, <1>6, OtherSide DEF loopVars

\* SocketToClose is the server's socket only after a failed accept: an event
\* that ends a connection is never one of the server's.
LEMMA ClosesAClient ==
    ASSUME TypeOK, ServerOK, pc["VM"] = "close"
    PROVE  SocketToClose = ctx["VM"].client
<1>1. Mask("VM") \cap DownEvents # {} /\ cur["VM"] \in Handles
  BY DEF ServerOK, Mask
<1>2. EventsOf(cur["VM"]) \cap DownEvents # {}
  BY <1>1 DEF Mask, EventsOf
<1> QED BY <1>1, <1>2 DEF ServerOK, RoleOK, SocketToClose

\* An accept that fails closes the server's socket, if any, and no client.
LEMMA FailedAcceptCloses ==
    ASSUME TypeOK, ServerOK, "CONN_ACPT" \in Mask("VM")
    PROVE  SocketToClose = ctx["VM"].handle
<1>1. cur["VM"] \in Handles /\ "CONN_ACPT" \in EventsOf(cur["VM"])
  BY DEF Mask, EventsOf
<1> QED BY <1>1 DEF ServerOK, RoleOK, SocketToClose

\* The VM callback: a client that ends is no client any more, and one that is
\* accepted is one.
LEMMA VMServerStep ==
    ASSUME TypeOK, Served, VMCallback
    PROVE  Served'
<1> USE DEF Served
<1>1. "VM" \in Stacks /\ "PX4" \in Stacks /\ "VM" \in Threads /\ "MAIN" \in Threads
  BY DEF Stacks, Threads
<1>2. \/ pc' = pc
      \/ \E label \in {"handle", "reset", "write", "filter", "idle", "nw_wait"} : Goto("VM", label)
  BY DEF VMCallback, VM_Close, VM_Accept, VM_AcceptFailed, VM_InitDone, VM_InitFailed,
         VM_Read, VM_Filter, VM_Filtered, VM_Write, VM_Ignore
<1>3. pc'["MAIN"] = pc["MAIN"] /\ (pc'["VM"] = "close" => pc["VM"] = "close")
  BY <1>1, <1>2 DEF Goto, TypeOK, HelperTypeOK
<1>4. tgt'["MAIN"] = tgt["MAIN"]
  BY <1>1 DEF VMCallback, VM_Close, VM_Accept, VM_AcceptFailed, VM_InitDone, VM_InitFailed,
         VM_Read, VM_Filter, VM_Filtered, VM_Write, VM_Ignore, TypeOK, HelperTypeOK
<1>5. Unset' = Unset /\ SettingUp' = SettingUp
  BY <1>3, <1>4 DEF Unset, SettingUp
<1>6. pc'["VM"] \in InitLabels => tgt'["VM"] = "PX4"
  <2>1. CASE VM_Accept
    BY <1>1, <2>1 DEF VM_Accept, TypeOK, HelperTypeOK
  <2>2. CASE ~VM_Accept
    <3>1. UNCHANGED tgt
      BY <2>2 DEF VMCallback, VM_Close, VM_AcceptFailed, VM_InitDone, VM_InitFailed,
         VM_Read, VM_Filter, VM_Filtered, VM_Write, VM_Ignore
    <3>2. pc' = pc \/ \E label \in {"handle", "reset", "write", "filter", "idle"} : Goto("VM", label)
      BY <2>2 DEF VMCallback, VM_Close, VM_AcceptFailed, VM_InitDone, VM_InitFailed,
         VM_Read, VM_Filter, VM_Filtered, VM_Write, VM_Ignore
    <3>3. pc' = pc \/ pc'["VM"] \notin InitLabels
      BY <1>1, <3>2 DEF Goto, TypeOK, HelperTypeOK, InitLabels
    <3> QED BY <3>1, <3>3
  <2> QED BY <2>1, <2>2
<1>7. ServerOK'
  <2>1. ASSUME ctx'["VM"] = ctx["VM"], \A h \in Handles : sk'[<<"VM", h>>] = sk[<<"VM", h>>],
               UNCHANGED <<batch, cur>>
        PROVE  ServerOK'
    BY <1>3, <1>5, <2>1, OtherSide
  <2>2. CASE VM_Close
    <3>1. ~Unset /\ UNCHANGED <<tgt, loopVars>>
      BY <2>2 DEF VM_Close, ServerOK, Mask, EventsOf
    <3>2. /\ ctx'["VM"].handle = ctx["VM"].handle /\ ctx'["VM"].client = ctx["VM"].client
          /\ ~ctx'["VM"].conn
      BY <1>1, <2>2 DEF VM_Close, TypeOK, HelperTypeOK, SocketContext
    <3> QED BY <1>3, <1>5, <2>2, <3>1, <3>2, ServerClose DEF VM_Close, TypeOK
  <2>3. CASE VM_Accept
    <3>1. PICK h \in Handles : /\ OS_Socket_accept("VM", ctx["VM"].handle, h)
                               /\ ctx' = [ctx EXCEPT !["VM"].client = h, !["VM"].conn = TRUE]
      BY <2>3 DEF VM_Accept
    <3>2. pc'["VM"] # "close" /\ UNCHANGED loopVars
      BY <1>1, <2>3 DEF VM_Accept, Goto, TypeOK, HelperTypeOK
    <3> QED BY <1>5, <3>1, <3>2, ServerAccept DEF TypeOK
  <2>4. CASE VM_AcceptFailed
    <3>1. UNCHANGED <<ctx, tgt, loopVars>>
      BY <2>4 DEF VM_AcceptFailed
    <3>2. CASE UNCHANGED netVars
      BY <2>1, <3>1, <3>2 DEF netVars, loopVars
    <3>3. ASSUME NEW ok \in BOOLEAN, OS_Socket_close("VM", SocketToClose, ok)
          PROVE  ServerOK'
      <4>1. SocketToClose = ctx["VM"].handle
        BY <2>4, FailedAcceptCloses DEF VM_AcceptFailed
      <4>2. ctx["VM"].conn => SocketToClose # ctx["VM"].client
        BY <4>1 DEF ServerOK, InUse
      <4> QED BY <1>3, <1>5, <3>1, <3>3, <4>1, <4>2, ServerClose DEF TypeOK
    <3> QED BY <2>4, <3>2, <3>3 DEF VM_AcceptFailed
  <2>5. CASE VM_InitFailed
    <3>1. \A h \in Handles : EventsOf(h)' \subseteq EventsOf(h)
      BY <1>1, <2>5 DEF VM_InitFailed, EventsOf, NoBatch, netVars, TypeOK, LoopTypeOK
    <3>2. pc'["VM"] # "close"
      BY <1>1, <2>5 DEF VM_InitFailed, Goto, TypeOK, HelperTypeOK
    <3> QED BY <1>5, <2>5, <3>1, <3>2, ServerKept DEF VM_InitFailed, netVars
  <2>6. CASE VM_Read
    <3>1. CASE OS_Socket_read("VM", ctx["VM"].client)
      <4>1. /\ \A h \in Handles : /\ sk'[<<"VM", h>>].st = sk[<<"VM", h>>].st
                                  /\ sk'[<<"VM", h>>].ev \subseteq sk[<<"VM", h>>].ev \cup {"READ"}
            /\ \A h \in Handles : sk'[<<"VM", h>>].ev # sk[<<"VM", h>>].ev =>
                                     sk[<<"VM", h>>].st \in {"open", "down"}
        <5>1. /\ ctx["VM"].client \in Handles
              /\ sk[<<"VM", ctx["VM"].client>>].st \in {"open", "down"}
          BY <3>1 DEF OS_Socket_read, Readable
        <5>2. \A h \in Handles : h # ctx["VM"].client => sk'[<<"VM", h>>] = sk[<<"VM", h>>]
          BY <1>1, <3>1, <5>1 DEF OS_Socket_read, TypeOK, NetTypeOK, Sockets
        <5>3. /\ sk'[<<"VM", ctx["VM"].client>>].st = sk[<<"VM", ctx["VM"].client>>].st
              /\ sk'[<<"VM", ctx["VM"].client>>].ev
                    \subseteq sk[<<"VM", ctx["VM"].client>>].ev \cup {"READ"}
          BY <1>1, <3>1, <5>1 DEF OS_Socket_read, TypeOK, NetTypeOK, Sockets, SocketRecord
        <5> QED BY <5>1, <5>2, <5>3
      <4>2. UNCHANGED <<ctx, batch, cur, tgt>>
        BY <2>6 DEF VM_Read, loopVars
      <4>3. \A h \in Handles : RoleOK(h)'
        <5> SUFFICES ASSUME NEW h \in Handles PROVE RoleOK(h)'
          OBVIOUS
        <5>1. RoleOK(h)
          BY DEF ServerOK
        <5>2. CASE sk'[<<"VM", h>>].ev = sk[<<"VM", h>>].ev
          BY <4>1, <4>2, <5>1, <5>2 DEF RoleOK, EventsOf
        <5>3. CASE sk'[<<"VM", h>>].ev # sk[<<"VM", h>>].ev
          <6>1. h # ctx["VM"].handle
            BY <4>1, <5>1, <5>3 DEF RoleOK
          <6> QED BY <4>1, <4>2, <5>1, <6>1 DEF RoleOK, EventsOf
        <5> QED BY <5>2, <5>3
      <4>4. ~Unset
        BY <1>1, <3>1 DEF ServerOK, OS_Socket_read, Readable
      <4>5. pc'["VM"] # "close"
        BY <1>1, <2>6 DEF VM_Read, Goto, TypeOK, HelperTypeOK
      <4> QED BY <1>5, <4>1, <4>2, <4>3, <4>4, <4>5 DEF ServerOK, InUse
    <3>2. CASE UNCHANGED netVars
      BY <2>1, <2>6, <3>2 DEF VM_Read, netVars, loopVars
    <3> QED BY <2>6, <3>1, <3>2 DEF VM_Read
  <2>7. CASE VM_InitDone \/ VM_Filter \/ VM_Filtered \/ VM_Write \/ VM_Ignore
    <3>1. UNCHANGED <<sk, ctx, batch, cur>>
      BY <2>7 DEF VM_InitDone, VM_Filter, VM_Filtered, VM_Write, VM_Ignore, OS_Socket_write,
         netVars, loopVars
    <3> QED BY <2>1, <3>1
  <2> QED BY <2>2, <2>3, <2>4, <2>5, <2>6, <2>7 DEF VMCallback
<1> QED BY <1>3, <1>4, <1>6, <1>7

\* The invariant of the server is inductive.
LEMMA ServedStep ==
    ASSUME TypeOK, Served, [Next]_vars
    PROVE  Served'
<1> USE DEF Served
<1>1. "MAIN" \in Threads /\ "VM" \in Threads /\ "MAIN" \notin Stacks /\ Stacks \subseteq Threads
      /\ "PX4" \in Stacks /\ "VM" \in Stacks
  BY DEF Threads, Stacks
<1>2. ASSUME NEW t \in Stacks, Loop(t)  PROVE Served'
  <2>1. /\ pc'["MAIN"] = pc["MAIN"] /\ UNCHANGED tgt
        /\ pc'["VM"] = pc["VM"] \/ pc'["VM"] \in LoopLabels
    BY <1>1, <1>2 DEF Loop, LoopStep, Dispatch, Fetch, Lock, Take, Reset, Rearm, Goto, TypeOK,
       HelperTypeOK, LoopLabels
  <2>2. LoopLabels \cap InitLabels = {}
    BY DEF LoopLabels, InitLabels
  <2> QED BY <1>2, <2>1, <2>2, LoopStepServer DEF Loop, TypeOK
<1>3. ASSUME NEW t \in {"VM", "MAIN"}, Initialise(t)  PROVE Served'
  <2>1. pc[t] \in InitLabels /\ UNCHANGED tgt /\ \A u \in Threads : u # t => pc'[u] = pc[u]
    BY <1>1, <1>3 DEF Initialise, InitStep, wait_for_nw_stack_init_nb, InitCreate,
       InitRegCallback, InitBind, InitListen, InitConnect, CloseAndReturn, Goto, TypeOK,
       HelperTypeOK, InitLabels
  <2>2. pc'["MAIN"] # "connect"
    BY <1>1, <1>3 DEF Initialise, InitStep, wait_for_nw_stack_init_nb, InitCreate,
       InitRegCallback, InitBind, InitListen, InitConnect, CloseAndReturn, Goto, TypeOK,
       HelperTypeOK
  <2>3. IF t = "MAIN" THEN pc[t] # "connect" ELSE tgt[t] = "PX4"
    BY <2>1
  <2>4. ServerOK'
    BY <1>3, <2>3, InitStepServer DEF Initialise, TypeOK
  <2> QED BY <1>1, <2>1, <2>2, <2>4
<1>4. CASE PX4Callback
  BY <1>4, PX4ServerStep
<1>5. CASE VMCallback
  BY <1>5, VMServerStep
<1>6. CASE Outside((\E s \in Stacks : StackBoot(s)) \/ PeerStep)
  BY <1>6, EnvironmentServer DEF Outside, TypeOK
<1>7. CASE UNCHANGED vars
  <2>1. UNCHANGED <<sk, ctx, batch, cur, pc, tgt>>
    BY <1>7 DEF vars, netVars, loopVars
  <2> QED BY <2>1, OtherSide DEF Unset, SettingUp
<1> QED BY <1>2, <1>3, <1>4, <1>5, <1>6, <1>7, NextCases

\* At first MAIN has all of it to do.
LEMMA InitServed == Init => Served
<1> SUFFICES ASSUME Init PROVE Served
  OBVIOUS
<1>1. \A h \in Handles : sk[<<"VM", h>>].st = "free" /\ EventsOf(h) = {}
  BY DEF Init, NetInit, LoopInit, EventsOf, FreeSocket, NoBatch, Sockets, Stacks
<1>2. /\ ctx["VM"] = InitialContext /\ pc["VM"] = "idle" /\ pc["MAIN"] = "nw_wait"
      /\ tgt["MAIN"] = "VM"
  BY DEF Init, Threads, Stacks
<1>3. ~ctx["VM"].conn /\ ctx["VM"].client = NoHandle /\ NoHandle \notin Handles
  BY <1>2, NetAssumption DEF InitialContext, NoHandle
<1> QED BY <1>1, <1>2, <1>3 DEF Served, ServerOK, RoleOK, SettingUp, InitLabels

\* What PX4 sends is never written to a handle that the stack has closed, or
\* may have given to another connection.
THEOREM ClientAliveHolds == Spec => []ClientAlive
<1>1. Served => ClientAlive
  BY DEF Served, ServerOK, ClientAlive
<1> QED BY <1>1, InitServed, ServedStep, TypeCorrect, PTL DEF Spec

-----------------------------------------------------------------------------
(* Which socket an event closes, while the VM has one connection at a time. *)

\* The callback has not handled the event of h yet, or is about to close for it.
Ahead(h) == h \in batch["VM"].todo \/ (pc["VM"] = "close" /\ h = cur["VM"])

\* An event that ends h is pending or ahead.
Ends(h) == \/ sk[<<"VM", h>>].ev \cap DownEvents # {}
           \/ Ahead(h) /\ batch["VM"].mask[h] \cap DownEvents # {}

\* The inductive invariant: a socket whose end is to be handled is still in
\* use, so that its handle has not gone to another connection in between.
Orderly ==
    /\ \A h \in Handles : Ends(h) => InUse("VM", h)
    /\ Unset \/ SettingUp => \A h \in Handles : EventsOf(h) = {} /\ ~Connection(h)
    /\ pc["VM"] = "close" => cur["VM"] \notin batch["VM"].todo

\* Steps that free no socket and let no event end one that is not in use.
LEMMA OrderlyKept ==
    ASSUME Orderly,
           \A h \in Handles : \/ sk'[<<"VM", h>>].st # "free"
                              \/ (Ends(h)' => Ends(h)) /\ sk'[<<"VM", h>>].st = sk[<<"VM", h>>].st,
           Unset' \/ SettingUp' => Unset \/ SettingUp,
           Unset \/ SettingUp => \A h \in Handles : /\ EventsOf(h)' \subseteq EventsOf(h)
                                                    /\ Connection(h)' => Connection(h),
           pc'["VM"] = "close" => cur'["VM"] \notin batch'["VM"].todo
    PROVE  Orderly'
  BY DEF Orderly, InUse

\* Steps of the other side.
LEMMA OrderlyElsewhere ==
    ASSUME Orderly, batch'["VM"] = batch["VM"], cur'["VM"] = cur["VM"],
           \A h \in Handles : sk'[<<"VM", h>>] = sk[<<"VM", h>>],
           Unset' \/ SettingUp' => Unset \/ SettingUp,
           pc'["VM"] = "close" => pc["VM"] = "close"
    PROVE  Orderly'
<1>1. \A h \in Handles : (Ends(h)' => Ends(h)) /\ EventsOf(h)' = EventsOf(h)
  BY DEF Ends, Ahead, EventsOf
<1>2. \A h \in Handles : Connection(h)' = Connection(h)
  BY DEF Connection
<1>3. pc'["VM"] = "close" => cur'["VM"] \notin batch'["VM"].todo
  BY DEF Orderly
<1> QED BY <1>1, <1>2, <1>3, OrderlyKept

\* The loop of the VM callback only passes events on or drops them.
LEMMA LoopOrderly ==
    ASSUME TypeOK, Orderly, Loop("VM")
    PROVE  Orderly'
<1>1. "VM" \in Stacks /\ "VM" \in Threads /\ "MAIN" \in Threads /\ UNCHANGED tgt
  BY DEF Stacks, Threads, Loop, LoopStep, Dispatch, Fetch, Lock, Reset, Rearm
<1>2. \A label : Goto("VM", label) => pc'["VM"] = label /\ pc'["MAIN"] = pc["MAIN"]
  BY <1>1 DEF Goto, TypeOK, HelperTypeOK
<1>3. pc'["MAIN"] = pc["MAIN"]
  BY <1>2 DEF Loop, LoopStep, Dispatch, Fetch, Lock, Take, Reset, Rearm
<1>4. Unset' = Unset /\ SettingUp' = SettingUp
  BY <1>1, <1>3 DEF Unset, SettingUp
<1>5. \A h \in Handles : /\ sk'[<<"VM", h>>].st = sk[<<"VM", h>>].st
                         /\ sk'[<<"VM", h>>].ev \subseteq sk[<<"VM", h>>].ev
  <2>1. \A h \in Handles : <<"VM", h>> \in Sockets /\ sk[<<"VM", h>>] \in SocketRecord
    BY <1>1 DEF Sockets, TypeOK, NetTypeOK
  <2>2. CASE OS_Socket_getPendingEvents("VM")
    BY <2>1, <2>2 DEF OS_Socket_getPendingEvents, SocketRecord
  <2>3. CASE UNCHANGED sk
    BY <2>3
  <2> QED BY <2>2, <2>3 DEF Loop, LoopStep, Dispatch, Fetch, Lock, Reset, Rearm,
         OS_Socket_regCallback, netVars
<1>6. SUFFICES /\ \A h \in Handles : Ends(h)' => Ends(h)
               /\ \A h \in Handles : EventsOf(h)' \subseteq EventsOf(h)
               /\ pc'["VM"] = "close" => cur'["VM"] \notin batch'["VM"].todo
  <2>1. \A h \in Handles : Connection(h)' = Connection(h)
    BY <1>5 DEF Connection
  <2> QED BY <1>4, <1>5, <2>1, OrderlyKept
<1>7. /\ batch["VM"].todo \in SUBSET Handles
      /\ batch["VM"] \in [rep : SUBSET Handles, todo : SUBSET Handles,
                          mask : [Handles -> SUBSET EventBits]]
      /\ batch \in [Stacks -> [rep : SUBSET Handles, todo : SUBSET Handles,
                               mask : [Handles -> SUBSET EventBits]]]
  BY <1>1 DEF TypeOK, LoopTypeOK
\* Where the batch goes on with fewer entries or none, and does not close.
<1>8. ASSUME batch'["VM"].todo \subseteq batch["VM"].todo, pc'["VM"] # "close",
             \A h \in Handles : batch'["VM"].mask[h] \subseteq batch["VM"].mask[h]
      PROVE  /\ \A h \in Handles : Ends(h)' => Ends(h)
             /\ \A h \in Handles : EventsOf(h)' \subseteq EventsOf(h)
  BY <1>5, <1>8 DEF Ends, Ahead, EventsOf
<1>9. /\ NoBatch.todo = {} /\ \A h \in Handles : NoBatch.mask[h] = {}
  BY DEF NoBatch
<1>10. ASSUME batch' = [batch EXCEPT !["VM"] = NoBatch], Goto("VM", "idle")
       PROVE  /\ batch'["VM"].todo \subseteq batch["VM"].todo /\ pc'["VM"] # "close"
              /\ \A h \in Handles : batch'["VM"].mask[h] \subseteq batch["VM"].mask[h]
  <2>1. batch'["VM"] = NoBatch
    BY <1>1, <1>7, <1>10
  <2> QED BY <1>2, <1>9, <1>10, <2>1
<1>11. CASE Dispatch("VM")
  <2>1. UNCHANGED batch /\ pc'["VM"] # "close"
    BY <1>2, <1>11 DEF Dispatch, loopVars
  <2> QED BY <1>8, <2>1
<1>12. CASE Fetch("VM")
  <2>0. pc'["VM"] # "close"
    BY <1>2, <1>12 DEF Fetch
  <2>1. CASE UNCHANGED batch
    BY <1>8, <2>0, <2>1
  <2>2. CASE batch' = [batch EXCEPT !["VM"] = [rep |-> Pending("VM"), todo |-> Pending("VM"),
                                           mask |-> [h \in Handles |-> sk[<<"VM", h>>].ev]]]
    <3>1. \A h \in Handles : batch'["VM"].mask[h] = sk[<<"VM", h>>].ev
      BY <1>1, <1>7, <2>2
    <3>2. \A h \in Handles : Ends(h)' => Ends(h)
      BY <1>5, <2>0, <3>1 DEF Ends
    <3>3. \A h \in Handles : EventsOf(h)' \subseteq EventsOf(h)
      BY <1>5, <3>1 DEF EventsOf
    <3> QED BY <2>0, <3>2, <3>3
  <2> QED BY <1>12, <2>1, <2>2 DEF Fetch
<1>13. CASE Lock("VM")
  <2>1. ASSUME NEW g \in batch["VM"].todo, Take("VM", g)
        PROVE  /\ \A h \in Handles : Ends(h)' => Ends(h)
               /\ \A h \in Handles : EventsOf(h)' \subseteq EventsOf(h)
               /\ pc'["VM"] = "close" => cur'["VM"] \notin batch'["VM"].todo
    <3>1. cur'["VM"] = g
      BY <1>1, <2>1 DEF Take, TypeOK, LoopTypeOK
    <3>2. /\ batch'["VM"].todo = batch["VM"].todo \ {g}
          /\ batch'["VM"].mask = batch["VM"].mask
      <4>1. batch' = [batch EXCEPT !["VM"] = [batch["VM"] EXCEPT !.todo = @ \ {g}]]
        BY <1>1, <1>7, <2>1 DEF Take
      <4> QED BY <1>1, <1>7, <4>1
    <3>3. \A h \in Handles : Ahead(h)' => Ahead(h)
      BY <2>1, <3>1, <3>2 DEF Ahead
    <3> QED BY <1>5, <3>1, <3>2, <3>3 DEF Ends, EventsOf
  <2>2. CASE batch' = [batch EXCEPT !["VM"] = NoBatch] /\ Goto("VM", "idle")
    BY <1>8, <1>10, <2>2
  <2> QED BY <1>13, <2>1, <2>2 DEF Lock
<1>14. CASE Reset("VM")
  <2>1. CASE batch' = [batch EXCEPT !["VM"] = ClearEntry(@, cur["VM"])] /\ Goto("VM", "next")
    <3>1. batch'["VM"] = ClearEntry(batch["VM"], cur["VM"])
      BY <1>1, <1>7, <2>1
    <3>2. /\ batch'["VM"].todo = batch["VM"].todo
          /\ \A h \in Handles : batch'["VM"].mask[h] \subseteq batch["VM"].mask[h]
      BY <1>7, <3>1 DEF ClearEntry
    <3> QED BY <1>2, <1>8, <2>1, <3>2
  <2>2. CASE batch' = [batch EXCEPT !["VM"] = NoBatch] /\ Goto("VM", "idle")
    BY <1>8, <1>10, <2>2
  <2> QED BY <1>14, <2>1, <2>2 DEF Reset
<1>15. CASE Rearm("VM")
  BY <1>8, <1>10, <1>15 DEF Rearm
<1> QED BY <1>11, <1>12, <1>13, <1>14, <1>15 DEF Loop, LoopStep

\* The boot of a stack, and what the peers do: an event that ends a socket is
\* raised for a connection.
LEMMA EnvironmentOrderly ==
    ASSUME TypeOK, ServerOK, Orderly, Outside((\E s \in Stacks : StackBoot(s)) \/ PeerStep)
    PROVE  Orderly'
<1>1. UNCHANGED <<ctx, pc, tgt, batch, cur>>
  BY DEF Outside, loopVars
<1>2. Unset' = Unset /\ SettingUp' = SettingUp
  BY <1>1 DEF Unset, SettingUp
<1>3. CASE \E s \in Stacks : StackBoot(s)
  BY <1>1, <1>2, <1>3, OrderlyElsewhere DEF StackBoot
<1>4. CASE PeerStep
  <2>1. PICK s \in Stacks, h \in Handles, r \in SocketRecord :
           /\ Becomes(s, h, r)
           /\ \/ r.st = sk[<<s, h>>].st /\ r.ev = sk[<<s, h>>].ev
              \/ sk[<<s, h>>].st = "listening" /\ r.st = "listening"
              \/ sk[<<s, h>>].st = "connecting" /\ r.st \in {"open", "down"}
              \/ sk[<<s, h>>].st = "open" /\ r.st \in {"open", "down"}
    <3>1. NetTypeOK
      BY DEF TypeOK
    <3> QED BY <1>4, <3>1, PeerMoves
  <2>2. CASE s # "VM"
    BY <1>1, <1>2, <2>1, <2>2, OrderlyElsewhere DEF Becomes, Sockets, Stacks
  <2>3. CASE s = "VM"
    <3>1. /\ sk'[<<"VM", h>>] = r
          /\ \A g \in Handles : g # h => sk'[<<"VM", g>>] = sk[<<"VM", g>>]
      BY <2>1, <2>3 DEF Becomes, Sockets, Stacks
    <3>2. \A g \in Handles : g # h => /\ Ends(g)' = Ends(g) /\ EventsOf(g)' = EventsOf(g)
                                      /\ Connection(g)' = Connection(g)
      BY <1>1, <3>1 DEF Ends, Ahead, EventsOf, Connection
    <3>3. pc'["VM"] = "close" => cur'["VM"] \notin batch'["VM"].todo
      BY <1>1 DEF Orderly
    <3>4. CASE r.st = sk[<<s, h>>].st /\ r.ev = sk[<<s, h>>].ev
      <4>1. /\ Ends(h)' = Ends(h) /\ EventsOf(h)' = EventsOf(h)
            /\ Connection(h)' = Connection(h)
        BY <1>1, <2>3, <3>1, <3>4 DEF Ends, Ahead, EventsOf, Connection
      <4> QED BY <1>2, <2>3, <3>1, <3>2, <3>3, <3>4, <4>1, OrderlyKept
    <3>5. CASE sk[<<s, h>>].st \in {"listening", "open"} /\ r.st # "free"
      <4>1. ~Unset /\ ~SettingUp
        BY <2>3, <3>5 DEF ServerOK, Orderly, Connection
      <4> QED BY <1>2, <3>1, <3>2, <3>3, <3>5, <4>1, OrderlyKept
    <3>6. sk[<<"VM", h>>].st # "connecting"
      BY DEF ServerOK, RoleOK
    <3> QED BY <2>1, <2>3, <3>4, <3>5, <3>6
  <2> QED BY <2>2, <2>3
<1> QED BY <1>3, <1>4 DEF Outside

\* What the helper may do to a socket of the VM's stack.
HelperMoves(h) ==
    /\ sk'[<<"VM", h>>].ev \subseteq sk[<<"VM", h>>].ev
    /\ \/ sk'[<<"VM", h>>].st = sk[<<"VM", h>>].st
       \/ sk'[<<"VM", h>>].st \in {"free", "created", "bound", "listening"}

\* The helper opens no connection with the VM and raises no event.
LEMMA InitialiseSockets ==
    ASSUME TypeOK, Served, NEW t \in {"VM", "MAIN"}, Initialise(t)
    PROVE  \A h \in Handles : HelperMoves(h)
<1>1. /\ t \in Threads /\ "VM" \in Stacks /\ tgt[t] \in Stacks /\ InitStep(t)
      /\ NetTypeOK /\ HelperTypeOK(Labels)
  BY DEF Threads, Stacks, TypeOK, HelperTypeOK, Initialise
<1>2. \A h \in Handles : <<"VM", h>> \in Sockets /\ sk[<<"VM", h>>] \in SocketRecord
  BY <1>1 DEF Sockets, NetTypeOK
<1>3. /\ Fresh("created").st = "created" /\ Fresh("created").ev = {}
      /\ FreeSocket.st = "free" /\ FreeSocket.ev = {}
  BY DEF Fresh, FreeSocket
<1>4. CASE tgt[t] # "VM"
  BY <1>1, <1>4, InitStepElsewhere DEF HelperMoves
<1>5. CASE wait_for_nw_stack_init_nb(t) \/ InitRegCallback(t)
  BY <1>5 DEF wait_for_nw_stack_init_nb, InitRegCallback, OS_Socket_regCallback, netVars, HelperMoves
<1>6. CASE InitCreate(t)
  <2>1. \A h \in Handles : sk'[<<"VM", h>>] \in {sk[<<"VM", h>>], Fresh("created")}
    BY <1>1, <1>2, <1>6 DEF InitCreate, OS_Socket_create, NetTypeOK
  <2> QED BY <1>3, <2>1 DEF HelperMoves
<1>7. ASSUME CloseAndReturn(t)
      PROVE  \A h \in Handles : HelperMoves(h)
  <2>1. \A h \in Handles : sk'[<<"VM", h>>] \in {sk[<<"VM", h>>], FreeSocket}
    BY <1>1, <1>2, <1>7, CloseFrees DEF CloseAndReturn
  <2> QED BY <1>3, <2>1 DEF HelperMoves
<1>8. ASSUME NEW call, NEW g, NEW from, NEW to \in {"bound", "listening"}, NEW ok \in BOOLEAN,
             SocketCall(call, tgt[t], g, from, to, ok)
      PROVE  \A h \in Handles : HelperMoves(h)
  BY <1>1, <1>2, <1>8 DEF SocketCall, NetTypeOK, SocketRecord, HelperMoves
<1>9. CASE InitBind(t)
  <2>1. CASE OS_Socket_bind(tgt[t], ctx[tgt[t]].handle, TRUE)
    BY <1>8, <2>1 DEF OS_Socket_bind
  <2> QED BY <1>7, <1>9, <2>1 DEF InitBind
<1>10. CASE InitListen(t)
  <2>1. CASE OS_Socket_listen(tgt[t], ctx[tgt[t]].handle, TRUE)
    BY <1>8, <2>1 DEF OS_Socket_listen
  <2> QED BY <1>7, <1>10, <2>1 DEF InitListen
<1>11. CASE tgt[t] = "VM" /\ InitConnect(t)
  <2>1. t = "MAIN" => pc[t] # "connect"
    BY DEF Served
  <2>2. t = "VM" => tgt[t] # "VM"
    BY <1>11 DEF Served, InitConnect, InitLabels
  <2> QED BY <1>11, <2>1, <2>2 DEF InitConnect
<1> QED BY <1>1, <1>4, <1>5, <1>6, <1>9, <1>10, <1>11 DEF InitStep

\* The helper starts the server before there are any events, and closes only
\* its socket, for which no event that ends a connection is raised.
LEMMA InitialiseOrderly ==
    ASSUME TypeOK, Served, Orderly, NEW t \in {"VM", "MAIN"}, Initialise(t)
    PROVE  Orderly'
<1>1. /\ t \in Threads /\ "MAIN" \in Threads /\ "VM" \in Threads /\ "VM" \in Stacks
      /\ tgt[t] \in Stacks /\ InitStep(t) /\ UNCHANGED <<tgt, batch, cur>>
      /\ NetTypeOK /\ HelperTypeOK(Labels)
  BY DEF Threads, Stacks, TypeOK, HelperTypeOK, Initialise, InitStep, loopVars,
         wait_for_nw_stack_init_nb, InitCreate, InitRegCallback, InitBind, InitListen, InitConnect
<1>2. /\ \A u \in Threads : u # t => pc'[u] = pc[u]
      /\ pc'[t] # "close"
      /\ pc[t] \in {"nw_wait", "create", "reg", "bind", "listen", "connect"}
      /\ pc[t] = "connect" => pc'[t] \in {"init_ok", "init_err"}
  BY <1>1 DEF HelperTypeOK, Goto, InitStep, wait_for_nw_stack_init_nb, InitCreate,
         InitRegCallback, InitBind, InitListen, InitConnect, CloseAndReturn
<1>3. pc'["VM"] = "close" => pc["VM"] = "close"
  BY <1>1, <1>2
<1>4. pc'["VM"] = "close" => cur'["VM"] \notin batch'["VM"].todo
  BY <1>1, <1>3 DEF Orderly
<1>5. Unset' \/ SettingUp' => Unset \/ SettingUp
  <2>1. pc'["MAIN"] \in {"nw_wait", "create", "reg", "bind", "listen"} =>
           pc["MAIN"] \in {"nw_wait", "create", "reg", "bind", "listen"}
    BY <1>1, <1>2
  <2> QED BY <1>1, <2>1 DEF Unset, SettingUp
<1>6. CASE tgt[t] # "VM"
  BY <1>1, <1>3, <1>5, <1>6, InitStepElsewhere, OrderlyElsewhere
<1>7. CASE tgt[t] = "VM"
  <2>1. t = "MAIN" /\ pc["MAIN"] # "connect"
    BY <1>1, <1>2, <1>7 DEF Served, InitLabels
  <2>2. Unset \/ SettingUp
    BY <1>1, <1>7, <2>1 DEF Unset, SettingUp, InitStep, wait_for_nw_stack_init_nb, InitCreate,
         InitRegCallback, InitBind, InitListen, InitConnect
  <2>3. \A h \in Handles : EventsOf(h) = {} /\ ~Connection(h)
    BY <2>2 DEF Orderly
  <2>4. \A h \in Handles : HelperMoves(h)
    BY InitialiseSockets
  <2>5. \A h \in Handles : EventsOf(h)' = {} /\ ~Connection(h)'
    BY <1>1, <2>3, <2>4 DEF HelperMoves, EventsOf, Connection
  <2>6. \A h \in Handles : ~Ends(h)'
    BY <2>5 DEF Ends, EventsOf
  <2> QED BY <1>4, <2>5, <2>6 DEF Orderly
<1> QED BY <1>6, <1>7

\* With one connection, the client is the socket whose end is handled.
LEMMA ClosesOwn ==
    ASSUME TypeOK, ServerOK, Orderly, OneConnection, pc["VM"] = "close",
           InUse("VM", SocketToClose)
    PROVE  SocketToClose = cur["VM"]
<1>1. /\ SocketToClose = ctx["VM"].client
      /\ ctx["VM"].client \in Handles /\ ctx["VM"].client # ctx["VM"].handle
  BY ClosesAClient DEF ServerOK, InUse
<1>2. Connection(ctx["VM"].client)
  BY <1>1 DEF ServerOK, RoleOK, InUse, Connection
<1>3. cur["VM"] \in Handles /\ batch["VM"].mask[cur["VM"]] \cap DownEvents # {}
  BY DEF ServerOK, Mask
<1>4. InUse("VM", cur["VM"])
  BY <1>3 DEF Orderly, Ends, Ahead
<1>5. cur["VM"] # ctx["VM"].handle
  BY <1>3 DEF ServerOK, RoleOK, EventsOf
<1>6. Connection(cur["VM"])
  BY <1>3, <1>4, <1>5 DEF ServerOK, RoleOK, InUse, Connection
<1> QED BY <1>1, <1>2, <1>3, <1>6 DEF OneConnection

\* The VM callback: the client it closes is the one whose end it handles, and
\* no entry of the batch is left for it.
LEMMA VMOrderly ==
    ASSUME TypeOK, Served, Orderly, OneConnection, VMCallback
    PROVE  Orderly'
<1>1. /\ "VM" \in Stacks /\ "VM" \in Threads /\ "MAIN" \in Threads /\ NetTypeOK /\ ServerOK
  BY DEF Stacks, Threads, TypeOK, Served
<1>2. \/ pc' = pc
      \/ \E label \in {"handle", "reset", "write", "filter", "idle", "nw_wait"} : Goto("VM", label)
  BY DEF VMCallback, VM_Close, VM_Accept, VM_AcceptFailed, VM_InitDone, VM_InitFailed,
         VM_Read, VM_Filter, VM_Filtered, VM_Write, VM_Ignore
<1>3. /\ pc'["MAIN"] = pc["MAIN"]
      /\ pc["VM"] # "close" => pc'["VM"] # "close"
      /\ tgt'["MAIN"] = tgt["MAIN"]
  <2>1. tgt'["MAIN"] = tgt["MAIN"]
    BY <1>1 DEF VMCallback, VM_Close, VM_Accept, VM_AcceptFailed, VM_InitDone, VM_InitFailed,
         VM_Read, VM_Filter, VM_Filtered, VM_Write, VM_Ignore, TypeOK, HelperTypeOK
  <2> QED BY <1>1, <1>2, <2>1 DEF Goto, TypeOK, HelperTypeOK
<1>4. Unset' = Unset /\ SettingUp' = SettingUp
  BY <1>3 DEF Unset, SettingUp
<1>5. pc'["VM"] # "close"
  <2>1. CASE VM_Close
    BY <1>1, <2>1 DEF VM_Close, Goto, TypeOK, HelperTypeOK
  <2>2. CASE ~VM_Close
    <3>1. pc["VM"] # "close"
      BY <2>2 DEF VMCallback, VM_Accept, VM_AcceptFailed, VM_InitDone, VM_InitFailed,
         VM_Read, VM_Filter, VM_Filtered, VM_Write, VM_Ignore
    <3> QED BY <1>3, <3>1
  <2> QED BY <2>1, <2>2
\* Steps that leave the batch as it is, and free a socket at most once it has
\* no end ahead.
<1>6. ASSUME UNCHANGED batch,
             \A h \in Handles : \/ sk'[<<"VM", h>>] = sk[<<"VM", h>>]
                                \/ ~Unset /\ ~SettingUp /\ sk'[<<"VM", h>>].st # "free"
                                \/ sk'[<<"VM", h>>] = FreeSocket /\ ~Ends(h)'
      PROVE  Orderly'
  <2>1. \A h \in Handles : Ends(h)' => InUse("VM", h)'
    <3> SUFFICES ASSUME NEW h \in Handles, Ends(h)' PROVE sk'[<<"VM", h>>].st # "free"
      BY DEF InUse
    <3>1. CASE sk'[<<"VM", h>>] = sk[<<"VM", h>>]
      <4>1. Ends(h)
        BY <1>5, <1>6, <3>1 DEF Ends, Ahead
      <4> QED BY <3>1, <4>1 DEF Orderly, InUse
    <3> QED BY <1>6, <3>1
  <2>2. Unset \/ SettingUp => \A h \in Handles : EventsOf(h)' = {} /\ ~Connection(h)'
    <3> SUFFICES ASSUME Unset \/ SettingUp, NEW h \in Handles
                 PROVE  EventsOf(h)' = {} /\ ~Connection(h)'
      OBVIOUS
    <3>1. EventsOf(h) = {} /\ ~Connection(h)
      BY DEF Orderly
    <3>2. FreeSocket.st = "free" /\ FreeSocket.ev = {}
      BY DEF FreeSocket
    <3> QED BY <1>6, <3>1, <3>2 DEF EventsOf, Connection
  <2> QED BY <1>4, <1>5, <2>1, <2>2 DEF Orderly
<1>7. CASE VM_Close
  <2>1. PICK ok \in BOOLEAN : OS_Socket_close("VM", SocketToClose, ok)
    BY <1>7 DEF VM_Close
  <2>2. pc["VM"] = "close" /\ UNCHANGED batch
    BY <1>7 DEF VM_Close, loopVars
  <2>3. \A h \in Handles : \/ sk'[<<"VM", h>>] = sk[<<"VM", h>>]
                           \/ h = SocketToClose /\ sk'[<<"VM", h>>] = FreeSocket
    BY <1>1, <2>1, CloseFrees DEF Sockets
  <2>4. ASSUME NEW h \in Handles, h = SocketToClose, sk'[<<"VM", h>>] = FreeSocket
        PROVE  sk'[<<"VM", h>>] = sk[<<"VM", h>>] \/ ~Ends(h)'
    <3>1. CASE ~InUse("VM", h)
      <4>1. sk' = sk
        BY <2>1, <2>4, <3>1 DEF OS_Socket_close
      <4> QED BY <4>1
    <3>2. CASE InUse("VM", h)
      <4>1. h = cur["VM"]
        BY <1>1, <2>2, <2>4, <3>2, ClosesOwn
      <4>2. h \notin batch'["VM"].todo
        BY <2>2, <4>1 DEF Orderly
      <4>3. ~Ahead(h)'
        BY <1>5, <4>2 DEF Ahead
      <4> QED BY <2>4, <4>3 DEF Ends, FreeSocket
    <3> QED BY <3>1, <3>2
  <2> QED BY <1>6, <2>2, <2>3, <2>4
<1>8. CASE VM_Accept
  <2>1. PICK h \in Handles : OS_Socket_accept("VM", ctx["VM"].handle, h)
    BY <1>8 DEF VM_Accept
  <2> DEFINE l == ctx["VM"].handle
  <2>2. /\ l \in Handles /\ sk[<<"VM", l>>].st = "listening"
        /\ sk'[<<"VM", h>>] = Fresh("open") /\ sk'[<<"VM", l>>].st = "listening"
        /\ \A g \in Handles : g # l /\ g # h => sk'[<<"VM", g>>] = sk[<<"VM", g>>]
    BY <1>1, <2>1, AcceptOpens
  <2>3. ~Unset /\ ~SettingUp
    BY <1>1, <2>2 DEF ServerOK
  <2>4. sk'[<<"VM", h>>].st # "free"
    BY <2>2 DEF Fresh, FreeSocket
  <2>5. \A g \in Handles : sk'[<<"VM", g>>] = sk[<<"VM", g>>] \/ sk'[<<"VM", g>>].st # "free"
    BY <2>2, <2>4
  <2> QED BY <1>6, <1>8, <2>3, <2>5 DEF VM_Accept, loopVars
<1>9. CASE VM_AcceptFailed
  <2>1. UNCHANGED <<batch, ctx>>
    BY <1>9 DEF VM_AcceptFailed, loopVars
  <2>2. CASE UNCHANGED netVars
    BY <1>6, <2>1, <2>2 DEF netVars
  <2>3. ASSUME NEW ok \in BOOLEAN, OS_Socket_close("VM", SocketToClose, ok)
        PROVE  Orderly'
    <3>1. SocketToClose = ctx["VM"].handle
      BY <1>1, <1>9, FailedAcceptCloses DEF VM_AcceptFailed
    <3>2. \A h \in Handles : \/ sk'[<<"VM", h>>] = sk[<<"VM", h>>]
                             \/ h = ctx["VM"].handle /\ sk'[<<"VM", h>>] = FreeSocket
      BY <1>1, <2>3, <3>1, CloseFrees DEF Sockets
    <3>3. ASSUME NEW h \in Handles, h = ctx["VM"].handle, sk'[<<"VM", h>>] = FreeSocket
          PROVE  ~Ends(h)'
      <4>1. EventsOf(h) \cap DownEvents = {}
        BY <1>1, <3>3 DEF ServerOK, RoleOK
      <4>2. sk'[<<"VM", h>>].ev = {}
        BY <3>3 DEF FreeSocket
      <4> QED BY <2>1, <4>1, <4>2 DEF Ends, EventsOf
    <3> QED BY <1>6, <2>1, <3>2, <3>3
  <2> QED BY <1>9, <2>2, <2>3 DEF VM_AcceptFailed
<1>10. CASE VM_InitFailed
  <2>1. batch'["VM"] = NoBatch /\ UNCHANGED sk
    BY <1>1, <1>10 DEF VM_InitFailed, netVars, TypeOK, LoopTypeOK
  <2>2. \A h \in Handles : NoBatch.mask[h] = {}
    BY DEF NoBatch
  <2>3. \A h \in Handles : (Ends(h)' => Ends(h)) /\ EventsOf(h)' \subseteq EventsOf(h)
    BY <2>1, <2>2 DEF Ends, EventsOf
  <2> QED BY <1>4, <1>5, <2>1, <2>3, OrderlyKept DEF Connection
<1>11. CASE VM_Read
  <2>1. UNCHANGED batch
    BY <1>11 DEF VM_Read, loopVars
  <2>2. CASE OS_Socket_read("VM", ctx["VM"].client)
    <3> DEFINE c == ctx["VM"].client
    <3>1. c \in Handles /\ sk[<<"VM", c>>].st \in {"open", "down"}
      BY <2>2 DEF OS_Socket_read, Readable
    <3>2. \A h \in Handles : h # c => sk'[<<"VM", h>>] = sk[<<"VM", h>>]
      BY <1>1, <2>2, <3>1 DEF OS_Socket_read, NetTypeOK, Sockets
    <3>3. sk'[<<"VM", c>>].st = sk[<<"VM", c>>].st
      BY <1>1, <2>2, <3>1 DEF OS_Socket_read, NetTypeOK, Sockets, SocketRecord
    <3>4. ~Unset /\ ~SettingUp
      BY <3>1 DEF Orderly, Connection
    <3>5. \A h \in Handles : sk'[<<"VM", h>>] = sk[<<"VM", h>>] \/ sk'[<<"VM", h>>].st # "free"
      BY <3>1, <3>2, <3>3
    <3> QED BY <1>6, <2>1, <3>4, <3>5
  <2>3. CASE UNCHANGED netVars
    BY <1>6, <2>1, <2>3 DEF netVars
  <2> QED BY <1>11, <2>2, <2>3 DEF VM_Read
<1>12. CASE VM_InitDone \/ VM_Filter \/ VM_Filtered \/ VM_Write \/ VM_Ignore
  <2>1. UNCHANGED <<sk, batch>>
    BY <1>12 DEF VM_InitDone, VM_Filter, VM_Filtered, VM_Write, VM_Ignore, OS_Socket_write,
         netVars, loopVars
  <2> QED BY <1>6, <2>1
<1> QED BY <1>7, <1>8, <1>9, <1>10, <1>11, <1>12 DEF VMCallback

\* While there is one connection at a time, the invariant is inductive.
LEMMA OrderlyStep ==
    ASSUME TypeOK, Served, Orderly, OneConnection, [Next]_vars
    PROVE  Orderly'
<1>1. "VM" \in Stacks /\ "VM" \in Threads /\ "PX4" \in Threads /\ "MAIN" \in Threads
      /\ NetTypeOK /\ ServerOK
  BY DEF Stacks, Threads, TypeOK, Served
<1>2. CASE Loop("PX4")
  <2>1. batch'["VM"] = batch["VM"] /\ cur'["VM"] = cur["VM"] /\ UNCHANGED tgt
    BY <1>1, <1>2 DEF Loop, LoopStep, Dispatch, Fetch, Lock, Take, Reset, Rearm, loopVars, TypeOK,
         LoopTypeOK
  <2>2. pc'["VM"] = pc["VM"] /\ pc'["MAIN"] = pc["MAIN"]
    BY <1>1, <1>2 DEF Loop, LoopStep, Dispatch, Fetch, Lock, Take, Reset, Rearm, Goto, TypeOK,
         HelperTypeOK
  <2>3. \A h \in Handles : sk'[<<"VM", h>>] = sk[<<"VM", h>>]
    BY <1>1, <1>2 DEF Loop, LoopStep, Dispatch, Fetch, Lock, Reset, Rearm, OS_Socket_getPendingEvents,
         OS_Socket_regCallback, netVars, NetTypeOK, Sockets
  <2> QED BY <2>1, <2>2, <2>3, OrderlyElsewhere DEF Unset, SettingUp
<1>3. CASE PX4Callback
  <2>1. UNCHANGED <<tgt, loopVars>> /\ \E label : Goto("PX4", label)
    BY <1>3 DEF PX4Callback, PX4_Close, PX4_ConnEst, PX4_Read, PX4_Write, PX4_Ignore
  <2>2. pc'["VM"] = pc["VM"] /\ pc'["MAIN"] = pc["MAIN"]
    BY <1>1, <2>1 DEF Goto, TypeOK, HelperTypeOK
  <2>3. \A h \in Handles : sk'[<<"VM", h>>] = sk[<<"VM", h>>]
    BY <1>3, PX4LeavesVM
  <2> QED BY <2>1, <2>2, <2>3, OrderlyElsewhere DEF Unset, SettingUp, loopVars
<1>4. CASE UNCHANGED vars
  BY <1>4, OrderlyElsewhere DEF vars, netVars, loopVars, Unset, SettingUp
<1>5. ASSUME NEW t \in {"VM", "MAIN"}, Initialise(t) PROVE Orderly'
  BY <1>5, InitialiseOrderly
<1>6. CASE Outside((\E s \in Stacks : StackBoot(s)) \/ PeerStep)
  BY <1>1, <1>6, EnvironmentOrderly
<1>7. \A t \in Stacks : Loop(t) => Loop("VM") \/ Loop("PX4")
  BY DEF Stacks
<1> QED BY <1>2, <1>3, <1>4, <1>5, <1>6, <1>7, NextCases, LoopOrderly, VMOrderly

\* MAIN has nothing left to do for the server.
SetUp == ~Unset /\ ~SettingUp

\* Once the server is set up, a step at label "close" frees at most the socket
\* that the callback closes.
LEMMA OnlyCloseFrees ==
    ASSUME TypeOK, Served, SetUp, pc["VM"] = "close", [Next]_vars,
           NEW h \in Handles, InUse("VM", h), ~InUse("VM", h)'
    PROVE  h = SocketToClose
<1>1. "VM" \in Stacks /\ NetTypeOK /\ ServerOK
  BY DEF Stacks, TypeOK, Served
<1>2. sk[<<"VM", h>>].st # "free" /\ sk'[<<"VM", h>>].st = "free"
  BY DEF InUse
<1>3. CASE VM_Close
  <2>1. PICK ok \in BOOLEAN : OS_Socket_close("VM", SocketToClose, ok)
    BY <1>3 DEF VM_Close
  <2> QED BY <1>1, <1>2, <2>1, CloseFrees DEF Sockets
<1>4. VMCallback => VM_Close
  BY DEF VMCallback, VM_Accept, VM_AcceptFailed, VM_InitDone, VM_InitFailed,
         VM_Read, VM_Filter, VM_Filtered, VM_Write, VM_Ignore
<1>5. ASSUME NEW t \in Stacks, Loop(t) PROVE FALSE
  <2>1. \A g \in Handles : sk'[<<"VM", g>>].st = sk[<<"VM", g>>].st
    BY <1>1, <1>5 DEF Loop, LoopStep, Dispatch, Fetch, Lock, Reset, Rearm, OS_Socket_getPendingEvents,
         OS_Socket_regCallback, netVars, NetTypeOK, SocketRecord, Sockets
  <2> QED BY <1>2, <2>1
<1>6. ASSUME NEW t \in {"VM", "MAIN"}, Initialise(t) PROVE FALSE
  <2>1. t \in Threads /\ InitStep(t) /\ tgt[t] \in Stacks /\ HelperTypeOK(Labels)
    BY <1>6 DEF Initialise, Threads, Stacks, TypeOK, HelperTypeOK
  <2>2. CASE tgt[t] # "VM"
    BY <1>1, <1>2, <2>1, <2>2, InitStepElsewhere
  <2>3. CASE tgt[t] = "VM"
    <3>1. t = "MAIN" /\ pc["MAIN"] \in {"nw_wait", "create", "reg", "bind", "listen"}
      BY <2>1, <2>3 DEF Served, InitStep, wait_for_nw_stack_init_nb, InitCreate,
         InitRegCallback, InitBind, InitListen, InitConnect, InitLabels
    <3> QED BY <2>3, <3>1 DEF SetUp, Unset, SettingUp
  <2> QED BY <2>2, <2>3
<1>7. CASE PX4Callback
  BY <1>2, <1>7, PX4LeavesVM
<1>8. CASE Outside((\E s \in Stacks : StackBoot(s)) \/ PeerStep)
  <2>1. CASE \E s \in Stacks : StackBoot(s)
    BY <1>2, <2>1 DEF StackBoot
  <2>2. CASE PeerStep
    <3>1. PICK s \in Stacks, g \in Handles, r \in SocketRecord :
             /\ Becomes(s, g, r)
             /\ r.st = sk[<<s, g>>].st \/ r.st \in {"listening", "open", "down"}
      BY <1>1, <2>2, PeerMoves
    <3> QED BY <1>1, <1>2, <3>1 DEF Becomes, Sockets
  <2> QED BY <1>8, <2>1, <2>2 DEF Outside
<1>9. CASE UNCHANGED vars
  BY <1>2, <1>9 DEF vars, netVars
<1> QED BY <1>3, <1>4, <1>5, <1>6, <1>7, <1>8, <1>9, NextCases

\* A step at label "close" of the VM callback frees the socket of the event it
\* handles and no other one.
OwnSocketOnly ==
    \A h \in Handles : pc["VM"] = "close" /\ InUse("VM", h) /\ ~InUse("VM", h)' => h = cur["VM"]

LEMMA ClosingStep ==
    ASSUME TypeOK, Served, Orderly, OneConnection, [Next]_vars
    PROVE  OwnSocketOnly
<1> SUFFICES ASSUME NEW h \in Handles, pc["VM"] = "close", InUse("VM", h), ~InUse("VM", h)'
             PROVE  h = cur["VM"]
  BY DEF OwnSocketOnly
<1>1. ServerOK
  BY DEF Served
<1>2. cur["VM"] \in Handles /\ EventsOf(cur["VM"]) # {}
  BY <1>1 DEF ServerOK, Mask, EventsOf
<1>3. SetUp
  BY <1>2 DEF Orderly, SetUp
<1>4. h = SocketToClose
  BY <1>3, OnlyCloseFrees
<1> QED BY <1>1, <1>4, ClosesOwn

\* At first no event has come and no socket is in use.
LEMMA InitOrderly == Init => Orderly
<1> SUFFICES ASSUME Init PROVE Orderly
  OBVIOUS
<1>1. \A h \in Handles : sk[<<"VM", h>>].st = "free" /\ EventsOf(h) = {}
  BY DEF Init, NetInit, LoopInit, EventsOf, FreeSocket, NoBatch, Sockets, Stacks
<1>2. pc["VM"] = "idle"
  BY DEF Init, Threads, Stacks
<1> QED BY <1>1, <1>2 DEF Orderly, Ends, EventsOf, Connection

-----------------------------------------------------------------------------
(* When a second connection comes, the first one is never closed.          *)

\* A connection whose handle the callback has lost.
Leftover == SetUp /\ \E h \in Handles : Connection(h) /\ h # ctx["VM"].client

\* MAIN sets up the server once.
LEMMA SetUpStays ==
    ASSUME TypeOK, Served, SetUp, [Next]_vars
    PROVE  SetUp'
<1>1. "MAIN" \in Threads /\ "MAIN" \notin Stacks /\ Stacks \subseteq Threads
  BY DEF Threads, Stacks
<1>2. tgt["MAIN"] = "VM" /\ pc["MAIN"] \notin {"nw_wait", "create", "reg", "bind", "listen"}
  BY DEF Served, SetUp, Unset, SettingUp
<1>3. pc'["MAIN"] = pc["MAIN"] \/ pc'["MAIN"] \in {"init_ok", "init_err"}
  <2>1. ASSUME NEW t \in Stacks, Loop(t)  PROVE pc'["MAIN"] = pc["MAIN"]
    BY <1>1, <2>1 DEF Loop, LoopStep, Dispatch, Fetch, Lock, Take, Reset, Rearm, Goto, TypeOK,
       HelperTypeOK
  <2>2. ASSUME NEW t \in {"VM", "MAIN"}, Initialise(t)
        PROVE  pc'["MAIN"] = pc["MAIN"] \/ pc'["MAIN"] \in {"init_ok", "init_err"}
    BY <1>1, <1>2, <2>2 DEF Initialise, InitStep, wait_for_nw_stack_init_nb, InitCreate,
       InitRegCallback, InitBind, InitListen, InitConnect, CloseAndReturn, Goto, TypeOK,
       HelperTypeOK
  <2>3. PX4Callback => pc'["MAIN"] = pc["MAIN"]
    BY PX4ServerStep DEF Served
  <2>4. VMCallback => pc'["MAIN"] = pc["MAIN"]
    BY <1>1 DEF VMCallback, VM_Close, VM_Accept, VM_AcceptFailed, VM_InitDone, VM_InitFailed,
       VM_Read, VM_Filter, VM_Filtered, VM_Write, VM_Ignore, Goto, TypeOK, HelperTypeOK, Stacks
  <2> QED BY <2>1, <2>2, <2>3, <2>4, NextCases DEF Outside, vars
<1> QED BY <1>2, <1>3 DEF SetUp, Unset, SettingUp

\* The helper touches the server's socket and free ones.
LEMMA InitialiseLeaves ==
    ASSUME TypeOK, Served, NEW t \in {"VM", "MAIN"}, Initialise(t),
           NEW h \in Handles, Connection(h)
    PROVE  sk'[<<"VM", h>>] = sk[<<"VM", h>>] /\ ctx'["VM"].client = ctx["VM"].client
<1>1. /\ t \in Threads /\ "VM" \in Stacks /\ tgt[t] \in Stacks /\ InitStep(t)
      /\ NetTypeOK /\ HelperTypeOK(Labels) /\ ServerOK
  BY DEF Threads, Stacks, TypeOK, HelperTypeOK, Initialise, Served
<1>2. /\ <<"VM", h>> \in Sockets /\ h # ctx["VM"].handle
      /\ sk[<<"VM", h>>].st \in {"open", "down"}
  BY <1>1 DEF Sockets, ServerOK, RoleOK, Connection
<1>3. ctx'["VM"].client = ctx["VM"].client
  <2>1. CASE UNCHANGED ctx
    BY <2>1
  <2>2. CASE InitCreate(t)
    <3>1. ctx["VM"] \in SocketContext /\ (UNCHANGED ctx \/ \E g \in Handles : ctx' = [ctx EXCEPT ![tgt[t]].handle = g])
      BY <1>1, <2>2 DEF InitCreate, HelperTypeOK
    <3> QED BY <1>1, <3>1 DEF HelperTypeOK, SocketContext
  <2> QED BY <1>1, <2>1, <2>2 DEF InitStep, wait_for_nw_stack_init_nb, InitRegCallback, InitBind,
         InitListen, InitConnect
<1>4. CASE tgt[t] # "VM"
  BY <1>1, <1>3, <1>4, InitStepElsewhere
<1>5. ASSUME tgt[t] = "VM", CloseAndReturn(t)
      PROVE  sk'[<<"VM", h>>] = sk[<<"VM", h>>]
  BY <1>1, <1>2, <1>5, CloseFrees DEF CloseAndReturn
<1>6. ASSUME tgt[t] = "VM",
             OS_Socket_bind("VM", ctx["VM"].handle, TRUE) \/ OS_Socket_listen("VM", ctx["VM"].handle, TRUE)
      PROVE  sk'[<<"VM", h>>] = sk[<<"VM", h>>]
  BY <1>1, <1>2, <1>6 DEF OS_Socket_bind, OS_Socket_listen, SocketCall, NetTypeOK
<1>7. CASE tgt[t] = "VM" /\ InitCreate(t)
  <2>1. ASSUME NEW g, OS_Socket_create("VM", g, TRUE)
        PROVE  sk'[<<"VM", h>>] = sk[<<"VM", h>>]
    BY <1>1, <1>2, <2>1 DEF OS_Socket_create, FreeHandles, NetTypeOK
  <2>2. OS_Socket_create("VM", NoHandle, FALSE) => UNCHANGED sk
    BY DEF OS_Socket_create
  <2> QED BY <1>3, <1>7, <2>1, <2>2 DEF InitCreate
<1>8. CASE tgt[t] = "VM" /\ (InitBind(t) \/ InitListen(t))
  BY <1>3, <1>5, <1>6, <1>8 DEF InitBind, InitListen
<1>9. CASE wait_for_nw_stack_init_nb(t) \/ InitRegCallback(t)
  BY <1>3, <1>9 DEF wait_for_nw_stack_init_nb, InitRegCallback, OS_Socket_regCallback, netVars
<1>10. ~(tgt[t] = "VM" /\ InitConnect(t))
  BY DEF Served, InitConnect, InitLabels
<1> QED BY <1>1, <1>4, <1>7, <1>8, <1>9, <1>10 DEF InitStep

\* An accept takes a free socket and leaves the others as they are.
LEMMA AcceptLeaves ==
    ASSUME NetTypeOK, NEW l, NEW g, OS_Socket_accept("VM", l, g)
    PROVE  /\ sk[<<"VM", g>>].st = "free"
           /\ \A h \in Handles : h # l /\ h # g => sk'[<<"VM", h>>] = sk[<<"VM", h>>]
<1>1. "VM" \in Stacks
  BY DEF Stacks
<1>2. /\ l \in Handles /\ sk[<<"VM", g>>].st = "free"
      /\ sk'[<<"VM", g>>] = Fresh("open") /\ sk'[<<"VM", l>>].st = "listening"
      /\ \A h \in Handles : h # l /\ h # g => sk'[<<"VM", h>>] = sk[<<"VM", h>>]
  BY <1>1, AcceptOpens
<1> QED BY <1>2

\* Once lost, a connection stays lost: the callback closes the client it knows,
\* or after a failed accept the server's socket.
LEMMA LeftoverStays ==
    ASSUME TypeOK, Served, NEW h \in Handles, Connection(h), h # ctx["VM"].client, [Next]_vars
    PROVE  Connection(h)' /\ h # ctx'["VM"].client
<1>1. "VM" \in Stacks /\ "PX4" \in Stacks /\ NetTypeOK /\ ServerOK
  BY DEF Stacks, TypeOK, Served
<1>2. /\ <<"VM", h>> \in Sockets /\ h # ctx["VM"].handle /\ sk[<<"VM", h>>] \in SocketRecord
      /\ sk[<<"VM", h>>].st \in {"open", "down"}
  BY <1>1 DEF Sockets, NetTypeOK, ServerOK, RoleOK, Connection
<1>3. ASSUME NEW t \in Stacks, Loop(t)  PROVE Connection(h)' /\ h # ctx'["VM"].client
  <2>1. UNCHANGED ctx
    BY <1>3 DEF Loop, LoopStep, Dispatch, Fetch, Lock, Take, Reset, Rearm
  <2>2. CASE OS_Socket_getPendingEvents(t)
    BY <1>2, <2>1, <2>2 DEF OS_Socket_getPendingEvents, SocketRecord, Connection
  <2>3. CASE UNCHANGED sk
    BY <2>1, <2>3 DEF Connection
  <2> QED BY <1>3, <2>2, <2>3 DEF Loop, LoopStep, Dispatch, Fetch, Lock, Reset, Rearm,
         OS_Socket_regCallback, netVars
<1>4. ASSUME NEW t \in {"VM", "MAIN"}, Initialise(t)
      PROVE  Connection(h)' /\ h # ctx'["VM"].client
  BY <1>4, InitialiseLeaves DEF Connection
<1>5. CASE PX4Callback
  <2>1. ctx'["VM"] = ctx["VM"]
    BY <1>5 DEF PX4Callback, PX4_Close, PX4_ConnEst, PX4_Read, PX4_Write, PX4_Ignore, TypeOK,
           HelperTypeOK, Stacks
  <2> QED BY <1>5, <2>1, PX4LeavesVM DEF Connection
<1>6. CASE VM_Accept
  <2>1. PICK n \in Handles : /\ OS_Socket_accept("VM", ctx["VM"].handle, n)
                             /\ ctx' = [ctx EXCEPT !["VM"].client = n, !["VM"].conn = TRUE]
    BY <1>6 DEF VM_Accept
  <2>2. /\ sk[<<"VM", n>>].st = "free"
        /\ h # n => sk'[<<"VM", h>>] = sk[<<"VM", h>>]
    BY <1>1, <1>2, <2>1, AcceptLeaves
  <2>3. ctx'["VM"].client = n
    BY <1>1, <2>1 DEF TypeOK, HelperTypeOK
  <2> QED BY <1>2, <2>2, <2>3 DEF Connection
<1>7. CASE VMCallback /\ ~VM_Accept
  <2>1. ctx'["VM"].client = ctx["VM"].client
    BY <1>1, <1>7 DEF VMCallback, VM_Close, VM_AcceptFailed, VM_InitDone, VM_InitFailed, VM_Read,
       VM_Filter, VM_Filtered, VM_Write, VM_Ignore, TypeOK, HelperTypeOK, SocketContext
  <2>2. ASSUME NEW g, NEW ok \in BOOLEAN, OS_Socket_close("VM", g, ok), g # h
        PROVE  Connection(h)'
    BY <1>1, <1>2, <2>2, CloseFrees DEF Connection
  <2>3. VM_Close => SocketToClose # h
    BY <1>1, ClosesAClient DEF VM_Close
  <2>4. VM_AcceptFailed => SocketToClose # h
    BY <1>1, <1>2, FailedAcceptCloses DEF VM_AcceptFailed
  <2>5. CASE VM_Close
    BY <2>2, <2>3, <2>5, <2>1 DEF VM_Close
  <2>6. CASE VM_AcceptFailed
    BY <2>1, <2>2, <2>4, <2>6 DEF VM_AcceptFailed, netVars, Connection
  <2>7. ASSUME OS_Socket_read("VM", ctx["VM"].client)
        PROVE  Connection(h)'
    BY <1>1, <1>2, <2>7 DEF OS_Socket_read, NetTypeOK, Connection
  <2>8. CASE UNCHANGED sk
    BY <2>1, <2>8 DEF Connection
  <2> QED BY <1>7, <2>1, <2>5, <2>6, <2>7, <2>8 DEF VMCallback, VM_InitDone, VM_InitFailed,
         VM_Read, VM_Filter, VM_Filtered, VM_Write, VM_Ignore, OS_Socket_write, netVars
<1>8. CASE Outside((\E s \in Stacks : StackBoot(s)) \/ PeerStep)
  <2>1. UNCHANGED ctx
    BY <1>8 DEF Outside
  <2>2. CASE \E s \in Stacks : StackBoot(s)
    BY <2>1, <2>2 DEF StackBoot, Connection
  <2>3. CASE PeerStep
    <3>1. PICK s \in Stacks, g \in Handles, r \in SocketRecord :
             /\ Becomes(s, g, r)
             /\ \/ r.st = sk[<<s, g>>].st
                \/ sk[<<s, g>>].st = "listening"
                \/ r.st \in {"open", "down"}
      BY <1>1, <2>3, PeerMoves
    <3> QED BY <1>1, <1>2, <2>1, <3>1 DEF Becomes, Sockets, Connection
  <2> QED BY <1>8, <2>2, <2>3 DEF Outside
<1>9. CASE UNCHANGED vars
  BY <1>9 DEF vars, netVars, Connection
<1> QED BY <1>3, <1>4, <1>5, <1>6, <1>7, <1>8, <1>9, NextCases

\* The inductive invariant: a connection is lost for good, or a socket whose
\* end is to be handled is still in use.  In either case a step closes its own
\* socket if the stack knows a single connection: one that is lost is not the
\* one that is closed.
LEMMA OwnConnectionStep ==
    ASSUME TypeOK, Served, Leftover \/ Orderly, [Next]_vars
    PROVE  /\ (Leftover \/ Orderly)'
           /\ OneConnection => OwnSocketOnly
<1>0. NetTypeOK /\ ServerOK
  BY DEF TypeOK, Served
<1>1. CASE Leftover
  <2>1. PICK h \in Handles : Connection(h) /\ h # ctx["VM"].client
    BY <1>1 DEF Leftover
  <2>2. Connection(h)' /\ h # ctx'["VM"].client
    BY <2>1, LeftoverStays
  <2>3. SetUp /\ SetUp'
    BY <1>1, SetUpStays DEF Leftover
  <2>4. ASSUME OneConnection, NEW g \in Handles, pc["VM"] = "close", InUse("VM", g), ~InUse("VM", g)'
        PROVE  FALSE
    <3>1. g = ctx["VM"].client
      BY <1>0, <2>3, <2>4, OnlyCloseFrees, ClosesAClient
    <3>2. Connection(g)
      BY <1>0, <2>4, <3>1 DEF ServerOK, RoleOK, InUse, Connection
    <3> QED BY <2>1, <2>4, <3>1, <3>2 DEF OneConnection
  <2> QED BY <2>2, <2>3, <2>4 DEF Leftover, OwnSocketOnly
<1>2. CASE Orderly /\ ~Leftover
  <2>1. ASSUME NEW h \in Handles, Connection(h) PROVE h = ctx["VM"].client
    <3>1. SetUp
      BY <1>2, <2>1 DEF Orderly, SetUp
    <3> QED BY <1>2, <2>1, <3>1 DEF Leftover
  <2>2. OneConnection
    BY <2>1 DEF OneConnection
  <2> QED BY <1>2, <2>2, OrderlyStep, ClosingStep
<1> QED BY <1>1, <1>2

\* Whenever the stack of the VM knows a single connection, a callback closes
\* the socket whose event it is handling, whatever calls fail, however often
\* the VM connects and however many sockets the stack has
\* (SerialFilter.c:212-225).
THEOREM ClosesOwnConnectionHolds == Spec => ClosesOwnConnection
<1>1. TypeOK /\ Served /\ (Leftover \/ Orderly) /\ [Next]_vars
         => (Leftover \/ Orderly)' /\ (OneConnection => OwnSocketOnly)
  BY OwnConnectionStep
<1>2. (OneConnection => OwnSocketOnly)
         => [\A h \in Handles : /\ pc["VM"] = "close" /\ OneConnection
                                /\ InUse("VM", h) /\ ~InUse("VM", h)'
                                => h = cur["VM"]]_vars
  BY DEF OwnSocketOnly
<1>3. Init => Leftover \/ Orderly
  BY InitOrderly
<1>4. Spec => []Served
  BY InitServed, ServedStep, TypeCorrect, PTL DEF Spec
<1> QED BY <1>1, <1>2, <1>3, <1>4, TypeCorrect, PTL DEF Spec, ClosesOwnConnection

-----------------------------------------------------------------------------
(* Responsiveness.                                                         *)

\* The inductive invariant of the notifications: MAIN starts the server of the
\* VM, the VM callback starts the client of PX4.
Attentive ==
    /\ \A s \in Stacks : AttentiveTo(s)
    /\ RegisteredBy("MAIN")
    /\ RegisteredBy("VM")

\* No handler catches a stack asleep, unless it ends the callback because the
\* client of PX4 was not initialised.
LEMMA CallbackAttentive ==
    ASSUME TypeOK, NEW t \in Stacks, NEW s \in Stacks, AttentiveTo(s),
           (t = "PX4" /\ PX4Callback) \/ (t = "VM" /\ VMCallback /\ ~VM_InitFailed)
    PROVE  AttentiveTo(s)' /\ (Woken(s) => Woken(s)')
<1>1. t \in Threads
  BY DEF Threads
<1>2. CASE t = "PX4" /\ PX4Callback
  <2>1. PICK label \in {"handle", "write", "reset"} : Goto("PX4", label)
    BY <1>2 DEF PX4Callback, PX4_Close, PX4_ConnEst, PX4_Read, PX4_Write, PX4_Ignore
  <2>2. pc["PX4"] \in {"close", "handle", "write"}
    BY <1>2 DEF PX4Callback, PX4_Close, PX4_ConnEst, PX4_Read, PX4_Write, PX4_Ignore
  <2>3. /\ pc[t] \notin {"idle", "fetch"} /\ pc'[t] # "idle"
        /\ \A u \in Stacks : u # t => pc'[u] = pc[u]
    BY <1>1, <1>2, <2>1, <2>2 DEF Goto, TypeOK, HelperTypeOK, Threads
  <2>4. \/ \E g : \E ok \in BOOLEAN : OS_Socket_close(t, g, ok)
        \/ \E g : OS_Socket_read(t, g)
        \/ UNCHANGED <<sk, armed, signal>>
    BY <1>2 DEF PX4Callback, PX4_Close, PX4_ConnEst, PX4_Read, PX4_Write, PX4_Ignore,
       OS_Socket_write, netVars
  <2>5. Raises(t)
    BY <2>4, HandlerRaises DEF TypeOK
  <2> QED BY <2>3, <2>5, HandlerAttentive
<1>3. CASE t = "VM" /\ VMCallback /\ ~VM_InitFailed
  <2>1. \/ pc' = pc
        \/ \E label \in {"handle", "nw_wait", "filter", "write", "reset"} : Goto("VM", label)
    BY <1>3 DEF VMCallback, VM_Close, VM_Accept, VM_AcceptFailed, VM_InitDone,
       VM_Read, VM_Filter, VM_Filtered, VM_Write, VM_Ignore
  <2>2. pc["VM"] \in {"close", "handle", "init_ok", "filter", "write"}
    BY <1>3 DEF VMCallback, VM_Close, VM_Accept, VM_AcceptFailed, VM_InitDone,
       VM_Read, VM_Filter, VM_Filtered, VM_Write, VM_Ignore
  <2>3. /\ pc[t] \notin {"idle", "fetch"} /\ pc'[t] # "idle"
        /\ \A u \in Stacks : u # t => pc'[u] = pc[u]
    BY <1>1, <1>3, <2>1, <2>2 DEF Goto, TypeOK, HelperTypeOK, Threads
  <2>4. \/ \E g : \E ok \in BOOLEAN : OS_Socket_close(t, g, ok)
        \/ \E l, g : OS_Socket_accept(t, l, g)
        \/ \E g : OS_Socket_read(t, g)
        \/ UNCHANGED <<sk, armed, signal>>
    BY <1>3 DEF VMCallback, VM_Close, VM_Accept, VM_AcceptFailed, VM_InitDone,
       VM_Read, VM_Filter, VM_Filtered, VM_Write, VM_Ignore, OS_Socket_write, netVars
  <2>5. Raises(t)
    BY <2>4, HandlerRaises DEF TypeOK
  <2> QED BY <2>3, <2>5, HandlerAttentive
<1> QED BY <1>2, <1>3

\* The strengthening is inductive as long as the client of PX4 is initialised.
LEMMA AttentiveStep ==
    ASSUME LoopCallsWork, TypeOK, Attentive, pc["VM"] # "init_err", [Next]_vars
    PROVE  Attentive'
<1> USE DEF Attentive, TypeOK
<1>1. /\ {"MAIN", "VM"} \subseteq Threads /\ Stacks \subseteq Threads /\ "MAIN" \notin Stacks
      /\ \A t \in Threads : tgt[t] \in Stacks
  BY DEF Threads, Stacks, HelperTypeOK
<1>2. ASSUME \A s \in Stacks : AttentiveTo(s)' /\ (Woken(s) => Woken(s)'),
             NEW t \in {"MAIN", "VM"},
             \/ pc'[t] \notin {"bind", "listen", "connect"}
             \/ pc'[t] = pc[t] /\ tgt'[t] = tgt[t]
      PROVE  RegisteredBy(t)'
  BY <1>1, <1>2 DEF RegisteredBy
<1>3. ASSUME NEW t \in Stacks, Loop(t)  PROVE Attentive'
  <2>1. PICK label \in LoopLabels : Goto(t, label)
    BY <1>3 DEF Loop, LoopStep, Dispatch, Fetch, Lock, Take, Reset, Rearm, LoopLabels
  <2>2. UNCHANGED tgt /\ \A u \in Threads : pc'[u] = IF u = t THEN label ELSE pc[u]
    BY <1>1, <1>3, <2>1 DEF Loop, LoopStep, Dispatch, Fetch, Lock, Take, Reset, Rearm, Goto, HelperTypeOK
  <2>3. \A s \in Stacks : AttentiveTo(s)' /\ (Woken(s) => Woken(s)')
    BY <1>3, LoopStepAttentive DEF Loop
  <2> QED BY <1>1, <1>2, <2>2, <2>3 DEF LoopLabels
<1>4. ASSUME NEW t \in {"VM", "MAIN"}, Initialise(t)  PROVE Attentive'
  <2>1. t \in Threads /\ InitStep(t) /\ RegisteredBy(t)
    BY <1>1, <1>4 DEF Initialise
  <2>2. \A s \in Stacks : AttentiveTo(s)' /\ (Woken(s) => Woken(s)')
    BY <2>1, InitStepAttentive
  <2>3. RegisteredBy(t)'
    BY <2>1, <2>2, InitStepRegisters
  <2>4. UNCHANGED tgt /\ \A u \in Threads : u # t => pc'[u] = pc[u]
    BY <2>1 DEF InitStep, wait_for_nw_stack_init_nb, InitCreate, InitRegCallback, InitBind,
       InitListen, InitConnect, CloseAndReturn, Goto, HelperTypeOK
  <2> QED BY <1>1, <1>2, <2>2, <2>3, <2>4
<1>5. CASE PX4Callback
  <2>1. \A s \in Stacks : AttentiveTo(s)' /\ (Woken(s) => Woken(s)')
    BY <1>5, CallbackAttentive DEF Stacks
  <2>2. UNCHANGED tgt /\ \E label : Goto("PX4", label)
    BY <1>5 DEF PX4Callback, PX4_Close, PX4_ConnEst, PX4_Read, PX4_Write, PX4_Ignore
  <2>3. \A t \in {"MAIN", "VM"} : pc'[t] = pc[t]
    BY <1>1, <2>2 DEF Goto, HelperTypeOK
  <2> QED BY <1>2, <2>1, <2>2, <2>3
<1>6. CASE VMCallback
  <2>1. ~VM_InitFailed
    BY DEF VM_InitFailed
  <2>2. \A s \in Stacks : AttentiveTo(s)' /\ (Woken(s) => Woken(s)')
    BY <1>6, <2>1, CallbackAttentive DEF Stacks
  <2>3. /\ tgt'["MAIN"] = tgt["MAIN"]
        /\ \/ pc' = pc /\ UNCHANGED tgt
           \/ \E label \in {"handle", "nw_wait", "filter", "write", "reset"} : Goto("VM", label)
    BY <1>1, <1>6, <2>1 DEF VMCallback, VM_Close, VM_Accept, VM_AcceptFailed, VM_InitDone,
       VM_Read, VM_Filter, VM_Filtered, VM_Write, VM_Ignore, HelperTypeOK
  <2>4. /\ pc'["MAIN"] = pc["MAIN"]
        /\ \/ pc'["VM"] = pc["VM"] /\ UNCHANGED tgt
           \/ pc'["VM"] \notin {"bind", "listen", "connect"}
    BY <1>1, <2>3 DEF Goto, HelperTypeOK
  <2> QED BY <1>2, <2>2, <2>3, <2>4
<1>7. CASE Outside((\E s \in Stacks : StackBoot(s)) \/ PeerStep)
  <2>1. \A s \in Stacks : AttentiveTo(s)' /\ (Woken(s) => Woken(s)')
    BY <1>7, EnvironmentAttentive DEF Outside
  <2> QED BY <1>2, <1>7, <2>1 DEF Outside
<1>8. CASE UNCHANGED vars
  <2>1. \A s \in Stacks : AttentiveTo(s)' /\ (Woken(s) => Woken(s)')
    BY <1>8, AttentiveElsewhere DEF vars, netVars
  <2> QED BY <1>2, <1>8, <2>1 DEF vars
<1> QED BY <1>3, <1>4, <1>5, <1>6, <1>7, <1>8, NextCases

\* No stack has pending events while its interface thread sleeps unnotified or
\* its callback is not registered: as long as registering, fetching events,
\* locking and unlocking do not fail, and the client of PX4 is initialised
\* whenever the VM connects; whatever the other calls do.
THEOREM ResponsiveHolds ==
    ASSUME LoopCallsWork
    PROVE  Spec /\ [](pc["VM"] # "init_err") => []Responsive
<1>1. Init => Attentive
  <2> SUFFICES ASSUME Init PROVE Attentive
    OBVIOUS
  <2>1. \A s \in Stacks, h \in Handles : sk[<<s, h>>].st = "free" /\ sk[<<s, h>>].ev = {}
    BY DEF Init, NetInit, FreeSocket, Sockets
  <2>2. pc["MAIN"] = "nw_wait" /\ pc["VM"] = "idle"
    BY DEF Init, Threads, Stacks
  <2> QED BY <2>1, <2>2 DEF Attentive, AttentiveTo, RegisteredBy, Pending
<1>2. TypeOK /\ Attentive /\ pc["VM"] # "init_err" /\ [Next]_vars => Attentive'
  BY AttentiveStep
<1>3. Attentive => Responsive
  <2> SUFFICES ASSUME Attentive, NEW s \in Stacks, pc[s] = "idle", Pending(s) # {}
               PROVE  armed[s] /\ signal[s]
    BY DEF Responsive
  <2>1. signal[s]
    BY DEF Attentive, AttentiveTo
  <2>2. Woken(s)
    BY DEF Attentive, AttentiveTo, Pending
  <2> QED BY <2>1, <2>2 DEF Woken
<1> QED BY <1>1, <1>2, <1>3, TypeCorrect, PTL DEF Spec

-----------------------------------------------------------------------------
(* SerialFilter implements FilteredRelay from the VM to PX4, and what the  *)
(* relay promises then holds of SerialFilter.                              *)

\* The relay again, with what is proved about it.
Promise == INSTANCE FilteredRelayProofs WITH
    Messages <- Frames["VM"],
    Allowed <- {m \in Frame : Permitted(m)},
    sent <- sent["VM"],
    queue <- UnderWay,
    delivered <- wire["PX4"]

RelayStep == [Promise!Next]_(Promise!vars)

Held == Waiting("VM")

\* The inductive invariant: data is held for the filter only while it runs,
\* and what has passed it is permitted.  Without it a read could overwrite
\* messages that were not yet filtered: that would be a loss in the middle,
\* and one the code cannot have.
HoldsBuf == buf["VM"] # <<>> => pc["VM"] = "filter"

-----------------------------------------------------------------------------
\* Parts of a sequence of frames may be joined in either order.
LEMMA Associative == \A a, b, c \in Seq(Frame) : (a \o b) \o c = a \o (b \o c)
  BY ConcatAssociative

\* A frame that comes last may be added to the last part or to the whole.
LEMMA Behind ==
    \A a, b \in Seq(Frame), f \in Frame : a \o Append(b, f) = Append(a \o b, f)
<1> SUFFICES ASSUME NEW a \in Seq(Frame), NEW b \in Seq(Frame), NEW f \in Frame
             PROVE  a \o Append(b, f) = Append(a \o b, f)
  OBVIOUS
<1>1. <<f>> \in Seq(Frame) /\ a \o b \in Seq(Frame)
  <2>1. <<f>> \in Seq(Frame)
    OBVIOUS
  <2> QED BY <2>1, ConcatProperties
<1> QED BY <1>1, AppendIsConcat, ConcatAssociative

\* The three parts of what is under way.
LEMMA UnderWayParts ==
    ASSUME TypeOK
    PROVE  /\ ret_buf \in Seq(Frame) /\ buf["VM"] \in Seq(Frame) /\ Held \in Seq(Frame)
           /\ wire["PX4"] \in Seq(Frame \cup {Pad})
           /\ ret_buf \o buf["VM"] \in Seq(Frame) /\ buf["VM"] \o Held \in Seq(Frame)
           /\ UnderWay = (ret_buf \o buf["VM"]) \o Held
           /\ UnderWay = ret_buf \o (buf["VM"] \o Held)
<1>1. ret_buf \in Seq(Frame) /\ buf["VM"] \in Seq(Frame) /\ wire["PX4"] \in Seq(Frame \cup {Pad})
  BY DEF TypeOK, NetTypeOK, Stacks
<1>2. Held \in Seq(Frame)
  BY WaitingType DEF Held, TypeOK, Stacks
<1>3. UnderWay = (ret_buf \o buf["VM"]) \o Held
  BY DEF UnderWay, Held, Waiting, WaitingOn
<1>4. (ret_buf \o buf["VM"]) \o Held = ret_buf \o (buf["VM"] \o Held)
  BY <1>1, <1>2, Associative
<1> QED BY <1>1, <1>2, <1>3, <1>4, ConcatProperties

\* A step that leaves what was read alone, and what waits in the socket alone
\* or drops it, is a step of the relay.
LEMMA HeldKept ==
    ASSUME TypeOK, Held' \in {Held, <<>>},
           buf'["VM"] = buf["VM"], ret_buf' = ret_buf,
           wire'["PX4"] = wire["PX4"], sent'["VM"] = sent["VM"]
    PROVE  RelayStep
<1> DEFINE a == ret_buf \o buf["VM"]
<1>1. /\ a \in Seq(Frame) /\ Held \in Seq(Frame) /\ UnderWay = a \o Held
      /\ wire["PX4"] \in Seq(Frame \cup {Pad})
  BY UnderWayParts
<1>2. UnderWay' = a \o Held'
  BY DEF UnderWay, Held, Waiting, WaitingOn
<1>3. CASE Held' = Held
  BY <1>1, <1>2, <1>3 DEF RelayStep, Promise!vars
<1>4. CASE Held' = <<>>
  <2>1. UnderWay' = a
    BY <1>1, <1>2, <1>4, ConcatEmptySeq
  <2> HIDE DEF a
  <2> QED BY <1>1, <2>1, Promise!LosingPart DEF RelayStep
<1> QED BY <1>3, <1>4

\* The initialisation sequences send and deliver nothing.
LEMMA InitialiseRelay ==
    ASSUME TypeOK, HoldsBuf, NEW t \in {"VM", "MAIN"}, Initialise(t)
    PROVE  RelayStep /\ HoldsBuf'
<1>1. t \in Threads /\ "VM" \in Stacks /\ "VM" \in Threads
  BY DEF Threads, Stacks
<1>2. UNCHANGED <<buf, ret_buf>>
  BY DEF Initialise, bufVars
<1>3. UNCHANGED <<wire, sent>> /\ Held' \in {Held, <<>>}
  BY <1>1, InitStepInput DEF Initialise, Held, TypeOK
<1>4. HoldsBuf'
  <2>1. pc[t] # "filter"
    BY DEF Initialise, InitStep, wait_for_nw_stack_init_nb, InitCreate, InitRegCallback,
         InitBind, InitListen, InitConnect
  <2>2. \E label : Goto(t, label)
    BY DEF Initialise, InitStep, wait_for_nw_stack_init_nb, InitCreate, InitRegCallback,
         InitBind, InitListen, InitConnect, CloseAndReturn
  <2>3. pc'["VM"] = "filter" \/ pc["VM"] # "filter"
    BY <1>1, <2>1, <2>2 DEF Goto, TypeOK, HelperTypeOK
  <2> QED BY <1>2, <2>3 DEF HoldsBuf
<1> QED BY <1>2, <1>3, <1>4, HeldKept

\* The frame of the callbacks sends and delivers nothing.
LEMMA LoopRelay ==
    ASSUME TypeOK, HoldsBuf, NEW t \in Stacks, Loop(t)
    PROVE  RelayStep /\ HoldsBuf'
<1>1. t \in Threads /\ "VM" \in Threads /\ "VM" \in Stacks
  BY DEF Threads, Stacks
<1>2. UNCHANGED <<buf, ret_buf>>
  BY DEF Loop, bufVars
<1>3. UNCHANGED <<wire, sent>> /\ Held' \in {Held, <<>>}
  BY <1>1, LoopStepInput DEF Loop, Held, TypeOK
<1>4. HoldsBuf'
  <2>1. pc[t] # "filter"
    BY DEF Loop, LoopStep, Dispatch, Fetch, Lock, Reset, Rearm
  <2>2. \E label : Goto(t, label)
    BY DEF Loop, LoopStep, Dispatch, Fetch, Lock, Reset, Rearm, Take
  <2>3. pc'["VM"] = "filter" \/ pc["VM"] # "filter"
    BY <1>1, <2>1, <2>2 DEF Goto, TypeOK, HelperTypeOK
  <2> QED BY <1>2, <2>3 DEF HoldsBuf
<1> QED BY <1>2, <1>3, <1>4, HeldKept

\* The stacks send nothing, and of the peers only a client of the VM does:
\* what it sends is under way if it is the current one.
LEMMA EnvironmentRelay ==
    ASSUME TypeOK, HoldsBuf, Outside((\E s \in Stacks : StackBoot(s)) \/ PeerStep)
    PROVE  RelayStep /\ HoldsBuf'
<1>1. UNCHANGED <<ctx, pc, buf, ret_buf>> /\ HoldsBuf'
  BY DEF Outside, bufVars, HoldsBuf
<1>2. /\ UNCHANGED wire
      /\ \/ sent'["VM"] = sent["VM"] /\ Held' = Held
         \/ \E f \in Frames["VM"] : /\ sent'["VM"] = Append(sent["VM"], f)
                                    /\ Held' \in {Held, Append(Held, f)}
  <2>1. "VM" \in Stacks /\ NetTypeOK /\ ((\E s \in Stacks : StackBoot(s)) \/ PeerStep)
    BY DEF Stacks, TypeOK, Outside
  <2> QED BY <1>1, <2>1, EnvironmentInput DEF Held
<1>3. CASE sent'["VM"] = sent["VM"] /\ Held' = Held
  <2>1. RelayStep
    BY <1>1, <1>2, <1>3, HeldKept
  <2> QED BY <1>1, <2>1
<1>4. ASSUME NEW f \in Frames["VM"], sent'["VM"] = Append(sent["VM"], f),
             Held' \in {Held, Append(Held, f)}
      PROVE  RelayStep
  <2> DEFINE a == ret_buf \o buf["VM"]
  <2>1. a \in Seq(Frame) /\ Held \in Seq(Frame) /\ UnderWay = a \o Held
    BY UnderWayParts
  <2>2. UnderWay' = a \o Held'
    BY <1>1 DEF UnderWay, Held, Waiting, WaitingOn
  <2>3. f \in Frame
    BY DEF Frame
  <2> HIDE DEF a
  <2>4. a \o Append(Held, f) = Append(a \o Held, f)
    BY <2>1, <2>3, Behind
  <2>5. UnderWay' \in {UnderWay, Append(UnderWay, f)}
    BY <1>4, <2>1, <2>2, <2>4
  <2>6. Promise!Send(f)
    BY <1>2, <1>4, <2>5 DEF Promise!Send
  <2> QED BY <2>6 DEF RelayStep, Promise!Next
<1> QED BY <1>1, <1>2, <1>3, <1>4

\* The PX4 callback relays the other way: it never touches what is under way
\* to PX4, nor a socket of the VM's stack.
LEMMA PX4Relay ==
    ASSUME TypeOK, HoldsBuf, PX4Callback
    PROVE  RelayStep /\ HoldsBuf'
<1>1. "PX4" \in Stacks /\ "VM" \in Stacks /\ "PX4" \in Threads /\ "VM" \in Threads
  BY DEF Stacks, Threads
<1>2. ret_buf' = ret_buf /\ buf'["VM"] = buf["VM"] /\ sent' = sent
  BY <1>1 DEF PX4Callback, PX4_Close, PX4_ConnEst, PX4_Read, PX4_Write, PX4_Ignore, TypeOK,
         bufVars, netVars, OS_Socket_close, OS_Socket_read, OS_Socket_write
<1>3. wire'["PX4"] = wire["PX4"]
  <2>1. ASSUME NEW data, NEW h, NEW ok \in BOOLEAN, OS_Socket_write("VM", h, data, ok)
        PROVE  wire'["PX4"] = wire["PX4"]
    BY <1>1, <2>1 DEF OS_Socket_write, TypeOK, NetTypeOK
  <2>2. CASE UNCHANGED wire
    BY <2>2
  <2> QED BY <2>1, <2>2 DEF PX4Callback, PX4_Close, PX4_ConnEst, PX4_Read, PX4_Write,
         PX4_Ignore, netVars, OS_Socket_close, OS_Socket_read
<1>4. ctx'["VM"] = ctx["VM"]
  BY <1>1 DEF PX4Callback, PX4_Close, PX4_ConnEst, PX4_Read, PX4_Write, PX4_Ignore, TypeOK,
         HelperTypeOK
<1>5. InputKept("VM")
  <2>1. ASSUME NEW h, NEW ok \in BOOLEAN, OS_Socket_close("PX4", h, ok)
        PROVE  InputKept("VM")
    BY <1>1, <2>1, CloseInput DEF TypeOK
  <2>2. ASSUME NEW h, OS_Socket_read("PX4", h)
        PROVE  InputKept("VM")
    BY <1>1, <2>2 DEF OS_Socket_read, TypeOK, NetTypeOK, Sockets, InputKept
  <2>3. CASE UNCHANGED sk
    BY <2>3 DEF InputKept
  <2> QED BY <2>1, <2>2, <2>3 DEF PX4Callback, PX4_Close, PX4_ConnEst, PX4_Read, PX4_Write,
         PX4_Ignore, OS_Socket_write, netVars
<1>6. HoldsBuf'
  <2>1. \E label : Goto("PX4", label)
    BY DEF PX4Callback, PX4_Close, PX4_ConnEst, PX4_Read, PX4_Write, PX4_Ignore
  <2>2. pc'["VM"] = pc["VM"]
    BY <1>1, <2>1 DEF Goto, TypeOK, HelperTypeOK
  <2> QED BY <1>2, <2>2 DEF HoldsBuf
<1>7. Held' \in {Held, <<>>}
  BY <1>1, <1>4, <1>5, WaitingKept DEF Held
<1> QED BY <1>2, <1>3, <1>6, <1>7, HeldKept

\* What is written is the beginning of what is under way, and permitted; what
\* a short or failed write leaves of it is lost, not kept for the next one.
LEMMA WriteRelay ==
    ASSUME TypeOK, Sifted, VM_Write
    PROVE  RelayStep
<1>1. /\ ret_buf \in Seq(Frame) /\ buf["VM"] \o Held \in Seq(Frame)
      /\ UnderWay = ret_buf \o (buf["VM"] \o Held)
      /\ buf["VM"] \in Seq(Frame) /\ Held \in Seq(Frame) /\ wire["PX4"] \in Seq(Frame \cup {Pad})
  BY UnderWayParts
<1>2. ret_buf' = <<>> /\ UNCHANGED <<buf, sk, ctx, sent>>
  BY DEF VM_Write, OS_Socket_write
<1>3. UnderWay' = buf["VM"] \o Held
  <2>1. UnderWay' = (<<>> \o buf["VM"]) \o Held
    BY <1>2 DEF UnderWay, Held, Waiting, WaitingOn
  <2>2. <<>> \o buf["VM"] = buf["VM"]
    BY <1>1, ConcatEmptySeq
  <2> QED BY <2>1, <2>2
<1>4. Len(ret_buf) \in Nat /\ \A i \in 1..Len(ret_buf) : ret_buf[i] \in {m \in Frame : Permitted(m)}
  BY <1>1, LenProperties, ElementOfSeq DEF Sifted, PermittedFrames
<1>5. \E n \in 0..Len(ret_buf) : wire'["PX4"] = wire["PX4"] \o SubSeq(ret_buf, 1, n)
  <2>1. PICK ok \in BOOLEAN : OS_Socket_write("PX4", ctx["PX4"].handle, ret_buf, ok)
    BY DEF VM_Write
  <2>2. CASE wire' = wire
    <3>1. wire["PX4"] \o SubSeq(ret_buf, 1, 0) = wire["PX4"]
      BY <1>1, ConcatEmptySeq
    <3>2. 0 \in 0..Len(ret_buf) /\ wire'["PX4"] = wire["PX4"] \o SubSeq(ret_buf, 1, 0)
      BY <1>4, <2>2, <3>1
    <3> QED BY <3>2
  <2>3. CASE wire' = [wire EXCEPT !["PX4"] = @ \o ret_buf]
    <3>1. SubSeq(ret_buf, 1, Len(ret_buf)) = ret_buf
      BY <1>1
    <3>2. Len(ret_buf) \in 0..Len(ret_buf)
      BY <1>4
    <3>3. wire'["PX4"] = wire["PX4"] \o SubSeq(ret_buf, 1, Len(ret_buf))
      BY <2>3, <3>1 DEF TypeOK, NetTypeOK, Stacks
    <3> QED BY <3>2, <3>3
  <2>4. ASSUME NEW n \in 1..(Len(ret_buf) - 1),
               wire' = [wire EXCEPT !["PX4"] = @ \o SubSeq(ret_buf, 1, n)]
        PROVE  \E k \in 0..Len(ret_buf) : wire'["PX4"] = wire["PX4"] \o SubSeq(ret_buf, 1, k)
    <3>1. n \in 0..Len(ret_buf)
      BY <1>4
    <3>2. wire'["PX4"] = wire["PX4"] \o SubSeq(ret_buf, 1, n)
      BY <2>4 DEF TypeOK, NetTypeOK, Stacks
    <3> QED BY <3>1, <3>2
  <2> QED BY <2>1, <2>2, <2>3, <2>4 DEF OS_Socket_write
<1>6. PICK n \in 0..Len(ret_buf) : wire'["PX4"] = wire["PX4"] \o SubSeq(ret_buf, 1, n)
  BY <1>5
<1>7. \A i \in 1..n : ret_buf[i] \in {m \in Frame : Permitted(m)}
  <2>1. \A i \in 1..n : i \in 1..Len(ret_buf)
    BY <1>4
  <2> QED BY <1>4, <2>1
<1> DEFINE b == buf["VM"] \o Held
<1>8. b \in Seq(Frame) /\ UnderWay = ret_buf \o b /\ UnderWay' = b /\ sent'["VM"] = sent["VM"]
  BY <1>1, <1>2, <1>3
<1> HIDE DEF b
<1>9. Promise!Next
  BY <1>1, <1>6, <1>7, <1>8, Promise!Delivering
<1> QED BY <1>9 DEF RelayStep

\* The filter passes a message on, in its place, or loses it.
LEMMA FilterRelay ==
    ASSUME TypeOK, VM_Filter
    PROVE  RelayStep
<1>1. UNCHANGED <<netVars, ctx>> /\ buf["VM"] # <<>>
  BY DEF VM_Filter
<1> DEFINE m == Head(buf["VM"])
           rest == Tail(buf["VM"])
<1>2. ret_buf \in Seq(Frame) /\ buf["VM"] \in Seq(Frame) /\ Held \in Seq(Frame)
  BY UnderWayParts
<1>3. m \in Frame /\ rest \in Seq(Frame) /\ buf["VM"] = <<m>> \o rest
  BY <1>1, <1>2, HeadTailProperties
<1>4. buf'["VM"] = rest /\ (ret_buf' = ret_buf \o <<m>> \/ ret_buf' = ret_buf)
  <2>1. Append(ret_buf, m) = ret_buf \o <<m>>
    BY <1>2, <1>3, AppendIsConcat
  <2>2. buf' = [buf EXCEPT !["VM"] = rest]
    BY DEF VM_Filter
  <2>3. buf'["VM"] = rest
    BY <2>2 DEF TypeOK, Stacks
  <2> QED BY <2>1, <2>3 DEF VM_Filter
<1> HIDE DEF m, rest
<1>5. /\ <<m>> \in Seq(Frame) /\ rest \o Held \in Seq(Frame) /\ ret_buf \o <<m>> \in Seq(Frame)
      /\ wire["PX4"] \in Seq(Frame \cup {Pad})
  <2>1. <<m>> \in Seq(Frame)
    BY <1>3
  <2> QED BY <1>2, <1>3, <2>1, ConcatProperties, UnderWayParts
<1>6. UnderWay = (ret_buf \o <<m>>) \o (rest \o Held)
  <2>1. UnderWay = (ret_buf \o (<<m>> \o rest)) \o Held
    BY <1>3 DEF UnderWay, Held, Waiting, WaitingOn
  <2> DEFINE front == ret_buf \o <<m>>
             one   == <<m>>
  <2>2. ret_buf \o (one \o rest) = (ret_buf \o one) \o rest
    <3>1. one \in Seq(Frame)
      BY <1>5
    <3> HIDE DEF one
    <3> QED BY <1>2, <1>3, <3>1, Associative
  <2>3. UnderWay = (front \o rest) \o Held
    BY <2>1, <2>2
  <2>4. front \in Seq(Frame)
    BY <1>5
  <2> HIDE DEF front
  <2>5. (front \o rest) \o Held = front \o (rest \o Held)
    BY <1>2, <1>3, <2>4, Associative
  <2> QED BY <2>3, <2>5 DEF front
<1>7. UnderWay' = (ret_buf' \o rest) \o Held
  BY <1>1, <1>4 DEF UnderWay, Held, Waiting, WaitingOn, netVars
<1>8. sent'["VM"] = sent["VM"] /\ wire'["PX4"] = wire["PX4"]
  BY <1>1 DEF netVars
<1>9. CASE ret_buf' = ret_buf \o <<m>>
  <2>1. UnderWay' = UnderWay
    <3> DEFINE front == ret_buf \o <<m>>
    <3>1. /\ front \in Seq(Frame) /\ UnderWay = front \o (rest \o Held)
          /\ UnderWay' = (front \o rest) \o Held
      BY <1>5, <1>6, <1>7, <1>9
    <3> HIDE DEF front
    <3>2. (front \o rest) \o Held = front \o (rest \o Held)
      BY <1>2, <1>3, <3>1, Associative
    <3> QED BY <3>1, <3>2
  <2> QED BY <1>8, <2>1 DEF RelayStep, Promise!vars
<1>10. CASE ret_buf' = ret_buf
  <2> DEFINE b == rest \o Held
  <2>1. UnderWay' = ret_buf \o b
    BY <1>2, <1>3, <1>7, <1>10, Associative
  <2>2. b \in Seq(Frame) /\ UnderWay = (ret_buf \o <<m>>) \o b
    BY <1>5, <1>6
  <2> HIDE DEF b
  <2>3. Promise!Next
    BY <1>2, <1>3, <1>5, <1>8, <2>1, <2>2, Promise!LosingOne
  <2> QED BY <2>3 DEF RelayStep
<1> QED BY <1>4, <1>9, <1>10

\* What the filter has passed is lost when PX4 is not connected.
LEMMA FilteredRelayStep ==
    ASSUME TypeOK, VM_Filtered
    PROVE  RelayStep
<1>1. UNCHANGED <<netVars, ctx, buf>>
  BY DEF VM_Filtered
<1>2. CASE ret_buf' = ret_buf
  <2>1. UnderWay' = UnderWay
    BY <1>1, <1>2 DEF UnderWay, WaitingOn, netVars
  <2> QED BY <1>1, <2>1 DEF RelayStep, Promise!vars, netVars
<1>3. CASE ret_buf' = <<>>
  <2> DEFINE b == buf["VM"] \o Held
  <2>1. /\ ret_buf \in Seq(Frame) /\ b \in Seq(Frame) /\ UnderWay = ret_buf \o b
        /\ buf["VM"] \in Seq(Frame) /\ wire["PX4"] \in Seq(Frame \cup {Pad})
    BY UnderWayParts
  <2>2. UnderWay' = b
    <3>1. UnderWay' = (<<>> \o buf["VM"]) \o Held
      BY <1>1, <1>3 DEF UnderWay, Held, Waiting, WaitingOn, netVars
    <3>2. <<>> \o buf["VM"] = buf["VM"]
      BY <2>1, ConcatEmptySeq
    <3> QED BY <3>1, <3>2
  <2>3. sent'["VM"] = sent["VM"] /\ wire'["PX4"] = wire["PX4"]
    BY <1>1 DEF netVars
  <2> HIDE DEF b
  <2>4. Promise!Next
    BY <2>1, <2>2, <2>3, Promise!LosingPart
  <2> QED BY <2>4 DEF RelayStep
<1> QED BY <1>2, <1>3 DEF VM_Filtered

\* A read moves messages from the socket to the callback, in order: none is
\* under way twice, because the callback holds nothing when it reads.
LEMMA ReadRelay ==
    ASSUME TypeOK, HoldsBuf, VM_Read
    PROVE  RelayStep
<1>1. pc["VM"] # "filter" /\ buf["VM"] = <<>>
  BY DEF VM_Read, HoldsBuf
<1>2. UNCHANGED <<ctx, ret_buf>>
  BY DEF VM_Read
<1> DEFINE h == ctx["VM"].client
<1>3. CASE UNCHANGED <<netVars, buf>>
  <2>1. UnderWay' = UnderWay
    BY <1>2, <1>3 DEF UnderWay, WaitingOn, netVars
  <2> QED BY <1>3, <2>1 DEF RelayStep, Promise!vars, netVars
<1>4. CASE OS_Socket_read("VM", h) /\ buf' = [buf EXCEPT !["VM"] = Arrived("VM", h)]
  <2>1. /\ UNCHANGED <<wire, sent>>
        /\ Arrived("VM", h) \in Seq(Frame) /\ Held' \in Seq(Frame)
        /\ Held = Arrived("VM", h) \o Held'
    BY <1>2, <1>4, ReadWaiting DEF Held, TypeOK, Stacks
  <2>2. ret_buf \in Seq(Frame) /\ UnderWay = (ret_buf \o buf["VM"]) \o Held
    BY UnderWayParts
  <2>3. UnderWay = ret_buf \o Held
    BY <1>1, <2>2, ConcatEmptySeq
  <2>4. buf'["VM"] = Arrived("VM", h)
    BY <1>4 DEF TypeOK, Stacks
  <2>5. UnderWay' = (ret_buf \o Arrived("VM", h)) \o Held'
    BY <1>2, <2>4 DEF UnderWay, Held, Waiting, WaitingOn
  <2>6. (ret_buf \o Arrived("VM", h)) \o Held' = ret_buf \o (Arrived("VM", h) \o Held')
    BY <2>1, <2>2, Associative
  <2> QED BY <2>1, <2>3, <2>5, <2>6 DEF RelayStep, Promise!vars
<1> QED BY <1>3, <1>4 DEF VM_Read

\* The VM callback: it reads, filters and writes in the order of the socket,
\* and a connection that ends or begins takes nothing along.
LEMMA VMRelay ==
    ASSUME TypeOK, Sifted, HoldsBuf, VMCallback
    PROVE  RelayStep /\ HoldsBuf'
<1>1. "VM" \in Stacks /\ "VM" \in Threads
  BY DEF Stacks, Threads
<1>2. ASSUME NEW label, Goto("VM", label) PROVE pc'["VM"] = label
  BY <1>1, <1>2 DEF Goto, TypeOK, HelperTypeOK
<1>3. CASE VM_Read
  <2>1. HoldsBuf'
    BY <1>2, <1>3 DEF VM_Read, HoldsBuf
  <2> QED BY <1>3, <2>1, ReadRelay
<1>4. CASE VM_Filter
  <2>1. HoldsBuf'
    BY <1>4 DEF VM_Filter, HoldsBuf
  <2> QED BY <1>4, <2>1, FilterRelay
<1>5. CASE VM_Filtered
  <2>1. HoldsBuf'
    BY <1>5 DEF VM_Filtered, HoldsBuf
  <2> QED BY <1>5, <2>1, FilteredRelayStep
<1>6. CASE VM_Write
  <2>1. HoldsBuf'
    BY <1>6 DEF VM_Write, HoldsBuf
  <2> QED BY <1>6, <2>1, WriteRelay
<1>7. ASSUME VM_Close \/ VM_Accept \/ VM_AcceptFailed \/ VM_InitDone \/ VM_InitFailed \/ VM_Ignore
      PROVE  RelayStep /\ HoldsBuf'
  <2>1. UNCHANGED <<buf, ret_buf, wire, sent>>
    BY <1>7 DEF VM_Close, VM_Accept, VM_AcceptFailed, VM_InitDone, VM_InitFailed, VM_Ignore,
           bufVars, netVars, OS_Socket_close, OS_Socket_accept
  <2>2. pc["VM"] # "filter"
    BY <1>7 DEF VM_Close, VM_Accept, VM_AcceptFailed, VM_InitDone, VM_InitFailed, VM_Ignore
  <2>3. HoldsBuf'
    BY <2>1, <2>2 DEF HoldsBuf
  <2>4. Held' \in {Held, <<>>}
    <3>1. CASE VM_Accept
      <4>1. PICK h \in Handles : /\ OS_Socket_accept("VM", ctx["VM"].handle, h)
                                 /\ ctx' = [ctx EXCEPT !["VM"].client = h, !["VM"].conn = TRUE]
        BY <3>1 DEF VM_Accept
      <4>2. ctx'["VM"].client = h
        BY <1>1, <4>1 DEF TypeOK, HelperTypeOK, SocketContext
      <4> QED BY <1>1, <4>1, <4>2, AcceptWaiting DEF Held, TypeOK
    <3>2. CASE ~VM_Accept
      <4>1. ctx'["VM"].client = ctx["VM"].client
        BY <1>1, <1>7, <3>2 DEF VM_Close, VM_AcceptFailed, VM_InitDone, VM_InitFailed, VM_Ignore,
               TypeOK, HelperTypeOK, SocketContext
      <4>2. UNCHANGED sk \/ \E ok \in BOOLEAN : OS_Socket_close("VM", SocketToClose, ok)
        BY <1>7, <3>2 DEF VM_Close, VM_AcceptFailed, VM_InitDone, VM_InitFailed, VM_Ignore,
               netVars
      <4>3. InputKept("VM")
        <5>1. CASE UNCHANGED sk
          BY <5>1 DEF InputKept
        <5> QED BY <1>1, <4>2, <5>1, CloseInput DEF TypeOK
      <4> QED BY <1>1, <4>1, <4>3, WaitingKept DEF Held
    <3> QED BY <3>1, <3>2
  <2> QED BY <2>1, <2>3, <2>4, HeldKept
<1> QED BY <1>3, <1>4, <1>5, <1>6, <1>7 DEF VMCallback

\* Every step of SerialFilter is a step of the relay, or none.
LEMMA StepRelay ==
    ASSUME TypeOK, Sifted, HoldsBuf, [Next]_vars
    PROVE  RelayStep /\ HoldsBuf'
<1>1. CASE UNCHANGED vars
  <2>1. UnderWay' = UnderWay /\ UNCHANGED <<sent, wire>> /\ HoldsBuf'
    BY <1>1 DEF vars, netVars, UnderWay, WaitingOn, HoldsBuf
  <2> QED BY <2>1 DEF RelayStep, Promise!vars
<1> QED BY <1>1, NextCases, LoopRelay, InitialiseRelay, PX4Relay, VMRelay, EnvironmentRelay

\* Nothing is under way at first.
LEMMA InitRelay == Init => Promise!Init /\ HoldsBuf
<1> SUFFICES ASSUME Init PROVE Promise!Init /\ HoldsBuf
  OBVIOUS
<1>1. "VM" \in Stacks /\ "PX4" \in Stacks
  BY DEF Stacks
<1>2. sent["VM"] = <<>> /\ wire["PX4"] = <<>> /\ buf["VM"] = <<>> /\ ret_buf = <<>>
  BY <1>1 DEF Init, NetInit
<1>3. ctx["VM"].client \notin Handles
  BY <1>1, NetAssumption DEF Init, InitialContext, NoHandle
<1>4. UnderWay = <<>>
  BY <1>2, <1>3 DEF UnderWay, WaitingOn
<1> QED BY <1>2, <1>4 DEF Promise!Init, HoldsBuf

\* SerialFilter does what the relay promises.
LEMMA ImplementsPromise == Spec => Promise!Spec
<1>1. Spec => [](TypeOK /\ Sifted)
  <2>1. Init => Sifted
    BY EmptySeq DEF Init, NetInit, Sifted, Stacks
  <2> QED BY <2>1, SiftedStep, TypeCorrect, PTL DEF Spec
<1>2. TypeOK /\ Sifted /\ HoldsBuf /\ [Next]_vars => [Promise!Next]_(Promise!vars) /\ HoldsBuf'
  BY StepRelay DEF RelayStep
<1> QED BY <1>1, <1>2, InitRelay, PTL DEF Spec, Promise!Spec

-----------------------------------------------------------------------------
(* And from PX4 to the VM, the filler of padded writes left out.           *)

PromiseBack == INSTANCE FilteredRelayProofs WITH
    Messages <- Frames["PX4"],
    Allowed <- Frame,
    sent <- sent["PX4"],
    queue <- UnderWayBack,
    delivered <- WithoutFiller(wire["VM"])

BackStep == [PromiseBack!Next]_(PromiseBack!vars)

Back == Answering("PX4")

\* The inductive invariant: the PX4 callback holds data only until it has
\* tried to write it.
HoldsBack == buf["PX4"] # <<>> => pc["PX4"] = "write"

\* Behind what was written, data and then filler count as the data alone.
LEMMA FillerLeftOut ==
    ASSUME NEW S, NEW w \in Seq(S), NEW c \in Seq(S), NEW k \in 0..Len(c),
           \A i \in 1..Len(c) : c[i] # Pad <=> i <= k
    PROVE  WithoutFiller(w \o c) = WithoutFiller(w) \o SubSeq(c, 1, k)
<1>1. Without(w \o c, Pad) = Without(w, Pad) \o SubSeq(c, 1, k)
  BY WithoutOfConcat
<1> QED BY <1>1 DEF WithoutFiller

\* A padded write, whole or cut, brings a beginning of the data and filler:
\* with what was written before, the filler left out, it is what was written
\* before and that beginning.
LEMMA PaddedWrite ==
    ASSUME NEW w \in Seq(Frame \cup {Pad}), NEW data \in Seq(Frame),
           NEW n \in 0..Len(Padded(data))
    PROVE  \E k \in 0..Len(data) :
              WithoutFiller(w \o SubSeq(Padded(data), 1, n)) = WithoutFiller(w) \o SubSeq(data, 1, k)
<1> DEFINE T   == Frame \cup {Pad}
           all == Padded(data)
           cut == SubSeq(all, 1, n)
           k   == IF n <= Len(data) THEN n ELSE Len(data)
<1>1. /\ Len(data) \in Nat /\ Len(w) \in Nat /\ DOMAIN w = 1..Len(w)
      /\ \A i \in 1..Len(data) : data[i] \in Frame /\ data[i] # Pad
      /\ data \in Seq(T) /\ w \in Seq(T)
  BY NetAssumption, LenProperties, SeqMonotonic
<1>2. all \in Seq(T) /\ \A i \in 1..Len(all) : all[i] = IF i <= Len(data) THEN data[i] ELSE Pad
  <2> DEFINE missing == IF Len(data) <= MTU THEN MTU - Len(data) ELSE 0
             filler  == [i \in 1..missing |-> Pad]
  <2>1. missing \in Nat /\ 1..(MTU - Len(data)) = 1..missing
    BY <1>1, NetAssumption
  <2>2. filler \in Seq(T) /\ Len(filler) = missing /\ \A i \in 1..missing : filler[i] = Pad
    <3>1. filler \in [1..missing -> T]
      OBVIOUS
    <3> QED BY <2>1, <3>1, IsASeq
  <2>3. all = data \o filler
    BY <2>1 DEF Padded
  <2> HIDE DEF filler, missing, all, T
  <2>4. /\ all \in Seq(T) /\ Len(all) = Len(data) + missing
        /\ \A i \in 1..(Len(data) + missing) :
              all[i] = IF i <= Len(data) THEN data[i] ELSE filler[i - Len(data)]
    BY <1>1, <2>2, <2>3, ConcatProperties
  <2>5. \A i \in 1..(Len(data) + missing) : ~(i <= Len(data)) => i - Len(data) \in 1..missing
    BY <1>1, <2>1
  <2> QED BY <2>2, <2>4, <2>5
<1> HIDE DEF all, T
<1>3. n \in Nat /\ Len(all) \in Nat /\ n <= Len(all)
  BY <1>2, LenProperties DEF all
<1>4. /\ cut \in Seq(T) /\ Len(cut) = n
      /\ \A i \in 1..n : cut[i] = IF i <= Len(data) THEN data[i] ELSE Pad
  <2>1. \A i \in 1..n : i \in 1..Len(all) /\ all[i] \in T
    BY <1>2, <1>3, LenProperties
  <2>2. /\ cut \in Seq(T) /\ Len(cut) = IF 1 <= n THEN n - 1 + 1 ELSE 0
        /\ \A i \in 1..(n - 1 + 1) : cut[i] = all[1 + i - 1]
    BY <1>2, <1>3, <2>1, SubSeqProperties
  <2> QED BY <1>2, <1>3, <2>1, <2>2
<1>5. k \in 0..Len(cut) /\ k \in 0..Len(data)
  BY <1>1, <1>3, <1>4
<1>6. SubSeq(cut, 1, k) = SubSeq(data, 1, k)
  <2>1. \A i \in 1..k : i \in 1..n /\ i \in 1..Len(data) /\ cut[i] = data[i]
    BY <1>1, <1>3, <1>4
  <2> HIDE DEF k, cut
  <2> QED BY <1>1, <1>4, <1>5, <2>1
<1>7. \A i \in 1..Len(cut) : cut[i] # Pad <=> i <= k
  BY <1>1, <1>3, <1>4
<1> HIDE DEF cut, k
<1>8. WithoutFiller(w \o cut) = WithoutFiller(w) \o SubSeq(cut, 1, k)
  <2>1. w \in Seq(T) /\ cut \in Seq(T) /\ k \in 0..Len(cut)
    BY <1>1, <1>4, <1>5
  <2> QED BY <1>7, <2>1, FillerLeftOut
<1> QED BY <1>5, <1>6, <1>8 DEF cut, all

-----------------------------------------------------------------------------
\* The parts of what is under way, and what the VM has but for filler.
LEMMA BackParts ==
    ASSUME TypeOK
    PROVE  /\ buf["PX4"] \in Seq(Frame) /\ Back \in Seq(Frame)
           /\ wire["VM"] \in Seq(Frame \cup {Pad})
           /\ WithoutFiller(wire["VM"]) \in Seq(Frame \cup {Pad})
           /\ UnderWayBack = buf["PX4"] \o Back
<1>1. buf["PX4"] \in Seq(Frame) /\ wire["VM"] \in Seq(Frame \cup {Pad})
  BY DEF TypeOK, NetTypeOK, Stacks
<1>2. Back \in Seq(Frame)
  BY WaitingType DEF Back, TypeOK, Stacks
<1>3. WithoutFiller(wire["VM"]) \in Seq(Frame \cup {Pad})
  <2> DEFINE w    == wire["VM"]
             kept == {i \in DOMAIN w : w[i] # Pad}
  <2>1. kept \in SUBSET (1..Len(w))
    BY <1>1, LenProperties
  <2> HIDE DEF kept
  <2>2. Keep(w, kept) \in Seq(Frame \cup {Pad})
    BY <1>1, <2>1, KeepElements
  <2> QED BY <2>2 DEF WithoutFiller, Without, kept
<1> QED BY <1>1, <1>2, <1>3 DEF UnderWayBack, Back, Answering, WaitingOn

\* A step that leaves what was read alone, and what waits in the socket alone
\* or drops it, is a step of the relay.
LEMMA BackKept ==
    ASSUME TypeOK, Back' \in {Back, <<>>}, buf'["PX4"] = buf["PX4"],
           wire'["VM"] = wire["VM"], sent'["PX4"] = sent["PX4"]
    PROVE  BackStep
<1> DEFINE a == buf["PX4"]
<1>1. /\ a \in Seq(Frame) /\ Back \in Seq(Frame) /\ UnderWayBack = a \o Back
      /\ WithoutFiller(wire["VM"]) \in Seq(Frame \cup {Pad})
  BY BackParts
<1>2. UnderWayBack' = a \o Back'
  BY DEF UnderWayBack, Back, Answering, WaitingOn
<1>3. WithoutFiller(wire["VM"])' = WithoutFiller(wire["VM"])
  BY DEF WithoutFiller
<1>4. CASE Back' = Back
  BY <1>1, <1>2, <1>3, <1>4 DEF BackStep, PromiseBack!vars
<1>5. CASE Back' = <<>>
  <2>1. UnderWayBack' = a
    BY <1>1, <1>2, <1>5, ConcatEmptySeq
  <2> HIDE DEF a
  <2> QED BY <1>1, <1>3, <2>1, PromiseBack!LosingPart DEF BackStep
<1> QED BY <1>4, <1>5

\* The initialisation sequences send and deliver nothing.  A new socket takes
\* the place of the old one, and what waited there is lost.
LEMMA InitialiseBack ==
    ASSUME TypeOK, HoldsBack, NEW t \in {"VM", "MAIN"}, Initialise(t)
    PROVE  BackStep /\ HoldsBack'
<1>1. t \in Threads /\ "PX4" \in Stacks /\ "PX4" \in Threads /\ t # "PX4"
  BY DEF Threads, Stacks
<1>2. UNCHANGED buf
  BY DEF Initialise, bufVars
<1>3. UNCHANGED <<wire, sent>> /\ Back' \in {Back, <<>>}
  BY <1>1, InitStepInput DEF Initialise, Back, TypeOK
<1>4. HoldsBack'
  <2>1. \E label : Goto(t, label)
    BY DEF Initialise, InitStep, wait_for_nw_stack_init_nb, InitCreate, InitRegCallback,
         InitBind, InitListen, InitConnect, CloseAndReturn
  <2>2. pc'["PX4"] = pc["PX4"]
    BY <1>1, <2>1 DEF Goto, TypeOK, HelperTypeOK
  <2> QED BY <1>2, <2>2 DEF HoldsBack
<1> QED BY <1>2, <1>3, <1>4, BackKept

\* The frame of the callbacks sends and delivers nothing.
LEMMA LoopBack ==
    ASSUME TypeOK, HoldsBack, NEW t \in Stacks, Loop(t)
    PROVE  BackStep /\ HoldsBack'
<1>1. t \in Threads /\ "PX4" \in Threads /\ "PX4" \in Stacks
  BY DEF Threads, Stacks
<1>2. UNCHANGED buf
  BY DEF Loop, bufVars
<1>3. UNCHANGED <<wire, sent>> /\ Back' \in {Back, <<>>}
  BY <1>1, LoopStepInput DEF Loop, Back, TypeOK
<1>4. HoldsBack'
  <2>1. pc[t] # "write"
    BY DEF Loop, LoopStep, Dispatch, Fetch, Lock, Reset, Rearm
  <2>2. \E label : Goto(t, label)
    BY DEF Loop, LoopStep, Dispatch, Fetch, Lock, Reset, Rearm, Take
  <2>3. pc'["PX4"] = pc["PX4"] \/ pc["PX4"] # "write"
    BY <1>1, <2>1, <2>2 DEF Goto, TypeOK, HelperTypeOK
  <2> QED BY <1>2, <2>3 DEF HoldsBack
<1> QED BY <1>2, <1>3, <1>4, BackKept

\* Of the peers PX4 alone sends: what it sends is under way if it comes in on
\* the socket of the current handle.
LEMMA EnvironmentBack ==
    ASSUME TypeOK, HoldsBack, Outside((\E s \in Stacks : StackBoot(s)) \/ PeerStep)
    PROVE  BackStep /\ HoldsBack'
<1>1. UNCHANGED <<ctx, pc, buf>> /\ HoldsBack'
  BY DEF Outside, bufVars, HoldsBack
<1>2. /\ UNCHANGED wire
      /\ \/ sent'["PX4"] = sent["PX4"] /\ Back' = Back
         \/ \E f \in Frames["PX4"] : /\ sent'["PX4"] = Append(sent["PX4"], f)
                                     /\ Back' \in {Back, Append(Back, f)}
  <2>1. "PX4" \in Stacks /\ NetTypeOK /\ ((\E s \in Stacks : StackBoot(s)) \/ PeerStep)
    BY DEF Stacks, TypeOK, Outside
  <2> QED BY <1>1, <2>1, EnvironmentInput DEF Back
<1>3. CASE sent'["PX4"] = sent["PX4"] /\ Back' = Back
  <2>1. BackStep
    BY <1>1, <1>2, <1>3, BackKept
  <2> QED BY <1>1, <2>1
<1>4. ASSUME NEW f \in Frames["PX4"], sent'["PX4"] = Append(sent["PX4"], f),
             Back' \in {Back, Append(Back, f)}
      PROVE  BackStep
  <2>1. buf["PX4"] \in Seq(Frame) /\ Back \in Seq(Frame) /\ UnderWayBack = buf["PX4"] \o Back
    BY BackParts
  <2>2. UnderWayBack' = buf["PX4"] \o Back'
    BY <1>1 DEF UnderWayBack, Back, Answering, WaitingOn
  <2>3. f \in Frame
    BY DEF Frame
  <2>4. buf["PX4"] \o Append(Back, f) = Append(buf["PX4"] \o Back, f)
    BY <2>1, <2>3, Behind
  <2>5. UnderWayBack' \in {UnderWayBack, Append(UnderWayBack, f)}
    BY <1>4, <2>1, <2>2, <2>4
  <2>6. WithoutFiller(wire["VM"])' = WithoutFiller(wire["VM"])
    BY <1>2 DEF WithoutFiller
  <2>7. PromiseBack!Send(f)
    BY <1>4, <2>5, <2>6 DEF PromiseBack!Send
  <2> QED BY <2>7 DEF BackStep, PromiseBack!Next
<1> QED BY <1>1, <1>2, <1>3, <1>4

\* The VM callback relays the other way: it never touches what is under way to
\* the VM, nor a socket of PX4's stack.
LEMMA VMBack ==
    ASSUME TypeOK, HoldsBack, VMCallback
    PROVE  BackStep /\ HoldsBack'
<1>1. "PX4" \in Stacks /\ "VM" \in Stacks /\ "PX4" \in Threads /\ "VM" \in Threads
  BY DEF Stacks, Threads
<1>2. buf'["PX4"] = buf["PX4"] /\ sent' = sent
  BY <1>1 DEF VMCallback, VM_Close, VM_Accept, VM_AcceptFailed, VM_InitDone, VM_InitFailed,
         VM_Read, VM_Filter, VM_Filtered, VM_Write, VM_Ignore, TypeOK,
         bufVars, netVars, OS_Socket_close, OS_Socket_accept, OS_Socket_read, OS_Socket_write
<1>3. wire'["VM"] = wire["VM"]
  <2>1. ASSUME NEW data, NEW h, NEW ok \in BOOLEAN, OS_Socket_write("PX4", h, data, ok)
        PROVE  wire'["VM"] = wire["VM"]
    BY <1>1, <2>1 DEF OS_Socket_write, TypeOK, NetTypeOK
  <2>2. CASE UNCHANGED wire
    BY <2>2
  <2> QED BY <2>1, <2>2 DEF VMCallback, VM_Close, VM_Accept, VM_AcceptFailed, VM_InitDone,
         VM_InitFailed, VM_Read, VM_Filter, VM_Filtered, VM_Write, VM_Ignore,
         netVars, OS_Socket_close, OS_Socket_accept, OS_Socket_read
<1>4. ctx'["PX4"] = ctx["PX4"]
  BY <1>1 DEF VMCallback, VM_Close, VM_Accept, VM_AcceptFailed, VM_InitDone, VM_InitFailed,
         VM_Read, VM_Filter, VM_Filtered, VM_Write, VM_Ignore, TypeOK, HelperTypeOK
<1>5. InputKept("PX4")
  <2>1. ASSUME NEW h, NEW ok \in BOOLEAN, OS_Socket_close("VM", h, ok)
        PROVE  InputKept("PX4")
    BY <1>1, <2>1, CloseInput DEF TypeOK
  <2>2. ASSUME NEW h, OS_Socket_read("VM", h)
        PROVE  InputKept("PX4")
    BY <1>1, <2>2 DEF OS_Socket_read, TypeOK, NetTypeOK, Sockets, InputKept
  <2>3. ASSUME NEW l, NEW h \in Handles, OS_Socket_accept("VM", l, h)
        PROVE  InputKept("PX4")
    BY <1>1, <2>3 DEF OS_Socket_accept, TypeOK, NetTypeOK, Sockets, InputKept
  <2>4. CASE UNCHANGED sk
    BY <2>4 DEF InputKept
  <2> QED BY <2>1, <2>2, <2>3, <2>4 DEF VMCallback, VM_Close, VM_Accept, VM_AcceptFailed,
         VM_InitDone, VM_InitFailed, VM_Read, VM_Filter, VM_Filtered, VM_Write, VM_Ignore,
         OS_Socket_write, netVars
<1>6. HoldsBack'
  <2>1. UNCHANGED pc \/ \E label : Goto("VM", label)
    BY DEF VMCallback, VM_Close, VM_Accept, VM_AcceptFailed, VM_InitDone, VM_InitFailed,
         VM_Read, VM_Filter, VM_Filtered, VM_Write, VM_Ignore
  <2>2. pc'["PX4"] = pc["PX4"]
    BY <1>1, <2>1 DEF Goto, TypeOK, HelperTypeOK
  <2> QED BY <1>2, <2>2 DEF HoldsBack
<1>7. Back' \in {Back, <<>>}
  BY <1>1, <1>4, <1>5, WaitingKept DEF Back
<1> QED BY <1>2, <1>3, <1>6, <1>7, BackKept

\* What the padded buffer brings to the VM is the beginning of what is under
\* way, and filler; what a short or failed write leaves of it is lost.
LEMMA WriteBack ==
    ASSUME TypeOK, PX4_Write
    PROVE  BackStep
<1> DEFINE data == buf["PX4"]
           w    == wire["VM"]
<1>1. /\ data \in Seq(Frame) /\ Back \in Seq(Frame) /\ UnderWayBack = data \o Back
      /\ w \in Seq(Frame \cup {Pad})
  BY BackParts
<1>2. buf'["PX4"] = <<>> /\ UNCHANGED <<sk, ctx, sent>>
  BY DEF PX4_Write, OS_Socket_write, TypeOK, Stacks
<1>3. UnderWayBack' = Back
  <2>1. UnderWayBack' = <<>> \o Back
    BY <1>2 DEF UnderWayBack, Back, Answering, WaitingOn
  <2> QED BY <1>1, <2>1, ConcatEmptySeq
<1> DEFINE all == Padded(data)
<1>4. all \in Seq(Frame \cup {Pad}) /\ Len(all) \in Nat
  BY <1>1, PaddedType, LenProperties
<1>5. \E n \in 0..Len(all) : wire'["VM"] = w \o SubSeq(all, 1, n)
  <2>1. PICK ok \in BOOLEAN : OS_Socket_write("VM", ctx["VM"].client, all, ok)
    BY DEF PX4_Write
  <2> HIDE DEF all
  <2>2. CASE wire' = wire
    <3>1. SubSeq(all, 1, 0) = <<>>
      BY <1>4
    <3>2. 0 \in 0..Len(all) /\ wire'["VM"] = w \o SubSeq(all, 1, 0)
      BY <1>1, <1>4, <2>2, <3>1, ConcatEmptySeq
    <3> QED BY <3>2
  <2>3. CASE wire' = [wire EXCEPT !["VM"] = @ \o all]
    <3>1. SubSeq(all, 1, Len(all)) = all
      BY <1>4
    <3>2. Len(all) \in 0..Len(all)
      BY <1>4
    <3>3. wire'["VM"] = w \o SubSeq(all, 1, Len(all))
      BY <2>3, <3>1 DEF TypeOK, NetTypeOK, Stacks
    <3> QED BY <3>2, <3>3
  <2>4. ASSUME NEW n \in 1..(Len(all) - 1), wire' = [wire EXCEPT !["VM"] = @ \o SubSeq(all, 1, n)]
        PROVE  \E k \in 0..Len(all) : wire'["VM"] = w \o SubSeq(all, 1, k)
    <3>1. n \in 0..Len(all)
      BY <1>4
    <3>2. wire'["VM"] = w \o SubSeq(all, 1, n)
      BY <2>4 DEF TypeOK, NetTypeOK, Stacks
    <3> QED BY <3>1, <3>2
  <2> QED BY <2>1, <2>2, <2>3, <2>4 DEF OS_Socket_write
<1>6. \E k \in 0..Len(data) : WithoutFiller(wire["VM"])' = WithoutFiller(w) \o SubSeq(data, 1, k)
  <2>1. PICK n \in 0..Len(all) : wire'["VM"] = w \o SubSeq(all, 1, n)
    BY <1>5
  <2>2. \E k \in 0..Len(data) :
           WithoutFiller(w \o SubSeq(all, 1, n)) = WithoutFiller(w) \o SubSeq(data, 1, k)
    <3> HIDE DEF w, data
    <3> QED BY <1>1, PaddedWrite
  <2> QED BY <2>1, <2>2 DEF WithoutFiller
<1>7. PICK k \in 0..Len(data) : WithoutFiller(wire["VM"])' = WithoutFiller(w) \o SubSeq(data, 1, k)
  BY <1>6
<1>8. \A i \in 1..k : data[i] \in Frame
  <2>1. \A i \in 1..k : i \in 1..Len(data)
    BY <1>1, LenProperties
  <2> QED BY <1>1, <2>1, ElementOfSeq
<1>9. sent'["PX4"] = sent["PX4"]
  BY <1>2
<1> HIDE DEF data
<1>10. PromiseBack!Next
  BY <1>1, <1>3, <1>7, <1>8, <1>9, PromiseBack!Delivering
<1> QED BY <1>10 DEF BackStep

\* A read moves data from the socket to the callback, or drops it when the VM
\* is not connected; the callback holds nothing when it reads.
LEMMA ReadBack ==
    ASSUME TypeOK, HoldsBack, PX4_Read
    PROVE  BackStep
<1>1. buf["PX4"] = <<>> /\ UNCHANGED ctx
  BY DEF PX4_Read, HoldsBack
<1> DEFINE h == ctx["PX4"].handle
<1>2. Back \in Seq(Frame) /\ UnderWayBack = Back
  <2>1. Back \in Seq(Frame) /\ UnderWayBack = <<>> \o Back
    BY <1>1, BackParts
  <2> QED BY <2>1, ConcatEmptySeq
<1>3. WithoutFiller(wire["VM"]) \in Seq(Frame \cup {Pad})
  BY BackParts
<1>4. CASE UNCHANGED <<netVars, buf>>
  <2>1. UnderWayBack' = UnderWayBack
    BY <1>1, <1>4 DEF UnderWayBack, WaitingOn, netVars
  <2>2. WithoutFiller(wire["VM"])' = WithoutFiller(wire["VM"]) /\ sent' = sent
    BY <1>4 DEF WithoutFiller, netVars
  <2> QED BY <2>1, <2>2 DEF BackStep, PromiseBack!vars
<1>5. ASSUME OS_Socket_read("PX4", h) PROVE BackStep
  <2>1. /\ UNCHANGED <<wire, sent>>
        /\ Arrived("PX4", h) \in Seq(Frame) /\ Back' \in Seq(Frame)
        /\ Back = Arrived("PX4", h) \o Back'
    BY <1>1, <1>5, ReadWaiting DEF Back, TypeOK, Stacks
  <2>2. WithoutFiller(wire["VM"])' = WithoutFiller(wire["VM"])
    BY <2>1 DEF WithoutFiller
  <2>3. UnderWayBack' = buf'["PX4"] \o Back'
    BY <1>1 DEF UnderWayBack, Back, Answering, WaitingOn
  <2>4. CASE buf' = [buf EXCEPT !["PX4"] = Arrived("PX4", h)]
    <3>1. buf'["PX4"] = Arrived("PX4", h)
      BY <2>4 DEF TypeOK, Stacks
    <3>2. UnderWayBack' = UnderWayBack
      BY <1>2, <2>1, <2>3, <3>1
    <3> QED BY <2>1, <2>2, <3>2 DEF BackStep, PromiseBack!vars
  <2>5. CASE UNCHANGED buf
    <3>1. UnderWayBack' = Back'
      BY <1>1, <2>1, <2>3, <2>5, ConcatEmptySeq
    <3> DEFINE a == Arrived("PX4", h)
               b == Back'
    <3>2. /\ a \in Seq(Frame) /\ b \in Seq(Frame) /\ UnderWayBack = a \o b /\ UnderWayBack' = b
          /\ sent'["PX4"] = sent["PX4"]
      BY <1>2, <2>1, <3>1
    <3> HIDE DEF a, b
    <3>3. PromiseBack!Next
      BY <1>3, <2>2, <3>2, PromiseBack!LosingPart
    <3> QED BY <3>3 DEF BackStep
  <2> QED BY <1>5, <2>4, <2>5 DEF PX4_Read, ReadFails, netVars
<1> QED BY <1>4, <1>5 DEF PX4_Read

\* The PX4 callback: it reads and writes in the order of the socket, and a
\* connection that ends takes along what it has not read.
LEMMA PX4Back ==
    ASSUME TypeOK, HoldsBack, PX4Callback
    PROVE  BackStep /\ HoldsBack'
<1>1. "PX4" \in Stacks /\ "PX4" \in Threads
  BY DEF Stacks, Threads
<1>2. ASSUME NEW label, Goto("PX4", label) PROVE pc'["PX4"] = label
  BY <1>1, <1>2 DEF Goto, TypeOK, HelperTypeOK
<1>3. CASE PX4_Read
  <2>1. buf["PX4"] = <<>>
    BY <1>3 DEF PX4_Read, HoldsBack
  <2>2. buf'["PX4"] = buf["PX4"] \/ pc'["PX4"] = "write"
    BY <1>2, <1>3 DEF PX4_Read
  <2> QED BY <1>3, <2>1, <2>2, ReadBack DEF HoldsBack
<1>4. CASE PX4_Write
  <2>1. buf'["PX4"] = <<>>
    BY <1>1, <1>4 DEF PX4_Write, TypeOK
  <2> QED BY <1>4, <2>1, WriteBack DEF HoldsBack
<1>5. ASSUME PX4_Close \/ PX4_ConnEst \/ PX4_Ignore PROVE BackStep /\ HoldsBack'
  <2>1. UNCHANGED <<buf, wire, sent>>
    BY <1>5 DEF PX4_Close, PX4_ConnEst, PX4_Ignore, bufVars, netVars, OS_Socket_close
  <2>2. HoldsBack'
    BY <1>5, <2>1 DEF PX4_Close, PX4_ConnEst, PX4_Ignore, HoldsBack
  <2>3. ctx'["PX4"].handle = ctx["PX4"].handle
    BY <1>1, <1>5 DEF PX4_Close, PX4_ConnEst, PX4_Ignore, TypeOK, HelperTypeOK, SocketContext
  <2>4. InputKept("PX4")
    <3>1. UNCHANGED sk \/ \E ok \in BOOLEAN : OS_Socket_close("PX4", ctx["PX4"].handle, ok)
      BY <1>5 DEF PX4_Close, PX4_ConnEst, PX4_Ignore, netVars
    <3>2. CASE UNCHANGED sk
      BY <3>2 DEF InputKept
    <3> QED BY <1>1, <3>1, <3>2, CloseInput DEF TypeOK
  <2>5. Back' \in {Back, <<>>}
    BY <1>1, <2>3, <2>4, WaitingKept DEF Back
  <2> QED BY <2>1, <2>2, <2>5, BackKept
<1> QED BY <1>3, <1>4, <1>5 DEF PX4Callback

\* Every step of SerialFilter is a step of this relay too, or none.
LEMMA StepBack ==
    ASSUME TypeOK, HoldsBack, [Next]_vars
    PROVE  BackStep /\ HoldsBack'
<1>1. CASE UNCHANGED vars
  <2>1. UnderWayBack' = UnderWayBack /\ UNCHANGED <<sent, wire>> /\ HoldsBack'
    BY <1>1 DEF vars, netVars, UnderWayBack, WaitingOn, HoldsBack
  <2>2. WithoutFiller(wire["VM"])' = WithoutFiller(wire["VM"])
    BY <2>1 DEF WithoutFiller
  <2> QED BY <2>1, <2>2 DEF BackStep, PromiseBack!vars
<1> QED BY <1>1, NextCases, LoopBack, InitialiseBack, PX4Back, VMBack, EnvironmentBack

\* Nothing is under way at first.
LEMMA InitBack == Init => PromiseBack!Init /\ HoldsBack
<1> SUFFICES ASSUME Init PROVE PromiseBack!Init /\ HoldsBack
  OBVIOUS
<1>1. "VM" \in Stacks /\ "PX4" \in Stacks
  BY DEF Stacks
<1>2. sent["PX4"] = <<>> /\ wire["VM"] = <<>> /\ buf["PX4"] = <<>>
  BY <1>1 DEF Init, NetInit
<1>3. ctx["PX4"].handle \notin Handles
  BY <1>1, NetAssumption DEF Init, InitialContext, NoHandle
<1>4. UnderWayBack = <<>>
  BY <1>2, <1>3 DEF UnderWayBack, WaitingOn
<1>5. WithoutFiller(wire["VM"]) = <<>>
  <2>1. {i \in DOMAIN wire["VM"] : wire["VM"][i] # Pad} = {}
    BY <1>2
  <2> QED BY <2>1, KeepNothing DEF WithoutFiller, Without
<1> QED BY <1>2, <1>4, <1>5 DEF PromiseBack!Init, HoldsBack

\* SerialFilter does what the relay promises from PX4 to the VM.
LEMMA ImplementsPromiseBack == Spec => PromiseBack!Spec
<1>1. TypeOK /\ HoldsBack /\ [Next]_vars => [PromiseBack!Next]_(PromiseBack!vars) /\ HoldsBack'
  BY StepBack DEF BackStep
<1> QED BY <1>1, TypeCorrect, InitBack, PTL DEF Spec, PromiseBack!Spec

-----------------------------------------------------------------------------
\* The instances mean the same by the size of a set and by what is kept.
LEMMA SameKeep ==
    /\ \A S : /\ Relay!Cardinality(S) = Cardinality(S) /\ Promise!Cardinality(S) = Cardinality(S)
              /\ RelayBack!Cardinality(S) = Cardinality(S)
              /\ PromiseBack!Cardinality(S) = Cardinality(S)
    /\ \A seq, K : /\ Relay!Keep(seq, K) = Promise!Keep(seq, K)
                   /\ RelayBack!Keep(seq, K) = PromiseBack!Keep(seq, K)
<1>1. ASSUME NEW S
      PROVE  /\ Relay!Cardinality(S) = Cardinality(S) /\ Promise!Cardinality(S) = Cardinality(S)
             /\ RelayBack!Cardinality(S) = Cardinality(S)
             /\ PromiseBack!Cardinality(S) = Cardinality(S)
  BY DEF Cardinality, Relay!Cardinality, Promise!Cardinality, RelayBack!Cardinality,
         PromiseBack!Cardinality
<1>2. ASSUME NEW seq, NEW K PROVE Relay!Keep(seq, K) = Promise!Keep(seq, K)
  BY DEF Relay!Keep, Promise!Keep, Relay!Cardinality, Promise!Cardinality
<1>3. ASSUME NEW seq, NEW K PROVE RelayBack!Keep(seq, K) = PromiseBack!Keep(seq, K)
  BY DEF RelayBack!Keep, PromiseBack!Keep, RelayBack!Cardinality, PromiseBack!Cardinality
<1> QED BY <1>1, <1>2, <1>3

\* SerialFilter implements the abstract relay, once each way: whatever fails
\* and however often either side reconnects, every step sends, delivers or
\* loses messages as FilteredRelay allows, or does none of these.
THEOREM ImplementsRelayHolds == Spec => ImplementsRelay
<1>1. (Promise!Init => Relay!Init) /\ (PromiseBack!Init => RelayBack!Init)
  BY DEF Promise!Init, Relay!Init, PromiseBack!Init, RelayBack!Init
<1>2. [Promise!Next]_(Promise!vars) => [Relay!Next]_(Relay!vars)
  <2>1. ASSUME NEW n \in 0..Len(UnderWay), Promise!Relay(n) PROVE Relay!Relay(n)
    BY <2>1, SameKeep DEF Promise!Relay, Relay!Relay
  <2>2. ASSUME NEW m \in Frames["VM"], Promise!Send(m) PROVE Relay!Send(m)
    BY <2>2 DEF Promise!Send, Relay!Send
  <2> QED BY <2>1, <2>2 DEF Promise!Next, Relay!Next, Promise!vars, Relay!vars
<1>3. [PromiseBack!Next]_(PromiseBack!vars) => [RelayBack!Next]_(RelayBack!vars)
  <2>1. ASSUME NEW n \in 0..Len(UnderWayBack), PromiseBack!Relay(n) PROVE RelayBack!Relay(n)
    BY <2>1, SameKeep DEF PromiseBack!Relay, RelayBack!Relay
  <2>2. ASSUME NEW m \in Frames["PX4"], PromiseBack!Send(m) PROVE RelayBack!Send(m)
    BY <2>2 DEF PromiseBack!Send, RelayBack!Send
  <2> QED BY <2>1, <2>2 DEF PromiseBack!Next, RelayBack!Next, PromiseBack!vars, RelayBack!vars
<1>4. Spec => Relay!Spec
  BY <1>1, <1>2, ImplementsPromise, PTL DEF Promise!Spec, Relay!Spec
<1>5. Spec => RelayBack!Spec
  BY <1>1, <1>3, ImplementsPromiseBack, PTL DEF PromiseBack!Spec, RelayBack!Spec
<1> QED BY <1>4, <1>5 DEF ImplementsRelay

\* Each side receives what the other sent in the order in which it was sent,
\* none twice and none made up, through any losses, cut writes and
\* reconnections; what the VM receives has filler in between.
THEOREM RelayInOrderHolds == Spec => []RelayInOrder
<1>1. Promise!InOrder(wire["PX4"], sent["VM"]) => InOrder(wire["PX4"], sent["VM"])
  BY SameKeep DEF Promise!InOrder, InOrder
<1>2. PromiseBack!InOrder(WithoutFiller(wire["VM"]), sent["PX4"])
         => InOrder(WithoutFiller(wire["VM"]), sent["PX4"])
  BY SameKeep DEF PromiseBack!InOrder, InOrder
<1>3. (/\ Promise!InOrder(wire["PX4"], sent["VM"])
       /\ PromiseBack!InOrder(WithoutFiller(wire["VM"]), sent["PX4"])) => RelayInOrder
  BY <1>1, <1>2 DEF RelayInOrder
<1> QED BY <1>3, ImplementsPromise, ImplementsPromiseBack, Promise!DeliversInOrder,
           PromiseBack!DeliversInOrder, PTL
=============================================================================
