--------------------------- MODULE TransportProofs ---------------------------
(***************************************************************************)
(* Proofs about the node and its RPC transport (NodeRPC): the type         *)
(* invariant, and that every behaviour keeps the promises of RPCCall.     *)
(***************************************************************************)
EXTENDS NodeRPC, TLAPS

\* Every step of the node and of the goroutines serving RPCs keeps every
\* variable in its type.
LEMMA InitTypeOK == Init => TypeOK
<1> SUFFICES ASSUME Init PROVE TypeOK
    OBVIOUS
<1>1. T!TypeOK
      <2> USE DEF Init, T!Init, T!TypeOK
      <2>1. pc \in [Callers -> {"idle", "offer", "wait"}] OBVIOUS
      <2>2. calls \in [Callers -> 0 .. MaxCalls] BY ConstantsAssumption
      <2>3. timer \in [Callers -> T!TimerState] /\ tick \in [Callers -> T!TimerState]
            BY DEF T!TimerState
      <2>4. replies \in [T!Tickets -> T!ReplyVal] BY DEF T!ReplyVal
      <2>5. result \in [Callers -> T!Outcome] BY DEF T!Outcome
      <2>6. nodeBusy \in T!Tickets \cup {T!NoTicket} OBVIOUS
      <2>7. QED BY <2>1, <2>2, <2>3, <2>4, <2>5, <2>6
<1>2. L!TypeOK
      BY DEF Init, L!Init, L!TypeOK
<1>3. QED BY <1>1, <1>2 DEF TypeOK

(***************************************************************************)
(* TypeOK alone is not inductive: a caller in a select must have a call   *)
(* (so that its current ticket is a ticket).  IInv also records where a   *)
(* ticket can be, which the refinement needs: a reply only for a request  *)
(* that ran, requests only of calls that were made, the node's ticket not *)
(* yet run, a waiting caller's ticket taken by the node, and an offering  *)
(* caller's ticket not.                                                    *)
(***************************************************************************)
IInv ==
    /\ TypeOK
    /\ \A c \in Callers : pc[c] # "idle" => calls[c] >= 1
    /\ \A t \in T!Tickets : replies[t] # "none" => t \in applied
    /\ \A t \in applied : t[2] <= calls[t[1]]
    /\ nodeBusy # T!NoTicket => nodeBusy \notin applied /\ nodeBusy[2] <= calls[nodeBusy[1]]
    /\ \A c \in Callers : pc[c] = "wait" => T!Current(c) \in applied \cup {nodeBusy}
    /\ \A c \in Callers : pc[c] = "offer" => T!Current(c) \notin applied \cup {nodeBusy}

LEMMA InitIInv == Init => IInv
BY InitTypeOK DEF Init, T!Init, IInv, T!NoTicket

\* Under IInv, every step keeps every variable in its type.
LEMMA NextTypeOKFromIInv == IInv /\ [Next]_vars => TypeOK'
<1> SUFFICES ASSUME IInv, [Next]_vars PROVE TypeOK'
    OBVIOUS
<1> USE ConstantsAssumption
<1>1. CASE LaunchStep
      <2>1. L!TypeOK'
            BY <1>1 DEF LaunchStep, L!Next, L!TypeOK, IInv, TypeOK, L!MobileNew, L!MobileFail,
               L!MobileRun, L!MobileShutdown, L!RunDAG1, L!RunSingleDAG1,
               L!BindFlagsLoadViper, L!CliShutdown, L!MainExit, L!Running
      <2>2. T!TypeOK'
            BY <1>1 DEF LaunchStep, T!Open, T!Close, T!TypeOK, IInv, TypeOK, tvars
      <2>3. QED BY <2>1, <2>2 DEF TypeOK
<1>2. CASE TransportStep
      <2> USE DEF IInv, TypeOK, T!TypeOK, T!Tickets, T!NoTicket, T!TimerState, T!ReplyVal,
                  T!Outcome, T!Current, T!Return
      <2>1. L!TypeOK'
            BY <1>2 DEF TransportStep, L!TypeOK, lvars
      <2>2. ASSUME NEW c \in Callers, T!Call(c) PROVE T!TypeOK'
            BY <2>2 DEF T!Call, T!NewTicket
      <2>3. ASSUME NEW c \in Callers, T!Fire(c) PROVE T!TypeOK'
            BY <2>3 DEF T!Fire
      <2>4. ASSUME NEW c \in Callers, T!Handoff(c) PROVE T!TypeOK'
            BY <2>4 DEF T!Handoff, T!ResetTick
      <2>5. ASSUME NEW c \in Callers, T!ReceiveTimeout(c) PROVE T!TypeOK'
            BY <2>5 DEF T!ReceiveTimeout
      <2>6. ASSUME NEW c \in Callers, T!StopWhileOffering(c) PROVE T!TypeOK'
            BY <2>6 DEF T!StopWhileOffering
      <2>7. ASSUME NEW c \in Callers, T!ReceiveReply(c) PROVE T!TypeOK'
            BY <2>7 DEF T!ReceiveReply
      <2>8. ASSUME NEW c \in Callers, T!ProcessTimeout(c) PROVE T!TypeOK'
            BY <2>8 DEF T!ProcessTimeout
      <2>9. ASSUME NEW c \in Callers, T!StopWhileWaiting(c) PROVE T!TypeOK'
            BY <2>9 DEF T!StopWhileWaiting
      <2>10. ASSUME T!NodeHandle PROVE T!TypeOK'
            BY <2>10 DEF T!NodeHandle, T!CanReply
      <2>11. T!TypeOK'
            BY <1>2, <2>2, <2>3, <2>4, <2>5, <2>6, <2>7, <2>8, <2>9, <2>10
            DEF TransportStep, T!CallerStep
      <2>12. QED BY <2>1, <2>11 DEF TypeOK
<1>3. CASE UNCHANGED vars
      BY <1>3 DEF vars, tvars, lvars, IInv, TypeOK, T!TypeOK, L!TypeOK
<1>4. QED BY <1>1, <1>2, <1>3 DEF Next

\* Every step of the node and of the goroutines serving RPCs preserves IInv.
LEMMA NextIInv == IInv /\ [Next]_vars => IInv'
<1> SUFFICES ASSUME IInv, [Next]_vars PROVE IInv'
    OBVIOUS
<1> USE ConstantsAssumption
<1>0. TypeOK'
      BY NextTypeOKFromIInv
<1> USE DEF IInv, TypeOK, T!TypeOK, T!Tickets, T!NoTicket, T!Current
<1>1. CASE LaunchStep
      BY <1>0, <1>1 DEF LaunchStep, T!Open, T!Close, tvars
<1>2. ASSUME NEW c \in Callers, T!Call(c) PROVE IInv'
      <2> calls' = [calls EXCEPT ![c] = calls[c] + 1]
          BY <1>2 DEF T!Call, T!NewTicket
      <2> UNCHANGED <<replies, applied, nodeBusy>> /\ pc' = [pc EXCEPT ![c] = "offer"]
          BY <1>2 DEF T!Call
      <2>1. \A d \in Callers : pc'[d] # "idle" => calls'[d] >= 1
            OBVIOUS
      <2>2. \A t \in applied' : t[2] <= calls'[t[1]]
            OBVIOUS
      <2>3. nodeBusy' # T!NoTicket => nodeBusy' \notin applied' /\ nodeBusy'[2] <= calls'[nodeBusy'[1]]
            OBVIOUS
      <2>4. \A d \in Callers : pc'[d] = "wait" => T!Current(d)' \in applied' \cup {nodeBusy'}
            OBVIOUS
      <2>5. \A d \in Callers : pc'[d] = "offer" => T!Current(d)' \notin applied' \cup {nodeBusy'}
            <3> SUFFICES ASSUME NEW d \in Callers, pc'[d] = "offer"
                         PROVE  <<d, calls'[d]>> \notin applied \cup {nodeBusy}
                OBVIOUS
            <3>1. CASE d = c
                  BY <3>1
            <3>2. CASE d # c
                  BY <3>2
            <3>3. QED BY <3>1, <3>2
      <2>6. QED
            BY <1>0, <2>1, <2>2, <2>3, <2>4, <2>5
<1>3. ASSUME NEW c \in Callers, T!Fire(c) PROVE IInv'
      BY <1>0, <1>3 DEF T!Fire
<1>4. ASSUME NEW c \in Callers, T!Handoff(c) PROVE IInv'
      BY <1>0, <1>4 DEF T!Handoff
<1>5. ASSUME NEW c \in Callers, T!ReceiveTimeout(c) PROVE IInv'
      BY <1>0, <1>5 DEF T!ReceiveTimeout, T!Return
<1>6. ASSUME NEW c \in Callers, T!StopWhileOffering(c) PROVE IInv'
      BY <1>0, <1>6 DEF T!StopWhileOffering, T!Return
<1>7. ASSUME NEW c \in Callers, T!ReceiveReply(c) PROVE IInv'
      BY <1>0, <1>7 DEF T!ReceiveReply, T!Return
<1>8. ASSUME NEW c \in Callers, T!ProcessTimeout(c) PROVE IInv'
      BY <1>0, <1>8 DEF T!ProcessTimeout, T!Return
<1>9. ASSUME NEW c \in Callers, T!StopWhileWaiting(c) PROVE IInv'
      BY <1>0, <1>9 DEF T!StopWhileWaiting, T!Return
<1>10. ASSUME T!NodeHandle PROVE IInv'
      BY <1>0, <1>10 DEF T!NodeHandle, T!CanReply
<1>11. CASE UNCHANGED vars
      BY <1>0, <1>11 DEF vars, tvars
<1>12. QED
      BY <1>1, <1>2, <1>3, <1>4, <1>5, <1>6, <1>7, <1>8, <1>9, <1>10, <1>11
      DEF Next, TransportStep, T!CallerStep

\* Every reachable state satisfies IInv.
LEMMA AlwaysIInv == Spec => []IInv
BY InitIInv, NextIInv, PTL DEF Spec

\* The RPC transport never leaves a variable outside its type, whatever
\* the node, the timers and the goroutines do.
THEOREM TypeCorrect == Spec => []TypeOK
BY AlwaysIInv, PTL DEF IInv

\* The node loop's send on a reply channel never blocks, even when the
\* caller has timed out or stopped: the channel of the ticket the node
\* runs is empty, because only a run request gets a reply (IInv) and the
\* node's ticket has not run yet.
THEOREM ReplyNeverBlocks == Spec => []NodeReplyNeverBlocks
<1>1. IInv => NodeReplyNeverBlocks
      BY DEF IInv, TypeOK, T!TypeOK, T!Tickets, T!NoTicket, NodeReplyNeverBlocks, T!CanReply
<1>2. QED
      BY <1>1, AlwaysIInv, PTL

-----------------------------------------------------------------------------
(***************************************************************************)
(* The refinement: the initial state maps to the initial state of RPCCall, *)
(* and every step to a step of RPCCall or a stutter.  Abbreviations for   *)
(* the abstract state.                                                     *)
(***************************************************************************)
AStatus == [c \in Callers |-> IF Pending(c) THEN "pending" ELSE "idle"]
AVars == <<AStatus, calls, applied, Dropped, result>>

LEMMA InitRefines == Init => Abs!Init
BY DEF Init, T!Init, Abs!Init, AStatus, Pending, Dropped, T!Tickets

\* A step that changes none of pc, calls, applied, nodeBusy and result is
\* an abstract stutter.
LEMMA StutterRefines ==
    ASSUME UNCHANGED <<pc, calls, applied, nodeBusy, result>>
    PROVE  UNCHANGED AVars
BY DEF AVars, AStatus, Pending, Dropped, T!Current

\* Every step of the node with its transport is a step of RPCCall or
\* leaves the abstract state alone.
LEMMA NextRefines == IInv /\ [Next]_vars => [Abs!Next]_AVars
<1> SUFFICES ASSUME IInv, [Next]_vars PROVE [Abs!Next]_AVars
    OBVIOUS
<1> USE ConstantsAssumption DEF IInv, TypeOK, T!TypeOK, T!Tickets, T!NoTicket, T!Current
<1>1. CASE LaunchStep
      BY <1>1, StutterRefines DEF LaunchStep, T!Open, T!Close, tvars
<1>2. ASSUME NEW c \in Callers, T!Call(c) PROVE Abs!Invoke(c)
      <2>1. Dropped' = Dropped
            BY <1>2 DEF T!Call, T!NewTicket, Dropped
      <2>2. AStatus' = [AStatus EXCEPT ![c] = "pending"]
            BY <1>2 DEF T!Call, AStatus, Pending
      <2>3. QED
            BY <1>2, <2>1, <2>2 DEF T!Call, T!NewTicket, Abs!Invoke, AStatus, Pending
<1>3. ASSUME NEW c \in Callers, T!Fire(c) PROVE UNCHANGED AVars
      BY <1>3, StutterRefines DEF T!Fire
<1>4. ASSUME NEW c \in Callers, T!Handoff(c) PROVE UNCHANGED AVars
      <2>1. Dropped' = Dropped
            BY <1>4 DEF T!Handoff, Dropped
      <2>2. AStatus' = AStatus
            BY <1>4 DEF T!Handoff, AStatus, Pending
      <2>3. QED BY <1>4, <2>1, <2>2 DEF T!Handoff, AVars
<1>5. ASSUME NEW c \in Callers, NEW o \in {"busy", "stopped"},
             pc[c] = "offer", T!Return(c, o),
             UNCHANGED <<calls, applied, nodeBusy>>
      PROVE  Abs!Refuse(c)
      <2>1. Dropped' = Dropped \cup {<<c, calls[c]>>}
            BY <1>5 DEF T!Return, Dropped
      <2>2. AStatus' = [AStatus EXCEPT ![c] = "idle"]
            BY <1>5 DEF T!Return, AStatus, Pending
      <2>3. QED
            BY <1>5, <2>1, <2>2 DEF T!Return, Abs!Refuse, Abs!Finish, AStatus, Pending
<1>6. ASSUME NEW c \in Callers, NEW o \in {"ptimeout", "stopped"},
             pc[c] = "wait", T!Return(c, o),
             UNCHANGED <<calls, applied, nodeBusy>>
      PROVE  Abs!GiveUp(c)
      <2>1. Dropped' = Dropped
            BY <1>6 DEF T!Return, Dropped
      <2>2. AStatus' = [AStatus EXCEPT ![c] = "idle"]
            BY <1>6 DEF T!Return, AStatus, Pending
      <2>3. QED
            BY <1>6, <2>1, <2>2 DEF T!Return, Abs!GiveUp, Abs!Finish, AStatus, Pending
<1>7. ASSUME NEW c \in Callers, T!ReceiveReply(c) PROVE Abs!Answer(c)
      <2>1. Dropped' = Dropped
            BY <1>7 DEF T!ReceiveReply, T!Return, Dropped
      <2>2. AStatus' = [AStatus EXCEPT ![c] = "idle"]
            BY <1>7 DEF T!ReceiveReply, T!Return, AStatus, Pending
      <2>3. <<c, calls[c]>> \in applied /\ replies[<<c, calls[c]>>] \in {"ok", "err"}
            BY <1>7 DEF T!ReceiveReply, T!ReplyVal
      <2>4. QED
            BY <1>7, <2>1, <2>2, <2>3
            DEF T!ReceiveReply, T!Return, Abs!Answer, Abs!Finish, AStatus, Pending
<1>8. ASSUME T!NodeHandle PROVE Abs!Execute(nodeBusy)
      <2>1. Dropped' = Dropped
            BY <1>8 DEF T!NodeHandle, Dropped
      <2>2. nodeBusy \in Abs!Issued \ (applied \cup Dropped)
            BY <1>8 DEF T!NodeHandle, Abs!Issued, Abs!Calls, Dropped
      <2>3. QED
            BY <1>8, <2>1, <2>2 DEF T!NodeHandle, Abs!Execute, AStatus, Pending
<1>9. CASE TransportStep
      <2>1. ASSUME NEW c \in Callers, T!CallerStep(c), pc[c] # "idle"
            PROVE  [Abs!Next]_AVars
            <3>1. CASE T!Fire(c) BY <3>1, <1>3 DEF AVars
            <3>2. CASE T!Handoff(c) BY <3>2, <1>4 DEF AVars
            <3>3. CASE T!ReceiveTimeout(c)
                  BY <3>3, <1>5 DEF T!ReceiveTimeout, Abs!Next
            <3>4. CASE T!StopWhileOffering(c)
                  BY <3>4, <1>5 DEF T!StopWhileOffering, Abs!Next
            <3>5. CASE T!ReceiveReply(c)
                  BY <3>5, <1>7 DEF Abs!Next
            <3>6. CASE T!ProcessTimeout(c)
                  BY <3>6, <1>6 DEF T!ProcessTimeout, Abs!Next
            <3>7. CASE T!StopWhileWaiting(c)
                  BY <3>7, <1>6 DEF T!StopWhileWaiting, Abs!Next
            <3>8. QED
                  BY <2>1, <3>1, <3>2, <3>3, <3>4, <3>5, <3>6, <3>7 DEF T!CallerStep, T!Call
      <2>2. ASSUME NEW c \in Callers, T!Call(c) PROVE [Abs!Next]_AVars
            BY <2>2, <1>2 DEF Abs!Next
      <2>3. ASSUME T!NodeHandle PROVE [Abs!Next]_AVars
            <3>1. nodeBusy \in Abs!Calls
                  BY <2>3 DEF T!NodeHandle, Abs!Calls
            <3>2. QED BY <2>3, <1>8, <3>1 DEF Abs!Next
      <2>4. QED BY <1>9, <2>1, <2>2, <2>3 DEF TransportStep
<1>10. CASE UNCHANGED vars
      BY <1>10, StutterRefines DEF vars, tvars
<1>11. QED BY <1>1, <1>9, <1>10 DEF Next

\* The transport keeps the promises of an RPC (RPCCall): a request runs at
\* most once, a response means it ran, and ErrReceiverIsBusy, or a stop
\* before the node took the request, means it never runs.
\* In every behaviour, every step is a step of RPCCall or an abstract
\* stutter.
LEMMA AlwaysRefines == Spec => [][Abs!Next]_AVars
BY AlwaysIInv, NextRefines, PTL DEF Spec

THEOREM Refinement == Spec => RPCRefinement
<1>1. Init => Abs!Init
      BY InitRefines
<1>2. Spec => [][Abs!Next]_AVars
      BY AlwaysRefines
<1>3. [Abs!Next]_AVars <=> [Abs!Next]_(Abs!avars)
      BY DEF AVars, AStatus, Abs!avars
<1>4. QED
      BY <1>1, <1>2, <1>3, PTL DEF Spec, RPCRefinement, Abs!Spec

=====
