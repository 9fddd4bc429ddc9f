------------------------------- MODULE NodeRPC -------------------------------
(***************************************************************************)
(* A node and its RPC transport together.  The transport's node loop reads *)
(* the receiver channel while the node runs (Node.Run, engine.Run), and    *)
(* node.Shutdown closes the transport's done channel.  Incoming RPCs are   *)
(* served from the moment the node runs; calls in flight when it stops     *)
(* finish through their select on done or a timer.                        *)
(***************************************************************************)
EXTENDS Naturals

CONSTANTS Callers, MaxCalls, ResetDrains

ASSUME ConstantsAssumption == MaxCalls \in Nat /\ ResetDrains \in BOOLEAN

VARIABLES
    pc, calls, timer, tick, replies, applied, result, nodeBusy, serving, done,
    entry, launch, exception, cmdErr, exitCode

T == INSTANCE Transport
L == INSTANCE Launch

tvars == <<pc, calls, timer, tick, replies, applied, result, nodeBusy, serving, done>>
lvars == <<entry, launch, exception, cmdErr, exitCode>>
vars == <<tvars, lvars>>

Init == T!Init /\ L!Init

\* A start or stop of the node, with its effect on the transport.
LaunchStep ==
    /\ L!Next
    /\ \/ launch' = "running" /\ T!Open
       \/ launch' = "stopped" /\ T!Close
       \/ launch' \notin {"running", "stopped"} /\ UNCHANGED tvars
       \/ launch' = launch /\ UNCHANGED tvars

\* A new RPC only arrives while the node runs; every other transport step
\* goes on whatever the node does.
TransportStep ==
    /\ \/ \E c \in Callers : T!Call(c) /\ launch = "running"
       \/ \E c \in Callers : T!CallerStep(c) /\ pc[c] # "idle"
       \/ T!NodeHandle
    /\ UNCHANGED lvars

Next == LaunchStep \/ TransportStep

Spec == Init /\ [][Next]_vars

-----------------------------------------------------------------------------
\* Type invariant.
TypeOK == T!TypeOK /\ L!TypeOK

\* The calls of the abstract specification RPCCall: a call is pending
\* while its goroutine is in one of the two selects; a call the node never
\* took and that is over will never run.
Pending(c) == pc[c] # "idle"

Dropped ==
    {t \in T!Tickets : /\ t[2] <= calls[t[1]]
                       /\ ~(t = T!Current(t[1]) /\ pc[t[1]] = "offer")
                       /\ t \notin applied
                       /\ t # nodeBusy}

Abs == INSTANCE RPCCall WITH
    status <- [c \in Callers |-> IF Pending(c) THEN "pending" ELSE "idle"],
    executed <- applied,
    dropped <- Dropped

\* The transport keeps the promises of an RPC: a request runs at most
\* once; a response means it ran; ErrReceiverIsBusy, or a stop before the
\* node took it, means it never runs.
RPCRefinement == Abs!Spec

\* The node loop answers on the reply channel whether or not the caller
\* still waits (it may have timed out or stopped): that send never blocks,
\* because the reply channel of the ticket the node runs is still empty.
NodeReplyNeverBlocks == nodeBusy # T!NoTicket => T!CanReply(nodeBusy)

\* ErrProcessingTimeout only on a tick of the processing timer.
ProcessTimeoutGenuine == T!ProcessTimeoutGenuine
=============================================================================
