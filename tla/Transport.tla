------------------------------ MODULE Transport ------------------------------
(***************************************************************************)
(* The RPC handler of src/src/peer/rpc.go: Sync, ForceSync and FastForward *)
(* each call process -> send, which hands a ticket (the request and a      *)
(* fresh reply channel of capacity 1) to the node over the receiver        *)
(* channel and waits for the reply, each under a timer:                    *)
(*                                                                         *)
(*   select { receiver <- ticket | <-timer.C: ErrReceiverIsBusy           *)
(*          | <-done: ErrTransportStopped }                               *)
(*   timer.Reset(processTimeout)                                           *)
(*   select { result = <-reply | <-timer.C: ErrProcessingTimeout          *)
(*          | <-done: ErrTransportStopped }                               *)
(*                                                                         *)
(* Every RPC is served on its own goroutine (a caller c), and a caller     *)
(* makes its calls one after the other.  Each select case is an action of  *)
(* its own, enabled when its channel is ready; Go picks any ready case.   *)
(* The node loop that reads the receiver channel, runs the request and     *)
(* answers on the reply channel is outside src/ and modelled from the      *)
(* spec (section 6, Sync RPC; section 5, shutdown between iterations).    *)
(*                                                                         *)
(* A timer is abstracted to the timeout it is running ("recv" or "proc")   *)
(* and its channel to the timeout whose tick it holds.  time.Timer.Reset   *)
(* does not drain a tick that is already in the channel before Go 1.23;   *)
(* since Go 1.23 it does.  The constant ResetDrains picks the build.       *)
(***************************************************************************)
EXTENDS Naturals

CONSTANTS
    Callers,       \* goroutines serving incoming RPCs, as model values
    MaxCalls,      \* bound on the calls each of them makes
    ResetDrains    \* TRUE: timer.Reset discards a pending tick (Go >= 1.23)

\* A ticket is the k-th call of caller c; its reply channel is its own.
Tickets == Callers \X (1 .. MaxCalls)
NoTicket == <<>>

\* "off": no timer running / no tick in the channel.
TimerState == {"off", "recv", "proc"}

\* What the node put in a reply channel: nothing yet, a response, or the
\* handler's error.
ReplyVal == {"none", "ok", "err"}

\* What a call returns: the response, the handler's error, or one of
\* ErrReceiverIsBusy, ErrTransportStopped, ErrProcessingTimeout.
Outcome == {"none", "ok", "err", "busy", "stopped", "ptimeout"}

VARIABLES
    pc,        \* pc[c]: "idle", "offer" (first select), "wait" (second)
    calls,     \* calls[c]: number of calls caller c has started
    timer,     \* timer[c]: the timeout caller c's timer is running
    tick,      \* tick[c]: the tick waiting in caller c's timer channel
    replies,   \* replies[t]: the content of ticket t's reply channel
    applied,   \* tickets whose request the node has run
    result,    \* result[c]: what caller c's last call returned
    nodeBusy,  \* the ticket the node loop is running, or NoTicket
    serving,   \* the node loop reads the receiver channel
    done       \* the transport's done channel is closed

tvars == <<pc, calls, timer, tick, replies, applied, result, nodeBusy, serving, done>>

\* The ticket of caller c's current call.
Current(c) == <<c, calls[c]>>

-----------------------------------------------------------------------------
\* NewDAG1: no call in progress, the transport open but not yet served.
Init ==
    /\ pc = [c \in Callers |-> "idle"]
    /\ calls = [c \in Callers |-> 0]
    /\ timer = [c \in Callers |-> "off"]
    /\ tick = [c \in Callers |-> "off"]
    /\ replies = [t \in Tickets |-> "none"]
    /\ applied = {}
    /\ result = [c \in Callers |-> "none"]
    /\ nodeBusy = NoTicket
    /\ serving = FALSE
    /\ done = FALSE

\* send: reply := make(chan *RPCResponse, 1); ticket := &RPC{req, reply}.
NewTicket(c) == <<c, calls[c] + 1>>

\* Sync, ForceSync or FastForward called: process -> send builds the
\* ticket and starts the receive timer.
Call(c) ==
    /\ pc[c] = "idle"
    /\ calls[c] < MaxCalls
    /\ pc' = [pc EXCEPT ![c] = "offer"]
    /\ calls' = [calls EXCEPT ![c] = NewTicket(c)[2]]
    /\ timer' = [timer EXCEPT ![c] = "recv"]
    /\ tick' = [tick EXCEPT ![c] = "off"]
    /\ UNCHANGED <<replies, applied, result, nodeBusy, serving, done>>

\* The runtime fires a running timer.  Its channel has capacity 1 and the
\* runtime's send does not block: a tick finding the channel full is lost.
Fire(c) ==
    /\ pc[c] \in {"offer", "wait"}
    /\ timer[c] # "off"
    /\ tick' = [tick EXCEPT ![c] = IF @ = "off" THEN timer[c] ELSE @]
    /\ timer' = [timer EXCEPT ![c] = "off"]
    /\ UNCHANGED <<pc, calls, replies, applied, result, nodeBusy, serving, done>>

\* timer.Reset(processTimeout): the tick left in the channel, if any.
ResetTick(c) == IF ResetDrains THEN "off" ELSE tick[c]

\* The call returns o: process passes the RPCResponse's error or response
\* up, and the method wrapper returns it to the RPC server.
Return(c, o) ==
    /\ pc' = [pc EXCEPT ![c] = "idle"]
    /\ result' = [result EXCEPT ![c] = o]

\* First select, case r.receiver <- ticket: the node loop takes the ticket
\* (the receiver channel is unbuffered); then timer.Reset.
Handoff(c) ==
    /\ pc[c] = "offer"
    /\ serving
    /\ nodeBusy = NoTicket
    /\ nodeBusy' = Current(c)
    /\ pc' = [pc EXCEPT ![c] = "wait"]
    /\ timer' = [timer EXCEPT ![c] = "proc"]
    /\ tick' = [tick EXCEPT ![c] = ResetTick(c)]
    /\ UNCHANGED <<calls, replies, applied, result, serving, done>>

\* Mutant: one timeout for both selects, reported as ErrReceiverIsBusy.
ReceiveTimeoutAnyStage(c) ==
    /\ pc[c] \in {"offer", "wait"}
    /\ tick[c] # "off"
    /\ Return(c, "busy")
    /\ tick' = [tick EXCEPT ![c] = "off"]
    /\ UNCHANGED <<calls, timer, replies, applied, nodeBusy, serving, done>>

\* First select, case <-timer.C: ErrReceiverIsBusy.
ReceiveTimeout(c) ==
    /\ pc[c] = "offer"
    /\ tick[c] # "off"
    /\ Return(c, "busy")
    /\ tick' = [tick EXCEPT ![c] = "off"]
    /\ UNCHANGED <<calls, timer, replies, applied, nodeBusy, serving, done>>

\* First select, case <-r.done: ErrTransportStopped.
StopWhileOffering(c) ==
    /\ pc[c] = "offer"
    /\ done
    /\ Return(c, "stopped")
    /\ UNCHANGED <<calls, timer, tick, replies, applied, nodeBusy, serving, done>>

\* Second select, case result = <-reply.
ReceiveReply(c) ==
    /\ pc[c] = "wait"
    /\ replies[Current(c)] # "none"
    /\ Return(c, replies[Current(c)])
    /\ UNCHANGED <<calls, timer, tick, replies, applied, nodeBusy, serving, done>>

\* Second select, case <-timer.C: ErrProcessingTimeout.
ProcessTimeout(c) ==
    /\ pc[c] = "wait"
    /\ tick[c] # "off"
    /\ Return(c, "ptimeout")
    /\ tick' = [tick EXCEPT ![c] = "off"]
    /\ UNCHANGED <<calls, timer, replies, applied, nodeBusy, serving, done>>

\* Second select, case <-r.done: ErrTransportStopped.
StopWhileWaiting(c) ==
    /\ pc[c] = "wait"
    /\ done
    /\ Return(c, "stopped")
    /\ UNCHANGED <<calls, timer, tick, replies, applied, nodeBusy, serving, done>>

-----------------------------------------------------------------------------
\* Mutant: an unbuffered reply channel; the node's send waits for the caller.
CanReplyUnbuffered(t) == replies[t] = "none" /\ pc[t[1]] = "wait" /\ calls[t[1]] = t[2]

\* The reply channel has capacity 1 and only the node writes it once: the
\* node's send never blocks, whether or not the caller still waits.
CanReply(t) == replies[t] = "none"

\* The node loop runs the request of the ticket it took and answers it,
\* with a response or with the handler's error.
NodeHandle ==
    /\ nodeBusy # NoTicket
    /\ CanReply(nodeBusy)
    /\ \E r \in {"ok", "err"} : replies' = [replies EXCEPT ![nodeBusy] = r]
    /\ applied' = applied \cup {nodeBusy}
    /\ nodeBusy' = NoTicket
    /\ UNCHANGED <<pc, calls, timer, tick, result, serving, done>>

\* The node starts its loop over the receiver channel.
Open ==
    /\ ~serving
    /\ ~done
    /\ serving' = TRUE
    /\ UNCHANGED <<pc, calls, timer, tick, replies, applied, result, nodeBusy, done>>

\* Shutdown closes done; the loop stops reading the receiver channel (it
\* finishes a request it is running).
Close ==
    /\ ~done
    /\ done' = TRUE
    /\ serving' = FALSE
    /\ UNCHANGED <<pc, calls, timer, tick, replies, applied, result, nodeBusy>>

CallerStep(c) ==
    \/ Call(c)
    \/ Fire(c)
    \/ Handoff(c)
    \/ ReceiveTimeout(c)
    \/ StopWhileOffering(c)
    \/ ReceiveReply(c)
    \/ ProcessTimeout(c)
    \/ StopWhileWaiting(c)

Next ==
    \/ \E c \in Callers : CallerStep(c)
    \/ NodeHandle
    \/ Open
    \/ Close

Spec == Init /\ [][Next]_tvars

-----------------------------------------------------------------------------
\* Type invariant.
TypeOK ==
    /\ pc \in [Callers -> {"idle", "offer", "wait"}]
    /\ calls \in [Callers -> 0 .. MaxCalls]
    /\ timer \in [Callers -> TimerState]
    /\ tick \in [Callers -> TimerState]
    /\ replies \in [Tickets -> ReplyVal]
    /\ applied \subseteq Tickets
    /\ result \in [Callers -> Outcome]
    /\ nodeBusy \in Tickets \cup {NoTicket}
    /\ serving \in BOOLEAN
    /\ done \in BOOLEAN

\* ErrProcessingTimeout says the node took longer than processTimeout: a
\* call only returns it on a tick of the processing timer started by
\* timer.Reset, never on a tick the receive timer left in the channel.
ProcessTimeoutGenuine ==
    [][\A c \in Callers : ProcessTimeout(c) => tick[c] = "proc"]_tvars

=============================================================================
