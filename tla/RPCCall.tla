------------------------------- MODULE RPCCall -------------------------------
(***************************************************************************)
(* What one RPC of the sync protocol promises its caller, whatever the     *)
(* transport does: the request runs at most once; a response or the        *)
(* handler's error means it ran; ErrReceiverIsBusy means it never will, so *)
(* the caller may send it again; a processing timeout or a stop leaves it  *)
(* open whether it ran or will run.                                        *)
(***************************************************************************)
EXTENDS Naturals

CONSTANTS Callers, MaxCalls

VARIABLES
    status,    \* status[c]: "idle" or "pending"
    calls,     \* calls[c]: number of calls caller c has made
    executed,  \* calls whose request has run
    dropped,   \* calls whose request will never run
    result     \* result[c]: what caller c's last call returned

avars == <<status, calls, executed, dropped, result>>

Calls == Callers \X (1 .. MaxCalls)

Issued == {t \in Calls : t[2] <= calls[t[1]]}

Init ==
    /\ status = [c \in Callers |-> "idle"]
    /\ calls = [c \in Callers |-> 0]
    /\ executed = {}
    /\ dropped = {}
    /\ result = [c \in Callers |-> "none"]

Invoke(c) ==
    /\ status[c] = "idle"
    /\ calls[c] < MaxCalls
    /\ status' = [status EXCEPT ![c] = "pending"]
    /\ calls' = [calls EXCEPT ![c] = @ + 1]
    /\ UNCHANGED <<executed, dropped, result>>

\* A request runs at most once, and never after it was refused.
Execute(t) ==
    /\ t \in Issued \ (executed \cup dropped)
    /\ executed' = executed \cup {t}
    /\ UNCHANGED <<status, calls, dropped, result>>

Finish(c, o) ==
    /\ status[c] = "pending"
    /\ status' = [status EXCEPT ![c] = "idle"]
    /\ result' = [result EXCEPT ![c] = o]
    /\ UNCHANGED calls

\* A response, or the handler's error: the request has run.
Answer(c) ==
    /\ <<c, calls[c]>> \in executed
    /\ \E o \in {"ok", "err"} : Finish(c, o)
    /\ UNCHANGED <<executed, dropped>>

\* Refused before the node took it: it will never run.
Refuse(c) ==
    /\ <<c, calls[c]>> \notin executed
    /\ \E o \in {"busy", "stopped"} : Finish(c, o)
    /\ dropped' = dropped \cup {<<c, calls[c]>>}
    /\ UNCHANGED executed

\* Given up on: it may have run, or run later.
GiveUp(c) ==
    /\ \E o \in {"ptimeout", "stopped"} : Finish(c, o)
    /\ UNCHANGED <<executed, dropped>>

Next ==
    \/ \E c \in Callers : Invoke(c) \/ Answer(c) \/ Refuse(c) \/ GiveUp(c)
    \/ \E t \in Calls : Execute(t)

Spec == Init /\ [][Next]_avars
=============================================================================
