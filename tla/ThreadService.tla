---------------------------- MODULE ThreadService ----------------------------
(***************************************************************************)
(* What libthread promises the one client that uses it: its functions run  *)
(* in threads, a thread is made, held, released and joined only when the   *)
(* client asks for it, and a call returns when what it asked for is so.    *)
(*                                                                         *)
(* A call takes effect at some time between its beginning and its end.     *)
(* The client asks for one thing at a time.                                *)
(***************************************************************************)
CONSTANTS Threads, NULL

VARIABLES
    phase,   \* how far each thread is with its function
    held,    \* whether each thread is kept from running
    call     \* what the client is waiting for, and of which thread

vars == <<phase, held, call>>

Phases == {"absent", "made", "returned", "dead"}

Calls == {"create", "pause", "resume", "join"}

TypeOK ==
    /\ phase \in [Threads -> Phases]
    /\ held \in [Threads -> BOOLEAN]
    /\ call \in (Calls \X Threads) \cup {NULL}

Init ==
    /\ phase = [t \in Threads |-> "absent"]
    /\ held = [t \in Threads |-> FALSE]
    /\ call = NULL

Begin(op, t) ==
    /\ call = NULL
    /\ op = "create" <=> phase[t] = "absent"
    /\ call' = <<op, t>>
    /\ UNCHANGED <<phase, held>>

\* A thread is made held, before the first step of its function.
Create(t) ==
    /\ call = <<"create", t>>
    /\ phase[t] = "absent"
    /\ phase' = [phase EXCEPT ![t] = "made"]
    /\ held' = [held EXCEPT ![t] = TRUE]
    /\ UNCHANGED call

Hold(t) ==
    /\ call = <<"pause", t>>
    /\ phase[t] \in {"made", "returned"}
    /\ held' = [held EXCEPT ![t] = TRUE]
    /\ UNCHANGED <<phase, call>>

Release(t) ==
    /\ call = <<"resume", t>>
    /\ held' = [held EXCEPT ![t] = FALSE]
    /\ UNCHANGED <<phase, call>>

\* What the client may rely on when a call returns.
Achieved(op, t) ==
    CASE op = "create" -> phase[t] = "made" /\ held[t]
      [] op = "pause" -> held[t] \/ phase[t] = "dead"
      [] op = "resume" -> ~held[t]
      [] op = "join" -> phase[t] = "dead"

End(op, t) ==
    /\ call = <<op, t>>
    /\ Achieved(op, t)
    /\ call' = NULL
    /\ UNCHANGED <<phase, held>>

\* A thread that is made to run is created, and then resumed.
GoOn(t) ==
    /\ call = <<"create", t>>
    /\ Achieved("create", t)
    /\ call' = <<"resume", t>>
    /\ UNCHANGED <<phase, held>>

\* The function returns, and the thread ends: neither while it is held.
Return(t) ==
    /\ phase[t] = "made" /\ ~held[t]
    /\ phase' = [phase EXCEPT ![t] = "returned"]
    /\ UNCHANGED <<held, call>>

Die(t) ==
    /\ phase[t] = "returned" /\ ~held[t]
    /\ phase' = [phase EXCEPT ![t] = "dead"]
    /\ UNCHANGED <<held, call>>

Next ==
    \E t \in Threads:
        \/ \E op \in Calls: Begin(op, t) \/ End(op, t)
        \/ Create(t) \/ GoOn(t)
        \/ Hold(t) \/ Release(t)
        \/ Return(t) \/ Die(t)

Spec == Init /\ [][Next]_vars
=============================================================================
