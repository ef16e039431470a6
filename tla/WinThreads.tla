----------------------------- MODULE WinThreads -----------------------------
(***************************************************************************)
(* The threads of WinAPI, on top of libthread: CreateThread, which never   *)
(* returns, and SuspendThread and ResumeThread, which count suspensions in *)
(* a THREAD_INFO.                                                          *)
(*                                                                         *)
(* threadpool::add calls the threadNew that takes a pointer to a function, *)
(* and that one calls itself.  So no THREAD_INFO of CreateThread's ever    *)
(* gets a handle, and those that SuspendThread and ResumeThread are given  *)
(* are the program's: it makes a thread by the threadNew that takes a      *)
(* std::function, counts its suspension as the end of add would, and puts  *)
(* the THREAD_INFO in a Kernel with newHandle.                             *)
(*                                                                         *)
(* A client's steps in libthread, and those of the manager and the threads *)
(* are the actions of ExecutionManager.  In the place of its C_Ask, which  *)
(* asks what it likes, come SuspendThread and ResumeThread.                *)
(***************************************************************************)
EXTENDS ExecutionManager

CONSTANT MaxCount   \* MAXIMUM_SUSPEND_COUNT

ASSUME CountAssumption == MaxCount \in Nat \ {0}

VARIABLES
    call,      \* where each client is in CreateThread
    count,     \* THREAD_INFO::suspend_count of each thread
    uncounted  \* history: the threads that SuspendThread paused at count 0

win == <<call, count, uncounted>>
winVars == <<vars, win>>

CallPC == {"none", "lock", "threadNew", "overflow"}

WinTypeOK ==
    /\ TypeOK
    /\ call \in [Clients -> CallPC]
    /\ count \in [Threads -> 0..MaxCount]
    /\ uncounted \in SUBSET Threads

WinInit ==
    /\ Init
    /\ call = [c \in Clients |-> "none"]
    /\ count = [t \in Threads |-> 0]
    /\ uncounted = {}

-----------------------------------------------------------------------------
(* CreateThread.                                                           *)

CreateThread(c) ==
    /\ client[c].pc = "idle"
    /\ call[c] = "none"
    /\ call' = [call EXCEPT ![c] = "lock"]
    /\ UNCHANGED <<vars, count, uncounted>>

\* std::lock_guard in threadpool::add, held for the rest of it.  The objects
\* add puts in the pool before it calls threadNew are read by nobody.
Lock(c) ==
    /\ call[c] = "lock"
    /\ \A d \in Clients: call[d] # "threadNew"
    /\ call' = [call EXCEPT ![c] = "threadNew"]
    /\ UNCHANGED <<vars, count, uncounted>>

\* threadNew calls itself, in a loop or until the stack is full, as the
\* compiler has it.
Overflow(c) ==
    /\ call[c] = "threadNew"
    /\ call' = [call EXCEPT ![c] = "overflow"]
    /\ UNCHANGED <<vars, count, uncounted>>

-----------------------------------------------------------------------------
(* What clients do outside of CreateThread.                                *)

\* The program makes a thread, and a THREAD_INFO for it.
NewInfo(c) ==
    /\ call[c] = "none"
    /\ C_threadNew(c)
    /\ count' = [count EXCEPT ![client'[c].package[2]] =
                    IF client'[c].createSuspended THEN 1 ELSE 0]
    /\ UNCHANGED <<call, uncounted>>

\* threadPause or threadResume, up to the sendRequest.
Ask(c, request, t) ==
    /\ Send(c, request, <<"Thread", t>>, FALSE)
    /\ UNCHANGED <<shared, thread, child, proc, mgr>>

InLibrary(c) ==
    /\ client[c].pc = "idle"
    /\ call[c] = "none"
    /\ current

\* Mutant: there is no maximum.
SuspendThread_NoMaximum(c) ==
    /\ InLibrary(c)
    /\ \E t \in client[c].mine:
          \/ /\ count[t] = 0
             /\ Ask(c, "threadPause", t)
             /\ uncounted' = uncounted \cup {t}
             /\ UNCHANGED <<call, count>>
          \/ /\ count[t] # 0
             /\ count' = [count EXCEPT ![t] = @ + 1]
             /\ UNCHANGED <<vars, call, uncounted>>

\* At the maximum it does nothing, and says so.
SuspendThread(c) ==
    /\ InLibrary(c)
    /\ \E t \in client[c].mine:
          \/ /\ count[t] = 0
             /\ Ask(c, "threadPause", t)
             /\ uncounted' = uncounted \cup {t}
             /\ UNCHANGED <<call, count>>
          \/ /\ count[t] \in 1..MaxCount - 1
             /\ count' = [count EXCEPT ![t] = @ + 1]
             /\ UNCHANGED <<vars, call, uncounted>>

\* Mutant: every suspension that is taken back resumes the thread.
ResumeThread_Always(c) ==
    /\ InLibrary(c)
    /\ \E t \in client[c].mine:
          /\ count[t] # 0
          /\ count' = [count EXCEPT ![t] = @ - 1]
          /\ Ask(c, "threadResume", t)
          /\ UNCHANGED <<call, uncounted>>

\* Mutant: the count is looked at before the last suspension is taken back.
ResumeThread_Before(c) ==
    /\ InLibrary(c)
    /\ \E t \in client[c].mine:
          /\ count[t] # 0
          /\ count' = [count EXCEPT ![t] = @ - 1]
          /\ UNCHANGED <<vars, call, uncounted>>

\* At count 0 it does nothing, and says so.
ResumeThread(c) ==
    /\ InLibrary(c)
    /\ \E t \in client[c].mine:
          /\ count[t] # 0
          /\ count' = [count EXCEPT ![t] = @ - 1]
          /\ IF count[t] = 1 THEN Ask(c, "threadResume", t) ELSE UNCHANGED vars
          /\ UNCHANGED <<call, uncounted>>

\* The client goes on in a call of libthread, or joins a thread or exits.
InLibthread(c) ==
    /\ call[c] = "none"
    /\ \/ sendRequest(c) \/ C_Orphaned(c) \/ C_threadJoin(c) \/ C_Joined(c)
       \/ c = Main /\ (C_Exit \/ C_ExitJoin \/ C_Exited)
    /\ UNCHANGED win

WinNext ==
    \/ \E c \in Clients: \/ CreateThread(c) \/ Lock(c) \/ Overflow(c)
                         \/ NewInfo(c) \/ SuspendThread(c) \/ ResumeThread(c)
                         \/ InLibthread(c)
    \/ Manager /\ UNCHANGED win
    \/ \E t \in Threads: Suspended(t) /\ UNCHANGED win

\* The manager, a thread, and a client that is inside sendRequest or waits for
\* a mutex that is free, go on.
WinFairness ==
    /\ WF_winVars(Manager /\ UNCHANGED win)
    /\ \A t \in Threads: WF_winVars(Suspended(t) /\ UNCHANGED win)
    /\ \A c \in Clients: WF_winVars(sendRequest(c) /\ UNCHANGED win) /\ WF_winVars(Lock(c))

WinSpec == WinInit /\ [][WinNext]_winVars

WinFairSpec == WinSpec /\ WinFairness

-----------------------------------------------------------------------------
(* Correctness.                                                            *)

\* A thread with a count has not begun its function, and once its threadNew
\* has returned it is stopped: whatever else is suspended, resumed, paused or
\* cleaned up, only the ResumeThread that takes the last suspension back sets
\* it running (SuspendThread, ResumeThread, the manager's serving of them).
CountedIsHeld ==
    \A t \in Threads: count[t] > 0 =>
        /\ child[t].pc \in {"qts", "start", "stop", "started"}
        /\ \A c \in Clients: client[c].pc = "idle" /\ t \in client[c].mine =>
              proc[t].state = "stopped"

\* A thread made and left without a count runs, unless SuspendThread has paused
\* it without counting: each suspension that was counted can be taken back.
\* The manager may be too soon with its answer, and threadNew never return.
ReleasedRuns ==
    []~TooSoon =>
        \A t \in Threads:
            (child[t].pc = "started" /\ count[t] = 0) ~>
                (proc[t].state # "stopped" \/ t \in uncounted)

\* A thread that is held, by another than itself, while its client is in no
\* call, has a count that ResumeThread can take back.  This fails:
\* SuspendThread pauses a thread that has none, and gives it none.
SuspendedIsCounted ==
    \A c \in Clients: client[c].pc = "idle" =>
        \A t \in client[c].mine:
            proc[t].state = "stopped" /\ child[t].pc # "ended" => count[t] > 0

\* CreateThread returns.
CreateThreadReturns ==
    \A c \in Clients: call[c] = "lock" ~> call[c] = "none"
=============================================================================
