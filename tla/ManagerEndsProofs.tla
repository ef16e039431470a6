------------------------- MODULE ManagerEndsProofs --------------------------
(***************************************************************************)
(* Proof that what the library says of a thread that has ended is true     *)
(* (EndsAreTrue of ExecutionManager), whatever is asked of it and however  *)
(* the thread ends.  died is set at the end of a clean-up in which every   *)
(* waitid may have failed: that the process has ended by then follows from *)
(* what the manager's last waitid can have waited for.                     *)
(***************************************************************************)
EXTENDS ExecutionManagerProofs

\* What is known of a thread agrees with its process, and the exit code of a
\* process that has returned is the result's low eight bits, reaped or not.
TrueEnd(t) ==
    /\ thread[t].died => ~Alive(proc[t])
    /\ thread[t].reapable <=> proc[t].state = "reaped"
    /\ thread[t].status = "EXITED" <=> proc[t].state = "reaped" /\ proc[t].end = "exited"
    /\ thread[t].status = "KILLED_BY_SIGNAL" <=>
          proc[t].state = "reaped" /\ proc[t].end = "killed"
    /\ thread[t].status = "EXITED" => thread[t].returnCode = child[t].R % 256
    /\ proc[t].state \in {"zombie", "reaped"} => proc[t].end \in {"exited", "killed"}
    /\ proc[t].state = "zombie" /\ proc[t].end = "exited" => proc[t].code = child[t].R % 256

Ending == \A t \in Threads: TrueEnd(t)

\* What is left of threadResumeAndJoin before its last waitid has returned.
Joining == {threadResumeAndJoin, <<"CONTINUE", "JOIN">>, <<"JOIN">>}

\* In a clean-up the manager operates on the thread it scans, and when the
\* join is over, with all its waits done or after one that failed, that thread
\* does not run any more.
Awaited ==
    /\ mgr.pc = "call" /\ mgr.call # "request" => mgr.t = Scanned
    /\ mgr.pc = "call" /\ mgr.call = "join" =>
          mgr.todo \in Joining \/ (mgr.todo = <<>> /\ ~Alive(proc[mgr.t]))
    /\ mgr.pc = "died" => ~Alive(proc[Scanned])

EInv == IInv /\ Ending /\ Awaited

LEMMA EndingSuffices == Ending => EndsAreTrue
BY DEF Ending, TrueEnd, EndsAreTrue

LEMMA InitEnds == Init => Ending /\ Awaited
<1> SUFFICES ASSUME Init PROVE Ending /\ Awaited
  OBVIOUS
<1>1. Ending
  BY MgrAssumption DEF Init, Ending, TrueEnd, NewThread, NoProcess, Alive
<1>2. Awaited
  BY DEF Init, Awaited
<1> QED
  BY <1>1, <1>2

-----------------------------------------------------------------------------
(* The parts of the invariant, from what a step leaves as it is.           *)

LEMMA TrueEndStays ==
    ASSUME NEW t \in Threads, TrueEnd(t),
           proc'[t] = proc[t], child'[t].R = child[t].R,
           thread'[t].died => thread[t].died \/ ~Alive(proc[t]),
           thread'[t].status = thread[t].status,
           thread'[t].reapable = thread[t].reapable,
           thread'[t].returnCode = thread[t].returnCode
    PROVE  TrueEnd(t)'
BY DEF TrueEnd

\* In a clean-up the manager scans a thread, and not itself.
LEMMA CleansThread ==
    ASSUME IInv, mgr.pc = "died" \/ (mgr.pc = "call" /\ mgr.call # "request")
    PROVE  Scanned \in Threads
BY ScannedIsThread DEF IInv, Scanning, ScansOthers

\* Nobody comes back to life.
LEMMA AwaitedStays ==
    ASSUME IInv, Awaited, UNCHANGED <<QTS_VECTOR, mgr>>,
           \A t \in Threads: Alive(proc'[t]) => Alive(proc[t])
    PROVE  Awaited'
<1>1. Scanned' = Scanned
  BY DEF Scanned
<1>2. mgr.pc = "call" /\ mgr.call # "request" => mgr.t \in Threads
  BY CleansThread DEF Awaited
<1>3. mgr.pc = "died" => Scanned \in Threads
  BY CleansThread
<1> QED
  BY <1>1, <1>2, <1>3 DEF Awaited

LEMMA Ended ==
    ASSUME NEW p \in Process, NEW R \in Int
    PROVE  /\ Killed(p).state = "zombie" /\ Killed(p).end = "killed"
           /\ Exited(p, R).state = "zombie" /\ Exited(p, R).end = "exited"
           /\ Exited(p, R).code = R % 256
BY DEF Killed, Exited, Zombie

\* A signal kills or leaves what is alive alive, and nothing else changes.
LEMMA SignalledEnds ==
    ASSUME NEW p \in Process, NEW sig
    PROVE  LET q == Signalled(p, sig)
           IN  /\ ~Alive(p) => q = p
               /\ Alive(p) => Alive(q) \/ (q.state = "zombie" /\ q.end = "killed")
<1>1. Killed(p).state = "zombie" /\ Killed(p).end = "killed"
  BY DEF Killed, Zombie
<1>2. CASE Signalled(p, sig) = p
  BY <1>2
<1>3. CASE Alive(p) /\ Signalled(p, sig) = Killed(p)
  BY <1>1, <1>3
<1>4. CASE /\ p.state = "running"
           /\ Signalled(p, sig) =
                 [p EXCEPT !.state = "stopped", !.stopEvent = TRUE, !.contEvent = FALSE]
  BY <1>4 DEF Alive, Process
<1>5. CASE /\ p.state = "stopped"
           /\ Signalled(p, sig) =
                 [p EXCEPT !.state = "running", !.stopEvent = FALSE, !.contEvent = TRUE]
  BY <1>5 DEF Alive, Process
<1> QED
  BY <1>2, <1>3, <1>4, <1>5 DEF Signalled, Alive

\* A thread that is alive has no end that could be wrong.
LEMMA TrueWhileAlive ==
    ASSUME NEW t \in Threads, TrueEnd(t), Alive(proc[t]), Alive(proc'[t]),
           thread'[t].died => thread[t].died,
           thread'[t].reapable = thread[t].reapable,
           thread'[t].status \in {thread[t].status, "STOPPED", "RUNNING"}
    PROVE  TrueEnd(t)'
BY DEF TrueEnd, Alive

\* It ends; it will be known how.
LEMMA TrueAtEnd ==
    ASSUME NEW t \in Threads, TrueEnd(t), Alive(proc[t]), thread'[t] = thread[t],
           proc'[t].state = "zombie",
           \/ proc'[t].end = "killed"
           \/ proc'[t].end = "exited" /\ proc'[t].code = child'[t].R % 256
    PROVE  TrueEnd(t)'
BY DEF TrueEnd, Alive

-----------------------------------------------------------------------------
(* The actions.                                                            *)

LEMMA SuspendedEnds ==
    ASSUME EInv, NEW t \in Threads, Suspended(t)
    PROVE  Ending' /\ Awaited'
<1>1. UNCHANGED <<shared, mgr, client>>
  BY DEF Suspended, T_Start, T_StopItself, T_Resumed, T_Main, T_Crash, T_Killable,
         T_Killed, T_Ending, T_Return
<1>2. /\ thread \in [Threads -> ThreadObject] /\ thread[t] \in ThreadObject
      /\ proc \in [Threads \cup {Mgr} -> Process] /\ proc[t] \in Process
      /\ child \in [Threads -> ChildRecord] /\ child[t] \in ChildRecord
      /\ TrueEnd(t) /\ proc[t].state = "running" /\ Alive(proc[t])
  BY DEF EInv, IInv, TypeInv, TypeOK, Ending, Suspended, T_Start, T_StopItself, T_Resumed,
         T_Main, T_Crash, T_Killable, T_Killed, T_Ending, T_Return, T_Step, Runs, Alive
<1>3. \A u \in Threads \ {t}: thread'[u] = thread[u] /\ child'[u] = child[u] /\ proc'[u] = proc[u]
  BY <1>2 DEF Suspended, T_Start, T_StopItself, T_Resumed, T_Main, T_Crash, T_Killable,
         T_Killed, T_Ending, T_Return, T_Step
<1>4. child[t].R \in Int
  BY <1>2, ResultsType DEF ChildRecord
<1>5. ASSUME T_Start(t) \/ T_Resumed(t, "started", "main") \/ T_Killable(t) \/ T_Ending(t)
             \/ T_Resumed(t, "ended", "return")
      PROVE  TrueEnd(t)'
  <2>1. proc' = proc
    BY <1>5 DEF T_Start, T_Resumed, T_Killable, T_Ending
  <2>2. /\ thread'[t].died => thread[t].died
        /\ thread'[t].reapable = thread[t].reapable
        /\ thread'[t].status \in {thread[t].status, "STOPPED", "RUNNING"}
    BY <1>2, <1>5 DEF T_Start, T_Resumed, T_Killable, T_Ending, ThreadObject
  <2> QED
    BY <1>2, <2>1, <2>2, TrueWhileAlive
<1>6. ASSUME T_Main(t) \/ T_Killed(t)
      PROVE  TrueEnd(t)'
  <2>1. proc' = proc /\ thread' = thread
    BY <1>6 DEF T_Main, T_Killed
  <2> QED
    BY <1>2, <2>1, TrueWhileAlive
<1>7. ASSUME T_StopItself(t, "stop", "started") \/ T_StopItself(t, "endStop", "ended")
      PROVE  TrueEnd(t)'
  <2>1. thread' = thread /\ proc'[t] = Signalled(proc[t], "SIGSTOP")
    BY <1>2, <1>7 DEF T_StopItself
  <2>2. Alive(proc'[t])
    BY <1>2, <2>1 DEF Signalled, Alive, Process
  <2> QED
    BY <1>2, <2>1, <2>2, TrueWhileAlive
<1>8. ASSUME T_Crash(t)
      PROVE  TrueEnd(t)'
  <2>1. thread' = thread /\ proc'[t] = Killed(proc[t])
    BY <1>2, <1>8 DEF T_Crash
  <2> QED
    BY <1>2, <1>4, <2>1, Ended, TrueAtEnd
<1>9. ASSUME T_Return(t)
      PROVE  TrueEnd(t)'
  <2>1. thread' = thread /\ proc'[t] = Exited(proc[t], child[t].R) /\ child'[t].R = child[t].R
    BY <1>2, <1>9 DEF T_Return, T_Step, ChildRecord
  <2>2. /\ proc'[t].state = "zombie" /\ proc'[t].end = "exited"
        /\ proc'[t].code = child[t].R % 256
    BY <1>2, <1>4, <2>1, Ended
  <2>3. proc'[t].code = child'[t].R % 256
    BY <2>1, <2>2
  <2> QED
    BY <1>2, <2>1, <2>2, <2>3, TrueAtEnd
<1>10. TrueEnd(t)'
  BY <1>5, <1>6, <1>7, <1>8, <1>9 DEF Suspended
<1>11. Ending'
  <2> SUFFICES ASSUME NEW u \in Threads, u # t PROVE TrueEnd(u)'
    BY <1>10 DEF Ending
  <2> QED
    BY <1>3, TrueEndStays DEF EInv, Ending
<1>12. Awaited'
  BY <1>1, <1>2, <1>3, AwaitedStays DEF EInv, shared
<1> QED
  BY <1>11, <1>12

LEMMA ClientEnds ==
    ASSUME EInv, (\E c \in Clients: Client(c)) \/ C_Exit \/ C_ExitJoin \/ C_Exited
    PROVE  Ending' /\ Awaited'
<1>1. /\ child \in [Threads -> ChildRecord]
      /\ proc \in [Threads \cup {Mgr} -> Process]
  BY DEF EInv, IInv, TypeInv, TypeOK
<1>2. UNCHANGED <<QTS_VECTOR, thread, mgr>>
  BY DEF Client, C_threadNew, C_Ask, sendRequest, C_Write, C_Spin, C_Answered, C_Created,
         C_Orphaned, C_threadJoin, C_Joined, C_Exit, C_ExitJoin, C_Exited, shared
<1>3. \A t \in Threads: proc'[t] = proc[t] /\ child'[t].R = child[t].R
  <2>1. CASE C_Exited
    BY <1>1, <2>1, MgrAssumption DEF C_Exited
  <2>2. CASE \E c \in Clients: C_threadNew(c)
    BY <1>1, <2>2 DEF C_threadNew, ChildRecord
  <2>3. CASE ~C_Exited /\ ~\E c \in Clients: C_threadNew(c)
    BY <2>3 DEF Client, C_Ask, sendRequest, C_Write, C_Spin, C_Answered, C_Created,
         C_Orphaned, C_threadJoin, C_Joined, C_Exit, C_ExitJoin
  <2> QED
    BY <2>1, <2>2, <2>3
<1>4. Ending'
  BY <1>2, <1>3, TrueEndStays DEF EInv, Ending
<1>5. Awaited'
  BY <1>2, <1>3, AwaitedStays DEF EInv
<1> QED
  BY <1>4, <1>5

LEMMA OperationEnds ==
    ASSUME EInv,
           \/ M_Signal \/ M_WaitFails \/ M_WaitExited \/ M_WaitStopped \/ M_WaitContinued
           \/ M_Return
    PROVE  Ending' /\ Awaited'
<1>1. /\ thread \in [Threads -> ThreadObject]
      /\ proc \in [Threads \cup {Mgr} -> Process]
      /\ mgr \in ManagerRecord
  BY DEF EInv, IInv, TypeInv, TypeOK
<1>2. UNCHANGED <<shared, child>> /\ mgr.pc = "call" /\ Scanned' = Scanned
  <2>1. UNCHANGED <<shared, child>> /\ mgr.pc = "call"
    BY DEF M_Signal, M_WaitFails, M_WaitExited, M_WaitStopped, M_WaitContinued, M_Return, Calling
  <2>2. mgr'.i = mgr.i
    BY <1>1 DEF M_Signal, M_WaitFails, M_WaitExited, M_WaitStopped, M_WaitContinued, M_Return,
                ManagerRecord
  <2> QED
    BY <2>1, <2>2 DEF shared, Scanned
<1>3. Ending'
  <2> SUFFICES ASSUME NEW t \in Threads PROVE TrueEnd(t)'
    BY DEF Ending
  <2>1. /\ TrueEnd(t) /\ child'[t] = child[t] /\ Quiet(proc[t])
        /\ proc[t] \in Process /\ thread[t] \in ThreadObject
    BY <1>1, <1>2 DEF EInv, IInv, Ending, Tracking, Tracked
  <2>2. CASE t # mgr.t \/ M_WaitFails \/ M_Return
    <3>1. proc'[t] = proc[t] /\ thread'[t] = thread[t]
      BY <1>1, <2>2 DEF M_Signal, M_WaitFails, M_WaitExited, M_WaitStopped, M_WaitContinued,
                        M_Return
    <3> QED
      BY <2>1, <3>1, TrueEndStays
  <2>3. CASE t = mgr.t /\ M_Signal
    <3>1. proc'[t] = Signalled(proc[t], Head(mgr.todo)) /\ thread' = thread
      BY <1>1, <2>3 DEF M_Signal
    <3>2. CASE Alive(proc[t]) /\ Alive(proc'[t])
      BY <2>1, <3>1, <3>2, TrueWhileAlive
    <3>3. CASE Alive(proc[t]) /\ proc'[t].state = "zombie" /\ proc'[t].end = "killed"
      BY <2>1, <3>1, <3>3, TrueAtEnd
    <3>4. CASE proc'[t] = proc[t]
      BY <2>1, <3>1, <3>4, TrueEndStays
    <3> QED
      BY <2>1, <3>1, <3>2, <3>3, <3>4, SignalledEnds
  <2>4. CASE t = mgr.t /\ M_WaitExited
    <3>1. /\ proc'[t] = [proc[t] EXCEPT !.state = "reaped"] /\ proc[t].state = "zombie"
          /\ thread'[t] = [thread[t] EXCEPT
                !.status = IF proc[t].end = "exited" THEN "EXITED" ELSE "KILLED_BY_SIGNAL",
                !.returnCode = IF proc[t].end = "exited" THEN proc[t].code ELSE @,
                !.reapable = TRUE]
      BY <1>1, <2>4 DEF M_WaitExited, Reaped, ReportsExit
    <3>2. /\ proc'[t].state = "reaped" /\ proc'[t].end = proc[t].end
          /\ thread'[t].reapable /\ thread'[t].died = thread[t].died
          /\ proc[t].end = "exited" => /\ thread'[t].status = "EXITED"
                                       /\ thread'[t].returnCode = proc[t].code
          /\ proc[t].end # "exited" => thread'[t].status = "KILLED_BY_SIGNAL"
      BY <2>1, <3>1 DEF Process, ThreadObject
    <3> QED
      BY <2>1, <3>1, <3>2 DEF TrueEnd, Alive
  <2>5. CASE t = mgr.t /\ (M_WaitStopped \/ M_WaitContinued)
    <3>1. /\ \/ proc'[t] = [proc[t] EXCEPT !.stopEvent = FALSE]
             \/ proc'[t] = [proc[t] EXCEPT !.contEvent = FALSE]
          /\ proc[t].stopEvent \/ proc[t].contEvent
          /\ thread'[t].reapable = thread[t].reapable
          /\ thread'[t].died = thread[t].died
          /\ thread'[t].status \in {thread[t].status, "STOPPED", "RUNNING"}
      BY <1>1, <2>1, <2>5 DEF M_WaitStopped, M_WaitContinued, StopReported, ContinueReported,
                        ReportsStop, ReportsContinue, ThreadObject
    <3>2. Alive(proc[t]) /\ Alive(proc'[t])
      BY <2>1, <3>1 DEF Quiet, Alive, Process
    <3> QED
      BY <2>1, <3>1, <3>2, TrueWhileAlive
  <2> QED
    BY <2>2, <2>3, <2>4, <2>5
<1>4. CASE mgr.call = "request"
  <2>1. mgr'.pc # "died" /\ mgr'.call = "request"
    BY <1>1, <1>2, <1>4 DEF M_Signal, M_WaitFails, M_WaitExited, M_WaitStopped, M_WaitContinued,
                            M_Return, ManagerRecord
  <2> QED
    BY <1>3, <2>1 DEF Awaited
<1>5. CASE mgr.call = "stop"
  <2>1. /\ mgr'.pc = "call" /\ mgr'.t = mgr.t
        /\ \/ mgr'.call = "stop"
           \/ mgr'.call = "join" /\ mgr'.todo = threadResumeAndJoin
    BY <1>1, <1>2, <1>5 DEF M_Signal, M_WaitFails, M_WaitExited, M_WaitStopped, M_WaitContinued,
                            M_Return, ManagerRecord
  <2> QED
    BY <1>2, <1>3, <1>5, <2>1 DEF EInv, Awaited, Joining
<1>6. CASE mgr.call = "join"
  <2>1. mgr.t = Scanned /\ mgr.t \in Threads /\ proc[mgr.t] \in Process
    BY <1>1, <1>2, <1>6, CleansThread DEF EInv, Awaited
  <2>2. mgr.todo \in Joining \/ (mgr.todo = <<>> /\ ~Alive(proc[mgr.t]))
    BY <1>2, <1>6 DEF EInv, Awaited
  <2>3. CASE mgr.todo = <<>>
    <3>1. M_Return /\ mgr'.pc = "died" /\ proc' = proc
      BY <1>1, <1>2, <1>6, <2>3 DEF M_Signal, M_WaitFails, M_WaitExited, M_WaitStopped,
                                    M_WaitContinued, M_Return, Calling, ManagerRecord
    <3> QED
      BY <1>2, <1>3, <2>1, <2>2, <2>3, <3>1 DEF Awaited, Joining, threadResumeAndJoin
  <2>4. CASE mgr.todo = threadResumeAndJoin
    <3>1. Head(mgr.todo) = "SIGCONT" /\ Tail(mgr.todo) = <<"CONTINUE", "JOIN">>
      BY <2>4 DEF threadResumeAndJoin
    <3>2. /\ mgr'.pc = "call" /\ mgr'.t = mgr.t
          /\ mgr'.todo = <<"CONTINUE", "JOIN">>
      BY <1>1, <1>2, <2>4, <3>1 DEF M_Signal, M_WaitFails, M_WaitExited, M_WaitStopped,
            M_WaitContinued, M_Return, Calling, Signals, Waits, ManagerRecord, threadResumeAndJoin
    <3> QED
      BY <1>2, <1>3, <2>1, <3>2 DEF Awaited, Joining
  <2>5. CASE mgr.todo = <<"CONTINUE", "JOIN">>
    <3>1. Head(mgr.todo) = "CONTINUE" /\ Tail(mgr.todo) = <<"JOIN">>
      BY <2>5
    <3>2. CASE M_WaitFails
      <4>1. /\ mgr'.pc = "call" /\ mgr'.t = mgr.t /\ mgr'.todo = <<>>
            /\ proc' = proc /\ ~Alive(proc[mgr.t])
        BY <1>1, <1>2, <3>2 DEF M_WaitFails, ECHILD, Alive, ManagerRecord
      <4> QED
        BY <1>2, <1>3, <2>1, <4>1 DEF Awaited
    <3>3. CASE M_WaitContinued
      <4>1. mgr'.pc = "call" /\ mgr'.t = mgr.t /\ mgr'.todo = <<"JOIN">>
        BY <1>1, <1>2, <3>1, <3>3 DEF M_WaitContinued, ManagerRecord
      <4> QED
        BY <1>2, <1>3, <2>1, <4>1 DEF Awaited, Joining
    <3>4. ~M_Signal /\ ~M_WaitExited /\ ~M_WaitStopped /\ ~M_Return
      BY <2>5, <3>1 DEF M_Signal, M_WaitExited, M_WaitStopped, M_Return, Calling, Signals,
                        ReportsExit, ReportsStop, Flags
    <3> QED
      BY <3>2, <3>3, <3>4
  <2>6. CASE mgr.todo = <<"JOIN">>
    <3>1. Head(mgr.todo) = "JOIN" /\ Tail(mgr.todo) = <<>>
      BY <2>6
    <3>2. CASE M_WaitFails
      <4>1. /\ mgr'.pc = "call" /\ mgr'.t = mgr.t /\ mgr'.todo = <<>>
            /\ proc' = proc /\ ~Alive(proc[mgr.t])
        BY <1>1, <1>2, <3>2 DEF M_WaitFails, ECHILD, Alive, ManagerRecord
      <4> QED
        BY <1>2, <1>3, <2>1, <4>1 DEF Awaited
    <3>3. CASE M_WaitExited
      <4>1. /\ mgr'.pc = "call" /\ mgr'.t = mgr.t /\ mgr'.todo = <<>>
            /\ proc'[mgr.t] = [proc[mgr.t] EXCEPT !.state = "reaped"]
        BY <1>1, <1>2, <2>1, <3>1, <3>3 DEF M_WaitExited, Reaped, ManagerRecord
      <4>2. ~Alive(proc'[mgr.t])
        BY <2>1, <4>1 DEF Alive, Process
      <4> QED
        BY <1>2, <1>3, <2>1, <4>1, <4>2 DEF Awaited
    <3>4. CASE M_WaitStopped
      <4>1. mgr' = mgr
        BY <3>1, <3>4 DEF M_WaitStopped
      <4> QED
        BY <1>2, <1>3, <2>1, <2>6, <4>1 DEF Awaited, Joining
    <3>5. ~M_Signal /\ ~M_WaitContinued /\ ~M_Return
      BY <2>6, <3>1 DEF M_Signal, M_WaitContinued, M_Return, Calling, Signals,
                        ReportsContinue, Flags
    <3> QED
      BY <3>2, <3>3, <3>4, <3>5
  <2> QED
    BY <2>2, <2>3, <2>4, <2>5, <2>6 DEF Joining
<1> QED
  BY <1>1, <1>4, <1>5, <1>6 DEF ManagerRecord

LEMMA RequestEnds ==
    ASSUME EInv, handleRequest
    PROVE  Ending' /\ Awaited'
<1>1. /\ REQUEST \in Mailbox
      /\ thread \in [Threads -> ThreadObject]
      /\ child \in [Threads -> ChildRecord]
      /\ proc \in [Threads \cup {Mgr} -> Process]
      /\ mgr \in ManagerRecord
  BY DEF EInv, IInv, TypeInv, TypeOK
<1>2. Awaited'
  <2>1. mgr'.pc # "died" /\ (mgr'.pc = "call" => mgr'.call = "request")
    BY <1>1 DEF handleRequest, M_Write, M_Dispatch, M_AssertPackage, M_threadNew, M_CloneFails,
           M_ClearPackage, M_Switch, M_Serve, M_Confused, M_Dies, M_Goto, ManagerRecord
  <2> QED
    BY <2>1 DEF Awaited
<1>3. CASE ~M_threadNew
  <2>1. UNCHANGED <<thread, child>> /\ \A t \in Threads: proc'[t] = proc[t]
    BY <1>1, <1>3, MgrAssumption DEF handleRequest, M_Write, M_Dispatch, M_AssertPackage,
       M_threadNew, M_CloneFails, M_ClearPackage, M_Switch, M_Serve, M_Confused, M_Dies, shared
  <2> QED
    BY <1>2, <2>1, TrueEndStays DEF EInv, Ending
<1>4. CASE M_threadNew
  <2>1. PICK t \in Threads:
        /\ proc'[t] = Cloned /\ thread'[t] = NewThread
        /\ \A u \in Threads \ {t}: /\ child'[u] = child[u] /\ proc'[u] = proc[u]
                                   /\ thread'[u] = thread[u]
    BY <1>1, <1>4 DEF M_threadNew, Mailbox
  <2>2. Cloned.state = "running"
    BY DEF Cloned, NoProcess
  <2>3. TrueEnd(t)'
    BY <2>1, <2>2 DEF TrueEnd, NewThread, Alive
  <2>4. \A u \in Threads \ {t}: TrueEnd(u)'
    BY <2>1, TrueEndStays DEF EInv, Ending
  <2> QED
    BY <1>2, <2>3, <2>4 DEF Ending
<1> QED
  BY <1>3, <1>4

\* The scan writes died, and only of a thread it has awaited.
LEMMA ScanEnds ==
    ASSUME EInv,
           \/ M_NextPass \/ M_Exit \/ M_SelfRequest \/ M_PickUp \/ M_NoRequest
           \/ M_Skip \/ M_NotKillable \/ M_CleanUp \/ M_Died \/ M_Erase
    PROVE  Ending' /\ Awaited'
<1>1. /\ thread \in [Threads -> ThreadObject]
      /\ proc \in [Threads \cup {Mgr} -> Process]
      /\ mgr \in ManagerRecord
  BY DEF EInv, IInv, TypeInv, TypeOK
<1>2. child' = child /\ \A t \in Threads: proc'[t] = proc[t]
  BY <1>1, MgrAssumption DEF M_NextPass, M_Exit, M_SelfRequest, M_PickUp, M_NoRequest, M_Skip,
     M_NotKillable, M_CleanUp, M_Died, M_Erase, M_Write
<1>3. \/ thread' = thread
      \/ thread' = [thread EXCEPT ![Scanned].killable = FALSE]
      \/ thread' = [thread EXCEPT ![Scanned].reaped = TRUE]
      \/ M_Died /\ thread' = [thread EXCEPT ![Scanned].died = TRUE]
  BY DEF M_NextPass, M_Exit, M_SelfRequest, M_PickUp, M_NoRequest, M_Skip,
         M_NotKillable, M_CleanUp, M_Died, M_Erase, M_Write
<1>4. M_Died => ~Alive(proc[Scanned])
  BY DEF EInv, Awaited, M_Died, M_Goto
<1>5. Ending'
  <2> SUFFICES ASSUME NEW t \in Threads PROVE TrueEnd(t)'
    BY DEF Ending
  <2>1. thread[t] \in ThreadObject
    BY <1>1
  <2>2. /\ thread'[t].died => thread[t].died \/ ~Alive(proc[t])
        /\ thread'[t].status = thread[t].status
        /\ thread'[t].reapable = thread[t].reapable
        /\ thread'[t].returnCode = thread[t].returnCode
    BY <1>1, <1>3, <1>4, <2>1 DEF ThreadObject
  <2> QED
    BY <1>2, <2>2, TrueEndStays DEF EInv, Ending
<1>6. CASE M_CleanUp
  <2>1. /\ mgr'.pc = "call" /\ mgr'.call = "stop" /\ mgr'.t = Scanned
        /\ Scanned' = Scanned
    BY <1>1, <1>6 DEF M_CleanUp, shared, ManagerRecord, Scanned
  <2> QED
    BY <1>5, <2>1 DEF Awaited
<1>7. CASE ~M_CleanUp
  <2>1. mgr'.pc \notin {"call", "died"}
    BY <1>1, <1>7 DEF M_NextPass, M_Exit, M_SelfRequest, M_PickUp, M_NoRequest, M_Skip,
       M_NotKillable, M_Died, M_Erase, M_Write, M_Goto, M_Advance, ManagerRecord
  <2> QED
    BY <1>5, <2>1 DEF Awaited
<1> QED
  BY <1>6, <1>7

-----------------------------------------------------------------------------
LEMMA NextEnds ==
    ASSUME EInv, [Next]_vars
    PROVE  EInv'
<1>1. IInv'
  BY NextIInv DEF EInv
<1>2. CASE Manager
  BY <1>1, <1>2, ScanEnds, RequestEnds, OperationEnds DEF Manager, EInv
<1>3. CASE (\E c \in Clients: Client(c)) \/ C_Exit \/ C_ExitJoin \/ C_Exited
  BY <1>1, <1>3, ClientEnds DEF EInv
<1>4. CASE \E t \in Threads: Suspended(t)
  BY <1>1, <1>4, SuspendedEnds DEF EInv
<1>5. CASE UNCHANGED vars
  <2>1. Ending'
    BY <1>5, TrueEndStays DEF vars, EInv, Ending
  <2>2. Awaited'
    BY <1>5, AwaitedStays DEF vars, EInv
  <2> QED
    BY <1>1, <2>1, <2>2 DEF EInv
<1> QED
  BY <1>2, <1>3, <1>4, <1>5 DEF Next

\* A thread that has died does not run any more, and one has an exit status
\* when, and only when, a waitid has reaped it, with the code its function
\* returned: whatever is asked of it, in whatever state, and however it ends.
THEOREM EndsAreTrueCorrect == Spec => []EndsAreTrue
<1>1. Init => EInv
  BY InitIInv, InitEnds DEF EInv
<1>2. EInv /\ [Next]_vars => EInv'
  BY NextEnds
<1>3. EInv => EndsAreTrue
  BY EndingSuffices DEF EInv
<1> QED
  BY <1>1, <1>2, <1>3, PTL DEF Spec
=============================================================================
