----------------------- MODULE ExecutionManagerProofs -----------------------
(***************************************************************************)
(* Theorems about ExecutionManager, for any clients, threads, requests and *)
(* faults.  First the types, then that the manager registers each of its   *)
(* threads once and forgets none that is not over.                         *)
(***************************************************************************)
EXTENDS ExecutionManager, TLAPS

-----------------------------------------------------------------------------
(* What the kernel does to a process leaves a process.                     *)

LEMMA EndedType ==
    ASSUME NEW p \in Process, NEW result \in Int
    PROVE  /\ Killed(p) \in Process
           /\ Exited(p, result) \in Process
BY DEF Process, Killed, Exited, Zombie, Ends

LEMMA SignalledType ==
    ASSUME NEW p \in Process, NEW sig
    PROVE  Signalled(p, sig) \in Process
<1>1. [p EXCEPT !.state = "stopped", !.stopEvent = TRUE, !.contEvent = FALSE] \in Process
  BY DEF Process
<1>2. [p EXCEPT !.state = "running", !.stopEvent = FALSE, !.contEvent = TRUE] \in Process
  BY DEF Process
<1>3. Killed(p) \in Process
  BY DEF Process, Killed, Zombie, Ends
<1> QED
  BY <1>1, <1>2, <1>3 DEF Signalled

LEMMA ReportedType ==
    ASSUME NEW p \in Process
    PROVE  /\ Reaped(p) \in Process
           /\ StopReported(p) \in Process
           /\ ContinueReported(p) \in Process
BY DEF Process, Reaped, StopReported, ContinueReported

LEMMA FreshType == NoProcess \in Process /\ Cloned \in Process
<1>1. NoProcess \in Process
  BY DEF Process, NoProcess, Ends
<1> QED
  BY <1>1 DEF Process, Cloned

LEMMA UpdateType ==
    ASSUME NEW S, NEW T, NEW f \in [S -> T], NEW s \in S, NEW x \in T
    PROVE  [f EXCEPT ![s] = x] \in [S -> T]
OBVIOUS

LEMMA NewThreadType == NewThread \in ThreadObject
BY DEF NewThread, ThreadObject, Statuses

LEMMA CallsType ==
    ASSUME NEW request \in RequestIds
    PROVE  Calls(request) \in Seq(Signals \cup Waits)
<1> USE DEF Calls, Signals, Waits
<1>1. CASE request = "threadJoin"
  BY <1>1 DEF threadJoin
<1>2. CASE request = "threadJoinUntilStopped"
  BY <1>2 DEF threadJoinUntilStopped
<1>3. CASE request = "threadWaitUntilStopped"
  BY <1>3 DEF threadWaitUntilStopped
<1>4. CASE request = "threadWaitUntilRunning"
  BY <1>4 DEF threadWaitUntilRunning
<1>5. CASE request = "threadWaitUntilRunningAndJoin"
  BY <1>5 DEF threadWaitUntilRunningAndJoin
<1>6. CASE request = "threadWaitUntilRunningAndJoinUntilStopped"
  BY <1>6 DEF threadWaitUntilRunningAndJoinUntilStopped
<1>7. CASE request = "threadPause"
  BY <1>7 DEF threadPause
<1>8. CASE request = "threadResume"
  BY <1>8 DEF threadResume
<1>9. CASE request = "threadResumeAndJoin"
  BY <1>9 DEF threadResumeAndJoin
<1>10. CASE request = "threadTerminate"
  BY <1>10 DEF threadTerminate
<1>11. CASE request = "threadKill"
  BY <1>11 DEF threadKill
<1> QED
  BY <1>1, <1>2, <1>3, <1>4, <1>5, <1>6, <1>7, <1>8, <1>9, <1>10, <1>11 DEF RequestIds

-----------------------------------------------------------------------------
(***************************************************************************)
(* TypeOK is not inductive alone: that mgr.t is a thread needs the index   *)
(* of the scan to be inside QTS_VECTOR from the test of the inner loop to  *)
(* its end.                                                                *)
(***************************************************************************)
IndexOK == mgr.pc \notin {"loop", "exited"} => mgr.i < Size

TypeInv == TypeOK /\ IndexOK

LEMMA InitType == Init => TypeInv
<1> SUFFICES ASSUME Init PROVE TypeInv
  OBVIOUS
<1> USE DEF Init
<1>1. REQUEST \in Mailbox
  BY DEF EmptyMailbox, Mailbox, Packages
<1>2. QTS_VECTOR \in Seq(Threads \cup {Mgr})
  OBVIOUS
<1>3. thread \in [Threads -> ThreadObject]
  BY NewThreadType
<1>4. child \in [Threads -> ChildRecord]
  BY DEF ChildRecord, ChildPC
<1>5. proc \in [Threads \cup {Mgr} -> Process]
  BY FreshType
<1>6. mgr \in ManagerRecord
  BY DEF ManagerRecord, ManagerPC
<1>7. client \in [Clients -> ClientRecord]
  BY DEF ClientRecord, ClientPC, Packages
<1>8. IndexOK
  BY DEF IndexOK
<1> QED
  BY <1>1, <1>2, <1>3, <1>4, <1>5, <1>6, <1>7, <1>8 DEF TypeInv, TypeOK

-----------------------------------------------------------------------------
(* What the actions make of the records.                                   *)

LEMMA ThreadStatus ==
    ASSUME NEW x \in ThreadObject, NEW s \in Statuses
    PROVE  [x EXCEPT !.status = s] \in ThreadObject
BY DEF ThreadObject

LEMMA ThreadStarts ==
    ASSUME NEW x \in ThreadObject, NEW s \in Statuses
    PROVE  [x EXCEPT !.died = FALSE, !.killable = FALSE, !.status = s] \in ThreadObject
BY DEF ThreadObject

LEMMA ThreadFlags ==
    ASSUME NEW x \in ThreadObject, NEW b \in BOOLEAN
    PROVE  /\ [x EXCEPT !.killable = b] \in ThreadObject
           /\ [x EXCEPT !.died = b] \in ThreadObject
           /\ [x EXCEPT !.reaped = b] \in ThreadObject
BY DEF ThreadObject

LEMMA ThreadEnds ==
    ASSUME NEW x \in ThreadObject, NEW s \in Statuses, NEW n \in 0..255
    PROVE  [x EXCEPT !.status = s, !.returnCode = n, !.reapable = TRUE] \in ThreadObject
BY DEF ThreadObject

LEMMA ResultsType == ASSUME NEW R \in Results \cup {0} PROVE R \in Int
BY ResultsAssumption

LEMMA ChildUpdates ==
    ASSUME NEW x \in ChildRecord, NEW pc \in ChildPC
    PROVE  [x EXCEPT !.pc = pc] \in ChildRecord
BY DEF ChildRecord

LEMMA MailboxUpdates ==
    ASSUME NEW x \in Mailbox, NEW b \in BOOLEAN, NEW p \in Packages,
           NEW r \in RequestIds \cup {"threadCreate", "none"}, NEW t \in Threads \cup {NULL}
    PROVE  /\ [x EXCEPT !.request = r] \in Mailbox
           /\ [x EXCEPT !.package = p] \in Mailbox
           /\ [x EXCEPT !.upload = b] \in Mailbox
           /\ [x EXCEPT !.uploadNotComplete = b] \in Mailbox
           /\ [x EXCEPT !.processing = b] \in Mailbox
           /\ [x EXCEPT !.processingNotComplete = b] \in Mailbox
           /\ [x EXCEPT !.reply = t] \in Mailbox
           /\ [x EXCEPT !.request = r, !.package = p, !.upload = b,
                        !.uploadNotComplete = b, !.processingNotComplete = b] \in Mailbox
BY DEF Mailbox

LEMMA ClientGoes ==
    ASSUME NEW x \in ClientRecord, NEW pc \in ClientPC, NEW p \in Packages
    PROVE  /\ [x EXCEPT !.pc = pc] \in ClientRecord
           /\ [x EXCEPT !.pc = pc, !.package = p] \in ClientRecord
BY DEF ClientRecord

LEMMA ClientSends ==
    ASSUME NEW x \in ClientRecord, NEW pc \in ClientPC, NEW p \in Packages,
           NEW r \in RequestIds \cup {"threadCreate", "none"},
           NEW b \in BOOLEAN, NEW mine \in SUBSET Threads
    PROVE  /\ [x EXCEPT !.pc = pc, !.request = r, !.package = p,
                        !.createSuspended = b] \in ClientRecord
           /\ [x EXCEPT !.pc = pc, !.request = r, !.package = p,
                        !.mine = mine] \in ClientRecord
BY DEF ClientRecord

LEMMA ManagerGoes ==
    ASSUME NEW x \in ManagerRecord, NEW pc \in ManagerPC, NEW i \in Nat
    PROVE  /\ [x EXCEPT !.pc = pc] \in ManagerRecord
           /\ [x EXCEPT !.i = i] \in ManagerRecord
           /\ [x EXCEPT !.pc = pc, !.i = i] \in ManagerRecord
BY DEF ManagerRecord

LEMMA ManagerCalls ==
    ASSUME NEW x \in ManagerRecord, NEW todo \in Seq(Signals \cup Waits),
           NEW t \in Threads \cup {Mgr, NULL}, NEW call \in {"request", "stop", "join"}
    PROVE  /\ [x EXCEPT !.todo = todo] \in ManagerRecord
           /\ [x EXCEPT !.todo = todo, !.call = call] \in ManagerRecord
           /\ [x EXCEPT !.pc = "call", !.t = t, !.todo = todo, !.call = call] \in ManagerRecord
BY DEF ManagerRecord, ManagerPC

-----------------------------------------------------------------------------
(* A thread changes its place, its Thread and its process.                 *)

LEMMA SuspendedType ==
    ASSUME TypeInv, NEW t \in Threads, Suspended(t)
    PROVE  TypeInv'
<1> DEFINE Types == /\ thread' \in [Threads -> ThreadObject]
                    /\ child' \in [Threads -> ChildRecord]
                    /\ proc' \in [Threads \cup {Mgr} -> Process]
<1>1. UNCHANGED <<shared, mgr, client>>
  BY DEF Suspended, T_Start, T_StopItself, T_Resumed, T_Main, T_Crash, T_Killable,
         T_Killed, T_Ending, T_Return
<1> SUFFICES Types
  BY <1>1 DEF shared, TypeInv, TypeOK, IndexOK, Size
<1>2. /\ thread \in [Threads -> ThreadObject] /\ thread[t] \in ThreadObject
      /\ proc \in [Threads \cup {Mgr} -> Process] /\ proc[t] \in Process
      /\ child \in [Threads -> ChildRecord] /\ child[t] \in ChildRecord
  BY DEF TypeInv, TypeOK
<1>3. child[t].R \in Int
  <2>1. child[t].R \in Results \cup {0}
    BY <1>2 DEF ChildRecord
  <2> QED
    BY <2>1, ResultsType
<1>4. ASSUME NEW pc \in ChildPC
      PROVE  [child EXCEPT ![t].pc = pc] \in [Threads -> ChildRecord]
  <2>1. [child[t] EXCEPT !.pc = pc] \in ChildRecord
    BY <1>2, ChildUpdates
  <2> QED
    BY <1>2, <2>1
<1>5. CASE T_Start(t)
  <2>1. [thread[t] EXCEPT !.died = FALSE, !.killable = FALSE, !.status = "STOPPED"]
            \in ThreadObject
    BY <1>2, ThreadStarts DEF Statuses
  <2> QED
    BY <1>2, <1>4, <1>5, <2>1 DEF T_Start, T_Step, ChildPC
<1>6. ASSUME NEW from, NEW to \in ChildPC, T_StopItself(t, from, to)
      PROVE  Types
  BY <1>2, <1>4, <1>6, SignalledType DEF T_StopItself, T_Step
<1>7. ASSUME NEW from, NEW to \in ChildPC, T_Resumed(t, from, to)
      PROVE  Types
  <2>1. [thread[t] EXCEPT !.status = "RUNNING"] \in ThreadObject
    BY <1>2, ThreadStatus DEF Statuses
  <2> QED
    BY <1>2, <1>4, <1>7, <2>1 DEF T_Resumed, T_Step
<1>8. CASE T_Main(t)
  <2>1. \A R \in Results: [pc |-> "returned", R |-> R] \in ChildRecord
    BY DEF ChildRecord, ChildPC
  <2> QED
    BY <1>2, <1>8, <2>1 DEF T_Main
<1>9. CASE T_Crash(t)
  BY <1>2, <1>4, <1>9, EndedType DEF T_Crash, T_Step, ChildPC
<1>10. CASE T_Killable(t)
  <2>1. [thread[t] EXCEPT !.killable = TRUE] \in ThreadObject
    BY <1>2, ThreadFlags
  <2> QED
    BY <1>2, <1>4, <1>10, <2>1 DEF T_Killable, T_Step, ChildPC
<1>11. CASE T_Killed(t)
  BY <1>2, <1>4, <1>11 DEF T_Killed, T_Step, ChildPC
<1>12. CASE T_Ending(t)
  <2>1. [thread[t] EXCEPT !.status = "STOPPED"] \in ThreadObject
    BY <1>2, ThreadStatus DEF Statuses
  <2> QED
    BY <1>2, <1>4, <1>12, <2>1 DEF T_Ending, T_Step, ChildPC
<1>13. CASE T_Return(t)
  BY <1>2, <1>3, <1>4, <1>13, EndedType DEF T_Return, T_Step, ChildPC
<1> QED
  BY <1>5, <1>6, <1>7, <1>8, <1>9, <1>10, <1>11, <1>12, <1>13 DEF Suspended, ChildPC

-----------------------------------------------------------------------------
(* A client changes its own record and the mailbox, and makes a QTS.       *)

LEMMA ClientTypes ==
    ASSUME TypeInv, NEW c \in Clients, Client(c)
    PROVE  TypeInv'
<1> DEFINE Types == /\ REQUEST' \in Mailbox
                    /\ child' \in [Threads -> ChildRecord]
                    /\ client' \in [Clients -> ClientRecord]
<1>1. UNCHANGED <<QTS_VECTOR, close, current, thread, proc, mgr>>
  BY DEF Client, C_threadNew, C_Ask, sendRequest, C_Write, C_Spin, C_Answered, C_Created,
         C_Orphaned, C_threadJoin, C_Joined, shared
<1> SUFFICES Types
  BY <1>1 DEF TypeInv, TypeOK, IndexOK, Size
<1>2. /\ REQUEST \in Mailbox
      /\ child \in [Threads -> ChildRecord]
      /\ client \in [Clients -> ClientRecord] /\ client[c] \in ClientRecord
  BY DEF TypeInv, TypeOK
<1>3. /\ client[c].request \in RequestIds \cup {"threadCreate", "none"}
      /\ client[c].package \in Packages
      /\ client[c].mine \in SUBSET Threads
  BY <1>2 DEF ClientRecord
<1>4. ASSUME NEW pc \in ClientPC
      PROVE  [client EXCEPT ![c].pc = pc] \in [Clients -> ClientRecord]
  <2>1. [client[c] EXCEPT !.pc = pc] \in ClientRecord
    BY <1>2, ClientGoes DEF Packages
  <2> QED
    BY <1>2, <2>1
<1>5. ASSUME NEW r \in RequestIds \cup {"threadCreate"}, NEW p \in Packages,
             NEW b \in BOOLEAN, Send(c, r, p, b)
      PROVE  client' \in [Clients -> ClientRecord]
  <2>1. [client[c] EXCEPT !.pc = "request", !.request = r, !.package = p,
                          !.createSuspended = b] \in ClientRecord
    BY <1>2, ClientSends DEF ClientPC
  <2> QED
    BY <1>2, <1>5, <2>1 DEF Send
<1>6. CASE C_threadNew(c)
  <2>1. PICK t \in Threads, b \in BOOLEAN:
            /\ child' = [child EXCEPT ![t].pc = "qts"]
            /\ Send(c, "threadCreate", <<"QTS", t>>, b)
    BY <1>6 DEF C_threadNew
  <2>2. [child[t] EXCEPT !.pc = "qts"] \in ChildRecord
    BY <1>2, ChildUpdates DEF ChildPC
  <2>3. child' \in [Threads -> ChildRecord]
    BY <1>2, <2>1, <2>2
  <2>4. client' \in [Clients -> ClientRecord]
    BY <1>5, <2>1 DEF Packages
  <2> QED
    BY <1>2, <1>6, <2>3, <2>4 DEF C_threadNew, shared
<1>7. CASE C_Ask(c)
  <2>1. PICK r \in Requests, t \in client[c].mine: Send(c, r, <<"Thread", t>>, FALSE)
    BY <1>7 DEF C_Ask
  <2>2. r \in RequestIds /\ t \in Threads
    BY <1>3, RequestsAssumption
  <2>3. client' \in [Clients -> ClientRecord]
    BY <1>5, <2>1, <2>2 DEF Packages
  <2> QED
    BY <1>2, <1>7, <2>3 DEF C_Ask, shared
<1>8. CASE sendRequest(c)
  <2>1. ASSUME NEW from, NEW to \in ClientPC, NEW field, NEW value,
               [REQUEST EXCEPT ![field] = value] \in Mailbox,
               C_Write(c, from, to, field, value)
        PROVE  Types
    BY <1>2, <1>4, <2>1 DEF C_Write
  <2>2. ASSUME NEW from, NEW to \in ClientPC, NEW flag, C_Spin(c, from, to, flag)
        PROVE  Types
    BY <1>2, <1>4, <2>2 DEF C_Spin, shared
  <2>3. /\ [REQUEST EXCEPT !["request"] = client[c].request] \in Mailbox
        /\ [REQUEST EXCEPT !["package"] = client[c].package] \in Mailbox
        /\ [REQUEST EXCEPT !["upload"] = TRUE] \in Mailbox
        /\ [REQUEST EXCEPT !["uploadNotComplete"] = TRUE] \in Mailbox
        /\ [REQUEST EXCEPT !["processingNotComplete"] = TRUE] \in Mailbox
    BY <1>2, <1>3, MailboxUpdates
  <2>4. CASE C_Answered(c)
    BY <1>2, <1>4, <2>4 DEF C_Answered, ClientPC, shared
  <2>5. CASE C_Created(c)
    <3> DEFINE x    == REQUEST.reply
               pc   == IF client[c].createSuspended THEN "idle" ELSE "request"
               mine == client[c].mine \cup {x}
    <3>1. CASE x = NULL
      BY <1>2, <1>4, <2>5, <3>1 DEF C_Created, ClientPC, shared
    <3>2. CASE x # NULL
      <4>1. x \in Threads /\ <<"Thread", x>> \in Packages
        BY <1>2, <3>2 DEF Mailbox, Packages
      <4>2. pc \in ClientPC /\ mine \in SUBSET Threads
        BY <1>3, <4>1 DEF ClientPC
      <4>3. [client[c] EXCEPT !.pc = pc, !.request = "threadResume",
                              !.package = <<"Thread", x>>, !.mine = mine] \in ClientRecord
        BY <1>2, <4>1, <4>2, ClientSends DEF RequestIds
      <4>4. client' = [client EXCEPT ![c] = [client[c] EXCEPT !.pc = pc,
                          !.request = "threadResume", !.package = <<"Thread", x>>,
                          !.mine = mine]]
        BY <2>5, <3>2 DEF C_Created
      <4>5. client' \in [Clients -> ClientRecord]
        BY <1>2, <4>3, <4>4
      <4> QED
        BY <1>2, <2>5, <4>5 DEF C_Created, shared
    <3> QED
      BY <3>1, <3>2
  <2> QED
    BY <1>8, <2>1, <2>2, <2>3, <2>4, <2>5 DEF sendRequest, ClientPC
<1>9. CASE C_Orphaned(c) \/ C_Joined(c)
  BY <1>2, <1>4, <1>9 DEF C_Orphaned, C_Joined, ClientPC, shared
<1>10. CASE C_threadJoin(c)
  <2>1. PICK t \in client[c].mine:
            client' = [client EXCEPT ![c].pc = "join", ![c].package = <<"Thread", t>>]
    BY <1>10 DEF C_threadJoin
  <2>2. [client[c] EXCEPT !.pc = "join", !.package = <<"Thread", t>>] \in ClientRecord
    BY <1>2, <1>3, ClientGoes DEF ClientPC, Packages
  <2> QED
    BY <1>2, <1>10, <2>1, <2>2 DEF C_threadJoin, shared
<1> QED
  BY <1>6, <1>7, <1>8, <1>9, <1>10 DEF Client

LEMMA ExitTypes ==
    ASSUME TypeInv, C_Exit \/ C_ExitJoin \/ C_Exited
    PROVE  TypeInv'
<1>1. /\ client \in [Clients -> ClientRecord] /\ client[Main] \in ClientRecord
      /\ proc \in [Threads \cup {Mgr} -> Process] /\ proc[Mgr] \in Process
  BY MainAssumption DEF TypeInv, TypeOK
<1>2. /\ [client[Main] EXCEPT !.pc = "exit"] \in ClientRecord
      /\ [client[Main] EXCEPT !.pc = "exitWait"] \in ClientRecord
      /\ [client[Main] EXCEPT !.pc = "crashed"] \in ClientRecord
      /\ [client[Main] EXCEPT !.pc = "done"] \in ClientRecord
  BY <1>1, ClientGoes DEF ClientPC, Packages
<1>3. CASE C_Exit
  BY <1>1, <1>2, <1>3 DEF C_Exit, TypeInv, TypeOK, IndexOK, Size
<1>4. CASE C_Exited
  BY <1>1, <1>2, <1>4, ReportedType DEF C_Exited, TypeInv, TypeOK, IndexOK, Size, shared
<1>5. CASE C_ExitJoin
  BY <1>1, <1>2, <1>5 DEF C_ExitJoin, TypeInv, TypeOK, IndexOK, Size, shared
<1> QED
  BY <1>3, <1>4, <1>5

-----------------------------------------------------------------------------
(* The manager.  First its calls of an operation.                          *)

LEMMA IndexStays ==
    ASSUME IndexOK, mgr.pc \notin {"loop", "exited"}, mgr'.i = mgr.i,
           UNCHANGED QTS_VECTOR
    PROVE  IndexOK'
BY DEF IndexOK, Size

\* All of TypeInv but the index, from what an operation leaves alone.
CallingTypes == /\ thread' \in [Threads -> ThreadObject]
                /\ proc' \in [Threads \cup {Mgr} -> Process]
                /\ mgr' \in ManagerRecord

LEMMA CallTypes ==
    ASSUME TypeInv,
           M_Signal \/ M_WaitFails \/ M_WaitExited \/ M_WaitStopped \/ M_WaitContinued
    PROVE  CallingTypes
<1>1. /\ thread \in [Threads -> ThreadObject]
      /\ proc \in [Threads \cup {Mgr} -> Process]
      /\ mgr \in ManagerRecord
  BY DEF TypeInv, TypeOK
<1>2. /\ mgr.todo \in Seq(Signals \cup Waits)
      /\ mgr.t \in Threads => mgr.t \in Threads \cup {Mgr}
  BY <1>1 DEF ManagerRecord
<1>3. ASSUME mgr.todo # <<>>
      PROVE  [mgr EXCEPT !.todo = Tail(@)] \in ManagerRecord
  <2>1. Tail(mgr.todo) \in Seq(Signals \cup Waits)
    BY <1>2, <1>3
  <2>2. [mgr EXCEPT !.todo = Tail(mgr.todo)] \in ManagerRecord
    BY <1>1, <2>1 DEF ManagerRecord
  <2> QED
    BY <2>2
<1>4. ASSUME NEW p, p \in Process \/ mgr.t \notin Threads \cup {Mgr}
      PROVE  [proc EXCEPT ![mgr.t] = p] \in [Threads \cup {Mgr} -> Process]
  BY <1>1, <1>4
<1>5. ASSUME NEW x, x \in ThreadObject \/ mgr.t \notin Threads
      PROVE  [thread EXCEPT ![mgr.t] = x] \in [Threads -> ThreadObject]
  BY <1>1, <1>5
<1>6. ASSUME NEW s \in Statuses
      PROVE  [thread EXCEPT ![mgr.t].status = s] \in [Threads -> ThreadObject]
  <2>1. CASE mgr.t \in Threads
    <3>1. [thread[mgr.t] EXCEPT !.status = s] \in ThreadObject
      BY <1>1, <2>1, ThreadStatus
    <3> QED
      BY <1>1, <3>1
  <2>2. CASE mgr.t \notin Threads
    BY <1>1, <2>2
  <2> QED
    BY <2>1, <2>2
<1>7. CASE M_Signal
  BY <1>1, <1>3, <1>4, <1>7, SignalledType DEF M_Signal, Calling, CallingTypes
<1>8. CASE M_WaitFails
  <2>1. <<>> \in Seq(Signals \cup Waits)
    OBVIOUS
  <2>2. [mgr EXCEPT !.todo = <<>>] \in ManagerRecord
    BY <1>1, <2>1 DEF ManagerRecord
  <2> QED
    BY <1>1, <1>8, <2>2 DEF M_WaitFails, CallingTypes
<1>9. CASE M_WaitExited
  <2> DEFINE p    == proc[mgr.t]
             s    == IF p.end = "exited" THEN "EXITED" ELSE "KILLED_BY_SIGNAL"
             code == IF p.end = "exited" THEN p.code ELSE thread[mgr.t].returnCode
             x    == [thread[mgr.t] EXCEPT !.status = s, !.returnCode = code, !.reapable = TRUE]
  <2>1. ASSUME mgr.t \in Threads
        PROVE  x \in ThreadObject
    <3>1. thread[mgr.t] \in ThreadObject /\ p \in Process
      BY <1>1, <2>1
    <3>2. code \in 0..255
      BY <3>1 DEF ThreadObject, Process
    <3>3. s \in Statuses
      BY DEF Statuses
    <3> HIDE DEF code, s
    <3> QED
      BY <3>1, <3>2, <3>3, ThreadEnds
  <2>2. thread' = [thread EXCEPT ![mgr.t].status = s, ![mgr.t].returnCode = code,
                                 ![mgr.t].reapable = TRUE]
    BY <1>9 DEF M_WaitExited
  <2>3. thread' \in [Threads -> ThreadObject]
    <3>1. [thread EXCEPT ![mgr.t] = x] \in [Threads -> ThreadObject]
      BY <1>5, <2>1
    <3> QED
      BY <2>2, <3>1 DEF x
  <2> QED
    BY <1>1, <1>3, <1>4, <1>9, <2>3, ReportedType DEF M_WaitExited, Calling, CallingTypes
<1>10. CASE M_WaitStopped
  BY <1>1, <1>3, <1>4, <1>6, <1>10, ReportedType
     DEF M_WaitStopped, Calling, CallingTypes, Statuses
<1>11. CASE M_WaitContinued
  BY <1>1, <1>3, <1>4, <1>6, <1>11, ReportedType
     DEF M_WaitContinued, Calling, CallingTypes, Statuses
<1> QED
  BY <1>7, <1>8, <1>9, <1>10, <1>11

LEMMA OperationTypes ==
    ASSUME TypeInv,
           \/ M_Signal \/ M_WaitFails \/ M_WaitExited \/ M_WaitStopped \/ M_WaitContinued
           \/ M_Return
    PROVE  TypeInv'
<1>1. /\ thread \in [Threads -> ThreadObject]
      /\ proc \in [Threads \cup {Mgr} -> Process]
      /\ mgr \in ManagerRecord
  BY DEF TypeInv, TypeOK
<1>2. UNCHANGED <<shared, child, client>>
  BY DEF M_Signal, M_WaitFails, M_WaitExited, M_WaitStopped, M_WaitContinued, M_Return
<1>3. mgr.pc = "call" /\ mgr'.i = mgr.i
  BY <1>1 DEF M_Signal, M_WaitFails, M_WaitExited, M_WaitStopped, M_WaitContinued, M_Return,
              Calling, ManagerRecord
<1>4. CallingTypes
  <2>1. CASE M_Return
    <3>1. /\ "answered" \in ManagerPC /\ "died" \in ManagerPC
          /\ threadResumeAndJoin \in Seq(Signals \cup Waits)
      BY CallsType DEF ManagerPC, Calls, RequestIds
    <3>2. /\ [mgr EXCEPT !.pc = "answered"] \in ManagerRecord
          /\ [mgr EXCEPT !.pc = "died"] \in ManagerRecord
          /\ [mgr EXCEPT !.todo = threadResumeAndJoin, !.call = "join"] \in ManagerRecord
      BY <1>1, <3>1 DEF ManagerRecord
    <3>3. mgr.call \in {"request", "stop", "join"}
      BY <1>1 DEF ManagerRecord
    <3> QED
      BY <1>1, <2>1, <3>2, <3>3 DEF M_Return, CallingTypes
  <2> QED
    BY <2>1, CallTypes
<1> QED
  BY <1>2, <1>3, <1>4, IndexStays DEF CallingTypes, TypeInv, TypeOK, shared, IndexOK, Size

-----------------------------------------------------------------------------
(* handleRequest.                                                          *)

LEMMA RequestTypes ==
    ASSUME TypeInv, handleRequest
    PROVE  TypeInv'
<1>1. /\ REQUEST \in Mailbox
      /\ QTS_VECTOR \in Seq(Threads \cup {Mgr})
      /\ thread \in [Threads -> ThreadObject]
      /\ child \in [Threads -> ChildRecord]
      /\ proc \in [Threads \cup {Mgr} -> Process] /\ proc[Mgr] \in Process
      /\ mgr \in ManagerRecord
  BY DEF TypeInv, TypeOK
<1>2. /\ mgr.i \in Nat
      /\ REQUEST.reply \in Threads \cup {NULL}
  BY <1>1 DEF ManagerRecord, Mailbox
<1>3. ASSUME NEW to \in ManagerPC
      PROVE  /\ [mgr EXCEPT !.pc = to] \in ManagerRecord
             /\ [mgr EXCEPT !.pc = to].i = mgr.i
  BY <1>1, <1>3 DEF ManagerRecord
<1>4. ASSUME NEW from, NEW to \in ManagerPC, NEW field, NEW value,
             from \notin {"loop", "exited"},
             [REQUEST EXCEPT ![field] = value] \in Mailbox,
             M_Write(from, to, field, value)
      PROVE  TypeInv'
  BY <1>1, <1>2, <1>3, <1>4 DEF M_Write, M_Goto, TypeInv, TypeOK, IndexOK, Size
<1>5. /\ [REQUEST EXCEPT !["upload"] = FALSE] \in Mailbox
      /\ [REQUEST EXCEPT !["uploadNotComplete"] = FALSE] \in Mailbox
      /\ [REQUEST EXCEPT !["request"] = "none"] \in Mailbox
      /\ [REQUEST EXCEPT !["processing"] = FALSE] \in Mailbox
      /\ [REQUEST EXCEPT !["processingNotComplete"] = FALSE] \in Mailbox
      /\ [REQUEST EXCEPT !.package = NULL] \in Mailbox
      /\ [REQUEST EXCEPT !.reply = NULL] \in Mailbox
      /\ \A t \in Threads: [REQUEST EXCEPT !.reply = t] \in Mailbox
  BY <1>1 DEF Mailbox, Packages
<1>6. CASE \/ M_Write("upload", "uploadNotComplete", "upload", FALSE)
           \/ M_Write("uploadNotComplete", "dispatch", "uploadNotComplete", FALSE)
           \/ M_Write("answered", "processing", "request", "none")
           \/ M_Write("processing", "processingNotComplete", "processing", FALSE)
           \/ M_Write("processingNotComplete", "scan", "processingNotComplete", FALSE)
  <2> USE DEF ManagerPC
  <2>1. CASE M_Write("upload", "uploadNotComplete", "upload", FALSE)
    BY <1>4, <1>5, <2>1
  <2>2. CASE M_Write("uploadNotComplete", "dispatch", "uploadNotComplete", FALSE)
    BY <1>4, <1>5, <2>2
  <2>3. CASE M_Write("answered", "processing", "request", "none")
    BY <1>1, <1>2, <1>3, <1>5, <2>3 DEF M_Write, M_Goto, TypeInv, TypeOK, IndexOK, Size
  <2>4. CASE M_Write("processing", "processingNotComplete", "processing", FALSE)
    BY <1>4, <1>5, <2>4
  <2>5. CASE M_Write("processingNotComplete", "scan", "processingNotComplete", FALSE)
    BY <1>4, <1>5, <2>5
  <2> QED
    BY <1>6, <2>1, <2>2, <2>3, <2>4, <2>5
<1>7. ASSUME NEW from, NEW to \in ManagerPC, from \notin {"loop", "exited"}, M_Dies(from, to)
      PROVE  TypeInv'
  <2>1. [proc EXCEPT ![Mgr] = Killed(@)] \in [Threads \cup {Mgr} -> Process]
    BY <1>1, EndedType
  <2> QED
    BY <1>1, <1>2, <1>3, <1>7, <2>1 DEF M_Dies, M_Goto, shared, TypeInv, TypeOK, IndexOK, Size
<1>8. CASE M_AssertPackage \/ M_Confused
  BY <1>7, <1>8 DEF M_AssertPackage, M_Confused, ManagerPC
<1>9. CASE M_Dispatch
  <2>1. (IF REQUEST.request = "none" THEN "answered" ELSE "switch") \in ManagerPC
    BY DEF ManagerPC
  <2> QED
    BY <1>1, <1>2, <1>3, <1>9, <2>1 DEF M_Dispatch, M_Goto, shared, TypeInv, TypeOK, IndexOK, Size
<1>10. CASE M_threadNew
  <2> DEFINE t == REQUEST.package[2]
  <2>1. t \in Threads
    BY <1>10 DEF M_threadNew
  <2>2. [child[t] EXCEPT !.pc = "start"] \in ChildRecord
    BY <1>1, <2>1, ChildUpdates DEF ChildPC
  <2>3. child' \in [Threads -> ChildRecord]
    BY <1>1, <1>10, <2>1, <2>2 DEF M_threadNew
  <2>4. thread' \in [Threads -> ThreadObject] /\ proc' \in [Threads \cup {Mgr} -> Process]
    BY <1>1, <1>10, <2>1, NewThreadType, FreshType DEF M_threadNew
  <2>5. REQUEST' \in Mailbox
    BY <1>5, <1>10, <2>1 DEF M_threadNew
  <2>6. mgr' \in ManagerRecord /\ mgr'.i = mgr.i /\ mgr.pc = "package"
    BY <1>1, <1>10 DEF M_threadNew, ManagerRecord, ManagerPC
  <2>7. QTS_VECTOR' \in Seq(Threads \cup {Mgr}) /\ Size' = Size + 1 /\ Size \in Nat
    BY <1>1, <1>10, <2>1 DEF M_threadNew, Size
  <2>8. IndexOK'
    BY <1>2, <2>6, <2>7 DEF TypeInv, IndexOK
  <2> QED
    BY <1>10, <2>3, <2>4, <2>5, <2>6, <2>7, <2>8 DEF M_threadNew, TypeInv, TypeOK
<1>11. CASE M_CloneFails
  <2>1. [proc EXCEPT ![Mgr] = Killed(@)] \in [Threads \cup {Mgr} -> Process]
    BY <1>1, EndedType
  <2>2. mgr' \in ManagerRecord /\ mgr'.i = mgr.i /\ mgr.pc = "package"
    BY <1>3, <1>11 DEF M_CloneFails, M_Goto, ManagerPC
  <2> QED
    BY <1>5, <1>11, <2>1, <2>2 DEF M_CloneFails, TypeInv, TypeOK, IndexOK, Size
<1>12. ASSUME NEW t \in Threads \cup {NULL}, NEW todo \in Seq(Signals \cup Waits),
              mgr' = [mgr EXCEPT !.pc = "call", !.t = t, !.todo = todo, !.call = "request"]
       PROVE  mgr' \in ManagerRecord /\ mgr'.i = mgr.i
  <2>1. [mgr EXCEPT !.pc = "call", !.t = t, !.todo = todo, !.call = "request"] \in ManagerRecord
    BY <1>1, ManagerCalls
  <2>2. [mgr EXCEPT !.pc = "call", !.t = t, !.todo = todo, !.call = "request"].i = mgr.i
    BY <1>1 DEF ManagerRecord
  <2> QED
    BY <1>12, <2>1, <2>2
<1>13. CASE M_ClearPackage
  <2>1. threadWaitUntilStopped \in Seq(Signals \cup Waits)
    BY CallsType DEF Calls, RequestIds
  <2>2. mgr' \in ManagerRecord /\ mgr'.i = mgr.i
    BY <1>2, <1>12, <1>13, <2>1 DEF M_ClearPackage
  <2> QED
    BY <1>5, <1>13, <2>2 DEF M_ClearPackage, TypeInv, TypeOK, IndexOK, Size
<1>14. CASE M_Serve
  <2>1. REQUEST.package[2] \in Threads /\ Calls(mgr.request) \in Seq(Signals \cup Waits)
    BY <1>14, CallsType DEF M_Serve
  <2>2. mgr' \in ManagerRecord /\ mgr'.i = mgr.i
    BY <1>1, <1>14, <2>1 DEF M_Serve, ManagerRecord, ManagerPC
  <2> QED
    BY <1>14, <2>2 DEF M_Serve, shared, TypeInv, TypeOK, IndexOK, Size
<1>15. CASE M_Switch
  <2>1. mgr' \in ManagerRecord /\ mgr'.i = mgr.i
    BY <1>1, <1>15 DEF M_Switch, ManagerRecord, ManagerPC, Mailbox
  <2> QED
    BY <1>15, <2>1 DEF M_Switch, shared, TypeInv, TypeOK, IndexOK, Size
<1> QED
  BY <1>6, <1>8, <1>9, <1>10, <1>11, <1>13, <1>14, <1>15 DEF handleRequest

-----------------------------------------------------------------------------
(* The scan.                                                               *)

LEMMA ErasedType ==
    ASSUME NEW i \in Nat, i < Size, QTS_VECTOR \in Seq(Threads \cup {Mgr})
    PROVE  /\ Erased(i) \in Seq(Threads \cup {Mgr})
           /\ Len(Erased(i)) = Size - 1
           /\ \A j \in 1..(Size - 1):
                 Erased(i)[j] = QTS_VECTOR[IF j <= i THEN j ELSE j + 1]
<1> DEFINE front == SubSeq(QTS_VECTOR, 1, i)
           back  == SubSeq(QTS_VECTOR, i + 2, Size)
<1>1. Size \in Nat /\ i + 1 \in 1..Size
  BY DEF Size
<1>2. /\ front \in Seq(Threads \cup {Mgr}) /\ Len(front) = i
      /\ \A j \in 1..i: front[j] = QTS_VECTOR[j]
  BY <1>1 DEF Size
<1>3. /\ back \in Seq(Threads \cup {Mgr}) /\ Len(back) = Size - 1 - i
      /\ \A j \in 1..(Size - 1 - i): back[j] = QTS_VECTOR[j + i + 1]
  BY <1>1 DEF Size
<1>4. Erased(i) = front \o back
  BY DEF Erased
<1> HIDE DEF front, back
<1>5. Erased(i) \in Seq(Threads \cup {Mgr}) /\ Len(Erased(i)) = Size - 1
  BY <1>1, <1>2, <1>3, <1>4
<1>6. ASSUME NEW j \in 1..(Size - 1)
      PROVE  Erased(i)[j] = QTS_VECTOR[IF j <= i THEN j ELSE j + 1]
  <2>1. CASE j <= i
    BY <1>1, <1>2, <1>3, <1>4, <2>1
  <2>2. CASE j > i
    <3>1. Erased(i)[j] = back[j - i]
      BY <1>1, <1>2, <1>3, <1>4, <2>2
    <3> QED
      BY <1>1, <1>3, <2>2, <3>1
  <2> QED
    BY <1>1, <2>1, <2>2
<1> QED
  BY <1>5, <1>6

LEMMA ScanTypes ==
    ASSUME TypeInv,
           \/ M_NextPass \/ M_Exit \/ M_SelfRequest \/ M_PickUp \/ M_NoRequest
           \/ M_Skip \/ M_NotKillable \/ M_CleanUp \/ M_Died \/ M_Erase
    PROVE  TypeInv'
<1>1. /\ REQUEST \in Mailbox
      /\ QTS_VECTOR \in Seq(Threads \cup {Mgr})
      /\ thread \in [Threads -> ThreadObject]
      /\ proc \in [Threads \cup {Mgr} -> Process] /\ proc[Mgr] \in Process
      /\ mgr \in ManagerRecord /\ mgr.i \in Nat
  BY DEF TypeInv, TypeOK, ManagerRecord
<1>2. mgr.i < Size => Scanned \in Threads \cup {Mgr}
  BY <1>1 DEF Size, Scanned
<1>3. ASSUME NEW to \in ManagerPC
      PROVE  /\ [mgr EXCEPT !.pc = to] \in ManagerRecord
             /\ [mgr EXCEPT !.pc = to].i = mgr.i /\ [mgr EXCEPT !.pc = to].pc = to
  BY <1>1, <1>3 DEF ManagerRecord
<1>4. ASSUME NEW x, x \in ThreadObject \/ Scanned \notin Threads
      PROVE  [thread EXCEPT ![Scanned] = x] \in [Threads -> ThreadObject]
  BY <1>1, <1>4
<1>5. ASSUME NEW b \in BOOLEAN
      PROVE  /\ [thread EXCEPT ![Scanned].killable = b] \in [Threads -> ThreadObject]
             /\ [thread EXCEPT ![Scanned].died = b] \in [Threads -> ThreadObject]
             /\ [thread EXCEPT ![Scanned].reaped = b] \in [Threads -> ThreadObject]
  <2>1. CASE Scanned \in Threads
    <3>1. /\ [thread[Scanned] EXCEPT !.killable = b] \in ThreadObject
          /\ [thread[Scanned] EXCEPT !.died = b] \in ThreadObject
          /\ [thread[Scanned] EXCEPT !.reaped = b] \in ThreadObject
      BY <1>1, <2>1, ThreadFlags
    <3> QED
      BY <1>4, <3>1
  <2>2. CASE Scanned \notin Threads
    BY <1>1, <2>2
  <2> QED
    BY <2>1, <2>2
<1>6. ASSUME mgr' = [mgr EXCEPT !.pc = "loop", !.i = @ + 1]
      PROVE  mgr' \in ManagerRecord /\ mgr'.pc = "loop"
  <2>1. mgr.i + 1 \in Nat /\ "loop" \in ManagerPC
    BY <1>1 DEF ManagerPC
  <2>2. /\ [mgr EXCEPT !.pc = "loop", !.i = mgr.i + 1] \in ManagerRecord
        /\ [mgr EXCEPT !.pc = "loop", !.i = mgr.i + 1].pc = "loop"
    BY <1>1, <2>1 DEF ManagerRecord
  <2> QED
    BY <1>6, <2>2
<1>7. CASE M_NextPass
  <2>1. mgr' \in ManagerRecord /\ mgr'.pc = "loop"
    BY <1>1, <1>7 DEF M_NextPass, ManagerRecord
  <2> QED
    BY <1>7, <2>1 DEF M_NextPass, shared, TypeInv, TypeOK, IndexOK, Size
<1>8. CASE M_Exit
  <2>1. mgr' \in ManagerRecord /\ mgr'.pc = "exited"
    BY <1>3, <1>8 DEF M_Exit, M_Goto, ManagerPC
  <2>2. proc' \in [Threads \cup {Mgr} -> Process]
    <3>1. Exited(proc[Mgr], 0) \in Process
      <4>1. \A n \in Int: Exited(proc[Mgr], n) \in Process
        BY <1>1, EndedType
      <4> QED
        BY <4>1
    <3> QED
      BY <1>1, <1>8, <3>1 DEF M_Exit
  <2>3. <<>> \in Seq(Threads \cup {Mgr})
    OBVIOUS
  <2> QED
    BY <1>8, <2>1, <2>2, <2>3 DEF M_Exit, TypeInv, TypeOK, IndexOK, Size
<1>9. CASE M_SelfRequest
  <2>1. mgr' \in ManagerRecord /\ mgr'.i = mgr.i /\ mgr.i < Size
    BY <1>3, <1>9 DEF M_SelfRequest, M_Goto, ManagerPC
  <2>2. <<"Thread", Scanned>> \in Packages
    BY <1>2, <2>1 DEF Packages
  <2>3. REQUEST' \in Mailbox
    BY <1>1, <1>9, <2>2, MailboxUpdates DEF M_SelfRequest, RequestIds
  <2> QED
    BY <1>9, <2>1, <2>3 DEF M_SelfRequest, TypeInv, TypeOK, IndexOK, Size
<1>10. CASE M_PickUp
  <2>1. mgr' \in ManagerRecord /\ mgr'.i = mgr.i /\ mgr.i < Size
    BY <1>3, <1>10 DEF M_PickUp, M_Write, M_Goto, ManagerPC
  <2>2. REQUEST' \in Mailbox
    BY <1>1, <1>10 DEF M_PickUp, M_Write, Mailbox
  <2> QED
    BY <1>10, <2>1, <2>2 DEF M_PickUp, M_Write, TypeInv, TypeOK, IndexOK, Size
<1>11. CASE M_NoRequest
  <2>1. mgr' \in ManagerRecord /\ mgr'.i = mgr.i /\ mgr.i < Size
    BY <1>3, <1>11 DEF M_NoRequest, M_Goto, ManagerPC
  <2> QED
    BY <1>11, <2>1 DEF M_NoRequest, shared, TypeInv, TypeOK, IndexOK, Size
<1>12. CASE M_Skip
  BY <1>6, <1>12 DEF M_Skip, M_Advance, shared, TypeInv, TypeOK, IndexOK, Size
<1>13. CASE M_NotKillable
  <2>1. mgr' \in ManagerRecord /\ mgr'.i = mgr.i /\ mgr.pc = "scan"
    BY <1>3, <1>13 DEF M_NotKillable, M_Goto, ManagerPC
  <2> QED
    BY <1>13, <2>1 DEF M_NotKillable, shared, TypeInv, TypeOK, IndexOK, Size
<1>14. CASE M_CleanUp
  <2>1. threadWaitUntilStopped \in Seq(Signals \cup Waits)
    BY CallsType DEF Calls, RequestIds
  <2>2. Scanned \in Threads \cup {Mgr} /\ mgr.i < Size
    BY <1>2, <1>14 DEF M_CleanUp, TypeInv, IndexOK
  <2>3. [mgr EXCEPT !.pc = "call", !.t = Scanned, !.todo = threadWaitUntilStopped,
                    !.call = "stop"] \in ManagerRecord
    BY <1>1, <2>1, <2>2, ManagerCalls
  <2>4. mgr' \in ManagerRecord /\ mgr'.i = mgr.i
    BY <1>1, <1>14, <2>3 DEF M_CleanUp, ManagerRecord
  <2>5. thread' \in [Threads -> ThreadObject]
    BY <1>5, <1>14 DEF M_CleanUp
  <2> QED
    BY <1>14, <2>2, <2>4, <2>5 DEF M_CleanUp, shared, TypeInv, TypeOK, IndexOK, Size
<1>15. CASE M_Died
  <2>1. mgr' \in ManagerRecord /\ mgr'.i = mgr.i /\ mgr.pc = "died"
    BY <1>3, <1>15 DEF M_Died, M_Goto, ManagerPC
  <2>2. thread' \in [Threads -> ThreadObject]
    BY <1>5, <1>15 DEF M_Died
  <2> QED
    BY <1>15, <2>1, <2>2 DEF M_Died, shared, TypeInv, TypeOK, IndexOK, Size
<1>16. CASE M_Erase
  <2>1. mgr' \in ManagerRecord /\ mgr'.pc = "loop"
    BY <1>6, <1>16 DEF M_Erase, M_Advance
  <2>2. thread' \in [Threads -> ThreadObject]
    BY <1>1, <1>5, <1>16 DEF M_Erase
  <2>3. mgr.i < Size
    BY <1>16 DEF M_Erase, TypeInv, IndexOK
  <2>4. QTS_VECTOR' \in Seq(Threads \cup {Mgr})
    BY <1>1, <1>16, <2>3, ErasedType DEF M_Erase
  <2> QED
    BY <1>16, <2>1, <2>2, <2>4 DEF M_Erase, TypeInv, TypeOK, IndexOK
<1> QED
  BY <1>7, <1>8, <1>9, <1>10, <1>11, <1>12, <1>13, <1>14, <1>15, <1>16

-----------------------------------------------------------------------------
LEMMA NextType ==
    ASSUME TypeInv, [Next]_vars
    PROVE  TypeInv'
<1>1. CASE Manager
  BY <1>1, ScanTypes, RequestTypes, OperationTypes DEF Manager
<1>2. CASE \E c \in Clients: Client(c)
  BY <1>2, ClientTypes
<1>3. CASE C_Exit \/ C_ExitJoin \/ C_Exited
  BY <1>3, ExitTypes
<1>4. CASE \E t \in Threads: Suspended(t)
  BY <1>4, SuspendedType
<1>5. CASE UNCHANGED vars
  BY <1>5 DEF vars, TypeInv, TypeOK, IndexOK, Size
<1> QED
  BY <1>1, <1>2, <1>3, <1>4, <1>5 DEF Next

\* Every variable keeps its type, and the scan never reads past the end of
\* QTS_VECTOR between the test of the inner loop and its last statement.
THEOREM TypeCorrect == Spec => [](TypeOK /\ IndexOK)
<1>1. Init => TypeInv
  BY InitType
<1>2. TypeInv /\ [Next]_vars => TypeInv'
  BY NextType
<1>3. TypeInv => TypeOK /\ IndexOK
  BY DEF TypeInv
<1> QED
  BY <1>1, <1>2, <1>3, PTL DEF Spec

-----------------------------------------------------------------------------
(***************************************************************************)
(* RegisteredOnce.  That a thread is not registered a second time rests on *)
(* the life of its QTS: from C_threadNew to threadNew_ one client carries  *)
(* it, and then the mailbox.  That the erase of the scan takes away only a *)
(* thread that is over rests on what reapable says, and that it never      *)
(* takes the manager's own entry on the index being beyond the first.      *)
(***************************************************************************)
Pending(c, t) == /\ client[c].pc \in {"request", "package"}
                 /\ client[c].package = <<"QTS", t>>

OneSender ==
    \A t \in Threads, c, d \in Clients: Pending(c, t) /\ Pending(d, t) => c = d

PendingIsNew ==
    \A t \in Threads, c \in Clients:
        Pending(c, t) => child[t].pc = "qts" /\ REQUEST.package # <<"QTS", t>>

PostedIsNew ==
    \A t \in Threads: REQUEST.package = <<"QTS", t>> =>
        \/ child[t].pc = "qts"
        \/ mgr.pc = "clearPackage" /\ child[t].pc # "free"

Quiet(p) == ~Alive(p) => ~p.stopEvent /\ ~p.contEvent

Tracked(t) ==
    /\ child[t].pc \in {"free", "qts"} <=> proc[t].state = "none"
    /\ proc[t].state \in {"running", "stopped", "zombie"} => t \in Registered
    /\ t \in Registered => proc[t].state # "none"
    /\ Quiet(proc[t])
    /\ thread[t].reapable => /\ proc[t].state = "reaped"
                             /\ thread[t].status \in {"EXITED", "KILLED_BY_SIGNAL"}

Distinct == \A i, j \in 1..Size: QTS_VECTOR[i] = QTS_VECTOR[j] => i = j

ManagerFirst == mgr.pc # "exited" => Size > 0 /\ QTS_VECTOR[1] = Mgr

CurrentToTheEnd == current <=> mgr.pc # "exited"

ScansOthers ==
    mgr.pc \in {"died", "erase"} \/ (mgr.pc = "call" /\ mgr.call # "request") => mgr.i > 0

ErasesTheDead == mgr.pc = "erase" /\ thread[Scanned].reapable => thread[Scanned].died

Mail == OneSender /\ PendingIsNew /\ PostedIsNew

Tracking == \A t \in Threads: Tracked(t)

Scanning == Distinct /\ ManagerFirst /\ CurrentToTheEnd /\ ScansOthers /\ ErasesTheDead

IInv == TypeInv /\ Mail /\ Tracking /\ Scanning

LEMMA RegisteredOnceFollows == Tracking /\ Scanning => RegisteredOnce
BY DEF Tracking, Tracked, Scanning, Distinct, ManagerFirst, CurrentToTheEnd, RegisteredOnce

LEMMA SignalledStays ==
    ASSUME NEW p \in Process, NEW sig, Quiet(p)
    PROVE  LET q == Signalled(p, sig)
           IN  /\ q \in Process
               /\ q.state = "none" <=> p.state = "none"
               /\ q.state = "reaped" <=> p.state = "reaped"
               /\ Quiet(q)
<1>1. /\ p.state \in {"none", "running", "stopped", "zombie", "reaped"}
      /\ Signalled(p, sig) \in Process
  BY SignalledType DEF Process
<1>2. CASE Signalled(p, sig) = p
  BY <1>1, <1>2
<1>3. CASE Signalled(p, sig) = Killed(p) /\ Alive(p)
  BY <1>1, <1>3 DEF Killed, Zombie, Alive, Quiet
<1>4. CASE /\ p.state = "running"
           /\ Signalled(p, sig) =
                 [p EXCEPT !.state = "stopped", !.stopEvent = TRUE, !.contEvent = FALSE]
  BY <1>1, <1>4 DEF Alive, Quiet, Process
<1>5. CASE /\ p.state = "stopped"
           /\ Signalled(p, sig) =
                 [p EXCEPT !.state = "running", !.stopEvent = FALSE, !.contEvent = TRUE]
  BY <1>1, <1>5 DEF Alive, Quiet, Process
<1> QED
  BY <1>1, <1>2, <1>3, <1>4, <1>5 DEF Signalled, Alive

LEMMA InitIInv == Init => IInv
<1> SUFFICES ASSUME Init PROVE IInv
  OBVIOUS
<1>1. TypeInv
  BY InitType
<1>2. Mail
  BY NullAssumption DEF Init, Mail, OneSender, PendingIsNew, PostedIsNew, Pending, EmptyMailbox
<1>3. Size = 1 /\ QTS_VECTOR[1] = Mgr /\ Registered = {Mgr}
  BY DEF Init, Size, Registered
<1>4. Tracking
  BY <1>3, MgrAssumption DEF Init, Tracking, Tracked, NoProcess, NewThread, Quiet
<1>5. Scanning
  BY <1>3 DEF Init, Scanning, Distinct, ManagerFirst, CurrentToTheEnd, ScansOthers, ErasesTheDead
<1> QED
  BY <1>1, <1>2, <1>4, <1>5 DEF IInv

-----------------------------------------------------------------------------
(***************************************************************************)
(* The parts of IInv, from what a step may do to what they speak of.       *)
(***************************************************************************)
\* No new QTS, no client on its way with one, and none posted.
LEMMA MailStays ==
    ASSUME Mail, UNCHANGED client,
           REQUEST'.package = REQUEST.package \/ REQUEST'.package \notin {"QTS"} \X Threads,
           mgr.pc # "clearPackage",
           \A t \in Threads: /\ child[t].pc = "qts" => child'[t].pc = "qts"
    PROVE  Mail'
<1>1. \A t \in Threads, c \in Clients: Pending(c, t)' <=> Pending(c, t)
  BY DEF Pending
<1>2. OneSender'
  BY <1>1 DEF Mail, OneSender
<1>3. \A t \in Threads: REQUEST'.package = <<"QTS", t>> => REQUEST.package = <<"QTS", t>>
  OBVIOUS
<1>4. PendingIsNew'
  BY <1>1, <1>3 DEF Mail, PendingIsNew
<1>5. PostedIsNew'
  BY <1>3 DEF Mail, PostedIsNew
<1> QED
  BY <1>2, <1>4, <1>5 DEF Mail

\* The scan stays where it is, and so does QTS_VECTOR.
LEMMA ScanningStays ==
    ASSUME Scanning, UNCHANGED <<QTS_VECTOR, current, mgr>>,
           \A t \in Threads: /\ thread'[t].reapable => thread[t].reapable
                             /\ thread'[t].reapable /\ thread[t].died => thread'[t].died,
           mgr.pc = "erase" => Scanned \in Threads
    PROVE  Scanning'
<1>1. Distinct' /\ ManagerFirst' /\ CurrentToTheEnd' /\ ScansOthers'
  BY DEF Scanning, Distinct, ManagerFirst, CurrentToTheEnd, ScansOthers, Size
<1>2. ErasesTheDead'
  BY DEF Scanning, ErasesTheDead, Scanned
<1> QED
  BY <1>1, <1>2 DEF Scanning

LEMMA ScannedIsThread ==
    ASSUME TypeInv, Scanning, mgr.pc \notin {"loop", "exited"}, mgr.i > 0
    PROVE  Scanned \in Threads /\ Scanned \in Registered
<1>1. mgr.i \in Nat /\ mgr.i < Size /\ QTS_VECTOR \in Seq(Threads \cup {Mgr})
  BY DEF TypeInv, TypeOK, IndexOK, ManagerRecord
<1>2. mgr.i + 1 \in 1..Size /\ 1 \in 1..Size /\ mgr.i + 1 # 1 /\ Size \in Nat
  BY <1>1 DEF Size
<1>3. Scanned \in Threads \cup {Mgr} /\ Scanned \in Registered
  BY <1>1, <1>2 DEF Scanned, Registered, Size
<1>4. Scanned # Mgr
  BY <1>2 DEF Scanning, Distinct, ManagerFirst, Scanned
<1> QED
  BY <1>3, <1>4

LEMMA SuspendedIInv ==
    ASSUME IInv, NEW t \in Threads, Suspended(t)
    PROVE  Mail' /\ Tracking' /\ Scanning'
<1>1. UNCHANGED <<shared, mgr, client>>
  BY DEF Suspended, T_Start, T_StopItself, T_Resumed, T_Main, T_Crash, T_Killable,
         T_Killed, T_Ending, T_Return
<1>2. /\ thread \in [Threads -> ThreadObject]
      /\ proc \in [Threads \cup {Mgr} -> Process] /\ proc[t] \in Process
      /\ child \in [Threads -> ChildRecord]
      /\ Tracked(t) /\ proc[t].state = "running"
  BY DEF IInv, TypeInv, TypeOK, Tracking, Suspended, T_Start, T_StopItself, T_Resumed,
         T_Main, T_Crash, T_Killable, T_Killed, T_Ending, T_Return, T_Step, Runs
<1>3. ~thread[t].reapable /\ child[t].pc \notin {"free", "qts"}
  BY <1>2 DEF Tracked
<1>4. \A u \in Threads \ {t}: thread'[u] = thread[u] /\ child'[u] = child[u] /\ proc'[u] = proc[u]
  BY <1>2 DEF Suspended, T_Start, T_StopItself, T_Resumed, T_Main, T_Crash, T_Killable,
         T_Killed, T_Ending, T_Return, T_Step
<1>5. child'[t].pc \notin {"free", "qts"}
  BY <1>2 DEF Suspended, T_Start, T_StopItself, T_Resumed, T_Main, T_Crash, T_Killable,
         T_Killed, T_Ending, T_Return, T_Step, ChildRecord
<1>6. ~thread'[t].reapable
  BY <1>2, <1>3 DEF Suspended, T_Start, T_StopItself, T_Resumed, T_Main, T_Crash, T_Killable,
         T_Killed, T_Ending, T_Return, T_Step, ThreadObject
<1>7. proc'[t].state \notin {"none", "reaped"} /\ Quiet(proc'[t])
  <2>1. /\ Quiet(proc[t]) /\ Signalled(proc[t], "SIGSTOP").state \notin {"none", "reaped"}
        /\ Quiet(Signalled(proc[t], "SIGSTOP"))
    BY <1>2, SignalledStays DEF Tracked
  <2>2. \A R \in Int: /\ Exited(proc[t], R).state = "zombie" /\ Quiet(Exited(proc[t], R))
                      /\ Killed(proc[t]).state = "zombie" /\ Quiet(Killed(proc[t]))
    BY DEF Exited, Killed, Zombie, Quiet
  <2>3. child[t].R \in Int
    <3>1. child[t].R \in Results \cup {0}
      BY <1>2 DEF ChildRecord
    <3> QED
      BY <3>1, ResultsType
  <2>4. \/ proc'[t] = proc[t] \/ proc'[t] = Signalled(proc[t], "SIGSTOP")
        \/ proc'[t] = Killed(proc[t]) \/ proc'[t] = Exited(proc[t], child[t].R)
    BY <1>2 DEF Suspended, T_Start, T_StopItself, T_Resumed, T_Main, T_Crash, T_Killable,
         T_Killed, T_Ending, T_Return, T_Step
  <2> QED
    BY <1>2, <2>1, <2>2, <2>3, <2>4
<1>8. Tracking'
  <2> SUFFICES ASSUME NEW u \in Threads PROVE Tracked(u)'
    BY DEF Tracking
  <2>1. Registered' = Registered
    BY <1>1 DEF shared, Registered, Size
  <2>2. CASE u = t
    BY <1>2, <1>5, <1>6, <1>7, <2>1, <2>2 DEF Tracked
  <2>3. CASE u # t
    BY <1>4, <2>1, <2>3 DEF IInv, Tracking, Tracked
  <2> QED
    BY <2>2, <2>3
<1>9. Mail'
  <2>1. \A u \in Threads: child[u].pc \in {"free", "qts"} => child'[u] = child[u]
    BY <1>3, <1>4
  <2>2. \A u \in Threads: child'[u].pc = "free" => child[u].pc = "free"
    BY <1>4, <1>5
  <2> QED
    BY <1>1, <2>1, <2>2 DEF IInv, Mail, OneSender, PendingIsNew, PostedIsNew, Pending, shared
<1>10. Scanning'
  <2>1. mgr.pc = "erase" => Scanned \in Threads
    BY ScannedIsThread DEF IInv, Scanning, ScansOthers
  <2> QED
    BY <1>1, <1>4, <1>6, <2>1, ScanningStays DEF IInv, shared
<1> QED
  BY <1>8, <1>9, <1>10

LEMMA ClientIInv ==
    ASSUME IInv, NEW c \in Clients, Client(c)
    PROVE  Mail' /\ Tracking' /\ Scanning'
<1>1. UNCHANGED <<QTS_VECTOR, close, current, thread, proc, mgr>>
  BY DEF Client, C_threadNew, C_Ask, sendRequest, C_Write, C_Spin, C_Answered, C_Created,
         C_Orphaned, C_threadJoin, C_Joined, shared
<1>2. /\ REQUEST \in Mailbox
      /\ child \in [Threads -> ChildRecord]
      /\ client \in [Clients -> ClientRecord] /\ client[c] \in ClientRecord
  BY DEF IInv, TypeInv, TypeOK
<1>3. Scanning'
  <2>1. mgr.pc = "erase" => Scanned \in Threads
    BY ScannedIsThread DEF IInv, Scanning, ScansOthers
  <2> QED
    BY <1>1, <2>1, ScanningStays DEF IInv
<1>4. Registered' = Registered
  BY <1>1 DEF Registered, Size
\* Of the others, none carries a QTS it did not carry.
<1>5. ASSUME UNCHANGED child, REQUEST'.package = REQUEST.package,
             \A t \in Threads, d \in Clients: Pending(d, t)' => Pending(d, t)
      PROVE  Mail' /\ Tracking'
  <2>1. Mail'
    BY <1>1, <1>5 DEF IInv, Mail, OneSender, PendingIsNew, PostedIsNew
  <2>2. Tracking'
    BY <1>1, <1>4, <1>5 DEF IInv, Tracking, Tracked
  <2> QED
    BY <2>1, <2>2
<1>6. ASSUME \A d \in Clients \ {c}: client'[d] = client[d],
             client'[c].pc \in {"request", "package"} =>
                \A t \in Threads: client'[c].package # <<"QTS", t>>
      PROVE  \A t \in Threads, d \in Clients: Pending(d, t)' => Pending(d, t)
  BY <1>6 DEF Pending
<1>7. CASE C_threadNew(c)
  <2>1. PICK t \in Threads, b \in BOOLEAN:
            /\ child[t].pc = "free"
            /\ child' = [child EXCEPT ![t].pc = "qts"]
            /\ Send(c, "threadCreate", <<"QTS", t>>, b)
    BY <1>7 DEF C_threadNew
  <2>2. client[c].pc = "idle" /\ REQUEST' = REQUEST
    BY <1>7 DEF C_threadNew, shared
  <2>3. /\ \A d \in Clients \ {c}: client'[d] = client[d]
        /\ client'[c].package = <<"QTS", t>> /\ client'[c].pc = "request"
    BY <1>2, <2>1 DEF Send, ClientRecord
  <2>4. /\ \A u \in Threads \ {t}: child'[u] = child[u]
        /\ child'[t].pc = "qts"
    BY <1>2, <2>1 DEF ChildRecord
  <2>5. REQUEST.package # <<"QTS", t>> /\ \A d \in Clients: ~Pending(d, t)
    BY <2>1 DEF IInv, Mail, PendingIsNew, PostedIsNew
  <2>6. ASSUME NEW u \in Threads, NEW d \in Clients, Pending(d, u)'
        PROVE  \/ Pending(d, u) /\ u # t
               \/ d = c /\ u = t
    <3>1. CASE d = c
      <4>1. <<"QTS", t>> = <<"QTS", u>>
        BY <2>3, <2>6, <3>1 DEF Pending
      <4> QED
        BY <3>1, <4>1
    <3>2. CASE d # c
      BY <2>3, <2>5, <2>6, <3>2 DEF Pending
    <3> QED
      BY <3>1, <3>2
  <2>7. OneSender'
    BY <2>6 DEF IInv, Mail, OneSender
  <2>8. PendingIsNew'
    BY <2>2, <2>4, <2>5, <2>6 DEF IInv, Mail, PendingIsNew
  <2>9. PostedIsNew'
    BY <1>1, <2>2, <2>4, <2>5 DEF IInv, Mail, PostedIsNew
  <2>10. Tracking'
    BY <1>1, <1>4, <2>1, <2>4 DEF IInv, Tracking, Tracked
  <2> QED
    BY <1>3, <2>7, <2>8, <2>9, <2>10 DEF Mail
<1>8. CASE C_Ask(c)
  <2>1. PICK r \in Requests, t \in client[c].mine: Send(c, r, <<"Thread", t>>, FALSE)
    BY <1>8 DEF C_Ask
  <2>2. /\ \A d \in Clients \ {c}: client'[d] = client[d]
        /\ client'[c].package = <<"Thread", t>>
    BY <1>2, <2>1 DEF Send, ClientRecord
  <2>3. UNCHANGED <<REQUEST, child>>
    BY <1>8 DEF C_Ask, shared
  <2> QED
    BY <1>3, <1>5, <1>6, <2>2, <2>3
<1>9. CASE C_Write(c, "package", "upload", "package", client[c].package)
  <2>1. /\ REQUEST'.package = client[c].package /\ UNCHANGED child
        /\ client[c].pc = "package" /\ client'[c].pc = "upload"
        /\ \A d \in Clients \ {c}: client'[d] = client[d]
    BY <1>2, <1>9 DEF C_Write, Mailbox, ClientRecord
  <2>2. \A t \in Threads, d \in Clients: Pending(d, t)' => d # c /\ Pending(d, t)
    BY <2>1 DEF Pending
  <2>3. \A t \in Threads: REQUEST'.package = <<"QTS", t>> => Pending(c, t)
    BY <2>1 DEF Pending
  <2>4. OneSender'
    BY <2>2 DEF IInv, Mail, OneSender
  <2>5. PendingIsNew'
    BY <2>1, <2>2, <2>3 DEF IInv, Mail, OneSender, PendingIsNew
  <2>6. PostedIsNew'
    BY <1>1, <2>1, <2>3 DEF IInv, Mail, PendingIsNew, PostedIsNew
  <2>7. Tracking'
    BY <1>1, <1>4, <2>1 DEF IInv, Tracking, Tracked
  <2> QED
    BY <1>3, <2>4, <2>5, <2>6, <2>7 DEF Mail
<1>10. CASE C_Write(c, "request", "package", "request", client[c].request)
  <2>1. /\ REQUEST'.package = REQUEST.package /\ UNCHANGED child
        /\ client[c].pc = "request" /\ client'[c].package = client[c].package
        /\ \A d \in Clients \ {c}: client'[d] = client[d]
    BY <1>2, <1>10 DEF C_Write, Mailbox, ClientRecord
  <2>2. \A t \in Threads, d \in Clients: Pending(d, t)' => Pending(d, t)
    BY <2>1 DEF Pending
  <2> QED
    BY <1>3, <1>5, <2>1, <2>2
<1>11. ASSUME UNCHANGED child, REQUEST'.package = REQUEST.package,
              NEW pc \in ClientPC \ {"request", "package"},
              client' = [client EXCEPT ![c].pc = pc]
       PROVE  Mail' /\ Tracking'
  <2>1. /\ \A d \in Clients \ {c}: client'[d] = client[d]
        /\ client'[c].pc = pc
    BY <1>2, <1>11 DEF ClientRecord
  <2> QED
    BY <1>5, <1>6, <1>11, <2>1
<1>12. CASE \/ C_Write(c, "upload", "uploadNotComplete", "upload", TRUE)
            \/ C_Write(c, "uploadNotComplete", "processingNotComplete", "uploadNotComplete", TRUE)
            \/ C_Write(c, "processingNotComplete", "spinUpload", "processingNotComplete", TRUE)
  BY <1>2, <1>3, <1>11, <1>12 DEF C_Write, Mailbox, ClientPC
<1>13. CASE \/ C_Spin(c, "spinUpload", "spinProcessing", "uploadNotComplete")
            \/ C_Spin(c, "spinProcessing", "reply", "processingNotComplete")
            \/ C_Answered(c) \/ C_Orphaned(c) \/ C_Joined(c)
  BY <1>3, <1>11, <1>13 DEF C_Spin, C_Answered, C_Orphaned, C_Joined, ClientPC, shared
<1>14. CASE C_Created(c)
  <2>1. UNCHANGED <<REQUEST, child>>
    BY <1>14 DEF C_Created, shared
  <2>2. CASE REQUEST.reply = NULL
    BY <1>3, <1>11, <1>14, <2>1, <2>2 DEF C_Created, ClientPC
  <2>3. CASE REQUEST.reply # NULL
    <3>1. /\ \A d \in Clients \ {c}: client'[d] = client[d]
          /\ client'[c].package = <<"Thread", REQUEST.reply>>
      BY <1>2, <1>14, <2>3 DEF C_Created, ClientRecord
    <3> QED
      BY <1>3, <1>5, <1>6, <2>1, <3>1
  <2> QED
    BY <2>2, <2>3
<1>15. CASE C_threadJoin(c)
  <2>1. UNCHANGED <<REQUEST, child>>
    BY <1>15 DEF C_threadJoin, shared
  <2>2. /\ \A d \in Clients \ {c}: client'[d] = client[d]
        /\ client'[c].pc = "join"
    BY <1>2, <1>15 DEF C_threadJoin, ClientRecord
  <2> QED
    BY <1>3, <1>5, <1>6, <2>1, <2>2
<1> QED
  BY <1>7, <1>8, <1>9, <1>10, <1>12, <1>13, <1>14, <1>15 DEF Client, sendRequest

LEMMA ExitIInv ==
    ASSUME IInv, C_Exit \/ C_ExitJoin \/ C_Exited
    PROVE  Mail' /\ Tracking' /\ Scanning'
<1>1. UNCHANGED <<REQUEST, QTS_VECTOR, current, thread, child, mgr>>
  BY DEF C_Exit, C_ExitJoin, C_Exited, shared
<1>2. /\ client \in [Clients -> ClientRecord] /\ client[Main] \in ClientRecord
      /\ proc \in [Threads \cup {Mgr} -> Process]
  BY MainAssumption DEF IInv, TypeInv, TypeOK
<1>3. \A t \in Threads: proc'[t] = proc[t]
  BY <1>2, MgrAssumption DEF C_Exit, C_ExitJoin, C_Exited, shared
<1>4. /\ \A d \in Clients \ {Main}: client'[d] = client[d]
      /\ client'[Main].pc \in {"exit", "exitWait", "crashed", "done"}
  BY <1>2, MainAssumption DEF C_Exit, C_ExitJoin, C_Exited, ClientRecord
<1>5. \A t \in Threads, d \in Clients: Pending(d, t)' => Pending(d, t)
  BY <1>4 DEF Pending
<1>6. Mail'
  BY <1>1, <1>5 DEF IInv, Mail, OneSender, PendingIsNew, PostedIsNew
<1>7. Tracking'
  BY <1>1, <1>3 DEF IInv, Tracking, Tracked, Registered, Size
<1>8. Scanning'
  <2>1. mgr.pc = "erase" => Scanned \in Threads
    BY ScannedIsThread DEF IInv, Scanning, ScansOthers
  <2> QED
    BY <1>1, <2>1, ScanningStays DEF IInv
<1> QED
  BY <1>6, <1>7, <1>8

LEMMA OperationIInv ==
    ASSUME IInv,
           \/ M_Signal \/ M_WaitFails \/ M_WaitExited \/ M_WaitStopped \/ M_WaitContinued
           \/ M_Return
    PROVE  Mail' /\ Tracking' /\ Scanning'
<1>1. /\ thread \in [Threads -> ThreadObject]
      /\ proc \in [Threads \cup {Mgr} -> Process]
      /\ mgr \in ManagerRecord
  BY DEF IInv, TypeInv, TypeOK
<1>2. UNCHANGED <<shared, child, client>> /\ mgr.pc = "call"
  BY DEF M_Signal, M_WaitFails, M_WaitExited, M_WaitStopped, M_WaitContinued, M_Return, Calling
<1>3. /\ mgr'.i = mgr.i
      /\ mgr'.pc \in {"call", "answered", "died"}
      /\ mgr'.pc = "died" \/ mgr'.call # "request" => mgr.call # "request"
  <2>1. CASE M_Return
    BY <1>1, <2>1 DEF M_Return, ManagerRecord
  <2>2. CASE ~M_Return
    BY <1>1, <2>2 DEF M_Signal, M_WaitFails, M_WaitExited, M_WaitStopped, M_WaitContinued,
                      Calling, ManagerRecord
  <2> QED
    BY <2>1, <2>2
<1>4. Mail'
  BY <1>2, MailStays DEF IInv, shared
<1>5. Scanning'
  <2>1. UNCHANGED <<QTS_VECTOR, current>>
    BY <1>2 DEF shared
  <2>2. Distinct' /\ ManagerFirst' /\ CurrentToTheEnd'
    BY <1>2, <1>3, <2>1 DEF IInv, Scanning, Distinct, ManagerFirst, CurrentToTheEnd, Size
  <2>3. ScansOthers' /\ ErasesTheDead'
    BY <1>2, <1>3 DEF IInv, Scanning, ScansOthers, ErasesTheDead
  <2> QED
    BY <2>2, <2>3 DEF Scanning
<1>6. Tracking'
  <2> SUFFICES ASSUME NEW t \in Threads PROVE Tracked(t)'
    BY DEF Tracking
  <2>1. /\ Tracked(t) /\ Registered' = Registered /\ child' = child
        /\ proc[t] \in Process /\ thread[t] \in ThreadObject
    BY <1>1, <1>2 DEF IInv, Tracking, shared, Registered, Size
  <2>2. SUFFICES /\ proc'[t].state = "none" <=> proc[t].state = "none"
                 /\ proc[t].state = "reaped" => proc'[t].state = "reaped"
                 /\ proc'[t] \in Process /\ Quiet(proc'[t])
                 /\ thread'[t].reapable =>
                       /\ proc'[t].state = "reaped"
                       /\ thread'[t].status \in {"EXITED", "KILLED_BY_SIGNAL"}
    <3>1. proc[t].state \in {"none", "running", "stopped", "zombie", "reaped"}
      BY <2>1 DEF Process
    <3> QED
      BY <2>1, <2>2, <3>1 DEF Tracked, Process
  <2>3. CASE UNCHANGED <<proc, thread>>
    BY <2>1, <2>3 DEF Tracked
  <2>4. CASE t # mgr.t
    <3>1. proc'[t] = proc[t] /\ thread'[t] = thread[t]
      BY <1>1, <2>4 DEF M_Signal, M_WaitFails, M_WaitExited, M_WaitStopped, M_WaitContinued,
                        M_Return
    <3> QED
      BY <2>1, <3>1 DEF Tracked
  <2>5. CASE t = mgr.t /\ M_Signal
    <3>1. proc'[t] = Signalled(proc[t], Head(mgr.todo)) /\ thread' = thread
      BY <1>1, <2>5 DEF M_Signal
    <3> QED
      BY <2>1, <3>1, SignalledStays DEF Tracked
  <2>6. CASE t = mgr.t /\ M_WaitExited
    <3>1. /\ proc'[t] = [proc[t] EXCEPT !.state = "reaped"] /\ proc[t].state = "zombie"
          /\ thread'[t].status \in {"EXITED", "KILLED_BY_SIGNAL"}
      BY <1>1, <2>6 DEF M_WaitExited, Reaped, ReportsExit, ThreadObject
    <3> QED
      BY <2>1, <3>1 DEF Tracked, Quiet, Alive, Process
  <2>7. CASE t = mgr.t /\ (M_WaitStopped \/ M_WaitContinued)
    <3>1. /\ \/ proc'[t] = [proc[t] EXCEPT !.stopEvent = FALSE]
             \/ proc'[t] = [proc[t] EXCEPT !.contEvent = FALSE]
          /\ proc[t].stopEvent \/ proc[t].contEvent
          /\ thread'[t].reapable = thread[t].reapable
      BY <1>1, <2>7 DEF M_WaitStopped, M_WaitContinued, StopReported, ContinueReported,
                        ReportsStop, ReportsContinue, ThreadObject
    <3>2. Alive(proc[t]) /\ proc[t].state \notin {"none", "reaped"} /\ ~thread[t].reapable
      BY <2>1, <3>1 DEF Tracked, Quiet, Alive
    <3>3. Alive(proc'[t]) /\ proc'[t].state = proc[t].state /\ proc'[t] \in Process
      BY <2>1, <3>1, <3>2 DEF Process, Alive
    <3> QED
      BY <3>1, <3>2, <3>3 DEF Quiet
  <2> QED
    BY <2>3, <2>4, <2>5, <2>6, <2>7 DEF M_WaitFails, M_Return
<1> QED
  BY <1>4, <1>5, <1>6

LEMMA RequestIInv ==
    ASSUME IInv, handleRequest
    PROVE  Mail' /\ Tracking' /\ Scanning'
<1>1. /\ REQUEST \in Mailbox
      /\ QTS_VECTOR \in Seq(Threads \cup {Mgr})
      /\ thread \in [Threads -> ThreadObject]
      /\ child \in [Threads -> ChildRecord]
      /\ proc \in [Threads \cup {Mgr} -> Process]
      /\ mgr \in ManagerRecord
  BY DEF IInv, TypeInv, TypeOK
<1>2. UNCHANGED <<current, client>>
  BY DEF handleRequest, M_Write, M_Dispatch, M_AssertPackage, M_threadNew, M_CloneFails,
         M_ClearPackage, M_Switch, M_Serve, M_Confused, M_Dies, shared
<1>3. /\ mgr.pc \in {"upload", "uploadNotComplete", "dispatch", "switch", "package",
                     "clearPackage", "answered", "processing", "processingNotComplete"}
      /\ mgr'.pc \notin {"loop", "exited", "died", "erase"}
      /\ mgr'.pc = "call" => mgr'.call = "request"
  BY <1>1 DEF handleRequest, M_Write, M_Dispatch, M_AssertPackage, M_threadNew, M_CloneFails,
         M_ClearPackage, M_Switch, M_Serve, M_Confused, M_Dies, M_Goto, ManagerRecord
<1>4. CurrentToTheEnd' /\ ScansOthers' /\ ErasesTheDead'
  BY <1>2, <1>3 DEF IInv, Scanning, CurrentToTheEnd, ScansOthers, ErasesTheDead
<1>5. CASE ~M_threadNew
  <2>1. UNCHANGED <<QTS_VECTOR, thread, child>> /\ \A t \in Threads: proc'[t] = proc[t]
    BY <1>1, <1>5, MgrAssumption DEF handleRequest, M_Write, M_Dispatch, M_AssertPackage,
       M_threadNew, M_CloneFails, M_ClearPackage, M_Switch, M_Serve, M_Confused, M_Dies, shared
  <2>2. Tracking'
    BY <2>1 DEF IInv, Tracking, Tracked, Registered, Size
  <2>3. Distinct' /\ ManagerFirst'
    BY <1>3, <2>1 DEF IInv, Scanning, Distinct, ManagerFirst, Size
  <2>4. Mail'
    <3>1. CASE M_ClearPackage
      <4>1. REQUEST'.package = NULL
        BY <1>1, <3>1 DEF M_ClearPackage, Mailbox
      <4>2. \A t \in Threads: REQUEST'.package # <<"QTS", t>>
        BY <4>1, NullAssumption
      <4> QED
        BY <1>2, <2>1, <4>2 DEF IInv, Mail, OneSender, PendingIsNew, PostedIsNew, Pending
    <3>2. CASE ~M_ClearPackage
      <4>1. mgr.pc # "clearPackage" /\ REQUEST'.package = REQUEST.package
        BY <1>1, <1>5, <3>2 DEF handleRequest, M_Write, M_Dispatch, M_AssertPackage,
           M_CloneFails, M_Switch, M_Serve, M_Confused, M_Dies, M_Goto, shared, Mailbox
      <4> QED
        BY <1>2, <2>1, <4>1, MailStays DEF IInv
    <3> QED
      BY <3>1, <3>2
  <2> QED
    BY <1>4, <2>2, <2>3, <2>4 DEF Scanning
<1>6. CASE M_threadNew
  <2>1. PICK t \in Threads:
        /\ t = REQUEST.package[2] /\ REQUEST.package = <<"QTS", t>> /\ mgr.pc = "package"
        /\ mgr'.pc = "clearPackage" /\ REQUEST'.package = REQUEST.package
    BY <1>1, <1>6 DEF M_threadNew, M_Goto, ManagerRecord, Mailbox
  <2>2. /\ child[t].pc = "qts" /\ \A c \in Clients: ~Pending(c, t)
    BY <2>1 DEF IInv, Mail, PostedIsNew, PendingIsNew
  <2>3. t \notin Registered
    BY <2>1, <2>2 DEF IInv, Tracking, Tracked
  <2>4. /\ child'[t].pc = "start" /\ proc'[t] = Cloned /\ thread'[t] = NewThread
        /\ \A u \in Threads \ {t}: /\ child'[u] = child[u] /\ proc'[u] = proc[u]
                                   /\ thread'[u] = thread[u]
        /\ QTS_VECTOR' = Append(QTS_VECTOR, t)
    BY <1>1, <1>6, <2>1 DEF M_threadNew, ChildRecord
  <2>5. /\ Size \in Nat /\ Size' = Size + 1 /\ QTS_VECTOR'[Size + 1] = t
        /\ \A i \in 1..Size: QTS_VECTOR'[i] = QTS_VECTOR[i]
    BY <1>1, <2>1, <2>4 DEF Size
  <2>6. Registered' = Registered \cup {t}
    BY <2>5 DEF Registered
  <2>7. Distinct'
    BY <2>3, <2>5 DEF IInv, Scanning, Distinct, Registered
  <2>8. ManagerFirst'
    BY <2>1, <2>5 DEF IInv, Scanning, ManagerFirst
  <2>9. Tracked(t)'
    <3>1. Cloned.state = "running"
      BY FreshType DEF Cloned, Process
    <3> QED
      BY <2>4, <2>6, <3>1 DEF Tracked, NewThread, Quiet, Alive
  <2>10. \A u \in Threads \ {t}: Tracked(u)'
    BY <2>4, <2>6 DEF IInv, Tracking, Tracked
  <2>11. Mail'
    <3>1. \A u \in Threads, c \in Clients: Pending(c, u)' => Pending(c, u) /\ u # t
      BY <1>2, <2>2 DEF Pending
    <3>2. OneSender'
      BY <3>1 DEF IInv, Mail, OneSender
    <3>3. PendingIsNew'
      BY <2>1, <2>4, <3>1 DEF IInv, Mail, PendingIsNew
    <3>4. PostedIsNew'
      <4> SUFFICES ASSUME NEW u \in Threads, REQUEST'.package = <<"QTS", u>>
                   PROVE  mgr'.pc = "clearPackage" /\ child'[u].pc # "free"
        BY DEF PostedIsNew
      <4>1. <<"QTS", t>> = <<"QTS", u>>
        BY <2>1
      <4>2. t = u
        BY <4>1
      <4> QED
        BY <2>1, <2>4, <4>2
    <3> QED
      BY <3>2, <3>3, <3>4 DEF Mail
  <2> QED
    BY <1>4, <2>7, <2>8, <2>9, <2>10, <2>11 DEF Scanning, Tracking
<1> QED
  BY <1>5, <1>6

LEMMA EraseIInv ==
    ASSUME IInv, M_Erase, thread[Scanned].reapable
    PROVE  /\ Scanned \in Threads /\ Tracked(Scanned)
           /\ Registered' = Registered \ {Scanned}
           /\ Distinct' /\ Size' > 0 /\ QTS_VECTOR'[1] = Mgr
<1>1. /\ mgr.pc = "erase" /\ mgr.i \in Nat /\ mgr.i > 0 /\ mgr.i < Size /\ Size \in Nat
      /\ QTS_VECTOR \in Seq(Threads \cup {Mgr})
  BY DEF IInv, TypeInv, TypeOK, IndexOK, ManagerRecord, Scanning, ScansOthers, M_Erase, Size
<1>2. Scanned \in Threads /\ Tracked(Scanned)
  BY <1>1, ScannedIsThread DEF IInv, Tracking
<1>3. QTS_VECTOR' = Erased(mgr.i)
  BY DEF M_Erase
<1>4. /\ Size' = Size - 1
      /\ \A j \in 1..(Size - 1): QTS_VECTOR'[j] = QTS_VECTOR[IF j <= mgr.i THEN j ELSE j + 1]
  BY <1>1, <1>3, ErasedType DEF Size
<1> DEFINE old(j) == IF j <= mgr.i THEN j ELSE j + 1
<1>5. \A j \in 1..(Size - 1): old(j) \in 1..Size /\ old(j) # mgr.i + 1
  BY <1>1
<1>6. \A k \in 1..Size: k # mgr.i + 1 => \E j \in 1..(Size - 1): old(j) = k
  <2> SUFFICES ASSUME NEW k \in 1..Size, k # mgr.i + 1
               PROVE  \E j \in 1..(Size - 1): old(j) = k
    OBVIOUS
  <2>1. CASE k <= mgr.i
    <3>1. k \in 1..(Size - 1) /\ old(k) = k
      BY <1>1, <2>1
    <3> QED
      BY <3>1
  <2>2. CASE k > mgr.i + 1
    <3>1. k - 1 \in 1..(Size - 1) /\ old(k - 1) = k
      BY <1>1, <2>2
    <3> QED
      BY <3>1
  <2> QED
    BY <1>1, <2>1, <2>2
<1>7. \A i, j \in 1..(Size - 1): old(i) = old(j) => i = j
  BY <1>1
<1>8. Distinct /\ QTS_VECTOR[1] = Mgr /\ mgr.i + 1 \in 1..Size
  BY <1>1 DEF IInv, Scanning, ManagerFirst
<1>9. \A j \in 1..(Size - 1): QTS_VECTOR'[j] = QTS_VECTOR[old(j)]
  BY <1>4
<1> HIDE DEF old
<1>10. Distinct'
  BY <1>4, <1>5, <1>7, <1>8, <1>9 DEF Distinct
<1>11. Registered' = Registered \ {Scanned}
  <2>1. ASSUME NEW x \in Registered'
        PROVE  x \in Registered \ {Scanned}
    <3>1. PICK j \in 1..(Size - 1): x = QTS_VECTOR[old(j)]
      BY <1>4, <1>9 DEF Registered
    <3> QED
      BY <1>5, <1>8, <3>1 DEF Registered, Distinct, Scanned
  <2>2. ASSUME NEW x \in Registered, x # Scanned
        PROVE  x \in Registered'
    <3>1. PICK k \in 1..Size: x = QTS_VECTOR[k]
      BY DEF Registered
    <3>2. k # mgr.i + 1
      BY <2>2, <3>1 DEF Scanned
    <3>3. PICK j \in 1..(Size - 1): old(j) = k
      BY <1>6, <3>2
    <3> QED
      BY <1>4, <1>9, <3>1, <3>3 DEF Registered
  <2> QED
    BY <2>1, <2>2
<1>12. Size' > 0 /\ QTS_VECTOR'[1] = Mgr
  BY <1>1, <1>4, <1>8
<1> QED
  BY <1>2, <1>10, <1>11, <1>12

LEMMA ScanIInv ==
    ASSUME IInv,
           \/ M_NextPass \/ M_Exit \/ M_SelfRequest \/ M_PickUp \/ M_NoRequest
           \/ M_Skip \/ M_NotKillable \/ M_CleanUp \/ M_Died \/ M_Erase
    PROVE  Mail' /\ Tracking' /\ Scanning'
<1>1. /\ REQUEST \in Mailbox
      /\ QTS_VECTOR \in Seq(Threads \cup {Mgr})
      /\ thread \in [Threads -> ThreadObject]
      /\ proc \in [Threads \cup {Mgr} -> Process]
      /\ mgr \in ManagerRecord
  BY DEF IInv, TypeInv, TypeOK
<1>2. UNCHANGED <<child, client>> /\ mgr.pc \in {"loop", "scan", "died", "erase"}
  BY DEF M_NextPass, M_Exit, M_SelfRequest, M_PickUp, M_NoRequest, M_Skip, M_NotKillable,
         M_CleanUp, M_Died, M_Erase, M_Write, M_Goto, M_Advance, shared
<1>3. Mail'
  <2>1. \/ REQUEST'.package = REQUEST.package
        \/ REQUEST'.package = <<"Thread", Scanned>>
    BY <1>1 DEF M_NextPass, M_Exit, M_SelfRequest, M_PickUp, M_NoRequest, M_Skip,
       M_NotKillable, M_CleanUp, M_Died, M_Erase, M_Write, M_Goto, M_Advance, shared, Mailbox
  <2> QED
    BY <1>2, <2>1, MailStays DEF IInv
<1>4. \A t \in Threads: /\ proc'[t] = proc[t]
                       /\ thread'[t].reapable = thread[t].reapable
                       /\ thread'[t].status = thread[t].status
  <2>1. \A t \in Threads: proc'[t] = proc[t]
    BY <1>1, MgrAssumption DEF M_NextPass, M_Exit, M_SelfRequest, M_PickUp, M_NoRequest, M_Skip,
       M_NotKillable, M_CleanUp, M_Died, M_Erase, M_Write
  <2>2. ASSUME NEW t \in Threads
        PROVE  thread'[t].reapable = thread[t].reapable /\ thread'[t].status = thread[t].status
    <3>1. thread[t] \in ThreadObject
      BY <1>1
    <3>2. \/ thread' = thread
          \/ thread' = [thread EXCEPT ![Scanned].killable = FALSE]
          \/ thread' = [thread EXCEPT ![Scanned].died = TRUE]
          \/ thread' = [thread EXCEPT ![Scanned].reaped = TRUE]
      BY DEF M_NextPass, M_Exit, M_SelfRequest, M_PickUp, M_NoRequest, M_Skip,
             M_NotKillable, M_CleanUp, M_Died, M_Erase, M_Write
    <3> QED
      BY <1>1, <3>1, <3>2 DEF ThreadObject
  <2> QED
    BY <2>1, <2>2
<1>5. CASE M_Exit
  <2>1. Registered = {Mgr} /\ Registered' = {}
    BY <1>5 DEF M_Exit, M_Goto, Registered, Size, IInv, Scanning, ManagerFirst
  <2>2. Tracking'
    BY <1>2, <1>4, <2>1, MgrAssumption DEF IInv, Tracking, Tracked
  <2>3. /\ mgr'.pc = "exited" /\ ~current' /\ Size' = 0
    BY <1>1, <1>5 DEF M_Exit, M_Goto, ManagerRecord, Size
  <2>4. Scanning'
    BY <2>3 DEF Scanning, Distinct, ManagerFirst, CurrentToTheEnd, ScansOthers, ErasesTheDead
  <2> QED
    BY <1>3, <2>2, <2>4
<1>6. CASE M_Erase /\ thread[Scanned].reapable
  <2>1. Tracking'
    BY <1>2, <1>4, <1>6, EraseIInv DEF IInv, Tracking, Tracked
  <2>2. mgr'.pc = "loop" /\ current' = current /\ mgr.pc = "erase"
    BY <1>1, <1>6 DEF M_Erase, M_Advance, ManagerRecord
  <2>3. Scanning'
    BY <1>6, <2>2, EraseIInv
       DEF IInv, Scanning, ManagerFirst, CurrentToTheEnd, ScansOthers, ErasesTheDead
  <2> QED
    BY <1>3, <2>1, <2>3
<1>7. CASE ~M_Exit /\ ~(M_Erase /\ thread[Scanned].reapable)
  <2>1. UNCHANGED <<QTS_VECTOR, current>> /\ mgr'.pc # "exited" /\ mgr.pc # "exited"
    BY <1>1, <1>7 DEF M_NextPass, M_SelfRequest, M_PickUp, M_NoRequest, M_Skip,
       M_NotKillable, M_CleanUp, M_Died, M_Erase, M_Write, M_Goto, M_Advance, shared, ManagerRecord
  <2>2. Tracking'
    BY <1>2, <1>4, <2>1 DEF IInv, Tracking, Tracked, Registered, Size
  <2>3. Distinct' /\ ManagerFirst' /\ CurrentToTheEnd'
    BY <2>1 DEF IInv, Scanning, Distinct, ManagerFirst, CurrentToTheEnd, Size
  <2>4. ~PassedOver /\ mgr.pc = "scan" =>
            mgr.i > 0 /\ Scanned \in Threads /\ ~thread[Scanned].reapable
    <3>1. ~PassedOver /\ mgr.pc = "scan" => /\ mgr.i > 0 /\ Scanned \in Threads
                                           /\ thread[Scanned].status = "RUNNING"
      BY ScannedIsThread DEF IInv, PassedOver, threadIsRunning
    <3> QED
      BY <3>1 DEF IInv, Tracking, Tracked
  <2>5. CASE M_NotKillable
    <3>1. /\ mgr'.pc = "erase" /\ mgr'.i = mgr.i /\ thread' = thread
          /\ mgr.i > 0 /\ ~thread[Scanned].reapable
      BY <1>1, <2>4, <2>5 DEF M_NotKillable, M_Goto, ManagerRecord
    <3> QED
      BY <1>3, <2>1, <2>2, <2>3, <3>1 DEF Scanning, ScansOthers, ErasesTheDead, Scanned
  <2>6. CASE M_CleanUp
    <3>1. mgr'.pc = "call" /\ mgr'.i = mgr.i /\ mgr.i > 0
      BY <1>1, <2>4, <2>6 DEF M_CleanUp, ManagerRecord
    <3> QED
      BY <1>3, <2>2, <2>3, <3>1 DEF Scanning, ScansOthers, ErasesTheDead
  <2>7. CASE M_Died
    <3>1. mgr'.pc = "erase" /\ mgr'.i = mgr.i /\ mgr.pc = "died"
      BY <1>1, <2>7 DEF M_Died, M_Goto, ManagerRecord
    <3>2. mgr.i > 0 /\ Scanned \in Threads
      BY <3>1, ScannedIsThread DEF IInv, Scanning, ScansOthers
    <3>3. thread'[Scanned].died /\ Scanned' = Scanned
      BY <1>1, <2>1, <2>7, <3>1, <3>2 DEF M_Died, Scanned, ThreadObject
    <3> QED
      BY <1>3, <2>2, <2>3, <3>1, <3>2, <3>3 DEF Scanning, ScansOthers, ErasesTheDead
  <2>8. CASE M_NextPass \/ M_SelfRequest \/ M_PickUp \/ M_NoRequest \/ M_Skip \/ M_Erase
    <3>1. mgr'.pc \in {"loop", "selfRequest", "upload", "scan"}
      BY <1>1, <2>8 DEF M_NextPass, M_SelfRequest, M_PickUp, M_NoRequest, M_Skip, M_Erase,
         M_Write, M_Goto, M_Advance, ManagerRecord
    <3> QED
      BY <1>3, <2>2, <2>3, <3>1 DEF Scanning, ScansOthers, ErasesTheDead
  <2> QED
    BY <1>7, <2>5, <2>6, <2>7, <2>8
<1> QED
  BY <1>5, <1>6, <1>7

-----------------------------------------------------------------------------
LEMMA NextIInv ==
    ASSUME IInv, [Next]_vars
    PROVE  IInv'
<1>1. TypeInv'
  BY NextType DEF IInv
<1>2. CASE Manager
  BY <1>1, <1>2, ScanIInv, RequestIInv, OperationIInv DEF Manager, IInv
<1>3. CASE \E c \in Clients: Client(c)
  BY <1>1, <1>3, ClientIInv DEF IInv
<1>4. CASE C_Exit \/ C_ExitJoin \/ C_Exited
  BY <1>1, <1>4, ExitIInv DEF IInv
<1>5. CASE \E t \in Threads: Suspended(t)
  BY <1>1, <1>5, SuspendedIInv DEF IInv
<1>6. CASE UNCHANGED vars
  <2>1. Mail'
    BY <1>6 DEF vars, IInv, Mail, OneSender, PendingIsNew, PostedIsNew, Pending
  <2>2. Tracking'
    BY <1>6 DEF vars, IInv, Tracking, Tracked, Registered, Size
  <2>3. Scanning'
    BY <1>6 DEF vars, IInv, Scanning, Distinct, ManagerFirst, CurrentToTheEnd,
                ScansOthers, ErasesTheDead, Scanned, Size
  <2> QED
    BY <1>1, <2>1, <2>2, <2>3 DEF IInv
<1> QED
  BY <1>2, <1>3, <1>4, <1>5, <1>6 DEF Next

\* Every process the manager has cloned and not reaped is in QTS_VECTOR, no
\* thread is there twice, and the manager's own entry stays the first: for
\* any number of clients and threads, whatever they ask and whatever fails.
THEOREM RegisteredOnceCorrect == Spec => []RegisteredOnce
<1>1. Init => IInv
  BY InitIInv
<1>2. IInv /\ [Next]_vars => IInv'
  BY NextIInv
<1>3. IInv => RegisteredOnce
  BY RegisteredOnceFollows DEF IInv
<1> QED
  BY <1>1, <1>2, <1>3, PTL DEF Spec

\* A thread leaves QTS_VECTOR only when it has died and its process has been
\* reaped: the one erase of ExecutionManager_instance forgets only the dead.
THEOREM ForgetsOnlyTheDeadCorrect == Spec => ForgetsOnlyTheDead
<1> DEFINE A == \A t \in Threads: t \in Registered /\ t \notin Registered' =>
                    thread[t].died /\ proc[t].state = "reaped"
<1>1. Init => IInv
  BY InitIInv
<1>2. IInv /\ [Next]_vars => IInv'
  BY NextIInv
<1>3. IInv /\ [Next]_vars => [A]_vars
  <2> SUFFICES ASSUME IInv, Next, NEW t \in Threads, t \in Registered, t \notin Registered'
               PROVE  thread[t].died /\ proc[t].state = "reaped"
    OBVIOUS
  <2>1. QTS_VECTOR' # QTS_VECTOR
    BY DEF Registered, Size
  <2>2. CASE M_Erase /\ thread[Scanned].reapable
    <3>1. t = Scanned /\ Tracked(t) /\ mgr.pc = "erase"
      BY <2>2, EraseIInv DEF M_Erase
    <3> QED
      BY <2>2, <3>1 DEF Tracked, IInv, Scanning, ErasesTheDead
  <2>3. CASE M_Exit
    BY <2>3, MgrAssumption DEF M_Exit, M_Goto, Registered, Size, IInv, Scanning, ManagerFirst
  <2>4. CASE M_threadNew
    <3>1. Registered \subseteq Registered'
      <4>1. QTS_VECTOR \in Seq(Threads \cup {Mgr})
        BY DEF IInv, TypeInv, TypeOK
      <4>2. Size \in Nat /\ Size' = Size + 1 /\ \A i \in 1..Size: QTS_VECTOR'[i] = QTS_VECTOR[i]
        BY <2>4, <4>1 DEF M_threadNew, Size
      <4> QED
        BY <4>2 DEF Registered
    <3> QED
      BY <3>1
  <2> QED
    BY <2>1, <2>2, <2>3, <2>4 DEF Next, Manager, handleRequest, M_NextPass, M_SelfRequest,
       M_PickUp, M_NoRequest, M_Skip, M_NotKillable, M_CleanUp, M_Died, M_Erase, M_Write,
       M_Dispatch, M_AssertPackage, M_CloneFails, M_ClearPackage, M_Switch, M_Serve, M_Confused, M_Dies,
       M_Signal, M_WaitFails, M_WaitExited, M_WaitStopped, M_WaitContinued, M_Return,
       Client, C_threadNew, C_Ask, sendRequest, C_Write, C_Spin, C_Answered, C_Created,
       C_Orphaned, C_threadJoin, C_Joined, C_Exit, C_ExitJoin, C_Exited, Suspended, T_Start, T_StopItself,
       T_Resumed, T_Main, T_Crash, T_Killable, T_Killed, T_Ending, T_Return, shared
<1> QED
  BY <1>1, <1>2, <1>3, PTL DEF Spec, ForgetsOnlyTheDead
=============================================================================
