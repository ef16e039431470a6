-------------------------- MODULE ExecutionManager --------------------------
(***************************************************************************)
(* The execution manager of libthread: one process, cloned by the program, *)
(* that owns every thread of the program.  A client never makes, stops or  *)
(* continues a thread: it leaves a request in REQUEST, a mailbox of one    *)
(* slot in shared memory, and spins until the manager has served it.       *)
(* Between requests the manager scans QTS_VECTOR for threads whose         *)
(* function has returned, lets them end and forgets them.                  *)
(*                                                                         *)
(* Three kinds of actors take steps: the clients (sendRequest, threadNew,  *)
(* threadJoin, executionManager_Terminate), the manager                    *)
(* (ExecutionManager_instance, handleRequest and the thread* operations)   *)
(* and each thread (suspended).  They share memory without a lock, so each *)
(* access that another actor can see is a step of its own.  Memory is      *)
(* sequentially consistent.  The manager has been started: QINIT, which    *)
(* does it, is modelled by ManagerStartup.                                 *)
(*                                                                         *)
(* A struct QTS and the Thread hung on it by threadNew_ have one name, a   *)
(* member of Threads; <<"QTS", t>> and <<"Thread", t>> are the two kinds   *)
(* of pointer a request's package can be.                                  *)
(***************************************************************************)
EXTENDS LinuxProcess, Sequences

CONSTANTS
    Clients,    \* processes of the program that use the library
    Main,       \* the one of them that runs main and its atexit handlers
    Threads,    \* the threads the program can make
    Mgr,        \* the manager's own entry of QTS_VECTOR
    NULL,       \* nullptr
    Requests,   \* the requests, besides those of threadNew, clients make
    Results,    \* what the function of a thread may return
    Careful,    \* clients look at a thread before they ask something of it
    Faults      \* what may go wrong: "crash" of a function, "clone" failing

RequestIds == {"threadJoin", "threadJoinUntilStopped", "threadWaitUntilStopped",
               "threadWaitUntilRunning", "threadWaitUntilRunningAndJoin",
               "threadWaitUntilRunningAndJoinUntilStopped", "threadPause",
               "threadResume", "threadResumeAndJoin", "threadTerminate",
               "threadKill"}

ASSUME MainAssumption     == Main \in Clients
ASSUME MgrAssumption      == Mgr \notin Threads
ASSUME NullAssumption     == NULL \notin ({"QTS", "Thread"} \X (Threads \cup {Mgr})) \cup Threads
ASSUME RequestsAssumption == Requests \subseteq RequestIds
ASSUME ResultsAssumption  == Results \subseteq Int
ASSUME CarefulAssumption  == Careful \in BOOLEAN
ASSUME FaultsAssumption   == Faults \subseteq {"crash", "clone"}

VARIABLES
    REQUEST,     \* the mailbox
    QTS_VECTOR,  \* the threads the manager looks after; itself first
    close,       \* ExecutionManager::close
    current,     \* executionManager_Current # nullptr
    thread,      \* the Thread objects
    child,       \* where each thread is in suspended, and its local R
    proc,        \* the processes, as the kernel knows them
    mgr,         \* where the manager is, and its locals
    client       \* where each client is, its locals and its handles

shared == <<REQUEST, QTS_VECTOR, close, current>>
vars   == <<REQUEST, QTS_VECTOR, close, current, thread, child, proc, mgr, client>>

-----------------------------------------------------------------------------
(* The objects.                                                            *)

Statuses == {"UNDEFINED", "RUNNING", "STOPPED", "EXITED", "KILLED_BY_SIGNAL"}

ThreadObject == [died: BOOLEAN, killable: BOOLEAN, status: Statuses,
                 returnCode: 0..255, reapable: BOOLEAN, reaped: BOOLEAN]

\* Mutant: returnCode starts as -1, as pid and signal do.
NewThread_NoCode == [died |-> FALSE, killable |-> FALSE, status |-> "UNDEFINED",
                     returnCode |-> -1, reapable |-> FALSE, reaped |-> FALSE]

NewThread == [died |-> FALSE, killable |-> FALSE, status |-> "UNDEFINED",
              returnCode |-> 0, reapable |-> FALSE, reaped |-> FALSE]

Packages == ({"QTS"} \X Threads) \cup ({"Thread"} \X (Threads \cup {Mgr})) \cup {NULL}

Mailbox == [request: RequestIds \cup {"threadCreate", "none"}, package: Packages,
            upload: BOOLEAN, uploadNotComplete: BOOLEAN,
            processing: BOOLEAN, processingNotComplete: BOOLEAN,
            reply: Threads \cup {NULL}]

EmptyMailbox == [request |-> "none", package |-> NULL,
                 upload |-> FALSE, uploadNotComplete |-> FALSE,
                 processing |-> FALSE, processingNotComplete |-> FALSE,
                 reply |-> NULL]

(***************************************************************************)
(* The system calls each thread* operation makes, in order.  "JOIN" is the *)
(* loop that waits for WEXITED | WSTOPPED and goes on waiting after each   *)
(* stop; the other waits are made once.  An operation is over when its     *)
(* last call is, or as soon as a waitid returns -1.                        *)
(***************************************************************************)
threadWaitUntilStopped_NoWait == <<>>               \* mutant
threadPause_NoWait            == <<"SIGSTOP">>      \* mutant
threadResume_WrongFlag        == <<"SIGCONT", "STOP">>     \* mutant
threadResumeAndJoin_NoJoin    == <<"SIGCONT", "CONTINUE">> \* mutant

threadJoin             == <<"JOIN">>
threadJoinUntilStopped == <<"EXIT_OR_STOP">>
threadWaitUntilStopped == <<"STOP">>
threadWaitUntilRunning == <<"CONTINUE">>
threadWaitUntilRunningAndJoin             == <<"CONTINUE", "JOIN">>
threadWaitUntilRunningAndJoinUntilStopped == <<"CONTINUE", "EXIT_OR_STOP">>
threadPause            == <<"SIGSTOP", "STOP">>
threadResume           == <<"SIGCONT", "CONTINUE">>
threadResumeAndJoin    == <<"SIGCONT", "CONTINUE", "JOIN">>
threadTerminate        == <<"SIGTERM", "STOP">>
threadKill             == <<"SIGKILL", "STOP">>

Calls(request) ==
    CASE request = "threadJoin" -> threadJoin
      [] request = "threadJoinUntilStopped" -> threadJoinUntilStopped
      [] request = "threadWaitUntilStopped" -> threadWaitUntilStopped
      [] request = "threadWaitUntilRunning" -> threadWaitUntilRunning
      [] request = "threadWaitUntilRunningAndJoin" -> threadWaitUntilRunningAndJoin
      [] request = "threadWaitUntilRunningAndJoinUntilStopped" ->
            threadWaitUntilRunningAndJoinUntilStopped
      [] request = "threadPause" -> threadPause
      [] request = "threadResume" -> threadResume
      [] request = "threadResumeAndJoin" -> threadResumeAndJoin
      [] request = "threadTerminate" -> threadTerminate
      [] request = "threadKill" -> threadKill

Signals == {"SIGSTOP", "SIGCONT", "SIGTERM", "SIGKILL"}

Waits == {"JOIN", "EXIT_OR_STOP", "STOP", "CONTINUE"}

Flags(wait) == CASE wait = "STOP" -> {"WSTOPPED"}
                 [] wait = "CONTINUE" -> {"WCONTINUED"}
                 [] wait \in {"JOIN", "EXIT_OR_STOP"} -> {"WEXITED", "WSTOPPED"}

ChildPC == {"free", "qts", "start", "stop", "started", "main", "returned",
            "killable", "ending", "endStop", "ended", "return", "over"}

ManagerPC == {"loop", "upload", "uploadNotComplete", "dispatch", "switch",
              "package", "clearPackage", "call", "answered", "processing",
              "processingNotComplete", "scan", "died", "erase",
              "selfRequest", "exited", "aborted", "undefined"}

ClientPC == {"idle", "request", "package", "upload", "uploadNotComplete",
             "processingNotComplete", "spinUpload", "spinProcessing", "reply",
             "join", "exit", "exitWait", "done", "crashed"}

\* The part of sendRequest in which executionManager_Current is used.
Sending == {"request", "package", "upload", "uploadNotComplete",
            "processingNotComplete", "spinUpload", "spinProcessing", "reply"}

ChildRecord == [pc: ChildPC, R: Results \cup {0}]

ManagerRecord == [pc: ManagerPC, request: RequestIds \cup {"threadCreate", "none"},
                  i: Nat, t: Threads \cup {Mgr, NULL},
                  todo: Seq(Signals \cup Waits), call: {"request", "stop", "join"}]

ClientRecord == [pc: ClientPC, request: RequestIds \cup {"threadCreate", "none"},
                 package: Packages, createSuspended: BOOLEAN, mine: SUBSET Threads]

TypeOK ==
    /\ REQUEST \in Mailbox
    /\ QTS_VECTOR \in Seq(Threads \cup {Mgr})
    /\ close \in BOOLEAN
    /\ current \in BOOLEAN
    /\ thread \in [Threads -> ThreadObject]
    /\ child \in [Threads -> ChildRecord]
    /\ proc \in [Threads \cup {Mgr} -> Process]
    /\ mgr \in ManagerRecord
    /\ client \in [Clients -> ClientRecord]

(***************************************************************************)
(* The state QINIT leaves: the manager is registered, and about to scan.   *)
(***************************************************************************)
Init ==
    /\ REQUEST = EmptyMailbox
    /\ QTS_VECTOR = <<Mgr>>
    /\ close = FALSE
    /\ current = TRUE
    /\ thread = [t \in Threads |-> NewThread]
    /\ child = [t \in Threads |-> [pc |-> "free", R |-> 0]]
    /\ proc = [p \in Threads \cup {Mgr} |-> IF p = Mgr THEN Cloned ELSE NoProcess]
    /\ mgr = [pc |-> "loop", request |-> "none", i |-> 0, t |-> NULL,
              todo |-> <<>>, call |-> "request"]
    /\ client = [c \in Clients |-> [pc |-> "idle", request |-> "none",
                                    package |-> NULL, createSuspended |-> FALSE,
                                    mine |-> {}]]

-----------------------------------------------------------------------------
(***************************************************************************)
(* A thread: the function suspended, run by the cloned process.            *)
(***************************************************************************)
Runs(t) == proc[t].state = "running"

T_Step(t, from, to) ==
    /\ Runs(t)
    /\ child[t].pc = from
    /\ child' = [child EXCEPT ![t].pc = to]

T_Start(t) ==
    /\ T_Step(t, "start", "stop")
    /\ thread' = [thread EXCEPT ![t].died = FALSE, ![t].killable = FALSE,
                                ![t].status = "STOPPED"]
    /\ UNCHANGED <<shared, proc, mgr, client>>

T_StopItself(t, from, to) ==
    /\ T_Step(t, from, to)
    /\ proc' = [proc EXCEPT ![t] = Signalled(@, "SIGSTOP")]
    /\ UNCHANGED <<shared, thread, mgr, client>>

T_Resumed(t, from, to) ==
    /\ T_Step(t, from, to)
    /\ thread' = [thread EXCEPT ![t].status = "RUNNING"]
    /\ UNCHANGED <<shared, proc, mgr, client>>

\* int R = q->f(q->arg);
T_Main(t) ==
    /\ Runs(t)
    /\ child[t].pc = "main"
    /\ \E R \in Results: child' = [child EXCEPT ![t] = [pc |-> "returned", R |-> R]]
    /\ UNCHANGED <<shared, thread, proc, mgr, client>>

\* The function does not return: a signal of its own making ends the process.
T_Crash(t) ==
    /\ "crash" \in Faults
    /\ T_Step(t, "main", "over")
    /\ proc' = [proc EXCEPT ![t] = Killed(@)]
    /\ UNCHANGED <<shared, thread, mgr, client>>

T_Killable(t) ==
    /\ T_Step(t, "returned", "killable")
    /\ thread' = [thread EXCEPT ![t].killable = TRUE]
    /\ UNCHANGED <<shared, proc, mgr, client>>

\* while (q->t->killable) sleep(1);
T_Killed(t) ==
    /\ ~thread[t].killable
    /\ T_Step(t, "killable", "ending")
    /\ UNCHANGED <<shared, thread, proc, mgr, client>>

T_Ending(t) ==
    /\ T_Step(t, "ending", "endStop")
    /\ thread' = [thread EXCEPT ![t].status = "STOPPED"]
    /\ UNCHANGED <<shared, proc, mgr, client>>

T_Return(t) ==
    /\ T_Step(t, "return", "over")
    /\ proc' = [proc EXCEPT ![t] = Exited(@, child[t].R)]
    /\ UNCHANGED <<shared, thread, mgr, client>>

Suspended(t) ==
    \/ T_Start(t)
    \/ T_StopItself(t, "stop", "started")
    \/ T_Resumed(t, "started", "main")
    \/ T_Main(t)
    \/ T_Crash(t)
    \/ T_Killable(t)
    \/ T_Killed(t)
    \/ T_Ending(t)
    \/ T_StopItself(t, "endStop", "ended")
    \/ T_Resumed(t, "ended", "return")
    \/ T_Return(t)

-----------------------------------------------------------------------------
(***************************************************************************)
(* A client.                                                               *)
(***************************************************************************)
threadIsStopped(t) == thread[t].status = "STOPPED"

threadIsRunning(t) == thread[t].status = "RUNNING"

\* A careful client pauses what runs and resumes what is stopped, joins what
\* it has resumed, and leaves main when it has joined everything.
LooksRight(request, t) ==
    Careful => CASE request = "threadPause" -> threadIsRunning(t)
                 [] request \in {"threadResume", "threadResumeAndJoin"} -> threadIsStopped(t)
                 [] request = "join" -> threadIsRunning(t) \/ thread[t].died
                 [] OTHER -> TRUE

Send(c, request, package, createSuspended) ==
    client' = [client EXCEPT ![c].pc = "request", ![c].request = request,
                             ![c].package = package,
                             ![c].createSuspended = createSuspended]

\* threadNew up to its first sendRequest; QINIT finds isRunning set.
C_threadNew(c) ==
    /\ client[c].pc = "idle"
    /\ current
    /\ \E t \in Threads, createSuspended \in BOOLEAN:
          /\ child[t].pc = "free"
          /\ child' = [child EXCEPT ![t].pc = "qts"]
          /\ Send(c, "threadCreate", <<"QTS", t>>, createSuspended)
    /\ UNCHANGED <<shared, thread, proc, mgr>>

\* The other entry points that are nothing but a sendRequest.
C_Ask(c) ==
    /\ client[c].pc = "idle"
    /\ current
    /\ \E request \in Requests, t \in client[c].mine:
          /\ LooksRight(request, t)
          /\ Send(c, request, <<"Thread", t>>, FALSE)
    /\ UNCHANGED <<shared, thread, child, proc, mgr>>

C_Write(c, from, to, field, value) ==
    /\ client[c].pc = from
    /\ current
    /\ REQUEST' = [REQUEST EXCEPT ![field] = value]
    /\ client' = [client EXCEPT ![c].pc = to]
    /\ UNCHANGED <<QTS_VECTOR, close, current, thread, child, proc, mgr>>

C_Spin(c, from, to, flag) ==
    /\ client[c].pc = from
    /\ current
    /\ ~REQUEST[flag]
    /\ client' = [client EXCEPT ![c].pc = to]
    /\ UNCHANGED <<shared, thread, child, proc, mgr>>

\* The reply is used by threadNew only: a thread created to run is resumed
\* by a request of its own.
C_Answered(c) ==
    /\ client[c].pc = "reply"
    /\ current
    /\ client[c].request # "threadCreate"
    /\ client' = [client EXCEPT ![c].pc = "idle"]
    /\ UNCHANGED <<shared, thread, child, proc, mgr>>

C_Created(c) ==
    /\ client[c].pc = "reply"
    /\ current
    /\ client[c].request = "threadCreate"
    /\ client' = IF REQUEST.reply = NULL    \* assert(x != nullptr)
                 THEN [client EXCEPT ![c].pc = "crashed"]
                 ELSE [client EXCEPT ![c] =
                         [@ EXCEPT !.pc = IF client[c].createSuspended THEN "idle" ELSE "request",
                                   !.request = "threadResume",
                                   !.package = <<"Thread", REQUEST.reply>>,
                                   !.mine = client[c].mine \cup {REQUEST.reply}]]
    /\ UNCHANGED <<shared, thread, child, proc, mgr>>

\* Mutant: upload is set before what is uploaded.
sendRequest_UploadFirst(c) ==
    \/ C_Write(c, "request", "package", "upload", TRUE)
    \/ C_Write(c, "package", "upload", "request", client[c].request)
    \/ C_Write(c, "upload", "uploadNotComplete", "package", client[c].package)
    \/ C_Write(c, "uploadNotComplete", "processingNotComplete", "uploadNotComplete", TRUE)
    \/ C_Write(c, "processingNotComplete", "spinUpload", "processingNotComplete", TRUE)
    \/ C_Spin(c, "spinUpload", "spinProcessing", "uploadNotComplete")
    \/ C_Spin(c, "spinProcessing", "reply", "processingNotComplete")
    \/ C_Answered(c)
    \/ C_Created(c)

sendRequest(c) ==
    \/ C_Write(c, "request", "package", "request", client[c].request)
    \/ C_Write(c, "package", "upload", "package", client[c].package)
    \/ C_Write(c, "upload", "uploadNotComplete", "upload", TRUE)
    \/ C_Write(c, "uploadNotComplete", "processingNotComplete", "uploadNotComplete", TRUE)
    \/ C_Write(c, "processingNotComplete", "spinUpload", "processingNotComplete", TRUE)
    \/ C_Spin(c, "spinUpload", "spinProcessing", "uploadNotComplete")
    \/ C_Spin(c, "spinProcessing", "reply", "processingNotComplete")
    \/ C_Answered(c)
    \/ C_Created(c)

\* The manager is gone, and executionManager_Current with it.
C_Orphaned(c) ==
    /\ client[c].pc \in Sending \cup {"idle"}
    /\ ~current
    /\ client' = [client EXCEPT ![c].pc = "crashed"]
    /\ UNCHANGED <<shared, thread, child, proc, mgr>>

\* threadJoin: while(!t->died);
C_threadJoin(c) ==
    /\ client[c].pc = "idle"
    /\ \E t \in client[c].mine:
          /\ LooksRight("join", t)
          /\ client' = [client EXCEPT ![c].pc = "join", ![c].package = <<"Thread", t>>]
    /\ UNCHANGED <<shared, thread, child, proc, mgr>>

C_Joined(c) ==
    /\ client[c].pc = "join"
    /\ thread[client[c].package[2]].died
    /\ client' = [client EXCEPT ![c].pc = "idle"]
    /\ UNCHANGED <<shared, thread, child, proc, mgr>>

\* executionManager_Terminate, run by exit: it sets close, and then asks
\* executionManager_Current for the manager's thread, to join it.
C_Exit ==
    /\ client[Main].pc = "idle"
    /\ current
    /\ Careful => \A t \in client[Main].mine: thread[t].died
    /\ close' = TRUE
    /\ client' = [client EXCEPT ![Main].pc = "exit"]
    /\ UNCHANGED <<REQUEST, QTS_VECTOR, current, thread, child, proc, mgr>>

\* Both reads of executionManager_Current, which only ever becomes null: the
\* second is null if the first is.
C_ExitJoin ==
    /\ client[Main].pc = "exit"
    /\ client' = [client EXCEPT ![Main].pc = IF current THEN "exitWait" ELSE "crashed"]
    /\ UNCHANGED <<shared, thread, child, proc, mgr>>

C_Exited ==
    /\ client[Main].pc = "exitWait"
    /\ ReportsExit(proc[Mgr], Flags("JOIN"))
    /\ proc' = [proc EXCEPT ![Mgr] = Reaped(@)]
    /\ client' = [client EXCEPT ![Main].pc = "done"]
    /\ UNCHANGED <<shared, thread, child, mgr>>

Client(c) ==
    \/ C_threadNew(c)
    \/ C_Ask(c)
    \/ sendRequest(c)
    \/ C_Orphaned(c)
    \/ C_threadJoin(c)
    \/ C_Joined(c)

-----------------------------------------------------------------------------
(***************************************************************************)
(* The manager's calls of an operation on thread mgr.t.                    *)
(***************************************************************************)
M_Goto(from, to) ==
    /\ mgr.pc = from
    /\ mgr' = [mgr EXCEPT !.pc = to]

\* A failed assert, or an access through the wrong kind of pointer.
M_Dies(from, to) ==
    /\ M_Goto(from, to)
    /\ proc' = [proc EXCEPT ![Mgr] = Killed(@)]
    /\ UNCHANGED <<shared, thread, child, client>>

M_Write(from, to, field, value) ==
    /\ M_Goto(from, to)
    /\ REQUEST' = [REQUEST EXCEPT ![field] = value]
    /\ UNCHANGED <<QTS_VECTOR, close, current, thread, child, proc, client>>

Calling(calls) == mgr.pc = "call" /\ mgr.todo # <<>> /\ Head(mgr.todo) \in calls

M_Signal ==
    /\ Calling(Signals)
    /\ proc' = [proc EXCEPT ![mgr.t] = Signalled(@, Head(mgr.todo))]
    /\ mgr' = [mgr EXCEPT !.todo = Tail(@)]
    /\ UNCHANGED <<shared, thread, child, client>>

\* waitid returns -1: the operation returns, and says nothing of it.
M_WaitFails ==
    /\ Calling(Waits)
    /\ ECHILD(proc[mgr.t], Flags(Head(mgr.todo)))
    /\ mgr' = [mgr EXCEPT !.todo = <<>>]
    /\ UNCHANGED <<shared, thread, child, proc, client>>

M_WaitExited ==
    LET p == proc[mgr.t]
    IN  /\ Calling(Waits)
        /\ ReportsExit(p, Flags(Head(mgr.todo)))
        /\ proc' = [proc EXCEPT ![mgr.t] = Reaped(@)]
        /\ thread' = [thread EXCEPT
              ![mgr.t].status = IF p.end = "exited" THEN "EXITED" ELSE "KILLED_BY_SIGNAL",
              ![mgr.t].returnCode = IF p.end = "exited" THEN p.code ELSE @,
              ![mgr.t].reapable = TRUE]
        /\ mgr' = [mgr EXCEPT !.todo = Tail(@)]
        /\ UNCHANGED <<shared, child, client>>

M_WaitStopped ==
    /\ Calling(Waits)
    /\ ReportsStop(proc[mgr.t], Flags(Head(mgr.todo)))
    /\ proc' = [proc EXCEPT ![mgr.t] = StopReported(@)]
    /\ IF Head(mgr.todo) = "JOIN"
       THEN UNCHANGED <<thread, mgr>>
       ELSE /\ thread' = [thread EXCEPT ![mgr.t].status = "STOPPED"]
            /\ mgr' = [mgr EXCEPT !.todo = Tail(@)]
    /\ UNCHANGED <<shared, child, client>>

M_WaitContinued ==
    /\ Calling(Waits)
    /\ ReportsContinue(proc[mgr.t], Flags(Head(mgr.todo)))
    /\ proc' = [proc EXCEPT ![mgr.t] = ContinueReported(@)]
    /\ thread' = [thread EXCEPT ![mgr.t].status = "RUNNING"]
    /\ mgr' = [mgr EXCEPT !.todo = Tail(@)]
    /\ UNCHANGED <<shared, child, client>>

\* A request is answered; a thread that has stopped by itself is continued
\* and joined; one that has been joined has died.
M_Return ==
    /\ mgr.pc = "call"
    /\ mgr.todo = <<>>
    /\ mgr' = CASE mgr.call = "request" -> [mgr EXCEPT !.pc = "answered"]
                [] mgr.call = "stop" -> [mgr EXCEPT !.todo = threadResumeAndJoin,
                                                    !.call = "join"]
                [] mgr.call = "join" -> [mgr EXCEPT !.pc = "died"]
    /\ UNCHANGED <<shared, thread, child, proc, client>>

-----------------------------------------------------------------------------
(***************************************************************************)
(* handleRequest and staticHandleRequest.                                  *)
(***************************************************************************)
M_Dispatch ==
    /\ REQUEST.request = "none" \/ REQUEST.package # NULL
    /\ M_Goto("dispatch", IF REQUEST.request = "none" THEN "answered" ELSE "switch")
    /\ UNCHANGED <<shared, thread, child, proc, client>>

\* assert(R->REQUEST.package != nullptr)
M_AssertPackage ==
    /\ REQUEST.request # "none"
    /\ REQUEST.package = NULL
    /\ M_Dies("dispatch", "aborted")

\* The switch is made on REQUEST.request; its case reads REQUEST.package, which
\* another client may have stored in between.
M_Switch ==
    /\ mgr.pc = "switch"
    /\ mgr' = [mgr EXCEPT !.pc = "package", !.request = REQUEST.request]
    /\ UNCHANGED <<shared, thread, child, proc, client>>

\* threadNew_: the thread starts, and is registered.
M_threadNew ==
    LET t == REQUEST.package[2]
    IN  /\ mgr.pc = "package"
        /\ mgr.request = "threadCreate"
        /\ REQUEST.package \in {"QTS"} \X Threads
        /\ thread' = [thread EXCEPT ![t] = NewThread]
        /\ child' = [child EXCEPT ![t].pc = "start"]
        /\ proc' = [proc EXCEPT ![t] = Cloned]
        /\ QTS_VECTOR' = Append(QTS_VECTOR, t)
        /\ REQUEST' = [REQUEST EXCEPT !.reply = t]
        /\ mgr' = [mgr EXCEPT !.pc = "clearPackage", !.request = "none"]
        /\ UNCHANGED <<close, current, client>>

\* clone returns -1, threadNew_ returns nullptr: assert(R->REQUEST.reply != nullptr)
M_CloneFails ==
    /\ "clone" \in Faults
    /\ M_Goto("package", "aborted")
    /\ mgr.request = "threadCreate"
    /\ REQUEST.package \in {"QTS"} \X Threads
    /\ REQUEST' = [REQUEST EXCEPT !.reply = NULL]
    /\ proc' = [proc EXCEPT ![Mgr] = Killed(@)]
    /\ UNCHANGED <<QTS_VECTOR, close, current, thread, child, client>>

\* R->REQUEST.package = nullptr, and on to the wait for the thread's stop.
M_ClearPackage ==
    /\ mgr.pc = "clearPackage"
    /\ REQUEST' = [REQUEST EXCEPT !.package = NULL]
    /\ mgr' = [mgr EXCEPT !.pc = "call", !.t = REQUEST.reply,
                          !.todo = threadWaitUntilStopped, !.call = "request"]
    /\ UNCHANGED <<QTS_VECTOR, close, current, thread, child, proc, client>>

\* Every other request names a thread.
M_Serve ==
    /\ mgr.pc = "package"
    /\ mgr.request \in RequestIds
    /\ REQUEST.package \in {"Thread"} \X Threads
    /\ mgr' = [mgr EXCEPT !.pc = "call", !.request = "none", !.t = REQUEST.package[2],
                          !.todo = Calls(mgr.request), !.call = "request"]
    /\ UNCHANGED <<shared, thread, child, proc, client>>

\* The package is null, or not what the request says it is.
M_Confused ==
    /\ REQUEST.package \notin (IF mgr.request = "threadCreate"
                               THEN {"QTS"} ELSE {"Thread"}) \X Threads
    /\ M_Dies("package", "undefined")

handleRequest ==
    \/ M_Write("upload", "uploadNotComplete", "upload", FALSE)
    \/ M_Write("uploadNotComplete", "dispatch", "uploadNotComplete", FALSE)
    \/ M_Dispatch
    \/ M_AssertPackage
    \/ M_Switch
    \/ M_threadNew
    \/ M_CloneFails
    \/ M_ClearPackage
    \/ M_Serve
    \/ M_Confused
    \/ M_Write("answered", "processing", "request", "none")
    \/ M_Write("processing", "processingNotComplete", "processing", FALSE)
    \/ M_Write("processingNotComplete", "scan", "processingNotComplete", FALSE)

-----------------------------------------------------------------------------
(***************************************************************************)
(* ExecutionManager_instance: the scan of QTS_VECTOR, which i indexes from *)
(* zero.                                                                   *)
(***************************************************************************)
Size == Len(QTS_VECTOR)

Scanned == QTS_VECTOR[mgr.i + 1]

\* The inner loop is over; the outer one starts it again.
M_NextPass ==
    /\ mgr.pc = "loop"
    /\ mgr.i >= Size
    /\ mgr' = [mgr EXCEPT !.i = 0]
    /\ UNCHANGED <<shared, thread, child, proc, client>>

\* Nothing is left but the manager's own entry.
M_Exit ==
    /\ mgr.i = 0 /\ Size = 1
    /\ close
    /\ M_Goto("loop", "exited")
    /\ QTS_VECTOR' = <<>>
    /\ current' = FALSE
    /\ proc' = [proc EXCEPT ![Mgr] = Exited(@, 0)]
    /\ UNCHANGED <<REQUEST, close, thread, child, client>>

\* threadTerminate(q->t) is the client's entry point: the manager sends the
\* request to itself, and spins on uploadNotComplete.
M_SelfRequest ==
    /\ mgr.i < Size
    /\ ~(mgr.i = 0 /\ Size = 1)
    /\ close
    /\ M_Goto("loop", "selfRequest")
    /\ REQUEST' = [REQUEST EXCEPT !.request = "threadTerminate",
                     !.package = <<"Thread", Scanned>>,
                     !.upload = TRUE, !.uploadNotComplete = TRUE,
                     !.processingNotComplete = TRUE]
    /\ UNCHANGED <<QTS_VECTOR, close, current, thread, child, proc, client>>

\* if (upload && !processing) handleRequest(); its first write is processing.
M_PickUp ==
    /\ mgr.i < Size
    /\ ~close
    /\ REQUEST.upload /\ ~REQUEST.processing
    /\ M_Write("loop", "upload", "processing", TRUE)

M_NoRequest ==
    /\ mgr.i < Size
    /\ ~close
    /\ ~(REQUEST.upload /\ ~REQUEST.processing)
    /\ M_Goto("loop", "scan")
    /\ UNCHANGED <<shared, thread, child, proc, client>>

M_Advance ==
    mgr' = [mgr EXCEPT !.pc = "loop", !.i = @ + 1]

\* Itself, a thread that has died, or one that is not running, is passed over.
PassedOver == mgr.i > 0 => thread[Scanned].died \/ ~threadIsRunning(Scanned)

M_Skip ==
    /\ mgr.pc = "scan"
    /\ PassedOver
    /\ M_Advance
    /\ UNCHANGED <<shared, thread, child, proc, client>>

M_NotKillable ==
    /\ M_Goto("scan", "erase")
    /\ ~PassedOver
    /\ ~thread[Scanned].killable
    /\ UNCHANGED <<shared, thread, child, proc, client>>

\* killable = false lets the thread go and stop itself; the manager waits.
M_CleanUp ==
    /\ mgr.pc = "scan"
    /\ ~PassedOver
    /\ thread[Scanned].killable
    /\ thread' = [thread EXCEPT ![Scanned].killable = FALSE]
    /\ mgr' = [mgr EXCEPT !.pc = "call", !.t = Scanned,
                          !.todo = threadWaitUntilStopped, !.call = "stop"]
    /\ UNCHANGED <<shared, child, proc, client>>

\* Mutant: died is not set.
M_Died_Forgotten ==
    /\ M_Goto("died", "erase")
    /\ UNCHANGED <<shared, thread, child, proc, client>>

M_Died ==
    /\ M_Goto("died", "erase")
    /\ thread' = [thread EXCEPT ![Scanned].died = TRUE]
    /\ UNCHANGED <<shared, child, proc, client>>

\* QTS_VECTOR.erase(QTS_VECTOR.begin() + i), after two mutants of it: one place
\* too low, and one too high.
Erased_Previous(i) == SubSeq(QTS_VECTOR, 1, i - 1) \o SubSeq(QTS_VECTOR, i + 1, Size)

Erased_Next(i) == SubSeq(QTS_VECTOR, 1, i + 1) \o SubSeq(QTS_VECTOR, i + 3, Size)

Erased(i) == SubSeq(QTS_VECTOR, 1, i) \o SubSeq(QTS_VECTOR, i + 2, Size)

\* What is reapable is erased; i moves on all the same.
M_Erase ==
    /\ mgr.pc = "erase"
    /\ IF thread[Scanned].reapable
       THEN /\ QTS_VECTOR' = Erased(mgr.i)
            /\ thread' = [thread EXCEPT ![Scanned].reaped = TRUE]
       ELSE UNCHANGED <<QTS_VECTOR, thread>>
    /\ M_Advance
    /\ UNCHANGED <<REQUEST, close, current, child, proc, client>>

Manager ==
    \/ M_NextPass
    \/ M_Exit
    \/ M_SelfRequest
    \/ M_PickUp
    \/ M_NoRequest
    \/ handleRequest
    \/ M_Skip
    \/ M_NotKillable
    \/ M_CleanUp
    \/ M_Signal
    \/ M_WaitFails
    \/ M_WaitExited
    \/ M_WaitStopped
    \/ M_WaitContinued
    \/ M_Return
    \/ M_Died
    \/ M_Erase

-----------------------------------------------------------------------------
Next ==
    \/ Manager
    \/ \E c \in Clients: Client(c)
    \/ C_Exit
    \/ C_ExitJoin
    \/ C_Exited
    \/ \E t \in Threads: Suspended(t)

(***************************************************************************)
(* The kernel lets every process that can run do so: the manager, a thread *)
(* and a client inside a call of the library.  A client need never start a *)
(* call, or end the program.                                               *)
(***************************************************************************)
Fairness ==
    /\ WF_vars(Manager)
    /\ \A t \in Threads: WF_vars(Suspended(t))
    /\ \A c \in Clients: WF_vars(sendRequest(c) \/ C_Joined(c))
    /\ WF_vars(C_ExitJoin \/ C_Exited)

Spec == Init /\ [][Next]_vars

FairSpec == Spec /\ Fairness

-----------------------------------------------------------------------------
(***************************************************************************)
(* Correctness.                                                            *)
(***************************************************************************)
Registered == {QTS_VECTOR[i]: i \in 1..Size}

\* Every process the manager has cloned and not reaped is in QTS_VECTOR, no
\* thread is there twice, and the manager's own entry, which the scan skips
\* by its index, stays the first (threadNew_, the erase of
\* ExecutionManager_instance).
RegisteredOnce ==
    /\ \A t \in Threads: proc[t].state \in {"running", "stopped", "zombie"}
                            => t \in Registered
    /\ \A i, j \in 1..Size: QTS_VECTOR[i] = QTS_VECTOR[j] => i = j
    /\ current => Size > 0 /\ QTS_VECTOR[1] = Mgr

\* What threadJoin returns on: a thread has died only when its function has
\* returned and its process has ended.  If the manager has reaped it, the exit
\* status is in returnCode.  If not, its waitid for the continuation came after
\* the end and failed: the zombie keeps its place in QTS_VECTOR for ever.
DiedHasEnded ==
    \A t \in Threads: thread[t].died =>
        /\ child[t].pc = "over"
        /\ \/ /\ proc[t].state = "reaped"
              /\ thread[t].status = "EXITED"
              /\ thread[t].returnCode = child[t].R % 256
           \/ /\ proc[t].state = "zombie"
              /\ thread[t].status = "RUNNING"
              /\ ~thread[t].reapable /\ t \in Registered

\* A thread that has died has been reaped and its returnCode is the one its
\* function returned: what a client that joins it goes on to read.
DiedIsReaped ==
    \A t \in Threads: thread[t].died =>
        proc[t].state = "reaped" /\ thread[t].returnCode = child[t].R % 256

\* Whatever is asked of it and however it ends, a thread that has died does not
\* run, and one has an exit status when, and only when, a waitid has reaped it:
\* the status and the code the kernel gave, ready for its QTS to be erased.
EndsAreTrue ==
    \A t \in Threads:
        /\ thread[t].died => ~Alive(proc[t])
        /\ thread[t].reapable <=> proc[t].state = "reaped"
        /\ thread[t].status = "EXITED" <=>
              proc[t].state = "reaped" /\ proc[t].end = "exited"
        /\ thread[t].status = "KILLED_BY_SIGNAL" <=>
              proc[t].state = "reaped" /\ proc[t].end = "killed"
        /\ thread[t].status = "EXITED" => thread[t].returnCode = child[t].R % 256

\* The manager has taken a request and not yet ended its handling of it.
Handling ==
    \/ mgr.pc \in {"uploadNotComplete", "dispatch", "switch", "package", "clearPackage",
                   "answered", "processing", "processingNotComplete"}
    \/ mgr.pc = "call" /\ mgr.call = "request"

\* What the manager serves is what one client, now inside sendRequest, has
\* asked for: request and package are read from the mailbox while clients
\* may write to it.
ServesTheSender ==
    /\ mgr.pc \in {"dispatch", "switch", "package"} =>
          \E c \in Clients: /\ client[c].pc \in Sending
                            /\ REQUEST.request = client[c].request
                            /\ REQUEST.package = client[c].package
                            /\ mgr.pc = "package" => mgr.request = client[c].request
    /\ mgr.pc = "call" /\ mgr.call = "request" =>
          \E c \in Clients: /\ client[c].pc \in Sending
                            /\ REQUEST.request = client[c].request
                            /\ mgr.t = client[c].package[2]

\* When sendRequest returns the answer is true: threadNew is given the thread
\* made from its own QTS, stopped before its function; a thread that was to
\* be paused does not run; one that was to be resumed is not held.
AnswersAreTrue ==
    \A c \in Clients: client[c].pc = "reply" =>
        LET t == client[c].package[2]
        IN  CASE client[c].request = "threadCreate" ->
                    /\ REQUEST.reply = t
                    /\ child[t].pc = "started" /\ proc[t].state = "stopped"
                    /\ threadIsStopped(t)
              [] client[c].request = "threadPause" -> proc[t].state # "running"
              [] client[c].request = "threadResume" ->
                    proc[t].state = "stopped" => child[t].pc = "ended"
              [] OTHER -> TRUE

\* Outside an operation of the manager on t, and outside the steps suspended
\* takes alone, t->status tells the truth about the process: it is what the
\* scan, threadIsStopped and threadIsRunning decide on.
StatusIsTrue ==
    \A t \in Threads:
        ~(mgr.pc = "call" /\ mgr.t = t) /\ mgr.pc # "clearPackage" =>
            /\ thread[t].status = "STOPPED" => proc[t].state = "stopped"
            /\ thread[t].status = "RUNNING" =>
                  \/ proc[t].state = "running"
                  \/ proc[t].state = "zombie" /\ (thread[t].died \/ mgr.pc = "died")
            /\ thread[t].status = "EXITED" <=> proc[t].state = "reaped"

\* t is on its way to a stop, or to its end, that needs nobody's help.
WillStop(t) ==
    /\ proc[t].state = "running"
    /\ \/ child[t].pc \in {"start", "stop", "ending", "endStop"}
       \/ child[t].pc = "killable" /\ ~thread[t].killable

WillEnd(t) == proc[t].state = "running" /\ child[t].pc \in {"ended", "return"}

\* The manager never sits in a waitid that nothing can end: while it does, no
\* request is served and no thread is cleaned up.
WaitsInHope ==
    Calling(Waits) =>
        LET p == proc[mgr.t]
            flags == Flags(Head(mgr.todo))
        IN  \/ ECHILD(p, flags) \/ ReportsExit(p, flags)
            \/ ReportsStop(p, flags) \/ ReportsContinue(p, flags)
            \/ "WSTOPPED" \in flags /\ WillStop(mgr.t)
            \/ "WEXITED" \in flags /\ WillEnd(mgr.t)

\* A thread leaves QTS_VECTOR when it has died and its process is reaped, and
\* no other way while the manager is there to look after it.
ForgetsOnlyTheDead ==
    [][\A t \in Threads:
          t \in Registered /\ t \notin Registered' =>
              thread[t].died /\ proc[t].state = "reaped"]_vars

\* The manager clears a flag of sendRequest before the client has set it: the
\* client sets upload first, and upload is what the manager looks at.
TooSoon ==
    \E c \in Clients:
        /\ ~REQUEST.upload
        /\ \/ client[c].pc = "uploadNotComplete" /\ mgr.pc # "uploadNotComplete"
           \/ client[c].pc \in {"uploadNotComplete", "processingNotComplete"} /\ ~Handling

\* sendRequest returns.
SendReturns ==
    \A c \in Clients: client[c].pc = "request" ~> client[c].pc \notin Sending

\* sendRequest returns, unless the manager was too soon with its answer.
SendReturnsIfInTime == []~TooSoon => SendReturns

\* threadResumeAndJoin of a thread created suspended returns: the manager
\* answers it when the thread's function has returned and the thread has ended.
ResumeAndJoinReturns ==
    []~TooSoon => \A c \in Clients:
        (client[c].pc = "request" /\ client[c].request = "threadResumeAndJoin")
            ~> client[c].pc \notin Sending

\* threadJoin of a thread that has been resumed returns: its function does,
\* it says so in killable, and the manager lets it end.
JoinReturns ==
    \A c \in Clients: client[c].pc = "join" ~> client[c].pc = "idle"

\* No client is brought down by a null executionManager_Current.  This fails:
\* see GoneTooSoon.
ClientsSurvive == \A c \in Clients: client[c].pc # "crashed"

\* The manager has left, having seen close, before executionManager_Terminate
\* has asked executionManager_Current for the thread it is to join.
GoneTooSoon == client[Main].pc = "exit" /\ ~current

\* executionManager_Terminate returns.
TerminateReturns == client[Main].pc = "exit" ~> client[Main].pc = "done"

\* executionManager_Terminate returns, when no zombie has been left behind and
\* the manager has not gone too soon.
TerminateReturnsIfInTime == [](DiedIsReaped /\ ~GoneTooSoon) => TerminateReturns

\* The call of the service a client is inside of, seen from where it is.
ServiceCall(c) ==
    LET op == CASE client[c].request = "threadCreate" -> "create"
                [] client[c].request = "threadPause" -> "pause"
                [] OTHER -> "resume"
    IN  CASE client[c].pc = "join" -> <<"join", client[c].package[2]>>
          [] client[c].pc \in Sending -> <<op, client[c].package[2]>>
          [] OTHER -> NULL

\* A thread is made when it has stopped itself before its function, and dead
\* when the manager says so.
ServicePhase(t) ==
    CASE child[t].pc \in {"free", "qts", "start", "stop"} -> "absent"
      [] child[t].pc \in {"started", "main"} -> "made"
      [] OTHER -> IF thread[t].died THEN "dead" ELSE "returned"

\* The stop a thread makes at its end is not one that holds it.
Service == INSTANCE ThreadService WITH
    phase <- [t \in Threads |-> ServicePhase(t)],
    held <- [t \in Threads |-> proc[t].state = "stopped" /\ child[t].pc # "ended"],
    call <- ServiceCall(Main)

\* Through the mailbox, the manager's scan and the signals, the one client gets
\* what it would get of a library that did each thing at once: no thread is
\* held, released or made but the one asked for while it is asked for, none
\* returns or dies while it is held, and no call returns before it is done.
ImplementsService == Service!Spec

=============================================================================
