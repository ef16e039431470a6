--------------------------- MODULE ManagerStartup ---------------------------
(***************************************************************************)
(* QINIT, the first thing threadNew does: the client that finds no manager *)
(* running clones one, means to hold it with SIGSTOP until it is           *)
(* registered, and lets it go with SIGCONT.  The new process begins        *)
(* ExecutionManager_instance by looking itself up in what QINIT registers. *)
(* Its first steps, the clients' and the delivery of the stop interleave.  *)
(*                                                                         *)
(* A client c that gets that far clones the manager named c.  Whatever     *)
(* QINIT returned, the client then leaves its first request in REQUEST,    *)
(* which has room for one: a request not yet served is overwritten.  How   *)
(* sendRequest and handleRequest go about it, store by store, is           *)
(* ExecutionManager's subject; here each is one step.                      *)
(***************************************************************************)
EXTENDS Integers, Sequences

CONSTANTS
    Clients,    \* processes whose first call of the library is threadNew
    NULL,       \* nullptr
    CloneFails  \* whether clone may return -1

ASSUME NullAssumption       == NULL \notin Clients
ASSUME CloneFailsAssumption == CloneFails \in BOOLEAN

VARIABLES
    isRunning,   \* ExecutionManager::isRunning
    QTS_VECTOR,  \* the managers registered, in order
    thread,      \* ExecutionManager::thread
    client,      \* where each client is in QINIT
    manager,     \* where each manager is in ExecutionManager_instance, its self
    proc,        \* whether it exists, is stopped, or has a SIGSTOP on the way
    mail         \* whose request REQUEST holds

vars == <<isRunning, QTS_VECTOR, thread, client, manager, proc, mail>>

ClientPC == {"test", "set", "clone", "stop", "push", "thread", "continue",
             "initialized", "waiting", "served"}

ManagerPC == {"none", "failed", "self", "first", "scanning", "crashed", "aborted"}

TypeOK ==
    /\ isRunning \in BOOLEAN
    /\ QTS_VECTOR \in Seq(Clients)
    /\ thread \in Clients \cup {NULL}
    /\ client \in [Clients -> ClientPC]
    /\ manager \in [Clients -> [pc: ManagerPC, self: Clients \cup {NULL}]]
    /\ proc \in [Clients -> {"none", "running", "stopping", "stopped", "ended"}]
    /\ mail \in Clients \cup {NULL}

Init ==
    /\ isRunning = FALSE
    /\ QTS_VECTOR = <<>>
    /\ thread = NULL
    /\ client = [c \in Clients |-> "test"]
    /\ manager = [c \in Clients |-> [pc |-> "none", self |-> NULL]]
    /\ proc = [c \in Clients |-> "none"]
    /\ mail = NULL

Goto(c, from, to) ==
    /\ client[c] = from
    /\ client' = [client EXCEPT ![c] = to]

\* if (isRunning) return thread;
TestRunning(c) ==
    /\ Goto(c, "test", IF isRunning THEN "initialized" ELSE "set")
    /\ UNCHANGED <<isRunning, QTS_VECTOR, thread, manager, proc, mail>>

SetRunning(c) ==
    /\ Goto(c, "set", "clone")
    /\ isRunning' = TRUE
    /\ UNCHANGED <<QTS_VECTOR, thread, manager, proc, mail>>

\* Mutant: thread is published as soon as there is one.
Clone_Publishes(c) ==
    /\ Goto(c, "clone", "stop")
    /\ thread' = c
    /\ manager' = [manager EXCEPT ![c].pc = "self"]
    /\ proc' = [proc EXCEPT ![c] = "running"]
    /\ UNCHANGED <<isRunning, QTS_VECTOR, mail>>

Clone(c) ==
    /\ Goto(c, "clone", "stop")
    /\ manager' = [manager EXCEPT ![c].pc = "self"]
    /\ proc' = [proc EXCEPT ![c] = "running"]
    /\ UNCHANGED <<isRunning, QTS_VECTOR, thread, mail>>

\* The null pointer QINIT returns is not looked at; isRunning stays set.
CloneFailed(c) ==
    /\ CloneFails
    /\ Goto(c, "clone", "initialized")
    /\ manager' = [manager EXCEPT ![c].pc = "failed"]
    /\ UNCHANGED <<isRunning, QTS_VECTOR, thread, proc, mail>>

\* kill(SIGSTOP) returns before the other process has stopped.
Stop(c) ==
    /\ Goto(c, "stop", "push")
    /\ proc' = [proc EXCEPT ![c] = IF @ = "running" THEN "stopping" ELSE @]
    /\ UNCHANGED <<isRunning, QTS_VECTOR, thread, manager, mail>>

\* Mutant: what is registered is the thread published last.
Push_Published(c) ==
    /\ Goto(c, "push", "thread")
    /\ QTS_VECTOR' = Append(QTS_VECTOR, thread)
    /\ UNCHANGED <<isRunning, thread, manager, proc, mail>>

Push(c) ==
    /\ Goto(c, "push", "thread")
    /\ QTS_VECTOR' = Append(QTS_VECTOR, c)
    /\ UNCHANGED <<isRunning, thread, manager, proc, mail>>

\* thread = QTS_VECTOR.back()->t
SetThread(c) ==
    /\ Goto(c, "thread", "continue")
    /\ thread' = QTS_VECTOR[Len(QTS_VECTOR)]
    /\ UNCHANGED <<isRunning, QTS_VECTOR, manager, proc, mail>>

\* Mutant: the manager is not continued.
Continue_NoSignal(c) ==
    /\ Goto(c, "continue", "initialized")
    /\ UNCHANGED <<isRunning, QTS_VECTOR, thread, manager, proc, mail>>

\* SIGCONT continues a stopped process and withdraws a stop on its way.
Continue(c) ==
    /\ Goto(c, "continue", "initialized")
    /\ proc' = [proc EXCEPT ![c] = IF @ = "ended" THEN @ ELSE "running"]
    /\ UNCHANGED <<isRunning, QTS_VECTOR, thread, manager, mail>>

QINIT(c) ==
    \/ TestRunning(c)
    \/ SetRunning(c)
    \/ Clone(c)
    \/ CloneFailed(c)
    \/ Stop(c)
    \/ Push(c)
    \/ SetThread(c)
    \/ Continue(c)

\* threadNew goes on to sendRequest, and spins until a manager has answered.
sendRequest(c) ==
    /\ Goto(c, "initialized", "waiting")
    /\ mail' = c
    /\ UNCHANGED <<isRunning, QTS_VECTOR, thread, manager, proc>>

-----------------------------------------------------------------------------
StopDelivered(c) ==
    /\ proc[c] = "stopping"
    /\ proc' = [proc EXCEPT ![c] = "stopped"]
    /\ UNCHANGED <<isRunning, QTS_VECTOR, thread, client, manager, mail>>

Runs(c) == proc[c] \in {"running", "stopping"}

Ends(c, how) ==
    /\ manager' = [manager EXCEPT ![c].pc = how]
    /\ proc' = [proc EXCEPT ![c] = "ended"]

\* pid_t self = thread->pid;  a null thread ends the process.
ReadSelf(c) ==
    /\ Runs(c)
    /\ manager[c].pc = "self"
    /\ IF thread = NULL
       THEN Ends(c, "crashed")
       ELSE /\ manager' = [manager EXCEPT ![c] = [pc |-> "first", self |-> thread]]
            /\ UNCHANGED proc
    /\ UNCHANGED <<isRunning, QTS_VECTOR, thread, client, mail>>

\* Mutant: the assertions are compiled out.
AssertFirst_NDEBUG(c) ==
    /\ Runs(c)
    /\ manager[c].pc = "first"
    /\ manager' = [manager EXCEPT ![c].pc = "scanning"]
    /\ UNCHANGED <<isRunning, QTS_VECTOR, thread, client, proc, mail>>

\* assert(self == thread->pid), that QTS_VECTOR is not empty, and
\* assert(self == QTS_VECTOR[0]->t->pid)
AssertFirst(c) ==
    LET self == manager[c].self
    IN  /\ Runs(c)
        /\ manager[c].pc = "first"
        /\ IF self = thread /\ QTS_VECTOR # <<>> /\ self = QTS_VECTOR[1]
           THEN /\ manager' = [manager EXCEPT ![c].pc = "scanning"]
                /\ UNCHANGED proc
           ELSE Ends(c, "aborted")
        /\ UNCHANGED <<isRunning, QTS_VECTOR, thread, client, mail>>

handleRequest(c) ==
    /\ Runs(c)
    /\ manager[c].pc = "scanning"
    /\ mail # NULL
    /\ Goto(mail, "waiting", "served")
    /\ mail' = NULL
    /\ UNCHANGED <<isRunning, QTS_VECTOR, thread, manager, proc>>

ExecutionManager_instance(c) == ReadSelf(c) \/ AssertFirst(c) \/ handleRequest(c)

Next ==
    \E c \in Clients:
        QINIT(c) \/ sendRequest(c) \/ StopDelivered(c) \/ ExecutionManager_instance(c)

\* Every process that can run does, once a client has called threadNew, which
\* none has to; and a signal sent arrives.
Fairness ==
    \A c \in Clients:
        /\ WF_vars(client[c] # "test" /\ (QINIT(c) \/ sendRequest(c)))
        /\ WF_vars(StopDelivered(c))
        /\ WF_vars(ExecutionManager_instance(c))

Spec == Init /\ [][Next]_vars /\ Fairness

-----------------------------------------------------------------------------
\* A manager scans only what begins with the registered manager it takes
\* itself for.
ScanningIsFirst ==
    \A c \in Clients: manager[c].pc = "scanning" =>
        /\ manager[c].self = QTS_VECTOR[1]
        /\ \E d \in Clients: client[d] \in {"continue", "initialized", "waiting", "served"}

\* The stop meant to hold a manager never holds it for good, however late it
\* arrives: each manager that is cloned comes to scan, or ends.
NoManagerStaysStopped ==
    \A c \in Clients:
        manager[c].pc = "self" ~> manager[c].pc \in {"scanning", "crashed", "aborted"}

\* What can go wrong in QINIT: clone fails, a manager reads thread before it is
\* set, or two clients find isRunning unset and each clone one.
StartsWell ==
    /\ \A c \in Clients: manager[c].pc \notin {"failed", "crashed"}
    /\ \A c, d \in Clients: manager[c].pc # "none" /\ manager[d].pc # "none" => c = d

\* Nothing else makes an assertion of ExecutionManager_instance fail: the one
\* manager there is, once it has seen thread, finds itself first in QTS_VECTOR.
AssertionsHold == StartsWell => \A c \in Clients: manager[c].pc # "aborted"

\* What can go wrong in the mailbox: a second request comes before the first
\* has been served.
OneAtATime == \A c, d \in Clients: client[c] = "waiting" /\ client[d] = "waiting" => c = d

\* Unless one of these four things happens, every client's first request is
\* served, also that of a client which found isRunning set before there was a
\* manager.
FirstRequestServed ==
    [](StartsWell /\ OneAtATime) =>
        \A c \in Clients: client[c] = "waiting" ~> client[c] = "served"
=============================================================================
