------------------------ MODULE ManagerStartupProofs ------------------------
(***************************************************************************)
(* Proofs about ManagerStartup, for any number of clients that start the   *)
(* manager at once, and whether or not clone may fail.                     *)
(***************************************************************************)
EXTENDS ManagerStartup, TLAPS

\* A client that is about to publish the manager it registered has registered
\* one, and so has whoever set thread; a manager that scans has seen it.
Past == {"continue", "initialized", "waiting", "served"}

Order ==
    /\ \A c \in Clients: client[c] = "thread" => QTS_VECTOR # <<>>
    /\ thread # NULL => \E d \in Clients: client[d] \in Past
    /\ \A c \in Clients: manager[c].pc = "scanning" => QTS_VECTOR # <<>>

Registered == {QTS_VECTOR[i]: i \in 1..Len(QTS_VECTOR)}

\* What is registered has been cloned, and what a manager takes itself for has
\* been registered: thread is set from QTS_VECTOR.
Known ==
    /\ \A c \in Registered: manager[c].pc # "none"
    /\ \A c \in Clients: client[c] \in {"stop", "push"} => manager[c].pc # "none"
    /\ thread # NULL => thread \in Registered
    /\ \A c \in Clients: manager[c].pc = "first" =>
          thread # NULL /\ manager[c].self \in Registered

IInv == TypeOK /\ ScanningIsFirst /\ Order /\ Known /\ AssertionsHold

USE DEF ClientPC, ManagerPC, Past

LEMMA InitIInv == Init => IInv
<1> SUFFICES ASSUME Init PROVE IInv
    OBVIOUS
<1> USE NullAssumption DEF Init
<1>1. TypeOK
  <2>1. <<>> \in Seq(Clients) OBVIOUS
  <2>2. manager \in [Clients -> [pc: ManagerPC, self: Clients \cup {NULL}]] OBVIOUS
  <2>3. client \in [Clients -> ClientPC] OBVIOUS
  <2> QED BY <2>1, <2>2, <2>3 DEF TypeOK
<1>2. Known /\ AssertionsHold
  <2>1. Registered = {} BY DEF Registered
  <2> QED BY <2>1 DEF Known, AssertionsHold
<1>3. \A c \in Clients: client[c] # "thread" /\ manager[c].pc # "scanning"
  OBVIOUS
<1>4. ScanningIsFirst /\ Order BY <1>3 DEF ScanningIsFirst, Order
<1> QED BY <1>1, <1>2, <1>4 DEF IInv

\* The first of a sequence stays the first when one is appended.
LEMMA AppendKeeps ==
    ASSUME NEW S, NEW s \in Seq(S), NEW x \in S
    PROVE  /\ Append(s, x) \in Seq(S)
           /\ Append(s, x) # <<>>
           /\ s # <<>> => Append(s, x)[1] = s[1]
           /\ \A i \in 1..Len(s): Append(s, x)[i] = s[i]
           /\ Len(Append(s, x)) = Len(s) + 1
<1>1. Len(s) \in Nat /\ (s # <<>> => 1 \in 1..Len(s)) OBVIOUS
<1>2. Append(s, x) \in Seq(S) /\ Len(Append(s, x)) = Len(s) + 1 OBVIOUS
<1>3. \A i \in 1..Len(s): Append(s, x)[i] = s[i] OBVIOUS
<1> QED BY <1>1, <1>2, <1>3

\* The steps that leave QTS_VECTOR, thread and the managers as they are.
LEMMA QuietSteps ==
    ASSUME IInv,
           NEW c \in Clients, NEW from \in ClientPC, NEW to \in ClientPC \ {"thread"},
           from \in Past => to \in Past, to \in {"stop", "push"} => from \in {"stop", "push"},
           Goto(c, from, to),
           isRunning' \in BOOLEAN,
           UNCHANGED <<QTS_VECTOR, thread, manager>>,
           proc' \in [Clients -> {"none", "running", "stopping", "stopped", "ended"}],
           mail' \in Clients \cup {NULL}
    PROVE  IInv'
<1> USE DEF IInv, Goto
<1>1. TypeOK' BY DEF TypeOK
<1>a. \A d \in Clients: client[d] \in Past => client'[d] \in Past
  BY DEF TypeOK
<1>b. \A d \in Clients: client'[d] \in {"stop", "push"} => client[d] \in {"stop", "push"}
  BY DEF TypeOK
<1>2. Known' BY <1>b DEF Known, Registered
<1>3. ScanningIsFirst' BY <1>a DEF ScanningIsFirst, TypeOK
<1>4. Order' BY <1>a DEF Order, TypeOK
<1>5. AssertionsHold' BY DEF AssertionsHold, StartsWell
<1> QED BY <1>1, <1>2, <1>3, <1>4, <1>5

\* The steps of a manager before it scans.
LEMMA ManagerSteps ==
    ASSUME IInv,
           NEW c \in Clients,
           NEW m \in [pc: ManagerPC \ {"none", "scanning"}, self: Clients \cup {NULL}],
           m.pc = "first" => thread # NULL /\ m.self \in Registered,
           m.pc = "aborted" => ~StartsWell',
           manager' = [manager EXCEPT ![c] = m],
           proc' \in [Clients -> {"none", "running", "stopping", "stopped", "ended"}],
           UNCHANGED <<isRunning, QTS_VECTOR, thread, mail>>,
           \/ UNCHANGED client
           \/ /\ client[c] = "clone"
              /\ client' = [client EXCEPT ![c] = "stop"]
           \/ /\ client[c] = "clone"
              /\ client' = [client EXCEPT ![c] = "initialized"]
    PROVE  IInv'
<1> USE DEF IInv
<1>1. TypeOK' BY DEF TypeOK
<1>d. /\ manager'[c] = m /\ \A d \in Clients \ {c}: manager'[d] = manager[d]
      /\ \A d \in Clients \ {c}: client'[d] = client[d]
  BY DEF TypeOK
<1>2. Known'
  <2>1. Registered' = Registered BY DEF Registered
  <2>2. \A d \in Clients: manager[d].pc # "none" => manager'[d].pc # "none" BY <1>d
  <2>3. Registered \subseteq Clients BY DEF Registered, TypeOK
  <2>4. \A d \in Registered': manager'[d].pc # "none" BY <2>1, <2>2, <2>3 DEF Known
  <2>5. \A d \in Clients: client'[d] \in {"stop", "push"} => manager'[d].pc # "none"
    BY <1>d, <2>2 DEF Known
  <2>6. \A d \in Clients: manager'[d].pc = "first" =>
            thread' # NULL /\ manager'[d].self \in Registered'
    BY <1>d, <2>1 DEF Known
  <2> QED BY <2>1, <2>4, <2>5, <2>6 DEF Known
<1>5. AssertionsHold'
  <2> SUFFICES ASSUME StartsWell', NEW d \in Clients, manager'[d].pc = "aborted" PROVE FALSE
    BY DEF AssertionsHold
  <2>1. manager'[c].pc # "none" BY <1>d
  <2>2. d = c BY <2>1 DEF StartsWell
  <2> QED BY <1>d, <2>2
<1>a. \A d \in Clients: client[d] \in Past => client'[d] \in Past
  BY DEF TypeOK
<1>b. \A d \in Clients: manager'[d].pc = "scanning" => manager[d] = manager'[d]
  BY DEF TypeOK
<1>3. ScanningIsFirst' BY <1>a, <1>b DEF ScanningIsFirst, TypeOK
<1>c. \A d \in Clients: client'[d] = "thread" => client[d] = "thread"
  BY DEF TypeOK
<1>4. Order' BY <1>a, <1>b, <1>c DEF Order, TypeOK
<1> QED BY <1>1, <1>2, <1>3, <1>4, <1>5

LEMMA PushIInv == ASSUME IInv, NEW c \in Clients, Push(c) PROVE IInv'
<1> USE DEF IInv, Push, Goto
<1>s. QTS_VECTOR \in Seq(Clients) /\ QTS_VECTOR' = Append(QTS_VECTOR, c) BY DEF TypeOK
<1>a. /\ QTS_VECTOR' \in Seq(Clients) /\ QTS_VECTOR' # <<>>
      /\ QTS_VECTOR # <<>> => QTS_VECTOR'[1] = QTS_VECTOR[1]
      /\ \A i \in 1..Len(QTS_VECTOR): QTS_VECTOR'[i] = QTS_VECTOR[i]
      /\ Len(QTS_VECTOR') = Len(QTS_VECTOR) + 1
  BY <1>s, AppendKeeps
<1>b. Len(QTS_VECTOR) \in Nat BY <1>s
<1>1. TypeOK' BY <1>a DEF TypeOK
<1>2. Known'
  <2>1. Registered' = Registered \cup {c} BY <1>a, <1>b, <1>s DEF Registered
  <2>2. \A d \in Clients: client'[d] \in {"stop", "push"} => client[d] \in {"stop", "push"}
    BY DEF TypeOK
  <2> QED BY <2>1, <2>2 DEF Known
<1>5. AssertionsHold' BY DEF AssertionsHold, StartsWell
<1>c. \A d \in Clients: client[d] \in Past => client'[d] \in Past
  BY DEF TypeOK
<1>3. ScanningIsFirst' BY <1>a, <1>c DEF ScanningIsFirst, Order
<1>4. Order' BY <1>a, <1>c DEF Order
<1> QED BY <1>1, <1>2, <1>3, <1>4, <1>5

LEMMA SetThreadIInv == ASSUME IInv, NEW c \in Clients, SetThread(c) PROVE IInv'
<1> USE DEF IInv, SetThread, Goto
<1>a. QTS_VECTOR \in Seq(Clients) /\ QTS_VECTOR # <<>> BY DEF TypeOK, Order
<1>b. Len(QTS_VECTOR) \in 1..Len(QTS_VECTOR) /\ QTS_VECTOR[Len(QTS_VECTOR)] \in Clients
  BY <1>a
<1>1. TypeOK' BY <1>b DEF TypeOK
<1>2. Known'
  <2>1. thread' \in Registered' /\ Registered' = Registered BY <1>b DEF Registered
  <2>2. \A d \in Clients: client'[d] \in {"stop", "push"} => client[d] \in {"stop", "push"}
    BY DEF TypeOK
  <2>3. thread' # NULL BY <1>b, NullAssumption
  <2> QED BY <2>1, <2>2, <2>3 DEF Known
<1>5. AssertionsHold' BY DEF AssertionsHold, StartsWell
<1>c. client'[c] = "continue" /\ \A d \in Clients: client[d] \in Past => client'[d] \in Past
  BY DEF TypeOK
<1>3. ScanningIsFirst' BY <1>c DEF ScanningIsFirst
<1>4. Order'
  <2>1. \A d \in Clients: client'[d] = "thread" => QTS_VECTOR' # <<>> BY <1>a
  <2>2. \E d \in Clients: client'[d] \in Past BY <1>c
  <2> QED BY <2>1, <2>2, <1>a DEF Order
<1> QED BY <1>1, <1>2, <1>3, <1>4, <1>5

LEMMA AssertFirstIInv == ASSUME IInv, NEW c \in Clients, AssertFirst(c) PROVE IInv'
<1> DEFINE first == manager[c].self = thread /\ QTS_VECTOR # <<>> /\ manager[c].self = QTS_VECTOR[1]
<1>0. manager[c] \in [pc: ManagerPC, self: Clients \cup {NULL}] BY DEF IInv, TypeOK
<1>1. CASE ~first
  <2>1. manager' = [manager EXCEPT ![c] = [pc |-> "aborted", self |-> manager[c].self]]
    BY <1>1, <1>0 DEF AssertFirst, Ends, IInv, TypeOK
  <2>2. proc' = [proc EXCEPT ![c] = "ended"] BY <1>1 DEF AssertFirst, Ends
  <2>3. proc' \in [Clients -> {"none", "running", "stopping", "stopped", "ended"}]
    BY <2>2 DEF IInv, TypeOK
  <2>4. [pc |-> "aborted", self |-> manager[c].self]
            \in [pc: ManagerPC \ {"none", "scanning"}, self: Clients \cup {NULL}]
    BY <1>0
  <2>5. ~StartsWell'
    <3> SUFFICES ASSUME StartsWell' PROVE first BY <1>1
    <3>1. \A d \in Clients: manager[d].pc # "none" => d = c
      BY <2>1 DEF StartsWell, IInv, TypeOK
    <3>2. Registered \subseteq Clients BY DEF Registered, IInv, TypeOK
    <3>3. Registered \subseteq {c} BY <3>1, <3>2 DEF IInv, Known
    <3>4. manager[c].pc = "first" BY DEF AssertFirst
    <3>5. thread \in Registered /\ manager[c].self \in Registered
      BY <3>4 DEF IInv, Known
    <3>6. QTS_VECTOR # <<>> /\ QTS_VECTOR[1] \in Registered
      BY <3>5 DEF Registered, IInv, TypeOK
    <3> QED BY <3>3, <3>5, <3>6
  <2> QED BY <2>1, <2>3, <2>4, <2>5, ManagerSteps DEF AssertFirst
<1>2. CASE first
  <2> USE DEF IInv
  <2>1. /\ manager' = [manager EXCEPT ![c].pc = "scanning"]
        /\ UNCHANGED <<isRunning, QTS_VECTOR, thread, client, proc, mail>>
    BY <1>2 DEF AssertFirst
  <2>2. thread # NULL
    <3>1. QTS_VECTOR[1] \in Clients BY <1>2 DEF TypeOK
    <3> QED BY <3>1, <1>2, NullAssumption
  <2>3. TypeOK' BY <2>1, <1>0 DEF TypeOK
  <2>7. /\ manager'[c].pc = "scanning" /\ \A d \in Clients \ {c}: manager'[d] = manager[d]
    BY <2>1, <1>0 DEF TypeOK
  <2>4. Known'
    <3>1. \A d \in Clients: /\ manager[d].pc # "none" => manager'[d].pc # "none"
                            /\ manager'[d].pc = "first" => manager'[d] = manager[d]
      BY <2>7
    <3>2. Registered \subseteq Clients /\ Registered' = Registered BY <2>1 DEF Registered, TypeOK
    <3> QED BY <3>1, <3>2, <2>1 DEF Known
  <2>8. AssertionsHold' BY <2>7 DEF AssertionsHold, StartsWell
  <2>5. ScanningIsFirst'
    <3>1. \E d \in Clients: client'[d] \in Past BY <2>1, <2>2 DEF Order
    <3>2. manager'[c].self = QTS_VECTOR'[1] BY <2>1, <1>2 DEF TypeOK
    <3>3. \A d \in Clients \ {c}: manager'[d] = manager[d] BY <2>1 DEF TypeOK
    <3> QED BY <3>1, <3>2, <3>3, <2>1 DEF ScanningIsFirst
  <2>6. Order'
    <3>1. \A d \in Clients: manager'[d].pc = "scanning" => QTS_VECTOR' # <<>> BY <2>1, <1>2
    <3> QED BY <3>1, <2>1 DEF Order
  <2> QED BY <2>3, <2>4, <2>5, <2>6, <2>8
<1> QED BY <1>1, <1>2

LEMMA StepIInv == IInv /\ [Next]_vars => IInv'
<1> SUFFICES ASSUME IInv, [Next]_vars PROVE IInv'
    OBVIOUS
<1> DEFINE Procs == [Clients -> {"none", "running", "stopping", "stopped", "ended"}]
<1>t. TypeOK BY DEF IInv
<1>1. CASE UNCHANGED vars
  BY <1>1 DEF vars, IInv, TypeOK, ScanningIsFirst, Order, Known, AssertionsHold, StartsWell,
              Registered
<1>2. ASSUME NEW c \in Clients, QINIT(c) PROVE IInv'
  <2>1. CASE TestRunning(c)
    <3>1. CASE isRunning
      BY <2>1, <3>1, <1>t, QuietSteps DEF TestRunning, TypeOK
    <3>2. CASE ~isRunning
      BY <2>1, <3>2, <1>t, QuietSteps DEF TestRunning, TypeOK
    <3> QED BY <3>1, <3>2
  <2>2. CASE SetRunning(c)
    BY <2>2, <1>t, QuietSteps DEF SetRunning, TypeOK
  <2>3. CASE Clone(c)
    <3>0. manager' = [manager EXCEPT ![c].pc = "self"] BY <2>3 DEF Clone
    <3>m. manager[c] \in [pc: ManagerPC, self: Clients \cup {NULL}] BY <1>t DEF TypeOK
    <3>n. [manager[c] EXCEPT !.pc = "self"] = [pc |-> "self", self |-> manager[c].self]
      BY <3>m
    <3>1. manager' = [manager EXCEPT ![c] = [pc |-> "self", self |-> manager[c].self]]
      BY <3>0, <3>n
    <3>2. [pc |-> "self", self |-> manager[c].self]
              \in [pc: ManagerPC \ {"none", "scanning"}, self: Clients \cup {NULL}]
      BY <1>t DEF TypeOK
    <3>3. proc' \in Procs BY <2>3, <1>t DEF Clone, TypeOK
    <3> QED BY <2>3, <3>1, <3>2, <3>3, ManagerSteps DEF Clone, Goto
  <2>4. CASE CloneFailed(c)
    <3>0. manager' = [manager EXCEPT ![c].pc = "failed"] BY <2>4 DEF CloneFailed
    <3>m. manager[c] \in [pc: ManagerPC, self: Clients \cup {NULL}] BY <1>t DEF TypeOK
    <3>n. [manager[c] EXCEPT !.pc = "failed"] = [pc |-> "failed", self |-> manager[c].self]
      BY <3>m
    <3>1. manager' = [manager EXCEPT ![c] = [pc |-> "failed", self |-> manager[c].self]]
      BY <3>0, <3>n
    <3>2. [pc |-> "failed", self |-> manager[c].self]
              \in [pc: ManagerPC \ {"none", "scanning"}, self: Clients \cup {NULL}]
      BY <1>t DEF TypeOK
    <3>3. proc' \in Procs BY <2>4, <1>t DEF CloneFailed, TypeOK
    <3> QED BY <2>4, <3>1, <3>2, <3>3, ManagerSteps DEF CloneFailed, Goto
  <2>5. CASE Stop(c)
    <3>1. proc' \in Procs BY <2>5, <1>t DEF Stop, TypeOK
    <3> QED BY <2>5, <3>1, <1>t, QuietSteps DEF Stop, TypeOK
  <2>6. CASE Push(c) BY <2>6, PushIInv
  <2>7. CASE SetThread(c) BY <2>7, SetThreadIInv
  <2>8. CASE Continue(c)
    <3>1. proc' \in Procs BY <2>8, <1>t DEF Continue, TypeOK
    <3> QED BY <2>8, <3>1, <1>t, QuietSteps DEF Continue, TypeOK
  <2> QED BY <1>2, <2>1, <2>2, <2>3, <2>4, <2>5, <2>6, <2>7, <2>8 DEF QINIT
<1>3. ASSUME NEW c \in Clients, sendRequest(c) PROVE IInv'
  BY <1>3, <1>t, QuietSteps DEF sendRequest, TypeOK
<1>4. ASSUME NEW c \in Clients, StopDelivered(c) PROVE IInv'
  BY <1>4 DEF StopDelivered, IInv, TypeOK, ScanningIsFirst, Order, Known, AssertionsHold,
              StartsWell, Registered
<1>5. ASSUME NEW c \in Clients, ReadSelf(c) PROVE IInv'
  <2>1. CASE thread = NULL
    <3>1. manager' = [manager EXCEPT ![c] = [pc |-> "crashed", self |-> manager[c].self]]
      BY <1>5, <2>1, <1>t DEF ReadSelf, Ends, TypeOK
    <3>2. [pc |-> "crashed", self |-> manager[c].self]
              \in [pc: ManagerPC \ {"none", "scanning"}, self: Clients \cup {NULL}]
      BY <1>t DEF TypeOK
    <3>3. proc' \in Procs BY <1>5, <2>1, <1>t DEF ReadSelf, Ends, TypeOK
    <3> QED BY <1>5, <3>1, <3>2, <3>3, ManagerSteps DEF ReadSelf
  <2>2. CASE thread # NULL
    <3>1. manager' = [manager EXCEPT ![c] = [pc |-> "first", self |-> thread]]
      BY <1>5, <2>2 DEF ReadSelf
    <3>2. [pc |-> "first", self |-> thread]
              \in [pc: ManagerPC \ {"none", "scanning"}, self: Clients \cup {NULL}]
      BY <1>t DEF TypeOK
    <3>3. proc' \in Procs BY <1>5, <2>2, <1>t DEF ReadSelf, TypeOK
    <3>4. thread \in Registered BY <2>2 DEF IInv, Known
    <3> QED BY <1>5, <2>2, <3>1, <3>2, <3>3, <3>4, ManagerSteps DEF ReadSelf
  <2> QED BY <2>1, <2>2
<1>6. ASSUME NEW c \in Clients, AssertFirst(c) PROVE IInv'
  BY <1>6, AssertFirstIInv
<1>7. ASSUME NEW c \in Clients, handleRequest(c) PROVE IInv'
  <2>1. PICK d \in Clients: Goto(d, "waiting", "served") BY <1>7, <1>t DEF handleRequest, TypeOK
  <2> QED BY <1>7, <2>1, <1>t, QuietSteps DEF handleRequest, TypeOK
<1> QED BY <1>1, <1>2, <1>3, <1>4, <1>5, <1>6, <1>7 DEF Next, ExecutionManager_instance

LEMMA Invariance == Spec => []IInv
<1> QED BY InitIInv, StepIInv, PTL DEF Spec

\* Every variable keeps its type, the sequence of registered managers included.
THEOREM TypeCorrect == Spec => []TypeOK
<1>1. IInv => TypeOK BY DEF IInv
<1> QED BY <1>1, Invariance, PTL

\* A manager that scans takes itself for the one registered first, and some
\* client has published it: the assertions at the start of
\* ExecutionManager_instance stop every other.
THEOREM ScanningIsFirstCorrect == Spec => []ScanningIsFirst
<1>1. IInv => ScanningIsFirst BY DEF IInv
<1> QED BY <1>1, Invariance, PTL

\* When no clone fails, no second client clones a manager and the manager does
\* not read thread before it is set, every assertion at the start of
\* ExecutionManager_instance holds, wherever the stop and the continuation fall.
THEOREM AssertionsHoldCorrect == Spec => []AssertionsHold
<1>1. IInv => AssertionsHold BY DEF IInv
<1> QED BY <1>1, Invariance, PTL
=============================================================================
