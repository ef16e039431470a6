-------------------------- MODULE WinThreadsProofs ---------------------------
(***************************************************************************)
(* Proofs that WinThreads implements ExecutionManager, for a client that   *)
(* may pause and resume a thread whatever its state, and so keeps what is  *)
(* proved of the manager for any requests; and that its counts are counts. *)
(***************************************************************************)
EXTENDS WinThreads, ManagerEndsProofs

\* SuspendThread and ResumeThread ask for nothing but these, and do not look at
\* the thread they ask it of.
Uses == {"threadPause", "threadResume"} \subseteq Requests /\ ~Careful

\* What SuspendThread and ResumeThread leave for libthread to do is C_Ask.
LEMMA AskIsAsked ==
    ASSUME Uses, NEW c \in Clients, InLibrary(c), NEW t \in client[c].mine,
           NEW request \in {"threadPause", "threadResume"}, Ask(c, request, t)
    PROVE  C_Ask(c)
BY DEF Uses, InLibrary, Ask, C_Ask, LooksRight

\* Every step is a step of ExecutionManager, or one that it does not see.
LEMMA StepImplements == ASSUME Uses, [WinNext]_winVars PROVE [Next]_vars
<1>1. CASE UNCHANGED winVars
  BY <1>1 DEF winVars
<1>2. ASSUME NEW c \in Clients, CreateThread(c) \/ Lock(c) \/ Overflow(c) PROVE UNCHANGED vars
  BY <1>2 DEF CreateThread, Lock, Overflow
<1>3. ASSUME NEW c \in Clients, NewInfo(c) PROVE Next
  BY <1>3 DEF NewInfo, Next, Client
<1>4. ASSUME NEW c \in Clients, SuspendThread(c) PROVE [Next]_vars
  <2>1. PICK t \in client[c].mine: Ask(c, "threadPause", t) \/ UNCHANGED vars
    BY <1>4 DEF SuspendThread
  <2>2. InLibrary(c)
    BY <1>4 DEF SuspendThread
  <2>3. CASE Ask(c, "threadPause", t)
    BY <2>2, <2>3, AskIsAsked DEF Next, Client
  <2> QED BY <2>1, <2>3
<1>5. ASSUME NEW c \in Clients, ResumeThread(c) PROVE [Next]_vars
  <2>1. PICK t \in client[c].mine: Ask(c, "threadResume", t) \/ UNCHANGED vars
    BY <1>5 DEF ResumeThread
  <2>2. InLibrary(c)
    BY <1>5 DEF ResumeThread
  <2>3. CASE Ask(c, "threadResume", t)
    BY <2>2, <2>3, AskIsAsked DEF Next, Client
  <2> QED BY <2>1, <2>3
<1>6. ASSUME NEW c \in Clients, InLibthread(c) PROVE Next
  BY <1>6 DEF InLibthread, Next, Client
<1>7. CASE Manager /\ UNCHANGED win
  BY <1>7 DEF Next
<1>8. ASSUME NEW t \in Threads, Suspended(t) PROVE Next
  BY <1>8 DEF Next
<1> QED BY <1>1, <1>2, <1>3, <1>4, <1>5, <1>6, <1>7, <1>8 DEF WinNext

\* WinThreads implements ExecutionManager: whatever CreateThread, the counts and
\* the mutex do, the manager sees a client that asks as ExecutionManager's may.
THEOREM ImplementsExecutionManager == ASSUME Uses PROVE WinSpec => Spec
<1>1. WinInit => Init
  BY DEF WinInit
<1> QED BY <1>1, StepImplements, PTL DEF WinSpec, Spec

\* So what is proved of the manager under any requests holds under these.
THEOREM ManagerKeepsItsPromises ==
    ASSUME Uses PROVE WinSpec => [](RegisteredOnce /\ EndsAreTrue)
BY ImplementsExecutionManager, RegisteredOnceCorrect, EndsAreTrueCorrect, PTL

-----------------------------------------------------------------------------
\* The counts and the places in CreateThread.
CountsOK ==
    /\ call \in [Clients -> CallPC]
    /\ count \in [Threads -> 0..MaxCount]
    /\ uncounted \in SUBSET Threads

\* A count goes up to the maximum and down to 0, and CreateThread no further
\* than into its recursion.
LEMMA CountsStep == ASSUME TypeOK, CountsOK, [WinNext]_winVars PROVE CountsOK'
<1> USE CountAssumption DEF CountsOK
<1>1. CASE UNCHANGED win
  BY <1>1 DEF win
<1>2. ASSUME NEW c \in Clients, CreateThread(c) \/ Lock(c) \/ Overflow(c) PROVE CountsOK'
  BY <1>2 DEF CreateThread, Lock, Overflow, CallPC
<1>3. ASSUME NEW c \in Clients, NewInfo(c) PROVE CountsOK'
  <2>1. PICK n \in {0, 1}: count' = [count EXCEPT ![client'[c].package[2]] = n]
    BY <1>3 DEF NewInfo
  <2>2. n \in 0..MaxCount
    OBVIOUS
  <2> QED BY <1>3, <2>1, <2>2 DEF NewInfo
<1>4. ASSUME NEW c \in Clients, client[c].mine \subseteq Threads, SuspendThread(c) PROVE CountsOK'
  <2>1. PICK t \in client[c].mine:
          \/ count' = count /\ uncounted' = uncounted \cup {t}
          \/ /\ count[t] \in 1..MaxCount - 1
             /\ count' = [count EXCEPT ![t] = @ + 1]
             /\ uncounted' = uncounted
    BY <1>4 DEF SuspendThread
  <2>2. count[t] \in 1..MaxCount - 1 => count[t] + 1 \in 0..MaxCount
    OBVIOUS
  <2>3. call' = call
    BY <1>4 DEF SuspendThread
  <2> QED BY <1>4, <2>1, <2>2, <2>3
<1>5. ASSUME NEW c \in Clients, client[c].mine \subseteq Threads, ResumeThread(c) PROVE CountsOK'
  <2>1. PICK t \in client[c].mine: count[t] # 0 /\ count' = [count EXCEPT ![t] = @ - 1]
    BY <1>5 DEF ResumeThread
  <2>2. count[t] - 1 \in 0..MaxCount
    BY <1>5, <2>1
  <2> QED BY <1>5, <2>1, <2>2 DEF ResumeThread
<1>6. \A c \in Clients: client[c].mine \subseteq Threads
  BY DEF TypeOK, ClientRecord
<1>7. ASSUME NEW c \in Clients, InLibthread(c) PROVE UNCHANGED win
  BY <1>7 DEF InLibthread
<1> QED BY <1>1, <1>2, <1>3, <1>4, <1>5, <1>6, <1>7 DEF WinNext, winVars

\* Every variable keeps its type: a count is never below 0 or above the maximum.
THEOREM WinTypeCorrect == ASSUME Uses PROVE WinSpec => []WinTypeOK
<1>1. WinInit => CountsOK
  BY CountAssumption DEF WinInit, CountsOK, CallPC
<1>2. TypeOK /\ CountsOK => WinTypeOK
  BY DEF CountsOK, WinTypeOK
<1>3. WinSpec => []TypeOK
  BY ImplementsExecutionManager, TypeCorrect, PTL
<1> QED BY <1>1, <1>2, <1>3, CountsStep, PTL DEF WinSpec
=============================================================================
