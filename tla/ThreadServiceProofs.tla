------------------------- MODULE ThreadServiceProofs -------------------------
(***************************************************************************)
(* Proof that libthread, for one careful client, implements ThreadService: *)
(* what the client sees through the mailbox, the manager's scan and the    *)
(* signals is what it would see of a library that did each thing at once.  *)
(*                                                                         *)
(* A thread is made when it stops itself for the first time; it is held    *)
(* and released by the manager's kill, and it returns and dies by its own  *)
(* steps and the clean-up.  Each of these is the one step of the service   *)
(* it must be because of where SInv says the client and the thread are.    *)
(***************************************************************************)
EXTENDS ManagerServesProofs

Held(t) == proc[t].state = "stopped" /\ child[t].pc # "ended"

Phase == [t \in Threads |-> ServicePhase(t)]

Holding == [t \in Threads |-> proc[t].state = "stopped" /\ child[t].pc # "ended"]

Waiting == ServiceCall(Main)

\* The step cannot be seen on the thread.
Same(t) == ServicePhase(t)' = ServicePhase(t) /\ (Held(t)' <=> Held(t))

Made == {"free", "qts", "start", "stop"}

-----------------------------------------------------------------------------
(* The steps of the service, in the terms of the mapping.                  *)

LEMMA SamePhases ==
    ASSUME \A t \in Threads: Same(t)
    PROVE  Phase' = Phase /\ Holding' = Holding
BY DEF Phase, Holding, Same, Held

LEMMA PhaseChanges ==
    ASSUME NEW t \in Threads, NEW phase, ServicePhase(t)' = phase,
           \A u \in Threads: u # t => Same(u)
    PROVE  Phase' = [Phase EXCEPT ![t] = phase]
BY DEF Phase, Same

LEMMA BecomesHeld ==
    ASSUME NEW t \in Threads, Held(t)', \A u \in Threads: u # t => Same(u)
    PROVE  Holding' = [Holding EXCEPT ![t] = TRUE]
BY DEF Holding, Same, Held

LEMMA BecomesFree ==
    ASSUME NEW t \in Threads, ~Held(t)', \A u \in Threads: u # t => Same(u)
    PROVE  Holding' = [Holding EXCEPT ![t] = FALSE]
BY DEF Holding, Same, Held

LEMMA StaysHeldOrFree ==
    ASSUME NEW t \in Threads, Held(t)' <=> Held(t), \A u \in Threads: u # t => Same(u)
    PROVE  Holding' = Holding
BY DEF Holding, Same, Held

LEMMA StaysInPhase ==
    ASSUME NEW t \in Threads, ServicePhase(t)' = ServicePhase(t),
           \A u \in Threads: u # t => Same(u)
    PROVE  Phase' = Phase
BY DEF Phase, Same

LEMMA Stutters ==
    ASSUME \A t \in Threads: Same(t), Waiting' = Waiting
    PROVE  UNCHANGED Service!vars
BY SamePhases DEF Service!vars, Phase, Holding, Waiting

\* What one thread shows.
LEMMA Unseen ==
    ASSUME NEW t \in Threads, thread'[t].died = thread[t].died,
           proc'[t].state = proc[t].state, child'[t].pc = child[t].pc
    PROVE  Same(t)
BY DEF Same, ServicePhase, Held

LEMMA Unmade ==
    ASSUME NEW t \in Threads, child[t].pc \in Made, child'[t].pc \in Made,
           proc[t].state # "stopped", proc'[t].state # "stopped"
    PROVE  Same(t)
BY DEF Same, ServicePhase, Held, Made

LEMMA WaitingFor ==
    ASSUME OneClient, SInv
    PROVE  /\ me.pc \in Sending /\ me.request = "threadCreate" => Waiting = <<"create", Subject>>
           /\ me.pc \in Sending /\ me.request = "threadPause" => Waiting = <<"pause", Subject>>
           /\ me.pc \in Sending /\ me.request = "threadResume" => Waiting = <<"resume", Subject>>
           /\ me.pc = "join" => Waiting = <<"join", Subject>>
           /\ me.pc \notin Sending \cup {"join"} => Waiting = NULL
BY DEF Waiting, ServiceCall, Subject, me, Sending

-----------------------------------------------------------------------------
(* A thread's own steps: it makes itself, and it returns.                  *)

LEMMA SuspendedRefines ==
    ASSUME OneClient, SInv, NEW t \in Threads, Suspended(t)
    PROVE  Service!Create(t) \/ Service!Return(t) \/ UNCHANGED Service!vars
<1>1. /\ child[t] \in ChildRecord /\ child \in [Threads -> ChildRecord]
      /\ thread[t] \in ThreadObject /\ thread \in [Threads -> ThreadObject]
      /\ proc[t] \in Process /\ proc \in [Threads \cup {Mgr} -> Process]
  BY Sent
<1>2. proc[t].state = "running" /\ ~thread[t].died
  <2>1. proc[t].state = "running"
    BY DEF Suspended, T_Start, T_StopItself, T_Resumed, T_Main, T_Crash, T_Killable,
       T_Killed, T_Ending, T_Return, T_Step, Runs
  <2> QED
    BY <2>1, DiedIsDead DEF IsDead, IsOver
<1>3. Waiting' = Waiting
  BY DEF Suspended, T_Start, T_StopItself, T_Resumed, T_Main, T_Crash, T_Killable,
     T_Killed, T_Ending, T_Return, Waiting, ServiceCall
<1>4. \A u \in Threads: u # t => Same(u)
  <2>1. \A u \in Threads: u # t =>
            thread'[u] = thread[u] /\ child'[u] = child[u] /\ proc'[u] = proc[u]
    BY <1>1 DEF Suspended, T_Start, T_StopItself, T_Resumed, T_Main, T_Crash, T_Killable,
       T_Killed, T_Ending, T_Return, T_Step
  <2> QED
    BY <2>1, Unseen
<1>5. CASE T_StopItself(t, "stop", "started")
  <2>1. /\ child[t].pc = "stop" /\ child'[t].pc = "started" /\ thread' = thread
        /\ proc'[t].state = "stopped"
    <3>1. proc'[t] = Signalled(proc[t], "SIGSTOP")
      BY <1>1, <1>5 DEF T_StopItself
    <3> QED
      BY <1>1, <1>2, <1>5, <3>1, SignalledBy DEF T_StopItself, T_Step, ChildRecord
  <2>2. ~Rests(t)
    BY <2>1 DEF Rests, IsNew, IsHeld, IsRunning, Inside, IsDead, IsOver
  <2>3. Attends(t)
    BY <2>2 DEF SInv, Served, OthersRest
  <2>4. me.pc \in Sending /\ me.request = "threadCreate" /\ t = Subject
    <3>1. CASE mgr.pc = "clearPackage"
      <4>1. Taken
        BY <3>1 DEF Taken
      <4> QED
        BY <2>3, <3>1, <4>1, Sent DEF Attends, SInv, Served, Meaning
    <3>2. CASE mgr.pc = "call" /\ mgr.t = t
      <4>1. Works(t)
        BY <3>2, AtCall
      <4>2. mgr.call = "request" /\ me.request = "threadCreate"
        BY <2>1, <4>1 DEF Works, Serves, Pauses, Resumes, Stops, Joins, IsStopping, IsResuming,
           IsHeld, IsRunning, Inside, IsDead, IsLetGo, IsAtLastStop, IsContinued, IsEnding,
           HasEnded, IsOver
      <4>3. Taken
        BY <3>2, <4>2 DEF Taken
      <4> QED
        BY <3>2, <4>2, <4>3, Sent DEF SInv, Served, Meaning
    <3>3. ~(mgr.pc = "died" /\ mgr.t = t)
      BY <2>1 DEF SInv, Served, AtWork, HasEnded, IsOver
    <3> QED
      BY <2>3, <3>1, <3>2, <3>3 DEF Attends
  <2>5. Waiting = <<"create", t>>
    BY <2>4, WaitingFor
  <2>6. ServicePhase(t) = "absent" /\ ServicePhase(t)' = "made" /\ Held(t)'
    BY <2>1 DEF ServicePhase, Held
  <2>7. Phase[t] = "absent"
    BY <2>6 DEF Phase
  <2>8. Phase' = [Phase EXCEPT ![t] = "made"] /\ Holding' = [Holding EXCEPT ![t] = TRUE]
    BY <1>4, <2>6, PhaseChanges, BecomesHeld
  <2>9. Service!Create(t)
    BY <1>3, <2>5, <2>7, <2>8 DEF Service!Create, Phase, Holding, Waiting
  <2> QED
    BY <2>9
<1>6. CASE T_Main(t)
  <2>1. /\ child[t].pc = "main" /\ child'[t].pc = "returned"
        /\ thread' = thread /\ proc' = proc
    BY <1>1, <1>6 DEF T_Main
  <2>2. /\ ServicePhase(t) = "made" /\ ServicePhase(t)' = "returned"
        /\ ~Held(t) /\ ~Held(t)'
    BY <1>2, <2>1 DEF ServicePhase, Held
  <2>3. Phase[t] = "made" /\ ~Holding[t]
    BY <2>2 DEF Phase, Holding, Held
  <2>4. Phase' = [Phase EXCEPT ![t] = "returned"] /\ Holding' = Holding
    BY <1>4, <2>2, PhaseChanges, StaysHeldOrFree
  <2>5. Service!Return(t)
    BY <1>3, <2>3, <2>4 DEF Service!Return, Phase, Holding, Waiting
  <2> QED
    BY <2>5
<1>7. CASE T_Start(t)
  <2>1. child[t].pc = "start" /\ child'[t].pc = "stop" /\ proc' = proc /\ ~thread'[t].died
    BY <1>1, <1>7 DEF T_Start, T_Step, ChildRecord, ThreadObject
  <2>2. Same(t)
    BY <1>2, <2>1, Unmade DEF Made
  <2> QED
    BY <1>3, <1>4, <2>2, Stutters
<1>8. CASE \/ T_Resumed(t, "started", "main") \/ T_Killable(t) \/ T_Killed(t) \/ T_Ending(t)
           \/ T_StopItself(t, "endStop", "ended") \/ T_Resumed(t, "ended", "return")
           \/ T_Return(t)
  <2>1. /\ \/ child[t].pc = "started" /\ child'[t].pc = "main"
           \/ /\ child[t].pc \in ChildPC \ (Made \cup {"started", "main"})
              /\ child'[t].pc \in ChildPC \ (Made \cup {"started", "main"})
        /\ ~thread'[t].died
    BY <1>1, <1>2, <1>8 DEF T_Resumed, T_Killable, T_Killed, T_Ending, T_StopItself, T_Return,
       T_Step, ChildRecord, ThreadObject, ChildPC, Made
  <2>2. proc'[t].state = "stopped" => child'[t].pc = "ended"
    <3>1. T_Return(t) => proc'[t].state = "zombie"
      BY <1>1 DEF T_Return, Exited, Zombie
    <3>2. T_StopItself(t, "endStop", "ended") => child'[t].pc = "ended"
      BY <1>1 DEF T_StopItself, T_Step, ChildRecord
    <3> QED
      BY <1>1, <1>2, <1>8, <3>1, <3>2 DEF T_Resumed, T_Killable, T_Killed, T_Ending
  <2>3. Same(t)
    BY <1>2, <2>1, <2>2 DEF Same, ServicePhase, Held, Made, ChildPC
  <2> QED
    BY <1>3, <1>4, <2>3, Stutters
<1>9. ~T_Crash(t)
  BY DEF OneClient, T_Crash
<1> QED
  BY <1>5, <1>6, <1>7, <1>8, <1>9 DEF Suspended

-----------------------------------------------------------------------------
(* The client's steps: it begins a call, and ends it.                      *)

LEMMA Begins ==
    ASSUME OneClient, SInv, NEW op \in {"create", "pause", "resume", "join"}, NEW t \in Threads,
           me.pc = "idle", Waiting' = <<op, t>>, \A u \in Threads: Same(u),
           op = "create" => child[t].pc = "free",
           op # "create" => child[t].pc \notin Made
    PROVE  Service!Next
<1>1. Waiting = NULL
  BY WaitingFor DEF Sending
<1>2. Phase' = Phase /\ Holding' = Holding
  BY SamePhases
<1>3. child[t].pc \in Made => ServicePhase(t) = "absent"
  <2>1. child[t].pc \in Made => ~thread[t].died
    BY DiedIsDead DEF IsDead, IsOver, Made
  <2> QED
    BY <2>1 DEF ServicePhase, Made
<1>4. child[t].pc \notin Made => ServicePhase(t) # "absent"
  BY DEF ServicePhase, Made
<1>5. op = "create" <=> Phase[t] = "absent"
  BY <1>3, <1>4 DEF Phase, Made
<1>6. Service!Begin(op, t)
  BY <1>1, <1>2, <1>5 DEF Service!Begin, Phase, Holding, Waiting
<1> QED
  BY <1>6 DEF Service!Next, Service!Calls

\* A call returns when it has done what it is for.
LEMMA Achieves ==
    ASSUME OneClient, SInv, me.pc \in {"reply", "join"},
           me.pc = "join" => thread[Subject].died
    PROVE  \A t \in Threads: t = Subject =>
              /\ me.pc = "join" => ServicePhase(t) = "dead"
              /\ me.pc = "reply" =>
                    /\ me.request = "threadCreate" => ServicePhase(t) = "made" /\ Held(t)
                    /\ me.request = "threadPause" => Held(t) \/ ServicePhase(t) = "dead"
                    /\ me.request = "threadResume" => ~Held(t)
<1> SUFFICES ASSUME NEW t \in Threads, t = Subject
             PROVE  /\ me.pc = "join" => ServicePhase(t) = "dead"
                    /\ me.pc = "reply" =>
                          /\ me.request = "threadCreate" => ServicePhase(t) = "made" /\ Held(t)
                          /\ me.request = "threadPause" => Held(t) \/ ServicePhase(t) = "dead"
                          /\ me.request = "threadResume" => ~Held(t)
  OBVIOUS
<1>1. IsDead(t) => ServicePhase(t) = "dead"
  BY DEF IsDead, IsOver, ServicePhase
<1>2. CASE me.pc = "join"
  BY <1>1, <1>2, DiedIsDead
<1>3. CASE me.pc = "reply"
  <2>1. /\ me.request = "threadCreate" => IsHeld(t) /\ child[t].pc = "started"
        /\ me.request = "threadPause" => IsHeld(t) \/ IsDead(t)
        /\ me.request = "threadResume" => IsRunning(t) \/ Leaving(t)
    BY <1>3 DEF SInv, Served, AnsweredTruly, Answered
  <2>2. IsHeld(t) => Held(t)
    BY DEF IsHeld, Inside, Held
  <2>3. child[t].pc = "started" => ServicePhase(t) = "made"
    BY DEF ServicePhase
  <2>4. IsRunning(t) \/ Leaving(t) => ~Held(t)
    BY DEF IsRunning, Leaving, IsLetGo, IsAtLastStop, IsContinued, IsEnding, HasEnded, IsDead,
           IsOver, Held
  <2> QED
    BY <1>1, <1>3, <2>1, <2>2, <2>3, <2>4
<1> QED
  BY <1>2, <1>3

LEMMA ClientRefines ==
    ASSUME OneClient, SInv, Client(Main)
    PROVE  Service!Next \/ UNCHANGED Service!vars
<1>1. \A t \in Threads: Same(t)
  <2>1. thread' = thread /\ proc' = proc
    BY ClientLeaves
  <2>2. ASSUME NEW t \in Threads, C_threadNew(Main) PROVE Same(t)
    <3>1. \/ child'[t] = child[t]
          \/ child[t].pc = "free" /\ child'[t].pc = "qts"
      BY <2>2, Sent DEF C_threadNew, ChildRecord
    <3>2. CASE child'[t] = child[t]
      BY <2>1, <3>2, Unseen
    <3>3. CASE child[t].pc = "free" /\ child'[t].pc = "qts"
      <4>1. proc[t].state = "none" /\ ~thread[t].died
        BY <3>3, DiedIsDead DEF SInv, EInv, IInv, Tracking, Tracked, IsDead, IsOver
      <4> QED
        BY <2>1, <3>3, <4>1, Unmade DEF Made
    <3> QED
      BY <3>1, <3>2, <3>3
  <2>3. ~C_threadNew(Main) => child' = child
    BY DEF Client, C_Ask, sendRequest, C_Write, C_Spin, C_Answered, C_Created, C_Orphaned,
           C_threadJoin, C_Joined
  <2> QED
    BY <2>1, <2>2, <2>3, Unseen
<1>2. Phase' = Phase /\ Holding' = Holding
  BY <1>1, SamePhases
<1>3. me' = client'[Main]
  BY DEF me
<1>4. CASE C_threadNew(Main)
  <2>1. PICK t \in Threads, createSuspended \in BOOLEAN:
          /\ child[t].pc = "free" /\ me.pc = "idle"
          /\ Send(Main, "threadCreate", <<"QTS", t>>, createSuspended)
    BY <1>4 DEF C_threadNew, me
  <2>2. me'.pc = "request" /\ me'.request = "threadCreate" /\ me'.package = <<"QTS", t>>
    BY <2>1, Sent DEF Send, me, ClientRecord
  <2>3. Waiting' = <<"create", t>>
    BY <1>3, <2>2 DEF Waiting, ServiceCall, Sending
  <2> QED
    BY <1>1, <2>1, <2>3, Begins
<1>5. CASE C_Ask(Main)
  <2>1. PICK request \in Requests, t \in me.mine: Send(Main, request, <<"Thread", t>>, FALSE)
    BY <1>5 DEF C_Ask, me
  <2>2. /\ me.pc = "idle" /\ request \in {"threadPause", "threadResume"} /\ t \in Threads
        /\ me'.pc = "request" /\ me'.request = request /\ me'.package = <<"Thread", t>>
    BY <1>5, <2>1, Sent DEF C_Ask, Send, me, ClientRecord, OneClient
  <2>3. \/ Waiting' = <<"pause", t>>
        \/ Waiting' = <<"resume", t>>
    BY <1>3, <2>2 DEF Waiting, ServiceCall, Sending
  <2>4. child[t].pc \notin Made
    BY <2>1 DEF SInv, Served, Mine, Made
  <2> QED
    BY <1>1, <2>2, <2>3, <2>4, Begins
<1>6. CASE C_threadJoin(Main)
  <2>1. PICK t \in me.mine:
          client' = [client EXCEPT ![Main].pc = "join", ![Main].package = <<"Thread", t>>]
    BY <1>6 DEF C_threadJoin, me
  <2>2. me.pc = "idle" /\ t \in Threads /\ me'.pc = "join" /\ me'.package = <<"Thread", t>>
    BY <1>6, <2>1, Sent DEF C_threadJoin, me, ClientRecord
  <2>3. Waiting' = <<"join", t>>
    BY <1>3, <2>2 DEF Waiting, ServiceCall, Sending
  <2>4. child[t].pc \notin Made
    BY <2>1 DEF SInv, Served, Mine, Made
  <2> QED
    BY <1>1, <2>2, <2>3, <2>4, Begins
<1>7. CASE C_Answered(Main) \/ C_Joined(Main)
  <2>1. /\ me'.pc = "idle"
        /\ \/ me.pc = "reply" /\ me.request # "threadCreate"
           \/ me.pc = "join" /\ thread[Subject].died
    BY <1>7, Sent DEF C_Answered, C_Joined, me, ClientRecord, Subject
  <2>2. PICK t \in Threads: t = Subject
    BY <2>1, Sent DEF SInv, Served, Meaning, Subject, Sending
  <2>3. Waiting' = NULL
    BY <1>3, <2>1 DEF Waiting, ServiceCall, Sending
  <2>4. PICK op \in {"pause", "resume", "join"}:
          /\ Waiting = <<op, t>>
          /\ op = "pause" => Held(t) \/ ServicePhase(t) = "dead"
          /\ op = "resume" => ~Held(t)
          /\ op = "join" => ServicePhase(t) = "dead"
    <3>1. CASE me.pc = "join"
      BY <2>1, <2>2, <3>1, Achieves, WaitingFor
    <3>2. CASE me.pc = "reply"
      <4>1. me.request \in {"threadPause", "threadResume"}
        BY <2>1, <3>2 DEF SInv, Served, Meaning, Sending
      <4> QED
        BY <2>1, <2>2, <3>2, <4>1, Achieves, WaitingFor DEF Sending
    <3> QED
      BY <2>1, <3>1, <3>2
  <2>5. Service!Achieved(op, t)
    BY <2>4 DEF Service!Achieved, Held
  <2>6. Service!End(op, t)
    BY <1>2, <2>3, <2>4, <2>5 DEF Service!End, Phase, Holding, Waiting
  <2> QED
    BY <2>6 DEF Service!Next, Service!Calls
<1>8. CASE C_Created(Main)
  <2>1. me.pc = "reply" /\ me.request = "threadCreate"
    BY <1>8 DEF C_Created, me
  <2>2. PICK t \in Threads: t = Subject
    BY <2>1, Sent DEF Sending
  <2>3. Waiting = <<"create", t>> /\ ServicePhase(t) = "made" /\ Held(t)
    BY <2>1, <2>2, Achieves, WaitingFor DEF Sending
  <2>4. Service!Achieved("create", t)
    BY <2>3 DEF Service!Achieved, Held
  <2>5. /\ me'.pc \in {"idle", "request"}
        /\ me'.request = "threadResume" /\ me'.package = <<"Thread", t>>
    BY <1>8, <2>2, CreatedGoes
  <2>6. CASE me'.pc = "idle"
    <3>1. Waiting' = NULL
      BY <1>3, <2>6 DEF Waiting, ServiceCall, Sending
    <3>2. Service!End("create", t)
      BY <1>2, <2>3, <2>4, <3>1 DEF Service!End, Phase, Holding, Waiting
    <3> QED
      BY <3>2 DEF Service!Next, Service!Calls
  <2>7. CASE me'.pc = "request"
    <3>1. Waiting' = <<"resume", t>>
      BY <1>3, <2>5, <2>7 DEF Waiting, ServiceCall, Sending
    <3>2. Service!GoOn(t)
      BY <1>2, <2>3, <2>4, <3>1 DEF Service!GoOn, Phase, Holding, Waiting
    <3> QED
      BY <3>2 DEF Service!Next
  <2> QED
    BY <2>5, <2>6, <2>7
<1>9. CASE sendRequest(Main) /\ me.pc # "reply"
  <2>1. /\ me.pc \in Sending /\ me'.pc \in Sending
        /\ me'.request = me.request /\ me'.package = me.package
    BY <1>9, SendGoes
  <2>2. Waiting' = Waiting
    BY <1>3, <2>1 DEF Waiting, ServiceCall, me, Sending
  <2> QED
    BY <1>1, <2>2, Stutters
<1>10. ~C_Orphaned(Main)
  BY NotOrphaned
<1> QED
  BY <1>4, <1>5, <1>6, <1>7, <1>8, <1>9, <1>10
     DEF Client, sendRequest, C_Write, C_Spin, C_Answered, C_Created, me

-----------------------------------------------------------------------------
(* The manager's steps: a kill holds or releases, and the scan declares    *)
(* dead.                                                                   *)

LEMMA SignalRefines ==
    ASSUME OneClient, SInv, M_Signal
    PROVE  Service!Next \/ UNCHANGED Service!vars
<1>1. mgr.pc = "call" /\ Head(mgr.todo) \in Signals /\ mgr.todo # <<>>
  BY DEF M_Signal, Calling
<1>2. PICK t \in Threads: t = mgr.t
  BY <1>1, AtCall
<1>3. Works(t) /\ proc[t] \in Process
  BY <1>1, <1>2, AtCall
<1>4. /\ proc'[t] = Signalled(proc[t], Head(mgr.todo)) /\ thread' = thread /\ child' = child
      /\ Waiting' = Waiting
  BY <1>2, Sent DEF M_Signal, Waiting, ServiceCall
<1>5. \A u \in Threads: u # t => Same(u)
  <2>1. \A u \in Threads: u # t => proc'[u] = proc[u]
    BY <1>2, Sent DEF M_Signal
  <2> QED
    BY <1>4, <2>1, Unseen
<1>6. mgr.call = "request" => me.pc \in Sending /\ t = Subject
  <2>1. mgr.call = "request" => Taken
    BY <1>1 DEF Taken
  <2> QED
    BY <1>1, <1>2, <2>1, Sent DEF SInv, Served, Meaning
<1>7. ServicePhase(t)' = ServicePhase(t)
  BY <1>4 DEF ServicePhase
<1>8. Phase' = Phase
  BY <1>5, <1>7, StaysInPhase
<1>9. CASE IsDead(t)
  <2>1. Head(mgr.todo) \in {"SIGSTOP", "SIGCONT"}
    BY SignalServed
  <2>2. proc'[t] = proc[t]
    BY <1>3, <1>4, <1>9, <2>1, SignalledBy DEF IsDead, IsOver, Alive
  <2>3. Same(t)
    BY <1>4, <2>2, Unseen
  <2> QED
    BY <1>4, <1>5, <2>3, Stutters
<1>10. CASE mgr.call = "request" /\ me.request = "threadPause" /\ Pauses(t) /\ ~IsDead(t)
  <2>1. Head(mgr.todo) = "SIGSTOP" /\ IsRunning(t)
    BY <1>1, <1>10 DEF Pauses, Signals
  <2>2. Held(t)'
    <3>1. proc'[t].state = "stopped"
      BY <1>3, <1>4, <2>1, SignalledBy DEF IsRunning
    <3> QED
      BY <1>4, <2>1, <3>1 DEF Held, IsRunning, Inside
  <2>3. Holding' = [Holding EXCEPT ![t] = TRUE]
    BY <1>5, <2>2, BecomesHeld
  <2>4. Phase[t] \in {"made", "returned"}
    BY <2>1 DEF Phase, ServicePhase, IsRunning, Inside
  <2>5. Waiting = <<"pause", t>>
    BY <1>6, <1>10, WaitingFor
  <2>6. Service!Hold(t)
    BY <1>4, <1>8, <2>3, <2>4, <2>5 DEF Service!Hold, Phase, Holding, Waiting
  <2> QED
    BY <2>6 DEF Service!Next
<1>11. CASE mgr.call = "request" /\ me.request = "threadResume" /\ Resumes(t) /\ ~IsDead(t)
  <2>1. Head(mgr.todo) = "SIGCONT" /\ IsHeld(t)
    BY <1>1, <1>11 DEF Resumes, Signals
  <2>2. ~Held(t)'
    <3>1. proc'[t].state = "running"
      BY <1>3, <1>4, <2>1, SignalledBy DEF IsHeld
    <3> QED
      BY <3>1 DEF Held
  <2>3. Holding' = [Holding EXCEPT ![t] = FALSE]
    BY <1>5, <2>2, BecomesFree
  <2>4. Waiting = <<"resume", t>>
    BY <1>6, <1>11, WaitingFor
  <2>5. Service!Release(t)
    BY <1>4, <1>8, <2>3, <2>4 DEF Service!Release, Phase, Holding, Waiting
  <2> QED
    BY <2>5 DEF Service!Next
<1>12. CASE mgr.call = "join" /\ Joins(t)
  <2>1. IsAtLastStop(t)
    BY <1>1, <1>12 DEF Joins, Signals
  <2>2. Same(t)
    BY <1>4, <1>7, <2>1 DEF Same, Held, IsAtLastStop
  <2> QED
    BY <1>4, <1>5, <2>2, Stutters
<1>13. ~Creates(t) /\ ~Stops(t)
  BY <1>1 DEF Creates, Stops, Signals
<1> QED
  BY <1>3, <1>9, <1>10, <1>11, <1>12, <1>13 DEF Works, Serves

LEMMA DiedRefines ==
    ASSUME OneClient, SInv, M_Died
    PROVE  Service!Next
<1>1. mgr.pc = "died" /\ UNCHANGED <<child, proc>> /\ Waiting' = Waiting
  BY DEF M_Died, M_Goto, Waiting, ServiceCall
<1>2. PICK t \in Threads: t = mgr.t
  BY <1>1, Attended DEF Attends
<1>3. HasEnded(t) /\ t = Scanned
  BY <1>1, <1>2 DEF SInv, Served, AtWork
<1>4. thread'[t].died /\ \A u \in Threads: u # t => thread'[u] = thread[u]
  BY <1>3, Sent DEF M_Died, ThreadObject
<1>5. \A u \in Threads: u # t => Same(u)
  BY <1>1, <1>4, Unseen
<1>6. /\ ServicePhase(t) = "returned" /\ ServicePhase(t)' = "dead"
      /\ ~Held(t) /\ ~Held(t)'
  BY <1>1, <1>3, <1>4 DEF HasEnded, IsOver, ServicePhase, Held
<1>7. Phase[t] = "returned" /\ ~Holding[t]
  BY <1>6 DEF Phase, Holding, Held
<1>8. Phase' = [Phase EXCEPT ![t] = "dead"] /\ Holding' = Holding
  BY <1>5, <1>6, PhaseChanges, StaysHeldOrFree
<1>9. Service!Die(t)
  BY <1>1, <1>7, <1>8 DEF Service!Die, Phase, Holding, Waiting
<1> QED
  BY <1>9 DEF Service!Next

\* A thread that is cloned is not yet made; nothing else shows.
LEMMA ManagerRefines ==
    ASSUME OneClient, SInv, Manager
    PROVE  Service!Next \/ UNCHANGED Service!vars
<1>1. Waiting' = Waiting
  <2>1. client' = client
    BY DEF Manager, handleRequest, M_NextPass, M_Exit, M_SelfRequest, M_PickUp, M_NoRequest,
       M_Skip, M_NotKillable, M_CleanUp, M_Signal, M_WaitFails, M_WaitExited, M_WaitStopped,
       M_WaitContinued, M_Return, M_Died, M_Erase, M_Write, M_Dispatch, M_AssertPackage,
       M_threadNew, M_CloneFails, M_ClearPackage, M_Switch, M_Serve, M_Confused, M_Dies
  <2> QED
    BY <2>1 DEF Waiting, ServiceCall
<1>2. CASE M_threadNew
  <2>1. mgr.pc \in Accepting /\ REQUEST.request = "threadCreate"
    BY <1>2, Accepted DEF M_threadNew, Accepting
  <2>2. PICK t \in Threads: t = Subject /\ REQUEST.package = <<"QTS", t>>
    BY <2>1, Accepted
  <2>3. child[t].pc = "qts"
    BY <2>1, <2>2, Accepted DEF SInv, Served, AskedInTime
  <2>4. thread'[t] = NewThread /\ child'[t].pc = "start" /\ proc'[t] = Cloned
    BY <1>2, <2>2, Sent DEF M_threadNew, ChildRecord
  <2>5. \A u \in Threads: u # t => Same(u)
    <3>1. \A u \in Threads: u # t =>
              thread'[u] = thread[u] /\ child'[u] = child[u] /\ proc'[u] = proc[u]
      BY <1>2, <2>2, Sent DEF M_threadNew
    <3> QED
      BY <3>1, Unseen
  <2>6. proc[t].state = "none" /\ proc'[t].state = "running" /\ ~thread[t].died /\ ~thread'[t].died
    BY <2>3, <2>4, DiedIsDead DEF SInv, EInv, IInv, Tracking, Tracked, IsDead, IsOver, Cloned,
       NoProcess, NewThread
  <2>7. Same(t)
    BY <2>3, <2>4, <2>6, Unmade DEF Made
  <2> QED
    BY <1>1, <2>5, <2>7, Stutters
<1>3. CASE M_WaitExited \/ M_WaitStopped \/ M_WaitContinued
  <2>1. mgr.pc = "call" /\ child' = child
    BY <1>3 DEF M_WaitExited, M_WaitStopped, M_WaitContinued, Calling
  <2>2. PICK t \in Threads: t = mgr.t
    BY <2>1, AtCall
  <2>3. \A u \in Threads: u # t => thread'[u] = thread[u] /\ proc'[u] = proc[u]
    BY <1>3, <2>2, Sent DEF M_WaitExited, M_WaitStopped, M_WaitContinued
  <2>4. thread'[t].died = thread[t].died
    BY <1>3, <2>2, Sent DEF M_WaitExited, M_WaitStopped, M_WaitContinued, ThreadObject
  <2>5. /\ proc'[t].state = "stopped" <=> proc[t].state = "stopped"
    <3>1. \/ proc'[t] = [proc[t] EXCEPT !.state = "reaped"] /\ proc[t].state = "zombie"
          \/ proc'[t] = [proc[t] EXCEPT !.stopEvent = FALSE]
          \/ proc'[t] = [proc[t] EXCEPT !.contEvent = FALSE]
      BY <1>3, <2>2, Sent DEF M_WaitExited, M_WaitStopped, M_WaitContinued, Reaped, ReportsExit,
         StopReported, ContinueReported
    <3> QED
      BY <3>1, Sent DEF Process
  <2>6. Same(t)
    BY <2>1, <2>4, <2>5 DEF Same, ServicePhase, Held
  <2> QED
    BY <1>1, <2>1, <2>3, <2>6, Unseen, Stutters
<1>4. CASE M_CleanUp \/ M_Erase
  <2>1. /\ UNCHANGED <<child, proc>>
        /\ \A t \in Threads: thread'[t].died = thread[t].died
    BY <1>4, Sent DEF M_CleanUp, M_Erase, ThreadObject
  <2> QED
    BY <1>1, <2>1, Unseen, Stutters
<1>5. CASE /\ Manager /\ ~M_threadNew /\ ~M_WaitExited /\ ~M_WaitStopped /\ ~M_WaitContinued
           /\ ~M_CleanUp /\ ~M_Erase /\ ~M_Signal /\ ~M_Died
  <2>1. UNCHANGED <<thread, child>> /\ (proc' = proc \/ \E p: proc' = [proc EXCEPT ![Mgr] = p])
    BY <1>5 DEF Manager, handleRequest, M_NextPass, M_Exit, M_SelfRequest, M_PickUp, M_NoRequest,
       M_Skip, M_NotKillable, M_WaitFails, M_Return, M_Write, M_Dispatch, M_AssertPackage,
       M_CloneFails, M_ClearPackage, M_Switch, M_Serve, M_Confused, M_Dies
  <2>2. \A t \in Threads: proc'[t] = proc[t]
    BY <2>1, Sent, MgrAssumption
  <2> QED
    BY <1>1, <2>1, <2>2, Unseen, Stutters
<1> QED
  BY <1>2, <1>3, <1>4, <1>5, SignalRefines, DiedRefines

-----------------------------------------------------------------------------
LEMMA InitRefines == ASSUME OneClient, Init PROVE Service!Init
<1>1. Phase = [t \in Threads |-> "absent"]
  BY DEF Init, Phase, ServicePhase
<1>2. Holding = [t \in Threads |-> FALSE]
  BY MgrAssumption DEF Init, Holding, NoProcess
<1>3. Waiting = NULL
  BY MainAssumption DEF Init, Waiting, ServiceCall, Sending
<1> QED
  BY <1>1, <1>2, <1>3 DEF Service!Init, Phase, Holding, Waiting

LEMMA NextRefines ==
    ASSUME OneClient, SInv, [Next]_vars
    PROVE  [Service!Next]_(Service!vars)
<1>1. CASE \E t \in Threads: Suspended(t)
  BY <1>1, SuspendedRefines DEF Service!Next
<1>2. CASE \E c \in Clients: Client(c)
  BY <1>2, ClientRefines DEF OneClient
<1>3. CASE C_Exit \/ C_ExitJoin \/ C_Exited
  <2>1. /\ me.pc \in {"idle", "exit", "exitWait"} /\ me'.pc \in Exiting
        /\ UNCHANGED <<thread, child>> /\ \A t \in Threads: proc'[t] = proc[t]
    BY <1>3, Sent, MgrAssumption DEF C_Exit, C_ExitJoin, C_Exited, Exiting, me, ClientRecord, shared
  <2>2. Waiting = NULL /\ Waiting' = NULL
    BY <2>1 DEF Waiting, ServiceCall, me, Sending, Exiting
  <2> QED
    BY <2>1, <2>2, Unseen, Stutters
<1>4. CASE Manager
  BY <1>4, ManagerRefines
<1>5. CASE UNCHANGED vars
  <2>1. Waiting' = Waiting /\ \A t \in Threads: Same(t)
    BY <1>5 DEF vars, Waiting, ServiceCall, Same, ServicePhase, Held
  <2> QED
    BY <2>1, Stutters
<1> QED
  BY <1>1, <1>2, <1>3, <1>4, <1>5 DEF Next

\* For one client that looks before it asks, libthread implements the service
\* that does each thing at once: no thread is made, held, released or declared
\* dead but as the service would, and no call returns before it is done.
THEOREM ImplementsServiceCorrect == OneClient => (Spec => ImplementsService)
<1> SUFFICES ASSUME OneClient PROVE Spec => ImplementsService
  OBVIOUS
<1>1. Init => Service!Init
  BY InitRefines
<1>2. SInv /\ [Next]_vars => [Service!Next]_(Service!vars)
  BY NextRefines
<1>3. Spec => []SInv
  BY ServedAlways
<1> QED
  BY <1>1, <1>2, <1>3, PTL DEF Spec, ImplementsService, Service!Spec
=============================================================================
