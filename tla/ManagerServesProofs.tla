------------------------ MODULE ManagerServesProofs -------------------------
(***************************************************************************)
(* Proof that libthread serves one careful client as it should: it serves  *)
(* what was asked, its answers and the status of its threads are true, it  *)
(* never waits in vain, and a thread that has died has ended.  For any     *)
(* number of threads, any results of their functions, and clone failing or *)
(* not.                                                                    *)
(*                                                                         *)
(* A thread that nobody attends to rests: it is new, held, running or dead *)
(* and everything written about it agrees.  The manager attends to at most *)
(* one, and where it is in its operation says how far that one has come.   *)
(***************************************************************************)
EXTENDS ManagerEndsProofs

\* The program is one process, which looks before it asks; its functions
\* return.
OneClient ==
    /\ Clients = {Main}
    /\ Careful
    /\ Requests \subseteq {"threadPause", "threadResume"}
    /\ "crash" \notin Faults

me == client[Main]

Subject == me.package[2]

-----------------------------------------------------------------------------
(* How far a thread is.                                                    *)

IsNew(t) ==
    /\ child[t].pc \in {"free", "qts"}
    /\ ~thread[t].died /\ thread[t].status = "UNDEFINED"

\* From its clone to its first stop.
IsStarting(t) ==
    /\ ~thread[t].died /\ ~thread[t].killable /\ ~proc[t].contEvent
    /\ \/ /\ child[t].pc = "start" /\ thread[t].status = "UNDEFINED"
          /\ proc[t].state = "running" /\ ~proc[t].stopEvent
       \/ /\ child[t].pc = "stop" /\ thread[t].status = "STOPPED"
          /\ proc[t].state = "running" /\ ~proc[t].stopEvent
       \/ /\ child[t].pc = "started" /\ thread[t].status = "STOPPED"
          /\ proc[t].state = "stopped" /\ proc[t].stopEvent

\* From its first stop until the manager lets it go.
Inside(t) ==
    /\ child[t].pc \in {"started", "main", "returned", "killable"}
    /\ ~thread[t].died
    /\ thread[t].killable <=> child[t].pc = "killable"

IsHeld(t) ==
    /\ Inside(t)
    /\ thread[t].status = "STOPPED"
    /\ proc[t].state = "stopped" /\ ~proc[t].stopEvent /\ ~proc[t].contEvent

IsStopping(t) ==
    /\ Inside(t)
    /\ proc[t].state = "stopped" /\ proc[t].stopEvent /\ ~proc[t].contEvent

IsResuming(t) ==
    /\ Inside(t)
    /\ proc[t].state = "running" /\ ~proc[t].stopEvent /\ proc[t].contEvent

IsRunning(t) ==
    /\ Inside(t)
    /\ thread[t].status = "RUNNING"
    /\ proc[t].state = "running" /\ ~proc[t].stopEvent /\ ~proc[t].contEvent

\* Let go by the clean-up, until it has stopped once more.
IsLetGo(t) ==
    /\ ~thread[t].died /\ ~thread[t].killable /\ ~proc[t].contEvent
    /\ \/ /\ child[t].pc \in {"killable", "ending"} /\ thread[t].status = "RUNNING"
          /\ proc[t].state = "running" /\ ~proc[t].stopEvent
       \/ /\ child[t].pc = "endStop" /\ thread[t].status = "STOPPED"
          /\ proc[t].state = "running" /\ ~proc[t].stopEvent
       \/ /\ child[t].pc = "ended" /\ thread[t].status = "STOPPED"
          /\ proc[t].state = "stopped" /\ proc[t].stopEvent

IsAtLastStop(t) ==
    /\ ~thread[t].died
    /\ child[t].pc = "ended" /\ thread[t].status = "STOPPED"
    /\ proc[t].state = "stopped" /\ ~proc[t].stopEvent /\ ~proc[t].contEvent

\* Continued from that stop; whether a waitid reports it is a race.
IsContinued(t) ==
    /\ ~thread[t].died /\ ~proc[t].stopEvent
    /\ \/ /\ child[t].pc = "ended" /\ thread[t].status = "STOPPED"
          /\ proc[t].state = "running" /\ proc[t].contEvent
       \/ /\ child[t].pc = "return" /\ thread[t].status = "RUNNING"
          /\ proc[t].state = "running" /\ proc[t].contEvent
       \/ /\ child[t].pc = "over" /\ thread[t].status = "RUNNING"
          /\ proc[t].state = "zombie"

IsEnding(t) ==
    /\ ~thread[t].died /\ ~proc[t].stopEvent /\ ~proc[t].contEvent
    /\ thread[t].status = "RUNNING"
    /\ \/ child[t].pc \in {"ended", "return"} /\ proc[t].state = "running"
       \/ child[t].pc = "over" /\ proc[t].state = "zombie"

IsOver(t) ==
    /\ child[t].pc = "over"
    /\ \/ proc[t].state = "zombie" /\ thread[t].status = "RUNNING"
       \/ proc[t].state = "reaped" /\ thread[t].status = "EXITED"

HasEnded(t) == IsOver(t) /\ ~thread[t].died

IsDead(t) == IsOver(t) /\ thread[t].died

Rests(t) == IsNew(t) \/ IsHeld(t) \/ IsRunning(t) \/ IsDead(t)

\* On its way out, or gone.
Leaving(t) == \/ IsLetGo(t) \/ IsAtLastStop(t) \/ IsContinued(t)
              \/ IsEnding(t) \/ HasEnded(t) \/ IsDead(t)

-----------------------------------------------------------------------------
(* What the client and the manager are at.                                 *)

Awaiting == {"uploadNotComplete", "processingNotComplete", "spinUpload", "spinProcessing"}

Accepting == {"uploadNotComplete", "dispatch", "switch", "package"}

\* executionManager_Terminate has set close.
Exiting == {"exit", "exitWait", "crashed", "done"}

\* The manager has picked a request up, and has not yet told that it is done.
Taken ==
    \/ mgr.pc \in Accepting \cup {"upload", "clearPackage", "answered", "processing",
                                  "processingNotComplete", "aborted"}
    \/ mgr.pc = "call" /\ mgr.call = "request"

\* Asked for, and nothing done yet.
Asked ==
    \/ me.pc \in {"request", "package", "upload"}
    \/ me.pc \in Awaiting /\ (REQUEST.upload \/ mgr.pc \in Accepting)

\* Done, and the client perhaps not told.
Answered ==
    \/ me.pc = "reply"
    \/ /\ me.pc \in Awaiting
       /\ ~REQUEST.upload
       /\ ~Taken \/ mgr.pc \in {"answered", "processing", "processingNotComplete"}

Exchange ==
    /\ Taken => me.pc \in Awaiting
    /\ mgr.pc \in {"exited", "selfRequest"} \/ close => me.pc \in Exiting
    /\ mgr.pc # "undefined"
    /\ mgr.pc # "selfRequest" =>
          /\ REQUEST.processing <=> Taken /\ mgr.pc # "processingNotComplete"
          /\ REQUEST.upload => me.pc \in Awaiting /\ (Taken => mgr.pc = "upload")
    /\ mgr.pc = "upload" => REQUEST.upload
    /\ me.pc \in {"spinUpload", "spinProcessing"} /\ (REQUEST.upload \/ Taken) =>
          REQUEST.processingNotComplete

\* What is in the mailbox is what the client means.
Meaning ==
    /\ me.pc \in Sending =>
          \/ me.request = "threadCreate" /\ me.package \in {"QTS"} \X Threads
          \/ me.request \in {"threadPause", "threadResume"} /\ me.package \in {"Thread"} \X Threads
    /\ me.pc = "join" => me.package \in {"Thread"} \X Threads
    /\ me.pc \in {"package", "upload"} => REQUEST.request = me.request
    /\ me.pc = "upload" => REQUEST.package = me.package
    /\ me.pc \in Awaiting /\ Asked =>
          REQUEST.request = me.request /\ REQUEST.package = me.package
    /\ mgr.pc = "clearPackage" => me.request = "threadCreate" /\ REQUEST.reply = Subject
    /\ mgr.pc = "clearPackage" \/ (mgr.pc = "call" /\ mgr.call = "request") =>
          REQUEST.request = me.request
    /\ mgr.pc = "call" /\ mgr.call = "request" => mgr.t = Subject
    /\ mgr.pc = "package" => mgr.request = me.request

Mine == \A t \in me.mine: child[t].pc \notin {"free", "qts", "start", "stop"}

AskedInTime ==
    Asked => LET t == Subject
             IN  /\ me.request = "threadCreate" => child[t].pc = "qts"
                 /\ me.request = "threadPause" => IsRunning(t) \/ Leaving(t)
                 /\ me.request = "threadResume" => IsHeld(t) \/ Leaving(t)

AnsweredTruly ==
    Answered => LET t == Subject
                IN  /\ me.request = "threadCreate" =>
                          REQUEST.reply = t /\ IsHeld(t) /\ child[t].pc = "started"
                    /\ me.request = "threadPause" => IsHeld(t) \/ IsDead(t)
                    /\ me.request = "threadResume" => IsRunning(t) \/ Leaving(t)

\* The thread the manager attends to, if there is one.
Attends(t) == \/ mgr.pc = "clearPackage" /\ t = REQUEST.reply
              \/ mgr.pc \in {"call", "died"} /\ t = mgr.t

OthersRest == \A t \in Threads: ~Attends(t) => Rests(t)

Creates(t) ==
    \/ mgr.todo = <<"STOP">> /\ IsStarting(t)
    \/ mgr.todo = <<>> /\ IsHeld(t) /\ child[t].pc = "started"

Pauses(t) ==
    \/ mgr.todo = <<"SIGSTOP", "STOP">> /\ (IsRunning(t) \/ IsDead(t))
    \/ mgr.todo = <<"STOP">> /\ (IsStopping(t) \/ IsDead(t))
    \/ mgr.todo = <<>> /\ (IsHeld(t) \/ IsDead(t))

Resumes(t) ==
    \/ mgr.todo = <<"SIGCONT", "CONTINUE">> /\ (IsHeld(t) \/ IsDead(t))
    \/ mgr.todo = <<"CONTINUE">> /\ (IsResuming(t) \/ IsDead(t))
    \/ mgr.todo = <<>> /\ (IsRunning(t) \/ IsDead(t))

Serves(t) ==
    \/ me.request = "threadCreate" /\ REQUEST.reply = t /\ Creates(t)
    \/ me.request = "threadPause" /\ Pauses(t)
    \/ me.request = "threadResume" /\ Resumes(t)

Stops(t) ==
    \/ mgr.todo = <<"STOP">> /\ IsLetGo(t)
    \/ mgr.todo = <<>> /\ IsAtLastStop(t)

Joins(t) ==
    \/ mgr.todo = <<"SIGCONT", "CONTINUE", "JOIN">> /\ IsAtLastStop(t)
    \/ mgr.todo = <<"CONTINUE", "JOIN">> /\ IsContinued(t)
    \/ mgr.todo = <<"JOIN">> /\ IsEnding(t)
    \/ mgr.todo = <<>> /\ HasEnded(t)

AtWork ==
    /\ mgr.pc = "clearPackage" => IsStarting(REQUEST.reply)
    /\ mgr.pc = "call" => CASE mgr.call = "request" -> Serves(mgr.t)
                            [] mgr.call = "stop" -> Stops(mgr.t)
                            [] mgr.call = "join" -> Joins(mgr.t)
    /\ mgr.pc = "died" => HasEnded(mgr.t) /\ mgr.t = Scanned

\* Nobody kills.
NoneKilled == \A t \in Threads: proc[t].end # "killed"

Served == /\ Exchange /\ Meaning /\ Mine /\ AskedInTime /\ AnsweredTruly
          /\ OthersRest /\ AtWork

SInv == EInv /\ Served /\ NoneKilled

-----------------------------------------------------------------------------
(***************************************************************************)
(* What a step does to one thread.  Every step keeps a thread as far as it *)
(* is, or is one of the manager on the thread it attends to.               *)
(***************************************************************************)
Keeps(t) ==
    /\ IsNew(t) => IsNew(t)' /\ (child[t].pc = "qts" => child'[t].pc = "qts")
    /\ IsStarting(t) => IsStarting(t)'
    /\ IsHeld(t) => IsHeld(t)' /\ child'[t].pc = child[t].pc
    /\ IsStopping(t) => IsStopping(t)'
    /\ IsResuming(t) => IsResuming(t)'
    /\ IsRunning(t) => IsRunning(t)'
    /\ IsLetGo(t) => IsLetGo(t)'
    /\ IsAtLastStop(t) => IsAtLastStop(t)'
    /\ IsContinued(t) => IsContinued(t)'
    /\ IsEnding(t) => IsEnding(t)'
    /\ HasEnded(t) => HasEnded(t)'
    /\ IsDead(t) => IsDead(t)'

\* What a client that has asked, or been answered, relies on.
Lasts(t) ==
    /\ child[t].pc = "qts" => child'[t].pc = "qts"
    /\ IsHeld(t) => IsHeld(t)' /\ child'[t].pc = child[t].pc
    /\ IsRunning(t) => IsRunning(t)' \/ Leaving(t)'
    /\ Leaving(t) => Leaving(t)'
    /\ IsDead(t) => IsDead(t)'

\* The signals the manager sends for a careful client, and what they do.
LEMMA SignalledBy ==
    ASSUME NEW p \in Process
    PROVE  /\ p.state = "running" =>
                 LET q == Signalled(p, "SIGSTOP")
                 IN  q.state = "stopped" /\ q.stopEvent /\ ~q.contEvent
           /\ p.state = "stopped" =>
                 LET q == Signalled(p, "SIGCONT")
                 IN  q.state = "running" /\ ~q.stopEvent /\ q.contEvent
           /\ ~Alive(p) => Signalled(p, "SIGSTOP") = p /\ Signalled(p, "SIGCONT") = p
<1>1. CASE p.state = "running"
  <2>1. Signalled(p, "SIGSTOP") =
            [p EXCEPT !.state = "stopped", !.stopEvent = TRUE, !.contEvent = FALSE]
    BY <1>1 DEF Signalled
  <2> QED
    BY <1>1, <2>1 DEF Process, Alive
<1>2. CASE p.state = "stopped"
  <2>1. Signalled(p, "SIGCONT") =
            [p EXCEPT !.state = "running", !.stopEvent = FALSE, !.contEvent = TRUE]
    BY <1>2 DEF Signalled
  <2> QED
    BY <1>2, <2>1 DEF Process, Alive
<1>3. CASE ~Alive(p)
  BY <1>3 DEF Signalled, Alive
<1> QED
  BY <1>1, <1>2, <1>3 DEF Alive

LEMMA UnmovedKeeps ==
    ASSUME NEW t \in Threads, proc'[t] = proc[t],
           thread'[t].died = thread[t].died, thread'[t].killable = thread[t].killable,
           thread'[t].status = thread[t].status,
           child'[t].pc = child[t].pc \/ (child[t].pc = "free" /\ child'[t].pc = "qts")
    PROVE  Keeps(t) /\ Lasts(t)
<1> USE DEF IsNew, IsStarting, Inside, IsHeld, IsStopping, IsResuming, IsRunning,
            IsLetGo, IsAtLastStop, IsContinued, IsEnding, IsOver, HasEnded, IsDead
<1>1. Keeps(t)
  BY DEF Keeps
<1>2. Lasts(t)
  BY DEF Lasts, Leaving
<1> QED
  BY <1>1, <1>2

LEMMA SuspendedKeeps ==
    ASSUME OneClient, EInv, NEW t \in Threads, Suspended(t)
    PROVE  /\ Keeps(t) /\ Lasts(t)
           /\ child'[t].pc \notin {"free", "qts", "start"}
<1>1. /\ thread \in [Threads -> ThreadObject] /\ thread[t] \in ThreadObject
      /\ proc \in [Threads \cup {Mgr} -> Process] /\ proc[t] \in Process
      /\ child \in [Threads -> ChildRecord] /\ child[t] \in ChildRecord
      /\ child[t].pc \in {"free", "qts"} <=> proc[t].state = "none"
  BY DEF EInv, IInv, TypeInv, TypeOK, Tracking, Tracked
<1>2. /\ proc[t].state = "running" /\ child[t].pc \notin {"free", "qts"}
      /\ ~IsNew(t) /\ ~IsHeld(t) /\ ~IsStopping(t) /\ ~IsAtLastStop(t) /\ ~HasEnded(t)
      /\ ~IsDead(t)
  BY <1>1 DEF Suspended, T_Start, T_StopItself, T_Resumed, T_Main, T_Crash, T_Killable,
       T_Killed, T_Ending, T_Return, T_Step, Runs, IsNew, IsHeld, IsStopping, IsAtLastStop,
       HasEnded, IsOver, IsDead
<1> DEFINE Kept == /\ IsStarting(t) => IsStarting(t)'
                   /\ IsResuming(t) => IsResuming(t)'
                   /\ IsRunning(t) => IsRunning(t)'
                   /\ IsLetGo(t) => IsLetGo(t)'
                   /\ IsContinued(t) => IsContinued(t)'
                   /\ IsEnding(t) => IsEnding(t)'
                   /\ child'[t].pc \notin {"free", "qts", "start"}
<1> SUFFICES Kept
  BY <1>2 DEF Keeps, Lasts, Leaving
<1> USE DEF IsStarting, Inside, IsResuming, IsRunning, IsLetGo, IsContinued, IsEnding
<1>3. CASE T_Start(t)
  <2>1. /\ proc'[t] = proc[t] /\ child'[t].pc = "stop" /\ child[t].pc = "start"
        /\ ~thread'[t].died /\ ~thread'[t].killable /\ thread'[t].status = "STOPPED"
    BY <1>1, <1>3 DEF T_Start, T_Step, ThreadObject, ChildRecord
  <2> QED
    BY <1>2, <2>1
<1>4. CASE T_StopItself(t, "stop", "started") \/ T_StopItself(t, "endStop", "ended")
  <2>1. /\ thread' = thread
        /\ \/ child[t].pc = "stop" /\ child'[t].pc = "started"
           \/ child[t].pc = "endStop" /\ child'[t].pc = "ended"
    BY <1>1, <1>4 DEF T_StopItself, T_Step, ChildRecord
  <2>2. proc'[t].state = "stopped" /\ proc'[t].stopEvent /\ ~proc'[t].contEvent
    <3>1. proc'[t] = Signalled(proc[t], "SIGSTOP")
      BY <1>1, <1>4 DEF T_StopItself
    <3> QED
      BY <1>1, <1>2, <3>1, SignalledBy
  <2> QED
    BY <1>2, <2>1, <2>2
<1>5. CASE T_Resumed(t, "started", "main") \/ T_Resumed(t, "ended", "return")
  <2>1. /\ proc' = proc /\ thread'[t].status = "RUNNING" /\ thread'[t].died = thread[t].died
        /\ thread'[t].killable = thread[t].killable
        /\ \/ child[t].pc = "started" /\ child'[t].pc = "main"
           \/ child[t].pc = "ended" /\ child'[t].pc = "return"
    BY <1>1, <1>5 DEF T_Resumed, T_Step, ThreadObject, ChildRecord
  <2> QED
    BY <1>2, <2>1
<1>6. CASE T_Main(t)
  <2>1. proc' = proc /\ thread' = thread /\ child[t].pc = "main" /\ child'[t].pc = "returned"
    BY <1>1, <1>6 DEF T_Main
  <2> QED
    BY <2>1
<1>7. ~T_Crash(t)
  BY DEF OneClient, T_Crash
<1>8. CASE T_Killable(t)
  <2>1. /\ proc' = proc /\ thread'[t].killable
        /\ thread'[t].died = thread[t].died /\ thread'[t].status = thread[t].status
        /\ child[t].pc = "returned" /\ child'[t].pc = "killable"
    BY <1>1, <1>8 DEF T_Killable, T_Step, ThreadObject, ChildRecord
  <2> QED
    BY <2>1
<1>9. CASE T_Killed(t)
  <2>1. /\ proc' = proc /\ thread' = thread /\ ~thread[t].killable
        /\ child[t].pc = "killable" /\ child'[t].pc = "ending"
    BY <1>1, <1>9 DEF T_Killed, T_Step, ChildRecord
  <2> QED
    BY <2>1
<1>10. CASE T_Ending(t)
  <2>1. /\ proc' = proc /\ thread'[t].status = "STOPPED" /\ thread'[t].died = thread[t].died
        /\ thread'[t].killable = thread[t].killable
        /\ child[t].pc = "ending" /\ child'[t].pc = "endStop"
    BY <1>1, <1>10 DEF T_Ending, T_Step, ThreadObject, ChildRecord
  <2> QED
    BY <2>1
<1>11. CASE T_Return(t)
  <2>1. thread' = thread /\ child[t].pc = "return" /\ child'[t].pc = "over"
    BY <1>1, <1>11 DEF T_Return, T_Step, ChildRecord
  <2>2. proc'[t].state = "zombie" /\ ~proc'[t].stopEvent /\ ~proc'[t].contEvent
    BY <1>1, <1>11 DEF T_Return, Exited, Zombie
  <2> QED
    BY <2>1, <2>2
<1> QED
  BY <1>3, <1>4, <1>5, <1>6, <1>7, <1>8, <1>9, <1>10, <1>11 DEF Suspended

-----------------------------------------------------------------------------
(* The parts of the invariant, from what a step leaves as it is.           *)

LEMMA Sent ==
    ASSUME OneClient, SInv
    PROVE  /\ Main \in Clients
           /\ client \in [Clients -> ClientRecord] /\ me \in ClientRecord
           /\ REQUEST \in Mailbox
           /\ mgr \in ManagerRecord
           /\ child \in [Threads -> ChildRecord]
           /\ thread \in [Threads -> ThreadObject]
           /\ proc \in [Threads \cup {Mgr} -> Process]
           /\ me.pc \in Sending => Subject \in Threads
           /\ Taken \/ Asked \/ Answered => me.pc \in Sending
<1>1. client \in [Clients -> ClientRecord] /\ me \in ClientRecord
  BY MainAssumption DEF SInv, Served, EInv, IInv, TypeInv, TypeOK, me
<1>2. me.pc \in Sending => Subject \in Threads
  BY DEF SInv, Served, Meaning, Subject
<1>3. Taken \/ Asked \/ Answered => me.pc \in Sending
  BY DEF SInv, Served, Exchange, Asked, Answered, Awaiting, Sending
<1> QED
  BY <1>1, <1>2, <1>3, MainAssumption DEF SInv, Served, EInv, IInv, TypeInv, TypeOK

LEMMA Attended ==
    ASSUME OneClient, SInv, NEW t, Attends(t)
    PROVE  t \in Threads
<1>1. CASE mgr.pc = "clearPackage"
  <2>1. Taken /\ REQUEST.reply = Subject
    BY <1>1 DEF Taken, SInv, Served, Meaning
  <2> QED
    BY <1>1, <2>1, Sent DEF Attends
<1>2. CASE mgr.pc = "call" /\ mgr.call = "request"
  <2>1. Taken /\ mgr.t = Subject
    BY <1>2 DEF Taken, SInv, Served, Meaning
  <2> QED
    BY <1>2, <2>1, Sent DEF Attends
<1>3. CASE mgr.pc = "died" \/ (mgr.pc = "call" /\ mgr.call # "request")
  BY <1>3, CleansThread DEF Attends, SInv, Served, EInv, Awaited, AtWork
<1> QED
  BY <1>1, <1>2, <1>3 DEF Attends

LEMMA AskedStays ==
    ASSUME OneClient, SInv,
           Asked' => /\ Asked /\ Lasts(Subject)
                     /\ me'.request = me.request /\ me'.package = me.package
    PROVE  AskedInTime'
<1>1. AskedInTime
  BY DEF SInv, Served
<1>2. Asked' => Subject' = Subject
  BY DEF Subject
<1> QED
  BY <1>1, <1>2 DEF AskedInTime, Lasts

LEMMA AnsweredStays ==
    ASSUME OneClient, SInv,
           Answered' => /\ Answered /\ Lasts(Subject)
                        /\ me'.request = me.request /\ me'.package = me.package
                        /\ REQUEST'.reply = REQUEST.reply
    PROVE  AnsweredTruly'
<1>1. AnsweredTruly
  BY DEF SInv, Served
<1>2. Answered' => Subject' = Subject
  BY DEF Subject
<1> QED
  BY <1>1, <1>2 DEF AnsweredTruly, Lasts

LEMMA WorkStays ==
    ASSUME OneClient, SInv, UNCHANGED <<mgr, QTS_VECTOR>>, REQUEST'.reply = REQUEST.reply,
           mgr.pc = "call" /\ mgr.call = "request" => me'.request = me.request,
           \A t \in Threads: Keeps(t)
    PROVE  OthersRest' /\ AtWork'
<1>1. \A t: Attends(t)' <=> Attends(t)
  BY DEF Attends
<1>2. OthersRest'
  BY <1>1 DEF SInv, Served, OthersRest, Rests, Keeps
<1>3. CASE mgr.pc \in {"call", "died"}
  <2>1. Keeps(mgr.t)
    BY <1>3, Attended DEF Attends
  <2>2. Creates(mgr.t) => Creates(mgr.t)'
    BY <2>1 DEF Creates, Keeps
  <2>3. Pauses(mgr.t) => Pauses(mgr.t)'
    BY <2>1 DEF Pauses, Keeps
  <2>4. Resumes(mgr.t) => Resumes(mgr.t)'
    BY <2>1 DEF Resumes, Keeps
  <2>5. mgr.call = "request" /\ Serves(mgr.t) /\ mgr.pc = "call" => Serves(mgr.t)'
    BY <2>2, <2>3, <2>4 DEF Serves
  <2>6. Stops(mgr.t) => Stops(mgr.t)'
    BY <2>1 DEF Stops, Keeps
  <2>7. Joins(mgr.t) => Joins(mgr.t)'
    BY <2>1 DEF Joins, Keeps
  <2>8. Scanned' = Scanned
    BY DEF Scanned
  <2>9. HasEnded(mgr.t) => HasEnded(mgr.t)'
    BY <2>1 DEF Keeps
  <2>10. mgr.call \in {"request", "stop", "join"}
    BY Sent DEF ManagerRecord
  <2>11. AtWork
    BY DEF SInv, Served
  <2>12. mgr.pc = "call" =>
             CASE mgr.call = "request" -> Serves(mgr.t)'
               [] mgr.call = "stop" -> Stops(mgr.t)'
               [] mgr.call = "join" -> Joins(mgr.t)'
    BY <2>5, <2>6, <2>7, <2>10, <2>11 DEF AtWork
  <2>13. mgr.pc = "died" => HasEnded(mgr.t)' /\ mgr.t = Scanned
    BY <2>9, <2>11 DEF AtWork
  <2> QED
    BY <1>2, <1>3, <2>8, <2>12, <2>13 DEF AtWork
<1>4. CASE mgr.pc = "clearPackage"
  <2>1. Keeps(REQUEST.reply)
    BY <1>4, Attended DEF Attends
  <2> QED
    BY <1>2, <1>4, <2>1 DEF AtWork, SInv, Served, Keeps
<1>5. CASE mgr.pc \notin {"call", "died", "clearPackage"}
  BY <1>2, <1>5 DEF AtWork
<1> QED
  BY <1>3, <1>4, <1>5

-----------------------------------------------------------------------------
(* The actions.                                                            *)

LEMMA SuspendedServed ==
    ASSUME OneClient, SInv, NEW t \in Threads, Suspended(t)
    PROVE  Served'
<1>1. UNCHANGED <<shared, mgr, client>>
  BY DEF Suspended, T_Start, T_StopItself, T_Resumed, T_Main, T_Crash, T_Killable,
         T_Killed, T_Ending, T_Return
<1>2. UNCHANGED <<REQUEST, QTS_VECTOR, close, me>>
  BY <1>1 DEF shared, me
<1>3. \A u \in Threads: Keeps(u) /\ Lasts(u)
  <2>1. Keeps(t) /\ Lasts(t)
    BY SuspendedKeeps DEF SInv, Served
  <2>2. ASSUME NEW u \in Threads, u # t
        PROVE  Keeps(u) /\ Lasts(u)
    <3>1. thread'[u] = thread[u] /\ child'[u] = child[u] /\ proc'[u] = proc[u]
      BY <2>2, Sent DEF Suspended, T_Start, T_StopItself, T_Resumed, T_Main, T_Crash,
         T_Killable, T_Killed, T_Ending, T_Return, T_Step
    <3> QED
      BY <3>1, UnmovedKeeps
  <2> QED
    BY <2>1, <2>2
<1>4. (Taken' <=> Taken) /\ (Asked' <=> Asked) /\ (Answered' <=> Answered)
  BY <1>1, <1>2 DEF Taken, Asked, Answered
<1>5. Exchange'
  BY <1>1, <1>2, <1>4 DEF SInv, Served, Exchange
<1>6. Meaning'
  BY <1>1, <1>2, <1>4 DEF SInv, Served, Meaning, Subject
<1>7. Mine'
  <2>1. me.mine \subseteq Threads
    BY Sent DEF ClientRecord
  <2>2. \A u \in Threads \ {t}: child'[u] = child[u]
    BY Sent DEF Suspended, T_Start, T_StopItself, T_Resumed, T_Main, T_Crash, T_Killable,
       T_Killed, T_Ending, T_Return, T_Step
  <2>3. child[t].pc \notin {"free", "qts", "start", "stop"} =>
            child'[t].pc \notin {"free", "qts", "start", "stop"}
    BY Sent DEF Suspended, T_Start, T_StopItself, T_Resumed, T_Main, T_Crash, T_Killable,
       T_Killed, T_Ending, T_Return, T_Step, ChildRecord
  <2> QED
    BY <1>2, <2>1, <2>2, <2>3 DEF SInv, Served, Mine
<1>8. AskedInTime' /\ AnsweredTruly'
  BY <1>2, <1>3, <1>4, Sent, AskedStays, AnsweredStays
<1>9. OthersRest' /\ AtWork'
  BY <1>1, <1>2, <1>3, WorkStays
<1> QED
  BY <1>5, <1>6, <1>7, <1>8, <1>9 DEF Served

\* What every step of the client has in common: it changes its own record and
\* the mailbox, and makes a QTS.
LEMMA ClientLeaves ==
    ASSUME OneClient, SInv, Client(Main) \/ C_Exit
    PROVE  /\ UNCHANGED <<QTS_VECTOR, current, thread, proc, mgr>>
           /\ REQUEST'.reply = REQUEST.reply
           /\ REQUEST'.processing = REQUEST.processing
           /\ \A t \in Threads: Keeps(t) /\ Lasts(t)
<1>1. UNCHANGED <<QTS_VECTOR, current, thread, proc, mgr>>
  BY DEF Client, C_threadNew, C_Ask, sendRequest, C_Write, C_Spin, C_Answered, C_Created,
         C_Orphaned, C_threadJoin, C_Joined, C_Exit, shared
<1>2. REQUEST'.reply = REQUEST.reply /\ REQUEST'.processing = REQUEST.processing
  BY Sent DEF Client, C_threadNew, C_Ask, sendRequest, C_Write, C_Spin, C_Answered, C_Created,
         C_Orphaned, C_threadJoin, C_Joined, C_Exit, shared, Mailbox
<1>3. \A t \in Threads: child'[t].pc = child[t].pc \/ (child[t].pc = "free" /\ child'[t].pc = "qts")
  BY Sent DEF Client, C_threadNew, C_Ask, sendRequest, C_Write, C_Spin, C_Answered, C_Created,
         C_Orphaned, C_threadJoin, C_Joined, C_Exit, ChildRecord
<1> QED
  BY <1>1, <1>2, <1>3, UnmovedKeeps

\* A step within sendRequest, to the next place of it.
Proceeds(from, to) ==
    /\ me.pc = from /\ me'.pc = to
    /\ me'.request = me.request /\ me'.package = me.package /\ me'.mine = me.mine
    /\ UNCHANGED <<QTS_VECTOR, close, current, thread, child, proc, mgr>>

LEMMA WriteProceeds ==
    ASSUME OneClient, SInv, NEW from, NEW to \in ClientPC, NEW field, NEW value,
           C_Write(Main, from, to, field, value)
    PROVE  Proceeds(from, to) /\ REQUEST' = [REQUEST EXCEPT ![field] = value]
BY Sent DEF C_Write, Proceeds, me, ClientRecord

LEMMA FlagProceeds ==
    ASSUME OneClient, SInv, NEW from, NEW to \in ClientPC, NEW field,
           C_Write(Main, from, to, field, TRUE)
    PROVE  Proceeds(from, to) /\ REQUEST' = [REQUEST EXCEPT ![field] = TRUE]
BY Sent DEF C_Write, Proceeds, me, ClientRecord

LEMMA SpinProceeds ==
    ASSUME OneClient, SInv, NEW from, NEW to \in ClientPC, NEW flag,
           C_Spin(Main, from, to, flag)
    PROVE  Proceeds(from, to) /\ UNCHANGED REQUEST /\ ~REQUEST[flag]
BY Sent DEF C_Spin, Proceeds, me, ClientRecord, shared

LEMMA ProceedsServed ==
    ASSUME OneClient, SInv, Client(Main), NEW from, NEW to, Proceeds(from, to),
           Exchange', Meaning', Asked' => Asked, Answered' => Answered
    PROVE  Served'
<1>1. AskedInTime' /\ AnsweredTruly'
  BY ClientLeaves, Sent, AskedStays, AnsweredStays DEF Proceeds
<1>2. OthersRest' /\ AtWork'
  BY ClientLeaves, WorkStays DEF Proceeds
<1>3. Mine'
  BY DEF SInv, Served, Mine, Proceeds
<1> QED
  BY <1>1, <1>2, <1>3 DEF Served

LEMMA SendServed ==
    ASSUME OneClient, SInv, sendRequest(Main), me.pc # "reply"
    PROVE  Served'
<1> Client(Main)
  BY DEF Client
<1>1. CASE C_Write(Main, "request", "package", "request", me.request)
  <2>1. Proceeds("request", "package") /\ REQUEST' = [REQUEST EXCEPT !["request"] = me.request]
    BY <1>1, WriteProceeds DEF ClientPC
  <2>2. /\ REQUEST'.request = me.request /\ REQUEST'.upload = REQUEST.upload
        /\ mgr' = mgr /\ close' = close /\ REQUEST'.processing = REQUEST.processing
        /\ me.pc = "request" /\ me'.pc = "package"
        /\ me'.request = me.request /\ me'.package = me.package
    BY <2>1, Sent DEF Proceeds, Mailbox
  <2>3. ~Taken /\ ~Taken' /\ (~REQUEST.upload \/ mgr.pc = "selfRequest")
    BY <2>2 DEF SInv, Served, Exchange, Exiting, Taken, Awaiting
  <2>4. Exchange'
    BY <2>2, <2>3 DEF SInv, Served, Exchange, Exiting, Taken, Awaiting
  <2>5. Meaning'
    BY <2>2, <2>3, <2>4 DEF SInv, Served, Exchange, Exiting, Meaning, Subject, Taken, Asked, Awaiting, Sending
  <2> QED
    BY <2>1, <2>2, <2>4, <2>5, ProceedsServed DEF Asked, Answered, Awaiting
<1>2. CASE C_Write(Main, "package", "upload", "package", me.package)
  <2>1. Proceeds("package", "upload") /\ REQUEST' = [REQUEST EXCEPT !["package"] = me.package]
    BY <1>2, WriteProceeds DEF ClientPC
  <2>2. /\ REQUEST'.request = REQUEST.request /\ REQUEST'.package = me.package
        /\ REQUEST'.upload = REQUEST.upload
        /\ mgr' = mgr /\ close' = close /\ REQUEST'.processing = REQUEST.processing
        /\ me.pc = "package" /\ me'.pc = "upload"
        /\ me'.request = me.request /\ me'.package = me.package
    BY <2>1, Sent DEF Proceeds, Mailbox
  <2>3. ~Taken /\ ~Taken' /\ (~REQUEST.upload \/ mgr.pc = "selfRequest")
    BY <2>2 DEF SInv, Served, Exchange, Exiting, Taken, Awaiting
  <2>4. Exchange'
    BY <2>2, <2>3 DEF SInv, Served, Exchange, Exiting, Taken, Awaiting
  <2>5. Meaning'
    BY <2>2, <2>3, <2>4 DEF SInv, Served, Exchange, Exiting, Meaning, Subject, Taken, Asked, Awaiting, Sending
  <2> QED
    BY <2>1, <2>2, <2>4, <2>5, ProceedsServed DEF Asked, Answered, Awaiting
<1>3. CASE C_Write(Main, "upload", "uploadNotComplete", "upload", TRUE)
  <2>1. /\ Proceeds("upload", "uploadNotComplete")
        /\ REQUEST' = [REQUEST EXCEPT !["upload"] = TRUE]
    BY <1>3, FlagProceeds DEF ClientPC
  <2>2. /\ REQUEST'.request = REQUEST.request /\ REQUEST'.package = REQUEST.package
        /\ REQUEST'.upload
        /\ mgr' = mgr /\ close' = close /\ REQUEST'.processing = REQUEST.processing
        /\ me.pc = "upload" /\ me'.pc = "uploadNotComplete"
        /\ me'.request = me.request /\ me'.package = me.package
    BY <2>1, Sent DEF Proceeds, Mailbox
  <2>3. ~Taken /\ ~Taken' /\ mgr.pc # "selfRequest"
    BY <2>2 DEF SInv, Served, Exchange, Exiting, Taken, Awaiting
  <2>4. Exchange'
    BY <2>2, <2>3 DEF SInv, Served, Exchange, Exiting, Taken, Awaiting
  <2>5. Meaning'
    BY <2>2, <2>3, <2>4 DEF SInv, Served, Exchange, Exiting, Meaning, Subject, Taken, Asked, Awaiting, Sending
  <2> QED
    BY <2>1, <2>2, <2>4, <2>5, ProceedsServed DEF Asked, Answered, Awaiting
<1>4. CASE C_Write(Main, "uploadNotComplete", "processingNotComplete", "uploadNotComplete", TRUE)
  <2>1. /\ Proceeds("uploadNotComplete", "processingNotComplete")
        /\ REQUEST' = [REQUEST EXCEPT !["uploadNotComplete"] = TRUE]
    BY <1>4, FlagProceeds DEF ClientPC
  <2>2. /\ REQUEST'.request = REQUEST.request /\ REQUEST'.package = REQUEST.package
        /\ REQUEST'.upload = REQUEST.upload /\ REQUEST'.reply = REQUEST.reply
        /\ mgr' = mgr /\ close' = close /\ REQUEST'.processing = REQUEST.processing
        /\ me.pc = "uploadNotComplete" /\ me'.pc = "processingNotComplete"
        /\ me'.request = me.request /\ me'.package = me.package
    BY <2>1, Sent DEF Proceeds, Mailbox
  <2>3. (Taken' <=> Taken) /\ (Asked' <=> Asked) /\ (Answered' <=> Answered)
    BY <2>2 DEF Taken, Asked, Answered, Awaiting
  <2>4. Exchange'
    BY <2>2, <2>3 DEF SInv, Served, Exchange, Exiting, Awaiting
  <2>5. Meaning'
    BY <2>2, <2>3 DEF SInv, Served, Meaning, Subject, Awaiting, Sending
  <2> QED
    BY <2>1, <2>3, <2>4, <2>5, ProceedsServed
<1>5. CASE C_Write(Main, "processingNotComplete", "spinUpload", "processingNotComplete", TRUE)
  <2>1. /\ Proceeds("processingNotComplete", "spinUpload")
        /\ REQUEST' = [REQUEST EXCEPT !["processingNotComplete"] = TRUE]
    BY <1>5, FlagProceeds DEF ClientPC
  <2>2. /\ REQUEST'.request = REQUEST.request /\ REQUEST'.package = REQUEST.package
        /\ REQUEST'.upload = REQUEST.upload /\ REQUEST'.reply = REQUEST.reply
        /\ REQUEST'.processingNotComplete
        /\ mgr' = mgr /\ close' = close /\ REQUEST'.processing = REQUEST.processing
        /\ me.pc = "processingNotComplete" /\ me'.pc = "spinUpload"
        /\ me'.request = me.request /\ me'.package = me.package
    BY <2>1, Sent DEF Proceeds, Mailbox
  <2>3. (Taken' <=> Taken) /\ (Asked' <=> Asked) /\ (Answered' <=> Answered)
    BY <2>2 DEF Taken, Asked, Answered, Awaiting
  <2>4. Exchange'
    BY <2>2, <2>3 DEF SInv, Served, Exchange, Exiting, Awaiting
  <2>5. Meaning'
    BY <2>2, <2>3 DEF SInv, Served, Meaning, Subject, Awaiting, Sending
  <2> QED
    BY <2>1, <2>3, <2>4, <2>5, ProceedsServed
<1>6. CASE C_Spin(Main, "spinUpload", "spinProcessing", "uploadNotComplete")
  <2>1. Proceeds("spinUpload", "spinProcessing") /\ UNCHANGED REQUEST
    BY <1>6, SpinProceeds DEF ClientPC
  <2>2. /\ UNCHANGED <<REQUEST, mgr, close>> /\ me.pc = "spinUpload" /\ me'.pc = "spinProcessing"
        /\ me'.request = me.request /\ me'.package = me.package
    BY <2>1 DEF Proceeds
  <2>3. (Taken' <=> Taken) /\ (Asked' <=> Asked) /\ (Answered' <=> Answered)
    BY <2>2 DEF Taken, Asked, Answered, Awaiting
  <2>4. Exchange'
    BY <2>2, <2>3 DEF SInv, Served, Exchange, Exiting, Awaiting
  <2>5. Meaning'
    BY <2>2, <2>3 DEF SInv, Served, Meaning, Subject, Awaiting, Sending
  <2> QED
    BY <2>1, <2>3, <2>4, <2>5, ProceedsServed
<1>7. CASE C_Spin(Main, "spinProcessing", "reply", "processingNotComplete")
  <2>1. /\ Proceeds("spinProcessing", "reply") /\ UNCHANGED REQUEST
        /\ ~REQUEST.processingNotComplete
    BY <1>7, SpinProceeds DEF ClientPC
  <2>2. /\ UNCHANGED <<REQUEST, mgr, close>> /\ me.pc = "spinProcessing" /\ me'.pc = "reply"
        /\ me'.request = me.request /\ me'.package = me.package
    BY <2>1 DEF Proceeds
  <2>3. ~Taken /\ ~Taken' /\ ~REQUEST.upload /\ Answered /\ ~Asked'
    BY <2>1, <2>2 DEF SInv, Served, Exchange, Exiting, Taken, Asked, Answered, Awaiting
  <2>4. Exchange'
    BY <2>2, <2>3 DEF SInv, Served, Exchange, Exiting, Awaiting
  <2>5. Meaning'
    BY <2>2, <2>3 DEF SInv, Served, Meaning, Subject, Awaiting, Sending, Taken
  <2> QED
    BY <2>1, <2>3, <2>4, <2>5, ProceedsServed
<1> QED
  <2>1. ~C_Answered(Main) /\ ~C_Created(Main)
    BY DEF C_Answered, C_Created, me
  <2> QED
    BY <1>1, <1>2, <1>3, <1>4, <1>5, <1>6, <1>7, <2>1 DEF sendRequest, me

\* What the client is waiting for does not change inside of sendRequest.
LEMMA SendGoes ==
    ASSUME OneClient, SInv, sendRequest(Main), me.pc # "reply"
    PROVE  /\ me.pc \in Sending /\ me'.pc \in Sending
           /\ me'.request = me.request /\ me'.package = me.package
BY Sent DEF sendRequest, C_Write, C_Spin, C_Answered, C_Created, me, ClientRecord, Sending

\* A step outside of the exchange: it begins or ends a call.
LEMMA OutsideServed ==
    ASSUME OneClient, SInv, Client(Main), UNCHANGED <<REQUEST, close>>,
           me.pc \in {"idle", "reply", "join"}, me'.pc \in {"idle", "request", "join"},
           me'.pc = "request" =>
              \/ me'.request = "threadCreate" /\ me'.package \in {"QTS"} \X Threads
              \/ /\ me'.request \in {"threadPause", "threadResume"}
                 /\ me'.package \in {"Thread"} \X Threads,
           me'.pc = "join" => me'.package \in {"Thread"} \X Threads,
           Mine', AskedInTime'
    PROVE  Served'
<1>1. ~Taken /\ ~Taken' /\ mgr' = mgr /\ ~REQUEST.upload
  BY ClientLeaves DEF SInv, Served, Exchange, Exiting, Taken, Awaiting
<1>2. Exchange'
  BY <1>1 DEF SInv, Served, Exchange, Exiting, Awaiting
<1>3. Meaning'
  BY <1>1 DEF Meaning, Taken, Awaiting, Accepting, Sending
<1>4. AnsweredTruly'
  BY <1>1 DEF AnsweredTruly, Answered, Awaiting
<1>5. OthersRest' /\ AtWork'
  BY <1>1, ClientLeaves, WorkStays DEF Taken
<1> QED
  BY <1>2, <1>3, <1>4, <1>5 DEF Served

LEMMA CreatedGoes ==
    ASSUME OneClient, SInv, C_Created(Main)
    PROVE  /\ Subject \in Threads /\ IsHeld(Subject)
           /\ me'.pc \in {"idle", "request"} /\ me'.request = "threadResume"
           /\ me'.package = <<"Thread", Subject>> /\ me'.mine = me.mine \cup {Subject}
<1>1. me.pc = "reply" /\ me.request = "threadCreate"
  BY DEF C_Created, me
<1>2. Subject \in Threads /\ REQUEST.reply = Subject /\ IsHeld(Subject)
  BY <1>1, Sent DEF SInv, Served, AnsweredTruly, Answered, Sending
<1>3. Subject # NULL
  BY <1>2, NullAssumption
<1> DEFINE pc == IF client[Main].createSuspended THEN "idle" ELSE "request"
<1>4. client' = [client EXCEPT ![Main] =
          [me EXCEPT !.pc = pc, !.request = "threadResume",
                     !.package = <<"Thread", Subject>>, !.mine = me.mine \cup {Subject}]]
  BY <1>2, <1>3 DEF C_Created, me
<1>5. me' = [me EXCEPT !.pc = pc, !.request = "threadResume",
                     !.package = <<"Thread", Subject>>, !.mine = me.mine \cup {Subject}]
  BY <1>4, Sent DEF me
<1> QED
  BY <1>2, <1>5, Sent DEF ClientRecord

LEMMA CreatedServed ==
    ASSUME OneClient, SInv, C_Created(Main)
    PROVE  Served'
<1> Client(Main)
  BY DEF Client, sendRequest
<1>1. me.pc = "reply" /\ UNCHANGED shared /\ UNCHANGED <<thread, child, proc>>
  BY DEF C_Created, me
<1>2. PICK t \in Threads: t = Subject
  BY CreatedGoes
<1>3. IsHeld(t)
  BY <1>2, CreatedGoes
<1>4. /\ me'.pc \in {"idle", "request"} /\ me'.request = "threadResume"
      /\ me'.package = <<"Thread", t>> /\ me'.mine = me.mine \cup {t}
  BY <1>2, CreatedGoes
<1>5. Mine'
  BY <1>1, <1>3, <1>4 DEF SInv, Served, Mine, IsHeld, Inside
<1>6. AskedInTime'
  <2>1. Subject' = t
    BY <1>4 DEF Subject
  <2>2. IsHeld(t)'
    BY <1>3, ClientLeaves DEF Keeps
  <2> QED
    BY <1>4, <2>1, <2>2 DEF AskedInTime
<1> QED
  BY <1>1, <1>4, <1>5, <1>6, OutsideServed DEF shared

LEMMA AskServed ==
    ASSUME OneClient, SInv, C_Ask(Main)
    PROVE  Served'
<1> Client(Main)
  BY DEF Client
<1>1. PICK request \in Requests, t \in me.mine:
        LooksRight(request, t) /\ Send(Main, request, <<"Thread", t>>, FALSE)
  BY DEF C_Ask, me
<1>2. /\ me.pc = "idle" /\ UNCHANGED <<REQUEST, close, thread, child, proc>>
      /\ request \in {"threadPause", "threadResume"} /\ t \in Threads
  BY Sent DEF C_Ask, me, OneClient, shared, ClientRecord
<1>3. /\ me'.pc = "request" /\ me'.request = request /\ me'.package = <<"Thread", t>>
      /\ me'.mine = me.mine
  BY <1>1, Sent DEF Send, me, ClientRecord
<1>4. child[t].pc \notin {"free", "qts", "start", "stop"}
  BY <1>1 DEF SInv, Served, Mine
<1>5. IsHeld(t) \/ IsRunning(t) \/ Leaving(t)
  <2>1. ~Taken
    BY <1>2 DEF SInv, Served, Exchange, Exiting, Awaiting
  <2>2. CASE ~Attends(t)
    BY <1>2, <1>4, <2>2 DEF SInv, Served, OthersRest, Rests, IsNew, Leaving
  <2>3. CASE Attends(t)
    <3>1. mgr.pc = "died" \/ (mgr.pc = "call" /\ mgr.call \in {"stop", "join"})
      BY <2>1, <2>3, Sent DEF Attends, Taken, ManagerRecord
    <3>2. t = mgr.t
      BY <2>3, <3>1 DEF Attends
    <3> QED
      BY <3>1, <3>2 DEF SInv, Served, AtWork, Stops, Joins, Leaving
  <2> QED
    BY <2>2, <2>3
<1>6. /\ request = "threadPause" => IsRunning(t) \/ Leaving(t)
      /\ request = "threadResume" => IsHeld(t) \/ Leaving(t)
  BY <1>1, <1>5
     DEF LooksRight, OneClient, threadIsRunning, threadIsStopped, IsHeld, IsRunning
<1>7. /\ request = "threadPause" => IsRunning(t)' \/ Leaving(t)'
      /\ request = "threadResume" => IsHeld(t)' \/ Leaving(t)'
  BY <1>2, <1>6, ClientLeaves DEF Keeps, Lasts
<1>8. AskedInTime'
  <2>1. Subject' = t
    BY <1>3 DEF Subject
  <2> QED
    BY <1>2, <1>3, <1>7, <2>1 DEF AskedInTime
<1>9. Mine'
  BY <1>2, <1>3 DEF SInv, Served, Mine
<1> QED
  BY <1>2, <1>3, <1>8, <1>9, OutsideServed

\* The manager is there as long as a client that is careful needs it.
LEMMA NotOrphaned == ASSUME OneClient, SInv PROVE ~C_Orphaned(Main)
BY DEF C_Orphaned, SInv, Served, Exchange, Exiting, EInv, IInv, Scanning, CurrentToTheEnd, me, Sending

LEMMA ClientServed ==
    ASSUME OneClient, SInv, Client(Main)
    PROVE  Served'
<1>1. CASE sendRequest(Main) /\ me.pc # "reply"
  BY <1>1, SendServed
<1>2. CASE C_Created(Main)
  BY <1>2, CreatedServed
<1>3. CASE C_Ask(Main)
  BY <1>3, AskServed
<1>4. CASE C_Answered(Main) \/ C_Joined(Main)
  <2>1. /\ me.pc \in {"reply", "join"} /\ me'.pc = "idle" /\ me'.mine = me.mine
        /\ UNCHANGED <<REQUEST, close, child>>
    BY <1>4, Sent DEF C_Answered, C_Joined, me, ClientRecord, shared
  <2>2. Mine' /\ AskedInTime'
    BY <2>1 DEF SInv, Served, Mine, AskedInTime, Asked, Awaiting
  <2> QED
    BY <2>1, <2>2, OutsideServed
<1>5. CASE C_threadNew(Main)
  <2>1. PICK t \in Threads, createSuspended \in BOOLEAN:
          /\ child[t].pc = "free" /\ child' = [child EXCEPT ![t].pc = "qts"]
          /\ Send(Main, "threadCreate", <<"QTS", t>>, createSuspended)
    BY <1>5 DEF C_threadNew
  <2>2. me.pc = "idle" /\ UNCHANGED <<REQUEST, close>>
    BY <1>5 DEF C_threadNew, me, shared
  <2>3. /\ me'.pc = "request" /\ me'.request = "threadCreate" /\ me'.package = <<"QTS", t>>
        /\ me'.mine = me.mine
    BY <2>1, Sent DEF Send, me, ClientRecord
  <2>4. child'[t].pc = "qts" /\ \A u \in Threads \ {t}: child'[u] = child[u]
    BY <2>1, Sent DEF ChildRecord
  <2>5. Mine'
    BY <2>1, <2>3, <2>4, Sent DEF SInv, Served, Mine, ClientRecord
  <2>6. AskedInTime'
    <3>1. Subject' = t
      BY <2>3 DEF Subject
    <3> QED
      BY <2>3, <2>4, <3>1 DEF AskedInTime
  <2> QED
    BY <2>2, <2>3, <2>5, <2>6, OutsideServed
<1>6. CASE C_threadJoin(Main)
  <2>1. PICK t \in me.mine:
          client' = [client EXCEPT ![Main].pc = "join", ![Main].package = <<"Thread", t>>]
    BY <1>6 DEF C_threadJoin, me
  <2>2. /\ me.pc = "idle" /\ me'.pc = "join" /\ me'.package = <<"Thread", t>> /\ t \in Threads
        /\ me'.mine = me.mine /\ UNCHANGED <<REQUEST, close, child>>
    BY <1>6, <2>1, Sent DEF C_threadJoin, me, ClientRecord, shared
  <2>3. Mine' /\ AskedInTime'
    BY <2>2 DEF SInv, Served, Mine, AskedInTime, Asked, Awaiting
  <2> QED
    BY <2>2, <2>3, OutsideServed
<1>7. ~C_Orphaned(Main)
  BY NotOrphaned
<1> QED
  BY <1>1, <1>2, <1>3, <1>4, <1>5, <1>6, <1>7
     DEF Client, sendRequest, C_Write, C_Spin, C_Answered, C_Created, me

LEMMA ExitServed ==
    ASSUME OneClient, SInv, C_Exit \/ C_ExitJoin \/ C_Exited
    PROVE  Served'
<1>1. /\ me.pc \in {"idle", "exit", "exitWait"} /\ me'.pc \in Exiting /\ me'.mine = me.mine
      /\ UNCHANGED <<REQUEST, QTS_VECTOR, thread, child, mgr>>
  BY Sent DEF C_Exit, C_ExitJoin, C_Exited, Exiting, me, ClientRecord, shared
<1>2. \A t \in Threads: Keeps(t)
  <2>1. \A t \in Threads: proc'[t] = proc[t]
    BY Sent, MgrAssumption DEF C_Exit, C_ExitJoin, C_Exited
  <2> QED
    BY <1>1, <2>1, UnmovedKeeps
<1>3. ~Taken /\ ~Taken'
  BY <1>1 DEF SInv, Served, Exchange, Taken, Awaiting
<1>4. Exchange'
  BY <1>1, <1>3 DEF SInv, Served, Exchange, Awaiting, Exiting
<1>5. Meaning' /\ Mine' /\ AskedInTime' /\ AnsweredTruly'
  BY <1>1, <1>3 DEF SInv, Served, Meaning, Mine, AskedInTime, AnsweredTruly, Asked, Answered,
                    Taken, Awaiting, Accepting, Sending, Exiting
<1>6. OthersRest' /\ AtWork'
  BY <1>1, <1>2, <1>3, WorkStays DEF Taken
<1> QED
  BY <1>4, <1>5, <1>6 DEF Served

\* The manager goes on, and attends to nobody.
LEMMA PassesServed ==
    ASSUME OneClient, SInv, UNCHANGED <<child, client>>,
           \A t \in Threads: Keeps(t) /\ Lasts(t),
           mgr.pc \notin {"clearPackage", "call", "died"},
           mgr'.pc \notin {"clearPackage", "call", "died"},
           Exchange', Meaning', Asked' => Asked,
           Answered' => Answered /\ REQUEST'.reply = REQUEST.reply
    PROVE  Served'
<1>1. me' = me
  BY DEF me
<1>2. AskedInTime' /\ AnsweredTruly'
  BY <1>1, Sent, AskedStays, AnsweredStays
<1>3. OthersRest'
  BY DEF SInv, Served, OthersRest, Attends, Rests, Keeps
<1>4. AtWork'
  BY DEF AtWork
<1>5. Mine'
  BY <1>1 DEF SInv, Served, Mine
<1> QED
  BY <1>2, <1>3, <1>4, <1>5 DEF Served

\* A write of handleRequest to the mailbox.
LEMMA MailWritten ==
    ASSUME OneClient, SInv, NEW from, NEW to \in ManagerPC, NEW field, NEW value,
           M_Write(from, to, field, value)
    PROVE  /\ mgr.pc = from /\ mgr'.pc = to /\ mgr'.call = mgr.call /\ mgr'.t = mgr.t
           /\ REQUEST' = [REQUEST EXCEPT ![field] = value]
           /\ UNCHANGED <<QTS_VECTOR, close, current, thread, child, proc, client, me>>
           /\ \A t \in Threads: Keeps(t) /\ Lasts(t)
<1>1. /\ mgr.pc = from /\ mgr'.pc = to /\ mgr'.call = mgr.call /\ mgr'.t = mgr.t
      /\ REQUEST' = [REQUEST EXCEPT ![field] = value]
      /\ UNCHANGED <<QTS_VECTOR, close, current, thread, child, proc, client>>
  BY Sent DEF M_Write, M_Goto, ManagerRecord
<1>2. me' = me
  BY <1>1 DEF me
<1> QED
  BY <1>1, <1>2, UnmovedKeeps

\* With a flag, and what else is in the mailbox.
LEMMA MailboxFlags ==
    ASSUME NEW R \in Mailbox, NEW value \in BOOLEAN
    PROVE  /\ LET S == [R EXCEPT !["upload"] = value]
              IN  /\ S.upload = value /\ S.processing = R.processing
                  /\ S.processingNotComplete = R.processingNotComplete
                  /\ S.request = R.request /\ S.package = R.package /\ S.reply = R.reply
           /\ LET S == [R EXCEPT !["uploadNotComplete"] = value]
              IN  /\ S.upload = R.upload /\ S.processing = R.processing
                  /\ S.processingNotComplete = R.processingNotComplete
                  /\ S.request = R.request /\ S.package = R.package /\ S.reply = R.reply
           /\ LET S == [R EXCEPT !["processing"] = value]
              IN  /\ S.upload = R.upload /\ S.processing = value
                  /\ S.processingNotComplete = R.processingNotComplete
                  /\ S.request = R.request /\ S.package = R.package /\ S.reply = R.reply
           /\ LET S == [R EXCEPT !["processingNotComplete"] = value]
              IN  /\ S.upload = R.upload /\ S.processing = R.processing
                  /\ S.processingNotComplete = value
                  /\ S.request = R.request /\ S.package = R.package /\ S.reply = R.reply
BY DEF Mailbox

LEMMA PickUpServed ==
    ASSUME OneClient, SInv,
           \/ M_PickUp
           \/ M_Write("upload", "uploadNotComplete", "upload", FALSE)
           \/ M_Write("uploadNotComplete", "dispatch", "uploadNotComplete", FALSE)
    PROVE  Served'
<1>1. CASE M_PickUp
  <2>1. M_Write("loop", "upload", "processing", TRUE) /\ REQUEST.upload /\ ~close
    BY <1>1 DEF M_PickUp
  <2>2. /\ mgr.pc = "loop" /\ mgr'.pc = "upload"
        /\ REQUEST' = [REQUEST EXCEPT !["processing"] = TRUE]
        /\ UNCHANGED <<close, child, client, me>>
        /\ \A t \in Threads: Keeps(t) /\ Lasts(t)
    BY <2>1, MailWritten DEF ManagerPC
  <2>3. /\ REQUEST'.upload = REQUEST.upload /\ REQUEST'.processing
        /\ REQUEST'.processingNotComplete = REQUEST.processingNotComplete
        /\ REQUEST'.request = REQUEST.request /\ REQUEST'.package = REQUEST.package
        /\ REQUEST'.reply = REQUEST.reply
    BY <2>2, Sent, MailboxFlags
  <2>4. me.pc \in Awaiting /\ ~Taken /\ Taken'
    BY <2>1, <2>2 DEF SInv, Served, Exchange, Taken, Accepting
  <2>5. Exchange'
    BY <2>1, <2>2, <2>3, <2>4 DEF SInv, Served, Exchange
  <2>6. Asked /\ Asked' /\ ~Answered'
    BY <2>1, <2>2, <2>3, <2>4 DEF Asked, Answered, Awaiting
  <2>7. Meaning'
    BY <2>2, <2>3, <2>4, <2>6 DEF SInv, Served, Meaning, Subject, Awaiting, Sending
  <2> QED
    BY <2>2, <2>5, <2>6, <2>7, PassesServed
<1>2. CASE M_Write("upload", "uploadNotComplete", "upload", FALSE)
  <2>2. /\ mgr.pc = "upload" /\ mgr'.pc = "uploadNotComplete"
        /\ REQUEST' = [REQUEST EXCEPT !["upload"] = FALSE]
        /\ UNCHANGED <<close, child, client, me>>
        /\ \A t \in Threads: Keeps(t) /\ Lasts(t)
    BY <1>2, MailWritten DEF ManagerPC
  <2>3. /\ ~REQUEST'.upload /\ REQUEST'.processing = REQUEST.processing
        /\ REQUEST'.processingNotComplete = REQUEST.processingNotComplete
        /\ REQUEST'.request = REQUEST.request /\ REQUEST'.package = REQUEST.package
        /\ REQUEST'.reply = REQUEST.reply
    BY <2>2, Sent, MailboxFlags
  <2>4. me.pc \in Awaiting /\ Taken /\ Taken' /\ REQUEST.upload
    BY <2>2 DEF SInv, Served, Exchange, Taken, Accepting
  <2>5. Exchange'
    BY <2>2, <2>3, <2>4 DEF SInv, Served, Exchange
  <2>6. Asked /\ Asked' /\ ~Answered'
    BY <2>2, <2>3, <2>4 DEF Asked, Answered, Awaiting, Accepting
  <2>7. Meaning'
    BY <2>2, <2>3, <2>4, <2>6 DEF SInv, Served, Meaning, Subject, Awaiting, Sending
  <2> QED
    BY <2>2, <2>5, <2>6, <2>7, PassesServed
<1>3. CASE M_Write("uploadNotComplete", "dispatch", "uploadNotComplete", FALSE)
  <2>2. /\ mgr.pc = "uploadNotComplete" /\ mgr'.pc = "dispatch"
        /\ REQUEST' = [REQUEST EXCEPT !["uploadNotComplete"] = FALSE]
        /\ UNCHANGED <<close, child, client, me>>
        /\ \A t \in Threads: Keeps(t) /\ Lasts(t)
    BY <1>3, MailWritten DEF ManagerPC
  <2>3. /\ REQUEST'.upload = REQUEST.upload /\ REQUEST'.processing = REQUEST.processing
        /\ REQUEST'.processingNotComplete = REQUEST.processingNotComplete
        /\ REQUEST'.request = REQUEST.request /\ REQUEST'.package = REQUEST.package
        /\ REQUEST'.reply = REQUEST.reply
    BY <2>2, Sent, MailboxFlags
  <2>4. me.pc \in Awaiting /\ Taken /\ Taken'
    BY <2>2 DEF SInv, Served, Exchange, Taken, Accepting
  <2>5. Exchange'
    BY <2>2, <2>3, <2>4 DEF SInv, Served, Exchange
  <2>6. Asked /\ Asked' /\ ~Answered'
    BY <2>2, <2>3, <2>4 DEF Asked, Answered, Awaiting, Accepting
  <2>7. Meaning'
    BY <2>2, <2>3, <2>4, <2>6 DEF SInv, Served, Meaning, Subject, Awaiting, Sending
  <2> QED
    BY <2>2, <2>5, <2>6, <2>7, PassesServed
<1> QED
  BY <1>1, <1>2, <1>3

LEMMA AnswerServed ==
    ASSUME OneClient, SInv,
           \/ M_Write("answered", "processing", "request", "none")
           \/ M_Write("processing", "processingNotComplete", "processing", FALSE)
           \/ M_Write("processingNotComplete", "scan", "processingNotComplete", FALSE)
    PROVE  Served'
<1>1. /\ Taken /\ mgr.pc \in {"answered", "processing", "processingNotComplete"}
      /\ me.pc \in Awaiting /\ ~REQUEST.upload /\ mgr.pc # "selfRequest"
  BY DEF M_Write, M_Goto, Taken, SInv, Served, Exchange
<1>2. /\ UNCHANGED <<close, child, client, me>>
      /\ \A t \in Threads: Keeps(t) /\ Lasts(t)
      /\ mgr'.pc \in {"processing", "processingNotComplete", "scan"}
  BY MailWritten DEF ManagerPC
<1>3. REQUEST'.upload = REQUEST.upload /\ REQUEST'.reply = REQUEST.reply
  <2>1. \/ REQUEST' = [REQUEST EXCEPT !["request"] = "none"]
        \/ REQUEST' = [REQUEST EXCEPT !["processing"] = FALSE]
        \/ REQUEST' = [REQUEST EXCEPT !["processingNotComplete"] = FALSE]
    BY DEF M_Write
  <2> QED
    BY <2>1, Sent DEF Mailbox
<1>4. Exchange'
  <2>1. CASE M_Write("answered", "processing", "request", "none")
    <3>1. /\ REQUEST'.processing = REQUEST.processing
          /\ REQUEST'.processingNotComplete = REQUEST.processingNotComplete
      BY <2>1, Sent DEF M_Write, Mailbox
    <3>2. mgr.pc = "answered" /\ mgr'.pc = "processing"
      BY <2>1, MailWritten DEF ManagerPC
    <3> QED
      BY <1>1, <1>2, <1>3, <3>1, <3>2 DEF SInv, Served, Exchange, Taken
  <2>2. CASE M_Write("processing", "processingNotComplete", "processing", FALSE)
    <3>1. ~REQUEST'.processing /\ REQUEST'.processingNotComplete = REQUEST.processingNotComplete
      BY <2>2, Sent DEF M_Write, Mailbox
    <3>2. mgr.pc = "processing" /\ mgr'.pc = "processingNotComplete"
      BY <2>2, MailWritten DEF ManagerPC
    <3> QED
      BY <1>1, <1>2, <1>3, <3>1, <3>2 DEF SInv, Served, Exchange, Taken
  <2>3. CASE M_Write("processingNotComplete", "scan", "processingNotComplete", FALSE)
    <3>1. REQUEST'.processing = REQUEST.processing
      BY <2>3, Sent DEF M_Write, Mailbox
    <3>2. mgr.pc = "processingNotComplete" /\ mgr'.pc = "scan"
      BY <2>3, MailWritten DEF ManagerPC
    <3> QED
      BY <1>1, <1>2, <1>3, <3>1, <3>2 DEF SInv, Served, Exchange, Taken, Accepting
  <2> QED
    BY <2>1, <2>2, <2>3
<1>5. Answered /\ ~Asked /\ ~Asked'
  BY <1>1, <1>2, <1>3 DEF Asked, Answered, Awaiting, Accepting
<1>6. Meaning'
  BY <1>1, <1>2, <1>5 DEF SInv, Served, Meaning, Subject, Awaiting, Sending
<1> QED
  BY <1>1, <1>2, <1>3, <1>4, <1>5, <1>6, PassesServed

\* What the manager has taken and not yet answered is what was asked.
LEMMA Accepted ==
    ASSUME OneClient, SInv, mgr.pc \in Accepting
    PROVE  /\ Taken /\ Asked /\ me.pc \in Awaiting /\ ~REQUEST.upload
           /\ REQUEST.request = me.request /\ REQUEST.package = me.package
           /\ mgr.pc = "package" => mgr.request = REQUEST.request
           /\ Subject \in Threads
           /\ \/ me.request = "threadCreate" /\ me.package = <<"QTS", Subject>>
              \/ /\ me.request \in {"threadPause", "threadResume"}
                 /\ me.package = <<"Thread", Subject>>
<1>1. Taken /\ me.pc \in Awaiting /\ ~REQUEST.upload
  BY DEF Taken, SInv, Served, Exchange, Accepting
<1>2. Asked
  BY <1>1 DEF Asked
<1>3. me.pc \in Sending
  BY <1>1 DEF Awaiting, Sending
<1> QED
  BY <1>1, <1>2, <1>3, Sent DEF SInv, Served, Meaning, Subject

LEMMA DispatchServed ==
    ASSUME OneClient, SInv, M_Dispatch \/ M_Switch \/ M_CloneFails
    PROVE  Served'
<1>1. /\ mgr.pc \in {"dispatch", "switch", "package"} /\ mgr.pc \in Accepting
      /\ UNCHANGED <<close, thread, child, client, me>>
      /\ \A t \in Threads: proc'[t] = proc[t]
  BY Sent, MgrAssumption DEF M_Dispatch, M_Switch, M_CloneFails, M_Goto, Accepting, shared, me
<1>2. /\ Taken /\ Asked /\ me.pc \in Awaiting /\ ~REQUEST.upload
      /\ REQUEST.request = me.request /\ REQUEST.request # "none"
  BY <1>1, Accepted
<1>3. /\ mgr'.pc \in {"switch", "package", "aborted"}
      /\ M_Dispatch \/ M_Switch => REQUEST' = REQUEST
      /\ mgr'.pc = "package" => mgr'.request = REQUEST.request
      /\ mgr'.pc = "aborted" => M_CloneFails
      /\ REQUEST'.request = REQUEST.request /\ REQUEST'.package = REQUEST.package
      /\ REQUEST'.upload = REQUEST.upload /\ REQUEST'.processing = REQUEST.processing
      /\ REQUEST'.processingNotComplete = REQUEST.processingNotComplete
  BY <1>2, Sent DEF M_Dispatch, M_Switch, M_CloneFails, M_Goto, ManagerRecord, Mailbox, shared
<1>4. Taken' /\ ~Answered'
  BY <1>1, <1>2, <1>3 DEF Taken, Answered, Accepting, Awaiting
<1>5. Exchange'
  BY <1>1, <1>2, <1>3, <1>4 DEF SInv, Served, Exchange
<1>6. Meaning'
  BY <1>1, <1>2, <1>3 DEF SInv, Served, Meaning, Subject, Awaiting, Sending
<1>7. \A t \in Threads: Keeps(t) /\ Lasts(t)
  BY <1>1, UnmovedKeeps
<1> QED
  BY <1>1, <1>2, <1>3, <1>4, <1>5, <1>6, <1>7, PassesServed

\* No assert of handleRequest fails, and no package is of the wrong kind.
LEMMA RequestIsRight ==
    ASSUME OneClient, SInv
    PROVE  ~M_AssertPackage /\ ~M_Confused
<1>1. ASSUME mgr.pc \in {"dispatch", "package"}
      PROVE  /\ REQUEST.package # NULL
             /\ REQUEST.package \in (IF REQUEST.request = "threadCreate"
                                     THEN {"QTS"} ELSE {"Thread"}) \X Threads
  <2>1. mgr.pc \in Accepting
    BY <1>1 DEF Accepting
  <2>2. /\ Subject \in Threads
        /\ REQUEST.request = me.request /\ REQUEST.package = me.package
        /\ \/ me.request = "threadCreate" /\ me.package = <<"QTS", Subject>>
           \/ /\ me.request \in {"threadPause", "threadResume"}
              /\ me.package = <<"Thread", Subject>>
    BY <2>1, Accepted
  <2>3. REQUEST.package \in {"QTS", "Thread"} \X (Threads \cup {Mgr})
    BY <2>2
  <2> QED
    BY <2>2, <2>3, NullAssumption
<1>2. mgr.pc = "package" => mgr.request = REQUEST.request
  BY Accepted DEF Accepting
<1> QED
  BY <1>1, <1>2 DEF M_AssertPackage, M_Confused, M_Dies, M_Goto

LEMMA threadNewServed ==
    ASSUME OneClient, SInv, M_threadNew
    PROVE  Served'
<1>1. mgr.pc = "package" /\ mgr.pc \in Accepting /\ REQUEST.request = "threadCreate"
  BY Accepted DEF M_threadNew, Accepting
<1>2. PICK t \in Threads: t = Subject /\ REQUEST.package = <<"QTS", t>>
  BY <1>1, Accepted
<1>3. /\ Taken /\ Asked /\ me.pc \in Awaiting /\ ~REQUEST.upload
      /\ me.request = "threadCreate" /\ me.package = <<"QTS", t>>
  BY <1>1, <1>2, Accepted
<1>4. child[t].pc = "qts"
  BY <1>2, <1>3 DEF SInv, Served, AskedInTime
<1>5. /\ mgr'.pc = "clearPackage" /\ mgr'.call = mgr.call
      /\ REQUEST'.reply = t
      /\ REQUEST'.request = REQUEST.request /\ REQUEST'.package = REQUEST.package
      /\ REQUEST'.upload = REQUEST.upload /\ REQUEST'.processing = REQUEST.processing
      /\ REQUEST'.processingNotComplete = REQUEST.processingNotComplete
      /\ close' = close /\ me' = me
  BY <1>2, Sent DEF M_threadNew, ManagerRecord, Mailbox, me
<1>6. thread'[t] = NewThread /\ child'[t].pc = "start" /\ proc'[t] = Cloned
  BY <1>2, Sent DEF M_threadNew, ChildRecord
<1>7. \A u \in Threads \ {t}:
          thread'[u] = thread[u] /\ child'[u] = child[u] /\ proc'[u] = proc[u]
  BY <1>2, Sent DEF M_threadNew
<1>8. Taken' /\ ~Asked' /\ ~Answered'
  BY <1>1, <1>3, <1>5 DEF Taken, Asked, Answered, Awaiting, Accepting
<1>9. Exchange'
  BY <1>1, <1>3, <1>5, <1>8 DEF SInv, Served, Exchange
<1>10. Meaning'
  <2>1. Subject' = t
    BY <1>2, <1>5 DEF Subject
  <2>2. me.pc \in Sending /\ me.pc \notin {"join", "package", "upload"}
    BY <1>3 DEF Awaiting, Sending
  <2> QED
    BY <1>1, <1>3, <1>5, <1>8, <2>1, <2>2 DEF Meaning
<1>11. Mine'
  BY <1>4, <1>5, <1>7, Sent DEF SInv, Served, Mine, ClientRecord
<1>12. AskedInTime' /\ AnsweredTruly'
  BY <1>8 DEF AskedInTime, AnsweredTruly
<1>13. OthersRest'
  <2> SUFFICES ASSUME NEW u \in Threads, ~Attends(u)' PROVE Rests(u)'
    BY DEF OthersRest
  <2>1. u # t
    BY <1>5 DEF Attends
  <2>2. Rests(u)
    BY <1>1 DEF SInv, Served, OthersRest, Attends
  <2>3. Keeps(u)
    BY <1>7, <2>1, UnmovedKeeps
  <2> QED
    BY <2>2, <2>3 DEF Rests, Keeps
<1>14. AtWork'
  <2>1. IsStarting(t)'
    BY <1>6 DEF IsStarting, NewThread, Cloned, NoProcess
  <2> QED
    BY <1>5, <2>1 DEF AtWork
<1> QED
  BY <1>9, <1>10, <1>11, <1>12, <1>13, <1>14 DEF Served

\* The manager sits down to an operation that was asked for.
LEMMA BeginsRequest ==
    ASSUME OneClient, SInv, Taken,
           UNCHANGED <<thread, child, proc, close, me>>,
           mgr'.pc = "call", mgr'.call = "request", mgr'.t = Subject,
           REQUEST'.request = REQUEST.request, REQUEST'.upload = REQUEST.upload,
           REQUEST'.processing = REQUEST.processing,
           REQUEST'.processingNotComplete = REQUEST.processingNotComplete,
           mgr.pc \in {"package", "clearPackage"}, REQUEST.request = me.request,
           \A t \in Threads: t # Subject => ~Attends(t),
           \A t \in Threads: t = Subject => Serves(t)'
    PROVE  Served'
<1>1. Taken' /\ me.pc \in Awaiting /\ ~REQUEST.upload
  BY DEF Taken, SInv, Served, Exchange
<1>2. PICK t \in Threads: t = Subject
  BY Sent
<1>3. Subject' = t
  BY <1>2 DEF Subject
<1>4. ~Asked' /\ ~Answered'
  BY <1>1 DEF Asked, Answered, Accepting, Awaiting, Taken
<1>5. Exchange'
  BY <1>1 DEF SInv, Served, Exchange
<1>6. Meaning'
  BY <1>1, <1>2, <1>3, <1>4 DEF SInv, Served, Meaning, Awaiting, Sending
<1>7. Mine'
  BY DEF SInv, Served, Mine
<1>8. AskedInTime' /\ AnsweredTruly'
  BY <1>4 DEF AskedInTime, AnsweredTruly
<1>9. OthersRest'
  <2> SUFFICES ASSUME NEW u \in Threads, ~Attends(u)' PROVE Rests(u)'
    BY DEF OthersRest
  <2>1. u # t
    BY <1>2 DEF Attends
  <2>2. Rests(u) /\ Keeps(u)
    BY <1>2, <2>1, UnmovedKeeps DEF SInv, Served, OthersRest
  <2> QED
    BY <2>2 DEF Rests, Keeps
<1>10. AtWork'
  BY <1>2 DEF AtWork
<1> QED
  BY <1>5, <1>6, <1>7, <1>8, <1>9, <1>10 DEF Served

LEMMA ClearPackageServed ==
    ASSUME OneClient, SInv, M_ClearPackage
    PROVE  Served'
<1>1. mgr.pc = "clearPackage" /\ Taken
  BY DEF M_ClearPackage, Taken
<1>2. PICK t \in Threads: t = Subject
  BY <1>1, Sent
<1>3. me.request = "threadCreate" /\ REQUEST.reply = t /\ REQUEST.request = me.request
  BY <1>1, <1>2 DEF SInv, Served, Meaning
<1>4. IsStarting(t)
  BY <1>1, <1>3 DEF SInv, Served, AtWork
<1>5. /\ mgr'.pc = "call" /\ mgr'.call = "request" /\ mgr'.t = t /\ mgr'.todo = <<"STOP">>
      /\ REQUEST'.request = REQUEST.request /\ REQUEST'.reply = t
      /\ REQUEST'.upload = REQUEST.upload /\ REQUEST'.processing = REQUEST.processing
      /\ REQUEST'.processingNotComplete = REQUEST.processingNotComplete
      /\ UNCHANGED <<thread, child, proc, close, me>>
  BY <1>3, Sent DEF M_ClearPackage, ManagerRecord, Mailbox, threadWaitUntilStopped, me
<1>6. Serves(t)'
  <2>1. IsStarting(t)'
    BY <1>4, <1>5, UnmovedKeeps DEF Keeps
  <2> QED
    BY <1>3, <1>5, <2>1 DEF Serves, Creates
<1>7. \A u \in Threads: u # t => ~Attends(u)
  BY <1>1, <1>3 DEF Attends
<1> QED
  BY <1>1, <1>2, <1>3, <1>5, <1>6, <1>7, BeginsRequest

LEMMA ServeServed ==
    ASSUME OneClient, SInv, M_Serve
    PROVE  Served'
<1>1. /\ mgr.pc = "package" /\ mgr.pc \in Accepting
      /\ REQUEST.request \in RequestIds /\ mgr.request = REQUEST.request
  BY Accepted DEF M_Serve, Accepting
<1>2. PICK t \in Threads: t = Subject
  BY <1>1, Accepted
<1>3. /\ me.request \in {"threadPause", "threadResume"} /\ REQUEST.package = <<"Thread", t>>
      /\ REQUEST.request = me.request /\ Taken /\ Asked
  BY <1>1, <1>2, Accepted DEF RequestIds
<1>4. /\ mgr'.pc = "call" /\ mgr'.call = "request" /\ mgr'.t = t
      /\ mgr'.todo = Calls(me.request)
      /\ UNCHANGED <<REQUEST, thread, child, proc, close, me>>
  BY <1>1, <1>3, Sent DEF M_Serve, ManagerRecord, me, shared
<1>5. Rests(t) /\ \A u \in Threads: ~Attends(u)
  BY <1>1 DEF SInv, Served, OthersRest, Attends
<1>6. Leaving(t) => IsDead(t)
  BY <1>5 DEF Rests, Leaving, IsNew, IsHeld, IsRunning, IsDead, Inside, IsLetGo, IsAtLastStop,
              IsContinued, IsEnding, HasEnded, IsOver
<1>7. /\ me.request = "threadPause" => IsRunning(t) \/ IsDead(t)
      /\ me.request = "threadResume" => IsHeld(t) \/ IsDead(t)
  BY <1>2, <1>3, <1>6 DEF SInv, Served, AskedInTime
<1>8. /\ me.request = "threadPause" => IsRunning(t)' \/ IsDead(t)'
      /\ me.request = "threadResume" => IsHeld(t)' \/ IsDead(t)'
  BY <1>4, <1>7, UnmovedKeeps DEF Keeps
<1>9. Serves(t)'
  BY <1>3, <1>4, <1>8 DEF Serves, Pauses, Resumes, Calls, threadPause, threadResume
<1> QED
  BY <1>1, <1>2, <1>3, <1>4, <1>5, <1>9, BeginsRequest

LEMMA RequestServed ==
    ASSUME OneClient, SInv, handleRequest
    PROVE  Served'
BY PickUpServed, AnswerServed, DispatchServed, RequestIsRight, threadNewServed,
   ClearPackageServed, ServeServed DEF handleRequest

-----------------------------------------------------------------------------
(* The calls: only the thread the manager attends to is changed.           *)

Works(t) == \/ mgr.call = "request" /\ Serves(t)
            \/ mgr.call = "stop" /\ Stops(t)
            \/ mgr.call = "join" /\ Joins(t)

LEMMA AtCall ==
    ASSUME OneClient, SInv, mgr.pc = "call"
    PROVE  /\ mgr.t \in Threads /\ Works(mgr.t)
           /\ thread[mgr.t] \in ThreadObject /\ proc[mgr.t] \in Process
           /\ Quiet(proc[mgr.t])
           /\ proc[mgr.t].state = "zombie" => proc[mgr.t].end = "exited"
<1>1. mgr.t \in Threads
  BY Attended DEF Attends
<1>2. Works(mgr.t)
  BY Sent DEF Works, SInv, Served, AtWork, ManagerRecord
<1>3. thread[mgr.t] \in ThreadObject /\ proc[mgr.t] \in Process
  BY <1>1, Sent
<1>4. Quiet(proc[mgr.t])
  BY <1>1 DEF SInv, EInv, IInv, Tracking, Tracked
<1>5. proc[mgr.t].state = "zombie" => proc[mgr.t].end = "exited"
  BY <1>1 DEF SInv, EInv, Ending, TrueEnd, NoneKilled
<1> QED
  BY <1>1, <1>2, <1>3, <1>4, <1>5

\* A thread the manager lets go is on its way out, and was before.
LEMMA LeavingLasts ==
    ASSUME OneClient, SInv, mgr.pc = "call", mgr.call # "request",
           UNCHANGED child,
           \A t \in Threads: t = mgr.t => Leaving(t)'
    PROVE  \A t \in Threads: t = mgr.t => Lasts(t)
<1> SUFFICES ASSUME NEW t \in Threads, t = mgr.t PROVE Lasts(t)
  OBVIOUS
<1>1. IsLetGo(t) \/ IsAtLastStop(t) \/ IsContinued(t) \/ IsEnding(t) \/ HasEnded(t)
  BY AtCall DEF Works, Stops, Joins
<1>2. ~IsHeld(t) /\ ~IsDead(t)
  BY <1>1 DEF IsHeld, IsDead, Inside, IsLetGo, IsAtLastStop, IsContinued, IsEnding, HasEnded,
              IsOver
<1> QED
  BY <1>2 DEF Lasts

LEMMA WorkServed ==
    ASSUME OneClient, SInv, mgr.pc = "call", mgr'.pc = "call", mgr'.t = mgr.t,
           UNCHANGED <<shared, child, client>>,
           mgr'.call = mgr.call \/ (mgr.call = "stop" /\ mgr'.call = "join"),
           mgr.call # "request" => Scanned' = Scanned,
           \A t \in Threads: t # mgr.t => thread'[t] = thread[t] /\ proc'[t] = proc[t],
           \A t \in Threads: t = mgr.t => Works(t)'
    PROVE  Served'
<1>1. PICK t \in Threads: t = mgr.t
  BY AtCall
<1>2. UNCHANGED <<REQUEST, close, me>>
  BY DEF shared, me
<1>3. (Taken' <=> Taken) /\ (Asked' <=> Asked) /\ (Answered' <=> Answered)
  BY <1>2 DEF Taken, Asked, Answered, Accepting
<1>4. Exchange'
  BY <1>2, <1>3 DEF SInv, Served, Exchange
<1>5. Meaning'
  BY <1>2, <1>3 DEF SInv, Served, Meaning, Subject
<1>6. Mine'
  BY <1>2 DEF SInv, Served, Mine
<1>7. Asked \/ Answered => mgr.call # "request"
  BY DEF Asked, Answered, SInv, Served, Exchange, Taken, Accepting, Awaiting
<1>8. \A u \in Threads: u # t => Keeps(u) /\ Lasts(u)
  BY <1>1, UnmovedKeeps
<1>9. mgr.call # "request" => Lasts(t)
  <2>1. mgr.call # "request" => Leaving(t)'
    BY <1>1 DEF Works, Stops, Joins, Leaving
  <2> QED
    BY <1>1, <2>1, LeavingLasts
<1>10. Asked \/ Answered => Lasts(Subject)
  BY <1>7, <1>8, <1>9, Sent
<1>11. AskedInTime' /\ AnsweredTruly'
  BY <1>2, <1>3, <1>10, AskedStays, AnsweredStays
<1>12. OthersRest'
  <2> SUFFICES ASSUME NEW u \in Threads, ~Attends(u)' PROVE Rests(u)'
    BY DEF OthersRest
  <2>1. u # t /\ ~Attends(u)
    BY <1>1 DEF Attends
  <2>2. Rests(u) /\ Keeps(u)
    BY <1>8, <2>1 DEF SInv, Served, OthersRest
  <2> QED
    BY <2>2 DEF Rests, Keeps
<1>13. AtWork'
  BY <1>1 DEF AtWork, Works
<1> QED
  BY <1>4, <1>5, <1>6, <1>11, <1>12, <1>13 DEF Served

\* A step of the call, with what it has of the thread's record and its process.
LEMMA CallServed ==
    ASSUME OneClient, SInv, NEW t \in Threads, t = mgr.t,
           M_Signal \/ M_WaitFails \/ M_WaitExited \/ M_WaitStopped \/ M_WaitContinued,
           Works(t)'
    PROVE  Served'
<1>1. mgr.pc = "call" /\ UNCHANGED <<shared, child, client>>
  BY DEF M_Signal, M_WaitFails, M_WaitExited, M_WaitStopped, M_WaitContinued, Calling
<1>2. mgr'.pc = "call" /\ mgr'.t = mgr.t /\ mgr'.call = mgr.call /\ mgr'.i = mgr.i
  BY <1>1, Sent DEF M_Signal, M_WaitFails, M_WaitExited, M_WaitStopped, M_WaitContinued, Calling,
     ManagerRecord
<1>3. Scanned' = Scanned
  BY <1>1, <1>2 DEF Scanned, shared
<1>4. \A u \in Threads: u # mgr.t => thread'[u] = thread[u] /\ proc'[u] = proc[u]
  BY Sent DEF M_Signal, M_WaitFails, M_WaitExited, M_WaitStopped, M_WaitContinued
<1> QED
  BY <1>1, <1>2, <1>3, <1>4, WorkServed

\* A signal sets a pause, a resumption or an end going.
LEMMA SignalServed ==
    ASSUME OneClient, SInv, M_Signal
    PROVE  Served' /\ Head(mgr.todo) \in {"SIGSTOP", "SIGCONT"}
<1>1. mgr.pc = "call" /\ Head(mgr.todo) \in Signals /\ mgr.todo # <<>>
  BY DEF M_Signal, Calling
<1>2. PICK t \in Threads: t = mgr.t
  BY <1>1, AtCall
<1>3. Works(t) /\ proc[t] \in Process
  BY <1>1, <1>2, AtCall
<1>4. /\ proc'[t] = Signalled(proc[t], Head(mgr.todo)) /\ mgr'.todo = Tail(mgr.todo)
      /\ mgr'.call = mgr.call /\ me' = me /\ thread' = thread /\ child' = child
  BY <1>2, Sent DEF M_Signal, ManagerRecord, me
<1>5. CASE mgr.call = "request" /\ me.request = "threadPause" /\ Pauses(t)
  <2>1. mgr.todo = <<"SIGSTOP", "STOP">> /\ (IsRunning(t) \/ IsDead(t))
    BY <1>1, <1>5 DEF Pauses, Signals
  <2>2. /\ Head(mgr.todo) = "SIGSTOP" /\ mgr'.todo = <<"STOP">>
        /\ proc'[t] = Signalled(proc[t], "SIGSTOP")
    BY <1>4, <2>1
  <2>3. IsRunning(t) => IsStopping(t)'
    <3>1. IsRunning(t) => /\ proc'[t].state = "stopped"
                          /\ proc'[t].stopEvent /\ ~proc'[t].contEvent
      BY <1>3, <2>2, SignalledBy DEF IsRunning
    <3> QED
      BY <1>4, <3>1 DEF IsRunning, IsStopping, Inside
  <2>4. IsDead(t) => IsDead(t)'
    <3>1. IsDead(t) => proc'[t] = proc[t]
      BY <1>3, <2>2, SignalledBy DEF IsDead, IsOver, Alive
    <3> QED
      BY <1>4, <3>1 DEF IsDead, IsOver
  <2>5. Works(t)'
    BY <1>4, <1>5, <2>1, <2>2, <2>3, <2>4 DEF Works, Serves, Pauses
  <2> QED
    BY <1>2, <2>2, <2>5, CallServed
<1>6. CASE mgr.call = "request" /\ me.request = "threadResume" /\ Resumes(t)
  <2>1. mgr.todo = <<"SIGCONT", "CONTINUE">> /\ (IsHeld(t) \/ IsDead(t))
    BY <1>1, <1>6 DEF Resumes, Signals
  <2>2. /\ Head(mgr.todo) = "SIGCONT" /\ mgr'.todo = <<"CONTINUE">>
        /\ proc'[t] = Signalled(proc[t], "SIGCONT")
    BY <1>4, <2>1
  <2>3. IsHeld(t) => IsResuming(t)'
    <3>1. IsHeld(t) => /\ proc'[t].state = "running"
                       /\ ~proc'[t].stopEvent /\ proc'[t].contEvent
      BY <1>3, <2>2, SignalledBy DEF IsHeld
    <3> QED
      BY <1>4, <3>1 DEF IsHeld, IsResuming, Inside
  <2>4. IsDead(t) => IsDead(t)'
    <3>1. IsDead(t) => proc'[t] = proc[t]
      BY <1>3, <2>2, SignalledBy DEF IsDead, IsOver, Alive
    <3> QED
      BY <1>4, <3>1 DEF IsDead, IsOver
  <2>5. Works(t)'
    BY <1>4, <1>6, <2>1, <2>2, <2>3, <2>4 DEF Works, Serves, Resumes
  <2> QED
    BY <1>2, <2>2, <2>5, CallServed
<1>7. CASE mgr.call = "join" /\ Joins(t)
  <2>1. mgr.todo = <<"SIGCONT", "CONTINUE", "JOIN">> /\ IsAtLastStop(t)
    BY <1>1, <1>7 DEF Joins, Signals
  <2>2. /\ Head(mgr.todo) = "SIGCONT" /\ mgr'.todo = <<"CONTINUE", "JOIN">>
        /\ proc'[t] = Signalled(proc[t], "SIGCONT")
    BY <1>4, <2>1
  <2>3. IsContinued(t)'
    <3>1. proc'[t].state = "running" /\ ~proc'[t].stopEvent /\ proc'[t].contEvent
      BY <1>3, <2>1, <2>2, SignalledBy DEF IsAtLastStop
    <3> QED
      BY <1>4, <2>1, <3>1 DEF IsAtLastStop, IsContinued
  <2>4. Works(t)'
    BY <1>4, <1>7, <2>2, <2>3 DEF Works, Joins
  <2> QED
    BY <1>2, <2>2, <2>4, CallServed
<1>8. ~Creates(t) /\ ~Stops(t)
  BY <1>1 DEF Creates, Stops, Signals
<1> QED
  BY <1>3, <1>5, <1>6, <1>7, <1>8 DEF Works, Serves

\* A waitid fails: what it was to wait for is over.
LEMMA WaitFailsServed ==
    ASSUME OneClient, SInv, M_WaitFails
    PROVE  Served'
<1>1. mgr.pc = "call" /\ Head(mgr.todo) \in Waits /\ mgr.todo # <<>>
  BY DEF M_WaitFails, Calling
<1>2. PICK t \in Threads: t = mgr.t
  BY <1>1, AtCall
<1>3. Works(t) /\ proc[t] \in Process
  BY <1>1, <1>2, AtCall
<1>4. /\ mgr'.todo = <<>> /\ mgr'.call = mgr.call /\ me' = me
      /\ UNCHANGED <<thread, child, proc>>
  BY Sent DEF M_WaitFails, ManagerRecord, me
<1>5. /\ ~Alive(proc[t])
      /\ proc[t].state = "zombie" => "WEXITED" \notin Flags(Head(mgr.todo))
  BY <1>2, <1>3 DEF M_WaitFails, ECHILD, Alive
<1>6. Keeps(t)
  BY <1>4, UnmovedKeeps
<1>7. CASE mgr.call = "request"
  <2>1. IsDead(t) /\ me.request \in {"threadPause", "threadResume"}
    BY <1>1, <1>3, <1>5, <1>7
       DEF Works, Serves, Creates, Pauses, Resumes, Stops, Joins, IsStarting, IsStopping,
           IsResuming, IsHeld, IsRunning, Alive
  <2>2. Works(t)'
    BY <1>4, <1>6, <1>7, <2>1 DEF Keeps, Works, Serves, Pauses, Resumes
  <2> QED
    BY <1>2, <2>2, CallServed
<1>8. CASE mgr.call = "stop"
  BY <1>1, <1>3, <1>5, <1>8 DEF Works, Stops, IsLetGo, Alive
<1>9. CASE mgr.call = "join"
  <2>1. \/ mgr.todo = <<"CONTINUE", "JOIN">> /\ IsContinued(t)
        \/ mgr.todo = <<"JOIN">> /\ IsEnding(t)
    BY <1>1, <1>3, <1>5, <1>9 DEF Works, Joins, IsAtLastStop, Alive
  <2>2. ~(mgr.todo = <<"JOIN">> /\ IsEnding(t))
    BY <1>5 DEF IsEnding, Flags, Alive
  <2>3. HasEnded(t)'
    BY <1>4, <1>5, <2>1, <2>2 DEF IsContinued, HasEnded, IsOver, Alive
  <2>4. Works(t)'
    BY <1>4, <1>9, <2>3 DEF Works, Joins
  <2> QED
    BY <1>2, <2>4, CallServed
<1> QED
  BY <1>3, <1>7, <1>8, <1>9 DEF Works

LEMMA WaitExitedServed ==
    ASSUME OneClient, SInv, M_WaitExited
    PROVE  Served'
<1>1. mgr.pc = "call" /\ Head(mgr.todo) \in Waits /\ mgr.todo # <<>>
  BY DEF M_WaitExited, Calling
<1>2. PICK t \in Threads: t = mgr.t
  BY <1>1, AtCall
<1>3. Works(t) /\ proc[t] \in Process /\ thread[t] \in ThreadObject
  BY <1>1, <1>2, AtCall
<1>4. "WEXITED" \in Flags(Head(mgr.todo)) /\ proc[t].state = "zombie"
      /\ proc[t].end = "exited"
  BY <1>1, <1>2, AtCall DEF M_WaitExited, ReportsExit
<1>5. /\ mgr'.todo = Tail(mgr.todo) /\ mgr'.call = mgr.call /\ me' = me /\ child' = child
      /\ proc'[t].state = "reaped"
      /\ thread'[t].status = "EXITED" /\ thread'[t].died = thread[t].died
  BY <1>2, <1>3, <1>4, Sent DEF M_WaitExited, Reaped, ManagerRecord, me, ThreadObject, Process
<1>6. mgr.call = "join" /\ mgr.todo = <<"JOIN">> /\ IsEnding(t)
  BY <1>1, <1>3, <1>4
     DEF Works, Serves, Creates, Pauses, Resumes, Stops, Joins, Waits, Flags
<1>7. HasEnded(t)'
  BY <1>4, <1>5, <1>6 DEF IsEnding, HasEnded, IsOver
<1>8. Works(t)'
  BY <1>5, <1>6, <1>7 DEF Works, Joins
<1> QED
  BY <1>2, <1>8, CallServed

LEMMA WaitStoppedServed ==
    ASSUME OneClient, SInv, M_WaitStopped
    PROVE  Served'
<1>1. mgr.pc = "call" /\ Head(mgr.todo) \in Waits /\ mgr.todo # <<>>
  BY DEF M_WaitStopped, Calling
<1>2. PICK t \in Threads: t = mgr.t
  BY <1>1, AtCall
<1>3. Works(t) /\ proc[t] \in Process /\ thread[t] \in ThreadObject /\ Quiet(proc[t])
  BY <1>1, <1>2, AtCall
<1>4. "WSTOPPED" \in Flags(Head(mgr.todo)) /\ proc[t].stopEvent /\ Alive(proc[t])
  BY <1>2, <1>3 DEF M_WaitStopped, ReportsStop, Quiet
<1>5. mgr.todo = <<"STOP">>
  BY <1>1, <1>3, <1>4
     DEF Works, Serves, Creates, Pauses, Resumes, Stops, Joins, Waits, Flags, IsEnding
<1>6. Head(mgr.todo) = "STOP" /\ Tail(mgr.todo) = <<>>
  BY <1>5
<1>7. /\ mgr'.todo = <<>> /\ mgr'.call = mgr.call /\ UNCHANGED <<REQUEST, me, child>>
      /\ proc'[t] = [proc[t] EXCEPT !.stopEvent = FALSE]
      /\ thread'[t] = [thread[t] EXCEPT !.status = "STOPPED"]
  BY <1>2, <1>6, Sent DEF M_WaitStopped, StopReported, ManagerRecord, me, shared
<1>8. /\ proc'[t].state = proc[t].state /\ ~proc'[t].stopEvent
      /\ proc'[t].contEvent = proc[t].contEvent
      /\ thread'[t].status = "STOPPED" /\ thread'[t].died = thread[t].died
      /\ thread'[t].killable = thread[t].killable
  BY <1>3, <1>7 DEF Process, ThreadObject
<1>9. Works(t)'
  <2>1. CASE mgr.call = "request" /\ me.request = "threadCreate" /\ IsStarting(t)
    <3>1. IsHeld(t)' /\ child'[t].pc = "started"
      BY <1>4, <1>7, <1>8, <2>1 DEF IsStarting, IsHeld, Inside
    <3>2. REQUEST.reply = t
      BY <1>3, <2>1 DEF Works, Serves
    <3> QED
      BY <1>7, <2>1, <3>1, <3>2 DEF Works, Serves, Creates
  <2>2. CASE mgr.call = "request" /\ me.request = "threadPause" /\ IsStopping(t)
    <3>1. IsHeld(t)'
      BY <1>4, <1>7, <1>8, <2>2 DEF IsStopping, IsHeld, Inside
    <3> QED
      BY <1>7, <2>2, <3>1 DEF Works, Serves, Pauses
  <2>3. CASE mgr.call = "stop" /\ IsLetGo(t)
    <3>1. IsAtLastStop(t)'
      BY <1>4, <1>7, <1>8, <2>3 DEF IsLetGo, IsAtLastStop
    <3> QED
      BY <1>7, <2>3, <3>1 DEF Works, Stops
  <2>4. ~IsDead(t)
    BY <1>4 DEF IsDead, IsOver, Alive
  <2> QED
    BY <1>3, <1>5, <2>1, <2>2, <2>3, <2>4
       DEF Works, Serves, Creates, Pauses, Resumes, Stops, Joins
<1> QED
  BY <1>2, <1>9, CallServed

LEMMA WaitContinuedServed ==
    ASSUME OneClient, SInv, M_WaitContinued
    PROVE  Served'
<1>1. mgr.pc = "call" /\ Head(mgr.todo) \in Waits /\ mgr.todo # <<>>
  BY DEF M_WaitContinued, Calling
<1>2. PICK t \in Threads: t = mgr.t
  BY <1>1, AtCall
<1>3. Works(t) /\ proc[t] \in Process /\ thread[t] \in ThreadObject /\ Quiet(proc[t])
  BY <1>1, <1>2, AtCall
<1>4. "WCONTINUED" \in Flags(Head(mgr.todo)) /\ proc[t].contEvent /\ Alive(proc[t])
  BY <1>2, <1>3 DEF M_WaitContinued, ReportsContinue, Quiet
<1>5. /\ mgr'.todo = Tail(mgr.todo) /\ mgr'.call = mgr.call /\ me' = me /\ child' = child
      /\ proc'[t] = [proc[t] EXCEPT !.contEvent = FALSE]
      /\ thread'[t] = [thread[t] EXCEPT !.status = "RUNNING"]
  BY <1>2, Sent DEF M_WaitContinued, ContinueReported, ManagerRecord, me
<1>6. /\ proc'[t].state = proc[t].state /\ ~proc'[t].contEvent
      /\ proc'[t].stopEvent = proc[t].stopEvent
      /\ thread'[t].status = "RUNNING" /\ thread'[t].died = thread[t].died
      /\ thread'[t].killable = thread[t].killable
  BY <1>3, <1>5 DEF Process, ThreadObject
<1>7. ~IsDead(t)
  BY <1>4 DEF IsDead, IsOver, Alive
<1>8. \/ /\ mgr.call = "request" /\ me.request = "threadResume"
         /\ mgr.todo = <<"CONTINUE">> /\ IsResuming(t)
      \/ mgr.call = "join" /\ mgr.todo = <<"CONTINUE", "JOIN">> /\ IsContinued(t)
  BY <1>1, <1>3, <1>4, <1>7
     DEF Works, Serves, Creates, Pauses, Resumes, Stops, Joins, Waits, Flags
<1>9. CASE mgr.call = "request" /\ me.request = "threadResume" /\ IsResuming(t)
  <2>1. IsRunning(t)'
    BY <1>5, <1>6, <1>9 DEF IsResuming, IsRunning, Inside
  <2>2. mgr'.todo = <<>>
    <3>1. mgr.todo = <<"CONTINUE">>
      BY <1>8, <1>9
    <3>2. Tail(mgr.todo) = <<>>
      BY <3>1
    <3> QED
      BY <1>5, <3>2
  <2>3. Works(t)'
    BY <1>5, <1>9, <2>1, <2>2 DEF Works, Serves, Resumes
  <2> QED
    BY <1>2, <2>3, CallServed
<1>10. CASE mgr.call = "join" /\ IsContinued(t)
  <2>1. IsEnding(t)'
    BY <1>4, <1>5, <1>6, <1>10 DEF IsContinued, IsEnding, Alive
  <2>2. mgr'.todo = <<"JOIN">>
    <3>1. mgr.todo = <<"CONTINUE", "JOIN">>
      BY <1>8, <1>10
    <3>2. Tail(mgr.todo) = <<"JOIN">>
      BY <3>1
    <3> QED
      BY <1>5, <3>2
  <2>3. Works(t)'
    BY <1>5, <1>10, <2>1, <2>2 DEF Works, Joins
  <2> QED
    BY <1>2, <2>3, CallServed
<1> QED
  BY <1>8, <1>9, <1>10

\* The operation is over.
LEMMA ReturnServed ==
    ASSUME OneClient, SInv, M_Return
    PROVE  Served'
<1>1. /\ mgr.pc = "call" /\ mgr.todo = <<>>
      /\ UNCHANGED <<shared, thread, child, proc, client>>
  BY DEF M_Return
<1>2. UNCHANGED <<REQUEST, QTS_VECTOR, close, me>>
  BY <1>1 DEF shared, me
<1>3. PICK t \in Threads: t = mgr.t
  BY <1>1, AtCall
<1>4. Works(t)
  BY <1>1, <1>3, AtCall
<1>5. \A u \in Threads: Keeps(u) /\ Lasts(u)
  BY <1>1, UnmovedKeeps
<1>6. Mine'
  BY <1>1, <1>2 DEF SInv, Served, Mine
<1>7. \A u \in Threads: u # t => Rests(u)'
  BY <1>1, <1>3, <1>5 DEF SInv, Served, OthersRest, Attends, Rests, Keeps
<1>8. CASE mgr.call = "request"
  <2>1. mgr'.pc = "answered"
    BY <1>8, Sent DEF M_Return, ManagerRecord
  <2>2. Taken /\ Taken' /\ me.pc \in Awaiting /\ ~REQUEST.upload
    BY <1>1, <1>8, <2>1 DEF Taken, SInv, Served, Exchange
  <2>3. Exchange'
    BY <1>1, <1>2, <2>1, <2>2 DEF SInv, Served, Exchange
  <2>4. ~Asked' /\ t = Subject
    BY <1>1, <1>2, <1>3, <1>8, <2>1, <2>2
       DEF Asked, Awaiting, Accepting, SInv, Served, Meaning
  <2>5. Meaning'
    BY <1>2, <2>1, <2>2, <2>4 DEF SInv, Served, Meaning, Subject, Awaiting, Sending
  <2>6. /\ me.request = "threadCreate" =>
              REQUEST.reply = t /\ IsHeld(t) /\ child[t].pc = "started"
        /\ me.request = "threadPause" => IsHeld(t) \/ IsDead(t)
        /\ me.request = "threadResume" => IsRunning(t) \/ IsDead(t)
        /\ me.request \in {"threadCreate", "threadPause", "threadResume"}
    BY <1>1, <1>4, <1>8 DEF Works, Serves, Creates, Pauses, Resumes
  <2>7. AnsweredTruly'
    <3>1. Subject' = t
      BY <1>2, <2>4 DEF Subject
    <3>2. /\ me.request = "threadCreate" => IsHeld(t)' /\ child'[t].pc = "started"
          /\ me.request = "threadPause" => IsHeld(t)' \/ IsDead(t)'
          /\ me.request = "threadResume" => IsRunning(t)' \/ IsDead(t)'
      BY <1>5, <2>6 DEF Keeps
    <3> QED
      BY <1>2, <2>6, <3>1, <3>2 DEF AnsweredTruly, Leaving
  <2>8. OthersRest'
    <3>1. Rests(t)'
      BY <1>5, <2>6 DEF Rests, Keeps
    <3> QED
      BY <1>7, <3>1 DEF OthersRest
  <2> QED
    BY <1>6, <2>1, <2>3, <2>4, <2>5, <2>7, <2>8 DEF Served, AskedInTime, AtWork
<1>9. CASE mgr.call = "stop"
  <2>1. /\ mgr'.pc = "call" /\ mgr'.call = "join" /\ mgr'.t = mgr.t /\ mgr'.i = mgr.i
        /\ mgr'.todo = <<"SIGCONT", "CONTINUE", "JOIN">>
    BY <1>9, Sent DEF M_Return, ManagerRecord, threadResumeAndJoin
  <2>2. IsAtLastStop(t)
    BY <1>1, <1>4, <1>9 DEF Works, Stops
  <2>3. IsAtLastStop(t)'
    BY <1>5, <2>2 DEF Keeps
  <2>4. Works(t)'
    BY <2>1, <2>3 DEF Works, Joins
  <2>5. Scanned' = Scanned
    BY <1>2, <2>1 DEF Scanned
  <2> QED
    BY <1>1, <1>3, <1>9, <2>1, <2>4, <2>5, WorkServed
<1>10. CASE mgr.call = "join"
  <2>1. mgr'.pc = "died" /\ mgr'.t = mgr.t /\ mgr'.i = mgr.i
    BY <1>10, Sent DEF M_Return, ManagerRecord
  <2>2. HasEnded(t)
    BY <1>1, <1>4, <1>10 DEF Works, Joins
  <2>3. t = Scanned /\ Scanned' = Scanned
    BY <1>1, <1>2, <1>3, <1>10, <2>1 DEF SInv, EInv, Awaited, Scanned
  <2>4. HasEnded(t)'
    BY <1>5, <2>2 DEF Keeps
  <2>5. (Taken' <=> Taken) /\ (Asked' <=> Asked) /\ (Answered' <=> Answered)
    BY <1>1, <1>2, <1>10, <2>1 DEF Taken, Asked, Answered, Accepting
  <2>6. Exchange'
    BY <1>1, <1>2, <2>1, <2>5 DEF SInv, Served, Exchange
  <2>7. Meaning'
    BY <1>1, <1>2, <2>1, <2>5 DEF SInv, Served, Meaning, Subject
  <2>8. AskedInTime' /\ AnsweredTruly'
    BY <1>2, <1>5, <2>5, Sent, AskedStays, AnsweredStays
  <2>9. OthersRest'
    BY <1>3, <1>7, <2>1 DEF OthersRest, Attends
  <2>10. AtWork'
    BY <1>3, <2>1, <2>3, <2>4 DEF AtWork
  <2> QED
    BY <1>6, <2>6, <2>7, <2>8, <2>9, <2>10 DEF Served
<1> QED
  BY <1>4, <1>8, <1>9, <1>10 DEF Works

-----------------------------------------------------------------------------
(* The scan.                                                               *)

LEMMA CleanUpServed ==
    ASSUME OneClient, SInv, M_CleanUp
    PROVE  Served'
<1>1. /\ mgr.pc = "scan" /\ ~PassedOver /\ thread[Scanned].killable
      /\ UNCHANGED <<shared, child, proc, client>>
  BY DEF M_CleanUp
<1>2. PICK t \in Threads: t = Scanned
  <2>1. mgr.i > 0
    BY <1>1 DEF PassedOver
  <2> QED
    BY <1>1, <2>1, ScannedIsThread DEF SInv, EInv, IInv
<1>3. UNCHANGED <<REQUEST, QTS_VECTOR, close, me>>
  BY <1>1 DEF shared, me
<1>4. /\ mgr'.pc = "call" /\ mgr'.call = "stop" /\ mgr'.t = t /\ mgr'.todo = <<"STOP">>
      /\ mgr'.i = mgr.i
  BY <1>2, Sent DEF M_CleanUp, ManagerRecord, threadWaitUntilStopped
<1>5. /\ ~thread'[t].killable /\ thread'[t].died = thread[t].died
      /\ thread'[t].status = thread[t].status
      /\ \A u \in Threads: u # t => thread'[u] = thread[u]
  BY <1>2, Sent DEF M_CleanUp, ThreadObject
<1>6. \A u \in Threads: u # t => Keeps(u) /\ Lasts(u)
  BY <1>1, <1>5, UnmovedKeeps
<1>7. IsRunning(t) /\ thread[t].killable
  <2>1. Rests(t)
    BY <1>1 DEF SInv, Served, OthersRest, Attends
  <2>2. ~thread[t].died /\ thread[t].status = "RUNNING" /\ thread[t].killable
    BY <1>1, <1>2 DEF PassedOver, threadIsRunning
  <2> QED
    BY <2>1, <2>2 DEF Rests, IsNew, IsHeld, IsDead
<1>8. IsLetGo(t)'
  BY <1>1, <1>5, <1>7 DEF IsRunning, Inside, IsLetGo
<1>9. Lasts(t)
  <2>1. ~IsHeld(t) /\ ~IsDead(t)
    BY <1>7 DEF IsRunning, IsHeld, IsDead, Inside
  <2> QED
    BY <1>1, <1>8, <2>1 DEF Lasts, Leaving
<1>10. (Taken' <=> Taken) /\ (Asked' <=> Asked) /\ (Answered' <=> Answered)
  BY <1>1, <1>3, <1>4 DEF Taken, Asked, Answered, Accepting
<1>11. Exchange'
  BY <1>1, <1>3, <1>4, <1>10 DEF SInv, Served, Exchange
<1>12. Meaning'
  BY <1>1, <1>3, <1>4, <1>10 DEF SInv, Served, Meaning, Subject
<1>13. Mine'
  BY <1>1, <1>3 DEF SInv, Served, Mine
<1>14. AskedInTime' /\ AnsweredTruly'
  BY <1>3, <1>6, <1>9, <1>10, Sent, AskedStays, AnsweredStays
<1>15. OthersRest'
  BY <1>1, <1>4, <1>6 DEF SInv, Served, OthersRest, Attends, Rests, Keeps
<1>16. AtWork'
  BY <1>4, <1>8 DEF AtWork, Stops
<1> QED
  BY <1>11, <1>12, <1>13, <1>14, <1>15, <1>16 DEF Served

LEMMA DiedServed ==
    ASSUME OneClient, SInv, M_Died
    PROVE  Served'
<1>1. mgr.pc = "died" /\ mgr'.pc = "erase" /\ UNCHANGED <<shared, child, proc, client>>
  BY Sent DEF M_Died, M_Goto, ManagerRecord
<1>2. PICK t \in Threads: t = mgr.t
  BY <1>1, Attended DEF Attends
<1>3. HasEnded(t) /\ t = Scanned
  BY <1>1, <1>2 DEF SInv, Served, AtWork
<1>4. UNCHANGED <<REQUEST, close, me>>
  BY <1>1 DEF shared, me
<1>5. /\ thread'[t].died /\ thread'[t].status = thread[t].status
      /\ \A u \in Threads: u # t => thread'[u] = thread[u]
  BY <1>3, Sent DEF M_Died, ThreadObject
<1>6. \A u \in Threads: u # t => Keeps(u) /\ Lasts(u)
  BY <1>1, <1>5, UnmovedKeeps
<1>7. IsDead(t)'
  BY <1>1, <1>3, <1>5 DEF HasEnded, IsDead, IsOver
<1>8. Lasts(t)
  <2>1. ~IsHeld(t) /\ child[t].pc # "qts"
    BY <1>3 DEF HasEnded, IsOver, IsHeld, Inside
  <2> QED
    BY <1>7, <2>1 DEF Lasts, Leaving
<1>9. (Taken' <=> Taken) /\ (Asked' <=> Asked) /\ (Answered' <=> Answered)
  BY <1>1, <1>4 DEF Taken, Asked, Answered, Accepting
<1>10. Exchange'
  BY <1>1, <1>4, <1>9 DEF SInv, Served, Exchange
<1>11. Meaning'
  BY <1>1, <1>4, <1>9 DEF SInv, Served, Meaning, Subject
<1>12. Mine'
  BY <1>1, <1>4 DEF SInv, Served, Mine
<1>13. AskedInTime' /\ AnsweredTruly'
  BY <1>4, <1>6, <1>8, <1>9, Sent, AskedStays, AnsweredStays
<1>14. OthersRest'
  BY <1>1, <1>2, <1>6, <1>7 DEF SInv, Served, OthersRest, Attends, Rests, Keeps
<1>15. AtWork'
  BY <1>1 DEF AtWork
<1> QED
  BY <1>10, <1>11, <1>12, <1>13, <1>14, <1>15 DEF Served

LEMMA ScanServed ==
    ASSUME OneClient, SInv,
           \/ M_NextPass \/ M_Exit \/ M_SelfRequest \/ M_NoRequest
           \/ M_Skip \/ M_NotKillable \/ M_Erase
    PROVE  Served'
<1>1. /\ mgr.pc \in {"loop", "scan", "erase"}
      /\ mgr'.pc \in {"loop", "exited", "selfRequest", "scan", "erase"}
      /\ mgr'.pc \in {"exited", "selfRequest"} => close
      /\ mgr'.pc = "selfRequest" => M_SelfRequest
      /\ ~M_SelfRequest => REQUEST' = REQUEST
      /\ UNCHANGED <<close, child, client>>
  BY Sent DEF M_NextPass, M_Exit, M_SelfRequest, M_NoRequest, M_Skip, M_NotKillable, M_Erase,
     M_Goto, M_Advance, ManagerRecord, shared
<1>2. me' = me
  BY <1>1 DEF me
<1>3. \A t \in Threads: Keeps(t) /\ Lasts(t)
  <2>1. \A t \in Threads: proc'[t] = proc[t]
    BY Sent, MgrAssumption DEF M_NextPass, M_Exit, M_SelfRequest, M_NoRequest, M_Skip,
       M_NotKillable, M_Erase
  <2>2. thread' = thread \/ thread' = [thread EXCEPT ![Scanned].reaped = TRUE]
    BY DEF M_NextPass, M_Exit, M_SelfRequest, M_NoRequest, M_Skip, M_NotKillable, M_Erase
  <2>3. \A t \in Threads: /\ thread'[t].died = thread[t].died
                          /\ thread'[t].killable = thread[t].killable
                          /\ thread'[t].status = thread[t].status
    BY <2>2, Sent DEF ThreadObject
  <2> QED
    BY <1>1, <2>1, <2>3, UnmovedKeeps
<1>4. ~Taken /\ ~Taken'
  BY <1>1 DEF Taken, Accepting
<1>5. mgr'.pc = "selfRequest" => me.pc \in Exiting
  BY <1>1 DEF SInv, Served, Exchange, Exiting
<1>6. Exchange'
  <2>1. CASE M_SelfRequest
    <3>1. mgr'.pc = "selfRequest" /\ me.pc \in Exiting
      BY <2>1, <1>1, <1>5, Sent DEF M_SelfRequest, M_Goto, ManagerRecord
    <3> QED
      BY <1>2, <1>4, <3>1 DEF Exchange, Exiting
  <2>2. CASE ~M_SelfRequest
    BY <1>1, <1>2, <1>4, <2>2 DEF SInv, Served, Exchange, Exiting
  <2> QED
    BY <2>1, <2>2
<1>7. CASE M_SelfRequest
  <2>1. mgr'.pc = "selfRequest" /\ me.pc \in Exiting
    BY <1>7, <1>1, <1>5, Sent DEF M_SelfRequest, M_Goto, ManagerRecord
  <2>2. ~Asked' /\ ~Answered'
    BY <1>2, <2>1 DEF Asked, Answered, Awaiting, Exiting
  <2>3. Meaning'
    BY <1>2, <2>1 DEF Meaning, Sending, Awaiting, Exiting
  <2> QED
    BY <1>1, <1>3, <1>6, <2>2, <2>3, PassesServed
<1>8. CASE ~M_SelfRequest
  <2>1. REQUEST' = REQUEST
    BY <1>1, <1>8
  <2>2. (Asked' => Asked) /\ (Answered' => Answered)
    BY <1>1, <1>2, <1>4, <2>1 DEF Asked, Answered, Accepting
  <2>3. Meaning'
    BY <1>1, <1>2, <2>1, <2>2 DEF SInv, Served, Meaning, Subject
  <2> QED
    BY <1>1, <1>3, <1>6, <2>1, <2>2, <2>3, PassesServed
<1> QED
  BY <1>7, <1>8

-----------------------------------------------------------------------------
LEMMA NextSpares ==
    ASSUME OneClient, SInv, [Next]_vars
    PROVE  NoneKilled'
<1> SUFFICES ASSUME NEW t \in Threads PROVE proc'[t].end # "killed"
  BY DEF NoneKilled
<1>1. proc[t] \in Process /\ proc[t].end # "killed"
  BY Sent DEF SInv, NoneKilled
<1>2. ASSUME NEW sig \in {"SIGSTOP", "SIGCONT"}
      PROVE  Signalled(proc[t], sig).end = proc[t].end
  BY <1>1, <1>2 DEF Signalled, Process
<1>3. CASE M_Signal
  <2>1. Head(mgr.todo) \in {"SIGSTOP", "SIGCONT"}
    BY <1>3, SignalServed
  <2>2. proc'[t] = proc[t] \/ proc'[t] = Signalled(proc[t], Head(mgr.todo))
    BY <1>3, Sent DEF M_Signal
  <2> QED
    BY <1>1, <1>2, <2>1, <2>2
<1>4. CASE M_WaitExited \/ M_WaitStopped \/ M_WaitContinued
  <2>1. \/ proc'[t] = proc[t]
        \/ proc'[t] = [proc[t] EXCEPT !.state = "reaped"]
        \/ proc'[t] = [proc[t] EXCEPT !.stopEvent = FALSE]
        \/ proc'[t] = [proc[t] EXCEPT !.contEvent = FALSE]
    BY <1>4, Sent DEF M_WaitExited, M_WaitStopped, M_WaitContinued, Reaped, StopReported,
       ContinueReported
  <2> QED
    BY <1>1, <2>1 DEF Process
<1>5. CASE M_threadNew
  <2>1. proc'[t] = proc[t] \/ proc'[t] = Cloned
    BY <1>5, Sent DEF M_threadNew
  <2> QED
    BY <1>1, <2>1 DEF Cloned, NoProcess
<1>6. CASE Manager /\ ~M_Signal /\ ~M_WaitExited /\ ~M_WaitStopped /\ ~M_WaitContinued
           /\ ~M_threadNew
  <2>1. proc' = proc \/ \E p: proc' = [proc EXCEPT ![Mgr] = p]
    BY <1>6 DEF Manager, handleRequest, M_NextPass, M_Exit, M_SelfRequest, M_PickUp, M_NoRequest,
       M_Skip, M_NotKillable, M_CleanUp, M_WaitFails, M_Return, M_Died, M_Erase, M_Write,
       M_Dispatch, M_AssertPackage, M_CloneFails, M_ClearPackage, M_Switch, M_Serve, M_Confused, M_Dies
  <2> QED
    BY <1>1, <2>1, Sent, MgrAssumption
<1>7. CASE (\E c \in Clients: Client(c)) \/ C_Exit \/ C_ExitJoin \/ C_Exited
  <2>1. proc' = proc \/ \E p: proc' = [proc EXCEPT ![Mgr] = p]
    BY <1>7 DEF Client, C_threadNew, C_Ask, sendRequest, C_Write, C_Spin, C_Answered, C_Created,
       C_Orphaned, C_threadJoin, C_Joined, C_Exit, C_ExitJoin, C_Exited
  <2> QED
    BY <1>1, <2>1, Sent, MgrAssumption
<1>8. ASSUME NEW u \in Threads, Suspended(u)
      PROVE  proc'[t].end # "killed"
  <2>1. \/ proc'[t] = proc[t]
        \/ proc'[t] = Signalled(proc[t], "SIGSTOP")
        \/ proc'[t] = Exited(proc[t], child[t].R)
    BY <1>8, Sent DEF OneClient, Suspended, T_Start, T_StopItself, T_Resumed, T_Main, T_Crash,
       T_Killable, T_Killed, T_Ending, T_Return
  <2> QED
    BY <1>1, <1>2, <2>1 DEF Exited, Zombie
<1>9. CASE UNCHANGED vars
  BY <1>1, <1>9 DEF vars
<1> QED
  BY <1>3, <1>4, <1>5, <1>6, <1>7, <1>8, <1>9 DEF Next

LEMMA InitServed ==
    ASSUME OneClient, Init
    PROVE  SInv
<1>1. EInv
  BY InitIInv, InitEnds DEF EInv
<1>2. /\ me.pc = "idle" /\ me.mine = {} /\ mgr.pc = "loop" /\ ~close
      /\ ~REQUEST.upload /\ ~REQUEST.processing
  BY MainAssumption DEF Init, me, EmptyMailbox
<1>3. \A t \in Threads: /\ IsNew(t) /\ proc[t].end # "killed"
  BY MgrAssumption DEF Init, IsNew, NewThread, NoProcess
<1>4. Exchange /\ Meaning /\ Mine /\ AskedInTime /\ AnsweredTruly
  BY <1>2 DEF Exchange, Meaning, Mine, AskedInTime, AnsweredTruly, Asked, Answered, Taken,
              Accepting, Awaiting, Sending
<1>5. OthersRest /\ AtWork
  BY <1>2, <1>3 DEF OthersRest, AtWork, Rests
<1> QED
  BY <1>1, <1>3, <1>4, <1>5 DEF SInv, Served, NoneKilled

LEMMA NextServed ==
    ASSUME OneClient, SInv, [Next]_vars
    PROVE  SInv'
<1>1. EInv' /\ NoneKilled'
  BY NextEnds, NextSpares DEF SInv
<1>2. CASE Manager
  BY <1>1, <1>2, RequestServed, PickUpServed, SignalServed, WaitFailsServed, WaitExitedServed,
     WaitStoppedServed, WaitContinuedServed, ReturnServed, CleanUpServed, DiedServed, ScanServed
     DEF Manager, SInv
<1>3. CASE (\E c \in Clients: Client(c)) \/ C_Exit \/ C_ExitJoin \/ C_Exited
  BY <1>1, <1>3, ClientServed, ExitServed DEF OneClient, SInv
<1>4. CASE \E t \in Threads: Suspended(t)
  BY <1>1, <1>4, SuspendedServed DEF SInv
<1>5. CASE UNCHANGED vars
  <2>1. /\ UNCHANGED <<REQUEST, QTS_VECTOR, close, mgr, me>>
        /\ \A t \in Threads: Keeps(t) /\ Lasts(t)
        /\ UNCHANGED child
    BY <1>5, UnmovedKeeps DEF vars, me
  <2>2. (Taken' <=> Taken) /\ (Asked' <=> Asked) /\ (Answered' <=> Answered)
    BY <2>1 DEF Taken, Asked, Answered
  <2>3. Exchange' /\ Meaning' /\ Mine'
    BY <2>1, <2>2 DEF SInv, Served, Exchange, Meaning, Mine, Subject
  <2>4. AskedInTime' /\ AnsweredTruly'
    BY <2>1, <2>2, Sent, AskedStays, AnsweredStays
  <2>5. OthersRest' /\ AtWork'
    BY <2>1, WorkStays
  <2> QED
    BY <1>1, <2>3, <2>4, <2>5 DEF SInv, Served
<1> QED
  BY <1>2, <1>3, <1>4, <1>5 DEF Next

LEMMA ServedAlways == OneClient => (Spec => []SInv)
<1> SUFFICES ASSUME OneClient PROVE Spec => []SInv
  OBVIOUS
<1>1. Init => SInv
  BY InitServed
<1>2. SInv /\ [Next]_vars => SInv'
  BY NextServed
<1> QED
  BY <1>1, <1>2, PTL DEF Spec

LEMMA DiedIsDead ==
    ASSUME OneClient, SInv, NEW t \in Threads, thread[t].died
    PROVE  IsDead(t)
<1>1. CASE ~Attends(t)
  BY <1>1 DEF SInv, Served, OthersRest, Rests, IsNew, IsHeld, IsRunning, Inside
<1>2. CASE mgr.pc = "call" /\ t = mgr.t
  BY <1>2, AtCall
     DEF Works, Serves, Creates, Pauses, Resumes, Stops, Joins, IsStarting, IsHeld,
         IsStopping, IsResuming, IsRunning, Inside, IsLetGo, IsAtLastStop, IsContinued,
         IsEnding, HasEnded
<1>3. CASE (mgr.pc = "died" /\ t = mgr.t) \/ (mgr.pc = "clearPackage" /\ t = REQUEST.reply)
  BY <1>3 DEF SInv, Served, AtWork, HasEnded, IsStarting
<1> QED
  BY <1>1, <1>2, <1>3 DEF Attends

-----------------------------------------------------------------------------
(* The theorems.                                                           *)

\* A thread that has died has ended, by the exit of its process and with its
\* function's result or as a zombie that is not reaped: what threadJoin may
\* rely on (the clean-up of ExecutionManager_instance).
THEOREM DiedHasEndedCorrect == OneClient => (Spec => []DiedHasEnded)
<1> SUFFICES ASSUME OneClient PROVE Spec => []DiedHasEnded
  OBVIOUS
<1>1. SInv => DiedHasEnded
  <2> HAVE SInv
  <2> SUFFICES ASSUME NEW t \in Threads, thread[t].died
               PROVE  /\ child[t].pc = "over"
                      /\ \/ /\ proc[t].state = "reaped"
                            /\ thread[t].status = "EXITED"
                            /\ thread[t].returnCode = child[t].R % 256
                         \/ /\ proc[t].state = "zombie"
                            /\ thread[t].status = "RUNNING"
                            /\ ~thread[t].reapable /\ t \in Registered
    BY DEF DiedHasEnded
  <2>1. IsDead(t)
    BY DiedIsDead
  <2>2. TrueEnd(t) /\ Tracked(t)
    BY DEF SInv, EInv, IInv, Ending, Tracking
  <2> QED
    BY <2>1, <2>2 DEF IsDead, IsOver, TrueEnd, Tracked
<1> QED
  BY <1>1, ServedAlways, PTL

\* The request and the package the manager reads are those of the one client,
\* which is inside sendRequest: it serves what was asked, for the thread it was
\* asked for (sendRequest, handleRequest).
THEOREM ServesTheSenderCorrect == OneClient => (Spec => []ServesTheSender)
<1> SUFFICES ASSUME OneClient PROVE Spec => []ServesTheSender
  OBVIOUS
<1>1. SInv => ServesTheSender
  <2> HAVE SInv
  <2>1. ASSUME mgr.pc \in {"dispatch", "switch", "package"}
        PROVE  /\ me.pc \in Sending /\ REQUEST.request = me.request
               /\ REQUEST.package = me.package
               /\ mgr.pc = "package" => mgr.request = me.request
    <3>1. mgr.pc \in Accepting
      BY <2>1 DEF Accepting
    <3> QED
      BY <3>1, Accepted DEF Awaiting, Sending
  <2>2. ASSUME mgr.pc = "call", mgr.call = "request"
        PROVE  me.pc \in Sending /\ REQUEST.request = me.request /\ mgr.t = me.package[2]
    <3>1. Taken
      BY <2>2 DEF Taken
    <3> QED
      BY <2>2, <3>1, Sent DEF SInv, Served, Meaning, Subject
  <2> QED
    BY <2>1, <2>2, MainAssumption DEF ServesTheSender, me
<1> QED
  BY <1>1, ServedAlways, PTL

\* When sendRequest returns, what was asked for is done: the new thread is the
\* caller's own and held before its function, the paused one does not run, the
\* resumed one is held by nobody (sendRequest, threadNew, threadPause,
\* threadResume).
THEOREM AnswersAreTrueCorrect == OneClient => (Spec => []AnswersAreTrue)
<1> SUFFICES ASSUME OneClient PROVE Spec => []AnswersAreTrue
  OBVIOUS
<1>1. SInv => AnswersAreTrue
  <2> HAVE SInv
  <2> SUFFICES ASSUME me.pc = "reply"
               PROVE  LET t == Subject
                      IN  /\ me.request = "threadCreate" =>
                                /\ REQUEST.reply = t
                                /\ child[t].pc = "started" /\ proc[t].state = "stopped"
                                /\ thread[t].status = "STOPPED"
                          /\ me.request = "threadPause" => proc[t].state # "running"
                          /\ me.request = "threadResume" =>
                                (proc[t].state = "stopped" => child[t].pc = "ended")
    BY DEF AnswersAreTrue, OneClient, me, Subject, threadIsStopped
  <2>1. /\ me.request = "threadCreate" => /\ REQUEST.reply = Subject /\ IsHeld(Subject)
                                          /\ child[Subject].pc = "started"
        /\ me.request = "threadPause" => IsHeld(Subject) \/ IsDead(Subject)
        /\ me.request = "threadResume" => IsRunning(Subject) \/ Leaving(Subject)
    BY DEF SInv, Served, AnsweredTruly, Answered
  <2> QED
    BY <2>1 DEF IsHeld, IsDead, IsOver, IsRunning, Leaving, IsLetGo, IsAtLastStop, IsContinued,
                IsEnding, HasEnded
<1> QED
  BY <1>1, ServedAlways, PTL

\* What the library reads in t->status, to decide what it may ask of a thread
\* or whether to clean it up, is how its process is, whenever the manager is
\* not in the middle of an operation on it (threadIsStopped, threadIsRunning).
THEOREM StatusIsTrueCorrect == OneClient => (Spec => []StatusIsTrue)
<1> SUFFICES ASSUME OneClient PROVE Spec => []StatusIsTrue
  OBVIOUS
<1>1. SInv => StatusIsTrue
  <2> HAVE SInv
  <2> SUFFICES ASSUME NEW t \in Threads, ~(mgr.pc = "call" /\ mgr.t = t), mgr.pc # "clearPackage"
               PROVE  /\ thread[t].status = "STOPPED" => proc[t].state = "stopped"
                      /\ thread[t].status = "RUNNING" =>
                            \/ proc[t].state = "running"
                            \/ proc[t].state = "zombie" /\ (thread[t].died \/ mgr.pc = "died")
                      /\ thread[t].status = "EXITED" <=> proc[t].state = "reaped"
    BY DEF StatusIsTrue
  <2>1. Rests(t) \/ (HasEnded(t) /\ mgr.pc = "died")
    BY DEF SInv, Served, OthersRest, AtWork, Attends
  <2>2. TrueEnd(t) /\ Tracked(t) /\ proc[t].end # "killed"
    BY DEF SInv, EInv, IInv, Ending, Tracking, NoneKilled
  <2>3. thread[t].status = "EXITED" <=> proc[t].state = "reaped"
    BY <2>2 DEF TrueEnd
  <2>4. proc[t].state = "none" => child[t].pc \in {"free", "qts"}
    BY <2>2 DEF Tracked
  <2> QED
    BY <2>1, <2>3, <2>4
       DEF Rests, IsNew, IsHeld, IsRunning, IsDead, HasEnded, IsOver
<1> QED
  BY <1>1, ServedAlways, PTL

\* The manager never sits in a waitid that nothing will end: what it waits for
\* has been reported, is over, or comes of the thread's own next steps
\* (threadWaitUntilStopped, threadWaitUntilRunning, threadJoin_).
THEOREM WaitsInHopeCorrect == OneClient => (Spec => []WaitsInHope)
<1> SUFFICES ASSUME OneClient PROVE Spec => []WaitsInHope
  OBVIOUS
<1>1. SInv => WaitsInHope
  <2> HAVE SInv
  <2> SUFFICES ASSUME Calling(Waits)
               PROVE  LET p == proc[mgr.t]
                          flags == Flags(Head(mgr.todo))
                      IN  \/ ECHILD(p, flags) \/ ReportsExit(p, flags)
                          \/ ReportsStop(p, flags) \/ ReportsContinue(p, flags)
                          \/ "WSTOPPED" \in flags /\ WillStop(mgr.t)
                          \/ "WEXITED" \in flags /\ WillEnd(mgr.t)
    BY DEF WaitsInHope
  <2>1. mgr.pc = "call" /\ mgr.todo # <<>> /\ Head(mgr.todo) \in Waits
    BY DEF Calling
  <2>2. PICK t \in Threads: t = mgr.t
    BY <2>1, AtCall
  <2>3. Works(t)
    BY <2>1, <2>2, AtCall
  <2>4. \/ /\ Head(mgr.todo) = "STOP"
           /\ IsStarting(t) \/ IsStopping(t) \/ IsDead(t) \/ IsLetGo(t)
        \/ /\ Head(mgr.todo) = "CONTINUE"
           /\ IsResuming(t) \/ IsDead(t) \/ IsContinued(t)
        \/ Head(mgr.todo) = "JOIN" /\ IsEnding(t)
    BY <2>1, <2>3 DEF Works, Serves, Creates, Pauses, Resumes, Stops, Joins, Waits
  <2>5. CASE /\ Head(mgr.todo) = "STOP"
             /\ IsStarting(t) \/ IsStopping(t) \/ IsDead(t) \/ IsLetGo(t)
    <3>1. proc[t].stopEvent \/ proc[t].state \in {"zombie", "reaped"} \/ WillStop(t)
      BY <2>5 DEF IsStarting, IsStopping, IsDead, IsOver, IsLetGo, WillStop
    <3> QED
      BY <2>2, <2>5, <3>1 DEF Flags, ECHILD, ReportsStop
  <2>6. CASE /\ Head(mgr.todo) = "CONTINUE"
             /\ IsResuming(t) \/ IsDead(t) \/ IsContinued(t)
    <3>1. proc[t].contEvent \/ proc[t].state \in {"zombie", "reaped"}
      BY <2>6 DEF IsResuming, IsDead, IsOver, IsContinued
    <3> QED
      BY <2>2, <2>6, <3>1 DEF Flags, ECHILD, ReportsContinue
  <2>7. CASE Head(mgr.todo) = "JOIN" /\ IsEnding(t)
    <3>1. proc[t].state = "zombie" \/ WillEnd(t)
      BY <2>7 DEF IsEnding, WillEnd
    <3> QED
      BY <2>2, <2>7, <3>1 DEF Flags, ReportsExit
  <2> QED
    BY <2>4, <2>5, <2>6, <2>7
<1> QED
  BY <1>1, ServedAlways, PTL
=============================================================================
