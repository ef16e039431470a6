---------------------------- MODULE WinMessages -----------------------------
(***************************************************************************)
(* The messages of WinAPI: one deque for all threads, which PostMessage    *)
(* puts messages in and GetMessage and PeekMessage take them from, both at *)
(* the front, and DispatchMessage, which calls the window's WndProc.       *)
(*                                                                         *)
(* Nothing guards the deque.  Each of its calls (empty, front, pop_front,  *)
(* push_front) is a step here, as if they did not tear each other, but the *)
(* up to three calls of front in the tests of one message are one.  Every  *)
(* thread posts and takes when it likes, also between the steps in which   *)
(* another examines, copies and removes a message.                         *)
(***************************************************************************)
EXTENDS Integers, Sequences

CONSTANTS
    Threads,     \* that post and take messages
    Windows,     \* HWNDs
    NULL,        \* a null HWND, and no message
    Types,       \* the messages' numbers
    WM_QUIT,     \* the one that no filter keeps back
    Filters,     \* the bounds that a call may give, as it gives them
    MaxPosts     \* bound: messages that are posted

ASSUME NullAssumption      == NULL \notin Windows
ASSUME TypesAssumption     == Types \subseteq Nat \ {0} /\ WM_QUIT \in Types
ASSUME FiltersAssumption   == Filters \subseteq Nat \X Nat
ASSUME PostsAssumption     == MaxPosts \in Nat

VARIABLES
    queue,      \* WINDOWS_MESSAGE_QUEUE, its front first
    thread,     \* where each thread is, and its call's parameters and locals
    posted,     \* how many messages have been put in the queue
    delivered,  \* history: how often each was returned by a call that removes
    late,       \* history: those posted when a thread was between two steps
    crowd       \* history: two threads have been between such steps at once

vars == <<queue, thread, posted, delivered, late, crowd>>

Messages == [id: 1..MaxPosts, hwnd: Windows, message: Types]

\* idle: in no call.  empty, front, copy, pop: before that step of GetMessage
\* or PeekMessage.  wait: in the loop of GetMessage.  proc: in a WndProc.
PC == {"idle", "empty", "front", "copy", "pop", "wait", "proc"}

Calls == [pc: PC, min: Nat, max: Nat, waits: BOOLEAN, remove: BOOLEAN,
          msg: Messages \cup {NULL}, result: 0..1]

TypeOK ==
    /\ queue \in Seq(Messages)
    /\ thread \in [Threads -> Calls]
    /\ posted \in 0..MaxPosts
    /\ delivered \in [1..MaxPosts -> Nat]
    /\ late \in [copy: SUBSET (1..MaxPosts), pop: SUBSET (1..MaxPosts)]
    /\ crowd \in BOOLEAN

Idle == [pc |-> "idle", min |-> 0, max |-> 0, waits |-> FALSE,
         remove |-> FALSE, msg |-> NULL, result |-> 0]

Init ==
    /\ queue = <<>>
    /\ thread = [t \in Threads |-> Idle]
    /\ posted = 0
    /\ delivered = [m \in 1..MaxPosts |-> 0]
    /\ late = [copy |-> {}, pop |-> {}]
    /\ crowd = FALSE

-----------------------------------------------------------------------------
Taking(t) == thread[t].pc \in {"front", "copy", "pop"}

At(t, pc) == thread[t].pc = pc

Goto(t, pc) == thread' = [thread EXCEPT ![t].pc = pc]

Return(t, result) == thread' = [thread EXCEPT ![t].pc = "idle", ![t].result = result]

\* A message in the queue before a thread copies what it has tested, or before
\* it removes what it has copied.
Posted == LET id == posted + 1
              Late(pc) == IF \E t \in Threads: At(t, pc) THEN {id} ELSE {}
          IN  /\ posted' = id
              /\ late' = [copy |-> late.copy \cup Late("copy"), pop |-> late.pop \cup Late("pop")]

\* Mutant: a message without a window is queued like any.
PostMessage_Null(t) ==
    /\ thread[t].pc \in {"idle", "proc"}
    /\ posted < MaxPosts
    /\ \E hwnd \in Windows \cup {NULL}, message \in Types:
          queue' = <<[id |-> posted + 1, hwnd |-> hwnd, message |-> message]>> \o queue
    /\ Posted
    /\ UNCHANGED <<thread, delivered, crowd>>

\* By a thread, or by the WndProc it is in; CreateWindowEx posts as well.
\* Without a window it is PostThreadMessage, which does nothing.
PostMessage(t) ==
    /\ thread[t].pc \in {"idle", "proc"}
    /\ posted < MaxPosts
    /\ \E hwnd \in Windows, message \in Types:
          queue' = <<[id |-> posted + 1, hwnd |-> hwnd, message |-> message]>> \o queue
    /\ Posted
    /\ UNCHANGED <<thread, delivered, crowd>>

\* A call of GetMessageA or GetMessageW, which gives the bounds in the other
\* order, or of PeekMessage.  A WndProc posts and does not call them.
Call(t) ==
    /\ At(t, "idle")
    /\ \E filter \in Filters, waits, remove \in BOOLEAN:
          /\ waits => remove
          /\ thread' = [thread EXCEPT ![t] =
                          [Idle EXCEPT !.pc = "empty", !.min = filter[1], !.max = filter[2],
                                       !.waits = waits, !.remove = remove]]
    /\ UNCHANGED <<queue, posted, delivered, late, crowd>>

Empty(t) ==
    /\ At(t, "empty")
    /\ \/ /\ queue # <<>>
          /\ Goto(t, "front")
          /\ crowd' = (crowd \/ \E u \in Threads: Taking(u))
       \/ queue = <<>> /\ thread[t].waits /\ Goto(t, "wait") /\ UNCHANGED crowd
       \/ queue = <<>> /\ ~thread[t].waits /\ Return(t, 0) /\ UNCHANGED crowd
    /\ UNCHANGED <<queue, posted, delivered, late>>

\* Mutant: the queue is looked at before the loop only.
Wait_Once(t) ==
    /\ At(t, "wait")
    /\ queue # <<>>
    /\ UNCHANGED vars

\* while (empty()) {}, and then GetMessageA with the bounds exchanged.
Wait(t) ==
    /\ At(t, "wait")
    /\ queue # <<>>
    /\ thread' = [thread EXCEPT ![t].pc = "empty",
                                ![t].min = thread[t].max, ![t].max = thread[t].min]
    /\ UNCHANGED <<queue, posted, delivered, late, crowd>>

\* Mutant: one bound is enough.
Matches_Either(message, min, max) ==
    \/ min = 0 /\ max = 0
    \/ message = WM_QUIT
    \/ message <= min \/ message >= max

Matches(message, min, max) ==
    \/ min = 0 /\ max = 0
    \/ message = WM_QUIT
    \/ message <= min /\ message >= max

\* What a thread that comes after another has emptied the deque finds at its
\* front is any message; pop_front then leaves it as it is.
Front == IF queue = <<>> THEN Messages ELSE {Head(queue)}

Examine(t) ==
    /\ At(t, "front")
    /\ \E m \in Front: IF Matches(m.message, thread[t].min, thread[t].max)
                       THEN Goto(t, "copy") ELSE Return(t, 0)
    /\ UNCHANGED <<queue, posted, delivered, late, crowd>>

Copy(t) ==
    /\ At(t, "copy")
    /\ \E m \in Front:
          thread' = [thread EXCEPT ![t].msg = m, ![t].result = 1,
                                   ![t].pc = IF thread[t].remove THEN "pop" ELSE "idle"]
    /\ UNCHANGED <<queue, posted, delivered, late, crowd>>

\* Mutant: pop_back.
Pop_Back(t) ==
    /\ At(t, "pop")
    /\ queue' = IF queue = <<>> THEN queue ELSE SubSeq(queue, 1, Len(queue) - 1)
    /\ delivered' = [delivered EXCEPT ![thread[t].msg.id] = @ + 1]
    /\ Goto(t, "idle")
    /\ UNCHANGED <<posted, late, crowd>>

Pop(t) ==
    /\ At(t, "pop")
    /\ queue' = IF queue = <<>> THEN queue ELSE Tail(queue)
    /\ delivered' = [delivered EXCEPT ![thread[t].msg.id] = @ + 1]
    /\ Goto(t, "idle")
    /\ UNCHANGED <<posted, late, crowd>>

\* DispatchMessage is SendMessage: the window's WndProc runs in this thread.
DispatchMessage(t) ==
    /\ At(t, "idle")
    /\ thread[t].result = 1
    /\ Goto(t, "proc")
    /\ UNCHANGED <<queue, posted, delivered, late, crowd>>

\* The WndProc returns.
EndProc(t) ==
    /\ At(t, "proc")
    /\ thread' = [thread EXCEPT ![t] = Idle]
    /\ UNCHANGED <<queue, posted, delivered, late, crowd>>

GetOrPeek(t) == Empty(t) \/ Wait(t) \/ Examine(t) \/ Copy(t) \/ Pop(t)

Next == \E t \in Threads:
    PostMessage(t) \/ Call(t) \/ GetOrPeek(t) \/ DispatchMessage(t) \/ EndProc(t)

\* A thread in GetMessage or PeekMessage goes on.
Fairness == \A t \in Threads: WF_vars(GetOrPeek(t))

Spec == Init /\ [][Next]_vars

FairSpec == Spec /\ Fairness

-----------------------------------------------------------------------------
(* Correctness.                                                            *)

Queued == {queue[i].id: i \in 1..Len(queue)}

\* As long as no two threads take at once, a call copies the front and removes
\* it in two steps, and a message posted in between is what it removes.
\* Nothing else is lost, and if that has not happened either, every message has
\* been returned once or is still in the queue (GetMessageA, PeekMessageA;
\* PostMessageA at any time).
ExactlyOnceUnlessLate ==
    ~crowd =>
        /\ \A m \in 1..posted: m \in Queued \/ delivered[m] > 0 \/ m \in late.pop
        /\ late.pop = {} =>
              \A m \in 1..posted: delivered[m] = IF m \in Queued THEN 0 ELSE 1

\* As long as no two threads take at once, a call returns the front as it is
\* after the test, which may be a message posted since.  Any other one it
\* returns is WM_QUIT or between the bounds, the second of which is taken for
\* the lower (GetMessageA, PeekMessageA).
TestedUnlessLate ==
    ~crowd => \A t \in Threads: LET c == thread[t] IN
        c.msg # NULL /\ c.msg.id \notin late.copy /\ <<c.min, c.max>> # <<0, 0>> =>
            c.msg.message = WM_QUIT \/ c.msg.message \in c.max..c.min

\* A call whose bounds the message at the front lies between, the lower first
\* as the parameters' names have it, does not return without it.  This fails, since
\* Matches has it the other way round.
InRangeIsTaken ==
    [][\A t \in Threads:
          /\ At(t, "front") /\ queue # <<>>
          /\ Head(queue).message \in thread[t].min..thread[t].max
          => thread'[t].pc # "idle"]_vars

\* A thread that waits in GetMessage returns when there is a message and no
\* other thread comes to take one (the loop and the recursion of GetMessageA).
WaitEnds ==
    \A t \in Threads:
        (At(t, "wait") /\ queue # <<>>) ~>
            (thread[t].pc \in {"idle", "proc"} \/ \E u \in Threads \ {t}: Taking(u))
=============================================================================
