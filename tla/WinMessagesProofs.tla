------------------------- MODULE WinMessagesProofs --------------------------
(***************************************************************************)
(* Proofs about WinMessages: types, for any threads; and until two threads *)
(* take at once, whoever posts and whenever they do, that every message is *)
(* returned once but for those posted between the two steps of a removal,  *)
(* and that every call keeps to its bounds but for messages posted between *)
(* its test and its copy.                                                  *)
(***************************************************************************)
EXTENDS WinMessages, TLAPS

USE NullAssumption, TypesAssumption, FiltersAssumption, PostsAssumption

\* What push_front makes of a queue.
LEMMA Pushed ==
    ASSUME NEW q \in Seq(Messages), NEW m \in Messages
    PROVE  LET p == <<m>> \o q
           IN  /\ p \in Seq(Messages)
               /\ Len(p) = Len(q) + 1
               /\ p[1] = m
               /\ \A i \in 2..Len(p): p[i] = q[i - 1]
  OBVIOUS

\* What pop_front leaves of a queue.
LEMMA Popped ==
    ASSUME NEW q \in Seq(Messages), q # <<>>
    PROVE  /\ Tail(q) \in Seq(Messages)
           /\ Len(Tail(q)) = Len(q) - 1 /\ Len(q) \in Nat \ {0}
           /\ \A i \in 1..Len(Tail(q)): Tail(q)[i] = q[i + 1]
           /\ Head(q) = q[1] /\ Head(q) \in Messages
  OBVIOUS

\* A call's record after a step that changes some of it.
LEMMA Updated ==
    ASSUME NEW c \in Calls, NEW pc \in PC
    PROVE  /\ [c EXCEPT !.pc = pc] \in Calls
           /\ \A r \in 0..1: [c EXCEPT !.pc = pc, !.result = r] \in Calls
           /\ [c EXCEPT !.pc = pc, !.min = c.max, !.max = c.min] \in Calls
           /\ \A m \in Messages, r \in 0..1:
                 [c EXCEPT !.msg = m, !.result = r, !.pc = pc] \in Calls
           /\ \A a, b \in Nat, w, r \in BOOLEAN:
                 [c EXCEPT !.pc = pc, !.min = a, !.max = b, !.waits = w, !.remove = r] \in Calls
  BY DEF Calls

\* Goto and Return leave a thread's record a record.
LEMMA GotoReturn ==
    ASSUME thread \in [Threads -> Calls], NEW t \in Threads, NEW pc \in PC, NEW r \in 0..1,
           Goto(t, pc) \/ Return(t, r)
    PROVE  thread' \in [Threads -> Calls]
<1>1. thread[t] \in Calls
  OBVIOUS
<1>2. [thread[t] EXCEPT !.pc = pc] \in Calls
  BY <1>1, Updated
<1>3. [thread[t] EXCEPT !.pc = "idle", !.result = r] \in Calls
  BY <1>1, Updated DEF PC
<1>4. CASE Goto(t, pc)
  BY <1>2, <1>4 DEF Goto
<1>5. CASE Return(t, r)
  BY <1>3, <1>5 DEF Return
<1> QED BY <1>4, <1>5

\* Typing: the variables keep their types in every run.
LEMMA Typing == ASSUME TypeOK, [Next]_vars PROVE TypeOK'
<1> USE DEF TypeOK
<1>1. CASE UNCHANGED vars
  BY <1>1 DEF vars
<1>2. ASSUME NEW t \in Threads, PostMessage(t) PROVE TypeOK'
  <2>1. PICK hwnd \in Windows, message \in Types:
          queue' = <<[id |-> posted + 1, hwnd |-> hwnd, message |-> message]>> \o queue
    BY <1>2 DEF PostMessage
  <2>2. posted + 1 \in 1..MaxPosts
    BY <1>2 DEF PostMessage
  <2>3. [id |-> posted + 1, hwnd |-> hwnd, message |-> message] \in Messages
    BY <2>2 DEF Messages
  <2>4. queue' \in Seq(Messages)
    BY <2>1, <2>3, Pushed
  <2>5. late' \in [copy: SUBSET (1..MaxPosts), pop: SUBSET (1..MaxPosts)]
    BY <1>2, <2>2 DEF PostMessage, Posted
  <2> QED BY <1>2, <2>2, <2>4, <2>5 DEF PostMessage, Posted
<1>3. ASSUME NEW t \in Threads, Call(t) PROVE TypeOK'
  <2>1. PICK filter \in Filters, waits \in BOOLEAN, remove \in BOOLEAN:
          thread' = [thread EXCEPT ![t] =
                       [Idle EXCEPT !.pc = "empty", !.min = filter[1], !.max = filter[2],
                                    !.waits = waits, !.remove = remove]]
    BY <1>3 DEF Call
  <2>2. filter[1] \in Nat /\ filter[2] \in Nat
    OBVIOUS
  <2>3. [Idle EXCEPT !.pc = "empty", !.min = filter[1], !.max = filter[2],
                     !.waits = waits, !.remove = remove] \in Calls
    <3>1. Idle \in Calls
      BY DEF Calls, Idle, PC
    <3> QED BY <3>1, <2>2, Updated DEF PC
  <2> QED BY <1>3, <2>1, <2>3 DEF Call
<1>4. ASSUME NEW t \in Threads, Empty(t) PROVE TypeOK'
  <2>1. thread' \in [Threads -> Calls]
    BY <1>4, GotoReturn DEF Empty, PC
  <2> QED BY <1>4, <2>1 DEF Empty
<1>5. ASSUME NEW t \in Threads, Wait(t) PROVE TypeOK'
  BY <1>5, Updated, thread[t] \in Calls DEF Wait, PC
<1>6. ASSUME NEW t \in Threads, Examine(t) PROVE TypeOK'
  <2>1. Goto(t, "copy") \/ Return(t, 0)
    BY <1>6 DEF Examine
  <2>2. thread' \in [Threads -> Calls]
    BY <2>1, GotoReturn DEF PC
  <2> QED BY <1>6, <2>2 DEF Examine
<1>7. ASSUME NEW t \in Threads, Copy(t) PROVE TypeOK'
  <2>1. Front \subseteq Messages
    BY Popped DEF Front
  <2>2. PICK m \in Messages:
          thread' = [thread EXCEPT ![t].msg = m, ![t].result = 1,
                                   ![t].pc = IF thread[t].remove THEN "pop" ELSE "idle"]
    BY <1>7, <2>1 DEF Copy
  <2>3. PICK pc \in PC:
          thread' = [thread EXCEPT ![t].msg = m, ![t].result = 1, ![t].pc = pc]
    BY <2>2 DEF PC
  <2>4. thread[t] \in Calls /\ 1 \in 0..1
    OBVIOUS
  <2>5. [thread[t] EXCEPT !.msg = m, !.result = 1, !.pc = pc] \in Calls
    BY <2>4, Updated
  <2>6. thread' \in [Threads -> Calls]
    BY <2>3, <2>5
  <2> QED BY <1>7, <2>6 DEF Copy
<1>8. ASSUME NEW t \in Threads, Pop(t) PROVE TypeOK'
  <2>1. queue' \in Seq(Messages)
    BY <1>8, Popped DEF Pop
  <2>2. thread' \in [Threads -> Calls]
    BY <1>8, GotoReturn DEF Pop, PC
  <2>3. delivered' \in [1..MaxPosts -> Nat]
    <3> DEFINE x == thread[t].msg.id
    <3>1. delivered' = [delivered EXCEPT ![x] = delivered[x] + 1]
      BY <1>8 DEF Pop
    <3> HIDE DEF x
    <3>2. CASE x \in 1..MaxPosts
      BY <3>1, <3>2
    <3>3. CASE x \notin 1..MaxPosts
      BY <3>1, <3>3
    <3> QED BY <3>2, <3>3
  <2> QED BY <1>8, <2>1, <2>2, <2>3 DEF Pop
<1>9. ASSUME NEW t \in Threads, DispatchMessage(t) PROVE TypeOK'
  BY <1>9, Updated, thread[t] \in Calls DEF DispatchMessage, Goto, PC
<1>10. ASSUME NEW t \in Threads, EndProc(t) PROVE TypeOK'
  BY <1>10 DEF EndProc, Idle, Calls, PC
<1> QED
  BY <1>1, <1>2, <1>3, <1>4, <1>5, <1>6, <1>7, <1>8, <1>9, <1>10 DEF Next, GetOrPeek

LEMMA InitTyping == Init => TypeOK
<1> SUFFICES ASSUME Init PROVE TypeOK
  OBVIOUS
<1>1. crowd \in BOOLEAN
  BY DEF Init
<1>2. Idle \in Calls
  BY DEF Idle, Calls, PC
<1> QED BY <1>1, <1>2 DEF Init, TypeOK

\* The variables have their types in every state.
THEOREM TypeCorrect == Spec => []TypeOK
BY InitTyping, Typing, PTL DEF Spec

-----------------------------------------------------------------------------
(* Until two threads take at once, only posters come between the steps of  *)
(* one that takes.                                                         *)

\* push_front puts a greater number in front.
Order ==
    /\ \A i, j \in 1..Len(queue): i < j => queue[i].id > queue[j].id
    /\ \A i \in 1..Len(queue): queue[i].id <= posted

\* A thread that takes: what it is to examine, copy and remove is there; what
\* is in front of what it has tested or copied has come late.
SoloOf(t) ==
    LET c == thread[t] IN
        /\ Taking(t) => queue # <<>>
        /\ At(t, "copy") => \/ Head(queue).id \in late.copy
                            \/ Matches(Head(queue).message, c.min, c.max)
        /\ At(t, "pop") => \E k \in 1..Len(queue):
                               /\ queue[k] = c.msg
                               /\ \A i \in 1..k - 1: queue[i].id \in late.pop
        /\ c.msg # NULL =>
              /\ c.pc \in {"pop", "idle", "proc"}
              /\ c.msg.id \in late.copy \/ Matches(c.msg.message, c.min, c.max)

\* One thread takes at a time.
Alone == \A t, u \in Threads: Taking(t) /\ Taking(u) => t = u

Solo == Alone /\ \A t \in Threads: SoloOf(t)

\* Each message is in the queue or has been delivered, or is one that came late.
Once ==
    /\ \A m \in 1..posted: m \in Queued \/ delivered[m] > 0 \/ m \in late.pop
    /\ late.pop = {} => \A m \in 1..MaxPosts:
          delivered[m] = IF m > posted \/ m \in Queued THEN 0 ELSE 1

OnceInv == TypeOK /\ Order /\ (~crowd => Solo /\ Once)

\* A message's number, in and out of the queue.
LEMMA Numbers ==
    ASSUME TypeOK
    PROVE  /\ queue \in Seq(Messages) /\ Len(queue) \in Nat /\ posted \in Nat
           /\ \A i \in 1..Len(queue): queue[i] \in Messages /\ queue[i].id \in 1..MaxPosts
<1>1. queue \in Seq(Messages) /\ posted \in Nat
  BY DEF TypeOK
<1>2. \A i \in 1..Len(queue): queue[i] \in Messages
  BY <1>1
<1> QED BY <1>1, <1>2 DEF Messages

\* What a post makes of the queue.
LEMMA PostedInFront ==
    ASSUME TypeOK, NEW t \in Threads, PostMessage(t)
    PROVE  /\ Len(queue') = Len(queue) + 1
           /\ queue'[1] \in Messages /\ queue'[1].id = posted + 1 /\ Head(queue') = queue'[1]
           /\ \A i \in 2..Len(queue'): queue'[i] = queue[i - 1]
           /\ posted' = posted + 1 /\ posted + 1 \in 1..MaxPosts
           /\ Queued' = Queued \cup {posted + 1}
<1>1. PICK hwnd \in Windows, message \in Types:
        queue' = <<[id |-> posted + 1, hwnd |-> hwnd, message |-> message]>> \o queue
  BY DEF PostMessage
<1> DEFINE new == [id |-> posted + 1, hwnd |-> hwnd, message |-> message]
<1>2. posted' = posted + 1 /\ posted + 1 \in 1..MaxPosts
  BY DEF PostMessage, Posted, TypeOK
<1>3. new \in Messages /\ new.id = posted + 1
  BY <1>2 DEF Messages
<1> HIDE DEF new
<1>4. /\ Len(queue') = Len(queue) + 1 /\ queue'[1] = new
      /\ \A i \in 2..Len(queue'): queue'[i] = queue[i - 1]
  <2>1. queue' = <<new>> \o queue
    BY <1>1 DEF new
  <2> QED BY <2>1, <1>3, Pushed, Numbers
<1>5. Head(queue') = queue'[1]
  <2>1. queue' = <<new>> \o queue
    BY <1>1 DEF new
  <2> QED BY <2>1, <1>3, Numbers
<1>6. ASSUME NEW m PROVE m \in Queued' <=> m \in Queued \/ m = posted + 1
  <2>1. ASSUME NEW i \in 1..Len(queue), queue[i].id = m PROVE m \in Queued'
    <3>1. i + 1 \in 2..Len(queue') /\ queue'[i + 1] = queue[i] /\ i + 1 \in 1..Len(queue')
      BY <1>4, Numbers
    <3> QED BY <3>1, <2>1 DEF Queued
  <2>2. ASSUME NEW j \in 1..Len(queue'), queue'[j].id = m, m # posted + 1 PROVE m \in Queued
    <3>1. j \in 2..Len(queue') /\ j - 1 \in 1..Len(queue)
      BY <1>3, <1>4, <2>2, Numbers
    <3> QED BY <3>1, <1>4, <2>2 DEF Queued
  <2>3. posted + 1 \in Queued'
    <3>1. 1 \in 1..Len(queue')
      BY <1>4, Numbers
    <3> QED BY <3>1, <1>3, <1>4 DEF Queued
  <2> QED BY <2>1, <2>2, <2>3 DEF Queued
<1> QED BY <1>2, <1>3, <1>4, <1>5, <1>6

\* What a removal leaves.
LEMMA TakenFromFront ==
    ASSUME TypeOK, Order, NEW t \in Threads, Pop(t), queue # <<>>
    PROVE  /\ Len(queue') = Len(queue) - 1 /\ Len(queue) > 0
           /\ \A i \in 1..Len(queue'): queue'[i] = queue[i + 1]
           /\ queue[1].id \in Queued /\ Queued' = Queued \ {queue[1].id}
<1>1. queue' = Tail(queue)
  BY DEF Pop
<1>2. /\ Len(queue') = Len(queue) - 1 /\ Len(queue) > 0
      /\ \A i \in 1..Len(queue'): queue'[i] = queue[i + 1]
  BY <1>1, Popped, Numbers
<1>3. 1 \in 1..Len(queue)
  BY <1>2, Numbers
<1>4. \A i \in 2..Len(queue): queue[1].id # queue[i].id
  <2>1. \A i \in 2..Len(queue): queue[1].id > queue[i].id
    BY <1>2, Numbers DEF Order
  <2> QED BY <2>1, <1>3, Numbers
<1>5. ASSUME NEW m PROVE m \in Queued' <=> m \in Queued /\ m # queue[1].id
  <2>1. ASSUME NEW i \in 1..Len(queue), queue[i].id = m, m # queue[1].id PROVE m \in Queued'
    <3>1. i - 1 \in 1..Len(queue')
      BY <2>1, <1>2, Numbers
    <3>2. queue'[i - 1] = queue[i - 1 + 1] /\ i - 1 + 1 = i
      BY <3>1, <1>2
    <3> QED BY <3>1, <3>2, <2>1 DEF Queued
  <2>2. ASSUME NEW j \in 1..Len(queue'), queue'[j].id = m PROVE m \in Queued /\ m # queue[1].id
    <3>1. j + 1 \in 2..Len(queue) /\ queue'[j] = queue[j + 1] /\ j + 1 \in 1..Len(queue)
      BY <1>2, Numbers
    <3> QED BY <3>1, <1>4, <2>2 DEF Queued
  <2> QED BY <2>1, <2>2 DEF Queued
<1> QED BY <1>2, <1>3, <1>5 DEF Queued

\* The other steps leave the queue, and the counts of what was posted and
\* delivered, as they are.
LEMMA OtherSteps ==
    ASSUME NEW t \in Threads,
           Call(t) \/ Empty(t) \/ Wait(t) \/ Examine(t) \/ Copy(t) \/ DispatchMessage(t) \/ EndProc(t)
    PROVE  UNCHANGED <<queue, posted, delivered, late>>
BY DEF Call, Empty, Wait, Examine, Copy, DispatchMessage, EndProc

LEMMA OrderStep == ASSUME TypeOK, Order, [Next]_vars PROVE Order'
<1>1. CASE queue' = queue /\ posted' = posted
  BY <1>1 DEF Order
<1>2. ASSUME NEW t \in Threads, PostMessage(t) PROVE Order'
  <2>1. \A i \in 2..Len(queue'): /\ i - 1 \in 1..Len(queue) /\ queue'[i] = queue[i - 1]
                                 /\ queue'[i].id <= posted /\ queue'[i].id \in Nat
    BY <1>2, PostedInFront, Numbers DEF Order
  <2>2. queue'[1].id = posted + 1 /\ posted' = posted + 1 /\ Len(queue') \in Nat
    BY <1>2, PostedInFront, Numbers
  <2>3. \A i \in 1..Len(queue'): queue'[i].id <= posted'
    BY <2>1, <2>2, Numbers
  <2>4. ASSUME NEW i \in 1..Len(queue'), NEW j \in 1..Len(queue'), i < j
        PROVE  queue'[i].id > queue'[j].id
    <3>1. j \in 2..Len(queue')
      BY <2>4
    <3>2. CASE i = 1
      BY <2>1, <2>2, <3>1, <3>2, Numbers
    <3>3. CASE i # 1
      <4>1. i \in 2..Len(queue') /\ i - 1 < j - 1
        BY <3>3, <2>4
      <4> QED BY <4>1, <3>1, <2>1 DEF Order
    <3> QED BY <3>2, <3>3
  <2> QED BY <2>3, <2>4 DEF Order
<1>3. ASSUME NEW t \in Threads, Pop(t), queue # <<>> PROVE Order'
  <2>1. \A i \in 1..Len(queue'): i + 1 \in 1..Len(queue) /\ queue'[i] = queue[i + 1]
    BY <1>3, TakenFromFront, Numbers
  <2>2. posted' = posted
    BY <1>3 DEF Pop
  <2>3. \A i \in 1..Len(queue'): queue'[i].id <= posted'
    BY <2>1, <2>2 DEF Order
  <2>4. ASSUME NEW i \in 1..Len(queue'), NEW j \in 1..Len(queue'), i < j
        PROVE  queue'[i].id > queue'[j].id
    <3>1. i + 1 < j + 1 /\ i + 1 \in 1..Len(queue) /\ j + 1 \in 1..Len(queue)
      BY <2>1, <2>4
    <3> QED BY <2>1, <3>1 DEF Order
  <2> QED BY <2>3, <2>4 DEF Order
<1>4. ASSUME NEW t \in Threads, Pop(t), queue = <<>> PROVE queue' = queue /\ posted' = posted
  BY <1>4 DEF Pop
<1> QED BY <1>1, <1>2, <1>3, <1>4, OtherSteps DEF Next, GetOrPeek, vars

\* A post: what it puts in front of a thread between two steps is late.
LEMMA PostSolo ==
    ASSUME TypeOK, Solo, NEW t \in Threads, PostMessage(t)
    PROVE  Solo'
<1>0. Alone'
  BY DEF PostMessage, Solo, Alone, Taking
<1> SUFFICES ASSUME NEW u \in Threads PROVE SoloOf(u)'
  BY <1>0 DEF Solo
<1>1. thread' = thread /\ SoloOf(u)
  BY DEF PostMessage, Solo
<1>2. /\ late.copy \subseteq late'.copy /\ (At(u, "copy") => posted + 1 \in late'.copy)
      /\ late.pop \subseteq late'.pop /\ (At(u, "pop") => posted + 1 \in late'.pop)
  BY DEF PostMessage, Posted
<1>3. /\ Head(queue') = queue'[1] /\ queue'[1].id = posted + 1
      /\ Len(queue') = Len(queue) + 1 /\ Len(queue) \in Nat
      /\ \A i \in 2..Len(queue'): queue'[i] = queue[i - 1]
  BY PostedInFront, Numbers
<1>4. queue' # <<>>
  BY <1>3
<1>5. ASSUME At(u, "pop")
      PROVE  \E k \in 1..Len(queue'): /\ queue'[k] = thread[u].msg
                                      /\ \A i \in 1..k - 1: queue'[i].id \in late'.pop
  <2>1. PICK k \in 1..Len(queue): /\ queue[k] = thread[u].msg
                                  /\ \A i \in 1..k - 1: queue[i].id \in late.pop
    BY <1>1, <1>5 DEF SoloOf
  <2>2. k + 1 \in 2..Len(queue') /\ queue'[k + 1] = thread[u].msg
    BY <1>3, <2>1
  <2>3. ASSUME NEW i \in 1..k PROVE queue'[i].id \in late'.pop
    <3>1. CASE i = 1
      BY <3>1, <1>2, <1>3, <1>5
    <3>2. CASE i # 1
      <4>1. i \in 2..Len(queue') /\ i - 1 \in 1..k - 1
        BY <3>2, <1>3
      <4> QED BY <4>1, <2>1, <1>2, <1>3
    <3> QED BY <3>1, <3>2
  <2>4. k + 1 \in 1..Len(queue') /\ k + 1 - 1 = k
    BY <2>2
  <2> QED BY <2>2, <2>3, <2>4
<1> QED BY <1>1, <1>2, <1>3, <1>4, <1>5 DEF SoloOf, Taking, At

\* A step of a thread that takes, when it does not join another.
LEMMA TakerSolo ==
    ASSUME TypeOK, Solo, ~crowd', NEW t \in Threads,
           Call(t) \/ GetOrPeek(t) \/ DispatchMessage(t) \/ EndProc(t)
    PROVE  Solo'
<1> DEFINE c == thread[t]
           d == thread'[t]
<1>1. SoloOf(t)
  BY DEF Solo
<1>2. \A u \in Threads \ {t}: thread'[u] = thread[u]
  BY DEF TypeOK, Call, GetOrPeek, Empty, Wait, Examine, Copy, Pop, DispatchMessage,
         EndProc, Goto, Return
<1>3. Alone'
  <2>1. CASE ~Taking(t)' \/ Taking(t)
    <3>1. \A u \in Threads: Taking(u)' => Taking(u)
      BY <1>2, <2>1 DEF Taking
    <3> QED BY <3>1 DEF Solo, Alone
  <2>2. CASE Taking(t)' /\ ~Taking(t)
    <3>1. Empty(t) /\ queue # <<>>
      <4>1. thread[t].pc \notin {"front", "copy", "pop"} /\ thread'[t].pc \in {"front", "copy", "pop"}
        BY <2>2 DEF Taking
      <4>2. thread[t] \in Calls /\ thread \in [Threads -> Calls]
        BY DEF TypeOK
      <4>3. ~Call(t)
        BY <4>1, <4>2 DEF Call, Idle
      <4>4. ~Wait(t)
        BY <4>1, <4>2 DEF Wait, Calls
      <4>5. ~EndProc(t)
        BY <4>1, <4>2 DEF EndProc, Idle
      <4>6. ~Examine(t) /\ ~Copy(t) /\ ~Pop(t)
        BY <4>1 DEF Examine, Copy, Pop, At
      <4>7. ~DispatchMessage(t)
        BY <4>1, <4>2 DEF DispatchMessage, Goto, Calls
      <4>8. Empty(t)
        BY <4>3, <4>4, <4>5, <4>6, <4>7 DEF GetOrPeek
      <4>9. ~Goto(t, "wait") /\ ~Return(t, 0)
        BY <4>1, <4>2 DEF Goto, Return, Calls
      <4> QED BY <4>8, <4>9 DEF Empty
    <3>2. ~\E u \in Threads: Taking(u)
      BY <3>1 DEF Empty
    <3>3. \A u \in Threads: Taking(u)' => u = t
      BY <1>2, <3>2 DEF Taking
    <3> QED BY <3>3 DEF Alone
  <2> QED BY <2>1, <2>2
<1>4. ASSUME NEW u \in Threads \ {t} PROVE SoloOf(u)'
  <2>1. thread'[u] = thread[u] /\ SoloOf(u)
    BY <1>2 DEF Solo
  <2>2. CASE Pop(t)
    <3>1. ~Taking(u) /\ late' = late
      BY <2>2 DEF Pop, At, Taking, Solo, Alone
    <3> QED BY <2>1, <3>1 DEF SoloOf, Taking, At
  <2>3. CASE queue' = queue /\ late' = late
    BY <2>1, <2>3 DEF SoloOf, Taking, At
  <2> QED BY <2>2, <2>3, OtherSteps DEF GetOrPeek
<1>5. SoloOf(t)'
  <2> USE DEF TypeOK
  <2>1. CASE Call(t)
    <3>1. d.pc = "empty" /\ d.msg = NULL
      BY <2>1 DEF Call, Idle
    <3> QED BY <3>1 DEF SoloOf, Taking, At
  <2>2. CASE Empty(t)
    <3>1. c.pc = "empty" /\ c.msg = NULL /\ queue' = queue
      BY <1>1, <2>2 DEF Empty, At, SoloOf
    <3>2. CASE queue # <<>> /\ Goto(t, "front")
      BY <3>1, <3>2 DEF Goto, Taking, At, SoloOf
    <3>3. CASE Goto(t, "wait")
      BY <3>1, <3>3 DEF Goto, Taking, At, SoloOf
    <3>4. CASE Return(t, 0)
      BY <3>1, <3>4 DEF Return, Taking, At, SoloOf
    <3> QED BY <2>2, <3>2, <3>3, <3>4 DEF Empty
  <2>3. CASE Wait(t)
    <3>1. c.msg = NULL
      BY <1>1, <2>3 DEF Wait, At, SoloOf
    <3>2. d.pc = "empty" /\ d.msg = NULL
      BY <3>1, <2>3 DEF Wait
    <3> QED BY <3>2 DEF SoloOf, Taking, At
  <2>4. CASE Examine(t)
    <3>1. c.pc = "front" /\ c.msg = NULL /\ UNCHANGED <<queue, late>> /\ queue # <<>>
      BY <1>1, <2>4 DEF Examine, At, Taking, SoloOf
    <3>2. CASE Matches(Head(queue).message, c.min, c.max) /\ Goto(t, "copy")
      BY <3>1, <3>2 DEF Goto, Taking, At, SoloOf
    <3>3. CASE Return(t, 0)
      BY <3>1, <3>3 DEF Return, Taking, At, SoloOf
    <3> QED BY <2>4, <3>1, <3>2, <3>3 DEF Examine, Front
  <2>5. CASE Copy(t)
    <3>1. c.pc = "copy" /\ UNCHANGED <<queue, late>> /\ queue # <<>>
      BY <1>1, <2>5 DEF Copy, At, Taking, SoloOf
    <3>2. /\ d.msg = Head(queue) /\ d.min = c.min /\ d.max = c.max
          /\ d.pc \in {"pop", "idle"}
      BY <2>5, <3>1 DEF Copy, Front
    <3>3. Head(queue).id \in late.copy \/ Matches(Head(queue).message, c.min, c.max)
      BY <1>1, <3>1 DEF SoloOf, At
    <3>4. 1 \in 1..Len(queue) /\ queue[1] = Head(queue) /\ 1..(1 - 1) = {}
      BY <3>1, Popped
    <3> HIDE DEF c, d
    <3>5. \E k \in 1..Len(queue): queue[k] = d.msg /\ \A i \in 1..k - 1: queue[i].id \in late.pop
      BY <3>2, <3>4
    <3> QED BY <3>1, <3>2, <3>3, <3>5 DEF SoloOf, Taking, At, c, d
  <2>6. CASE Pop(t)
    <3>1. c.pc = "pop" /\ d.pc = "idle" /\ d.msg = c.msg /\ d.min = c.min /\ d.max = c.max
          /\ late' = late
      BY <2>6 DEF Pop, At, Goto
    <3> QED BY <1>1, <3>1 DEF SoloOf, Taking, At
  <2>7. CASE DispatchMessage(t)
    <3>1. c.pc = "idle" /\ d.pc = "proc" /\ d.msg = c.msg /\ d.min = c.min /\ d.max = c.max
          /\ late' = late
      BY <2>7 DEF DispatchMessage, At, Goto
    <3> QED BY <1>1, <3>1 DEF SoloOf, Taking, At
  <2>8. CASE EndProc(t)
    <3>1. d.pc = "idle" /\ d.msg = NULL
      BY <2>8 DEF EndProc, Idle
    <3> QED BY <3>1 DEF SoloOf, Taking, At
  <2> QED BY <2>1, <2>2, <2>3, <2>4, <2>5, <2>6, <2>7, <2>8 DEF GetOrPeek
<1> QED BY <1>3, <1>4, <1>5 DEF Solo

LEMMA SoloStep == ASSUME TypeOK, Solo, ~crowd', [Next]_vars PROVE Solo'
<1>1. CASE UNCHANGED vars
  BY <1>1 DEF vars, Solo, Alone, SoloOf, Taking, At
<1> QED BY <1>1, PostSolo, TakerSolo DEF Next

\* What is put in the queue is new; what is removed is what was copied, and is
\* counted, or is late.
LEMMA OnceStep == ASSUME TypeOK, Order, Solo, Once, [Next]_vars PROVE Once'
<1>1. CASE UNCHANGED <<queue, posted, delivered, late>>
  BY <1>1 DEF Once, Queued
<1>2. ASSUME NEW t \in Threads, PostMessage(t) PROVE Once'
  <2>1. /\ Queued' = Queued \cup {posted + 1} /\ posted' = posted + 1
        /\ posted + 1 \in 1..MaxPosts /\ posted \in Nat /\ delivered' = delivered
        /\ late.pop \subseteq late'.pop
    BY <1>2, PostedInFront, Numbers DEF PostMessage, Posted
  <2>2. \A m \in 1..posted': m = posted + 1 \/ m \in 1..posted
    BY <2>1
  <2>3. \A m \in Queued: m <= posted /\ m \in Nat
    BY Numbers DEF Queued, Order
  <2>4. ASSUME late'.pop = {}, NEW m \in 1..MaxPosts
        PROVE  delivered'[m] = IF m > posted' \/ m \in Queued' THEN 0 ELSE 1
    <3>1. delivered[m] = IF m > posted \/ m \in Queued THEN 0 ELSE 1
      BY <2>1, <2>4 DEF Once
    <3> QED BY <2>1, <2>3, <3>1
  <2> QED BY <2>1, <2>2, <2>4 DEF Once
<1>3. ASSUME NEW t \in Threads, Pop(t) PROVE Once'
  <2>1. PICK k \in 1..Len(queue): /\ queue[k] = thread[t].msg
                                  /\ \A i \in 1..k - 1: queue[i].id \in late.pop
    BY <1>3 DEF Pop, Solo, SoloOf
  <2>2. queue # <<>> /\ UNCHANGED <<posted, late>>
    BY <1>3 DEF Pop, Solo, SoloOf, Taking, At
  <2> DEFINE h == queue[1].id
             x == queue[k].id
  <2>3. Queued' = Queued \ {h} /\ h \in Queued
    BY <1>3, <2>2, TakenFromFront
  <2>4. x \in 1..MaxPosts /\ x \in Queued
    BY <2>1, Numbers DEF Queued
  <2>5. delivered' = [delivered EXCEPT ![x] = @ + 1] /\ delivered \in [1..MaxPosts -> Nat]
    BY <1>3, <2>1 DEF Pop, TypeOK
  <2>6. h = x \/ h \in late.pop
    BY <2>1, Numbers
  <2>7. posted \in 0..MaxPosts
    BY DEF TypeOK
  <2>12. h <= posted
    BY <2>1, Numbers DEF Order
  <2> HIDE DEF h, x
  <2>8. \A m \in 1..MaxPosts: delivered'[m] = IF m = x THEN delivered[x] + 1 ELSE delivered[m]
    BY <2>4, <2>5
  <2>9. ASSUME NEW m \in 1..posted PROVE m \in Queued' \/ delivered'[m] > 0 \/ m \in late.pop
    <3>1. m \in Queued \/ delivered[m] > 0 \/ m \in late.pop
      BY DEF Once
    <3>2. m \in 1..MaxPosts /\ delivered[m] \in Nat /\ delivered[x] \in Nat
      BY <2>4, <2>5, <2>7
    <3> QED BY <3>1, <3>2, <2>3, <2>6, <2>8
  <2>10. ASSUME late.pop = {}, NEW m \in 1..MaxPosts
         PROVE  delivered'[m] = IF m > posted \/ m \in Queued' THEN 0 ELSE 1
    <3>1. h = x
      BY <2>6, <2>10
    <3>2. \A n \in 1..MaxPosts: delivered[n] = IF n > posted \/ n \in Queued THEN 0 ELSE 1
      BY <2>10 DEF Once
    <3>3. CASE m = x
      <4>1. delivered'[m] = 1
        BY <2>3, <2>4, <2>8, <3>1, <3>2, <3>3
      <4> QED BY <4>1, <2>3, <2>4, <2>7, <2>12, <3>1, <3>3
    <3>4. CASE m # x
      BY <2>3, <2>8, <3>1, <3>2, <3>4
    <3> QED BY <3>3, <3>4
  <2>11. \A m \in 1..posted': m \in 1..posted
    BY <2>2
  <2> QED BY <2>2, <2>9, <2>10, <2>11 DEF Once
<1> QED BY <1>1, <1>2, <1>3, OtherSteps DEF Next, GetOrPeek, vars

\* That two threads have taken at once is never forgotten.
LEMMA CrowdStays == ASSUME [Next]_vars, ~crowd' PROVE ~crowd
<1>1. CASE UNCHANGED crowd
  BY <1>1
<1>2. ASSUME NEW t \in Threads, Empty(t) PROVE ~crowd
  BY <1>2 DEF Empty
<1> QED
  BY <1>1, <1>2 DEF Next, GetOrPeek, vars, PostMessage, Call, Wait, Examine, Copy, Pop,
                    DispatchMessage, EndProc

\* The inductive invariant.
LEMMA OnceAlways == Spec => []OnceInv
<1>1. Init => OnceInv
  <2> SUFFICES ASSUME Init PROVE OnceInv
    OBVIOUS
  <2>1. TypeOK
    BY InitTyping
  <2>2. Order /\ Once
    BY DEF Init, Order, Once, Queued
  <2>3. Solo
    BY DEF Init, Solo, Alone, SoloOf, Idle, Taking, At
  <2> QED BY <2>1, <2>2, <2>3 DEF OnceInv
<1>2. ASSUME OnceInv, [Next]_vars PROVE OnceInv'
  <2>1. TypeOK' /\ Order'
    BY <1>2, Typing, OrderStep DEF OnceInv
  <2>2. ASSUME ~crowd' PROVE Solo' /\ Once'
    BY <1>2, <2>2, CrowdStays, SoloStep, OnceStep DEF OnceInv
  <2> QED BY <2>1, <2>2 DEF OnceInv
<1> QED BY <1>1, <1>2, PTL DEF Spec

\* Until two threads take at once, and however many post, no message is lost or
\* returned twice but for those posted between the copy and the removal of
\* another.
THEOREM ExactlyOnceUnlessLateCorrect == Spec => []ExactlyOnceUnlessLate
<1>1. ASSUME OnceInv PROVE ExactlyOnceUnlessLate
  <2>1. \A m \in 1..posted: m \in 1..MaxPosts /\ ~(m > posted)
    BY <1>1 DEF OnceInv, TypeOK
  <2> QED BY <1>1, <2>1 DEF OnceInv, Once, ExactlyOnceUnlessLate
<1> QED BY <1>1, OnceAlways, PTL

\* Until two threads take at once, and however many post, what a call with
\* bounds returns is WM_QUIT or between them, the second being the lower, but
\* for messages posted between its test and its copy.
THEOREM TestedUnlessLateCorrect == Spec => []TestedUnlessLate
<1>1. ASSUME OnceInv PROVE TestedUnlessLate
  <2> SUFFICES ASSUME ~crowd, NEW t \in Threads, thread[t].msg # NULL,
                      thread[t].msg.id \notin late.copy,
                      <<thread[t].min, thread[t].max>> # <<0, 0>>
               PROVE  \/ thread[t].msg.message = WM_QUIT
                      \/ thread[t].msg.message \in thread[t].max..thread[t].min
    BY DEF TestedUnlessLate
  <2>1. Matches(thread[t].msg.message, thread[t].min, thread[t].max)
    BY <1>1 DEF OnceInv, Solo, SoloOf
  <2>2. thread[t] \in Calls
    BY <1>1 DEF OnceInv, TypeOK
  <2>3. thread[t].msg \in Messages /\ thread[t].min \in Nat /\ thread[t].max \in Nat
    BY <2>2 DEF Calls
  <2>4. thread[t].msg.message \in Nat
    BY <2>3 DEF Messages
  <2> QED BY <2>1, <2>3, <2>4 DEF Matches
<1> QED BY <1>1, OnceAlways, PTL
=============================================================================
