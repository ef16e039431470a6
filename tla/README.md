# A TLA+ model of WinAPI and its thread libraries

The repository implements a part of the Windows API on Linux: windows messages,
kernel objects and handles, processes and threads. Under it lie three small
libraries of its own, `libthread` (an *execution manager*, a process that owns
the threads of a program), `libstack` (their stacks) and `libthread_safe`
(values behind a lock). This directory holds TLA+ modules translated from that
code, the TLC configurations that check them, and theorems about them that the
TLA+ proof system checks.

Paths below are relative to the repository's root; `EM.cpp` is
`src/Windows/threads/libthread/src/ExecutionManager.cpp` and `EM.h` its header
`src/Windows/threads/libthread/include/thread/internal/ExecutionManager.h`.

    tlc -workers 2 -config one_client.cfg MCExecutionManager    # a run
    tlc -workers 2 -config suspend.cfg MCWinThreads
    tlapm ExecutionManagerProofs.tla                            # proofs
    tlapm ManagerEndsProofs.tla
    tlapm ManagerServesProofs.tla
    tlapm ThreadServiceProofs.tla
    tlapm ManagerStartupProofs.tla
    tlapm HandleTableProofs.tla
    tlapm WinThreadsProofs.tla
    tlapm WinMessagesProofs.tla

`PROJECT.json` lists the runs, the mutant that breaks each property, the source
lines each definition stands for, the hazards, the findings and the theorems.

## 1. Inventory

| component | state it keeps | operations | talks to |
|---|---|---|---|
| Execution manager (`EM.cpp`) | `REQUEST` (a mailbox of one slot), `QTS_VECTOR`, `close`, a `Thread` per thread, all in memory shared by `clone(CLONE_VM)` | client side: `threadNew`, `threadJoin`, `threadPause`, `threadResume`, ... , `executionManager_Terminate`; manager side: `ExecutionManager_instance`, `handleRequest`, `threadNew_` and the `thread*` methods; thread side: `suspended` | the kernel (`clone`, `kill`, `waitid`), the program, the stacks |
| Start-up (`QINIT`, EM.cpp:118) | `isRunning`, `thread`, the first entry of `QTS_VECTOR` | `QINIT`, the first lines of `ExecutionManager_instance` | the execution manager |
| Kernel table and handles (`Kernel/*.cpp`) | a table of pages of `Object`s, handles that point at them | `Table::add`, `findObject`, `DELETE`, pages; `newHandle`, `CloseHandle`, `CompareObjectHandles` | threads and processes, which put objects in it |
| WinAPI threads (`WindowsAPIThread.cpp`) | a `THREAD_INFO` per thread, with its suspend count; the mutex and the objects of a thread pool | `CreateThread`, `threadpool::add`, `SuspendThread`, `ResumeThread`; `PTHREAD_MAIN`, which nothing reaches | the execution manager, the kernel table |
| WinAPI processes (`WindowsAPIProcess.cpp`) | `PID_LAST`, an object in the kernel table | `CreateProcessA`, `PROCESS_MAIN` | the kernel table, `CreateThread` |
| WinAPI messages (`WindowsAPIMessage.cpp`, `WindowsAPIHander.cpp`) | one global deque of messages | `PostMessageA`, `GetMessageA`, `PeekMessageA`, `SendMessageA`, `DispatchMessageA`, `CreateWindowExA` | the window procedures |
| Locker (`Locker.cpp`) | one boolean, `LOCK` | `lock`, `unlock` | its callers |
| Stacks (`libstack`) | `size`, `top`, direction | `alloc`, `free`, direction test | `threadNew_` and `QINIT` |
| `thread_safe` (`libthread_safe`) | a mutex, an owner, a value | `lock`, `unlock`, scoped locks; `store`, `load`, the fetch operations | the program |
| Demonstrations (`timer.*`, `m.cpp`), printing, copied headers | none that the rest uses | | |

### What is hard, and what would make each part correct

**Execution manager.** A client never makes, stops or joins a thread itself. It
writes a request into the mailbox, `sendRequest` (EM.cpp:150-166), and spins on
two flags; the manager, in between two entries of its scan of `QTS_VECTOR`, sees
`upload`, serves the request with `kill` and `waitid`, and clears the flags. The
thread's own process writes `status` and `killable` and stops itself twice, and
the manager's scan lets a thread whose function has returned run to its end,
reaps it, marks it `died` and erases it. Nothing is locked. So:

- a request must be served as it was sent, and the answer must be true when
  `sendRequest` returns, although three kinds of processes write the memory both
  are in;
- `status`, on which the scan and `threadIsRunning` decide, must be true of the
  process, although the process and the manager both write it;
- the manager must not wait for what cannot happen, since while it waits no
  request is served and no thread ends;
- `died` must mean that the function has returned, the process is reaped and
  `returnCode` is what was returned;
- every process that exists must be in `QTS_VECTOR`, once, or nobody will reap
  it; an erase must take away the right one, and never the manager;
- requests and joins must return, and the manager must end with the program.

**Start-up.** The manager is cloned running; the stop that is to hold it until
it is registered is sent afterwards. What it reads first must be there, and the
request each client sends next must find a manager.

**Kernel table and handles.** Objects are found by comparing *values*; the
table grows and shrinks by pages; handles count references. A handle must go on
pointing at its own object until it is closed, and the object must live exactly
as long as its handles.

**WinAPI threads and processes.** `CreateThread` calls the `threadNew` that
takes a pointer to a function (EM.cpp:793-795), and that one calls itself:
nothing after WindowsAPIThread.cpp:44 is ever reached, no `PTHREAD_MAIN` runs, and
`CreateProcessA` never gets past its line 64. What is left is a suspend count, in
a `THREAD_INFO` that a program makes for itself, over an asynchronous pause and
resume. Only the steps from 0 and to 0 reach the execution manager; the count
must say whether the thread is held, whatever the manager and the thread are at.

**Messages.** A deque that is read through filters, in steps (the test, the copy
and the removal of the front), while other threads post at the front at any time;
`GetMessageA` waits by spinning, and restarts itself with the bounds exchanged. A
message posted must be returned once, one that is returned must have passed the
filter, and a reader that waits must wake.

**Locker, `thread_safe`, stacks.** Section 6 says why these are not modelled.

PROJECT.json lists these hazards one by one at their lines.

## 2. Plan

Order: the part on which all the others stand, and where the concurrency is,
first. All of it is done.

| module | contents |
|---|---|
| `LinuxProcess` | the semantics of `clone`, `kill`, `waitid` that `EM.cpp` uses |
| `ExecutionManager` | the mailbox, the manager, the threads, the clients |
| `ThreadService` | what `libthread` promises one careful client; `ExecutionManager` implements it |
| `ExecutionManagerProofs` | typing, `RegisteredOnce`, `ForgetsOnlyTheDead` |
| `ManagerEndsProofs` | `EndsAreTrue`, from the invariant of `ExecutionManagerProofs` |
| `ManagerServesProofs` | for one careful client: the answers, `status`, `died` and the manager's waits |
| `ThreadServiceProofs` | from its invariant, the refinement of `ThreadService` |
| `ManagerStartup` | `QINIT` against the manager's first steps, and each client's first request |
| `ManagerStartupProofs` | its invariants |
| `HandleService` | what handles promise: each keeps an object of its own |
| `HandleTable` | kernel objects by value, handles, pages; implements `HandleService` |
| `HandleTableProofs` | its invariants, for any callers and for those of unlike objects, and the refinement |
| `WinThreads` | `CreateThread`, `SuspendThread`, `ResumeThread`, as clients of the manager: over `ExecutionManager` |
| `WinThreadsProofs` | `WinThreads` implements `ExecutionManager`; its types |
| `WinMessages` | the deque of messages, its filters and its waiting readers |
| `WinMessagesProofs` | its invariants, for any number of threads and messages, until two threads take at once |

`MC*` modules give TLC values of the constants. What is proved, and what only
model-checked, is in section 5, what is left out in section 6.

## 3. The modules

### LinuxProcess

What the Linux kernel does for the library; no code of the repository, so every
definition is external. A process is `none`, `running`, `stopped`, `zombie` or
`reaped`. With it go how it ended and its eight-bit exit code, a stop and a
continuation that have not been reported to a `waitid`. A SIGTERM ends a process that
runs; sent to a stopped one it is dropped, where the kernel would keep it until the
process is continued: nothing in the repository terminates a thread that is
stopped. `ReportsExit`, `ReportsStop`,
`ReportsContinue` and `ECHILD` say what a `waitid` with given flags does: it
reports, fails, or, when none of them holds, blocks.

### ExecutionManager

| variable | code |
|---|---|
| `REQUEST` | `ExecutionManager::REQUEST` (EM.h:64-74) |
| `QTS_VECTOR`, `close` | the fields of the same names |
| `current` | `executionManager_Current != nullptr` |
| `thread[t]` | the `Thread` object of `t` (EM.h:14-40) |
| `child[t]` | where `t` is in `suspended` (EM.cpp:57-89), and its local `R` |
| `proc[t]`, `proc[Mgr]` | the process, a `LinuxProcess` |
| `mgr` | where the manager is, `i` of the scan, the thread it is operating on, the system calls still to make |
| `client[c]` | where `c` is in `sendRequest`, `threadNew`, `threadJoin` or `executionManager_Terminate`, its arguments and its handles |

*Actions.* `T_*` are the steps of `suspended`; `C_*` those of a client;
`M_*` those of the manager. Each write or read that another process can see is a
step of its own: the five stores of `sendRequest` are five actions, the stores
of `staticHandleRequest` likewise, its reads of `request` and of `package` are two
(`M_Switch` and what follows it), and each `kill` or `waitid` is one. The program's
exit takes three: `close` is stored (`C_Exit`); `executionManager_Current` is
dereferenced (`C_ExitJoin`), which crashes the program if the manager has left and
nulled it by then; and the manager's process is waited for (`C_Exited`). The
eleven operations (`threadPause`, `threadResumeAndJoin`, ...) are sequences of
system calls, as `EM.cpp:393-777` makes them, in operators of the same names;
`M_Signal` and the `M_Wait*` actions carry a sequence out. An operation returns at once when a
`waitid` fails, as in the code, whatever remained of it.

*Modelling decisions.*

- Memory is sequentially consistent. The flags are plain `bool`s, the build is
  a debug one without optimisation (the spins would otherwise be undefined
  behaviour's to remove) and x86 keeps stores in order; what is found wrong here
  is wrong without any reordering.
- `struct QTS` and its `Thread` have one name. They are made and registered
  together in `threadNew_`, and a pointer's kind is kept in the mailbox, where
  the difference matters.
- `threadNew_`'s clone and its `push_back` are one step. Between the two only the
  new thread can act, and nothing it does before its first stop reads
  `QTS_VECTOR`.
- A SIGSTOP sent by `kill` from the manager stops its target at once. That the
  manager always waits for the stop next makes an arrival a little later
  indistinguishable to it; in `ManagerStartup`, where nobody waits, the delay
  is modelled.
- The function of a thread returns some `R` of `Results`, or with the fault
  `"crash"` dies of a signal; with `"clone"`, cloning may fail. `Results` is
  `{1, 257}` where the run is about return codes, since 257 is 1 in an exit
  status.
- `Careful` clients look before they ask: they pause what `threadIsRunning`,
  resume what `threadIsStopped`, join what runs or has died, and leave `main`
  when all they made has died. Without it, clients ask anything of any of
  their threads at any time.
- Clients are processes of the program that share its memory. The repository's
  tests use the library from one; the WinAPI layer on top calls it from threads
  too, hence a second client in two runs.

No bound is needed in the guards: threads are made from the finite set
`Threads`, each at most once, and everything else is finite with them.

### ThreadService

What a program would say it uses: a thread is absent, made, returned or dead;
it may be held; and the one client is inside of at most one call (`create`,
`pause`, `resume`, `join`), which names a thread. A thread is held and released
only by a call that is being made for it, does not return or die while it is
held, and no call ends before it is done.

`ImplementsService` instantiates it in `ExecutionManager`, for one careful
client, with `phase` read off where the thread is in `suspended` and off `died`,
`held` off its process, and `call` off where the client is in `sendRequest` or
`threadJoin`. The stop that a thread makes of itself at its end is the library's
own and no holding.

### ManagerStartup

`QINIT` by each of several clients, step by step (test and set of `isRunning`,
clone, SIGSTOP, `push_back`, `thread`, SIGCONT), the later delivery of the stop,
and `ExecutionManager_instance` up to its first scan: the read of
`thread->pid` and the three assertions (EM.cpp:281-285). A client `c` that gets
that far makes the manager named `c`. Whatever `QINIT` returned, the client then
sends its first request, since `threadNew` does not look at it, and spins until a
manager that scans serves it. The mailbox, `mail`, has one slot: `sendRequest`
overwrites a request that has not been served, and `handleRequest` serves the one
that is there.

`StartsWell` names what may go wrong in `QINIT`: `clone` fails, a manager
reads `thread` before it is set, or two clients find `isRunning` unset and each
clone one. `AssertionsHold` says that nothing else makes the manager's
assertions fail. `FirstRequestServed` says that every client's first request is
served under `StartsWell` and `OneAtATime`: no client sends its request while
another's waits. Each of the two is needed, and a client that has not called the
library need not do so.

It is a module of its own because afterwards nothing in it changes any more:
`ExecutionManager` starts in the state it leaves when it goes well.

### HandleTable and HandleService

| variable | code |
|---|---|
| `table` | `Table::table`, a vector of pointers (slot = index + 1) |
| `object[o]` | the `Object` at address `o`: whether it is allocated, its description, its count of handles |
| `handle[h]` | `Handle::object`; `NULL` means `invalidated` too, since `CloseHandle` sets both |
| `owner[p]` | the pointer and the index kept by code that makes objects without a handle, as `CreateProcessA` and `threadpool::add` do (a program may as well) |
| `ended` | `~Kernel` has run |

*Actions.* `newHandle`, `CloseHandle`, `newObject` (with the `findObject` its
callers make at once), `deleteObject` by pointer, `deleteAtIndex` by index,
`allocate`, and `removeAll`, which is what the destructors do.
`CompareObjectHandles` changes nothing and is an operator.

*Modelling decisions.*

- `remove` and `findObject` look for the first slot that holds an *equal*
  object, as the code does; `Compare` is `Object::compare`. The type, the flags
  and the resource of an object are one value, its description. Its name is left
  out, because nothing sets one: `clean` and `compare` then do nothing with it.
- `new` returns any address not in use, so an address may be used again while an
  old pointer to it is still kept. Reading through a pointer to a deleted object
  gives any description and a count of 0 or 1 (`Read`).
- A closed `Handle` is never freed by the code. The model uses it again as a new
  one, which keeps the handles few and the behaviours long.
- `Unlike` callers make no object equal to one there is. Nothing in the code ensures
  it. The resources of the objects that the repository makes are newly allocated,
  but nothing keeps a resource as long as its object: the `THREAD_INFO` in
  `CreateThread`'s handle would be deleted by `PTHREAD_MAIN` while the handle is open,
  if either were reached, and its address given again. And the resource
  that `newHandle(type)` gives is null.
- `deleteAtIndex` is written as `PROCESS_MAIN` deletes its object, by the index
  `findObject` gave; no run of the code gets there, but a program may do the same.
- One process uses the table at a time. It has no lock, and by several at once
  any of its steps may be lost.
- `allocate` is called with a size that keeps the slots of the indices that
  owners hold; the code would read beyond the vector otherwise.

`HandleService` is the summary at the head of `WindowsAPIHandle.cpp` as a
specification: a new handle gets an object of its own, and closing it destroys
that object and no other. `ImplementsService` instantiates it with
`live <- Live`, `open <- handle`, `own` the objects of `owner`.

### WinThreads

The module extends `ExecutionManager`, of which the clients are now programs that
use WinAPI. The manager, the threads and the clients' steps in libthread are those
of that module; in place of its `C_Ask`, by which a client asks for what it likes,
come `SuspendThread` and `ResumeThread`.

| variable | code |
|---|---|
| `call[c]` | where `c` is in `CreateThread`: nowhere, before the mutex of `threadpool::add`, holding it, or in the `threadNew` that calls itself |
| `count[t]` | `THREAD_INFO::suspend_count` of thread `t` |
| `uncounted` | history: the threads that `SuspendThread` has paused at count 0 |

*Actions.* `CreateThread`, `Lock` and `Overflow` are all there is of
`CreateThread`: the call, the `lock_guard`, and the recursion, which uses up the
stack or loops, as the compiler has it, and is not left in the model.
`NewInfo` is a program that makes a thread by the `threadNew` which does not recurse
(it takes a `std::function`) and a `THREAD_INFO` for it, counted as the end of
`add` would. `SuspendThread` and `ResumeThread` are translated line by line; each
ends in a `sendRequest` or in none.

*Modelling decisions.*

- The only `THREAD_INFO`s that reach `SuspendThread` and `ResumeThread` are those a
  program makes. `CreateThread` returns none.
- A handle is used by the client that made the thread, and the module has no handles.
  What a handle must keep is `HandleTable`'s subject.
- The objects that `add` puts in its pool before line 44 are left out: nobody
  reads them.

### WinMessages

| variable | code |
|---|---|
| `queue` | `WINDOWS_MESSAGE_QUEUE`, its front first |
| `thread[t]` | where `t` is in `GetMessage` or `PeekMessage`, the call's bounds, `PM_REMOVE`, `*lpMsg` and the result |
| `posted`, `delivered` | how many messages were posted, and (history) how often each was taken |
| `late` | history: the messages posted while a thread was between its test and its copy, or between its copy and its `pop_front` |
| `crowd` | history: two threads have been between `empty` and `pop_front` at once |

*Actions.* `PostMessage`; `Call`; and the steps of the body of `GetMessageA` and
`PeekMessageA`, which are the same but for the wait: `Empty`, `Examine`, `Copy`,
`Pop`, and `Wait`, which restarts the call with the bounds exchanged, as the
recursion of line 38 does. `DispatchMessage` runs the window's `WndProc` in the
same thread, and `EndProc` leaves it; a `WndProc` may post.

*Modelling decisions.*

- A call of the deque (`empty`, `front`, `pop_front`, `push_front`) is one step.
  Two at once would be undefined behaviour of any kind; what is found wrong here
  is wrong with a deque that did lock itself.
- Every thread posts and takes at any time, also between the steps of another that
  takes. What a thread reads at the front of a deque that another has just
  emptied is any message.
- The invariants name, in `late`, what a post in between does: the message that
  is posted then is copied without a test, or popped in place of the one copied.
  They say that this is all that goes wrong until two threads take at once
  (`crowd`). Most programs have one message loop, and for them it never holds.
- A message is its window, its number and an identity; `wParam`, `lParam` and
  the rest are carried along and looked at by nobody. `hWnd` is no filter:
  the code does not look at it.
- `MaxPosts` bounds the messages, in the guard of `PostMessage`.

## 4. What the runs check

Deadlock checking is off in all of them: the program may really stop (a client
that has exited, a manager that has died of its own assertion), and what must
not hang is stated as a property.

| run | instance | what it shows |
|---|---|---|
| `one_client` | 1 careful client, 2 threads, pause and resume, result 257, fairness | `RegisteredOnce`, `DiedHasEnded`, `ServesTheSender`, `AnswersAreTrue`, `StatusIsTrue`, `WaitsInHope`, `ForgetsOnlyTheDead` hold, and so does `ImplementsService`: used as the tests use it, the library serves, answers and cleans up as it should. A request is answered unless the manager was too soon (`SendReturnsIfInTime`), `threadJoin` returns (`JoinReturns`), and the program ends unless a zombie was left or the manager has gone before the program asks it for its thread (`TerminateReturnsIfInTime`) |
| `any_request` | 1 client that asks all eleven requests at any time, 1 thread that may crash, a failing clone, results 1 and 257 | `TypeOK`, `RegisteredOnce`, `EndsAreTrue`: the manager may hang or abort, but its data never lies about a process that has ended |
| `two_clients` | 2 careful clients, 2 threads | `RegisteredOnce`, `EndsAreTrue` survive clients that overwrite each other's requests |
| `startup` | 2 clients, a failing clone, fairness | `TypeOK`, `AssertionsHold`, `ScanningIsFirst`, `NoManagerStaysStopped`, `FirstRequestServed` |
| `handles` | 3 handles, 2 owners, 4 addresses, 3 descriptions, pages of 2 slots, `Unlike`; symmetric | `HandleKeepsObject`, `DestroyedWhenUnused`, `IndexIsOwn`, `TableStaysSmall`, `ComparesIdentity` hold, and the table implements `HandleService` |
| `any_object` | 2 handles, 1 owner, 3 addresses, 2 descriptions, equal objects allowed, `allocate` with sizes 0 to 4 | `TypeOK`, `TableIsSound`: the vector stays whole pages of pointers to objects that are there, each once |
| `suspend` | 1 client, 2 threads, a maximum count of 2, any number of `CreateThread`, `SuspendThread`, `ResumeThread`, joins and the exit, fairness | `WinTypeOK`, `CountedIsHeld`: a thread with a count is held, whatever the client, the manager and the other thread do; `ReleasedRuns`: one without runs, but for those `SuspendThread` pauses uncounted |
| `messages` | 2 threads that take and post, 1 window, 2 messages of 3 numbers (one `WM_QUIT`), 4 pairs of bounds, fairness | `TypeOK`, `ExactlyOnceUnlessLate`, `TestedUnlessLate`: until both take at once, what is posted in between is all that goes wrong; `WaitEnds` |
| `lost_wakeup` | 1 client, 1 thread | `SendReturns` violated |
| `lost_result` | 1 client, 1 thread | `DiedIsReaped` violated |
| `resume_and_join` | 1 client that asks for `threadResumeAndJoin`, 1 thread | `ResumeAndJoinReturns` violated |
| `create_thread` | 2 clients, 1 thread, fairness | `CreateThreadReturns` violated |

*Why these bounds.* Two threads are the least for which an erase at the wrong
index, or a mixing of two threads' operations, can be seen, and for an entry to
be passed over after an erase. Two clients are the least that can overwrite each
other. `any_request` has one thread: the operations it is about concern the one
thread they name, and what several threads add (the order in `QTS_VECTOR`) is
`one_client`'s subject and is proved for any number. Pages of two slots and four
addresses make the table grow once, fill up and reuse slots out of order; sizes
0 to 4 make `allocate` shrink, grow and round, across no, one and two pages. For
`suspend`, two threads let the manager serve the suspension of the one while
its scan is at the other, and a maximum count of 2 is the least with a step
between 1 and the maximum; a second client would only overwrite requests, which
is `two_clients`'s subject. Two messages and two threads show a post between any
two steps of a thread that takes, a message buried under a later one, and two
threads that take at once; bounds `<<1, 2>>` and `<<2, 1>>` with the messages 1, 2
and `WM_QUIT` tell the two orders, the equal bounds and the exception apart. The
properties that hold conditionally, `SendReturnsIfInTime`,
`TerminateReturnsIfInTime`, `FirstRequestServed`, `AssertionsHold`, `ReleasedRuns`
and those of the messages, are not vacuous: each has a mutant that breaks it, and
the conditions themselves are what the violated runs and the list below show may
fail.

*Fairness.* The scheduler runs every process that can run, so the manager, each
thread and a client inside a library call are weakly fair. Weakly, because none
of their steps is enabled only now and then: a spin reads a flag that stays as
it is until the spinner moves, and a `waitid` stays able to return. A client need
not begin a call, nor the program end. Fairness of a thread includes that the
function it was given returns. In `ManagerStartup` a signal that was sent is
delivered, too. In `WinThreads` a client that waits for the mutex gets it when it is free.
In `WinMessages` only the steps of a call that has begun are fair:
nobody has to post, to call or to dispatch. `WaitEnds` is about a thread's wait
and so allows for another thread that takes the message first.

### What was found

Four runs end in a violation, each of something the repository says of itself:

1. *Lost wake-up* (`lost_wakeup`, EM.cpp:154). `sendRequest` sets `upload`, which
   the manager looks at, before the two flags the manager clears and the client
   spins on.
2. *Lost result* (`lost_result`, EM.cpp:672). `threadResumeAndJoin` waits for a
   continuation first; if the thread has already ended the wait fails and the
   join is skipped: the return code is lost, the process stays a zombie.
3. *The manager waits for its own scan* (`resume_and_join`, EM.cpp:226). A client of
   libthread asks for `threadResumeAndJoin` of a thread it has made suspended; the
   manager waits for the thread to exit, and the thread for the manager's scan to
   clear `killable`. (`CreateProcessA` contains this request, at
   WindowsAPIProcess.cpp:75, but never gets there: see 4.)
4. *`CreateThread` never returns* (`create_thread`, WindowsAPIThread.cpp:44). It passes
   `PTHREAD_MAIN`, an `int(PVOID)`, which picks the `threadNew` of EM.cpp:793-795
   (the member: 389-391); and that one calls itself, with the mutex of the pool
   held. `CreateProcessA` calls `CreateThread` (WindowsAPIProcess.cpp:64) and goes the
   same way.

More show when a constant or the property of a run is changed; they have no run
of their own:

- *Null package* (EM.cpp:178). With two clients, the manager clears the package
  of the one after the other has written its own, and asserts: `two_clients`
  with `ServesTheSender`.
- *Exit with a thread left* (EM.cpp:301). The manager sends a request to itself
  and spins: `one_client` with `Careful = FALSE` violates
  `TerminateReturnsIfInTime`.
- *Exit through a null pointer* (EM.cpp:53). The program stores `close` and then
  follows `executionManager_Current`; a manager with nothing to look after may have
  seen `close`, left and nulled it (EM.cpp:364) in between: `lost_result` with the
  invariant `ClientsSurvive`.
- *Start-up too early* (EM.cpp:134): the manager may read a null pointer before
  it is stopped: `startup` with an invariant that no manager is `"crashed"`.
- *Two managers, or none* (EM.cpp:119, 130): the test and the set of `isRunning`
  are two steps; in `startup` a second manager is made and dies of the assertion
  of EM.cpp:285, which is what `ScanningIsFirst` rests on. When `clone` fails,
  the first request is never served. Without `StartsWell`, `FirstRequestServed`
  is violated.
- *A first request overwritten* (EM.cpp:151). Two clients that start together leave
  their first requests in one slot, and one is never served, though `QINIT` has
  gone well: without `OneAtATime`, `FirstRequestServed` is violated.
- *The wrong object* (WindowsAPIHandle.cpp:31): of two equal objects, closing the
  handle of the second destroys the first: `handles` with `Unlike = FALSE`
  violates `DestroyedWhenUnused`.
- *Forgotten objects* (WindowsAPITable.cpp:135): `Page::allocate` counts pages
  from zero where `clean` and `zero` count from one: `handles` with
  `Sizes = {4}` violates `DestroyedWhenUnused`.
- *Uncounted suspension* (WindowsAPIThread.cpp:145). The first `SuspendThread` of a
  running thread pauses it and counts nothing, so that `ResumeThread` refuses, and a
  second `SuspendThread` makes the manager wait for ever: `suspend` with the
  invariant `SuspendedIsCounted`. `ReleasedRuns` holds for the other threads.
- *Messages popped in place of others* (WindowsAPIMessage.cpp:25): a message posted, or
  taken by another thread, between the copy and the `pop_front` makes it remove one
  that nobody has been given. `messages` with `late.pop = {}` as the only condition
  of `ExactlyOnceUnlessLate` (two takers at once), or with `~crowd` as the only one
  (a late post), shows each.
- *Bounds the wrong way round* (WindowsAPIMessage.cpp:28): a filter given as
  minimum, maximum matches nothing but equal bounds; `GetMessageW` exchanges them
  and every wait exchanges them again. `messages` with the property
  `InRangeIsTaken` shows it; `TestedUnlessLate` says what remains true.
- A message posted to no window is dropped with the result 1
  (WindowsAPIMessage.cpp:149), and messages are taken at the end at which they are
  posted: the last in is the first out.

## 5. What is proved

`ExecutionManagerProofs` proves, for every value of the constants (any number
of clients and threads, careful or not, any requests, any results, any faults):

- `TypeCorrect`: `Spec => [](TypeOK /\ IndexOK)`. `IndexOK` says that the
  index `i` is inside `QTS_VECTOR` while the body of the loop runs; without it
  `QTS_VECTOR[i]` has no type.
- `RegisteredOnceCorrect`: `Spec => []RegisteredOnce`.
- `ForgetsOnlyTheDeadCorrect`: `Spec => ForgetsOnlyTheDead`.

The assumptions are those the module names: `Main` is a client, `Mgr` is not a
thread, `NULL` is none of the pointers, `Requests`, `Results`, `Careful` and
`Faults` are of their types.

*The argument.* `RegisteredOnce` is not inductive. That `threadNew_` registers
no thread a second time depends on the mailbox: it registers whatever the package
names, and two clients may write it. So `IInv` adds

- `Mail`: a QTS is in the hands of one client only (`OneSender`); one that is
  not in the mailbox yet has no process (`PendingIsNew`); and one that is in the
  mailbox has none either, unless the manager is just about to clear it
  (`PostedIsNew`). So what `threadNew_` takes from the mailbox is new.
- `Tracking`: a thread has a process from `threadNew_` on, is registered while
  that process exists, and is reapable only when it is reaped;
- `Scanning`: the entries of `QTS_VECTOR` are distinct and the first is the
  manager's (`Distinct`, `ManagerFirst`); the manager is current until it exits;
  the clean-up is of an entry with a positive index (`ScansOthers`); and what
  the erase takes away has died (`ErasesTheDead`).

Each action is shown to preserve each part, with one step per action, from
lemmas on what `Append` and `Erased` do to a sequence without repetitions. The
action property is read off the same invariant: only `M_Erase` and `M_Exit`
remove an entry, the one the dead, the other only the manager's own.

TLC checked `IInv` on the instances of `one_client`, `any_request` and
`two_clients` before it was proved.

`ManagerEndsProofs` proves, under the same assumptions and so for clients that
ask anything at any time, functions that crash and clones that fail:

- `EndsAreTrueCorrect`: `Spec => []EndsAreTrue`.

The manager sets `died` at the end of a clean-up in which every `waitid` may have
failed, and looks at none of their results. That the process has ended all the
same follows from what is left to wait for, which the invariant adds to `IInv`:
once the stop is over, the calls to come end in one that waits for an exit
(`Joining`), and a call fails only if its process has ended, so when none is left
the thread scanned does not run, and nothing brings it back (`Awaited`). The
equivalences between `reapable`, `status` and the process need what the kernel
keeps in a zombie until it is reaped: how it ended, and the low eight bits of the
result (`TrueEnd`). TLC checked this invariant, too, on `any_request` and
`two_clients` first.

`ManagerServesProofs` proves, for `OneClient` (the program is one process, which
looks before it asks, asks to pause and to resume, and whose functions return;
any number of threads, any results, `clone` failing or not):

- `DiedHasEndedCorrect`, `ServesTheSenderCorrect`, `AnswersAreTrueCorrect`,
  `StatusIsTrueCorrect`, `WaitsInHopeCorrect`: the invariants of the same names.

`OneClient` is the instance of `one_client`. The tests of libthread (`threadNew`,
then `threadJoin`) are such a client. A program that uses `SuspendThread` is not:
it does not look whether the thread runs. Each part of it is needed: with two clients and two threads
`ServesTheSender` is violated (section 4); a client that does not look first, or
that asks for `threadResumeAndJoin`, violates `WaitsInHope`; and a function that
crashes violates `StatusIsTrue`. TLC shows the last three on one thread. The
inductive invariant, `SInv`, says where one thread is when: a thread
nobody attends to *rests* (it is new, held, running or dead, and `status`,
`killable`, `died`, its process and its unreported stops agree); the manager
attends to at most one at a time, and its place in the sequence of system
calls says how far that one is (starting, stopping, resuming, let go, at its
last stop, continued, ending). The stages are needed because none of the five
invariants says what is true *during* an operation, and each depends on how the one
before it ended: that the wait of a pause returns, on that the kill was sent to
a thread that ran, which the client read from `status` before it asked. The
continuation after the last stop is a race the kernel decides (the thread may be a zombie
before the `waitid` looks); `IsContinued` and `HasEnded` hold both outcomes.

`ThreadServiceProofs` proves `ImplementsServiceCorrect`, `OneClient => (Spec =>
ImplementsService)`, from that invariant. A step of the code is one of the service
or a stutter: the thread's first stop of itself is `Create`, the manager's
`kill` is `Hold` or `Release`, the return of the function `Return`, the store to
`died` `Die`, the client's steps in and out of a call `Begin`, `GoOn` and `End`;
every other step is a stutter. That each of them is *allowed* there is what `SInv` gives: the kill is for
the thread the client's call names, and no call ends before its work is done.

`HandleTableProofs` proves, for any callers, objects equal or not, and any sizes given to
`allocate`:

- `TypeCorrect`: `Spec => []TypeOK`;
- `TableIsSoundCorrect`: `Spec => []TableIsSound`, from `PInv`: the vector is
  whole pages (`Whole`), its slots hold objects that are there, each in one
  (`SlotsHoldLive`), and the index an owner keeps is within it (`IndexInTable`);
- `TableStaysSmallCorrect`, for finitely many addresses and no calls of
  `allocate`: a page is added only when every slot is full, which takes
  `Len(table)` different objects that are there, and so no more than there are.

For every number of addresses, handles and owners,
every set of descriptions and every page size, and under `CarefulCallers`
(`Unlike`, and no calls of `allocate`; what was found shows that neither can
be dropped), it proves:

- `HandleKeepsObjectCorrect`, `DestroyedWhenUnusedCorrect`, `IndexIsOwnCorrect`,
  `ComparesIdentityCorrect`: the invariants of the same names;
- `ImplementsServiceCorrect`: `Spec => ImplementsService`.

The inductive invariant says that each object there is has one slot (`Placed`),
that no two are equal (`Unequal`), and that each is kept by a handle, with count
1, or by an owner at the index it holds, with count 0 (`Kept`). From it,
`RemoveIsDelete`: what `remove` finds by the value of an object is that
object. Every operation then adds one object to the table or takes away the one
its caller means, which is also a step of `HandleService`.

`WinThreadsProofs` proves, for any clients, threads and maximum count, if the
requests that `SuspendThread` and `ResumeThread` make are among `Requests` and clients
need not look first (`Uses`):

- `ImplementsExecutionManager`: `WinSpec => Spec`. A step of `SuspendThread` or
  `ResumeThread` that asks something is a `C_Ask`; those that only count, and
  `CreateThread`, change nothing that the manager sees.
- `ManagerKeepsItsPromises`: so `RegisteredOnce` and `EndsAreTrue`, which are proved
  for any clients, hold under every program that uses WinAPI.
- `WinTypeCorrect`: `WinSpec => []WinTypeOK`; the count is within its bounds.

`ManagerStartupProofs` proves, for any set of clients, with `clone` failing or
not:

- `TypeCorrect`: `Spec => []TypeOK`. It is not inductive by itself: `SetThread`
  reads the last entry of `QTS_VECTOR`, which is there because the same client
  has pushed one.
- `ScanningIsFirstCorrect`. Entries are only appended, so the first stays the
  first; a manager that has its `self` has read it from `thread`, which some client
  set.
- `AssertionsHoldCorrect`: if there is one manager, the client that cloned it is the
  only one to register anything, so what it reads from `thread`, and finds first,
  is itself.

`WinMessagesProofs` proves, for any threads, windows, message numbers, filters
and bound on the posts:

- `TypeCorrect`;
- `ExactlyOnceUnlessLateCorrect` and `TestedUnlessLateCorrect`, with posts at any time.
  Both rest on `Solo`, which holds until `crowd` does: at most one thread is between
  its `empty` and its `pop_front`, and then the queue is not empty; what is at its
  front has passed the test or is in `late.copy`; and what it has copied is still in
  the queue, behind messages that are all in `late.pop`. With `Order` (identities
  fall from front to back, so that none is there twice) `delivered` then changes as
  the queue does (`Once`).

*Only model-checked*: the liveness properties (`SendReturnsIfInTime`,
`JoinReturns`, `TerminateReturnsIfInTime`, `NoManagerStaysStopped`,
`FirstRequestServed`, `ReleasedRuns`, `WaitEnds`), since liveness under fairness and
`ENABLED` are outside what the prover decides; and `CountedIsHeld`. Every other safety
invariant, action property and refinement of a passing run is proved, those
with a condition under the condition stated above.

## 6. What is not modelled, and why

- `threadInfo` (EM.cpp), which prints, and the fields of `Thread` nothing reads
  (`signal`, `core_dumped`, `terminated_by_user`, `killed_by_user`, `suspend`).
- Failure of `mmap`, of a stack's allocation and of `new`: the code asserts or
  has no path for them.
- Names of kernel objects, which nothing sets, `Table::add(Object&)`, which adds
  what `newObject` could, `cleanAll` and `zeroAll`, which nothing calls, and
  `DuplicateHandle` and the handle information, which the code leaves to be done.
- What lies behind WindowsAPIThread.cpp:44, which is never reached: the end of `add`,
  the `THREAD_INFO` and the handle that `CreateThread` would return, `PTHREAD_MAIN`
  and its deletions, `PROCESS_MAIN`, and `CreateProcessA` from its line 65 on.
- `threadpool::contains` and `find`, which change nothing and which nothing
  calls; the stack sizes that `add` computes; the objects it puts in the pool.
- Of processes, the loading of the application, and the contents of a
  `PROCESS_INFORMATION`. The object `CreateProcessA` makes, and the index it keeps, are
  `HandleTable`'s `newObject`. A second process in one Kernel would abort at the
  assertion of WindowsAPIThread.cpp:14.
- Of messages, a `WndProc` that itself takes messages, and windows that are
  deleted while a message of theirs is queued; the functions that keep no state
  (`TranslateMessage`, `SetMessageQueue`, `SetMessageExtraInfo`) and those still
  to be written (`RegisterClassA` and the like).
- `Locker`: nothing in the repository takes this lock, so there is no use whose
  correctness could be stated. Its `lock()` sets `LOCK` when it finds it free, in two
  steps; when it finds it taken it waits for it to fall, and returns without
  setting it.
- `libthread_safe`: it is not built (its `add_subdirectory` is commented
  out in `src/Windows/threads/CMakeLists.txt`) and does not compile
  (`thread_safe_lock.h:97`, `:187`), so there is no behaviour to model.
- `libstack`: one `mmap` and two sums, sequential and without state that
  lives on.
- The demonstrations `timer.c`, `timer.cpp`, `m.cpp`, which nothing uses; output
  and definitions copied from the Windows SDK, which keep no state.
- Most of the lines under `src/` are no program of the repository: `WinUser.h`
  (15,652 lines, from the Windows SDK), `no_sal2.h`, and the compiler checks
  CMake has left in the build directories.
