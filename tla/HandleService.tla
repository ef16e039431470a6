---------------------------- MODULE HandleService ----------------------------
(***************************************************************************)
(* What the kernel's handles promise (the summary in                       *)
(* src/Windows/Kernel/WindowsAPIHandle.cpp): a new handle is a handle to   *)
(* an object of its own, the object lives while the handle is open, and    *)
(* closing the handle destroys that object and no other.  An object made   *)
(* without a handle is its owner's, and lives until the owner deletes it.  *)
(***************************************************************************)
CONSTANTS Objects, Handles, Owners, NULL

VARIABLES
    live,   \* the objects there are
    open,   \* the object each handle is open to, if any
    own     \* the object each owner has made without a handle, if any

vars == <<live, open, own>>

Init ==
    /\ live = {}
    /\ open = [h \in Handles |-> NULL]
    /\ own = [p \in Owners |-> NULL]

New(h) ==
    /\ open[h] = NULL
    /\ \E o \in Objects \ live:
          /\ live' = live \cup {o}
          /\ open' = [open EXCEPT ![h] = o]
    /\ UNCHANGED own

Close(h) ==
    /\ open[h] # NULL
    /\ live' = live \ {open[h]}
    /\ open' = [open EXCEPT ![h] = NULL]
    /\ UNCHANGED own

Make(p) ==
    /\ own[p] = NULL
    /\ \E o \in Objects \ live:
          /\ live' = live \cup {o}
          /\ own' = [own EXCEPT ![p] = o]
    /\ UNCHANGED open

Delete(p) ==
    /\ own[p] # NULL
    /\ live' = live \ {own[p]}
    /\ own' = [own EXCEPT ![p] = NULL]
    /\ UNCHANGED open

\* The end of the kernel is the end of every object.
End ==
    /\ live' = {}
    /\ open' = [h \in Handles |-> NULL]
    /\ own' = [p \in Owners |-> NULL]

Next ==
    \/ \E h \in Handles: New(h) \/ Close(h)
    \/ \E p \in Owners: Make(p) \/ Delete(p)
    \/ End

Spec == Init /\ [][Next]_vars
=============================================================================
