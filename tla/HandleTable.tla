----------------------------- MODULE HandleTable -----------------------------
(***************************************************************************)
(* The kernel's table of objects and the handles to them.  The table is a  *)
(* vector that grows by pages; an object is put in the first free slot,    *)
(* and found again, when it is to be deleted, by comparing values: nothing *)
(* in an object says which one it is.                                      *)
(*                                                                         *)
(* The table is used by one process at a time.  The type, the flags and    *)
(* the resource of an object are one value, its description; its name is   *)
(* null, for nothing sets it.  A slot is an index of the table plus one.   *)
(***************************************************************************)
EXTENDS Integers, Sequences, FiniteSets

CONSTANTS
    Objects,       \* the addresses an object can have
    Handles,       \* HANDLEs; a closed one is as good as a new one
    Owners,        \* code that makes objects without handles, and holds an index
    Descriptions,  \* of objects
    NULL,          \* nullptr
    PageSize,      \* Table::page_size
    Sizes,         \* that Page::allocate is called with
    Unlike         \* no object is made that equals one there is

ASSUME NullAssumption     == NULL \notin Objects
ASSUME PageAssumption     == PageSize \in Nat \ {0}
ASSUME SizesAssumption    == Sizes \subseteq Nat
ASSUME UnlikeAssumption   == Unlike \in BOOLEAN

VARIABLES
    table,    \* Table::table
    object,   \* the Objects, and whether each is allocated
    handle,   \* Handle::object; NULL when the handle is invalidated
    owner,    \* the pointer and the index each owner holds
    ended     \* ~Kernel and ~Table have run

vars == <<table, object, handle, owner, ended>>

Value == [description: Descriptions, handles: Int]

TypeOK ==
    /\ table \in Seq(Objects \cup {NULL})
    /\ object \in [Objects -> [live: BOOLEAN, value: Value]]
    /\ handle \in [Handles -> Objects \cup {NULL}]
    /\ owner \in [Owners -> [object: Objects \cup {NULL}, index: Nat]]
    /\ ended \in BOOLEAN

\* Mutant: no index is -1.
NoOwner_Minus == [object |-> NULL, index |-> -1]

NoOwner == [object |-> NULL, index |-> 0]

Init ==
    /\ table = <<>>
    /\ \E d \in Descriptions:
          object = [o \in Objects |-> [live |-> FALSE,
                                       value |-> [description |-> d, handles |-> 0]]]
    /\ handle = [h \in Handles |-> NULL]
    /\ owner = [p \in Owners |-> NoOwner]
    /\ ended = FALSE

-----------------------------------------------------------------------------
(* The table.                                                              *)

\* Mutant: an object is told by its count of handles alone.
Compare_HandlesOnly(a, b) == a.handles = b.handles

\* Object::compare, the == of objects.
Compare(a, b) == a.description = b.description /\ a.handles = b.handles

Free(t) == {i \in 1..Len(t): t[i] = NULL}

First(i, S) == i \in S /\ \A j \in S: i <= j

\* Page::add, when add finds no free slot.
Grown == IF Free(table) = {} THEN table \o [i \in 1..PageSize |-> NULL] ELSE table

\* new Object() is at any address that is not in use.
add(o, value) ==
    /\ ~object[o].live
    /\ \E i \in 1..Len(Grown):
          /\ First(i, Free(Grown))
          /\ table' = [Grown EXCEPT ![i] = o]
    /\ object' = [object EXCEPT ![o] = [live |-> TRUE, value |-> value]]

\* The slots at which hasObject and findObject see an object equal to value.
Equals(t, obj, value) ==
    {i \in 1..Len(t): t[i] # NULL /\ Compare(obj[t[i]].value, value)}

\* Mutant: the slot keeps the pointer.
DELETE_KeepsSlot(i) ==
    IF table[i] = NULL
    THEN UNCHANGED <<table, object>>
    ELSE /\ object' = [object EXCEPT ![table[i]].live = FALSE]
         /\ UNCHANGED table

DELETE(i) ==
    IF table[i] = NULL
    THEN UNCHANGED <<table, object>>
    ELSE /\ table' = [table EXCEPT ![i] = NULL]
         /\ object' = [object EXCEPT ![table[i]].live = FALSE]

remove(value) ==
    IF Equals(table, object, value) = {}
    THEN UNCHANGED <<table, object>>
    ELSE \E i \in 1..Len(table): First(i, Equals(table, object, value)) /\ DELETE(i)

PageOf(i) == (i - 1) \div PageSize + 1

\* Page::allocate(size): pages pr to pn - 1 are cleaned, or zeroed.
RoundedUp(size) == PageSize * ((size + PageSize - 1) \div PageSize)

allocate(size) ==
    LET pn == Len(table) \div PageSize
        pr == size \div PageSize
        cleared == {i \in 1..Len(table): PageOf(i) \in (pr..pn - 1) \cup (pn..pr - 1)}
    IN  /\ pn # pr
        /\ ~ended
        /\ \A p \in Owners: owner[p].index <= RoundedUp(size)
        /\ table' = [i \in 1..RoundedUp(size) |->
                        IF i > Len(table) \/ i \in cleared THEN NULL ELSE table[i]]
        /\ object' = IF pn < pr THEN object
                     ELSE [o \in Objects |->
                             [object[o] EXCEPT !.live = @ /\ ~\E i \in cleared: table[i] = o]]
        /\ UNCHANGED <<handle, owner, ended>>

-----------------------------------------------------------------------------
(* The kernel.                                                             *)

\* Precondition of a careful caller: what it describes is not there yet.
Allowed(value) ==
    Unlike => \A o \in Objects: object[o].live => object[o].value # value

\* newObject, and the count of the new handle.
newHandle(h) ==
    /\ ~ended
    /\ handle[h] = NULL
    /\ \E o \in Objects, d \in Descriptions:
          LET value == [description |-> d, handles |-> 1]
          IN  /\ Allowed(value)
              /\ add(o, value)
              /\ handle' = [handle EXCEPT ![h] = o]
    /\ UNCHANGED <<owner, ended>>

\* findObject(newObject(...)), as CreateProcessA and threadpool::add make an object.
newObject(p) ==
    /\ ~ended
    /\ owner[p].object = NULL
    /\ \E o \in Objects, d \in Descriptions:
          LET value == [description |-> d, handles |-> 0]
          IN  /\ Allowed(value)
              /\ add(o, value)
              /\ \E i \in 1..Len(table'):
                    /\ First(i, Equals(table', object', value))
                    /\ owner' = [owner EXCEPT ![p] = [object |-> o, index |-> i]]
    /\ UNCHANGED <<handle, ended>>

\* What is read through a pointer: the object, or, once it has been deleted,
\* whatever the memory holds.
Read(o) == IF object[o].live THEN {object[o].value}
           ELSE [description: Descriptions, handles: {0, 1}]

\* Kernel::deleteObject, through the pointer.
deleteObject(p) ==
    /\ ~ended
    /\ owner[p].object # NULL
    /\ \E value \in Read(owner[p].object): remove(value)
    /\ owner' = [owner EXCEPT ![p] = NoOwner]
    /\ UNCHANGED <<handle, ended>>

\* table->DELETE(index) by a program, as PROCESS_MAIN would, were it ever run.
deleteAtIndex(p) ==
    /\ ~ended
    /\ owner[p].object # NULL
    /\ DELETE(owner[p].index)
    /\ owner' = [owner EXCEPT ![p] = NoOwner]
    /\ UNCHANGED <<handle, ended>>

\* Mutant: an object is deleted when no handle is left before the decrement.
CloseHandle_AtZero(h) ==
    LET o == handle[h]
    IN  /\ ~ended
        /\ o # NULL
        /\ \E value \in Read(o):
              IF value.handles = 0
              THEN remove(value)
              ELSE /\ object' = [object EXCEPT ![o].value.handles = value.handles - 1]
                   /\ UNCHANGED table
        /\ handle' = [handle EXCEPT ![h] = NULL]
        /\ UNCHANGED <<owner, ended>>

CloseHandle(h) ==
    LET o == handle[h]
    IN  /\ ~ended
        /\ o # NULL                     \* validateHandle
        /\ \E value \in Read(o):
              IF value.handles = 1
              THEN remove(value)
              ELSE /\ object' = [object EXCEPT ![o].value.handles = value.handles - 1]
                   /\ UNCHANGED table
        /\ handle' = [handle EXCEPT ![h] = NULL]
        /\ UNCHANGED <<owner, ended>>

\* Mutant: what two open handles refer to is not compared.
CompareObjectHandles_Open(h, k) == (handle[h] = NULL) = (handle[k] = NULL)

CompareObjectHandles(h, k) ==
    /\ (handle[h] = NULL) = (handle[k] = NULL)
    /\ handle[h] # NULL => Compare(object[handle[h]].value, object[handle[k]].value)

\* ~Kernel, ~Table and removeAll: what is in the table is deleted.
removeAll ==
    /\ ~ended
    /\ ended' = TRUE
    /\ table' = <<>>
    /\ object' = [o \in Objects |->
                    [object[o] EXCEPT !.live = @ /\ ~\E i \in 1..Len(table): table[i] = o]]
    /\ handle' = [h \in Handles |-> NULL]    \* nobody uses one any more
    /\ owner' = [p \in Owners |-> NoOwner]

Next ==
    \/ \E h \in Handles: newHandle(h) \/ CloseHandle(h)
    \/ \E p \in Owners: newObject(p) \/ deleteObject(p) \/ deleteAtIndex(p)
    \/ \E size \in Sizes: allocate(size)
    \/ removeAll

Spec == Init /\ [][Next]_vars

-----------------------------------------------------------------------------
(* Correctness.                                                            *)

Live == {o \in Objects: object[o].live}

SlotsOf(o) == {i \in 1..Len(table): table[i] = o}

\* The table is whole pages of pointers to objects that are there, each in one
\* slot, whatever the callers do: the pages and the slots that add, DELETE and
\* allocate leave.
TableIsSound ==
    /\ Len(table) % PageSize = 0
    /\ \A i, j \in 1..Len(table):
          table[i] # NULL => /\ table[i] \in Live
                             /\ table[i] = table[j] => i = j

\* An open handle keeps its object: it is there, with its one handle, and no
\* other handle or owner has it (newHandle, CloseHandle).
HandleKeepsObject ==
    /\ \A h \in Handles: handle[h] # NULL =>
          /\ handle[h] \in Live
          /\ object[handle[h]].value.handles = 1
          /\ \A p \in Owners: owner[p].object # handle[h]
    /\ \A h, k \in Handles: handle[h] # NULL /\ handle[h] = handle[k] => h = k

\* When no handle to an object is open any more, and it is nobody's, it has
\* been destroyed (the summary at the head of WindowsAPIHandle.cpp).
DestroyedWhenUnused ==
    \A o \in Live: \/ \E h \in Handles: handle[h] = o
                   \/ \E p \in Owners: owner[p].object = o

\* The index that findObject gave an owner names the owner's object until the
\* owner deletes it, whatever slots are freed and used again meanwhile.
IndexIsOwn ==
    \A p \in Owners: owner[p].object # NULL =>
        /\ owner[p].index \in 1..Len(table)
        /\ table[owner[p].index] = owner[p].object

\* Slots are used again: however long objects come and go, the table has the
\* pages for as many as there can be at once, and no more.
TableStaysSmall == Len(table) <= RoundedUp(Cardinality(Objects))

\* CompareObjectHandles tells whether two open handles are to one object.
ComparesIdentity ==
    \A h, k \in Handles: handle[h] # NULL /\ handle[k] # NULL =>
        (CompareObjectHandles(h, k) <=> handle[h] = handle[k])

\* The table by values implements the service, in which objects have identity.
Service == INSTANCE HandleService WITH
    live <- Live,
    open <- handle,
    own <- [p \in Owners |-> owner[p].object]

ImplementsService == Service!Spec
=============================================================================
