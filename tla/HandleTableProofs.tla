-------------------------- MODULE HandleTableProofs --------------------------
(***************************************************************************)
(* Theorems about HandleTable.  For callers that make no object equal to   *)
(* one there is, and do not allocate pages themselves, finding an object   *)
(* by its value finds the object meant: handles and owners keep theirs,    *)
(* and the table implements HandleService.  For any callers the table is   *)
(* whole pages, and each slot's object is there and in no other.           *)
(***************************************************************************)
EXTENDS HandleTable, SequenceTheorems, FiniteSetTheorems, TLAPS

CarefulCallers == Unlike /\ Sizes = {}

\* Slot i of the table t holds o.
At(t, i, o) == i \in 1..Len(t) /\ t[i] = o

-----------------------------------------------------------------------------
(* The table.                                                              *)

LEMMA GrownTable ==
    ASSUME TypeOK
    PROVE  /\ Grown \in Seq(Objects \cup {NULL})
           /\ Len(table) <= Len(Grown)
           /\ \A i \in 1..Len(Grown):
                 Grown[i] = IF i <= Len(table) THEN table[i] ELSE NULL
<1> DEFINE page == [i \in 1..PageSize |-> NULL]
<1>1. page \in Seq(Objects \cup {NULL}) /\ Len(page) = PageSize
  BY PageAssumption
<1>2. table \in Seq(Objects \cup {NULL})
  BY DEF TypeOK
<1>3. CASE Free(table) = {}
  <2>1. Grown = table \o page
    BY <1>3 DEF Grown
  <2> HIDE DEF page
  <2>2. /\ Len(Grown) = Len(table) + PageSize
        /\ Grown \in Seq(Objects \cup {NULL})
        /\ \A i \in 1..Len(Grown):
              Grown[i] = IF i <= Len(table) THEN table[i] ELSE page[i - Len(table)]
    BY <1>1, <1>2, <2>1, ConcatProperties
  <2>3. ASSUME NEW i \in 1..Len(Grown), ~(i <= Len(table))
        PROVE  page[i - Len(table)] = NULL
    <3>1. i - Len(table) \in 1..PageSize
      BY <1>2, <2>2, <2>3, PageAssumption
    <3> QED
      BY <3>1 DEF page
  <2> QED
    BY <1>2, <2>2, <2>3, PageAssumption
<1>4. CASE Free(table) # {}
  BY <1>2, <1>4 DEF Grown
<1> QED
  BY <1>3, <1>4

\* A slot that was free holds the new object; the others hold what they did.
LEMMA Added ==
    ASSUME TypeOK, NEW o \in Objects, NEW value \in Value, add(o, value)
    PROVE  /\ table' \in Seq(Objects \cup {NULL})
           /\ object' = [object EXCEPT ![o] = [live |-> TRUE, value |-> value]]
           /\ object' \in [Objects -> [live: BOOLEAN, value: Value]]
           /\ ~object[o].live
           /\ \E i \in Nat: \A q \in Objects, j \in Nat:
                 /\ ~At(table, i, q)
                 /\ At(table', j, q) <=>
                       IF j = i THEN q = o ELSE At(table, j, q)
<1>1. PICK i \in 1..Len(Grown): First(i, Free(Grown)) /\ table' = [Grown EXCEPT ![i] = o]
  BY DEF add
<1>2. /\ table' \in Seq(Objects \cup {NULL})
      /\ Len(table') = Len(Grown)
      /\ \A j \in 1..Len(Grown): table'[j] = IF j = i THEN o ELSE Grown[j]
  BY <1>1, GrownTable, ExceptSeq
<1>3. i \in Nat /\ Len(table) \in Nat /\ Len(Grown) \in Nat
  BY <1>1, GrownTable DEF TypeOK
<1>4. ASSUME NEW q \in Objects, NEW j \in Nat
      PROVE  /\ ~At(table, i, q)
             /\ At(table', j, q) <=> IF j = i THEN q = o ELSE At(table, j, q)
  <2>1. Grown[i] = NULL
    BY <1>1 DEF First, Free
  <2> QED
    BY <1>1, <1>2, <1>3, <2>1, GrownTable, NullAssumption DEF At
<1>5. [live |-> TRUE, value |-> value] \in [live: BOOLEAN, value: Value]
  OBVIOUS
<1> QED
  BY <1>2, <1>3, <1>4, <1>5 DEF add, TypeOK

LEMMA Deleted ==
    ASSUME TypeOK, NEW o \in Objects, NEW i \in Nat, At(table, i, o), DELETE(i)
    PROVE  /\ table' \in Seq(Objects \cup {NULL})
           /\ object' = [object EXCEPT ![o].live = FALSE]
           /\ object' \in [Objects -> [live: BOOLEAN, value: Value]]
           /\ \A q \in Objects, j \in Nat:
                 At(table', j, q) <=> j # i /\ At(table, j, q)
<1>1. /\ table' = [table EXCEPT ![i] = NULL]
      /\ object' = [object EXCEPT ![o].live = FALSE]
  BY NullAssumption DEF At, DELETE
<1>2. /\ table' \in Seq(Objects \cup {NULL})
      /\ Len(table') = Len(table)
      /\ \A j \in 1..Len(table): table'[j] = IF j = i THEN NULL ELSE table[j]
  BY <1>1, ExceptSeq DEF At, TypeOK
<1>3. \A q \in Objects, j \in Nat: At(table', j, q) <=> j # i /\ At(table, j, q)
  BY <1>2, NullAssumption DEF At
<1> QED
  BY <1>1, <1>2, <1>3 DEF TypeOK

-----------------------------------------------------------------------------
(***************************************************************************)
(* The inductive invariant.  The table holds each object there is at one   *)
(* slot (Placed), no two of them are equal (Unequal), and each is kept by  *)
(* a handle or by an owner, whose index is the slot (Kept).  Handles and   *)
(* owners are told apart by the count of handles.                          *)
(***************************************************************************)
Placed ==
    /\ \A o \in Objects, i \in Nat: At(table, i, o) => object[o].live
    /\ \A o \in Objects, i, j \in Nat: At(table, i, o) /\ At(table, j, o) => i = j
    /\ \A o \in Objects: object[o].live => \E i \in Nat: At(table, i, o)

Unequal ==
    \A o, q \in Objects:
        object[o].live /\ object[q].live /\ object[o].value = object[q].value => o = q

OwnerKeepsObject ==
    /\ \A p \in Owners: owner[p].object # NULL =>
          /\ object[owner[p].object].live
          /\ object[owner[p].object].value.handles = 0
          /\ At(table, owner[p].index, owner[p].object)
    /\ \A p, q \in Owners: owner[p].object # NULL /\ owner[p].object = owner[q].object => p = q

Kept == HandleKeepsObject /\ OwnerKeepsObject /\ DestroyedWhenUnused

IInv == TypeOK /\ Placed /\ Unequal /\ Kept

LEMMA InitIInv == Init => IInv
<1> SUFFICES ASSUME Init PROVE IInv
  OBVIOUS
<1>1. TypeOK
  <2>1. PICK d \in Descriptions:
            object = [o \in Objects |-> [live |-> FALSE,
                                         value |-> [description |-> d, handles |-> 0]]]
    BY DEF Init
  <2>2. [description |-> d, handles |-> 0] \in Value
    BY DEF Value
  <2>3. object \in [Objects -> [live: BOOLEAN, value: Value]]
    BY <2>1, <2>2
  <2>4. NoOwner \in [object: Objects \cup {NULL}, index: Nat]
    BY DEF NoOwner
  <2>5. owner \in [Owners -> [object: Objects \cup {NULL}, index: Nat]]
    BY <2>4 DEF Init
  <2>6. table \in Seq(Objects \cup {NULL})
    BY DEF Init
  <2>7. handle \in [Handles -> Objects \cup {NULL}]
    BY DEF Init
  <2>8. ended \in BOOLEAN
    BY DEF Init
  <2> QED
    BY <2>3, <2>5, <2>6, <2>7, <2>8 DEF TypeOK
<1>2. \A o \in Objects, i \in Nat: ~At(table, i, o) /\ ~object[o].live
  BY DEF Init, At
<1>3. Placed /\ Unequal
  BY <1>2 DEF Placed, Unequal
<1>4. Kept
  BY <1>2 DEF Init, NoOwner, Kept, HandleKeepsObject, OwnerKeepsObject, DestroyedWhenUnused, Live
<1> QED
  BY <1>1, <1>3, <1>4 DEF IInv

\* An object unlike those there are joins them.
LEMMA AddKeeps ==
    ASSUME IInv, NEW o \in Objects, NEW value \in Value, add(o, value),
           \A q \in Objects: object[q].live => object[q].value # value
    PROVE  Placed' /\ Unequal'
<1>1. PICK i \in Nat: \A q \in Objects, j \in Nat:
          /\ ~At(table, i, q)
          /\ At(table', j, q) <=> IF j = i THEN q = o ELSE At(table, j, q)
  BY Added DEF IInv
<1>2. /\ object' = [object EXCEPT ![o] = [live |-> TRUE, value |-> value]]
      /\ ~object[o].live
      /\ object \in [Objects -> [live: BOOLEAN, value: Value]]
  BY Added DEF IInv, TypeOK
<1>3. /\ \A q \in Objects: object'[q].live <=> q = o \/ object[q].live
      /\ \A q \in Objects: q # o => object'[q] = object[q]
      /\ object'[o].value = value
  BY <1>2
<1>4. \A j \in Nat: ~At(table, j, o)
  BY <1>2 DEF IInv, Placed
<1> QED
  BY <1>1, <1>3, <1>4 DEF IInv, Placed, Unequal

\* An object and its slot go together.
LEMMA DeleteKeeps ==
    ASSUME IInv, NEW o \in Objects, NEW i \in Nat, At(table, i, o), DELETE(i)
    PROVE  Placed' /\ Unequal'
<1>1. /\ object' = [object EXCEPT ![o].live = FALSE]
      /\ \A q \in Objects, j \in Nat: At(table', j, q) <=> j # i /\ At(table, j, q)
  BY Deleted DEF IInv
<1>2. \A q \in Objects: /\ object'[q].live <=> q # o /\ object[q].live
                         /\ object'[q].value = object[q].value
  BY <1>1 DEF IInv, TypeOK
<1>3. \A q \in Objects: At(table, i, q) => q = o
  BY DEF At
<1> QED
  BY <1>1, <1>2, <1>3 DEF IInv, Placed, Unequal

\* What remove finds by the value of an object is the object.
LEMMA RemoveIsDelete ==
    ASSUME IInv, NEW o \in Objects, object[o].live, remove(object[o].value)
    PROVE  \E i \in Nat: At(table, i, o) /\ DELETE(i)
<1>1. PICK k \in Nat: At(table, k, o)
  BY DEF IInv, Placed
<1> DEFINE found == Equals(table, object, object[o].value)
<1>2. k \in found
  BY <1>1, NullAssumption DEF At, Equals, Compare
<1>3. PICK i \in 1..Len(table): First(i, found) /\ DELETE(i)
  BY <1>2 DEF remove
<1>4. /\ i \in Nat
      /\ table[i] \in Objects
      /\ Compare(object[table[i]].value, object[o].value)
  BY <1>3 DEF First, Equals, IInv, TypeOK
<1>5. At(table, i, table[i])
  BY DEF At
<1>6. object[table[i]].live
  BY <1>4, <1>5 DEF IInv, Placed
<1>7. object[table[i]].value = object[o].value
  <2>1. object[table[i]].value \in Value /\ object[o].value \in Value
    BY <1>4 DEF IInv, TypeOK
  <2> QED
    BY <1>4, <2>1 DEF Compare, Value
<1>8. table[i] = o
  BY <1>4, <1>6, <1>7 DEF IInv, Unequal
<1> QED
  BY <1>3, <1>4, <1>5, <1>8

-----------------------------------------------------------------------------
(* The operations.                                                         *)

LEMMA newHandleKeeps ==
    ASSUME CarefulCallers, IInv, NEW h \in Handles, newHandle(h)
    PROVE  IInv'
<1>1. PICK o \in Objects, d \in Descriptions:
          /\ Allowed([description |-> d, handles |-> 1])
          /\ add(o, [description |-> d, handles |-> 1])
          /\ handle' = [handle EXCEPT ![h] = o]
  BY DEF newHandle
<1> DEFINE value == [description |-> d, handles |-> 1]
<1>2. value \in Value
  BY DEF Value
<1>3. \A q \in Objects: object[q].live => object[q].value # value
  BY <1>1 DEF Allowed, CarefulCallers
<1>4. /\ add(o, value)
      /\ handle' = [handle EXCEPT ![h] = o]
      /\ handle[h] = NULL
      /\ UNCHANGED <<owner, ended>>
  BY <1>1 DEF newHandle
<1> HIDE DEF value
<1>5. Placed' /\ Unequal'
  BY <1>2, <1>3, <1>4, AddKeeps
<1>6. /\ table' \in Seq(Objects \cup {NULL})
      /\ object' = [object EXCEPT ![o] = [live |-> TRUE, value |-> value]]
      /\ object' \in [Objects -> [live: BOOLEAN, value: Value]]
      /\ ~object[o].live
  BY <1>2, <1>4, Added DEF IInv
<1>7. TypeOK'
  BY <1>4, <1>6 DEF IInv, TypeOK
<1>8. /\ object'[o] = [live |-> TRUE, value |-> value]
      /\ \A q \in Objects: q # o => object'[q] = object[q]
      /\ handle'[h] = o
      /\ \A k \in Handles: k # h => handle'[k] = handle[k]
      /\ o # NULL
      /\ value.handles = 1
  BY <1>4, <1>6, NullAssumption DEF IInv, TypeOK, value
<1>9. /\ \A k \in Handles: handle[k] # o
      /\ \A p \in Owners: owner[p].object # o
  BY <1>6, <1>8 DEF IInv, Kept, HandleKeepsObject, OwnerKeepsObject, Live
<1>10. /\ \A k \in Handles: handle[k] \in Objects \cup {NULL}
       /\ \A p \in Owners: owner[p].object \in Objects \cup {NULL}
  BY DEF IInv, TypeOK
<1>11. HandleKeepsObject'
  BY <1>4, <1>8, <1>9, <1>10 DEF IInv, Kept, HandleKeepsObject, Live
<1>12. OwnerKeepsObject'
  <2>1. ASSUME NEW p \in Owners, owner[p].object # NULL
        PROVE  At(table', owner[p].index, owner[p].object)
    <3>1. owner[p].index \in Nat
      BY DEF IInv, TypeOK
    <3>2. At(table, owner[p].index, owner[p].object)
      BY <2>1 DEF IInv, Kept, OwnerKeepsObject
    <3> QED
      BY <1>2, <1>4, <1>10, <2>1, <3>1, <3>2, Added DEF IInv
  <2> QED
    BY <1>4, <1>8, <1>9, <1>10, <2>1 DEF IInv, Kept, OwnerKeepsObject
<1>13. DestroyedWhenUnused'
  BY <1>4, <1>8, <1>9, NullAssumption DEF IInv, Kept, DestroyedWhenUnused, Live
<1> QED
  BY <1>5, <1>7, <1>11, <1>12, <1>13 DEF IInv, Kept

LEMMA newObjectKeeps ==
    ASSUME CarefulCallers, IInv, NEW p \in Owners, newObject(p)
    PROVE  IInv'
<1>1. PICK o \in Objects, d \in Descriptions:
          /\ Allowed([description |-> d, handles |-> 0])
          /\ add(o, [description |-> d, handles |-> 0])
          /\ \E i \in 1..Len(table'):
                /\ First(i, Equals(table', object', [description |-> d, handles |-> 0]))
                /\ owner' = [owner EXCEPT ![p] = [object |-> o, index |-> i]]
  BY DEF newObject
<1> DEFINE value == [description |-> d, handles |-> 0]
<1>2. value \in Value /\ value.handles = 0
  BY DEF Value
<1>3. \A q \in Objects: object[q].live => object[q].value # value
  BY <1>1 DEF Allowed, CarefulCallers
<1>4. /\ add(o, value)
      /\ owner[p].object = NULL
      /\ UNCHANGED <<handle, ended>>
  BY <1>1 DEF newObject
<1>5. PICK i \in 1..Len(table'):
          /\ First(i, Equals(table', object', value))
          /\ owner' = [owner EXCEPT ![p] = [object |-> o, index |-> i]]
  BY <1>1
<1> HIDE DEF value
<1>6. Placed' /\ Unequal'
  BY <1>2, <1>3, <1>4, AddKeeps
<1>7. /\ table' \in Seq(Objects \cup {NULL})
      /\ object' = [object EXCEPT ![o] = [live |-> TRUE, value |-> value]]
      /\ object' \in [Objects -> [live: BOOLEAN, value: Value]]
      /\ ~object[o].live
  BY <1>2, <1>4, Added DEF IInv
<1>8. /\ object'[o] = [live |-> TRUE, value |-> value]
      /\ \A q \in Objects: q # o => object'[q] = object[q]
      /\ o # NULL
  BY <1>7, NullAssumption DEF IInv, TypeOK
\* findObject finds the object that has just been made.
<1>9. i \in Nat /\ At(table', i, o)
  <2>1. /\ i \in Nat
        /\ table'[i] \in Objects
        /\ Compare(object'[table'[i]].value, value)
    BY <1>5, <1>7 DEF First, Equals
  <2>2. At(table', i, table'[i])
    BY DEF At
  <2>3. object'[table'[i]].live
    BY <1>6, <2>1, <2>2 DEF Placed
  <2>4. object'[table'[i]].value = value
    BY <1>2, <1>7, <2>1 DEF Compare, Value
  <2>5. table'[i] = o
    BY <1>6, <1>8, <2>1, <2>3, <2>4 DEF Unequal
  <2> QED
    BY <2>1, <2>2, <2>5
<1>10. /\ owner'[p] = [object |-> o, index |-> i]
       /\ \A r \in Owners: r # p => owner'[r] = owner[r]
       /\ owner' \in [Owners -> [object: Objects \cup {NULL}, index: Nat]]
  <2>1. [object |-> o, index |-> i] \in [object: Objects \cup {NULL}, index: Nat]
    BY <1>9
  <2> QED
    BY <1>5, <2>1 DEF IInv, TypeOK
<1>11. TypeOK'
  BY <1>4, <1>7, <1>10 DEF IInv, TypeOK
<1>12. /\ \A k \in Handles: handle[k] # o
       /\ \A r \in Owners: owner[r].object # o
  BY <1>7, <1>8 DEF IInv, Kept, HandleKeepsObject, OwnerKeepsObject, Live
<1>13. /\ \A k \in Handles: handle[k] \in Objects \cup {NULL}
       /\ \A r \in Owners: owner[r].object \in Objects \cup {NULL}
  BY DEF IInv, TypeOK
<1>14. HandleKeepsObject'
  BY <1>4, <1>8, <1>10, <1>12, <1>13 DEF IInv, Kept, HandleKeepsObject, Live
<1>15. OwnerKeepsObject'
  <2>1. ASSUME NEW r \in Owners, r # p, owner[r].object # NULL
        PROVE  At(table', owner[r].index, owner[r].object)
    <3>1. owner[r].index \in Nat
      BY DEF IInv, TypeOK
    <3>2. At(table, owner[r].index, owner[r].object)
      BY <2>1 DEF IInv, Kept, OwnerKeepsObject
    <3> QED
      BY <1>2, <1>4, <1>13, <2>1, <3>1, <3>2, Added DEF IInv
  <2> QED
    BY <1>2, <1>8, <1>9, <1>10, <1>12, <1>13, <2>1 DEF IInv, Kept, OwnerKeepsObject
<1>16. DestroyedWhenUnused'
  BY <1>4, <1>8, <1>10, <1>12, NullAssumption DEF IInv, Kept, DestroyedWhenUnused, Live
<1> QED
  BY <1>6, <1>11, <1>14, <1>15, <1>16 DEF IInv, Kept

\* Closing a handle deletes its object.
LEMMA CloseIsDelete ==
    ASSUME IInv, NEW h \in Handles, CloseHandle(h)
    PROVE  /\ handle[h] \in Objects
           /\ \E i \in Nat: At(table, i, handle[h]) /\ DELETE(i)
<1>1. handle[h] \in Objects /\ object[handle[h]].live /\ object[handle[h]].value.handles = 1
  BY DEF CloseHandle, IInv, TypeOK, Kept, HandleKeepsObject, Live
<1>2. remove(object[handle[h]].value)
  BY <1>1 DEF CloseHandle, Read
<1> QED
  BY <1>1, <1>2, RemoveIsDelete

LEMMA CloseHandleKeeps ==
    ASSUME IInv, NEW h \in Handles, CloseHandle(h)
    PROVE  IInv'
<1> DEFINE o == handle[h]
<1>1. PICK i \in Nat: At(table, i, o) /\ DELETE(i)
  BY CloseIsDelete
<1>2. o \in Objects /\ o # NULL
  BY CloseIsDelete, NullAssumption
<1>3. handle' = [handle EXCEPT ![h] = NULL] /\ UNCHANGED <<owner, ended>>
  BY DEF CloseHandle
<1> HIDE DEF o
<1>4. Placed' /\ Unequal'
  BY <1>1, <1>2, DeleteKeeps
<1>5. /\ table' \in Seq(Objects \cup {NULL})
      /\ object' = [object EXCEPT ![o].live = FALSE]
      /\ object' \in [Objects -> [live: BOOLEAN, value: Value]]
      /\ \A q \in Objects, j \in Nat: At(table', j, q) <=> j # i /\ At(table, j, q)
  BY <1>1, <1>2, Deleted DEF IInv
<1>6. TypeOK'
  BY <1>3, <1>5 DEF IInv, TypeOK
<1>7. /\ \A q \in Objects: q # o => object'[q] = object[q]
      /\ ~object'[o].live
      /\ handle'[h] = NULL
      /\ \A k \in Handles: k # h => handle'[k] = handle[k]
  BY <1>2, <1>3, <1>5 DEF IInv, TypeOK
<1>8. /\ \A k \in Handles: k # h => handle[k] # o
      /\ \A p \in Owners: owner[p].object # o
      /\ \A k \in Handles: handle[k] \in Objects \cup {NULL}
      /\ \A p \in Owners: owner[p].object \in Objects \cup {NULL}
  BY <1>2 DEF IInv, TypeOK, Kept, HandleKeepsObject, o
<1>9. HandleKeepsObject'
  BY <1>3, <1>7, <1>8 DEF IInv, Kept, HandleKeepsObject, Live
<1>10. OwnerKeepsObject'
  <2>1. ASSUME NEW p \in Owners, owner[p].object # NULL
        PROVE  At(table', owner[p].index, owner[p].object)
    <3>1. owner[p].index \in Nat /\ At(table, owner[p].index, owner[p].object)
      BY <2>1 DEF IInv, TypeOK, Kept, OwnerKeepsObject
    <3>2. owner[p].index # i
      BY <1>1, <1>8, <3>1 DEF At
    <3> QED
      BY <1>5, <1>8, <2>1, <3>1, <3>2
  <2> QED
    BY <1>3, <1>7, <1>8, <2>1 DEF IInv, Kept, OwnerKeepsObject
<1>11. DestroyedWhenUnused'
  <2>1. ASSUME NEW q \in Objects, object'[q].live
        PROVE  \/ \E k \in Handles: handle'[k] = q
               \/ \E p \in Owners: owner'[p].object = q
    <3>1. q # o /\ object[q].live
      BY <1>7, <2>1
    <3>2. CASE \E k \in Handles: handle[k] = q
      BY <1>7, <3>1, <3>2 DEF o
    <3>3. CASE \E p \in Owners: owner[p].object = q
      BY <1>3, <3>3
    <3> QED
      BY <3>1, <3>2, <3>3 DEF IInv, Kept, DestroyedWhenUnused, Live
  <2> QED
    BY <2>1 DEF DestroyedWhenUnused, Live
<1> QED
  BY <1>4, <1>6, <1>9, <1>10, <1>11 DEF IInv, Kept

\* Whether by the pointer or by the index, an owner deletes its own object.
LEMMA OwnerDeletes ==
    ASSUME IInv, NEW p \in Owners, deleteObject(p) \/ deleteAtIndex(p)
    PROVE  /\ owner[p].object \in Objects
           /\ \E i \in Nat: At(table, i, owner[p].object) /\ DELETE(i)
           /\ owner' = [owner EXCEPT ![p] = NoOwner]
           /\ UNCHANGED <<handle, ended>>
<1>1. /\ owner[p].object # NULL
      /\ owner' = [owner EXCEPT ![p] = NoOwner]
      /\ UNCHANGED <<handle, ended>>
  BY DEF deleteObject, deleteAtIndex
<1>2. /\ owner[p].object \in Objects
      /\ owner[p].index \in Nat
      /\ object[owner[p].object].live
      /\ At(table, owner[p].index, owner[p].object)
  BY <1>1 DEF IInv, TypeOK, Kept, OwnerKeepsObject
<1>3. CASE deleteObject(p)
  BY <1>1, <1>2, <1>3, RemoveIsDelete DEF deleteObject, Read
<1>4. CASE deleteAtIndex(p)
  BY <1>1, <1>2, <1>4 DEF deleteAtIndex
<1> QED
  BY <1>3, <1>4

LEMMA OwnerDeletesKeeps ==
    ASSUME IInv, NEW p \in Owners, deleteObject(p) \/ deleteAtIndex(p)
    PROVE  IInv'
<1> DEFINE o == owner[p].object
<1>1. PICK i \in Nat: At(table, i, o) /\ DELETE(i)
  BY OwnerDeletes
<1>2. o \in Objects /\ o # NULL
  BY OwnerDeletes, NullAssumption
<1>3. owner' = [owner EXCEPT ![p] = NoOwner] /\ UNCHANGED <<handle, ended>>
  BY OwnerDeletes
<1> HIDE DEF o
<1>4. Placed' /\ Unequal'
  BY <1>1, <1>2, DeleteKeeps
<1>5. /\ table' \in Seq(Objects \cup {NULL})
      /\ object' = [object EXCEPT ![o].live = FALSE]
      /\ object' \in [Objects -> [live: BOOLEAN, value: Value]]
      /\ \A q \in Objects, j \in Nat: At(table', j, q) <=> j # i /\ At(table, j, q)
  BY <1>1, <1>2, Deleted DEF IInv
<1>6. NoOwner \in [object: Objects \cup {NULL}, index: Nat] /\ NoOwner.object = NULL
  BY DEF NoOwner
<1>7. TypeOK'
  <2>1. owner' \in [Owners -> [object: Objects \cup {NULL}, index: Nat]]
    BY <1>3, <1>6 DEF IInv, TypeOK
  <2> QED
    BY <1>3, <1>5, <2>1 DEF IInv, TypeOK
<1>8. /\ \A q \in Objects: q # o => object'[q] = object[q]
      /\ ~object'[o].live
      /\ owner'[p].object = NULL
      /\ \A r \in Owners: r # p => owner'[r] = owner[r]
  BY <1>2, <1>3, <1>5, <1>6 DEF IInv, TypeOK
<1>9. /\ \A k \in Handles: handle[k] # o
      /\ \A r \in Owners: r # p => owner[r].object # o
      /\ \A k \in Handles: handle[k] \in Objects \cup {NULL}
      /\ \A r \in Owners: owner[r].object \in Objects \cup {NULL}
  BY <1>2 DEF IInv, TypeOK, Kept, HandleKeepsObject, OwnerKeepsObject, o
<1>10. HandleKeepsObject'
  <2>1. ASSUME NEW k \in Handles, handle[k] # NULL
        PROVE  /\ handle[k] \in Live'
               /\ object'[handle[k]].value.handles = 1
               /\ \A r \in Owners: owner'[r].object # handle[k]
    BY <1>8, <1>9, <2>1 DEF IInv, Kept, HandleKeepsObject, Live
  <2> QED
    BY <1>3, <2>1 DEF IInv, Kept, HandleKeepsObject
<1>11. OwnerKeepsObject'
  <2>1. ASSUME NEW r \in Owners, r # p, owner[r].object # NULL
        PROVE  At(table', owner[r].index, owner[r].object)
    <3>1. owner[r].index \in Nat /\ At(table, owner[r].index, owner[r].object)
      BY <2>1 DEF IInv, TypeOK, Kept, OwnerKeepsObject
    <3>2. owner[r].index # i
      BY <1>1, <1>9, <2>1, <3>1 DEF At
    <3> QED
      BY <1>5, <1>9, <2>1, <3>1, <3>2
  <2> QED
    BY <1>8, <1>9, <2>1 DEF IInv, Kept, OwnerKeepsObject
<1>12. DestroyedWhenUnused'
  <2>1. ASSUME NEW q \in Objects, object'[q].live
        PROVE  \/ \E k \in Handles: handle'[k] = q
               \/ \E r \in Owners: owner'[r].object = q
    <3>1. q # o /\ object[q].live
      BY <1>8, <2>1
    <3>2. CASE \E k \in Handles: handle[k] = q
      BY <1>3, <3>2
    <3>3. CASE \E r \in Owners: owner[r].object = q
      BY <1>8, <3>1, <3>3 DEF o
    <3> QED
      BY <3>1, <3>2, <3>3 DEF IInv, Kept, DestroyedWhenUnused, Live
  <2> QED
    BY <2>1 DEF DestroyedWhenUnused, Live
<1> QED
  BY <1>4, <1>7, <1>10, <1>11, <1>12 DEF IInv, Kept

\* Whatever is live is in the table, and removeAll deletes it.
LEMMA RemoveAllEmpties ==
    ASSUME IInv, removeAll
    PROVE  /\ table' = <<>>
           /\ object' \in [Objects -> [live: BOOLEAN, value: Value]]
           /\ \A o \in Objects: ~object'[o].live
           /\ handle' = [h \in Handles |-> NULL]
           /\ owner' = [p \in Owners |-> NoOwner]
           /\ ended'
<1>1. \A o \in Objects: object[o].live => \E i \in 1..Len(table): table[i] = o
  BY DEF IInv, Placed, At
<1>2. \A o \in Objects: [object[o] EXCEPT !.live = FALSE] \in [live: BOOLEAN, value: Value]
  BY DEF IInv, TypeOK
<1>3. ASSUME NEW o \in Objects
      PROVE  object'[o] = [object[o] EXCEPT !.live = FALSE]
  <2>1. object'[o] = [object[o] EXCEPT !.live =
                        object[o].live /\ ~\E i \in 1..Len(table): table[i] = o]
    BY DEF removeAll
  <2>2. (object[o].live /\ ~\E i \in 1..Len(table): table[i] = o) = FALSE
    <3>1. object[o].live \in BOOLEAN
      BY DEF IInv, TypeOK
    <3> QED
      BY <1>1, <3>1
  <2> QED
    BY <2>1, <2>2
<1>4. \A o \in Objects: ~object'[o].live
  BY <1>3 DEF IInv, TypeOK
<1>5. object' = [o \in Objects |-> object'[o]]
  BY DEF removeAll
<1>6. \A o \in Objects: object'[o] \in [live: BOOLEAN, value: Value]
  BY <1>2, <1>3
<1>7. object' \in [Objects -> [live: BOOLEAN, value: Value]]
  BY <1>5, <1>6
<1> QED
  BY <1>4, <1>7 DEF removeAll

LEMMA removeAllKeeps == ASSUME IInv, removeAll PROVE IInv'
<1>1. \A o \in Objects, i \in Nat: ~At(table', i, o)
  BY RemoveAllEmpties DEF At
<1>2. Placed' /\ Unequal'
  BY <1>1, RemoveAllEmpties DEF Placed, Unequal
<1>3. NoOwner \in [object: Objects \cup {NULL}, index: Nat] /\ NoOwner.object = NULL
  BY DEF NoOwner
<1>4. \A p \in Owners: owner'[p].object = NULL
  BY <1>3, RemoveAllEmpties
<1>5. \A h \in Handles: handle'[h] = NULL
  BY RemoveAllEmpties
<1>6. Kept'
  BY <1>4, <1>5, RemoveAllEmpties DEF Kept, HandleKeepsObject, OwnerKeepsObject,
     DestroyedWhenUnused, Live
<1>7. TypeOK'
  <2>1. table' \in Seq(Objects \cup {NULL})
    BY RemoveAllEmpties
  <2>2. handle' \in [Handles -> Objects \cup {NULL}]
    BY RemoveAllEmpties
  <2>3. owner' \in [Owners -> [object: Objects \cup {NULL}, index: Nat]]
    BY <1>3, RemoveAllEmpties
  <2> QED
    BY <2>1, <2>2, <2>3, RemoveAllEmpties DEF TypeOK
<1> QED
  BY <1>2, <1>6, <1>7 DEF IInv

LEMMA NextIInv == ASSUME CarefulCallers, IInv, [Next]_vars PROVE IInv'
<1>1. ASSUME NEW h \in Handles, newHandle(h) PROVE IInv'
  BY <1>1, newHandleKeeps
<1>2. ASSUME NEW h \in Handles, CloseHandle(h) PROVE IInv'
  BY <1>2, CloseHandleKeeps
<1>3. ASSUME NEW p \in Owners, newObject(p) PROVE IInv'
  BY <1>3, newObjectKeeps
<1>4. ASSUME NEW p \in Owners, deleteObject(p) \/ deleteAtIndex(p) PROVE IInv'
  BY <1>4, OwnerDeletesKeeps
<1>5. ASSUME removeAll PROVE IInv'
  BY <1>5, removeAllKeeps
<1>6. ASSUME UNCHANGED vars PROVE IInv'
  BY <1>6 DEF vars, IInv, TypeOK, Placed, At, Unequal, Kept, HandleKeepsObject,
     OwnerKeepsObject, DestroyedWhenUnused, Live
<1>7. Sizes = {}
  BY DEF CarefulCallers
<1> QED
  BY <1>1, <1>2, <1>3, <1>4, <1>5, <1>6, <1>7 DEF Next

LEMMA IInvCorrect == CarefulCallers => (Spec => []IInv)
<1> SUFFICES ASSUME CarefulCallers PROVE Spec => []IInv
  OBVIOUS
<1>1. Init => IInv
  BY InitIInv
<1>2. IInv /\ [Next]_vars => IInv'
  BY NextIInv
<1> QED
  BY <1>1, <1>2, PTL DEF Spec

-----------------------------------------------------------------------------
(* The theorems.                                                           *)

\* An open handle's object is there and its own, however many objects come and
\* go, when callers make no object equal to one there is (CloseHandle).
THEOREM HandleKeepsObjectCorrect == CarefulCallers => (Spec => []HandleKeepsObject)
<1>1. IInv => HandleKeepsObject
  BY DEF IInv, Kept
<1> QED
  BY <1>1, IInvCorrect, PTL

\* Under the same condition an object lives no longer than what keeps it: the
\* comment at the head of WindowsAPIHandle.cpp.
THEOREM DestroyedWhenUnusedCorrect == CarefulCallers => (Spec => []DestroyedWhenUnused)
<1>1. IInv => DestroyedWhenUnused
  BY DEF IInv, Kept
<1> QED
  BY <1>1, IInvCorrect, PTL

\* The index an owner was given stays the index of its object, through the
\* freeing and filling of the other slots (findObject, DELETE).
THEOREM IndexIsOwnCorrect == CarefulCallers => (Spec => []IndexIsOwn)
<1>1. IInv => IndexIsOwn
  BY DEF IInv, Kept, OwnerKeepsObject, IndexIsOwn, At
<1> QED
  BY <1>1, IInvCorrect, PTL

\* Comparing two open handles by the values of their objects tells whether they
\* are to one object (CompareObjectHandles).
THEOREM ComparesIdentityCorrect == CarefulCallers => (Spec => []ComparesIdentity)
<1>1. IInv => ComparesIdentity
  <2> SUFFICES ASSUME IInv, NEW h \in Handles, NEW k \in Handles,
                      handle[h] # NULL, handle[k] # NULL
               PROVE  CompareObjectHandles(h, k) <=> handle[h] = handle[k]
    BY DEF ComparesIdentity
  <2>1. /\ handle[h] \in Objects /\ object[handle[h]].live
        /\ handle[k] \in Objects /\ object[handle[k]].live
    BY DEF IInv, TypeOK, Kept, HandleKeepsObject, Live
  <2>2. object[handle[h]].value \in Value /\ object[handle[k]].value \in Value
    BY <2>1 DEF IInv, TypeOK
  <2>3. CompareObjectHandles(h, k) <=> object[handle[h]].value = object[handle[k]].value
    BY <2>2 DEF CompareObjectHandles, Compare, Value
  <2> QED
    BY <2>1, <2>3 DEF IInv, Unequal
<1> QED
  BY <1>1, IInvCorrect, PTL

-----------------------------------------------------------------------------
(***************************************************************************)
(* The table implements the service: each operation is a step of it, on    *)
(* the object its caller means.                                            *)
(***************************************************************************)
Own == [p \in Owners |-> owner[p].object]

LEMMA AddedLive ==
    ASSUME TypeOK, NEW o \in Objects, NEW value \in Value, add(o, value)
    PROVE  o \in Objects \ Live /\ Live' = Live \cup {o}
<1>1. /\ object' = [object EXCEPT ![o] = [live |-> TRUE, value |-> value]]
      /\ ~object[o].live
  BY Added
<1>2. \A q \in Objects: object'[q].live <=> q = o \/ object[q].live
  BY <1>1 DEF TypeOK
<1> QED
  BY <1>1, <1>2 DEF Live

LEMMA DeletedLive ==
    ASSUME TypeOK, NEW o \in Objects, NEW i \in Nat, At(table, i, o), DELETE(i)
    PROVE  Live' = Live \ {o}
<1>1. object' = [object EXCEPT ![o].live = FALSE]
  BY Deleted
<1>2. \A q \in Objects: object'[q].live <=> q # o /\ object[q].live
  BY <1>1 DEF TypeOK
<1> QED
  BY <1>2 DEF Live

LEMMA newHandleRefines ==
    ASSUME IInv, NEW h \in Handles, newHandle(h)
    PROVE  Service!New(h)
<1>1. PICK o \in Objects, d \in Descriptions:
          /\ add(o, [description |-> d, handles |-> 1])
          /\ handle' = [handle EXCEPT ![h] = o]
  BY DEF newHandle
<1>2. [description |-> d, handles |-> 1] \in Value
  BY DEF Value
<1>3. o \in Objects \ Live /\ Live' = Live \cup {o}
  BY <1>1, <1>2, AddedLive DEF IInv
<1>4. handle[h] = NULL /\ Own' = Own
  BY DEF newHandle, Own
<1> QED
  BY <1>1, <1>3, <1>4 DEF Service!New, Own

LEMMA CloseHandleRefines ==
    ASSUME IInv, NEW h \in Handles, CloseHandle(h)
    PROVE  Service!Close(h)
<1>1. Live' = Live \ {handle[h]}
  BY CloseIsDelete, DeletedLive DEF IInv
<1>2. /\ handle[h] # NULL
      /\ handle' = [handle EXCEPT ![h] = NULL]
      /\ Own' = Own
  BY DEF CloseHandle, Own
<1> QED
  BY <1>1, <1>2 DEF Service!Close, Own

LEMMA newObjectRefines ==
    ASSUME IInv, NEW p \in Owners, newObject(p)
    PROVE  Service!Make(p)
<1>1. PICK o \in Objects, d \in Descriptions:
          /\ add(o, [description |-> d, handles |-> 0])
          /\ \E i \in 1..Len(table'): owner' = [owner EXCEPT ![p] = [object |-> o, index |-> i]]
  BY DEF newObject
<1>2. [description |-> d, handles |-> 0] \in Value
  BY DEF Value
<1>3. o \in Objects \ Live /\ Live' = Live \cup {o}
  BY <1>1, <1>2, AddedLive DEF IInv
<1>4. /\ owner'[p].object = o
      /\ \A r \in Owners: r # p => owner'[r] = owner[r]
  BY <1>1 DEF IInv, TypeOK
<1>5. Own' = [Own EXCEPT ![p] = o]
  BY <1>4 DEF Own
<1>6. Own[p] = NULL /\ handle' = handle
  BY DEF newObject, Own
<1> QED
  BY <1>3, <1>5, <1>6 DEF Service!Make, Own

LEMMA OwnerDeletesRefines ==
    ASSUME IInv, NEW p \in Owners, deleteObject(p) \/ deleteAtIndex(p)
    PROVE  Service!Delete(p)
<1>1. Live' = Live \ {owner[p].object}
  BY OwnerDeletes, DeletedLive DEF IInv
<1>2. Own[p] = owner[p].object /\ Own[p] # NULL /\ handle' = handle
  BY OwnerDeletes, NullAssumption DEF Own
<1>3. /\ owner'[p].object = NULL
      /\ \A r \in Owners: r # p => owner'[r] = owner[r]
  BY OwnerDeletes DEF IInv, TypeOK, NoOwner
<1>4. Own' = [Own EXCEPT ![p] = NULL]
  BY <1>3 DEF Own
<1> QED
  BY <1>1, <1>2, <1>4 DEF Service!Delete, Own

LEMMA removeAllRefines == ASSUME IInv, removeAll PROVE Service!End
<1>1. Live' = {}
  BY RemoveAllEmpties DEF Live
<1>2. handle' = [h \in Handles |-> NULL]
  BY RemoveAllEmpties
<1>3. Own' = [p \in Owners |-> NULL]
  BY RemoveAllEmpties DEF Own, NoOwner
<1> QED
  BY <1>1, <1>2, <1>3 DEF Service!End, Own

LEMMA InitRefines == Init => Service!Init
<1> SUFFICES ASSUME Init PROVE Service!Init
  OBVIOUS
<1>1. Live = {}
  BY DEF Init, Live
<1>2. Own = [p \in Owners |-> NULL]
  BY DEF Init, Own, NoOwner
<1> QED
  BY <1>1, <1>2 DEF Init, Service!Init, Own

LEMMA NextRefines ==
    ASSUME CarefulCallers, IInv, [Next]_vars
    PROVE  [Service!Next]_(Service!vars)
<1>1. ASSUME NEW h \in Handles, newHandle(h) PROVE Service!Next
  BY <1>1, newHandleRefines DEF Service!Next
<1>2. ASSUME NEW h \in Handles, CloseHandle(h) PROVE Service!Next
  BY <1>2, CloseHandleRefines DEF Service!Next
<1>3. ASSUME NEW p \in Owners, newObject(p) PROVE Service!Next
  BY <1>3, newObjectRefines DEF Service!Next
<1>4. ASSUME NEW p \in Owners, deleteObject(p) \/ deleteAtIndex(p) PROVE Service!Next
  BY <1>4, OwnerDeletesRefines DEF Service!Next
<1>5. ASSUME removeAll PROVE Service!Next
  BY <1>5, removeAllRefines DEF Service!Next
<1>6. ASSUME UNCHANGED vars PROVE UNCHANGED Service!vars
  BY <1>6 DEF vars, Service!vars, Live
<1>7. Sizes = {}
  BY DEF CarefulCallers
<1> QED
  BY <1>1, <1>2, <1>3, <1>4, <1>5, <1>6, <1>7 DEF Next

\* When callers make no object equal to one there is, the table, which knows
\* objects by their values only, implements the service, in which they have
\* identity.
THEOREM ImplementsServiceCorrect == CarefulCallers => (Spec => ImplementsService)
<1> SUFFICES ASSUME CarefulCallers PROVE Spec => ImplementsService
  OBVIOUS
<1>1. Init => Service!Init
  BY InitRefines
<1>2. IInv /\ [Next]_vars => [Service!Next]_(Service!vars)
  BY NextRefines
<1>3. Spec => []IInv
  BY IInvCorrect
<1> QED
  BY <1>1, <1>2, <1>3, PTL DEF Spec, ImplementsService, Service!Spec

-----------------------------------------------------------------------------
(***************************************************************************)
(* Pages, for callers that do as they like: make objects equal to those    *)
(* there are, use handles and owners whose objects are gone, and allocate  *)
(* pages.  The table is whole pages of pointers to objects that are there, *)
(* each in one slot; to say that an index an owner holds can be deleted at *)
(* all, it is in the table.                                                *)
(***************************************************************************)
IndexInTable ==
    \A p \in Owners: /\ owner[p].index <= Len(table)
                     /\ owner[p].object # NULL => owner[p].index >= 1

Whole == Len(table) % PageSize = 0

\* Each slot's object is there, and in no other slot.
SlotsHoldLive ==
    \A i, j \in 1..Len(table):
        table[i] # NULL => /\ table[i] \in Objects /\ object[table[i]].live
                           /\ table[i] = table[j] => i = j

PInv == TypeOK /\ IndexInTable /\ Whole /\ SlotsHoldLive

LEMMA Division ==
    ASSUME NEW n \in Nat
    PROVE  /\ n \div PageSize \in Nat
           /\ n % PageSize \in 0..PageSize - 1
           /\ n = PageSize * (n \div PageSize) + (n % PageSize)
<1>1. PageSize \in Nat /\ PageSize > 0
  BY PageAssumption
<1>2. n % PageSize \in 0..PageSize - 1
  BY <1>1
<1>3. n = PageSize * (n \div PageSize) + (n % PageSize)
  BY <1>1
<1>4. n \div PageSize \in Int
  BY <1>1
<1>5. ~(n \div PageSize <= -1)
  <2>1. ASSUME n \div PageSize <= -1 PROVE FALSE
    <3>1. PageSize * (n \div PageSize) <= -PageSize
      BY <1>1, <1>4, <2>1
    <3> QED
      BY <1>1, <1>2, <1>3, <1>4, <3>1
  <2> QED
    BY <2>1
<1> QED
  BY <1>2, <1>3, <1>4, <1>5

LEMMA WholePages ==
    ASSUME NEW n \in Nat
    PROVE  n % PageSize = 0 <=> \E k \in Nat: n = PageSize * k
<1>1. ASSUME n % PageSize = 0 PROVE n = PageSize * (n \div PageSize)
  BY <1>1, Division, PageAssumption
<1>2. ASSUME NEW k \in Nat, n = PageSize * k PROVE n % PageSize = 0
  BY <1>2, PageAssumption
<1>3. n \div PageSize \in Nat
  BY Division
<1> QED
  BY <1>1, <1>2, <1>3

LEMMA PageAdded ==
    ASSUME NEW n \in Nat, n % PageSize = 0
    PROVE  n + PageSize \in Nat /\ (n + PageSize) % PageSize = 0
<1>1. PICK k \in Nat: n = PageSize * k
  BY WholePages
<1>2. k + 1 \in Nat /\ n + PageSize = PageSize * (k + 1) /\ n + PageSize \in Nat
  BY <1>1, PageAssumption
<1> QED
  BY <1>2, WholePages

\* RoundedUp gives the whole pages that size slots take.
LEMMA RoundedUpIs ==
    ASSUME NEW size \in Nat
    PROVE  /\ RoundedUp(size) \in Nat
           /\ size <= RoundedUp(size)
           /\ RoundedUp(size) % PageSize = 0
<1> DEFINE n == size + PageSize - 1
<1>1. n \in Nat
  BY PageAssumption
<1>2. /\ n \div PageSize \in Nat
      /\ n % PageSize \in 0..PageSize - 1
      /\ n = PageSize * (n \div PageSize) + (n % PageSize)
  BY <1>1, Division
<1>3. RoundedUp(size) = PageSize * (n \div PageSize)
  BY DEF RoundedUp
<1>4. RoundedUp(size) \in Nat /\ size <= RoundedUp(size)
  BY <1>2, <1>3, PageAssumption
<1> QED
  BY <1>2, <1>3, <1>4, WholePages

\* Where there are fewer whole pages than size slots take, one more fits.
LEMMA OneMorePage ==
    ASSUME NEW n \in Nat, NEW size \in Nat, n % PageSize = 0, n < size
    PROVE  n + PageSize <= RoundedUp(size)
<1>1. PICK k \in Nat: RoundedUp(size) = PageSize * k
  BY RoundedUpIs, WholePages
<1>2. PICK j \in Nat: n = PageSize * j
  BY WholePages
<1>3. PageSize * j < PageSize * k
  BY <1>1, <1>2, RoundedUpIs
<1>4. ~(k <= j)
  <2>1. ASSUME k <= j PROVE PageSize * k <= PageSize * j
    BY <2>1, PageAssumption
  <2> QED
    BY <1>3, <2>1, PageAssumption
<1>5. PageSize * (j + 1) <= PageSize * k
  BY <1>4, PageAssumption
<1> QED
  BY <1>1, <1>2, <1>5, PageAssumption

-----------------------------------------------------------------------------
(* The operations, on pages.                                               *)

LEMMA GrownByPage ==
    ASSUME TypeOK, Free(table) = {}
    PROVE  Len(Grown) = Len(table) + PageSize
<1> DEFINE page == [n \in 1..PageSize |-> NULL]
<1>1. page \in Seq(Objects \cup {NULL}) /\ Len(page) = PageSize
  BY PageAssumption
<1>2. Grown = table \o page
  BY DEF Grown
<1>3. table \in Seq(Objects \cup {NULL})
  BY DEF TypeOK
<1> HIDE DEF page
<1> QED
  BY <1>1, <1>2, <1>3, ConcatProperties

\* A new object takes a slot that was free, of a page that was added if none was.
LEMMA AddOnPages ==
    ASSUME PInv, NEW o \in Objects, NEW value \in Value, add(o, value)
    PROVE  /\ table' \in Seq(Objects \cup {NULL})
           /\ object' \in [Objects -> [live: BOOLEAN, value: Value]]
           /\ Whole' /\ SlotsHoldLive'
           /\ Len(table') = Len(Grown)
           /\ Len(table) <= Len(table')
<1>1. PICK i \in 1..Len(Grown): First(i, Free(Grown)) /\ table' = [Grown EXCEPT ![i] = o]
  BY DEF add
<1>2. /\ Grown \in Seq(Objects \cup {NULL})
      /\ Len(table) <= Len(Grown)
      /\ \A j \in 1..Len(Grown): Grown[j] = IF j <= Len(table) THEN table[j] ELSE NULL
  BY GrownTable DEF PInv
<1>3. /\ table' \in Seq(Objects \cup {NULL})
      /\ Len(table') = Len(Grown)
      /\ \A j \in 1..Len(Grown): table'[j] = IF j = i THEN o ELSE Grown[j]
  BY <1>1, <1>2, ExceptSeq
<1>4. /\ object' = [object EXCEPT ![o] = [live |-> TRUE, value |-> value]]
      /\ object' \in [Objects -> [live: BOOLEAN, value: Value]]
      /\ ~object[o].live
  BY Added DEF PInv
<1>5. Len(table) \in Nat /\ Len(Grown) \in Nat
  BY <1>2 DEF PInv, TypeOK
<1>6. Whole'
  <2>1. CASE Free(table) = {}
    BY <1>3, <1>5, <2>1, GrownByPage, PageAdded DEF PInv, Whole
  <2>2. CASE Free(table) # {}
    BY <1>3, <2>2 DEF Grown, PInv, Whole
  <2> QED
    BY <2>1, <2>2
<1>7. SlotsHoldLive'
  <2>1. /\ \A q \in Objects: q # o => object'[q] = object[q]
        /\ object'[o].live
    BY <1>4 DEF PInv, TypeOK
  <2>2. ASSUME NEW j \in 1..Len(table'), table'[j] # NULL, j # i
        PROVE  /\ j \in 1..Len(table) /\ table'[j] = table[j]
               /\ table[j] # o /\ table[j] \in Objects
               /\ object'[table[j]].live
    <3>1. j \in 1..Len(table) /\ table'[j] = table[j]
      BY <1>2, <1>3, <1>5, <2>2
    <3>2. table[j] \in Objects /\ object[table[j]].live
      BY <2>2, <3>1 DEF PInv, SlotsHoldLive
    <3> QED
      BY <1>4, <2>1, <3>1, <3>2
  <2> QED
    BY <1>1, <1>3, <2>1, <2>2, NullAssumption DEF PInv, SlotsHoldLive
<1> QED
  BY <1>2, <1>3, <1>4, <1>6, <1>7

\* A slot and the object in it are freed together; nothing is when it is free.
LEMMA DeleteOnPages ==
    ASSUME PInv, NEW i \in 1..Len(table), DELETE(i)
    PROVE  /\ table' \in Seq(Objects \cup {NULL})
           /\ object' \in [Objects -> [live: BOOLEAN, value: Value]]
           /\ Whole' /\ SlotsHoldLive'
           /\ Len(table') = Len(table)
<1>1. CASE table[i] = NULL
  BY <1>1 DEF DELETE, PInv, TypeOK, Whole, SlotsHoldLive
<1>2. CASE table[i] # NULL
  <2>1. /\ table' = [table EXCEPT ![i] = NULL]
        /\ object' = [object EXCEPT ![table[i]].live = FALSE]
        /\ table[i] \in Objects
    BY <1>2 DEF DELETE, PInv, SlotsHoldLive
  <2>2. /\ table' \in Seq(Objects \cup {NULL})
        /\ Len(table') = Len(table)
        /\ \A j \in 1..Len(table): table'[j] = IF j = i THEN NULL ELSE table[j]
    BY <2>1, ExceptSeq DEF PInv, TypeOK
  <2>3. /\ object' \in [Objects -> [live: BOOLEAN, value: Value]]
        /\ \A q \in Objects: q # table[i] => object'[q] = object[q]
    BY <2>1 DEF PInv, TypeOK
  <2>4. SlotsHoldLive'
    BY <2>2, <2>3 DEF PInv, SlotsHoldLive
  <2>5. Whole'
    BY <2>2 DEF PInv, Whole
  <2> QED
    BY <2>2, <2>3, <2>4, <2>5
<1> QED
  BY <1>1, <1>2

LEMMA RemoveOnPages ==
    ASSUME PInv, NEW value, remove(value)
    PROVE  /\ table' \in Seq(Objects \cup {NULL})
           /\ object' \in [Objects -> [live: BOOLEAN, value: Value]]
           /\ Whole' /\ SlotsHoldLive'
           /\ Len(table') = Len(table)
<1>1. CASE UNCHANGED <<table, object>>
  BY <1>1 DEF PInv, TypeOK, Whole, SlotsHoldLive
<1>2. CASE \E i \in 1..Len(table): DELETE(i)
  BY <1>2, DeleteOnPages
<1> QED
  BY <1>1, <1>2 DEF remove

\* NoOwner is of an owner's type, and its index is in any table.
LEMMA NoOwnerType ==
    /\ NoOwner \in [object: Objects \cup {NULL}, index: Nat]
    /\ NoOwner.object = NULL /\ NoOwner.index = 0
BY DEF NoOwner

\* What the operations of the owners that give up their objects have in common.
LEMMA OwnerGivesUp ==
    ASSUME PInv, NEW p \in Owners,
           owner' = [owner EXCEPT ![p] = NoOwner],
           Len(table') = Len(table)
    PROVE  /\ owner' \in [Owners -> [object: Objects \cup {NULL}, index: Nat]]
           /\ IndexInTable'
<1>1. owner' \in [Owners -> [object: Objects \cup {NULL}, index: Nat]]
  BY NoOwnerType DEF PInv, TypeOK
<1>2. ASSUME NEW q \in Owners
      PROVE  /\ owner'[q].index <= Len(table')
             /\ owner'[q].object # NULL => owner'[q].index >= 1
  <2>1. Len(table) \in Nat
    BY DEF PInv, TypeOK
  <2>2. owner'[q] = IF q = p THEN NoOwner ELSE owner[q]
    BY DEF PInv, TypeOK
  <2> QED
    BY <2>1, <2>2, NoOwnerType DEF PInv, IndexInTable
<1> QED
  BY <1>1, <1>2 DEF IndexInTable

LEMMA newHandleOnPages == ASSUME PInv, NEW h \in Handles, newHandle(h) PROVE PInv'
<1>1. PICK o \in Objects, d \in Descriptions:
          /\ add(o, [description |-> d, handles |-> 1])
          /\ handle' = [handle EXCEPT ![h] = o]
  BY DEF newHandle
<1>2. [description |-> d, handles |-> 1] \in Value
  BY DEF Value
<1>3. /\ table' \in Seq(Objects \cup {NULL})
      /\ object' \in [Objects -> [live: BOOLEAN, value: Value]]
      /\ Whole' /\ SlotsHoldLive'
      /\ Len(table) <= Len(table')
  BY <1>1, <1>2, AddOnPages
<1>4. UNCHANGED <<owner, ended>>
  BY DEF newHandle
<1>5. TypeOK'
  BY <1>1, <1>3, <1>4 DEF PInv, TypeOK
<1>6. IndexInTable'
  <2>1. Len(table) \in Nat /\ Len(table') \in Nat /\ \A p \in Owners: owner[p].index \in Nat
    BY <1>3 DEF PInv, TypeOK
  <2> QED
    BY <1>3, <1>4, <2>1 DEF PInv, IndexInTable
<1> QED
  BY <1>3, <1>5, <1>6 DEF PInv

LEMMA newObjectOnPages == ASSUME PInv, NEW p \in Owners, newObject(p) PROVE PInv'
<1>1. PICK o \in Objects, d \in Descriptions:
          /\ add(o, [description |-> d, handles |-> 0])
          /\ \E i \in 1..Len(table'): owner' = [owner EXCEPT ![p] = [object |-> o, index |-> i]]
  BY DEF newObject
<1>2. [description |-> d, handles |-> 0] \in Value
  BY DEF Value
<1>3. /\ table' \in Seq(Objects \cup {NULL})
      /\ object' \in [Objects -> [live: BOOLEAN, value: Value]]
      /\ Whole' /\ SlotsHoldLive'
      /\ Len(table) <= Len(table')
  BY <1>1, <1>2, AddOnPages
<1>4. PICK i \in 1..Len(table'): owner' = [owner EXCEPT ![p] = [object |-> o, index |-> i]]
  BY <1>1
<1>5. /\ i \in Nat /\ i >= 1 /\ i <= Len(table')
      /\ Len(table) \in Nat /\ Len(table') \in Nat
  BY <1>3 DEF PInv, TypeOK
<1>6. [object |-> o, index |-> i] \in [object: Objects \cup {NULL}, index: Nat]
  BY <1>5
<1>7. TypeOK'
  <2>1. owner' \in [Owners -> [object: Objects \cup {NULL}, index: Nat]]
    BY <1>4, <1>6 DEF PInv, TypeOK
  <2> QED
    BY <1>3, <2>1 DEF newObject, PInv, TypeOK
<1>8. ASSUME NEW q \in Owners
      PROVE  /\ owner'[q].index <= Len(table')
             /\ owner'[q].object # NULL => owner'[q].index >= 1
  <2>1. owner'[q] = IF q = p THEN [object |-> o, index |-> i] ELSE owner[q]
    BY <1>4 DEF PInv, TypeOK
  <2>2. owner[q].index \in Nat
    BY DEF PInv, TypeOK
  <2> QED
    BY <1>3, <1>5, <2>1, <2>2 DEF PInv, IndexInTable
<1> QED
  BY <1>3, <1>7, <1>8 DEF PInv, IndexInTable

\* Even by a pointer to what is no longer there, an owner deletes a slot of the
\* table or none.
LEMMA OwnerDeletesOnPages ==
    ASSUME PInv, NEW p \in Owners, deleteObject(p) \/ deleteAtIndex(p)
    PROVE  PInv'
<1>1. /\ owner[p].object # NULL
      /\ owner' = [owner EXCEPT ![p] = NoOwner]
      /\ UNCHANGED <<handle, ended>>
  BY DEF deleteObject, deleteAtIndex
<1>2. /\ table' \in Seq(Objects \cup {NULL})
      /\ object' \in [Objects -> [live: BOOLEAN, value: Value]]
      /\ Whole' /\ SlotsHoldLive'
      /\ Len(table') = Len(table)
  <2>1. CASE deleteObject(p)
    BY <2>1, RemoveOnPages DEF deleteObject
  <2>2. CASE deleteAtIndex(p)
    <3>1. owner[p].index \in 1..Len(table)
      BY <1>1 DEF PInv, TypeOK, IndexInTable
    <3> QED
      BY <2>2, <3>1, DeleteOnPages DEF deleteAtIndex
  <2> QED
    BY <2>1, <2>2
<1>3. /\ owner' \in [Owners -> [object: Objects \cup {NULL}, index: Nat]]
      /\ IndexInTable'
  BY <1>1, <1>2, OwnerGivesUp
<1> QED
  BY <1>1, <1>2, <1>3 DEF PInv, TypeOK

\* The count that CloseHandle takes from what a pointer shows is a number,
\* whether the object is there or not.
LEMMA CloseHandleOnPages == ASSUME PInv, NEW h \in Handles, CloseHandle(h) PROVE PInv'
<1>1. /\ handle[h] \in Objects
      /\ handle' = [handle EXCEPT ![h] = NULL]
      /\ UNCHANGED <<owner, ended>>
  BY DEF CloseHandle, PInv, TypeOK
<1>2. PICK value \in Read(handle[h]):
          \/ remove(value)
          \/ /\ object' = [object EXCEPT ![handle[h]].value.handles = value.handles - 1]
             /\ UNCHANGED table
  BY DEF CloseHandle
<1>3. /\ table' \in Seq(Objects \cup {NULL})
      /\ object' \in [Objects -> [live: BOOLEAN, value: Value]]
      /\ Whole' /\ SlotsHoldLive'
      /\ Len(table') = Len(table)
  <2>1. CASE remove(value)
    BY <2>1, RemoveOnPages
  <2>2. CASE /\ object' = [object EXCEPT ![handle[h]].value.handles = value.handles - 1]
             /\ UNCHANGED table
    <3>1. value.handles \in Int
      BY <1>1, <1>2 DEF Read, PInv, TypeOK, Value
    <3>2. /\ object'[handle[h]] = [object[handle[h]] EXCEPT !.value.handles = value.handles - 1]
          /\ \A o \in Objects: o # handle[h] => object'[o] = object[o]
          /\ object' = [o \in Objects |-> object'[o]]
      BY <1>1, <2>2 DEF PInv, TypeOK
    <3>3. /\ object'[handle[h]] \in [live: BOOLEAN, value: Value]
          /\ object'[handle[h]].live = object[handle[h]].live
      <4> DEFINE k == value.handles - 1
                 old == object[handle[h]]
      <4>1. k \in Int
        BY <3>1
      <4>2. object'[handle[h]] = [old EXCEPT !.value = [@ EXCEPT !.handles = k]]
        BY <3>2
      <4>3. old \in [live: BOOLEAN, value: Value]
        BY <1>1 DEF PInv, TypeOK
      <4> HIDE DEF k, old
      <4>4. [old.value EXCEPT !.handles = k] \in Value
        BY <4>1, <4>3 DEF Value
      <4>5. /\ object'[handle[h]] \in [live: BOOLEAN, value: Value]
            /\ object'[handle[h]].live = old.live
        BY <4>2, <4>3, <4>4
      <4> QED
        BY <4>5 DEF old
    <3>4. /\ object' \in [Objects -> [live: BOOLEAN, value: Value]]
          /\ \A o \in Objects: object'[o].live = object[o].live
      BY <3>2, <3>3 DEF PInv, TypeOK
    <3> QED
      BY <2>2, <3>4 DEF PInv, TypeOK, Whole, SlotsHoldLive
  <2> QED
    BY <1>2, <2>1, <2>2
<1>4. TypeOK'
  BY <1>1, <1>3 DEF PInv, TypeOK
<1>5. IndexInTable'
  BY <1>1, <1>3 DEF PInv, IndexInTable
<1> QED
  BY <1>3, <1>4, <1>5 DEF PInv

\* Pages are added empty or taken away; the objects of the pages that are
\* cleared are deleted, and a slot that is kept is of no object that is.
LEMMA allocateOnPages == ASSUME PInv, NEW size \in Sizes, allocate(size) PROVE PInv'
<1> DEFINE pn == Len(table) \div PageSize
           pr == size \div PageSize
           cleared == {i \in 1..Len(table): PageOf(i) \in (pr..pn - 1) \cup (pn..pr - 1)}
           n == RoundedUp(size)
<1>1. /\ \A p \in Owners: owner[p].index <= n
      /\ table' = [i \in 1..n |-> IF i > Len(table) \/ i \in cleared THEN NULL ELSE table[i]]
      /\ object' = IF pn < pr THEN object
                   ELSE [o \in Objects |->
                           [object[o] EXCEPT !.live = @ /\ ~\E i \in cleared: table[i] = o]]
      /\ UNCHANGED <<handle, owner, ended>>
  BY DEF allocate
<1>2. n \in Nat /\ n % PageSize = 0
  BY RoundedUpIs, SizesAssumption
<1>3. cleared \subseteq 1..Len(table)
  OBVIOUS
<1> HIDE DEF pn, pr, cleared, n
<1>4. /\ Len(table) \in Nat
      /\ \A i \in 1..Len(table): table[i] \in Objects \cup {NULL}
  BY DEF PInv, TypeOK
<1>5. \A i \in 1..n: i > Len(table) \/ i \in 1..Len(table)
  BY <1>2, <1>4
<1>6. /\ table' \in Seq(Objects \cup {NULL})
      /\ Len(table') = n
      /\ \A i \in 1..n: table'[i] = IF i > Len(table) \/ i \in cleared THEN NULL ELSE table[i]
  BY <1>1, <1>2, <1>4, <1>5
<1>7. /\ object' \in [Objects -> [live: BOOLEAN, value: Value]]
      /\ \A o \in Objects: object[o].live /\ ~(\E i \in cleared: table[i] = o) => object'[o].live
  <2>1. CASE pn < pr
    BY <1>1, <2>1 DEF PInv, TypeOK
  <2>2. CASE ~(pn < pr)
    <3>1. object' = [o \in Objects |->
                        [object[o] EXCEPT !.live =
                            object[o].live /\ ~\E i \in cleared: table[i] = o]]
      BY <1>1, <2>2
    <3>2. ASSUME NEW o \in Objects
          PROVE  /\ object'[o] \in [live: BOOLEAN, value: Value]
                 /\ object[o].live /\ ~(\E i \in cleared: table[i] = o) => object'[o].live
      <4>1. object[o] \in [live: BOOLEAN, value: Value]
        BY DEF PInv, TypeOK
      <4>2. (object[o].live /\ ~\E i \in cleared: table[i] = o) \in BOOLEAN
        OBVIOUS
      <4> DEFINE kept == object[o].live /\ ~\E i \in cleared: table[i] = o
      <4>3. object'[o] = [object[o] EXCEPT !.live = kept]
        BY <3>1
      <4>4. kept \in BOOLEAN /\ (object[o].live /\ ~(\E i \in cleared: table[i] = o) => kept)
        OBVIOUS
      <4> HIDE DEF kept
      <4> QED
        BY <4>1, <4>3, <4>4
    <3>3. object' = [o \in Objects |-> object'[o]]
      BY <3>1
    <3> QED
      BY <3>2, <3>3
  <2> QED
    BY <2>1, <2>2
<1>8. SlotsHoldLive'
  <2>1. ASSUME NEW i \in 1..Len(table'), table'[i] # NULL
        PROVE  /\ i \in 1..Len(table) /\ i \notin cleared
               /\ table'[i] = table[i]
               /\ table[i] \in Objects /\ object[table[i]].live
    BY <1>5, <1>6, <2>1 DEF PInv, SlotsHoldLive
  <2>2. ASSUME NEW i \in 1..Len(table'), table'[i] # NULL
        PROVE  object'[table'[i]].live
    <3>1. ~\E j \in cleared: table[j] = table[i]
      BY <1>3, <2>1, <2>2, NullAssumption DEF PInv, SlotsHoldLive
    <3> QED
      BY <1>7, <2>1, <2>2, <3>1
  <2>3. ASSUME NEW i \in 1..Len(table'), NEW j \in 1..Len(table'), table'[i] # NULL,
               table'[i] = table'[j]
        PROVE  i = j
    <3>1. /\ i \in 1..Len(table) /\ j \in 1..Len(table)
          /\ table[i] # NULL /\ table[i] = table[j]
      BY <2>1, <2>3
    <3> QED
      BY <3>1 DEF PInv, SlotsHoldLive
  <2> QED
    BY <2>1, <2>2, <2>3 DEF SlotsHoldLive
<1>9. Whole'
  BY <1>2, <1>6 DEF Whole
<1>10. IndexInTable'
  BY <1>1, <1>6 DEF PInv, IndexInTable
<1>11. TypeOK'
  BY <1>1, <1>6, <1>7 DEF PInv, TypeOK
<1> QED
  BY <1>8, <1>9, <1>10, <1>11 DEF PInv

LEMMA removeAllOnPages == ASSUME PInv, removeAll PROVE PInv'
<1>1. /\ ended' = TRUE
      /\ table' = <<>>
      /\ handle' = [h \in Handles |-> NULL]
      /\ owner' = [p \in Owners |-> NoOwner]
  BY DEF removeAll
<1>2. object' \in [Objects -> [live: BOOLEAN, value: Value]]
  <2>1. ASSUME NEW o \in Objects
        PROVE  object'[o] \in [live: BOOLEAN, value: Value]
    <3> DEFINE kept == object[o].live /\ ~\E i \in 1..Len(table): table[i] = o
    <3>1. object'[o] = [object[o] EXCEPT !.live = kept]
      BY DEF removeAll
    <3>2. kept \in BOOLEAN
      OBVIOUS
    <3> HIDE DEF kept
    <3> QED
      BY <3>1, <3>2 DEF PInv, TypeOK
  <2>2. object' = [o \in Objects |-> object'[o]]
    BY DEF removeAll
  <2> QED
    BY <2>1, <2>2
<1>3. table' \in Seq(Objects \cup {NULL}) /\ Len(table') = 0
  BY <1>1
<1>4. owner' \in [Owners -> [object: Objects \cup {NULL}, index: Nat]]
  BY <1>1, NoOwnerType
<1>5. TypeOK'
  BY <1>1, <1>2, <1>3, <1>4 DEF TypeOK
<1>6. \A p \in Owners: owner'[p].index = 0 /\ owner'[p].object = NULL
  BY <1>1, NoOwnerType
<1>7. IndexInTable'
  BY <1>3, <1>6 DEF IndexInTable
<1>8. 0 % PageSize = 0
  BY PageAssumption
<1> QED
  BY <1>3, <1>5, <1>7, <1>8 DEF PInv, Whole, SlotsHoldLive

LEMMA InitPInv == Init => PInv
<1> SUFFICES ASSUME Init PROVE PInv
  OBVIOUS
<1>1. TypeOK
  BY InitIInv DEF IInv
<1>2. table = <<>> /\ Len(table) = 0 /\ owner = [p \in Owners |-> NoOwner]
  BY DEF Init
<1>3. IndexInTable
  BY <1>2, NoOwnerType DEF IndexInTable
<1>4. 0 % PageSize = 0
  BY PageAssumption
<1> QED
  BY <1>1, <1>2, <1>3, <1>4 DEF PInv, Whole, SlotsHoldLive

LEMMA NextPInv == ASSUME PInv, [Next]_vars PROVE PInv'
<1>1. ASSUME NEW h \in Handles, newHandle(h) PROVE PInv'
  BY <1>1, newHandleOnPages
<1>2. ASSUME NEW h \in Handles, CloseHandle(h) PROVE PInv'
  BY <1>2, CloseHandleOnPages
<1>3. ASSUME NEW p \in Owners, newObject(p) PROVE PInv'
  BY <1>3, newObjectOnPages
<1>4. ASSUME NEW p \in Owners, deleteObject(p) \/ deleteAtIndex(p) PROVE PInv'
  BY <1>4, OwnerDeletesOnPages
<1>5. ASSUME NEW size \in Sizes, allocate(size) PROVE PInv'
  BY <1>5, allocateOnPages
<1>6. ASSUME removeAll PROVE PInv'
  BY <1>6, removeAllOnPages
<1>7. ASSUME UNCHANGED vars PROVE PInv'
  BY <1>7 DEF vars, PInv, TypeOK, IndexInTable, Whole, SlotsHoldLive
<1> QED
  BY <1>1, <1>2, <1>3, <1>4, <1>5, <1>6, <1>7 DEF Next

LEMMA PInvCorrect == Spec => []PInv
<1>1. Init => PInv
  BY InitPInv
<1>2. PInv /\ [Next]_vars => PInv'
  BY NextPInv
<1> QED
  BY <1>1, <1>2, PTL DEF Spec

\* The table, the objects and whoever points to them keep their types, whatever
\* the callers do.
THEOREM TypeCorrect == Spec => []TypeOK
<1>1. PInv => TypeOK
  BY DEF PInv
<1> QED
  BY <1>1, PInvCorrect, PTL

\* However objects are made, deleted through pointers good or bad, and pages
\* allocated, the table is whole pages, and no slot points to an object that has
\* been deleted or that another slot has (add, DELETE, Page::allocate).
THEOREM TableIsSoundCorrect == Spec => []TableIsSound
<1>1. PInv => TableIsSound
  BY DEF PInv, Whole, SlotsHoldLive, TableIsSound, Live
<1> QED
  BY <1>1, PInvCorrect, PTL

-----------------------------------------------------------------------------
(***************************************************************************)
(* The size of the table, when nobody but add allocates pages.  A page is  *)
(* added when each slot holds an object, of which, by SlotsHoldLive, there *)
(* are as many as slots; and the new object is yet another.                *)
(***************************************************************************)
LEMMA FullIsSmall ==
    ASSUME IsFiniteSet(Objects), PInv, Free(table) = {}, NEW o \in Objects, ~object[o].live
    PROVE  Len(table) < Cardinality(Objects)
<1> DEFINE others == Objects \ {o}
           f == [i \in 1..Len(table) |-> table[i]]
<1>1. \A i \in 1..Len(table): table[i] # NULL
  BY DEF Free
<1>2. \A i \in 1..Len(table): table[i] \in others
  BY <1>1 DEF PInv, SlotsHoldLive
<1>3. f \in Injection(1..Len(table), others)
  BY <1>1, <1>2 DEF PInv, SlotsHoldLive, Injection, IsInjective
<1>4. /\ IsFiniteSet(others)
      /\ Cardinality(others) = Cardinality(Objects) - 1
      /\ Cardinality(Objects) \in Nat
  BY FS_RemoveElement, FS_CardinalityType
<1>5. Cardinality(1..Len(table)) <= Cardinality(others)
  BY <1>3, <1>4, FS_Injection
<1>6. Len(table) \in Nat /\ Cardinality(1..Len(table)) = Len(table)
  <2>1. Len(table) \in Nat
    BY DEF PInv, TypeOK
  <2> QED
    BY <2>1, FS_Interval
<1> QED
  BY <1>4, <1>5, <1>6

LEMMA AddStaysSmall ==
    ASSUME IsFiniteSet(Objects), PInv, TableStaysSmall,
           NEW o \in Objects, NEW value \in Value, add(o, value)
    PROVE  TableStaysSmall'
<1>1. Len(table') = Len(Grown)
  BY AddOnPages
<1>2. Cardinality(Objects) \in Nat /\ Len(table) \in Nat
  BY FS_CardinalityType DEF PInv, TypeOK
<1>3. CASE Free(table) = {}
  <2>1. Len(table) < Cardinality(Objects)
    BY <1>3, FullIsSmall DEF add
  <2>2. Len(table) + PageSize <= RoundedUp(Cardinality(Objects))
    BY <1>2, <2>1, OneMorePage DEF PInv, Whole
  <2> QED
    BY <1>1, <1>3, <2>2, GrownByPage DEF PInv, TableStaysSmall
<1>4. CASE Free(table) # {}
  BY <1>1, <1>4 DEF Grown, TableStaysSmall
<1> QED
  BY <1>3, <1>4

LEMMA NextStaysSmall ==
    ASSUME IsFiniteSet(Objects), Sizes = {}, PInv, TableStaysSmall, [Next]_vars
    PROVE  TableStaysSmall'
<1>1. ASSUME NEW h \in Handles, newHandle(h) PROVE TableStaysSmall'
  <2>1. PICK o \in Objects, d \in Descriptions: add(o, [description |-> d, handles |-> 1])
    BY <1>1 DEF newHandle
  <2>2. [description |-> d, handles |-> 1] \in Value
    BY DEF Value
  <2> QED
    BY <2>1, <2>2, AddStaysSmall
<1>2. ASSUME NEW p \in Owners, newObject(p) PROVE TableStaysSmall'
  <2>1. PICK o \in Objects, d \in Descriptions: add(o, [description |-> d, handles |-> 0])
    BY <1>2 DEF newObject
  <2>2. [description |-> d, handles |-> 0] \in Value
    BY DEF Value
  <2> QED
    BY <2>1, <2>2, AddStaysSmall
<1>3. ASSUME Len(table') = Len(table) PROVE TableStaysSmall'
  BY <1>3 DEF TableStaysSmall
<1>4. ASSUME NEW value, remove(value) PROVE TableStaysSmall'
  BY <1>3, <1>4, RemoveOnPages
<1>5. ASSUME NEW h \in Handles, CloseHandle(h) PROVE TableStaysSmall'
  <2>1. (\E value: remove(value)) \/ UNCHANGED table
    BY <1>5 DEF CloseHandle
  <2> QED
    BY <1>3, <1>4, <2>1
<1>6. ASSUME NEW p \in Owners, deleteObject(p) PROVE TableStaysSmall'
  BY <1>4, <1>6 DEF deleteObject
<1>7. ASSUME NEW p \in Owners, deleteAtIndex(p) PROVE TableStaysSmall'
  <2>1. owner[p].index \in 1..Len(table) /\ DELETE(owner[p].index)
    BY <1>7 DEF deleteAtIndex, PInv, TypeOK, IndexInTable
  <2> QED
    BY <1>3, <2>1, DeleteOnPages
<1>8. ASSUME removeAll PROVE TableStaysSmall'
  <2>1. Len(table') = 0
    BY <1>8 DEF removeAll
  <2>2. RoundedUp(Cardinality(Objects)) \in Nat
    BY FS_CardinalityType, RoundedUpIs
  <2> QED
    BY <2>1, <2>2 DEF TableStaysSmall
<1>9. ASSUME UNCHANGED vars PROVE TableStaysSmall'
  BY <1>3, <1>9 DEF vars
<1> QED
  BY <1>1, <1>2, <1>5, <1>6, <1>7, <1>8, <1>9 DEF Next

\* As long as pages are added by add alone, the table never has more than the
\* pages for as many objects as there can be at once: slots are used again
\* (nextFreeIndex), equal objects or not.
THEOREM TableStaysSmallCorrect ==
    IsFiniteSet(Objects) /\ Sizes = {} => (Spec => []TableStaysSmall)
<1> SUFFICES ASSUME IsFiniteSet(Objects), Sizes = {} PROVE Spec => []TableStaysSmall
  OBVIOUS
<1>1. Init => TableStaysSmall
  <2>1. RoundedUp(Cardinality(Objects)) \in Nat
    BY FS_CardinalityType, RoundedUpIs
  <2> QED
    BY <2>1 DEF Init, TableStaysSmall
<1>2. PInv /\ TableStaysSmall /\ [Next]_vars => TableStaysSmall'
  BY NextStaysSmall
<1>3. Spec => []PInv
  BY PInvCorrect
<1> QED
  BY <1>1, <1>2, <1>3, PTL DEF Spec
=============================================================================
