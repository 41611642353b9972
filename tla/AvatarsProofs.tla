---------------------------- MODULE AvatarsProofs ----------------------------
(* What Avatars keeps, for every number of avatars, requests and faults. *)
EXTENDS Avatars, TLAPS

\* What a request at an await knows of its avatar.
CallOK(q) ==
    LET a == call[q].a
    IN  /\ call[q].pc \in {"put", "insert"} =>
             /\ row[a] = "none" /\ a \in object
             /\ \A p \in Call \ {q} : call[p].a # a
        /\ At(q, "undo") => row[a] = "none" \/ a \in doubt
        /\ call[q].pc \in {"select", "remove", "dropped", "deleting"} => row[a] # "none"
        /\ call[q].pc \in {"dropped", "deleting"} => a \notin object
        /\ At(q, "deleting") => call[q].next # a

AvatarInv ==
    /\ TypeOK
    /\ RowHasObject
    /\ ObjectHasRow
    /\ \A q \in Call : CallOK(q)

Step(q) == Create(q) \/ Select(q) \/ Remove(q) \/ Fail(q)

Pc == {"idle", "put", "insert", "undo", "select", "remove", "dropped", "deleting"}
CallType == [pc : Pc, a : Avatar \cup {None}, sel : BOOLEAN, next : Avatar \cup {None}]
RowType == [Avatar -> {"none", "plain", "selected", "gone"}]
OneAtMost == \A a, b \in Rows : IsSelected(a) /\ IsSelected(b) => a = b
CallTyped ==
    /\ call \in [Call -> CallType]
    /\ \A q \in Call : call[q].pc # "idle" => call[q].a \in Avatar
OthersTyped ==
    object \subseteq Avatar /\ doubt \subseteq Avatar /\ raced \in BOOLEAN /\ faults \in Nat

LEMMA TypeParts == TypeOK <=> row \in RowType /\ OneAtMost /\ CallTyped /\ OthersTyped
BY DEF TypeOK, RowType, OneAtMost, CallTyped, OthersTyped, CallType, Pc, At

LEMMA CallFields ==
    ASSUME NEW r \in CallType
    PROVE  /\ \A pc \in Pc : [r EXCEPT !.pc = pc] \in CallType
           /\ \A pc \in Pc, s \in BOOLEAN : [r EXCEPT !.pc = pc, !.sel = s] \in CallType
           /\ \A pc \in Pc, n \in Avatar \cup {None} :
                 [r EXCEPT !.pc = pc, !.next = n] \in CallType
           /\ r.a \in Avatar \cup {None} /\ r.next \in Avatar \cup {None} /\ r.sel \in BOOLEAN
BY DEF CallType

\* Every request stays typed and keeps an avatar until it returns.
LEMMA CallTypeStep ==
    ASSUME AvatarInv, NEW q \in Call, Step(q)
    PROVE  CallTyped'
<1>1. row \in RowType /\ OneAtMost /\ CallTyped /\ OthersTyped
  BY TypeParts DEF AvatarInv
<1>2. call[q] \in CallType /\ None \notin Avatar
  BY <1>1, AvatarsAssumption DEF CallTyped, None
<1>a1. CASE \E a \in Avatar : CreatePut(q, a)
  BY <1>a1, <1>1, <1>2 DEF CreatePut, Unused, Asking, CallTyped, CallType, At, Pc, Calm
<1>a2. CASE CreateLook(q)
  BY <1>a2, <1>1, <1>2 DEF CreateLook, CallTyped, CallType, At, Pc, Calm
<1>a3. CASE CreateInsert(q)
  BY <1>a3, <1>1, <1>2
     DEF CreateInsert, Insert, Return, Idle, CallTyped, CallType, At, Pc, Calm
<1>a4. CASE CreateViolation(q)
  BY <1>a4, <1>1, <1>2 DEF CreateViolation, Goto, CallTyped, CallType, At, Pc, Calm
<1>a5. CASE CreateError(q)
  BY <1>a5, <1>1, <1>2 DEF CreateError, Insert, Goto, CallTyped, CallType, At, Pc, Calm
<1>a6. CASE CreateUndo(q)
  BY <1>a6, <1>1, <1>2 DEF CreateUndo, Return, Idle, CallTyped, CallType, At, Pc, Calm
<1>a7. CASE \E a \in Avatar : SelectFind(q, a)
  BY <1>a7, <1>1, <1>2 DEF SelectFind, Asking, CallTyped, CallType, At, Pc, Calm
<1>a8. CASE SelectCommit(q)
  BY <1>a8, <1>1, <1>2
     DEF SelectCommit, Return, Idle, IsSelected, CallTyped, CallType, At, Pc, Calm
<1>a9. CASE SelectRollback(q)
  BY <1>a9, <1>1, <1>2 DEF SelectRollback, Return, Idle, CallTyped, CallType, At, Pc, Calm
<1>a10. CASE \E a \in Avatar : RemoveFind(q, a)
  <2>1. PICK a \in Avatar : call' = [call EXCEPT ![q] =
             [pc |-> "remove", a |-> a, sel |-> IsSelected(a), next |-> None]]
    BY <1>a10 DEF RemoveFind, Asking
  <2>2. IsSelected(a) \in BOOLEAN
    BY DEF IsSelected
  <2> QED
    BY <1>1, <2>1, <2>2 DEF CallTyped, CallType, Pc
<1>a11. CASE RemoveObject(q)
  BY <1>a11, <1>1, <1>2 DEF RemoveObject, Goto, CallTyped, CallType, At, Pc, Calm
<1>a12. CASE RemovePlain(q)
  BY <1>a12, <1>1, <1>2
     DEF RemovePlain, Return, Idle, Without, CallTyped, CallType, At, Pc, Calm
<1>a13. CASE RemoveDelete(q)
  <2>1. PICK n \in Avatar \cup {None} :
             call' = [call EXCEPT ![q].pc = "deleting", ![q].next = n]
    BY <1>a13 DEF RemoveDelete
  <2>2. [call[q] EXCEPT !.pc = "deleting", !.next = n] \in CallType
    BY <1>2, CallFields DEF Pc
  <2>3. call' = [call EXCEPT ![q] = [call[q] EXCEPT !.pc = "deleting", !.next = n]]
    BY <2>1
  <2>4. call[q].a \in Avatar /\ [call[q] EXCEPT !.pc = "deleting", !.next = n].a = call[q].a
    BY <1>1, <1>2, <1>a13 DEF RemoveDelete, At, CallTyped, CallType
  <2> QED
    BY <1>1, <2>2, <2>3, <2>4 DEF CallTyped
<1>a14. CASE RemoveCommit(q)
  BY <1>a14, <1>1, <1>2
     DEF RemoveCommit, Return, Idle, Without, IsSelected, Collides, CallTyped, CallType,
         At, Pc, Calm
<1>a15. CASE RemoveRollback(q)
  BY <1>a15, <1>1, <1>2 DEF RemoveRollback, Return, Idle, CallTyped, CallType, At, Pc, Calm
<1>a16. CASE Fail(q)
  BY <1>a16, <1>1, <1>2 DEF Fail, Return, Idle, CallTyped, CallType, At, Pc, Calm
<1> QED
  BY <1>a1, <1>a2, <1>a3, <1>a4, <1>a5, <1>a6, <1>a7, <1>a8, <1>a9, <1>a10, <1>a11,
     <1>a12, <1>a13, <1>a14, <1>a15, <1>a16
     DEF Step, Create, Select, Remove

\* The steps that write the table.
LEMMA RowWriters ==
    ASSUME NEW q \in Call, Step(q)
    PROVE  \/ CreateInsert(q) \/ CreateError(q) \/ SelectCommit(q) \/ RemovePlain(q)
           \/ RemoveCommit(q) \/ UNCHANGED row
BY DEF Step, Create, CreatePut, CreateLook, CreateViolation, CreateUndo, Select, SelectFind,
       SelectRollback, Remove, RemoveFind, RemoveObject, RemoveDelete, RemoveRollback, Fail

LEMMA RowTypeStep ==
    ASSUME AvatarInv, NEW q \in Call, Step(q)
    PROVE  (row \in RowType)'
<1>1. row \in RowType /\ OneAtMost /\ CallTyped /\ OthersTyped
  BY TypeParts DEF AvatarInv
<1>2. call[q] \in CallType /\ None \notin Avatar
  BY <1>1, AvatarsAssumption DEF CallTyped, None
<1>b1. CASE CreateInsert(q)
  BY <1>b1, <1>1, <1>2
     DEF CreateInsert, Insert, Return, Idle, RowType, CallTyped, CallType, At, Calm, Rows
<1>b2. CASE CreateError(q)
  BY <1>b2, <1>1, <1>2
     DEF CreateError, Insert, Goto, RowType, CallTyped, CallType, At, Calm, Rows
<1>b3. CASE SelectCommit(q)
  BY <1>b3, <1>1, <1>2
     DEF SelectCommit, Return, Idle, IsSelected, RowType, CallTyped, CallType, At, Calm,
         Rows
<1>b4. CASE RemovePlain(q)
  BY <1>b4, <1>1, <1>2
     DEF RemovePlain, Return, Idle, Without, RowType, CallTyped, CallType, At, Calm, Rows
<1>b5. CASE RemoveCommit(q)
  BY <1>b5, <1>1, <1>2
     DEF RemoveCommit, Return, Idle, Without, IsSelected, Collides, RowType, CallTyped,
         CallType, At, Calm, Rows
<1>b6. CASE UNCHANGED row
  BY <1>b6, <1>1 DEF RowType
<1> QED
  BY <1>b1, <1>b2, <1>b3, <1>b4, <1>b5, <1>b6, RowWriters

\* The unique index: a statement that selects a row finds no other selected.
LEMMA SelStep ==
    ASSUME AvatarInv, NEW q \in Call, Step(q)
    PROVE  OneAtMost'
<1>1. row \in RowType /\ OneAtMost /\ CallTyped /\ OthersTyped
  BY TypeParts DEF AvatarInv
<1>2. call[q] \in CallType /\ None \notin Avatar
  BY <1>1, AvatarsAssumption DEF CallTyped, None
<1>3. CallOK(q)
  BY DEF AvatarInv
<1>b1. CASE CreateInsert(q)
  BY <1>b1, <1>1, <1>2, <1>3
     DEF CreateInsert, Collides, Insert, Return, Idle, OneAtMost, RowType, CallTyped,
         CallType, At, Calm, Rows, IsSelected, CallOK
<1>b2. CASE CreateError(q)
  BY <1>b2, <1>1, <1>2, <1>3
     DEF CreateError, Collides, Insert, Goto, OneAtMost, RowType, CallTyped, CallType,
         At, Calm, Rows, IsSelected, CallOK
<1>b3. CASE SelectCommit(q)
  BY <1>b3, <1>1, <1>2, <1>3
     DEF SelectCommit, Return, Idle, OneAtMost, RowType, CallTyped, CallType, At, Calm,
         Rows, IsSelected, CallOK
<1>b4. CASE RemovePlain(q)
  BY <1>b4, <1>1, <1>2, <1>3
     DEF RemovePlain, Return, Idle, Without, OneAtMost, RowType, CallTyped, CallType, At,
         Calm, Rows, IsSelected, CallOK
<1>b5. CASE RemoveCommit(q)
  BY <1>b5, <1>1, <1>2, <1>3
     DEF RemoveCommit, Return, Idle, Without, Collides, OneAtMost, RowType, CallTyped,
         CallType, At, Calm, Rows, IsSelected, CallOK
<1>b6. CASE UNCHANGED row
  BY <1>b6, <1>1 DEF OneAtMost, Rows, IsSelected
<1> QED
  BY <1>b1, <1>b2, <1>b3, <1>b4, <1>b5, <1>b6, RowWriters

LEMMA OthersStep ==
    ASSUME AvatarInv, NEW q \in Call, Step(q)
    PROVE  OthersTyped'
<1>1. row \in RowType /\ OneAtMost /\ CallTyped /\ OthersTyped
  BY TypeParts DEF AvatarInv
<1>2. call[q] \in CallType /\ None \notin Avatar
  BY <1>1, AvatarsAssumption DEF CallTyped, None
<1>a1. CASE \E a \in Avatar : CreatePut(q, a)
  BY <1>a1, <1>1, <1>2
     DEF CreatePut, Unused, Asking, OthersTyped, CallTyped, CallType, At, Calm
<1>a2. CASE CreateLook(q)
  BY <1>a2, <1>1, <1>2 DEF CreateLook, OthersTyped, CallTyped, CallType, At, Calm
<1>a3. CASE CreateInsert(q)
  BY <1>a3, <1>1, <1>2
     DEF CreateInsert, Insert, Return, Idle, OthersTyped, CallTyped, CallType, At, Calm
<1>a4. CASE CreateViolation(q)
  BY <1>a4, <1>1, <1>2 DEF CreateViolation, Goto, OthersTyped, CallTyped, CallType, At, Calm
<1>a5. CASE CreateError(q)
  <2>1. call[q].a \in Avatar
    BY <1>a5, <1>1 DEF CreateError, At, CallTyped
  <2>2. object' \subseteq Avatar /\ doubt' \subseteq Avatar /\ faults' \in Nat
    BY <1>a5, <1>1, <2>1 DEF CreateError, OthersTyped
  <2>3. raced' \in BOOLEAN
    <3>1. CASE UNCHANGED raced
      BY <1>1, <3>1 DEF OthersTyped
    <3>2. CASE Insert(q)
      BY <3>2, Zenon DEF Insert
    <3> QED
      BY <1>a5, <3>1, <3>2 DEF CreateError
  <2> QED
    BY <2>2, <2>3 DEF OthersTyped
<1>a6. CASE CreateUndo(q)
  BY <1>a6, <1>1, <1>2
     DEF CreateUndo, Return, Idle, OthersTyped, CallTyped, CallType, At, Calm
<1>a7. CASE \E a \in Avatar : SelectFind(q, a)
  BY <1>a7, <1>1, <1>2 DEF SelectFind, Asking, OthersTyped, CallTyped, CallType, At, Calm
<1>a8. CASE SelectCommit(q)
  BY <1>a8, <1>1, <1>2
     DEF SelectCommit, Return, Idle, IsSelected, OthersTyped, CallTyped, CallType, At,
         Calm
<1>a9. CASE SelectRollback(q)
  BY <1>a9, <1>1, <1>2
     DEF SelectRollback, Return, Idle, OthersTyped, CallTyped, CallType, At, Calm
<1>a10. CASE \E a \in Avatar : RemoveFind(q, a)
  BY <1>a10, <1>1, <1>2 DEF RemoveFind, Asking, OthersTyped, CallTyped, CallType, At, Calm
<1>a11. CASE RemoveObject(q)
  BY <1>a11, <1>1, <1>2 DEF RemoveObject, Goto, OthersTyped, CallTyped, CallType, At, Calm
<1>a12. CASE RemovePlain(q)
  BY <1>a12, <1>1, <1>2
     DEF RemovePlain, Return, Idle, Without, OthersTyped, CallTyped, CallType, At, Calm
<1>a13. CASE RemoveDelete(q)
  BY <1>a13, <1>1, <1>2 DEF RemoveDelete, Newest, OthersTyped, CallTyped, CallType, At, Calm
<1>a14. CASE RemoveCommit(q)
  BY <1>a14, <1>1, <1>2
     DEF RemoveCommit, Return, Idle, Without, IsSelected, Collides, OthersTyped,
         CallTyped, CallType, At, Calm
<1>a15. CASE RemoveRollback(q)
  BY <1>a15, <1>1, <1>2
     DEF RemoveRollback, Return, Idle, OthersTyped, CallTyped, CallType, At, Calm
<1>a16. CASE Fail(q)
  BY <1>a16, <1>1, <1>2 DEF Fail, Return, Idle, OthersTyped, CallTyped, CallType, At, Calm
<1> QED
  BY <1>a1, <1>a2, <1>a3, <1>a4, <1>a5, <1>a6, <1>a7, <1>a8, <1>a9, <1>a10, <1>a11,
     <1>a12, <1>a13, <1>a14, <1>a15, <1>a16
     DEF Step, Create, Select, Remove

\* What a request knows of its avatar stays true under its own and others' steps.
LEMMA CallStep ==
    ASSUME AvatarInv, NEW q \in Call, Step(q)
    PROVE  (\A p \in Call : CallOK(p))'
<1>1. TypeOK /\ (\A p \in Call : CallOK(p)) /\ None \notin Avatar
  BY AvatarsAssumption DEF AvatarInv, None
<1>a1. CASE \E a \in Avatar : CreatePut(q, a)
  BY <1>a1, <1>1 DEF CreatePut, Unused, Asking, TypeOK, At, Rows, Calm, CallOK
<1>a2. CASE CreateLook(q)
  BY <1>a2, <1>1 DEF CreateLook, TypeOK, At, Rows, Calm, CallOK
<1>a3. CASE CreateInsert(q)
  BY <1>a3, <1>1 DEF CreateInsert, Insert, Return, Idle, TypeOK, At, Rows, Calm, CallOK
<1>a4. CASE CreateViolation(q)
  BY <1>a4, <1>1 DEF CreateViolation, Goto, TypeOK, At, Rows, Calm, CallOK
<1>a5. CASE CreateError(q)
  BY <1>a5, <1>1 DEF CreateError, Insert, Goto, TypeOK, At, Rows, Calm, CallOK
<1>a6. CASE CreateUndo(q)
  BY <1>a6, <1>1 DEF CreateUndo, Return, Idle, TypeOK, At, Rows, Calm, CallOK
<1>a7. CASE \E a \in Avatar : SelectFind(q, a)
  BY <1>a7, <1>1 DEF SelectFind, Asking, TypeOK, At, Rows, Calm, CallOK
<1>a8. CASE SelectCommit(q)
  BY <1>a8, <1>1 DEF SelectCommit, Return, Idle, IsSelected, TypeOK, At, Rows, Calm, CallOK
<1>a9. CASE SelectRollback(q)
  BY <1>a9, <1>1 DEF SelectRollback, Return, Idle, TypeOK, At, Rows, Calm, CallOK
<1>a10. CASE \E a \in Avatar : RemoveFind(q, a)
  BY <1>a10, <1>1 DEF RemoveFind, Asking, TypeOK, At, Rows, Calm, CallOK
<1>a11. CASE RemoveObject(q)
  BY <1>a11, <1>1 DEF RemoveObject, Goto, TypeOK, At, Rows, Calm, CallOK
<1>a12. CASE RemovePlain(q)
  BY <1>a12, <1>1 DEF RemovePlain, Return, Idle, Without, TypeOK, At, Rows, Calm, CallOK
<1>a13. CASE RemoveDelete(q)
  BY <1>a13, <1>1 DEF RemoveDelete, Newest, TypeOK, At, Rows, Calm, CallOK
<1>a14. CASE RemoveCommit(q)
  BY <1>a14, <1>1
     DEF RemoveCommit, Return, Idle, Without, IsSelected, Collides, TypeOK, At, Rows,
         Calm, CallOK
<1>a15. CASE RemoveRollback(q)
  BY <1>a15, <1>1 DEF RemoveRollback, Return, Idle, TypeOK, At, Rows, Calm, CallOK
<1>a16. CASE Fail(q)
  BY <1>a16, <1>1 DEF Fail, Return, Idle, TypeOK, At, Rows, Calm, CallOK
<1> QED
  BY <1>a1, <1>a2, <1>a3, <1>a4, <1>a5, <1>a6, <1>a7, <1>a8, <1>a9, <1>a10, <1>a11,
     <1>a12, <1>a13, <1>a14, <1>a15, <1>a16
     DEF Step, Create, Select, Remove

\* A row loses its file only to the request that is removing or undoing it.
LEMMA RowStep ==
    ASSUME AvatarInv, NEW q \in Call, Step(q)
    PROVE  RowHasObject'
<1>1. AvatarInv /\ TypeOK /\ CallOK(q) /\ None \notin Avatar
  BY AvatarsAssumption DEF AvatarInv, None
<1>a1. CASE \E a \in Avatar : CreatePut(q, a)
  BY <1>a1, <1>1
     DEF CreatePut, Unused, Asking, AvatarInv, RowHasObject, TypeOK, At, Rows, Calm,
         CallOK, Under
<1>a2. CASE CreateLook(q)
  BY <1>a2, <1>1
     DEF CreateLook, AvatarInv, RowHasObject, TypeOK, At, Rows, Calm, CallOK, Under
<1>a3. CASE CreateInsert(q)
  BY <1>a3, <1>1
     DEF CreateInsert, Insert, Return, Idle, AvatarInv, RowHasObject, TypeOK, At, Rows,
         Calm, CallOK, Under
<1>a4. CASE CreateViolation(q)
  BY <1>a4, <1>1
     DEF CreateViolation, Goto, AvatarInv, RowHasObject, TypeOK, At, Rows, Calm, CallOK,
         Under
<1>a5. CASE CreateError(q)
  BY <1>a5, <1>1
     DEF CreateError, Insert, Goto, AvatarInv, RowHasObject, TypeOK, At, Rows, Calm,
         CallOK, Under
<1>a6. CASE CreateUndo(q)
  BY <1>a6, <1>1
     DEF CreateUndo, Return, Idle, AvatarInv, RowHasObject, TypeOK, At, Rows, Calm,
         CallOK, Under
<1>a7. CASE \E a \in Avatar : SelectFind(q, a)
  BY <1>a7, <1>1
     DEF SelectFind, Asking, AvatarInv, RowHasObject, TypeOK, At, Rows, Calm, CallOK,
         Under
<1>a8. CASE SelectCommit(q)
  BY <1>a8, <1>1
     DEF SelectCommit, Return, Idle, IsSelected, AvatarInv, RowHasObject, TypeOK, At,
         Rows, Calm, CallOK, Under
<1>a9. CASE SelectRollback(q)
  BY <1>a9, <1>1
     DEF SelectRollback, Return, Idle, AvatarInv, RowHasObject, TypeOK, At, Rows, Calm,
         CallOK, Under
<1>a10. CASE \E a \in Avatar : RemoveFind(q, a)
  BY <1>a10, <1>1
     DEF RemoveFind, Asking, AvatarInv, RowHasObject, TypeOK, At, Rows, Calm, CallOK,
         Under
<1>a11. CASE RemoveObject(q)
  BY <1>a11, <1>1
     DEF RemoveObject, Goto, AvatarInv, RowHasObject, TypeOK, At, Rows, Calm, CallOK,
         Under
<1>a12. CASE RemovePlain(q)
  BY <1>a12, <1>1
     DEF RemovePlain, Return, Idle, Without, AvatarInv, RowHasObject, TypeOK, At, Rows,
         Calm, CallOK, Under
<1>a13. CASE RemoveDelete(q)
  BY <1>a13, <1>1
     DEF RemoveDelete, Newest, AvatarInv, RowHasObject, TypeOK, At, Rows, Calm, CallOK,
         Under
<1>a14. CASE RemoveCommit(q)
  BY <1>a14, <1>1
     DEF RemoveCommit, Return, Idle, Without, IsSelected, Collides, AvatarInv,
         RowHasObject, TypeOK, At, Rows, Calm, CallOK, Under
<1>a15. CASE RemoveRollback(q)
  BY <1>a15, <1>1
     DEF RemoveRollback, Return, Idle, AvatarInv, RowHasObject, TypeOK, At, Rows, Calm,
         CallOK, Under
<1>a16. CASE Fail(q)
  BY <1>a16, <1>1
     DEF Fail, Return, Idle, AvatarInv, RowHasObject, TypeOK, At, Rows, Calm, CallOK,
         Under
<1> QED
  BY <1>a1, <1>a2, <1>a3, <1>a4, <1>a5, <1>a6, <1>a7, <1>a8, <1>a9, <1>a10, <1>a11,
     <1>a12, <1>a13, <1>a14, <1>a15, <1>a16
     DEF Step, Create, Select, Remove

\* A file loses its row only after it is gone itself.
LEMMA ObjectStep ==
    ASSUME AvatarInv, NEW q \in Call, Step(q)
    PROVE  ObjectHasRow'
<1>1. AvatarInv /\ TypeOK /\ CallOK(q) /\ None \notin Avatar
  BY AvatarsAssumption DEF AvatarInv, None
<1>a1. CASE \E a \in Avatar : CreatePut(q, a)
  BY <1>a1, <1>1
     DEF CreatePut, Unused, Asking, AvatarInv, ObjectHasRow, TypeOK, At, Rows, Calm,
         CallOK, Under
<1>a2. CASE CreateLook(q)
  BY <1>a2, <1>1
     DEF CreateLook, AvatarInv, ObjectHasRow, TypeOK, At, Rows, Calm, CallOK, Under
<1>a3. CASE CreateInsert(q)
  BY <1>a3, <1>1
     DEF CreateInsert, Insert, Return, Idle, AvatarInv, ObjectHasRow, TypeOK, At, Rows,
         Calm, CallOK, Under
<1>a4. CASE CreateViolation(q)
  BY <1>a4, <1>1
     DEF CreateViolation, Goto, AvatarInv, ObjectHasRow, TypeOK, At, Rows, Calm, CallOK,
         Under
<1>a5. CASE CreateError(q)
  BY <1>a5, <1>1
     DEF CreateError, Insert, Goto, AvatarInv, ObjectHasRow, TypeOK, At, Rows, Calm,
         CallOK, Under
<1>a6. CASE CreateUndo(q)
  BY <1>a6, <1>1
     DEF CreateUndo, Return, Idle, AvatarInv, ObjectHasRow, TypeOK, At, Rows, Calm,
         CallOK, Under
<1>a7. CASE \E a \in Avatar : SelectFind(q, a)
  BY <1>a7, <1>1
     DEF SelectFind, Asking, AvatarInv, ObjectHasRow, TypeOK, At, Rows, Calm, CallOK,
         Under
<1>a8. CASE SelectCommit(q)
  BY <1>a8, <1>1
     DEF SelectCommit, Return, Idle, IsSelected, AvatarInv, ObjectHasRow, TypeOK, At,
         Rows, Calm, CallOK, Under
<1>a9. CASE SelectRollback(q)
  BY <1>a9, <1>1
     DEF SelectRollback, Return, Idle, AvatarInv, ObjectHasRow, TypeOK, At, Rows, Calm,
         CallOK, Under
<1>a10. CASE \E a \in Avatar : RemoveFind(q, a)
  BY <1>a10, <1>1
     DEF RemoveFind, Asking, AvatarInv, ObjectHasRow, TypeOK, At, Rows, Calm, CallOK,
         Under
<1>a11. CASE RemoveObject(q)
  BY <1>a11, <1>1
     DEF RemoveObject, Goto, AvatarInv, ObjectHasRow, TypeOK, At, Rows, Calm, CallOK,
         Under
<1>a12. CASE RemovePlain(q)
  BY <1>a12, <1>1
     DEF RemovePlain, Return, Idle, Without, AvatarInv, ObjectHasRow, TypeOK, At, Rows,
         Calm, CallOK, Under
<1>a13. CASE RemoveDelete(q)
  BY <1>a13, <1>1
     DEF RemoveDelete, Newest, AvatarInv, ObjectHasRow, TypeOK, At, Rows, Calm, CallOK,
         Under
<1>a14. CASE RemoveCommit(q)
  BY <1>a14, <1>1
     DEF RemoveCommit, Return, Idle, Without, IsSelected, Collides, AvatarInv,
         ObjectHasRow, TypeOK, At, Rows, Calm, CallOK, Under
<1>a15. CASE RemoveRollback(q)
  BY <1>a15, <1>1
     DEF RemoveRollback, Return, Idle, AvatarInv, ObjectHasRow, TypeOK, At, Rows, Calm,
         CallOK, Under
<1>a16. CASE Fail(q)
  BY <1>a16, <1>1
     DEF Fail, Return, Idle, AvatarInv, ObjectHasRow, TypeOK, At, Rows, Calm, CallOK,
         Under
<1> QED
  BY <1>a1, <1>a2, <1>a3, <1>a4, <1>a5, <1>a6, <1>a7, <1>a8, <1>a9, <1>a10, <1>a11,
     <1>a12, <1>a13, <1>a14, <1>a15, <1>a16
     DEF Step, Create, Select, Remove

LEMMA NextKeeps == AvatarInv /\ [Next]_vars => AvatarInv'
<1> SUFFICES ASSUME AvatarInv, [Next]_vars PROVE AvatarInv'
  OBVIOUS
<1>1. CASE UNCHANGED vars
  BY <1>1 DEF AvatarInv, TypeOK, RowHasObject, ObjectHasRow, CallOK, Rows, IsSelected,
              At, Under, vars
<1>2. CASE Next
  <2>1. PICK q \in Call : Step(q)
    BY <1>2 DEF Next, Step
  <2>2. TypeOK'
    BY <2>1, CallTypeStep, RowTypeStep, SelStep, OthersStep
       DEF TypeOK, RowType, OneAtMost, CallTyped, OthersTyped, CallType, Pc, At
  <2> QED
    BY <2>1, <2>2, CallStep, RowStep, ObjectStep DEF AvatarInv
<1> QED
  BY <1>1, <1>2

LEMMA InitHolds == Init => AvatarInv
<1> SUFFICES ASSUME Init PROVE AvatarInv
  OBVIOUS
<1>1. Rows = {} /\ object = {} /\ \A q \in Call : call[q] = Idle
  BY DEF Init, Rows
<1>2. TypeOK
  <2>1. Idle \in CallType
    BY DEF Idle, CallType, Pc, None
  <2>2. CallTyped
    BY <1>1, <2>1 DEF Init, CallTyped, Idle
  <2> QED
    BY <1>1, <2>2, TypeParts DEF Init, RowType, OneAtMost, OthersTyped
<1>3. \A q \in Call : CallOK(q)
  BY <1>1 DEF CallOK, At, Idle
<1> QED
  BY <1>1, <1>2, <1>3 DEF AvatarInv, RowHasObject, ObjectHasRow

LEMMA InvHolds == Spec => []AvatarInv
BY InitHolds, NextKeeps, PTL DEF Spec

\* The variables keep their types, and no user ever has two selected avatars
\* (schema.ts:126-129).
THEOREM AvatarsTypeCorrect == Spec => []TypeOK
<1>1. AvatarInv => TypeOK
  BY DEF AvatarInv
<1> QED
  BY <1>1, InvHolds, PTL

\* Every listed avatar has its file, however creations, their undoing and removals
\* overlap, but for those being removed or whose creation or removal ended half way
\* (avatars.service.ts:44-83, 102-128).
THEOREM ListedHasFile == Spec => []RowHasObject
<1>1. AvatarInv => RowHasObject
  BY DEF AvatarInv
<1> QED
  BY <1>1, InvHolds, PTL

\* No file stays behind without its row, but for those whose creation is under way or
\* ended half way.
THEOREM FileHasRow == Spec => []ObjectHasRow
<1>1. AvatarInv => ObjectHasRow
  BY DEF AvatarInv
<1> QED
  BY <1>1, InvHolds, PTL

------------------------------------------------------------------------------
(* The selected avatar *)

\* A write that would leave avatars without a selected one is a race.
LEMMA SelectedStep == AvatarInv /\ OneSelected /\ [Next]_vars => OneSelected'
<1> SUFFICES ASSUME AvatarInv, OneSelected, [Next]_vars, ~raced', Rows' # {}
             PROVE  \E a \in Avatar : row'[a] = "selected"
  BY DEF OneSelected, Rows, IsSelected
<1>1. row \in RowType /\ CallTyped
  BY TypeParts DEF AvatarInv
<1>2. CASE UNCHANGED <<row, raced>>
  BY <1>2 DEF OneSelected, Rows, IsSelected
<1>3. ASSUME NEW q \in Call, Step(q)
      PROVE  \E a \in Avatar : row'[a] = "selected"
  <2>0. CallOK(q) /\ (~At(q, "idle") => call[q].a \in Avatar)
    BY <1>1 DEF AvatarInv, CallTyped, At
  <2>1. ASSUME Insert(q), At(q, "insert")
        PROVE  \E a \in Avatar : row'[a] = "selected"
    <3>1. call[q].a \in Avatar /\ row[call[q].a] = "none"
      BY <2>0, <2>1 DEF CallOK, At
    <3>2. CASE call[q].sel
      BY <1>1, <2>1, <3>1, <3>2 DEF Insert, RowType
    <3>3. CASE ~call[q].sel
      <4>1. PICK a \in Avatar : row[a] = "selected"
        BY <2>1, <3>3 DEF Insert, OneSelected, Rows, IsSelected
      <4> QED BY <1>1, <2>1, <3>1, <4>1 DEF Insert, RowType
    <3> QED BY <3>2, <3>3
  <2>2. CASE CreateInsert(q)
    BY <2>1, <2>2 DEF CreateInsert
  <2>3. CASE CreateError(q)
    BY <1>2, <2>1, <2>3 DEF CreateError
  <2>4. CASE SelectCommit(q)
    BY <2>4 DEF SelectCommit, Rows
  <2>5. CASE RemovePlain(q)
    <3>1. \A a \in Avatar : a \in Rows' => a \in Rows
      BY <1>1, <2>5 DEF RemovePlain, Without, Rows, RowType
    <3>2. PICK a \in Avatar : row[a] = "selected"
      BY <2>5, <3>1 DEF RemovePlain, OneSelected, Rows, IsSelected
    <3>3. a # call[q].a
      BY <2>5, <3>2 DEF RemovePlain, IsSelected
    <3> QED BY <1>1, <2>5, <3>2, <3>3 DEF RemovePlain, Without, RowType
  <2>6. CASE RemoveCommit(q)
    <3>1. At(q, "deleting") /\ call[q].next # call[q].a /\ call[q].a \in Avatar
      BY <2>0, <2>6 DEF RemoveCommit, CallOK, At
    <3>2. CASE call[q].next \in Rows
      BY <2>6, <3>2 DEF RemoveCommit, Rows
    <3>3. CASE call[q].next \notin Rows
      <4>1. Rows \ {call[q].a} = {}
        BY <2>6, <3>3 DEF RemoveCommit
      <4>2. \A b \in Avatar : row'[b] = Without(call[q].a)[b]
        BY <2>6, <3>3 DEF RemoveCommit
      <4>3. Rows' = {}
        BY <1>1, <3>1, <4>1, <4>2 DEF Without, Rows, RowType
      <4> QED BY <4>3
    <3> QED BY <3>2, <3>3
  <2>7. CASE UNCHANGED row
    <3>1. raced' = raced \/ CreateInsert(q) \/ CreateError(q) \/ SelectCommit(q)
          \/ RemovePlain(q) \/ RemoveCommit(q)
      BY <1>3 DEF Step, Create, Select, Remove, Calm, CreatePut, CreateLook, CreateViolation,
         CreateUndo, SelectFind, SelectRollback, RemoveFind, RemoveObject, RemoveDelete,
         RemoveRollback, Fail
    <3> QED BY <1>2, <2>2, <2>3, <2>4, <2>5, <2>6, <2>7, <3>1
  <2> QED BY <1>3, <2>2, <2>3, <2>4, <2>5, <2>6, <2>7, RowWriters
<1>4. CASE UNCHANGED vars
  BY <1>2, <1>4 DEF vars
<1>5. CASE \E q \in Call : Step(q)
  BY <1>3, <1>5
<1> QED BY <1>4, <1>5 DEF Next, Step

\* A user with avatars has a selected one, as long as no transaction has written on
\* the strength of a row that had changed since it was read.
THEOREM KeepsSelection == Spec => []OneSelected
<1>1. Init => OneSelected
  BY DEF Init, OneSelected, Rows
<1> QED BY <1>1, InvHolds, SelectedStep, PTL DEF Spec
==============================================================================
