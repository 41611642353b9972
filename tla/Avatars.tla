------------------------------- MODULE Avatars -------------------------------
(****************************************************************************)
(* The avatars of one user (avatars.service.ts): rows in PostgreSQL, their  *)
(* files in MinIO, and no transaction over both.  Requests run              *)
(* concurrently; each call to MinIO and each read whose answer is used      *)
(* later is a step.  A transaction is a step per statement that others can  *)
(* tell apart, at READ COMMITTED.                                           *)
(****************************************************************************)
EXTENDS Integers

CONSTANTS
    Avatar,    \* avatars ever created, in the order of createdAt; also their objectKey
    Call,      \* bound: requests under way at one time
    MaxFaults  \* bound: dying requests, failed and unanswered calls

ASSUME AvatarsAssumption == Avatar \subseteq Nat \ {0} /\ MaxFaults \in Nat

VARIABLES
    row,     \* avatars
    object,  \* the files in the bucket
    call,    \* the requests under way
    doubt,   \* history: avatars whose creation or removal ended half way
    raced,   \* history: a transaction wrote although what it had read was gone
    faults

vars == <<row, object, call, doubt, raced, faults>>

None == 0
Rows == {a \in Avatar : row[a] \in {"plain", "selected"}}
IsSelected(a) == row[a] = "selected"

\* A request: the step it is at, its avatar, the isSelected it has read or will
\* write, and the next avatar it has read.
Idle == [pc |-> "idle", a |-> None, sel |-> FALSE, next |-> None]
At(q, pc) == call[q].pc = pc
Asking(q, pc, a, sel) ==
    call' = [call EXCEPT ![q] = [pc |-> pc, a |-> a, sel |-> sel, next |-> None]]
Goto(q, pc) == call' = [call EXCEPT ![q].pc = pc]
Return(q) == call' = [call EXCEPT ![q] = Idle]

\* A row that an open transaction has deleted: others wait for its end.
Locked(a) == a \in Rows /\ \E q \in Call : At(q, "deleting") /\ call[q].a = a
LockedFor(q, a) ==
    a \in Rows /\ \E p \in Call \ {q} : At(p, "deleting") /\ call[p].a = a

NoIndex(q, S) == FALSE  \* mutant: without avatars_one_selected_per_user_idx

\* The unique index on selected rows, S aside.
Collides(q, S) == \E b \in Rows \ S : IsSelected(b)
MustWait(q, S) == \E b \in Rows \ S : IsSelected(b) /\ LockedFor(q, b)

Init ==
    /\ row = [a \in Avatar |-> "none"]
    /\ object = {}
    /\ call = [q \in Call |-> Idle]
    /\ doubt = {} /\ raced = FALSE /\ faults = 0

Calm == UNCHANGED <<doubt, raced, faults>>

------------------------------------------------------------------------------
(* create *)

Unused(a) ==
    row[a] = "none" /\ a \notin object \cup doubt /\ \A q \in Call : call[q].a # a

CreatePut(q, a) ==
    /\ At(q, "idle") /\ Unused(a)
    /\ object' = object \cup {a}
    /\ Asking(q, "put", a, FALSE)
    /\ UNCHANGED row /\ Calm

\* In the transaction: is there an avatar yet?
CreateLook(q) ==
    /\ At(q, "put")
    /\ call' = [call EXCEPT ![q].pc = "insert", ![q].sel = (Rows = {})]
    /\ UNCHANGED <<row, object>> /\ Calm

Insert(q) ==
    /\ row' = [row EXCEPT ![call[q].a] = IF call[q].sel THEN "selected" ELSE "plain"]
    /\ raced' = (raced \/ (~call[q].sel /\ Rows = {}))

InsertFinally(q) ==  \* mutant: the file is removed in finally, not in catch
    /\ At(q, "insert") /\ ~(call[q].sel /\ Collides(q, {}))
    /\ Insert(q) /\ Goto(q, "undo")
    /\ UNCHANGED <<object, doubt, faults>>

CreateInsert(q) ==
    /\ At(q, "insert") /\ ~(call[q].sel /\ Collides(q, {}))
    /\ Insert(q) /\ Return(q)
    /\ UNCHANGED <<object, doubt, faults>>

ViolationKeepsFile(q) ==  \* mutant: no catch
    /\ At(q, "insert") /\ call[q].sel /\ Collides(q, {}) /\ ~MustWait(q, {})
    /\ Return(q)
    /\ UNCHANGED <<row, object>> /\ Calm

CreateViolation(q) ==
    /\ At(q, "insert") /\ call[q].sel /\ Collides(q, {}) /\ ~MustWait(q, {})
    /\ Goto(q, "undo")
    /\ UNCHANGED <<row, object>> /\ Calm

\* The transaction fails, or it commits and the answer is lost.
CreateError(q) ==
    /\ At(q, "insert") /\ faults < MaxFaults
    /\ Goto(q, "undo")
    /\ \/ UNCHANGED <<row, raced, doubt>>
       \/ /\ ~(call[q].sel /\ Collides(q, {}))
          /\ Insert(q) /\ doubt' = doubt \cup {call[q].a}
    /\ faults' = faults + 1 /\ UNCHANGED object

CreateUndo(q) ==
    /\ At(q, "undo")
    /\ object' = object \ {call[q].a}
    /\ Return(q)
    /\ UNCHANGED row /\ Calm

------------------------------------------------------------------------------
(* select *)

SelectFind(q, a) ==
    /\ At(q, "idle") /\ a \in Rows
    /\ Asking(q, "select", a, FALSE)
    /\ UNCHANGED <<row, object>> /\ Calm

\* The first UPDATE takes every row of the user, so it waits for open removals.
SelectCommit(q) ==
    /\ At(q, "select") /\ \A b \in Avatar : ~Locked(b)
    /\ row' = [b \in Avatar |-> IF b \notin Rows THEN row[b]
                                ELSE IF b = call[q].a THEN "selected" ELSE "plain"]
    /\ raced' = (raced \/ call[q].a \notin Rows)
    /\ Return(q)
    /\ UNCHANGED <<object, doubt, faults>>

\* Its two UPDATEs meet another transaction's: one violates the index, or
\* PostgreSQL ends it to break a deadlock.
SelectRollback(q) ==
    /\ At(q, "select")
    /\ \E p \in Call \ {q} : call[p].pc \in {"insert", "select", "dropped", "deleting"}
    /\ Return(q)
    /\ UNCHANGED <<row, object>> /\ Calm

------------------------------------------------------------------------------
(* remove *)

RemoveFind(q, a) ==
    /\ At(q, "idle") /\ a \in Rows
    /\ Asking(q, "remove", a, IsSelected(a))
    /\ UNCHANGED <<row, object>> /\ Calm

RemoveObject(q) ==
    /\ At(q, "remove")
    /\ object' = object \ {call[q].a}
    /\ Goto(q, "dropped")
    /\ UNCHANGED row /\ Calm

Without(a) == [row EXCEPT ![a] = IF a \in Rows THEN "gone" ELSE @]

\* DELETE and COMMIT of an avatar that was not selected when it was found.
RemovePlain(q) ==
    /\ At(q, "dropped") /\ ~call[q].sel /\ ~Locked(call[q].a)
    /\ row' = Without(call[q].a)
    /\ raced' = (raced \/ IsSelected(call[q].a))
    /\ Return(q)
    /\ UNCHANGED <<object, doubt, faults>>

Newest(n, S) == IF S = {} THEN n = None ELSE n \in S /\ \A b \in S : b <= n

\* DELETE, and the SELECT of the newest other avatar.
RemoveDelete(q) ==
    /\ At(q, "dropped") /\ call[q].sel /\ ~Locked(call[q].a)
    /\ \E n \in Avatar \cup {None} :
        /\ Newest(n, Rows \ {call[q].a})
        /\ call' = [call EXCEPT ![q].pc = "deleting", ![q].next = n]
    /\ UNCHANGED <<row, object>> /\ Calm

RemoveForgetsNext(q) ==  \* mutant: no other avatar is selected
    /\ At(q, "deleting")
    /\ row' = Without(call[q].a)
    /\ Return(q)
    /\ UNCHANGED <<object, doubt, raced, faults>>

\* UPDATE of the next avatar, COMMIT.
RemoveCommit(q) ==
    LET a == call[q].a  n == call[q].next
    IN  /\ At(q, "deleting")
        /\ n \in Rows => ~LockedFor(q, n) /\ ~Collides(q, {a, n})
        /\ row' = [b \in Avatar |-> IF b = n /\ b \in Rows THEN "selected"
                                    ELSE Without(a)[b]]
        /\ raced' = (raced \/ (n \notin Rows /\ Rows \ {a} # {}))
        /\ Return(q)
        /\ UNCHANGED <<object, doubt, faults>>

\* The UPDATE of p's next avatar waits for the end of q, which has deleted that
\* avatar or the selected one.
WaitsFor(p, q) ==
    /\ At(p, "deleting") /\ At(q, "deleting")
    /\ call[p].next \in Rows /\ call[q].a \in Rows
    /\ \/ call[q].a = call[p].next
       \/ IsSelected(call[q].a) /\ call[q].a # call[p].a

\* It deadlocks with another removal, or with a selection, whose first UPDATE may
\* have locked the next avatar already.
Deadlocked(q) ==
    \/ \E p \in Call \ {q} : WaitsFor(p, q) /\ WaitsFor(q, p)
    \/ call[q].a \in Rows /\ \E p \in Call : At(p, "select")

\* The UPDATE violates the index, or PostgreSQL ends this transaction to break a
\* deadlock: the row stays, its file is gone.
RemoveRollback(q) ==
    LET a == call[q].a  n == call[q].next
    IN  /\ At(q, "deleting") /\ n \in Rows
        /\ \/ ~LockedFor(q, n) /\ Collides(q, {a, n}) /\ ~MustWait(q, {a, n})
           \/ Deadlocked(q)
        /\ doubt' = doubt \cup {a}
        /\ Return(q)
        /\ UNCHANGED <<row, object, raced, faults>>

------------------------------------------------------------------------------
\* A request dies, or a call of it that is not handled fails: an open
\* transaction is rolled back, what MinIO did stays.
Fail(q) ==
    /\ ~At(q, "idle") /\ faults < MaxFaults
    /\ doubt' = IF At(q, "select") \/ At(q, "remove") THEN doubt
                ELSE doubt \cup {call[q].a}
    /\ faults' = faults + 1
    /\ Return(q)
    /\ UNCHANGED <<row, object, raced>>

Create(q) ==
    \/ \E a \in Avatar : CreatePut(q, a)
    \/ CreateLook(q) \/ CreateInsert(q) \/ CreateViolation(q) \/ CreateError(q)
    \/ CreateUndo(q)

Select(q) == SelectCommit(q) \/ SelectRollback(q) \/ \E a \in Avatar : SelectFind(q, a)

Remove(q) ==
    \/ \E a \in Avatar : RemoveFind(q, a)
    \/ RemoveObject(q) \/ RemovePlain(q) \/ RemoveDelete(q) \/ RemoveCommit(q)
    \/ RemoveRollback(q)

Next == \E q \in Call : Create(q) \/ Select(q) \/ Remove(q) \/ Fail(q)

Spec == Init /\ [][Next]_vars

------------------------------------------------------------------------------
(* Properties *)

\* Every variable has its type, and a user never has two selected avatars.
TypeOK ==
    /\ row \in [Avatar -> {"none", "plain", "selected", "gone"}]
    /\ \A a, b \in Rows : IsSelected(a) /\ IsSelected(b) => a = b
    /\ object \subseteq Avatar
    /\ call \in [Call -> [pc : {"idle", "put", "insert", "undo", "select", "remove",
                                "dropped", "deleting"},
                          a : Avatar \cup {None}, sel : BOOLEAN,
                          next : Avatar \cup {None}]]
    /\ \A q \in Call : ~At(q, "idle") => call[q].a \in Avatar
    /\ doubt \subseteq Avatar /\ raced \in BOOLEAN /\ faults \in Nat

Under(pcs, a) == \E q \in Call : call[q].pc \in pcs /\ call[q].a = a

\* Every avatar listed has its file, however creations, their undoing and
\* removals overlap, unless it is being removed or a removal or creation of it
\* ended half way.
RowHasObject ==
    \A a \in Rows : a \in object \cup doubt \/ Under({"dropped", "deleting"}, a)

\* No file stays behind without a row, unless its creation is under way or died.
ObjectHasRow ==
    \A a \in object : a \in Rows \cup doubt \/ Under({"put", "insert", "undo"}, a)

\* A user with avatars has a selected one: the first is selected when it is
\* created, and removing the selected one selects another, as long as no
\* transaction writes on the strength of a row that has changed since it was read.
OneSelected == (~raced /\ Rows # {}) => \E a \in Rows : IsSelected(a)
==============================================================================
