------------------------------ MODULE Requests ------------------------------
(***************************************************************************)
(* HTTP requests over committed tables.  A handler is a few stages, each   *)
(* ending where another request may run: a SELECT returns, an INSERT gets  *)
(* past a unique index, a commit publishes.  What it has read in between   *)
(* lives in its task, because no SELECT of the program locks a row         *)
(* (READ COMMITTED, core/database.py).                                     *)
(*                                                                         *)
(* The locks an UPDATE holds from its flush to its commit are left out:    *)
(* they delay commits whose writers read nothing again.                    *)
(***************************************************************************)
EXTENDS Naturals, FiniteSets

CONSTANTS
    Session,      \* requests that can be in flight at once
    MaxRequests,  \* bound: number of requests begun in a behaviour
    Nil

ASSUME MaxRequestsIsNat == MaxRequests \in Nat

ASSUME NilIsNew == Nil \notin Session /\ Nil \notin Nat

VARIABLES
    task,   \* per session: what it serves (op), where it stands (at), the
            \* objects it is about (on) and what it has read; Nil when idle
    begun,  \* requests begun so far
    raced   \* history: objects that two requests were about at the same time

requests == <<task, begun, raced>>

Idle(s) == task[s] = Nil

At(s, op, stage) == ~Idle(s) /\ task[s].op = op /\ task[s].at = stage

Busy == {s \in Session : ~Idle(s)}

InitRequests ==
    /\ task = [s \in Session |-> Nil]
    /\ begun = 0
    /\ raced = {}

\* get_db opens a session for the request; t is its task after its first SELECTs.
Arrive(s, t) ==
    /\ Idle(s)
    /\ begun < MaxRequests
    /\ begun' = begun + 1
    /\ task' = [task EXCEPT ![s] = t]
    /\ raced' = raced \cup UNION {t.on \cap task[r].on : r \in Busy}

Continue(s, t) == task' = [task EXCEPT ![s] = t] /\ UNCHANGED <<begun, raced>>

\* The session is closed; what it did not commit is rolled back.
End(s) == task' = [task EXCEPT ![s] = Nil] /\ UNCHANGED <<begun, raced>>

\* The flush of a row whose unique code is still "PENDING": it waits for any
\* other uncommitted "PENDING" row of its table, which one of ops inserts.
InsertPending(s, ops) ==
    /\ ~Idle(s) /\ task[s].op \in ops /\ task[s].at = "insert"
    /\ \A r \in Busy : task[r].op \in ops => task[r].at # "commit"
    /\ Continue(s, [task[s] EXCEPT !.at = "commit"])

\* An attribute equal to the value that was loaded is left out of the UPDATE.
Assigned(loaded, new, current) == IF new = loaded THEN current ELSE new
=============================================================================
