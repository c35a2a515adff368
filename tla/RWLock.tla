------------------------------- MODULE RWLock -------------------------------
(***************************************************************************)
(* pthread_rwlock_t as glibc implements it and server.c uses it: the       *)
(* default attribute prefers readers, so a waiting writer does not hold    *)
(* back new ones; the writer's identity is recorded, the readers are only  *)
(* counted.                                                                *)
(*                                                                         *)
(* A thread that asks for the lock while it is the writer gets EDEADLK and *)
(* no second hold.  server.c ignores the results of all these calls: the   *)
(* thread goes on as if it had been granted the lock, and its unlock is    *)
(* that of the writer.  A thread that asks to write while it holds the     *)
(* lock as one of the readers is not recognised and waits for itself.      *)
(***************************************************************************)
EXTENDS Integers

CONSTANTS Threads, NoThread     \* NoThread: nobody, not one of Threads

VARIABLES
    writer,     \* the thread that holds the lock to write, or NoThread
    readers     \* how many hold it to read

TypeOK == writer \in Threads \cup {NoThread} /\ readers \in Nat

Init == writer = NoThread /\ readers = 0

\* pthread_rwlock_rdlock returns.
RdLock(t) ==
    \/ writer = NoThread /\ readers' = readers + 1 /\ UNCHANGED writer
    \/ writer = t /\ UNCHANGED <<writer, readers>>

\* pthread_rwlock_wrlock returns.
WrLock(t) ==
    \/ writer = NoThread /\ readers = 0 /\ writer' = t /\ UNCHANGED readers
    \/ writer = t /\ UNCHANGED <<writer, readers>>

\* pthread_rwlock_unlock
Unlock(t) ==
    IF writer = t
    THEN writer' = NoThread /\ UNCHANGED readers
    ELSE readers' = readers - 1 /\ UNCHANGED writer
=============================================================================
