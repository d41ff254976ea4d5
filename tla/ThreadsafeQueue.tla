---------------------------- MODULE ThreadsafeQueue ----------------------------
(***************************************************************************)
(* class ThreadsafeQueue (shared_impl): an unbounded queue under a mutex.  *)
(* Every operation is one critical section, and its waits are loops over   *)
(* their conditions, so an operation is a value here and its wait a guard  *)
(* of the action that uses it.  A queue that was shut down throws out of   *)
(* push and pop, whatever it still holds.                                  *)
(***************************************************************************)
EXTENDS Sequences

Queue(T) == [items : Seq(T), mShutdown : BOOLEAN]

NewQueue == [items |-> <<>>, mShutdown |-> FALSE]

Accepts(q) == ~q.mShutdown

Push(q, t) == [q EXCEPT !.items = Append(@, t)]

\* pop has something to return; with an empty queue it waits.
Poppable(q) == ~q.mShutdown /\ q.items # <<>>

First(q) == Head(q.items)

Pop(q) == [q EXCEPT !.items = Tail(@)]

\* shutdown: throws out of every push and pop, waiting or to come.
Shut(q) == [q EXCEPT !.mShutdown = TRUE]
================================================================================
