------------------------------ MODULE DartTasks ------------------------------
(***************************************************************************)
(* The asynchronous functions of the phone: Dart's event loop, as far as   *)
(* the programs on it can tell.  A task is a stack of calls, the running   *)
(* one first.  A call runs without interruption from one await to the      *)
(* next, and a call of an async function runs on into that function up to  *)
(* its first await.  What an await waits for is either done already, and   *)
(* the task goes on before the loop takes the next event (a microtask), or *)
(* outside: the platform, the network, a timer.                            *)
(*                                                                         *)
(* Which of several tasks that can go on does so first is left open: Dart  *)
(* runs them in the order in which they became ready, but how many turns   *)
(* of the queue an await takes is the library's affair, not the source's.  *)
(* What holds for every order holds for Dart's.                            *)
(***************************************************************************)
EXTENDS Naturals, Sequences, FiniteSetsExt

CONSTANT MaxTasks   \* bound: tasks alive at the same time

ASSUME TasksAssumption == MaxTasks \in Nat

VARIABLE tasks

TaskIds == 1..MaxTasks

\* fn is at pc with local variable x; val is what its last call returned and
\* exc the exception that call ended with.
Call(fn, pc, x) == [fn |-> fn, pc |-> pc, x |-> x, val |-> 0, exc |-> "none"]

\* The places where an await waits for the world outside.
Outside == {"creating", "ready", "opened", "delay", "closing",
            "permission", "opening", "stopping", "inputClose"}

Top(t) == Head(tasks[t])
Alive(t) == tasks[t] # <<>>
At(t, fn, pc) == Alive(t) /\ Top(t).fn = fn /\ Top(t).pc = pc /\ Top(t).exc = "none"
Caught(t, fn, pc) == Alive(t) /\ Top(t).fn = fn /\ Top(t).pc = pc /\ Top(t).exc # "none"

Entering(t) == Alive(t) /\ Top(t).pc = "start"
Ready(t) == Alive(t) /\ (Top(t).pc \notin Outside \/ Top(t).exc # "none")

\* t can take its next step: no other task is between two awaits.
MayRun(t) == Ready(t) /\ \A u \in TaskIds \ {t} : ~Entering(u)

\* The loop has run every task as far as it goes.
NoneReady == \A t \in TaskIds : ~Ready(t)

----------------------------------------------------------------------------
\* How the stacks ts change.

GoesTo(ts, t, pc, x) ==
    [ts EXCEPT ![t] = <<Call(Head(@).fn, pc, x)>> \o Tail(@)]

\* t calls fn, to go on at pc when fn has returned.
Calls(ts, t, fn, pc) ==
    [ts EXCEPT ![t] = <<Call(fn, "start", 0), Call(Head(@).fn, pc, Head(@).x)>> \o Tail(@)]

Returns(ts, t, val) ==
    [ts EXCEPT ![t] = IF Tail(@) = <<>> THEN <<>>
                      ELSE <<[@[2] EXCEPT !.val = val]>> \o Tail(Tail(@))]

Throws(ts, t, exc) ==
    [ts EXCEPT ![t] = IF Tail(@) = <<>> THEN <<>>
                      ELSE <<[@[2] EXCEPT !.exc = exc]>> \o Tail(Tail(@))]

\* A new task that runs fn: unawaited(fn()), or an event handler.
FreeIds == {t \in TaskIds : ~Alive(t)}
CanSpawn == FreeIds # {}
Spawns(ts, fn, x) == [ts EXCEPT ![Min(FreeIds)] = <<Call(fn, "start", x)>>]

Go(t, pc, x) == tasks' = GoesTo(tasks, t, pc, x)
Enter(t, fn, pc) == tasks' = Calls(tasks, t, fn, pc)
Return(t, val) == tasks' = Returns(tasks, t, val)
Throw(t, exc) == tasks' = Throws(tasks, t, exc)
=============================================================================
