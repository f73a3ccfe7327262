---------------------------- MODULE ServiceCalls ----------------------------
(***************************************************************************)
(* The calls that threads have under way on a ServiceData object, shared   *)
(* by the maps it is composed of.  A thread is inside one call at a time;  *)
(* pc names the lock or the callback that the call is about to take.       *)
(***************************************************************************)
EXTENDS Naturals, FiniteSets

CONSTANTS Threads,    \* threads of the program
          Names,      \* names of stats
          MaxCalls,   \* bound on the calls made
          None

ASSUME CallAssumption ==
    /\ MaxCalls \in Nat /\ IsFiniteSet(Threads)
    /\ None \notin Threads \cup Names \cup Nat

\* A call makes at most one stat in each map.
Stats == 1 .. MaxCalls

VARIABLES call,   \* each thread: its call, with the fields of Idle
          calls   \* number of calls made

Idle == [pc |-> "idle",     \* where it is
         op |-> None,       \* the operation called
         name |-> None,     \* arguments
         types |-> {},
         item |-> None,     \* the stat it holds a shared_ptr to
         todo |-> {},       \* counters its loop has still to visit
         visit |-> {},      \* stats its loop has still to visit
         waitFor |-> {}]    \* threads whose running callback it waits for

At(t, label) == call[t].pc = label

Goto(t, label) == call' = [call EXCEPT ![t].pc = label]

Return(t) == call' = [call EXCEPT ![t] = Idle]

\* A call of op begins at label.
Begin(t, op, label, name, types) ==
    /\ At(t, "idle") /\ calls < MaxCalls
    /\ calls' = calls + 1
    /\ call' = [call EXCEPT ![t] = [Idle EXCEPT !.pc = label, !.op = op,
                                                !.name = name, !.types = types]]
=============================================================================
