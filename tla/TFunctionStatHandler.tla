------------------------ MODULE TFunctionStatHandler ------------------------
(***************************************************************************)
(* TFunctionStatHandler (fb303/TFunctionStatHandler.h and .cpp): Thrift    *)
(* requests are counted in a TStatsPerThread object per thread and         *)
(* function, which a scheduler thread, the exit of the thread and the      *)
(* destructor of the handler consolidate into the exported sums.           *)
(*                                                                         *)
(* The contributions of requests are kept as one number per statistic      *)
(* (Kinds); byte counts and durations are left out, the numbers of values  *)
(* that have them are kept.  What TProcessor and folly::ThreadLocalPtr do  *)
(* is modelled from how this code uses them: a request in flight keeps the *)
(* handler alive, a thread leaves accessAllThreads() before its deleter    *)
(* runs, and never in the middle of someone's accessAllThreads().          *)
(***************************************************************************)
EXTENDS Integers, FiniteSets, FiniteSetsExt

CONSTANTS Threads,        \* places for threads that run requests
          Scheduler,      \* the FunctionScheduler's thread
          Owner,          \* whoever installed the handler
          Functions,      \* names of Thrift functions
          Requests,       \* requests (their number is a bound)
          FnOf,           \* each request: the function it calls
          Outcomes,       \* the ways a request may go, a subset of Outcome
          MaxThreads,     \* bound on the number of threads ever started
          DesiredSamples, \* desiredSamplesPerPeriod_
          Scale,          \* a sample rate is a multiple of 1/Scale
          None            \* no thread, no function, no request

ASSUME HandlerAssumption ==
    /\ IsFiniteSet(Threads)
    /\ None \notin Threads \cup {Scheduler, Owner} \cup Functions \cup Requests
    /\ \A fs \in SUBSET Functions : fs # None
    /\ Scheduler # Owner /\ {Scheduler, Owner} \cap Threads = {}
    /\ FnOf \in [Requests -> Functions]
    /\ MaxThreads \in Nat
    /\ \A o \in Outcomes : o.stage \in 0..4
    /\ DesiredSamples \in Nat \ {0} /\ Scale \in Nat \ {0}

VARIABLES
    handler,    \* "alive", "dying" (in its destructor) or "gone"
    owned,      \* the owner still has its shared_ptr to the handler
    running,    \* scheduler_ has not been told to shut down
    statMutex,  \* statMutex_: its owner or None
    nThreads,   \* nThreads_
    lastId,     \* the counter of currentThreadStatsId()
    id,         \* each place: the id of the thread there, 0 if there is none
    listed,     \* places whose TStatsAggregator accessAllThreads() visits
    map,        \* each place: functions its aggregator has stats of, or None
    cached,     \* each place: cachedFnName
    stats,      \* each place and function: the TStatsPerThread
    context,    \* each request: its TStatsRequestContext
    pc,         \* each actor: where it is
    job,        \* each place: request and target of the call it is making
    todo,       \* each actor: stats its consolidation has still to visit
    active,     \* each actor: threads whose calls it has met
    exported,   \* statMapSum_ and statMapAvg_, by function
    logged,     \* history: contributions of the requests freed, by function
    lost        \* history: contributions deleted without being exported

Actors == Threads \cup {Scheduler, Owner}
lifeVars  == <<handler, owned, running>>
hostVars  == <<lastId, id, listed, map, cached>>
sweepVars == <<statMutex, nThreads, todo, active>>
sumVars   == <<exported, logged, lost>>
vars == <<lifeVars, hostVars, sweepVars, sumVars, stats, context, pc, job>>

\* The sums and counts of a TStatsPerThread.
Kinds == {"calls", "samples", "exceptions", "userExceptions", "readData",
          "writeData", "processed", "readTime", "writeTime", "processTime"}

Zero == [k \in Kinds |-> 0]
Plus(a, b) == [k \in Kinds |-> a[k] + b[k]]

\* A new TStatsPerThread: every call is sampled.
NewStats == [sum |-> Zero, sampleRate |-> Scale, sampleTimer |-> 0]

\* A new TStatsRequestContext, with the thread that made it.
NewContext(t, f, measured) ==
    [open |-> TRUE, fn |-> f, place |-> t, origin |-> id[t], measureTime |-> measured,
     readBegin |-> FALSE, readEnd |-> FALSE, writeBegin |-> FALSE,
     writeEnd |-> FALSE, exception |-> FALSE, userException |-> FALSE]
NoContext == [open |-> FALSE]

NoJob == [req |-> None, fn |-> None, target |-> None]

Init ==
    /\ handler = "alive" /\ owned = TRUE /\ running = TRUE
    /\ statMutex = None /\ nThreads = 1
    /\ lastId = 0 /\ id = [t \in Threads |-> 0]
    /\ listed = {}
    /\ map = [t \in Threads |-> None]
    /\ cached = [t \in Threads |-> None]
    /\ stats = [t \in Threads |-> [f \in Functions |-> NewStats]]
    /\ context = [r \in Requests |-> NoContext]
    /\ pc = [a \in Actors |-> "idle"]
    /\ job = [t \in Threads |-> NoJob]
    /\ todo = [a \in Actors |-> {}]
    /\ active = [a \in Actors |-> {}]
    /\ exported = [f \in Functions |-> Zero]
    /\ logged = [f \in Functions |-> Zero]
    /\ lost = [f \in Functions |-> Zero]

Goto(a, label) == pc' = [pc EXCEPT ![a] = label]
Running(t) == id[t] # 0 /\ pc[t] = "idle"

-----------------------------------------------------------------------------
(***************************************************************************)
(* Threads and requests.                                                   *)
(***************************************************************************)
\* currentThreadStatsId() gives every thread an id of its own.
StartThread(t) ==
    /\ id[t] = 0 /\ pc[t] = "idle" /\ lastId < MaxThreads
    /\ lastId' = lastId + 1
    /\ id' = [id EXCEPT ![t] = lastId + 1]
    /\ UNCHANGED <<lifeVars, sweepVars, sumVars, listed, map, cached, stats,
                   context, pc, job>>

\* getContext(fnName): a request arrives on thread t.
GetContext(t, r) ==
    /\ Running(t) /\ owned /\ context[r] = NoContext
    /\ \A u \in Threads : job[u].req # r
    /\ job' = [job EXCEPT ![t] = [req |-> r, fn |-> FnOf[r], target |-> None]]
    /\ Goto(t, "getStats")
    /\ UNCHANGED <<lifeVars, hostVars, sweepVars, sumVars, stats, context>>

Open(r) == context[r].open
InCall(r) == \E t \in Threads : job[t].req = r

\* How far a request gets: the hooks called for it, in their order, and what
\* its handler threw (an undeclared exception is reported to both hooks).
Outcome == [stage : 0..4, thrown : {"no", "declared", "undeclared"}]

\* What preRead(), postRead(), userExceptionWrapped(), handlerError(),
\* preWrite() and postWrite() have marked in a context by the time it is
\* freed.  Nobody else looks at the context in between.
Hooked(c, o) ==
    [c EXCEPT !.readBegin = o.stage >= 1, !.readEnd = o.stage >= 2,
              !.userException = o.thrown # "no", !.exception = o.thrown = "undeclared",
              !.writeBegin = o.stage >= 3, !.writeEnd = o.stage >= 4]

\* What context->stats_ points to: a stats object of a thread.
StatsOf(c) == [place |-> c.place, id |-> c.origin, fn |-> c.fn]

\* Mutant: context->stats_ is used on every thread.
FreeContextUnchecked(t, r, o) ==
    /\ Running(t) /\ Open(r) /\ ~InCall(r)
    /\ LET c == context[r]
       IN  /\ job' = [job EXCEPT ![t] =
                 [req |-> r, fn |-> c.fn, target |-> StatsOf(c)]]
           /\ Goto(t, "use")
    /\ context' = [context EXCEPT ![r] = Hooked(@, o)]
    /\ UNCHANGED <<lifeVars, hostVars, sweepVars, sumVars, stats>>

\* freeContext(ctx, fnName), on the thread that made the context or another.
FreeContext(t, r, o) ==
    /\ Running(t) /\ Open(r) /\ ~InCall(r)
    /\ LET c == context[r]
           own == c.origin = id[t]
       IN  /\ job' = [job EXCEPT ![t] =
                 [req |-> r, fn |-> c.fn, target |-> IF own THEN StatsOf(c) ELSE None]]
           /\ Goto(t, IF own THEN "use" ELSE "getStats")
    /\ context' = [context EXCEPT ![r] = Hooked(@, o)]
    /\ UNCHANGED <<lifeVars, hostVars, sweepVars, sumVars, stats>>

-----------------------------------------------------------------------------
(***************************************************************************)
(* getStats(fnName)                                                        *)
(***************************************************************************)
\* tlFunctionMap_.reset(), with statMutex_ held.
NewAggregator(t) ==
    /\ pc[t] = "getStats" /\ map[t] = None
    /\ statMutex = None
    /\ map' = [map EXCEPT ![t] = {}]
    /\ listed' = listed \cup {t}
    /\ UNCHANGED <<lifeVars, sweepVars, sumVars, lastId, id, cached, stats,
                   context, pc, job>>

\* getStats() returns the stats of function f; the entry is cached.
Got(t, f) ==
    /\ cached' = [cached EXCEPT ![t] = f]
    /\ job' = [job EXCEPT ![t].target = [place |-> t, id |-> id[t], fn |-> f]]
    /\ Goto(t, "use")

\* The cached entry if it is the function's, else the entry of the map.
FindStats(t) ==
    /\ pc[t] = "getStats" /\ map[t] # None
    /\ \/ cached[t] # None /\ cached[t] = job[t].fn
       \/ cached[t] # job[t].fn /\ job[t].fn \in map[t]
    /\ Got(t, job[t].fn)
    /\ UNCHANGED <<lifeVars, sweepVars, sumVars, lastId, id, listed, map,
                   stats, context>>

\* map.emplace(), with statMutex_ held to lock out consolidation.
AddStats(t) ==
    /\ pc[t] = "getStats" /\ map[t] # None
    /\ job[t].fn \notin map[t]
    /\ statMutex = None
    /\ map' = [map EXCEPT ![t] = @ \cup {job[t].fn}]
    /\ stats' = [stats EXCEPT ![t][job[t].fn] = NewStats]
    /\ Got(t, job[t].fn)
    /\ UNCHANGED <<lifeVars, sweepVars, sumVars, lastId, id, listed, context>>

\* TStatsPerThread::getContext(), under its mutex: one call in 1/sampleRate_
\* is measured.
Sample(s) ==
    LET timer == s.sampleTimer + s.sampleRate
    IN  [s EXCEPT !.sampleTimer = IF timer >= Scale THEN timer - Scale ELSE timer]

MakeContext(t) ==
    /\ pc[t] = "use" /\ context[job[t].req] = NoContext
    /\ LET f == job[t].fn
           s == stats[t][f]
       IN  /\ stats' = [stats EXCEPT ![t][f] = Sample(s)]
           /\ context' = [context EXCEPT ![job[t].req] =
                 NewContext(t, f, s.sampleTimer + s.sampleRate >= Scale)]
    /\ job' = [job EXCEPT ![t] = NoJob]
    /\ Goto(t, "idle")
    /\ UNCHANGED <<lifeVars, hostVars, sweepVars, sumVars>>

\* What logContextData() and logContextDataProcessed() add for a context.
Contribution(c) ==
    LET parts == [calls |-> TRUE, samples |-> c.measureTime,
                  exceptions |-> c.exception, userExceptions |-> c.userException,
                  readData |-> c.readEnd, readTime |-> c.readEnd /\ c.measureTime,
                  writeData |-> c.writeEnd, writeTime |-> c.writeEnd /\ c.measureTime,
                  processed |-> c.writeBegin,
                  processTime |-> c.writeBegin /\ c.measureTime]
    IN  [k \in Kinds |-> IF parts[k] THEN 1 ELSE 0]

\* The target is still owned by the map of a running thread.
Valid(target) == /\ id[target.place] = target.id
                 /\ map[target.place] # None
                 /\ target.fn \in map[target.place]

\* What else keeps the handler alive once actor a lets go of it: the owner,
\* a request in flight, or a deleter that locked its weak_ptr.
Referenced(a) ==
    \/ owned /\ a # Owner
    \/ \E r \in Requests : Open(r) /\ (a \in Threads => job[a].req # r)
    \/ \E t \in Threads \ {a} :
          pc[t] \in {"getStats", "use", "exitLock", "exitSweep"}

\* Actor a drops its reference; the last one runs the destructor.
LetGo(a, otherwise) ==
    IF Referenced(a) THEN Goto(a, otherwise) /\ UNCHANGED handler
                     ELSE Goto(a, "shutdown") /\ handler' = "dying"

\* logContextData(*context) under the mutex of the target, delete context.
LogContextData(t) ==
    /\ pc[t] = "use" /\ context[job[t].req] # NoContext
    /\ LET tgt == job[t].target
           add == Contribution(context[job[t].req])
       IN  /\ stats' = [stats EXCEPT ![tgt.place][tgt.fn].sum = Plus(@, add)]
           /\ logged' = [logged EXCEPT ![context[job[t].req].fn] = Plus(@, add)]
    /\ context' = [context EXCEPT ![job[t].req] = [open |-> FALSE, done |-> TRUE]]
    /\ job' = [job EXCEPT ![t] = NoJob]
    /\ LetGo(t, "idle")
    /\ UNCHANGED <<hostVars, sweepVars, owned, running, exported, lost>>

-----------------------------------------------------------------------------
(***************************************************************************)
(* Consolidation.                                                          *)
(***************************************************************************)
\* setSampleRate(desiredSamplesPerPeriod_ / nThreads_ / calls_): at most one.
SampleRate(calls) ==
    IF calls > 0 THEN Min({(DesiredSamples * Scale) \div (nThreads * calls), Scale})
                 ELSE Scale

\* Mutant: clear() forgets the exceptions.
ClearedAlmost(s) == [s EXCEPT !.sum = [Zero EXCEPT !["exceptions"] = s.sum["exceptions"]],
                              !.sampleRate = SampleRate(s.sum["calls"])]

\* The stats after consolidateStats(): a new sample rate, and clear().
Cleared(s) == [s EXCEPT !.sum = Zero, !.sampleRate = SampleRate(s.sum["calls"])]

\* consolidateStats() for one TStatsPerThread, under its mutex.
ConsolidateStats(a, t, f) ==
    /\ pc[a] \in {"sweep", "exitSweep"} /\ <<t, f>> \in todo[a]
    /\ todo' = [todo EXCEPT ![a] = @ \ {<<t, f>>}]
    /\ exported' = [exported EXCEPT ![f] = Plus(@, stats[t][f].sum)]
    /\ stats' = [stats EXCEPT ![t][f] = Cleared(@)]
    /\ active' = IF stats[t][f].sum["calls"] > 0
                 THEN [active EXCEPT ![a] = @ \cup {t}] ELSE active
    /\ UNCHANGED <<lifeVars, hostVars, statMutex, nThreads, context, pc, job,
                   logged, lost>>

EntriesOf(ts) == {e \in Threads \X Functions :
                     e[1] \in ts /\ map[e[1]] # None /\ e[2] \in map[e[1]]}

\* The scheduler calls consolidate() once a period.
Tick ==
    /\ running /\ pc[Scheduler] = "idle"
    /\ Goto(Scheduler, "consolidate")
    /\ UNCHANGED <<lifeVars, hostVars, sweepVars, sumVars, stats, context,
                   job>>

\* consolidate(): statMutex_, then accessAllThreads() ...
Consolidate(a) ==
    /\ pc[a] = "consolidate" /\ statMutex = None
    /\ statMutex' = a
    /\ todo' = [todo EXCEPT ![a] = EntriesOf(listed)]
    /\ active' = [active EXCEPT ![a] = {}]
    /\ Goto(a, "sweep")
    /\ UNCHANGED <<lifeVars, hostVars, sumVars, nThreads, stats, context, job>>

\* ... then the number of threads that had calls, if any.
EndConsolidate(a) ==
    /\ pc[a] = "sweep" /\ todo[a] = {}
    /\ nThreads' = IF active[a] # {} THEN Cardinality(active[a]) ELSE nThreads
    /\ statMutex' = None
    /\ active' = [active EXCEPT ![a] = {}]
    /\ Goto(a, IF a = Scheduler THEN "idle" ELSE "destroy")
    /\ UNCHANGED <<lifeVars, hostVars, sumVars, stats, context, job, todo>>

-----------------------------------------------------------------------------
(***************************************************************************)
(* The exit of a thread.                                                   *)
(***************************************************************************)
\* The thread is taken off the list that accessAllThreads() locks.
ThreadExit(t) ==
    /\ Running(t)
    /\ \A a \in Actors : pc[a] # "sweep"
    /\ listed' = listed \ {t}
    /\ Goto(t, IF map[t] = None THEN "delete" ELSE "exit")
    /\ UNCHANGED <<lifeVars, sweepVars, sumVars, lastId, id, map, cached,
                   stats, context, job>>

\* The deleter: wp.lock() fails once the handler is in its destructor.
LockWeak(t) ==
    /\ pc[t] = "exit"
    /\ Goto(t, IF handler = "alive" THEN "exitLock" ELSE "abandon")
    /\ UNCHANGED <<lifeVars, hostVars, sweepVars, sumVars, stats, context,
                   job>>

ExitConsolidate(t) ==
    /\ pc[t] = "exitLock" /\ statMutex = None
    /\ statMutex' = t
    /\ todo' = [todo EXCEPT ![t] = EntriesOf({t})]
    /\ Goto(t, "exitSweep")
    /\ UNCHANGED <<lifeVars, hostVars, sumVars, nThreads, stats, context, job,
                   active>>

\* consolidateThread() is done: the lock is released, then the reference.
EndExitConsolidate(t) ==
    /\ pc[t] = "exitSweep" /\ todo[t] = {}
    /\ statMutex' = None
    /\ active' = [active EXCEPT ![t] = {}]
    /\ LetGo(t, "delete")
    /\ UNCHANGED <<hostVars, sumVars, owned, running, nThreads, stats, context,
                   job, todo>>

\* delete a, and the thread is gone.  Without the handler, what it counted
\* since the last consolidation goes with the map.
DeleteMap(t) ==
    /\ pc[t] \in {"delete", "abandon"}
    /\ lost' = IF pc[t] = "abandon"
               THEN [f \in Functions |-> Plus(lost[f], stats[t][f].sum)] ELSE lost
    /\ map' = [map EXCEPT ![t] = None]
    /\ cached' = [cached EXCEPT ![t] = None]
    /\ stats' = [stats EXCEPT ![t] = [f \in Functions |-> NewStats]]
    /\ id' = [id EXCEPT ![t] = 0]
    /\ Goto(t, "idle")
    /\ UNCHANGED <<lifeVars, sweepVars, lastId, listed, context, job, exported,
                   logged>>

-----------------------------------------------------------------------------
(***************************************************************************)
(* The destructor, run by whoever drops the last reference.                *)
(***************************************************************************)
\* withThriftFunctionStats() returns: the handler is removed and let go.
DropHandler ==
    /\ owned /\ pc[Owner] = "idle"
    /\ owned' = FALSE
    /\ LetGo(Owner, "idle")
    /\ UNCHANGED <<hostVars, sweepVars, sumVars, running, stats, context, job>>

\* preDestroy(): scheduler_.shutdown() asks the scheduler to stop ...
Shutdown(a) ==
    /\ pc[a] = "shutdown"
    /\ running' = FALSE
    /\ Goto(a, "join")
    /\ UNCHANGED <<hostVars, sweepVars, sumVars, handler, owned, stats,
                   context, job>>

\* Mutant: preDestroy() has statMutex_ while it waits for the scheduler.
JoinLocked(a) ==
    /\ pc[a] = "join"
    /\ \/ statMutex = None /\ statMutex' = a /\ UNCHANGED pc
       \/ /\ statMutex = a /\ pc[Scheduler] = "idle"
          /\ statMutex' = None /\ Goto(a, "consolidate")
    /\ UNCHANGED <<lifeVars, hostVars, sumVars, nThreads, stats, context, job,
                   todo, active>>

\* ... and waits for a consolidation it is in; then the last consolidate().
Join(a) ==
    /\ pc[a] = "join" /\ pc[Scheduler] = "idle"
    /\ Goto(a, "consolidate")
    /\ UNCHANGED <<lifeVars, hostVars, sweepVars, sumVars, stats, context,
                   job>>

\* ~TFunctionStatHandler(): tlFunctionMap_ deletes the maps still listed.
DestroyHandler(a) ==
    /\ pc[a] = "destroy"
    /\ handler' = "gone"
    /\ map' = [t \in Threads |-> IF t \in listed THEN None ELSE map[t]]
    /\ cached' = [t \in Threads |-> IF t \in listed THEN None ELSE cached[t]]
    /\ stats' = [t \in Threads |-> IF t \in listed THEN [f \in Functions |-> NewStats]
                                                   ELSE stats[t]]
    /\ listed' = {}
    /\ Goto(a, IF a \in Threads /\ map'[a] # None THEN "delete" ELSE "idle")
    /\ UNCHANGED <<sweepVars, sumVars, owned, running, lastId, id, context,
                   job>>

-----------------------------------------------------------------------------
CallStep(t) == \/ NewAggregator(t) \/ FindStats(t) \/ AddStats(t)
               \/ MakeContext(t) \/ LogContextData(t)

ExitStep(t) == LockWeak(t) \/ EndExitConsolidate(t) \/ DeleteMap(t)

SweepStep(a) == \/ EndConsolidate(a)
                \/ \E t \in Threads, f \in Functions : ConsolidateStats(a, t, f)

DestroyStep(a) == Shutdown(a) \/ Join(a) \/ DestroyHandler(a)

Step(a) == \/ SweepStep(a) \/ DestroyStep(a)
           \/ a \in Threads /\ (CallStep(a) \/ ExitStep(a))

Acquire(a) == Consolidate(a) \/ (a \in Threads /\ ExitConsolidate(a))

Environment ==
    \/ \E t \in Threads : StartThread(t) \/ ThreadExit(t)
    \/ \E t \in Threads, r \in Requests : GetContext(t, r)
    \/ \E t \in Threads, r \in Requests, o \in Outcomes : FreeContext(t, r, o)
    \/ Tick \/ DropHandler

Next == Environment \/ \E a \in Actors : Step(a) \/ Acquire(a)

Spec == Init /\ [][Next]_vars

-----------------------------------------------------------------------------
(***************************************************************************)
(* Properties.                                                             *)
(***************************************************************************)
\* The sum of the numbers g[t], as the size of a set with g[t] elements for t.
Total(g) == Cardinality(UNION {{t} \X (1..g[t]) : t \in Threads})

\* What the per-thread stats of function f hold.
Held(f) == [k \in Kinds |-> Total([t \in Threads |-> stats[t][f].sum[k]])]

(***************************************************************************)
(* Every call is counted exactly once, in each of its statistics and under *)
(* its own function, whichever of the scheduler, the exit of the thread    *)
(* and the destructor consolidates it, and whichever thread frees its      *)
(* context.  The one exception is a thread that exits while the destructor *)
(* is running: its calls since the last consolidation are dropped.         *)
(***************************************************************************)
CallsConserved ==
    \A f \in Functions :
        logged[f] = Plus(exported[f], Plus(Held(f), lost[f]))

(***************************************************************************)
(* "On the creating thread, its TStatsPerThread is still owned by that     *)
(* thread's live stats map": whatever freeContext() logs to, and whatever  *)
(* getStats() returned from its cache, exists and is the function's.       *)
(***************************************************************************)
StatsOutliveUse ==
    \A t \in Threads : pc[t] = "use" =>
        Valid(job[t].target) /\ job[t].target.fn = job[t].fn

(***************************************************************************)
(* Nobody waits for ever: while an actor is in a call, in its exit or in   *)
(* the destructor, which waits for the scheduler, some actor can go on.    *)
(***************************************************************************)
NoDeadlock ==
    (\E a \in Actors : pc[a] # "idle") =>
        \E a \in Actors : ENABLED (Step(a) \/ Acquire(a))
=============================================================================
