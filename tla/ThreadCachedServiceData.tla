----------------------- MODULE ThreadCachedServiceData -----------------------
(***************************************************************************)
(* ThreadCachedServiceData (fb303/ThreadCachedServiceData.h and .cpp):     *)
(* statistics cached by thread, published by a thread of its own or by     *)
(* whoever calls publishStats() or zeroStats(), while threads come to      *)
(* their end.  publishStats()'s three statistics about itself are three    *)
(* more values added by the publishing thread, and left out.               *)
(*                                                                         *)
(* folly is modelled from how this code uses it: accessAllThreads() keeps  *)
(* threads from leaving, a FunctionScheduler's destructor waits for the    *)
(* function it is running, and a Singleton may be destroyed and made anew. *)
(***************************************************************************)
EXTENDS FormattedKeyHolder

CONSTANTS Callers,      \* threads that start, stop, publish and zero
          Worker,       \* the thread of PublisherManager::Worker
          Intervals,    \* positive publish intervals
          DefaultInterval  \* 1 second, for a request without an interval

ASSUME IntervalAssumption ==
    /\ Intervals \subseteq Nat \ {0}
    /\ DefaultInterval \in Nat \ {0}

\* A thread is one thing, and a publisher another.
ASSUME ActorAssumption ==
    /\ IsFiniteSet(Threads) /\ IsFiniteSet(Callers)
    /\ Worker \notin Callers \cup Threads /\ Callers \cap Threads = {}
    /\ None \notin Callers \cup {Worker}

VARIABLES
    listed,     \* threads accessAllThreads() visits
    visit,      \* the sweep under way: whose, threads, thread and objects left
    interval,   \* interval_
    worker,     \* worker_: the interval it was made with, 0 if there is none
    manager,    \* the PublisherManager singleton exists
    workerLock, \* who has the lock of worker_, or None
    want,       \* each caller: the interval it asks for, 0 to stop
    zeroing,    \* keys zeroStats() has still to zero
    zeroed,     \* history: each key: values zeroed
    before,     \* history: each key: values added before the last zeroStats()
    carried     \* history: each key: of these, those no sweep could reach

Publishers == Callers \cup {Worker}
workVars == <<interval, worker, manager, workerLock, want>>
zeroVars == <<zeroing, zeroed, before, carried>>
vars == <<mapVars, keyVars, pc, listed, visit, workVars, zeroVars>>

NoVisit == [by |-> None, threads |-> {}, in |-> None, objects |-> {}]
NoValues == [k \in Keys |-> 0]

\* Values of key k in the objects of threads ts.
Cached(k, ts) ==
    Total([i \in {j \in DOMAIN object : object[j].key = k /\ object[j].thread \in ts} |->
              object[i].value])
InHand(k, as) == Total([a \in {b \in as : hand[b].key = k} |-> hand[a].n])

Init ==
    /\ object = Empty /\ exports = WrapperExports /\ sum = NoValues /\ added = NoValues
    /\ named = [t \in Threads |-> Empty] /\ wrapper = named /\ local = named
    /\ hand = [a \in Threads \cup Publishers |-> NoKey]
    /\ globalMap = {} /\ upgrader = None /\ prepared = [s \in Subkeys |-> 0]
    /\ last = [t \in Threads |-> NoItem] /\ call = [t \in Threads |-> NoCall] /\ calls = 0
    /\ pc = [a \in Threads \cup Publishers |-> "idle"]
    /\ listed = Threads /\ visit = NoVisit
    /\ interval = 0 /\ worker = 0 /\ manager = TRUE /\ workerLock = None
    /\ want = [a \in Callers |-> 0]
    /\ zeroing = {} /\ zeroed = NoValues
    /\ before = NoValues /\ carried = NoValues

(***************************** the threads *********************************)
Elsewhere == UNCHANGED <<listed, visit, workVars, zeroVars>>

\* addStatValue() by name, with or without a type, and incrementCounter().
AddStatValue(t, k, types) ==
    BeginCall(t) /\ AddNamed(t, k, types) /\ UNCHANGED <<pc, memoVars>> /\ Elsewhere

ClearStatType(t, k, type) ==
    BeginCall(t) /\ ClearStat(t, k, type) /\ UNCHANGED <<pc, memoVars>> /\ Elsewhere

AddToWrapper(t) ==
    BeginCall(t) /\ WrapperAdd(t) /\ UNCHANGED <<pc, memoVars>> /\ Elsewhere

\* ThreadLocalStatsMap::resetAllData() of the thread's own map.
ResetAllData(t) ==
    /\ BeginCall(t)
    /\ ClearTimeseriesSafe(t, Keys)
    /\ UNCHANGED <<object, wrapper, local, exports, hand, sum, added>>
    /\ UNCHANGED <<pc, memoVars>> /\ Elsewhere

CallDynamic(t) ==
    /\ \E op \in {"add", "addAggregated", "exportKey", "clear"}, s \in Subkeys :
           CallWrapper(t, op, s)
    /\ Elsewhere

\* While zeroStats() is at work, n[k] values of k leave the sweep's reach.
Carry(n) ==
    carried' = IF zeroing = {} THEN carried ELSE [k \in Keys |-> carried[k] + n[k]]

Destructor(t) ==
    /\ \/ /\ FlushDying(t)
          /\ Carry([k \in Keys |-> IF t \in listed THEN InHand(k, {t})' ELSE 0])
       \/ Deliver(t) /\ UNCHANGED carried
       \/ /\ visit.in # t
          /\ \E i \in Dying(t) : Unlink(t, i)
          /\ UNCHANGED carried
    /\ UNCHANGED <<keyVars, pc, listed, visit, workVars, zeroing, zeroed, before>>

\* The thread ends: its map leaves accessAllThreads(), which waits for a sweep.
ExitThread(t) ==
    /\ BeginCall(t) /\ visit.by = None
    /\ Goto(t, "exit")
    /\ listed' = listed \ {t}
    /\ Carry([k \in Keys |-> Cached(k, {t})])
    /\ UNCHANGED <<mapVars, memoVars, visit, workVars, zeroing, zeroed, before>>

\* One of its thread-local objects is destroyed, in any order: the map, the
\* wrapper's pointer, the caches of the key holder.
DropHolder(t) ==
    /\ pc[t] = "exit" /\ Ready(t)
    /\ \/ /\ named[t] # Empty /\ named' = [named EXCEPT ![t] = Empty]
          /\ UNCHANGED <<wrapper, local, last>>
       \/ /\ wrapper[t] # Empty /\ wrapper' = [wrapper EXCEPT ![t] = Empty]
          /\ UNCHANGED <<named, local, last>>
       \/ /\ local[t] # Empty /\ local' = [local EXCEPT ![t] = Empty]
          /\ last' = [last EXCEPT ![t] = NoItem]
          /\ UNCHANGED <<named, wrapper>>
    /\ UNCHANGED <<object, exports, hand, sum, added, globalVars, call, calls, pc>>
    /\ Elsewhere

(**************************** publishStats() *******************************)
\* Mutant: a sweep waits for the lock of worker_.
BeginSweepUnderLock(p) ==
    /\ pc[p] \in {"publish", "publishThenZero"} /\ visit.by = None /\ workerLock = None
    /\ visit' = [NoVisit EXCEPT !.by = p, !.threads = listed]
    /\ UNCHANGED <<mapVars, keyVars, pc, listed, workVars, zeroVars>>

BeginSweep(p) ==
    /\ pc[p] \in {"publish", "publishThenZero"} /\ visit.by = None
    /\ visit' = [NoVisit EXCEPT !.by = p, !.threads = listed]
    /\ UNCHANGED <<mapVars, keyVars, pc, listed, workVars, zeroVars>>

\* aggregate() of the next thread's map, under the lock of its registry.
VisitThread(p) ==
    /\ visit.by = p /\ visit.objects = {} /\ hand[p] = NoKey
    /\ \E t \in visit.threads :
        visit' = [visit EXCEPT !.threads = @ \ {t}, !.in = t,
                               !.objects = {i \in DOMAIN object : object[i].thread = t}]
    /\ UNCHANGED <<mapVars, keyVars, pc, listed, workVars, zeroVars>>

SweepStat(p) ==
    /\ visit.by = p /\ hand[p] = NoKey
    /\ \E i \in visit.objects :
        /\ visit' = [visit EXCEPT !.objects = @ \ {i}]
        /\ IF object[i].value > 0 THEN Take(p, i) ELSE UNCHANGED mapVars
    /\ UNCHANGED <<keyVars, pc, listed, workVars, zeroVars>>

DeliverSwept(p) ==
    /\ Deliver(p)
    /\ UNCHANGED <<keyVars, pc>> /\ Elsewhere

EndSweep(p) ==
    /\ visit.by = p /\ visit.threads = {} /\ visit.objects = {} /\ hand[p] = NoKey
    /\ visit' = NoVisit
    /\ Goto(p, IF pc[p] = "publish" THEN "idle" ELSE "zero")
    /\ UNCHANGED <<mapVars, keyVars, listed, workVars, zeroVars>>

\* A caller publishes, or the scheduler runs the function.
PublishStats(p) ==
    /\ Idle(p)
    /\ IF p = Worker THEN worker # 0 /\ UNCHANGED calls ELSE Count
    /\ Goto(p, "publish")
    /\ UNCHANGED <<mapVars, memoVars>> /\ Elsewhere

\* Mutant: nothing is published first.
ZeroStatsOnly(a) ==
    /\ Idle(a) /\ zeroing = {} /\ Count
    /\ Goto(a, "zero")
    /\ zeroing' = Keys
    /\ before' = added
    /\ carried' = [k \in Keys |-> InHand(k, Threads) + Cached(k, Threads \ listed)]
    /\ UNCHANGED <<mapVars, memoVars, listed, visit, workVars, zeroed>>

\* zeroStats(): publishes, then zeroes the statistics of ServiceData.
ZeroStats(a) ==
    /\ Idle(a) /\ zeroing = {} /\ Count
    /\ Goto(a, "publishThenZero")
    /\ zeroing' = Keys
    /\ before' = added
    /\ carried' = [k \in Keys |-> InHand(k, Threads) + Cached(k, Threads \ listed)]
    /\ UNCHANGED <<mapVars, memoVars, listed, visit, workVars, zeroed>>

ZeroStat(a) ==
    /\ pc[a] = "zero"
    /\ \E k \in zeroing :
        /\ zeroing' = zeroing \ {k}
        /\ sum' = [sum EXCEPT ![k] = 0]
        /\ zeroed' = [zeroed EXCEPT ![k] = @ + sum[k]]
    /\ Goto(a, IF zeroing' = {} THEN "idle" ELSE "zero")
    /\ UNCHANGED <<object, holdVars, exports, hand, added, keyVars, listed, visit, workVars>>
    /\ UNCHANGED <<before, carried>>

(************************** the publish thread *****************************)
\* startPublishThread(i); 0 stands for an interval that is not positive.
StartPublishThread(a, i) ==
    /\ Idle(a) /\ Count
    /\ IF i = 0 /\ interval # 0 THEN UNCHANGED <<want, pc>>
       ELSE /\ want' = [want EXCEPT ![a] = IF i = 0 THEN DefaultInterval ELSE i]
            /\ Goto(a, "lockWorker")
    /\ UNCHANGED <<mapVars, memoVars, listed, visit, zeroVars>>
    /\ UNCHANGED <<interval, worker, manager, workerLock>>

\* Mutant: the interval is stored before the lock is taken.
StopPublishThreadEarly(a) ==
    /\ Idle(a) /\ Count
    /\ want' = [want EXCEPT ![a] = 0] /\ interval' = 0
    /\ Goto(a, "lockWorker")
    /\ UNCHANGED <<mapVars, memoVars, listed, visit, zeroVars>>
    /\ UNCHANGED <<worker, manager, workerLock>>

StopPublishThread(a) ==
    /\ Idle(a) /\ Count
    /\ want' = [want EXCEPT ![a] = 0]
    /\ Goto(a, "lockWorker")
    /\ UNCHANGED <<mapVars, memoVars, listed, visit, zeroVars>>
    /\ UNCHANGED <<interval, worker, manager, workerLock>>

\* Both, in withWLock(): the interval is stored; nothing without a manager.
StoreInterval(a) ==
    /\ pc[a] = "lockWorker"
    /\ IF manager
       THEN /\ workerLock = None /\ workerLock' = a
            /\ interval' = want[a]
            /\ Goto(a, "join")
       ELSE Goto(a, "idle") /\ UNCHANGED <<workerLock, interval>>
    /\ want' = [want EXCEPT ![a] = 0]
    /\ UNCHANGED <<mapVars, keyVars, listed, visit, zeroVars, worker, manager>>

\* The old Worker is joined; a new one is made with the stored interval.
ReplaceWorker(a) ==
    /\ pc[a] = "join"
    /\ worker # 0 => Idle(Worker)
    /\ worker' = interval
    /\ workerLock' = None
    /\ Goto(a, "idle")
    /\ UNCHANGED <<mapVars, keyVars, listed, visit, zeroVars, interval, manager, want>>

\* The singleton is destroyed, and its worker with it ...
DestroyManager ==
    /\ manager /\ workerLock = None /\ Idle(Worker) /\ Count
    /\ manager' = FALSE /\ worker' = 0
    /\ UNCHANGED <<mapVars, memoVars, pc, listed, visit, zeroVars>>
    /\ UNCHANGED <<interval, workerLock, want>>

\* ... and made again by getRef(): its constructor restarts the thread.
VivifyManager ==
    /\ ~manager
    /\ manager' = TRUE /\ worker' = interval
    /\ UNCHANGED <<mapVars, keyVars, pc, listed, visit, zeroVars>>
    /\ UNCHANGED <<interval, workerLock, want>>

(**************************** specification ********************************)
ThreadCalls(t) ==
    \/ \E k \in Keys, types \in {{}} \cup {{y} : y \in Types} : AddStatValue(t, k, types)
    \/ \E k \in Keys, y \in Types : ClearStatType(t, k, y)
    \/ AddToWrapper(t)
    \/ ResetAllData(t)
    \/ CallDynamic(t)
    \/ ExitThread(t)

Publishing(p) ==
    BeginSweep(p) \/ VisitThread(p) \/ SweepStat(p) \/ DeliverSwept(p) \/ EndSweep(p)

Continue ==
    \/ \E t \in Threads : Destructor(t) \/ DropHolder(t) \/ (KeySteps(t) /\ Elsewhere)
    \/ \E p \in Publishers : Publishing(p)
    \/ \E a \in Callers : ZeroStat(a) \/ StoreInterval(a) \/ ReplaceWorker(a)

Next ==
    \/ Continue
    \/ \E t \in Threads : ThreadCalls(t)
    \/ \E p \in Publishers : PublishStats(p)
    \/ \E a \in Callers : ZeroStats(a) \/ StopPublishThread(a)
    \/ \E a \in Callers, i \in Intervals \cup {0} : StartPublishThread(a, i)
    \/ DestroyManager \/ VivifyManager

Spec == Init /\ [][Next]_vars

(****************************** properties *********************************)
\* Every value a thread added is in exactly one place: a cache, a hand, the
\* exported statistic or what zeroStats() dropped.  clear(), resetAllData(),
\* the end of a thread and the second TLTimeseries that two subkeys with one
\* formatted key can leave in a thread lose none and count none twice.
ValuesConserved ==
    \A k \in Keys : added[k] = sum[k] + zeroed[k] + Cached(k, Threads) + InHand(k, DOMAIN hand)

\* When zeroStats() is through, every value added before the call has been
\* dropped, except those a destructor or an ending thread had taken past the
\* sweep, which come up again later (cpp:239).
ZeroForgets ==
    zeroing = {} => \A k \in Keys : zeroed[k] + carried[k] >= before[k]

\* A subkey is prepared once, however many threads meet it first at the same
\* time (".. callback invocations are guaranteed to be mutually excluded"),
\* and what a thread has cached or flagged as exported is exported.
KeysPreparedOnce ==
    /\ \A s \in Subkeys : prepared[s] <= 1
    /\ \A t \in Threads :
        /\ \A s \in DOMAIN local[t] : {FormatKey(s)} \X Types \subseteq exports
        /\ \A k \in DOMAIN named[t] : {k} \X named[t][k].types \subseteq exports

\* The last item found is an item of the local map, so the pointer in it has
\* an owner, and is of the thread and the key its subkey stands for.
LastFoundIsLive ==
    \A t \in Threads : last[t] # NoItem =>
        /\ last[t].sub \in DOMAIN local[t]
        /\ local[t][last[t].sub].id = last[t].id
        /\ object[last[t].id].thread = t
        /\ object[last[t].id].key = FormatKey(last[t].sub)

\* Whenever nobody is changing it, the publish thread runs exactly if
\* publishThreadRunning() says so, and with the interval it reports.
WorkerFollowsInterval == manager /\ workerLock = None => worker = interval

\* startPublishThread() and stopPublishThread() join the worker with the lock
\* of worker_ held, and the worker may be waiting for the sweep of another, who
\* waits for the objects of a thread: someone can always go on.
NoDeadlock ==
    (\E a \in Callers : pc[a] \in {"lockWorker", "join"}) => ENABLED Continue
=============================================================================
