-------------------------- MODULE ThreadLocalStats --------------------------
(***************************************************************************)
(* The registry of a ThreadLocalStatsT<TLStatsThreadSafe> container and    *)
(* the TLStatLink through which the container and its TLStatT objects find *)
(* each other (fb303/ThreadLocalStats.h, ThreadLocalStats-inl.h).          *)
(*                                                                         *)
(* Any thread may construct, destroy, move, update or export a stat that   *)
(* no other thread is operating on; any thread may aggregate() or delete   *)
(* the container.  An operation is a list of jobs (link a stat, unlink it, *)
(* ...) done in order; the steps of a job that other threads can observe   *)
(* are actions.  The updates a stat holds are a set of update ids:         *)
(* value_.reset() takes the set atomically, which is what                  *)
(* TimeSeriesType is shown to do.                                          *)
(***************************************************************************)
EXTENDS Naturals, Sequences, FiniteSets

CONSTANTS Threads,   \* threads that use the container or its stats
          Stats,     \* storage for TLStatT objects
          Names,     \* names of stats, each with its global stat
          Updates,   \* ids of the addValue() calls (their number is a bound)
          MaxCalls,  \* bound on the number of operations begun
          None       \* no thread, no stat, no name

ASSUME RegistryAssumption ==
    /\ None \notin Threads \cup Stats \cup Names
    /\ MaxCalls \in Nat
    /\ IsFiniteSet(Stats)

VARIABLES
    container,    \* "alive", "detached" (link_->container_ is null), "freed"
    mutex,        \* link_->mutex_: its owner or None
    tlStats,      \* tlStats_
    linkPending,  \* linkPending_
    tlStatsEmpty, \* tlStatsEmpty_
    refCount,     \* link_->refCount_
    life,         \* each stat: "none", or constructed and "unlinked" or "linked"
    name,         \* each stat: its name and global stat, None once moved from
    local,        \* each stat: updates in value_
    total,        \* each name: updates in the global stat
    todo,         \* each thread: jobs left in its operation
    pc,           \* each thread: where it is in the first of them
    inHand,       \* each thread: updates taken by reset() and not yet global
    at,           \* each thread: the stat its aggregate() is at
    visited,      \* each thread: the stats its aggregate() is done with
    users,        \* threads whose caller keeps the container alive
    calls,        \* history: operations begun
    added         \* history: updates made, by name

dataVars == <<local, total, added>>
regVars  == <<tlStats, linkPending, tlStatsEmpty>>
walkVars == <<inHand, at, visited>>
vars == <<container, mutex, regVars, refCount, life, name, dataVars, todo, pc,
          walkVars, users, calls>>

Job(what, stat) == [do |-> what, stat |-> stat, from |-> None]
NoJob == Job("none", None)

\* The job thread t is doing.
Doing(t) == IF todo[t] = <<>> THEN NoJob ELSE Head(todo[t])

Idle(t) == todo[t] = <<>>

\* Callers synchronize the operations on one stat.
Busy(s) == \E t \in Threads : \E i \in DOMAIN todo[t] :
              s \in {todo[t][i].stat, todo[t][i].from}

\* ThreadLocalStatsT(): the link starts with the container's own reference.
Init ==
    /\ container = "alive" /\ mutex = None
    /\ tlStats = {} /\ linkPending = <<>> /\ tlStatsEmpty = TRUE
    /\ refCount = 1
    /\ life = [s \in Stats |-> "none"]
    /\ name = [s \in Stats |-> None]
    /\ local = [s \in Stats |-> {}]
    /\ total = [n \in Names |-> {}]
    /\ added = [n \in Names |-> {}]
    /\ todo = [t \in Threads |-> <<>>]
    /\ pc = [t \in Threads |-> "start"]
    /\ inHand = [t \in Threads |-> {}]
    /\ at = [t \in Threads |-> None]
    /\ visited = [t \in Threads |-> {}]
    /\ users = {} /\ calls = 0

-----------------------------------------------------------------------------
(***************************************************************************)
(* Operations begun by callers.                                            *)
(***************************************************************************)
Begin(t, jobs) ==
    /\ Idle(t) /\ calls < MaxCalls
    /\ calls' = calls + 1
    /\ todo' = [todo EXCEPT ![t] = jobs]
    /\ UNCHANGED <<container, mutex, regVars, dataVars, pc, walkVars>>

\* The container is not being deleted, so a reference to it may be used.
Usable == /\ container = "alive"
          /\ \A t \in Threads : Doing(t).do # "close"

\* TLTimeseriesT(stats, name) and its siblings, which end in postInit().
Construct(t, s, n) ==
    /\ life[s] = "none" /\ ~Busy(s) /\ Usable
    /\ Begin(t, <<Job("link", s)>>)
    /\ refCount' = refCount + 1
    /\ life' = [life EXCEPT ![s] = "unlinked"]
    /\ name' = [name EXCEPT ![s] = n]
    /\ users' = users \cup {t}

\* ~TLTimeseriesT(): preDestroy(), then the members.
Destroy(t, s) ==
    /\ life[s] # "none" /\ ~Busy(s)
    /\ Begin(t, <<Job("unlink", s), Job("drop", s)>>)
    /\ UNCHANGED <<refCount, life, name, users>>

\* The jobs of a move of stat s into d after d itself is off the registry.
MoveJobs(d, s) == <<Job("unlink", s),
                    [do |-> "take", stat |-> d, from |-> s],
                    Job("link", d)>>

\* Mutant: the moved-to stat copies the link without incRef().
MoveConstructNoRef(t, d, s) ==
    /\ life[d] = "none" /\ life[s] # "none" /\ name[s] # None
    /\ ~Busy(d) /\ ~Busy(s)
    /\ Begin(t, MoveJobs(d, s))
    /\ life' = [life EXCEPT ![d] = "unlinked"]
    /\ UNCHANGED <<refCount, name, users>>

\* TLTimeseriesT(TLTimeseriesT&& other).
MoveConstruct(t, d, s) ==
    /\ life[d] = "none" /\ life[s] # "none" /\ name[s] # None
    /\ ~Busy(d) /\ ~Busy(s)
    /\ Begin(t, MoveJobs(d, s))
    /\ refCount' = refCount + 1
    /\ life' = [life EXCEPT ![d] = "unlinked"]
    /\ UNCHANGED <<name, users>>

\* operator=(TLTimeseriesT&& other): moveAssignment().
MoveAssign(t, d, s) ==
    /\ d # s
    /\ life[d] # "none" /\ life[s] # "none" /\ name[s] # None
    /\ ~Busy(d) /\ ~Busy(s)
    /\ Begin(t, <<Job("unlink", d)>> \o MoveJobs(d, s))
    /\ UNCHANGED <<refCount, life, name, users>>

\* exportStat(), for its withContainerChecked().
ExportStat(t, s) ==
    /\ life[s] # "none" /\ name[s] # None /\ ~Busy(s)
    /\ Begin(t, <<Job("export", s)>>)
    /\ UNCHANGED <<refCount, life, name, users>>

\* ThreadLocalStatsT::aggregate()
Aggregate(t) ==
    /\ Usable
    /\ Begin(t, <<Job("aggregate", None)>>)
    /\ users' = users \cup {t}
    /\ UNCHANGED <<refCount, life, name>>

\* ~ThreadLocalStatsT(), once no caller is using the container itself.
Close(t) ==
    /\ Usable /\ users = {}
    /\ Begin(t, <<Job("close", None)>>)
    /\ UNCHANGED <<refCount, life, name, users>>

\* addValue() by the thread that owns the stat.
AddValue(t, s, u) ==
    /\ Idle(t) /\ ~Busy(s)
    /\ life[s] # "none" /\ name[s] # None
    /\ \A n \in Names : u \notin added[n]
    /\ local' = [local EXCEPT ![s] = @ \cup {u}]
    /\ added' = [added EXCEPT ![name[s]] = @ \cup {u}]
    /\ UNCHANGED <<container, mutex, regVars, refCount, life, name, total,
                   todo, pc, walkVars, users, calls>>

-----------------------------------------------------------------------------
(***************************************************************************)
(* Steps of the jobs.                                                      *)
(***************************************************************************)
At(t, jobs, label) == Doing(t).do \in jobs /\ pc[t] = label

Goto(t, label) == /\ pc' = [pc EXCEPT ![t] = label]
                  /\ UNCHANGED todo

\* The job is done; the reference to the container ends with the operation.
Return(t) == /\ todo' = [todo EXCEPT ![t] = Tail(@)]
             /\ pc' = [pc EXCEPT ![t] = "start"]
             /\ users' = IF Len(todo[t]) = 1 THEN users \ {t} ELSE users

\* TLStatLink::lock() and the first line of unlink(), aggregate(), ...
Lock(t) ==
    /\ \/ At(t, {"unlink", "aggregate"}, "lock")
       \/ At(t, {"export", "close"}, "start")
    /\ mutex = None
    /\ mutex' = t
    /\ Goto(t, "drain")
    /\ UNCHANGED <<container, regVars, refCount, life, name, dataVars, walkVars,
                   users, calls>>

\* link(), TLStatLink::try_lock().  Its early return for a linked stat is not
\* taken: every caller has just constructed or unlinked the stat.
TryLock(t) ==
    /\ At(t, {"link"}, "start")
    /\ \/ /\ mutex = None
          /\ mutex' = t
          /\ Goto(t, "drain")
       \/ /\ mutex # None
          /\ Goto(t, "deferred") /\ UNCHANGED mutex
    /\ UNCHANGED <<container, regVars, refCount, life, name, dataVars, walkVars,
                   users, calls>>

\* Mutant: lock() leaves the pending list alone.
DrainNothing(t) ==
    /\ At(t, {"link", "unlink", "aggregate", "export", "close"}, "drain")
    /\ Goto(t, "work")
    /\ UNCHANGED <<container, mutex, regVars, refCount, life, name, dataVars,
                   walkVars, users, calls>>

\* completePendingLink(), which both kinds of lock() end with.
Drain(t) ==
    /\ At(t, {"link", "unlink", "aggregate", "export", "close"}, "drain")
    /\ \/ /\ container = "alive"
          /\ tlStats' = tlStats \cup {linkPending[i] : i \in DOMAIN linkPending}
          /\ linkPending' = <<>>
          /\ tlStatsEmpty' =
                IF tlStats = {} /\ linkPending # <<>> THEN FALSE ELSE tlStatsEmpty
       \/ container # "alive" /\ UNCHANGED regVars
    /\ Goto(t, "work")
    /\ UNCHANGED <<container, mutex, refCount, life, name, dataVars, walkVars,
                   users, calls>>

\* The guard goes out of scope.
Unlock(t) ==
    /\ \/ At(t, {"link", "unlink", "close"}, "unlock")
       \/ At(t, {"export"}, "work")
       \/ At(t, {"aggregate"}, "work") /\ visited[t] = tlStats
    /\ mutex' = None
    /\ visited' = [visited EXCEPT ![t] = {}]
    /\ IF Doing(t).do = "close" THEN Goto(t, "free") /\ UNCHANGED users
                                ELSE Return(t)
    /\ UNCHANGED <<container, regVars, refCount, life, name, dataVars, inHand,
                   at, calls>>

-----------------------------------------------------------------------------
(***************************************************************************)
(* link()                                                                  *)
(***************************************************************************)
\* The lock was free: insert into the container.
Insert(t) ==
    /\ At(t, {"link"}, "work")
    /\ IF container = "alive"
       THEN /\ tlStats' = tlStats \cup {Doing(t).stat}
            /\ tlStatsEmpty' = IF Cardinality(tlStats') = 1 THEN FALSE
                                                           ELSE tlStatsEmpty
       ELSE UNCHANGED <<tlStats, tlStatsEmpty>>
    /\ life' = [life EXCEPT ![Doing(t).stat] = "linked"]
    /\ Goto(t, "unlock")
    /\ UNCHANGED <<container, mutex, linkPending, refCount, name, dataVars,
                   walkVars, users, calls>>

\* The lock was taken: look at link_->container_ without it ...
Deferred(t) ==
    /\ At(t, {"link"}, "deferred")
    /\ \/ /\ container = "alive"
          /\ Goto(t, "push") /\ UNCHANGED <<life, users>>
       \/ /\ container # "alive"
          /\ life' = [life EXCEPT ![Doing(t).stat] = "linked"]
          /\ Return(t)
    /\ UNCHANGED <<container, mutex, regVars, refCount, name, dataVars,
                   walkVars, calls>>

\* ... and leave the stat on the pending list for the next holder of the lock.
PushPending(t) ==
    /\ At(t, {"link"}, "push")
    /\ IF container = "freed"   \* freed memory: the push is lost
       THEN UNCHANGED <<linkPending, tlStatsEmpty>>
       ELSE /\ linkPending' = Append(linkPending, Doing(t).stat)
            /\ tlStatsEmpty' = IF Len(linkPending') = 1 THEN FALSE
                                                        ELSE tlStatsEmpty
    /\ life' = [life EXCEPT ![Doing(t).stat] = "linked"]
    /\ Return(t)
    /\ UNCHANGED <<container, mutex, tlStats, refCount, name, dataVars,
                   walkVars, calls>>

-----------------------------------------------------------------------------
(***************************************************************************)
(* unlink(), and the members of a stat that is moved or destroyed.         *)
(***************************************************************************)
\* Mutant: unlink() goes straight for the lock, without a last aggregation.
TakeLocalSkipped(t) ==
    /\ At(t, {"unlink"}, "start")
    /\ \/ life[Doing(t).stat] # "linked" /\ Return(t)
       \/ life[Doing(t).stat] = "linked" /\ Goto(t, "lock") /\ UNCHANGED users
    /\ UNCHANGED <<container, mutex, regVars, refCount, life, name, dataVars,
                   walkVars, calls>>

\* The stat's own aggregate(): value_.reset() ...
TakeLocal(t) ==
    /\ At(t, {"unlink"}, "start")
    /\ \/ /\ life[Doing(t).stat] # "linked"
          /\ Return(t) /\ UNCHANGED <<local, inHand>>
       \/ /\ life[Doing(t).stat] = "linked"
          /\ inHand' = [inHand EXCEPT ![t] = local[Doing(t).stat]]
          /\ local' = [local EXCEPT ![Doing(t).stat] = {}]
          /\ Goto(t, "deliver") /\ UNCHANGED users
    /\ UNCHANGED <<container, mutex, regVars, refCount, life, name, total, added,
                   at, visited, calls>>

\* ... then addValueAggregated() on the global stat.
DeliverLocal(t) ==
    /\ At(t, {"unlink"}, "deliver")
    /\ total' = [total EXCEPT ![name[Doing(t).stat]] = @ \cup inHand[t]]
    /\ inHand' = [inHand EXCEPT ![t] = {}]
    /\ Goto(t, "lock")
    /\ UNCHANGED <<container, mutex, regVars, refCount, life, name, local, added,
                   at, visited, users, calls>>

\* Mutant: only the linked flag is cleared.
EraseFlagOnly(t) ==
    /\ At(t, {"unlink"}, "work")
    /\ life' = [life EXCEPT ![Doing(t).stat] = "unlinked"]
    /\ Goto(t, "unlock")
    /\ UNCHANGED <<container, mutex, regVars, refCount, name, dataVars, walkVars,
                   users, calls>>

\* The registry lock is held and the pending list drained: erase the stat.
Erase(t) ==
    /\ At(t, {"unlink"}, "work")
    /\ IF container = "alive"
       THEN /\ tlStats' = tlStats \ {Doing(t).stat}
            /\ tlStatsEmpty' = IF tlStats' = {} THEN TRUE ELSE tlStatsEmpty
       ELSE UNCHANGED <<tlStats, tlStatsEmpty>>
    /\ life' = [life EXCEPT ![Doing(t).stat] = "unlinked"]
    /\ Goto(t, "unlock")
    /\ UNCHANGED <<container, mutex, linkPending, refCount, name, dataVars,
                   walkVars, users, calls>>

\* Take the other stat's link, name and global stat.  The references dropped
\* and taken are to the link of the one container.
TakeOther(t) ==
    /\ At(t, {"take"}, "start")
    /\ name' = [name EXCEPT ![Doing(t).stat] = name[Doing(t).from],
                            ![Doing(t).from] = None]
    /\ Return(t)
    /\ UNCHANGED <<container, mutex, regVars, refCount, life, dataVars,
                   walkVars, calls>>

\* ~TLStatT() and ~TLStatLinkPtr()
Drop(t) ==
    /\ At(t, {"drop"}, "start")
    /\ life' = [life EXCEPT ![Doing(t).stat] = "none"]
    /\ name' = [name EXCEPT ![Doing(t).stat] = None]
    /\ refCount' = refCount - 1
    /\ Return(t)
    /\ UNCHANGED <<container, mutex, regVars, dataVars, walkVars, calls>>

-----------------------------------------------------------------------------
(***************************************************************************)
(* aggregate() and ~ThreadLocalStatsT()                                    *)
(***************************************************************************)
\* The check made outside of the lock.
ReadEmpty(t) ==
    /\ At(t, {"aggregate"}, "start")
    /\ IF tlStatsEmpty THEN Return(t) ELSE Goto(t, "lock") /\ UNCHANGED users
    /\ UNCHANGED <<container, mutex, regVars, refCount, life, name, dataVars,
                   walkVars, calls>>

\* stat->aggregate(now) for the next stat: value_.reset() ...
TakeStat(t, s) ==
    /\ At(t, {"aggregate"}, "work")
    /\ s \in tlStats \ visited[t]
    /\ at' = [at EXCEPT ![t] = s]
    /\ visited' = [visited EXCEPT ![t] = @ \cup {s}]
    /\ inHand' = [inHand EXCEPT ![t] = local[s]]
    /\ local' = [local EXCEPT ![s] = {}]
    /\ Goto(t, "deliver")
    /\ UNCHANGED <<container, mutex, regVars, refCount, life, name, total, added,
                   users, calls>>

\* ... then addValueAggregated() on the global stat.
DeliverStat(t) ==
    /\ At(t, {"aggregate"}, "deliver")
    /\ total' = [total EXCEPT ![name[at[t]]] = @ \cup inHand[t]]
    /\ inHand' = [inHand EXCEPT ![t] = {}]
    /\ at' = [at EXCEPT ![t] = None]
    /\ Goto(t, "work")
    /\ UNCHANGED <<container, mutex, regVars, refCount, life, name, local, added,
                   visited, users, calls>>

Detach(t) ==
    /\ At(t, {"close"}, "work")
    /\ container' = "detached"
    /\ tlStats' = {} /\ tlStatsEmpty' = TRUE
    /\ Goto(t, "unlock")
    /\ UNCHANGED <<mutex, linkPending, refCount, life, name, dataVars, walkVars,
                   users, calls>>

\* The members of the container are destroyed.
Free(t) ==
    /\ At(t, {"close"}, "free")
    /\ container' = "freed"
    /\ linkPending' = <<>>
    /\ refCount' = refCount - 1
    /\ Return(t)
    /\ UNCHANGED <<mutex, tlStats, tlStatsEmpty, life, name, dataVars, walkVars,
                   calls>>

-----------------------------------------------------------------------------
LinkStep(t) == TryLock(t) \/ Insert(t) \/ Deferred(t) \/ PushPending(t)

UnlinkStep(t) == TakeLocal(t) \/ DeliverLocal(t) \/ Erase(t)

WalkStep(t) == \/ ReadEmpty(t) \/ DeliverStat(t)
               \/ \E s \in Stats : TakeStat(t, s)

Step(t) == \/ Lock(t) \/ Drain(t) \/ Unlock(t)
           \/ LinkStep(t) \/ UnlinkStep(t) \/ WalkStep(t)
           \/ TakeOther(t) \/ Drop(t) \/ Detach(t) \/ Free(t)

Call(t) ==
    \/ \E s \in Stats : \E n \in Names : Construct(t, s, n)
    \/ \E s \in Stats : Destroy(t, s) \/ ExportStat(t, s)
    \/ \E d, s \in Stats : MoveConstruct(t, d, s) \/ MoveAssign(t, d, s)
    \/ \E s \in Stats : \E u \in Updates : AddValue(t, s, u)
    \/ Aggregate(t)
    \/ Close(t)

Next == \E t \in Threads : Step(t) \/ Call(t)

Spec == Init /\ [][Next]_vars

-----------------------------------------------------------------------------
(***************************************************************************)
(* Properties.                                                             *)
(***************************************************************************)
JobType == [do : {"link", "unlink", "take", "drop", "export", "aggregate", "close"},
            stat : Stats \cup {None}, from : Stats \cup {None}]

TypeOK ==
    /\ container \in {"alive", "detached", "freed"}
    /\ mutex \in Threads \cup {None}
    /\ tlStats \subseteq Stats
    /\ linkPending \in Seq(Stats)
    /\ tlStatsEmpty \in BOOLEAN
    /\ refCount \in Nat
    /\ life \in [Stats -> {"none", "unlinked", "linked"}]
    /\ name \in [Stats -> Names \cup {None}]
    /\ local \in [Stats -> SUBSET Updates]
    /\ total \in [Names -> SUBSET Updates]
    /\ added \in [Names -> SUBSET Updates]
    /\ todo \in [Threads -> Seq(JobType)]
    /\ pc \in [Threads -> {"start", "lock", "drain", "work", "deliver",
                           "deferred", "push", "unlock", "free"}]
    /\ inHand \in [Threads -> SUBSET Updates]
    /\ at \in [Threads -> Stats \cup {None}]
    /\ visited \in [Threads -> SUBSET Stats]
    /\ users \subseteq Threads
    /\ calls \in Nat

Pending == {linkPending[i] : i \in DOMAIN linkPending}

(***************************************************************************)
(* The CHECKs of link(), unlink() and completePendingLink() never fire: a  *)
(* stat is never registered twice, directly or from the pending list, and  *)
(* unlink() always finds its stat registered, because lock() has drained   *)
(* the pending list it may still have been on.  Nor is tlStatsEmpty_, the  *)
(* flag that lets aggregate() skip the lock, left TRUE with a stat in      *)
(* tlStats_.                                                               *)
(***************************************************************************)
RegistryChecks ==
    container = "alive" =>
        /\ tlStats # {} => ~tlStatsEmpty
        /\ tlStats \cap Pending = {}
        /\ Cardinality(Pending) = Len(linkPending)
        /\ \A t \in Threads :
              /\ At(t, {"unlink"}, "work") => Doing(t).stat \in tlStats
              /\ At(t, {"link"}, "start") => life[Doing(t).stat] = "unlinked"
              /\ At(t, {"link"}, "work") => Doing(t).stat \notin tlStats

(***************************************************************************)
(* "preventing other threads from calling aggregate() on this object       *)
(* again": whatever aggregate() can reach, now or once it has drained the  *)
(* pending list, is a constructed stat that was not moved from, and the    *)
(* stat it is in the middle of stays that way.                             *)
(***************************************************************************)
ReachableAreLive ==
    /\ container = "alive" =>
          \A s \in tlStats \cup Pending : life[s] # "none" /\ name[s] # None
    /\ \A t \in Threads : At(t, {"aggregate"}, "deliver") =>
          life[at[t]] # "none" /\ name[at[t]] # None

\* The global stat that the updates a thread has in hand are meant for.
Meant(t) == IF Doing(t).do = "aggregate" THEN name[at[t]] ELSE name[Doing(t).stat]

(***************************************************************************)
(* No update is lost, counted twice or credited to another name, whatever  *)
(* aggregate(), the final aggregation of unlink(), moves and the end of    *)
(* the container do: an update made under a name is in that name's global  *)
(* stat, in a stat with the name, or in the hand of a thread about to      *)
(* deliver it, and only in one of these places.                            *)
(***************************************************************************)
UpdatesConserved ==
    LET hands(n) == {t \in Threads : inHand[t] # {} /\ Meant(t) = n}
        held(n) == {s \in Stats : name[s] = n}
    IN  /\ \A n \in Names :
              added[n] = total[n] \cup (UNION {local[s] : s \in held(n)})
                                  \cup (UNION {inHand[t] : t \in hands(n)})
        /\ \A s \in Stats : local[s] # {} => name[s] # None
        /\ \A s1, s2 \in Stats : s1 # s2 => local[s1] \cap local[s2] = {}
        /\ \A t1, t2 \in Threads : t1 # t2 => inHand[t1] \cap inHand[t2] = {}
        /\ \A t \in Threads, s \in Stats : inHand[t] \cap local[s] = {}
        /\ \A n \in Names : /\ \A s \in Stats : total[n] \cap local[s] = {}
                            /\ \A t \in Threads : total[n] \cap inHand[t] = {}

(***************************************************************************)
(* A TLStatLink outlives every lock held on it and every operation of a    *)
(* stat or of the container that still has to go through it.               *)
(***************************************************************************)
LinkOutlivesUse ==
    /\ refCount = Cardinality({s \in Stats : life[s] # "none"})
                  + (IF container = "freed" THEN 0 ELSE 1)
    /\ mutex # None => refCount > 0
    /\ \A t \in Threads : todo[t] # <<>> => refCount > 0

(***************************************************************************)
(* ThreadLocalStats-inl.h:588: the unlocked check of aggregate() "would    *)
(* catch any calls to link() and unlink() which are not concurrent": with  *)
(* no operation in progress, a container whose flag says empty has neither *)
(* a registered nor a pending stat.                                        *)
(***************************************************************************)
QuietFlagExact ==
    (container = "alive" /\ \A t \in Threads : Idle(t)) =>
        (tlStatsEmpty => tlStats = {} /\ linkPending = <<>>)
=============================================================================
