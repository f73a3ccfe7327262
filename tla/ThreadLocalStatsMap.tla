------------------------- MODULE ThreadLocalStatsMap -------------------------
(***************************************************************************)
(* ThreadLocalStatsMap (fb303/ThreadLocalStatsMap.h and -inl.h): the       *)
(* statistics of one thread by name, each behind a shared_ptr that caches  *)
(* may hold too, and what becomes of a statistic nobody holds any more.    *)
(*                                                                         *)
(* Only the thread itself uses its map, so what an operation does to it is *)
(* one step.  The registry that links the statistics to their container    *)
(* is module ThreadLocalStats; kept of it here: the destructor of a        *)
(* statistic flushes it without the lock, and a sweep never loses one      *)
(* half-way.  Counters differ from timeseries only in where the flushed    *)
(* value goes, so a key stands for either; sums are numbers of values.     *)
(***************************************************************************)
EXTENDS Integers, FiniteSets, Functions

CONSTANTS Threads,      \* threads that update statistics
          Keys,         \* names of statistics
          Types,        \* export types
          FixedKey,     \* the key of a TimeseriesWrapper
          MaxObjects,   \* bound on the TLTimeseries alive at a time
          None          \* no thread, no subkey

ASSUME MapAssumption == FixedKey \in Keys /\ MaxObjects \in Nat /\ None \notin Threads

VARIABLES
    object,     \* id of a living TLTimeseries: its owner, key and value_
    named,      \* each thread: namedTimeseries_, key to entry
    wrapper,    \* each thread: what tlTimeseries_ of the wrapper holds
    local,      \* each thread: subkey to the TLTimeseries cached for it
    exports,    \* <<key, type>> exported by ServiceData
    hand,       \* each actor: values it has taken and not delivered
    sum,        \* each key: values in the ExportedStat
    added       \* history: each key: values ever added

holdVars == <<named, wrapper, local>>
mapVars == <<object, holdVars, exports, hand, sum, added>>

Empty == <<>>
NoKey == [key |-> None, n |-> 0]

\* The objects of t with a shared_ptr to them, and those without: their
\* destructors run in t before it does anything else.
Ids(m) == {m[x].id : x \in DOMAIN m}
Held(t) == Ids(named[t]) \cup Ids(wrapper[t]) \cup Ids(local[t])
Dying(t) == {i \in DOMAIN object : object[i].thread = t} \ Held(t)

\* Entries of a map: StatPtr, with the flags of the types exported through it.
Entries == [id : 1..MaxObjects, types : SUBSET Types]

FreeIds == (1..MaxObjects) \ DOMAIN object

\* Map m with v at x, and all the values that map f has numbers of.
Put(m, x, v) == [y \in DOMAIN m \cup {x} |-> IF y = x THEN v ELSE m[y]]
Total(f) == Cardinality(UNION {{x} \X (1..f[x]) : x \in DOMAIN f})

\* The entry tryInsertLocked() returns for k: the one there, or one made anew.
TryInsertLocked(t, k, e) ==
    IF k \in DOMAIN named[t] THEN e = named[t][k]
    ELSE FreeIds # {} /\ e = [id |-> CHOOSE i \in FreeIds : TRUE, types |-> {}]

\* The TLTimeseries of e, made if need be, after n values were added to it.
Updated(t, k, e, n) ==
    LET o == IF e.id \in DOMAIN object THEN object[e.id]
             ELSE [thread |-> t, key |-> k, value |-> 0]
    IN Put(object, e.id, [o EXCEPT !.value = @ + n])

SetNamed(t, k, e) == named' = [named EXCEPT ![t] = Put(@, k, e)]

\* addStatValue(), addStatValueAggregated() and incrementCounter() by name;
\* with an export type, it is exported unless the entry's flag is set.
AddNamed(t, k, types) ==
    \E e \in Entries :
        /\ TryInsertLocked(t, k, e)
        /\ object' = Updated(t, k, e, 1)
        /\ SetNamed(t, k, [e EXCEPT !.types = @ \cup types])
        /\ exports' = exports \cup ({k} \X (types \ e.types))
        /\ added' = [added EXCEPT ![k] = @ + 1]
        /\ UNCHANGED <<wrapper, local, hand, sum>>

\* clearStat(): forgets the flag and exports the type again.
ClearStat(t, k, type) ==
    /\ IF k \in DOMAIN named[t] THEN named' = [named EXCEPT ![t][k].types = @ \ {type}]
       ELSE UNCHANGED named
    /\ exports' = exports \cup {<<k, type>>}
    /\ UNCHANGED <<object, wrapper, local, hand, sum, added>>

\* The constructors of TimeseriesWrapper and its variants export the types they
\* are given; the variants differ in the durations of the levels.
WrapperExports == {FixedKey} \X Types

\* getStatSafe(), for a thread that has no cached pointer yet.
GetStatSafe(t, e) == TryInsertLocked(t, FixedKey, e) /\ SetNamed(t, FixedKey, e)

\* add(): to the object of the cached pointer, or of getStatSafe().
WrapperAdd(t) ==
    \E e \in Entries :
        /\ IF wrapper[t] # Empty
           THEN e = [id |-> wrapper[t][1].id, types |-> {}] /\ UNCHANGED named
           ELSE GetStatSafe(t, e)
        /\ object' = Updated(t, FixedKey, e, 1)
        /\ wrapper' = [wrapper EXCEPT ![t] = <<[id |-> e.id]>>]
        /\ added' = [added EXCEPT ![FixedKey] = @ + 1]
        /\ UNCHANGED <<local, exports, hand, sum>>

\* TLTimeseriesT::aggregate(): the values of object i are taken by a ...
Take(a, i) ==
    /\ hand[a] = NoKey /\ object[i].value > 0
    /\ hand' = [hand EXCEPT ![a] = [key |-> object[i].key, n |-> object[i].value]]
    /\ object' = [object EXCEPT ![i].value = 0]
    /\ UNCHANGED <<holdVars, exports, sum, added>>

\* ... and then added to the global statistic.
Deliver(a) ==
    /\ hand[a] # NoKey
    /\ sum' = [sum EXCEPT ![hand[a].key] = @ + hand[a].n]
    /\ hand' = [hand EXCEPT ![a] = NoKey]
    /\ UNCHANGED <<object, holdVars, exports, added>>

\* ~TLTimeseriesT: unlink() aggregates without the lock of the registry ...
FlushDying(t) == \E i \in Dying(t) : Take(t, i)

\* Mutant: the statistic is not flushed.
UnlinkUnflushed(t, i) ==
    /\ hand[t] = NoKey
    /\ object' = Restrict(object, DOMAIN object \ {i})
    /\ UNCHANGED <<holdVars, exports, hand, sum, added>>

\* ... and takes the lock to leave the registry.
Unlink(t, i) ==
    /\ hand[t] = NoKey
    /\ object[i].value = 0
    /\ object' = Restrict(object, DOMAIN object \ {i})
    /\ UNCHANGED <<holdVars, exports, hand, sum, added>>

\* clearTimeseriesSafe() and resetAllData(): the map's own pointers go.
ClearTimeseriesSafe(t, ks) ==
    named' = [named EXCEPT ![t] = Restrict(@, DOMAIN @ \ ks)]
=============================================================================
