--------------------------- MODULE ExportedStatMap --------------------------
(***************************************************************************)
(* ExportedStatMap (fb303/ExportedStatMap.h, .cpp) and the counters that   *)
(* TimeseriesExporter registers for its stats in a DynamicCounters map.    *)
(*                                                                         *)
(* statMap_ has a reader-writer lock, held exclusively over several steps  *)
(* by unExportStatAll(), flushAllStats() and clearAllStats().  Each stat   *)
(* has a lock of its own, which a caller keeps while it has the pointer of *)
(* getLockedStatPtr().  The counters are a CallbackValuesMap: registering  *)
(* is one atomic step that leaves an old callback in place, and removing   *)
(* one waits until nobody runs it.  A counter is a stat's name with an     *)
(* element of Types, which stands for an export type and a level.          *)
(***************************************************************************)
EXTENDS ServiceCalls

CONSTANTS Types,         \* export types of a stat, per level
          DefaultTypes   \* defaultTypes_

ASSUME TypesAssumption == DefaultTypes \subseteq Types

Counters == Names \X Types

VARIABLES
    statMap,    \* statMap_: each name's stat, or None
    writer,     \* the thread that holds statMap_'s lock exclusively, or None
    made,       \* number of stats made; the stats are 1 .. made
    samples,    \* each stat: number of values added since it was cleared
    dynamic,    \* each counter: the stat its callback captured, or None
    asked,      \* history, each stat: types its exporters were called with
    owed,       \* history, each name: values added to it since it was cleared
    stale,      \* history: names forgotten with their counters left in place
    raced       \* history: names removed or made anew while being exported

statVars == <<statMap, writer, made, samples, dynamic, asked, owed, stale, raced>>

StatInit ==
    /\ statMap = [n \in Names |-> None]
    /\ writer = None
    /\ made = 0
    /\ samples = [s \in Stats |-> 0]
    /\ dynamic = [c \in Counters |-> None]
    /\ asked = [s \in Stats |-> {}]
    /\ owed = [n \in Names |-> 0]
    /\ stale = {} /\ raced = {}

CountersOf(n, types) == {n} \X types

\* A caller keeps the stat locked through the pointer of getLockedStatPtr().
Held(s) == \E t \in Threads : At(t, "hold") /\ call[t].item = s

\* Names whose stat some thread is still exporting.
Exporting == {call[t].name : t \in {u \in Threads : At(u, "register")}}

\* resetAllData() is between forgetting the stats and clearing the counters.
Resetting == \E t \in Threads : call[t].pc \in {"resetQuantiles", "clearCounters"}

-----------------------------------------------------------------------------
(***************************************************************************)
(* addValue(), clearValue(), getLockedStatPtr() and exportStat(): all get  *)
(* the stat, or make it, and then export it and use it.                    *)
(***************************************************************************)
AddValue(t, n, types)   == Begin(t, "add", "find", n, types) /\ UNCHANGED statVars
ExportStat(t, n, types) == Begin(t, "export", "find", n, types) /\ UNCHANGED statVars
ClearValue(t, n)        == Begin(t, "clear", "find", n, DefaultTypes) /\ UNCHANGED statVars
GetLockedStatPtr(t, n)  == Begin(t, "lock", "find", n, DefaultTypes) /\ UNCHANGED statVars

\* The call has stat s; a new one is exported, and exportStat() always exports.
HaveStat(t, s, created) ==
    LET export == created \/ call[t].op = "export"
    IN  /\ call' = [call EXCEPT
                      ![t].item = s,
                      ![t].pc = IF export THEN "register" ELSE "use",
                      ![t].todo = IF export THEN CountersOf(call[t].name, call[t].types)
                                  ELSE {}]
        /\ asked' = IF export THEN [asked EXCEPT ![s] = @ \cup call[t].types]
                    ELSE asked

\* getStatPtrNoExport(): the lookup under the shared lock
FindStat(t) ==
    LET s == statMap[call[t].name]
    IN  /\ At(t, "find") /\ writer = None
        /\ \/ s # None /\ HaveStat(t, s, FALSE)
           \/ s = None /\ Goto(t, "create") /\ UNCHANGED asked
        /\ UNCHANGED <<statMap, writer, made, samples, dynamic, owed, stale,
                       raced, calls>>

\* Mutant: the name is not looked up again, and the stat there is replaced.
CreateStatBlind(t) ==
    LET n == call[t].name
    IN  /\ At(t, "create") /\ writer = None
        /\ made' = made + 1
        /\ statMap' = [statMap EXCEPT ![n] = made']
        /\ HaveStat(t, made', TRUE)
        /\ raced' = raced \cup ({n} \cap stale)
        /\ UNCHANGED <<writer, samples, dynamic, owed, stale, calls>>

\* getStatPtrNoExport(): under the upgrade lock, look again; then make the stat
CreateStat(t) ==
    LET n == call[t].name
    IN  /\ At(t, "create") /\ writer = None
        /\ \/ /\ statMap[n] # None
              /\ HaveStat(t, statMap[n], FALSE)
              /\ UNCHANGED <<statMap, made, raced>>
           \/ /\ statMap[n] = None
              /\ made' = made + 1
              /\ statMap' = [statMap EXCEPT ![n] = made']
              /\ HaveStat(t, made', TRUE)
              /\ raced' = IF n \in stale \/ Resetting
                          THEN raced \cup {n} ELSE raced
        /\ UNCHANGED <<writer, samples, dynamic, owed, stale, calls>>

\* TimeseriesExporter::exportStat(): registerCallback(overwrite = false)
Register(t, c) ==
    /\ At(t, "register") /\ c \in call[t].todo
    /\ dynamic' = [dynamic EXCEPT ![c] = IF @ = None THEN call[t].item ELSE @]
    /\ call' = [call EXCEPT ![t].todo = @ \ {c}]
    /\ UNCHANGED <<statMap, writer, made, samples, asked, owed, stale, raced, calls>>

Registered(t) ==
    /\ At(t, "register") /\ call[t].todo = {}
    /\ IF call[t].op = "export" THEN Return(t) ELSE Goto(t, "use")
    /\ UNCHANGED <<statVars, calls>>

\* wlock()->addValue() or clear(), or the locked pointer goes to the caller.
\* What is added to a stat that has left the map came before it left.
UseStat(t) ==
    LET s == call[t].item
        n == call[t].name
        Reset(old, op) == IF op = "add" THEN old + 1 ELSE 0
    IN  /\ At(t, "use") /\ ~Held(s)
        /\ IF call[t].op = "lock"
           THEN Goto(t, "hold") /\ UNCHANGED <<samples, owed>>
           ELSE /\ Return(t)
                /\ samples' = [samples EXCEPT ![s] = Reset(@, call[t].op)]
                /\ owed' = IF statMap[n] = s
                           THEN [owed EXCEPT ![n] = Reset(@, call[t].op)] ELSE owed
        /\ UNCHANGED <<statMap, writer, made, dynamic, asked, stale, raced, calls>>

\* The caller of getLockedStatPtr() adds a value and lets the pointer go.
ReleaseStat(t) ==
    LET s == call[t].item
        n == call[t].name
    IN  /\ At(t, "hold")
        /\ samples' = [samples EXCEPT ![s] = @ + 1]
        /\ owed' = IF statMap[n] = s THEN [owed EXCEPT ![n] = @ + 1] ELSE owed
        /\ Return(t)
        /\ UNCHANGED <<statMap, writer, made, dynamic, asked, stale, raced, calls>>

-----------------------------------------------------------------------------
(***************************************************************************)
(* unExportStatAll(name), under the exclusive lock throughout.             *)
(***************************************************************************)
UnExportStatAll(t, n) == Begin(t, "unexport", "lockMap", n, {}) /\ UNCHANGED statVars

LockMap(t) ==
    LET n == call[t].name
    IN  /\ At(t, "lockMap") /\ writer = None
        /\ IF statMap[n] = None
           THEN Return(t) /\ UNCHANGED <<writer, raced>>
           ELSE /\ writer' = t
                /\ call' = [call EXCEPT ![t].pc = "unregister",
                                        ![t].todo = CountersOf(n, Types)]
                /\ raced' = raced \cup ({n} \cap Exporting)
        /\ UNCHANGED <<statMap, made, samples, dynamic, asked, owed, stale, calls>>

\* unregisterCallback(): out of the map first, then wait for its readers
Unregister(t, c) ==
    /\ At(t, "unregister") /\ c \in call[t].todo /\ call[t].waitFor = {}
    /\ dynamic' = [dynamic EXCEPT ![c] = None]
    /\ call' = [call EXCEPT
                  ![t].todo = @ \ {c},
                  ![t].waitFor = {u \in Threads : At(u, "read") /\ call[u].types = {c}}]
    /\ UNCHANGED <<statMap, writer, made, samples, asked, owed, stale, raced, calls>>

EraseStat(t) ==
    LET n == call[t].name
    IN  /\ At(t, "unregister") /\ call[t].todo = {} /\ call[t].waitFor = {}
        /\ statMap' = [statMap EXCEPT ![n] = None]
        /\ owed' = [owed EXCEPT ![n] = 0]
        /\ writer' = None
        /\ Return(t)
        /\ UNCHANGED <<made, samples, dynamic, asked, stale, raced, calls>>

\* Names leave the map; their counters do not.
Forget(names) ==
    /\ statMap' = [n \in Names |-> IF n \in names THEN None ELSE statMap[n]]
    /\ owed' = [n \in Names |-> IF n \in names THEN 0 ELSE owed[n]]
    /\ raced' = raced \cup (names \cap Exporting)

\* forgetStatsFor(name)
ForgetStatsFor(t, n) ==
    /\ At(t, "idle") /\ calls < MaxCalls /\ writer = None
    /\ calls' = calls + 1
    /\ Forget({n})
    /\ stale' = stale \cup {n}
    /\ UNCHANGED <<call, writer, made, samples, dynamic, asked>>

-----------------------------------------------------------------------------
(***************************************************************************)
(* flushAllStats() and clearAllStats(): each stat is locked in turn under  *)
(* the exclusive lock of the map.  Flushing moves buffered values and      *)
(* changes no sum.                                                         *)
(***************************************************************************)
VisitAll(t) ==
    /\ At(t, "visitAll") /\ writer = None
    /\ writer' = t
    /\ call' = [call EXCEPT ![t].pc = "visit",
                            ![t].visit = {statMap[n] : n \in Names} \ {None}]
    /\ UNCHANGED <<statMap, made, samples, dynamic, asked, owed, stale, raced, calls>>

VisitStat(t, s) ==
    /\ At(t, "visit") /\ s \in call[t].visit /\ ~Held(s)
    /\ call' = [call EXCEPT ![t].visit = @ \ {s}]
    /\ IF call[t].op = "flush" THEN UNCHANGED <<samples, owed>>
       ELSE /\ samples' = [samples EXCEPT ![s] = 0]
            /\ owed' = [n \in Names |-> IF statMap[n] = s THEN 0 ELSE owed[n]]
    /\ UNCHANGED <<statMap, writer, made, dynamic, asked, stale, raced, calls>>

Visited(t) ==
    /\ At(t, "visit") /\ call[t].visit = {}
    /\ writer' = None
    /\ Return(t)
    /\ UNCHANGED <<statMap, made, samples, dynamic, asked, owed, stale, raced, calls>>

-----------------------------------------------------------------------------
(***************************************************************************)
(* Reading a counter: its callback locks the stat, while the counter's     *)
(* entry is kept from being cleared.                                       *)
(***************************************************************************)
GetCounter(t, c) ==
    /\ At(t, "idle") /\ calls < MaxCalls /\ dynamic[c] # None
    /\ calls' = calls + 1
    /\ call' = [call EXCEPT ![t] = [Idle EXCEPT !.pc = "read", !.op = "read",
                                                !.types = {c}, !.item = dynamic[c]]]
    /\ UNCHANGED statVars

\* Mutant: the callback finds its stat through the map, under the map's lock.
ReadStatByName(t) ==
    /\ At(t, "read") /\ ~Held(call[t].item) /\ writer = None
    /\ call' = [u \in Threads |->
                  IF u = t THEN Idle ELSE [call[u] EXCEPT !.waitFor = @ \ {t}]]
    /\ UNCHANGED <<statVars, calls>>

\* getStatValue(*stat->rlock()); the entry's lock is released after it
ReadStat(t) ==
    /\ At(t, "read") /\ ~Held(call[t].item)
    /\ call' = [u \in Threads |->
                  IF u = t THEN Idle ELSE [call[u] EXCEPT !.waitFor = @ \ {t}]]
    /\ UNCHANGED <<statVars, calls>>

-----------------------------------------------------------------------------
StatCall(t) ==
    \/ \E n \in Names :
          \/ UnExportStatAll(t, n) \/ ForgetStatsFor(t, n)
          \/ ClearValue(t, n) \/ GetLockedStatPtr(t, n)
          \/ \E types \in {{y} : y \in Types} \cup {DefaultTypes} :
                AddValue(t, n, types) \/ ExportStat(t, n, types)
    \/ \E c \in Counters : GetCounter(t, c)

StatStep(t) ==
    \/ FindStat(t) \/ CreateStat(t) \/ Registered(t) \/ UseStat(t) \/ ReleaseStat(t)
    \/ LockMap(t) \/ EraseStat(t) \/ VisitAll(t) \/ Visited(t) \/ ReadStat(t)
    \/ \E c \in Counters : Register(t, c) \/ Unregister(t, c)
    \/ \E s \in Stats : VisitStat(t, s)
=============================================================================
