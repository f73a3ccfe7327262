----------------------------- MODULE ServiceData ----------------------------
(***************************************************************************)
(* ServiceData (fb303/ServiceData.cpp): flat counters, the timeseries of   *)
(* ExportedStatMap and the quantile stats of QuantileStatMap, and the      *)
(* operations that go through all of them.                                 *)
(***************************************************************************)
EXTENDS ExportedStatMap, QuantileStatMap

CONSTANTS MaxResets   \* bound on the resetAllData() calls

ASSUME ResetAssumption == MaxResets \in Nat

VARIABLES flat,     \* counters_: the value of each flat counter, or None
          flatOwed, \* history: increments of a counter since it was set or cleared
          resets    \* number of resetAllData() calls

flatVars == <<flat, flatOwed, resets>>

vars == <<call, calls, statVars, quantileVars, flatVars>>

Init ==
    /\ call = [t \in Threads |-> Idle]
    /\ calls = 0
    /\ StatInit /\ QuantileInit
    /\ flat = [k \in Names |-> None]
    /\ flatOwed = [k \in Names |-> 0]
    /\ resets = 0

-----------------------------------------------------------------------------
(***************************************************************************)
(* incrementCounter(), setCounter() and clearCounter()                     *)
(***************************************************************************)
ModifyCounter(t, k, op) == Begin(t, op, "tryCounter", k, {}) /\ UNCHANGED flatVars

\* The function applied to the value: add one, or store zero.
Modified(op, value) == IF op = "increment" THEN value + 1 ELSE 0

ApplyTo(t, value) ==
    LET k == call[t].name
    IN  /\ flat' = [flat EXCEPT ![k] = Modified(call[t].op, value)]
        /\ flatOwed' = [flatOwed EXCEPT ![k] = Modified(call[t].op, @)]
        /\ Return(t)

\* modifyCounter(): under the shared lock, if the counter is there
TryCounter(t) ==
    LET k == call[t].name
    IN  /\ At(t, "tryCounter")
        /\ \/ flat[k] # None /\ ApplyTo(t, flat[k])
           \/ flat[k] = None /\ Goto(t, "upsertCounter") /\ UNCHANGED <<flat, flatOwed>>
        /\ UNCHANGED <<calls, resets>>

\* Mutant: the candidate entry replaces one that has come up meanwhile.
UpsertCounterReplaces(t) ==
    /\ At(t, "upsertCounter")
    /\ ApplyTo(t, 0)
    /\ UNCHANGED <<calls, resets>>

\* modifyCounter(): under the exclusive lock, a zero entry unless there is one
UpsertCounter(t) ==
    LET k == call[t].name
    IN  /\ At(t, "upsertCounter")
        /\ ApplyTo(t, IF flat[k] = None THEN 0 ELSE flat[k])
        /\ UNCHANGED <<calls, resets>>

ClearCounter(t, k) ==
    /\ At(t, "idle") /\ calls < MaxCalls /\ flat[k] # None
    /\ calls' = calls + 1
    /\ flat' = [flat EXCEPT ![k] = None]
    /\ flatOwed' = [flatOwed EXCEPT ![k] = 0]
    /\ UNCHANGED <<call, resets>>

FlatCall(t) ==
    \E k \in Names :
        ClearCounter(t, k) \/ \E op \in {"increment", "set"} : ModifyCounter(t, k, op)

FlatStep(t) == TryCounter(t) \/ UpsertCounter(t)

-----------------------------------------------------------------------------
(***************************************************************************)
(* flushAllData(), zeroStats() and resetAllData(), part by part.           *)
(***************************************************************************)
FlushAllData(t) ==
    Begin(t, "flush", "visitAll", None, {}) /\ UNCHANGED <<statVars, quantileVars, flatVars>>

ZeroStats(t) ==
    Begin(t, "zero", "zeroFlat", None, {}) /\ UNCHANGED <<statVars, quantileVars, flatVars>>

\* Every flat counter is set to zero; then clearAllStats()
ZeroFlat(t) ==
    /\ At(t, "zeroFlat")
    /\ flat' = [k \in Names |-> IF flat[k] = None THEN None ELSE 0]
    /\ flatOwed' = [k \in Names |-> 0]
    /\ Goto(t, "visitAll")
    /\ UNCHANGED <<calls, resets, statVars, quantileVars>>

ResetAllData(t) ==
    /\ resets < MaxResets
    /\ Begin(t, "reset", "resetFlat", None, {})
    /\ resets' = resets + 1
    /\ UNCHANGED <<statVars, quantileVars, flat, flatOwed>>

ResetFlat(t) ==
    /\ At(t, "resetFlat")
    /\ flat' = [k \in Names |-> None]
    /\ flatOwed' = [k \in Names |-> 0]
    /\ Goto(t, "resetStats")
    /\ UNCHANGED <<calls, resets, statVars, quantileVars>>

\* statsMap_.forgetAllStats()
ResetStats(t) ==
    /\ At(t, "resetStats") /\ writer = None
    /\ Forget(Names)
    /\ Goto(t, "resetQuantiles")
    /\ UNCHANGED <<calls, writer, made, samples, dynamic, asked, stale,
                   quantileVars, flatVars>>

\* quantileMap_.forgetAll()
ResetQuantiles(t) ==
    /\ At(t, "resetQuantiles")
    /\ bases' = [n \in Names |-> None]
    /\ keys' = [k \in Keys |-> None]
    /\ forgotten' = forgotten \cup ({bases[n] : n \in Names} \ {None})
    /\ call' = [call EXCEPT ![t].pc = "clearCounters", ![t].todo = Counters]
    /\ UNCHANGED <<calls, offered, defsOf, statVars, flatVars>>

\* dynamicCounters_.clear(): one counter, once nobody runs its callback
ClearDynamic(t, c) ==
    /\ At(t, "clearCounters") /\ c \in call[t].todo
    /\ \A u \in Threads : ~(At(u, "read") /\ call[u].types = {c})
    /\ dynamic' = [dynamic EXCEPT ![c] = None]
    /\ call' = [call EXCEPT ![t].todo = @ \ {c}]
    /\ UNCHANGED <<calls, statMap, writer, made, samples, asked, owed, stale, raced,
                   quantileVars, flatVars>>

ResetDone(t) ==
    /\ At(t, "clearCounters") /\ call[t].todo = {}
    /\ stale' = {}
    /\ Return(t)
    /\ UNCHANGED <<calls, statMap, writer, made, samples, dynamic, asked, owed, raced,
                   quantileVars, flatVars>>

AllCall(t) == FlushAllData(t) \/ ZeroStats(t) \/ ResetAllData(t)

AllStep(t) ==
    \/ ZeroFlat(t) \/ ResetFlat(t) \/ ResetStats(t) \/ ResetQuantiles(t) \/ ResetDone(t)
    \/ \E c \in Counters : ClearDynamic(t, c)

-----------------------------------------------------------------------------
Step(t) ==
    \/ StatStep(t) /\ UNCHANGED <<quantileVars, flatVars>>
    \/ QuantileStep(t) /\ UNCHANGED <<statVars, flatVars>>
    \/ FlatStep(t) /\ UNCHANGED <<statVars, quantileVars>>
    \/ AllStep(t)

Call(t) ==
    \/ StatCall(t) /\ UNCHANGED <<quantileVars, flatVars>>
    \/ QuantileCall(t) /\ UNCHANGED <<statVars, flatVars>>
    \/ FlatCall(t) /\ UNCHANGED <<statVars, quantileVars>>
    \/ AllCall(t)

Next == \E t \in Threads : Call(t) \/ Step(t)

Spec == Init /\ [][Next]_vars

-----------------------------------------------------------------------------
(***************************************************************************)
(* Properties.                                                             *)
(***************************************************************************)
CallType ==
    [pc : {"idle", "find", "create", "register", "use", "hold", "lockMap",
           "unregister", "visitAll", "visit", "read", "getQuantile",
           "checkQuantile", "insertQuantile", "addQuantile", "tryCounter",
           "upsertCounter", "zeroFlat", "resetFlat", "resetStats",
           "resetQuantiles", "clearCounters"},
     op : {None, "add", "clear", "lock", "export", "unexport", "flush", "zero",
           "reset", "read", "quantile", "increment", "set"},
     name : Names \cup {None},
     types : SUBSET (Types \cup Defs \cup Counters),
     item : Stats \cup {None},
     todo : SUBSET Counters, visit : SUBSET Stats,
     waitFor : SUBSET Threads]

TypeOK ==
    /\ call \in [Threads -> CallType]
    /\ calls \in 0 .. MaxCalls /\ resets \in 0 .. MaxResets
    /\ statMap \in [Names -> (1 .. made) \cup {None}]
    /\ writer \in Threads \cup {None}
    /\ made \in 0 .. MaxCalls /\ offered \in 0 .. MaxCalls
    /\ samples \in [Stats -> Nat] /\ owed \in [Names -> Nat]
    /\ dynamic \in [Counters -> (1 .. made) \cup {None}]
    /\ asked \in [Stats -> SUBSET Types]
    /\ stale \subseteq Names /\ raced \subseteq Names
    /\ bases \in [Names -> (1 .. offered) \cup {None}]
    /\ keys \in [Keys -> (1 .. offered) \cup {None}]
    /\ defsOf \in [Stats -> SUBSET Defs]
    /\ forgotten \subseteq 1 .. offered
    /\ flat \in [Names -> Nat \cup {None}] /\ flatOwed \in [Names -> Nat]

(***************************************************************************)
(* Unless a name was removed while it was being exported, or forgotten     *)
(* with its counters in place as forgetStatsFor() documents, its counters  *)
(* show the stat that is in the map, with all the values added to the name *)
(* by whichever threads raced to create it, and a name that is not in the  *)
(* map has no counters (getStatPtrNoExport()'s two lookups,                *)
(* registerCallback(overwrite = false), unExportStatAll(), resetAllData()).*)
(***************************************************************************)
CountersShowUpdates ==
    (~Resetting /\ \A t \in Threads : ~At(t, "unregister")) =>
        \A n \in Names \ (stale \cup raced \cup Exporting) :
            \A y \in Types :
                LET s     == statMap[n]
                    shown == dynamic[<<n, y>>]
                IN  /\ shown \in {None, s}
                    /\ s # None => /\ samples[s] = owed[n]
                                   /\ y \in asked[s] => shown = s

(***************************************************************************)
(* Everyone who asked for a quantile stat of one name adds to the same     *)
(* stat, the one that is exported, until it is forgotten: a stat that was  *)
(* made but lost the race to be registered is never handed out.  And map   *)
(* agrees with bases: the keys are exactly those of the registered stats   *)
(* and refer to them, also when a name comes back with other statistics    *)
(* after forgetStatsFor().                                                 *)
(***************************************************************************)
QuantilesShared ==
    /\ \A t \in Threads : At(t, "addQuantile") =>
          call[t].item \in {bases[call[t].name]} \cup forgotten
    /\ \A n \in Names, d \in Defs :
          keys[<<n, d>>] = IF bases[n] # None /\ d \in defsOf[bases[n]]
                           THEN bases[n] ELSE None

(***************************************************************************)
(* A flat counter holds the sum of what was added since it was set, zeroed *)
(* or cleared: no increment is lost when two threads find the counter      *)
(* absent and both insert it (modifyCounter()).                            *)
(***************************************************************************)
IncrementsKept == \A k \in Names : flat[k] \in {None, flatOwed[k]}

(***************************************************************************)
(* As long as a call is under way some call can go on: removals wait for   *)
(* callbacks, and walks over the stats wait for their locks, with the map  *)
(* locked, but no callback and no holder of a stat needs the map.  A call  *)
(* has no loop without an end, so all calls return.                        *)
(***************************************************************************)
NoDeadlock ==
    (\E t \in Threads : ~At(t, "idle")) => \E t \in Threads : ENABLED Step(t)
=============================================================================
