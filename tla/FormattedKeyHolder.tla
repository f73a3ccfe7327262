------------------------- MODULE FormattedKeyHolder -------------------------
(***************************************************************************)
(* internal::FormattedKeyHolder and DynamicTimeseriesWrapper               *)
(* (fb303/ThreadCachedServiceData.h): subkeys are formatted into keys and  *)
(* prepared (exported) once for all threads, in globalMap_; every thread   *)
(* caches the subkeys it has used with their TLTimeseries in localMap_,    *)
(* and the last one found in front of that.                                *)
(***************************************************************************)
EXTENDS ThreadLocalStatsMap

CONSTANTS Subkeys,      \* tuples of subkeys: the integer 5 is not "5"
          Format,       \* formatKey(): each subkey's key
          MaxCalls      \* bound on the number of calls, of whatever kind

ASSUME FormatAssumption == Format \in [Subkeys -> Keys] /\ None \notin Subkeys

VARIABLES
    globalMap,  \* subkeys in globalMap_
    upgrader,   \* the thread with the upgrade lock of globalMap_, or None
    last,       \* each thread: local.last, a subkey and its object's id
    call,       \* each thread: operation and subkey of its call
    pc,         \* each actor: where it is
    calls,      \* calls made so far
    prepared    \* history: how often each subkey was prepared

globalVars == <<globalMap, upgrader, prepared>>
memoVars == <<globalVars, last, call>>
keyVars == <<memoVars, calls>>

\* formatKey(): subkeys that differ, by type or by where a separator falls, may
\* have one key.
FormatKey(s) == Format[s]

NoItem == [sub |-> None, id |-> 0]
NoCall == [op |-> None, sub |-> None]

Idle(a) == pc[a] = "idle"
Goto(a, where) == pc' = [pc EXCEPT ![a] = where]

\* A thread goes on once the destructors it has to run are through.
Ready(t) == Dying(t) = {} /\ hand[t] = NoKey

Count == calls < MaxCalls /\ calls' = calls + 1
BeginCall(t) == Idle(t) /\ Ready(t) /\ Count

\* getFormattedEntry() found or made the TLTimeseries id for s.
Found(t, s, id) ==
    /\ last' = [last EXCEPT ![t] = [sub |-> s, id |-> id]]
    /\ Goto(t, "use")

\* getFormattedKeySlow(): getTimeseriesSafe() of the key, and a local entry.
FillLocal(t, s) ==
    \E e \in Entries :
        /\ TryInsertLocked(t, FormatKey(s), e)
        /\ object' = Updated(t, FormatKey(s), e, 0)
        /\ SetNamed(t, FormatKey(s), e)
        /\ local' = [local EXCEPT ![t] = Put(@, s, [id |-> e.id])]
        /\ Found(t, s, e.id)
        /\ UNCHANGED <<wrapper, exports, hand, sum, added>>

\* A call of the wrapper: the last item found, or the local map, or the slow
\* way, where getFormattedKeyGlobal() looks under the read lock, then ...
CallWrapper(t, op, s) ==
    /\ BeginCall(t)
    /\ call' = [call EXCEPT ![t] = [op |-> op, sub |-> s]]
    /\ \/ last[t].sub = s /\ Goto(t, "use") /\ UNCHANGED <<mapVars, last>>
       \/ /\ last[t].sub # s
          /\ IF s \in DOMAIN local[t] THEN Found(t, s, local[t][s].id) /\ UNCHANGED mapVars
             ELSE IF s \in globalMap THEN FillLocal(t, s)
             ELSE Goto(t, "upgrade") /\ UNCHANGED <<mapVars, last>>
    /\ UNCHANGED globalVars

\* Mutant: no second look.
LookAgainNot(t) ==
    /\ pc[t] = "upgrade" /\ upgrader = None
    /\ Goto(t, "prepare") /\ upgrader' = t /\ UNCHANGED <<mapVars, last>>
    /\ UNCHANGED <<globalMap, prepared, call, calls>>

\* ... another under the upgrade lock, which one thread can have, ...
LookAgain(t) ==
    /\ pc[t] = "upgrade" /\ upgrader = None
    /\ IF call[t].sub \in globalMap THEN FillLocal(t, call[t].sub) /\ UNCHANGED upgrader
       ELSE Goto(t, "prepare") /\ upgrader' = t /\ UNCHANGED <<mapVars, last>>
    /\ UNCHANGED <<globalMap, prepared, call, calls>>

\* ... where the new key is formatted and exported by prepareKey_, ...
PrepareKey(t) ==
    /\ pc[t] = "prepare"
    /\ exports' = exports \cup ({FormatKey(call[t].sub)} \X Types)
    /\ prepared' = [prepared EXCEPT ![call[t].sub] = @ + 1]
    /\ Goto(t, "emplace")
    /\ UNCHANGED <<object, holdVars, hand, sum, added, globalMap, upgrader, last, call, calls>>

\* ... and entered after the exchange for the write lock.
Emplace(t) ==
    /\ pc[t] = "emplace"
    /\ globalMap' = globalMap \cup {call[t].sub}
    /\ upgrader' = None
    /\ FillLocal(t, call[t].sub)
    /\ UNCHANGED <<prepared, call, calls>>

\* add(): to the cached object.
AddEntry(t) ==
    LET id == last[t].id
    IN /\ object' = Updated(t, FormatKey(call[t].sub), [id |-> id], 1)
       /\ added' = [added EXCEPT ![FormatKey(call[t].sub)] = @ + 1]
       /\ UNCHANGED <<holdVars, exports, hand, sum, last>>

\* addAggregated(): to the object the map has under the key.
AddAggregated(t) == AddNamed(t, FormatKey(call[t].sub), {}) /\ UNCHANGED last

\* exportKey(): finding the entry was all.
ExportKey(t) == UNCHANGED <<mapVars, last>>

\* Mutant: the last item found stays.
EraseFormattedKeyOnly(t, s) ==
    /\ local' = [local EXCEPT ![t] = Restrict(@, DOMAIN @ \ {s})]
    /\ UNCHANGED last

\* eraseFormattedKey(): from the local map, and the last item found with it.
EraseFormattedKey(t, s) ==
    /\ local' = [local EXCEPT ![t] = Restrict(@, DOMAIN @ \ {s})]
    /\ last' = [last EXCEPT ![t] = NoItem]

\* clear(): clearStat() for every type, then the map's entry, then the cache's.
ClearKey(t) ==
    /\ exports' = exports \cup ({FormatKey(call[t].sub)} \X Types)
    /\ ClearTimeseriesSafe(t, {FormatKey(call[t].sub)})
    /\ EraseFormattedKey(t, call[t].sub)
    /\ UNCHANGED <<object, wrapper, hand, sum, added>>

UseEntry(t) ==
    /\ pc[t] = "use"
    /\ \/ call[t].op = "add" /\ AddEntry(t)
       \/ call[t].op = "addAggregated" /\ AddAggregated(t)
       \/ call[t].op = "exportKey" /\ ExportKey(t)
       \/ call[t].op = "clear" /\ ClearKey(t)
    /\ Goto(t, "idle")
    /\ call' = [call EXCEPT ![t] = NoCall]
    /\ UNCHANGED <<globalVars, calls>>

KeySteps(t) == LookAgain(t) \/ PrepareKey(t) \/ Emplace(t) \/ UseEntry(t)
=============================================================================
