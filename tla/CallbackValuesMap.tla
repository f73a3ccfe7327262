------------------------- MODULE CallbackValuesMap --------------------------
(***************************************************************************)
(* CallbackValuesMap<T> (fb303/CallbackValuesMap.h, -inl.h): names are     *)
(* spread over shards, each a set of CallbackEntry under a shared lock;    *)
(* an entry guards its callback with a lock of its own, held shared while  *)
(* the callback runs.                                                      *)
(*                                                                         *)
(* The critical sections of a shard lock are single steps except clear()'s,*)
(* which waits for entries inside it.  A callback may itself read another  *)
(* name of the map.                                                        *)
(***************************************************************************)
EXTENDS Naturals, FiniteSets

CONSTANTS Threads,     \* threads that call the map
          Names,       \* names of callbacks
          NumShards,   \* kNumShards
          ShardOf(_),  \* getShard()
          ReadBy(_),   \* the name a name's callback reads, or None
          MaxEntries,  \* bound on the CallbackEntry objects made
          MaxReads,    \* bound on the getValue() and getValues() calls
          MaxClears,   \* bound on the clear() calls
          None

ASSUME ShardAssumption ==
    /\ NumShards \in Nat \ {0}
    /\ \A n \in Names : ShardOf(n) \in 1 .. NumShards
    /\ \A n \in Names : ReadBy(n) \in (Names \ {n}) \cup {None}
    /\ None \notin Threads \cup Names \cup Nat
    /\ IsFiniteSet(Threads)
    /\ {MaxEntries, MaxReads, MaxClears} \subseteq Nat

Entries == 1 .. MaxEntries
Shards  == 1 .. NumShards

VARIABLES
    map,       \* each name: its entry in the shard's set, or None
    made,      \* number of entries made; the entries are 1 .. made
    nameOf,    \* each entry: name_
    callback,  \* each entry: whether callback_ holds a function
    locked,    \* each shard: the thread inside clear() that holds it, or None
    call,      \* each thread: its call, with the fields of Idle
    steady,    \* history: names registered ever since the thread's call began
    gone,      \* history: entries whose removal has returned
    reads, clears

vars == <<map, made, nameOf, callback, locked, call, steady, gone, reads, clears>>

entryVars == <<made, nameOf, callback>>
history   == <<steady, gone>>
bounds    == <<reads, clears>>

Idle == [pc |-> "idle",        \* where it is
         name |-> None,        \* arguments
         overwrite |-> FALSE,
         shard |-> 1,          \* the shard clear() or getValues() is at
         todo |-> {},          \* entries it still has to clear or call
         entry |-> None,       \* the entry it is at
         inner |-> None,       \* the entry that entry's callback is reading
         output |-> {},        \* names read so far
         dropped |-> {}]       \* entries clear() has cleared

Init ==
    /\ map = [n \in Names |-> None]
    /\ made = 0
    /\ nameOf = [e \in Entries |-> None]
    /\ callback = [e \in Entries |-> FALSE]
    /\ locked = [i \in Shards |-> None]
    /\ call = [t \in Threads |-> Idle]
    /\ steady = [t \in Threads |-> {}]
    /\ gone = {} /\ reads = 0 /\ clears = 0

At(t, label) == call[t].pc = label

Goto(t, label) == call' = [call EXCEPT ![t].pc = label]

Return(t) == call' = [call EXCEPT ![t] = Idle]

\* No clear() is inside the shard of name n.
Free(n) == locked[ShardOf(n)] = None

\* The entries in the set of shard i.
InShard(i) == {map[n] : n \in {m \in Names : ShardOf(m) = i /\ map[m] # None}}

\* Threads that hold an entry's lock shared: they run its callback.
Readers(e) ==
    {t \in Threads : /\ call[t].pc \in {"run", "innerRun"}
                     /\ e \in {call[t].entry, call[t].inner}}

\* Names that stop being registered are no longer steady for anyone.
Unsteady(names) == steady' = [t \in Threads |-> steady[t] \ names]

-----------------------------------------------------------------------------
(***************************************************************************)
(* registerCallback(name, cob, overwrite)                                  *)
(***************************************************************************)
RegisterCallback(t, n, ow) ==
    /\ At(t, "idle")
    /\ made + Cardinality({u \in Threads : call[u].pc \in {"check", "upsert"}})
          < MaxEntries
    /\ call' = [call EXCEPT ![t].pc = IF ow THEN "upsert" ELSE "check",
                            ![t].name = n, ![t].overwrite = ow]
    /\ UNCHANGED <<map, entryVars, locked, history, bounds>>

\* !overwrite && rlock()->map.contains(name)
CheckPresent(t) ==
    /\ At(t, "check") /\ Free(call[t].name)
    /\ IF map[call[t].name] # None THEN Return(t) ELSE Goto(t, "upsert")
    /\ UNCHANGED <<map, entryVars, locked, history, bounds>>

\* make_shared<CallbackEntry>(name, cob), put in place of the name's old entry
PutEntry(n) ==
    /\ made' = made + 1
    /\ nameOf' = [nameOf EXCEPT ![made'] = n]
    /\ map' = [map EXCEPT ![n] = made']

\* Mutant: the name is not looked up again under the upgrade lock.
UpsertUnchecked(t) ==
    /\ At(t, "upsert") /\ Free(call[t].name)
    /\ PutEntry(call[t].name)
    /\ callback' = [callback EXCEPT ![made'] = TRUE]
    /\ Return(t)
    /\ UNCHANGED <<locked, history, bounds>>

\* Mutant: the entry that is replaced is cleared, as unregisterCallback() does.
UpsertClears(t) ==
    /\ At(t, "upsert") /\ Free(call[t].name)
    /\ call[t].overwrite \/ map[call[t].name] = None
    /\ PutEntry(call[t].name)
    /\ callback' = [e \in Entries |->
                      e = made' \/ (callback[e] /\ e # map[call[t].name])]
    /\ Return(t)
    /\ UNCHANGED <<locked, history, bounds>>

\* Under the upgrade lock, then the write lock.  The entry that is replaced
\* leaves the set but is not cleared.
Upsert(t) ==
    LET n == call[t].name
    IN  /\ At(t, "upsert") /\ Free(n)
        /\ \/ /\ ~call[t].overwrite /\ map[n] # None
              /\ UNCHANGED <<map, entryVars>>
           \/ /\ call[t].overwrite \/ map[n] = None
              /\ PutEntry(n)
              /\ callback' = [callback EXCEPT ![made'] = TRUE]
        /\ Return(t)
        /\ UNCHANGED <<locked, history, bounds>>

-----------------------------------------------------------------------------
(***************************************************************************)
(* unregisterCallback(name)                                                *)
(***************************************************************************)
UnregisterCallback(t, n) ==
    /\ At(t, "idle")
    /\ call' = [call EXCEPT ![t].pc = "erase", ![t].name = n]
    /\ UNCHANGED <<map, entryVars, locked, history, bounds>>

\* Mutant: the shard's write lock is kept while the entry is cleared.
EraseEntryKeepsLock(t) ==
    LET n == call[t].name
    IN  /\ At(t, "erase") /\ Free(n) /\ map[n] # None
        /\ call' = [call EXCEPT ![t].pc = "clearEntry", ![t].entry = map[n]]
        /\ map' = [map EXCEPT ![n] = None]
        /\ locked' = [locked EXCEPT ![ShardOf(n)] = t]
        /\ Unsteady({n})
        /\ UNCHANGED <<entryVars, gone, bounds>>

\* Under the write lock: take the entry out of the set, or return false.
EraseEntry(t) ==
    LET n == call[t].name
    IN  /\ At(t, "erase") /\ Free(n)
        /\ \/ map[n] = None /\ Return(t)
           \/ /\ map[n] # None
              /\ call' = [call EXCEPT ![t].pc = "clearEntry",
                                      ![t].entry = map[n]]
        /\ map' = [map EXCEPT ![n] = None]
        /\ Unsteady({n})
        /\ UNCHANGED <<entryVars, locked, gone, bounds>>

\* Mutant: the callback is dropped without waiting for the entry's lock.
ClearEntryUnlocked(t) ==
    /\ At(t, "clearEntry")
    /\ callback' = [callback EXCEPT ![call[t].entry] = FALSE]
    /\ gone' = gone \cup {call[t].entry}
    /\ Return(t)
    /\ UNCHANGED <<map, made, nameOf, locked, steady, bounds>>

\* callback->clear(), once nobody runs the callback; then return true.
ClearEntry(t) ==
    /\ At(t, "clearEntry")
    /\ Readers(call[t].entry) = {}
    /\ callback' = [callback EXCEPT ![call[t].entry] = FALSE]
    /\ gone' = gone \cup {call[t].entry}
    /\ Return(t)
    /\ UNCHANGED <<map, made, nameOf, locked, steady, bounds>>

-----------------------------------------------------------------------------
(***************************************************************************)
(* clear(): shard after shard, its entries are cleared under its lock.     *)
(***************************************************************************)
Clear(t) ==
    /\ At(t, "idle") /\ clears < MaxClears
    /\ clears' = clears + 1
    /\ Goto(t, "lockShard")
    /\ UNCHANGED <<map, entryVars, locked, history, reads>>

LockShard(t) ==
    LET i == call[t].shard
    IN  /\ At(t, "lockShard") /\ locked[i] = None
        /\ locked' = [locked EXCEPT ![i] = t]
        /\ call' = [call EXCEPT ![t].pc = "clearShard", ![t].todo = InShard(i)]
        /\ Unsteady({n \in Names : ShardOf(n) = i})
        /\ UNCHANGED <<map, entryVars, gone, bounds>>

\* entry->clear()
ClearShardEntry(t, e) ==
    /\ At(t, "clearShard") /\ e \in call[t].todo
    /\ Readers(e) = {}
    /\ callback' = [callback EXCEPT ![e] = FALSE]
    /\ call' = [call EXCEPT ![t].todo = @ \ {e}, ![t].dropped = @ \cup {e}]
    /\ UNCHANGED <<map, made, nameOf, locked, history, bounds>>

\* cachedClearStrings(), release the lock; next shard or return.
EmptyShard(t) ==
    LET i == call[t].shard
    IN  /\ At(t, "clearShard") /\ call[t].todo = {}
        /\ map' = [n \in Names |-> IF ShardOf(n) = i THEN None ELSE map[n]]
        /\ locked' = [locked EXCEPT ![i] = None]
        /\ \/ /\ i < NumShards
              /\ call' = [call EXCEPT ![t].pc = "lockShard", ![t].shard = i + 1]
              /\ UNCHANGED gone
           \/ /\ i = NumShards
              /\ gone' = gone \cup call[t].dropped
              /\ Return(t)
        /\ UNCHANGED <<entryVars, steady, bounds>>

-----------------------------------------------------------------------------
(***************************************************************************)
(* getValue(name) and getValues(): copy entries under the shard lock, call *)
(* them after it is released.                                              *)
(***************************************************************************)
BeginRead(t, n, label, names) ==
    /\ At(t, "idle") /\ reads < MaxReads
    /\ reads' = reads + 1
    /\ call' = [call EXCEPT ![t].pc = label, ![t].name = n]
    /\ steady' = [steady EXCEPT ![t] = {m \in names : map[m] # None /\ Free(m)}]
    /\ UNCHANGED <<map, entryVars, locked, gone, clears>>

GetValue(t, n) == BeginRead(t, n, "lookup", {n})

GetValues(t) == BeginRead(t, None, "copy", Names)

\* getCallback(name)
Lookup(t) ==
    LET n == call[t].name
    IN  /\ At(t, "lookup") /\ Free(n)
        /\ call' = [call EXCEPT ![t].pc = "invoke",
                                ![t].todo = {map[n]} \ {None}]
        /\ UNCHANGED <<map, entryVars, locked, history, bounds>>

\* The entries of one shard, under its lock.
CopyShard(t) ==
    LET i == call[t].shard
    IN  /\ At(t, "copy") /\ locked[i] = None
        /\ call' = [call EXCEPT
                      ![t].todo = @ \cup InShard(i),
                      ![t].shard = IF i < NumShards THEN i + 1 ELSE i,
                      ![t].pc = IF i < NumShards THEN "copy" ELSE "invoke"]
        /\ UNCHANGED <<map, entryVars, locked, history, bounds>>

\* entry->getValue(): take the entry's lock shared, look for the callback.
Invoke(t, e) ==
    /\ At(t, "invoke") /\ e \in call[t].todo
    /\ \/ /\ callback[e]
          /\ call' = [call EXCEPT ![t].todo = @ \ {e}, ![t].entry = e,
                                  ![t].pc = "run"]
       \/ /\ ~callback[e]
          /\ call' = [call EXCEPT ![t].todo = @ \ {e}]
    /\ UNCHANGED <<map, entryVars, locked, history, bounds>>

\* The callback calls getValue() on another name, whose callback may be gone.
InnerRead(t) ==
    LET n == ReadBy(nameOf[call[t].entry])
    IN  /\ At(t, "run") /\ n # None /\ Free(n)
        /\ call' = [call EXCEPT ![t].pc = "innerRun",
                                ![t].inner = IF map[n] # None /\ callback[map[n]]
                                             THEN map[n] ELSE None]
        /\ UNCHANGED <<map, entryVars, locked, history, bounds>>

\* The callback returns its value and the entry's lock is released.
CallbackReturns(t) ==
    LET n == nameOf[call[t].entry]
    IN  /\ \/ At(t, "run") /\ ReadBy(n) = None
           \/ At(t, "innerRun")
        /\ call' = [call EXCEPT ![t].pc = "invoke", ![t].entry = None,
                                ![t].inner = None, ![t].output = @ \cup {n}]
        /\ UNCHANGED <<map, entryVars, locked, history, bounds>>

ReadReturns(t) ==
    /\ At(t, "invoke") /\ call[t].todo = {}
    /\ Return(t)
    /\ steady' = [steady EXCEPT ![t] = {}]
    /\ UNCHANGED <<map, entryVars, locked, gone, bounds>>

-----------------------------------------------------------------------------
WriteStep(t) == \/ CheckPresent(t) \/ Upsert(t) \/ EraseEntry(t) \/ ClearEntry(t)
                \/ LockShard(t) \/ EmptyShard(t)
                \/ \E e \in Entries : ClearShardEntry(t, e)

ReadStep(t) == \/ Lookup(t) \/ CopyShard(t) \/ ReadReturns(t)
               \/ CallbackReturns(t) \/ InnerRead(t)
               \/ \E e \in Entries : Invoke(t, e)

Step(t) == WriteStep(t) \/ ReadStep(t)

Call(t) ==
    \/ \E n \in Names :
          \/ \E ow \in BOOLEAN : RegisterCallback(t, n, ow)
          \/ map[n] # None /\ UnregisterCallback(t, n)
          \/ GetValue(t, n)
    \/ GetValues(t)
    \/ Clear(t)

Next == \E t \in Threads : Step(t) \/ Call(t)

Spec == Init /\ [][Next]_vars

-----------------------------------------------------------------------------
(***************************************************************************)
(* Properties.                                                             *)
(***************************************************************************)
CallType ==
    [pc : {"idle", "check", "upsert", "erase", "clearEntry", "lockShard",
           "clearShard", "lookup", "copy", "invoke", "run", "innerRun"},
     name : Names \cup {None}, overwrite : BOOLEAN, shard : Shards,
     todo : SUBSET Entries, entry : Entries \cup {None},
     inner : Entries \cup {None}, output : SUBSET Names,
     dropped : SUBSET Entries]

TypeOK ==
    /\ map \in [Names -> (1 .. made) \cup {None}]
    /\ made \in 0 .. MaxEntries
    /\ nameOf \in [Entries -> Names \cup {None}]
    /\ callback \in [Entries -> BOOLEAN]
    /\ locked \in [Shards -> Threads \cup {None}]
    /\ call \in [Threads -> CallType]
    /\ steady \in [Threads -> SUBSET Names]
    /\ gone \subseteq Entries
    /\ reads \in Nat /\ clears \in Nat

(***************************************************************************)
(* Once unregisterCallback() or clear() has returned, the callback it      *)
(* removed is not running and never runs again, although a reader may have *)
(* copied its entry out of the map beforehand (unregisterCallback() clears *)
(* the entry after releasing the lock; CallbackEntry::getValue()).         *)
(***************************************************************************)
NoCallAfterRemoval == \A e \in gone : Readers(e) = {} /\ ~callback[e]

(***************************************************************************)
(* A name that is registered before getValue() or getValues() starts and   *)
(* is not removed until it returns is in the output, even while            *)
(* registerCallback() keeps replacing its entry: replacement under one     *)
(* write lock, which leaves the old callback usable, makes no gap.         *)
(***************************************************************************)
SteadyNamesRead ==
    \A t \in Threads :
        (At(t, "invoke") /\ call[t].todo = {}) => steady[t] \subseteq call[t].output

(***************************************************************************)
(* registerCallback(overwrite = false) leaves "the old callback in place": *)
(* an entry only gives way to another in a call that asked for it, however *)
(* the unlocked check and the second lookup interleave with other writers. *)
(***************************************************************************)
KeptUnlessOverwritten ==
    [][\A n \in Names :
          (map[n] # None /\ map'[n] \notin {None, map[n]}) =>
              \E t \in Threads : /\ At(t, "upsert") /\ ~At(t, "upsert")'
                                 /\ call[t].name = n /\ call[t].overwrite]_vars

(***************************************************************************)
(* As long as a call is under way some call can go on, also when callbacks *)
(* read the map and are being removed at the time, as the test             *)
(* DoubleDynamicCounterDeadlock expects: removals wait for callbacks only  *)
(* after they have unlocked the shard.  A call has no loop without end, so *)
(* all calls return.  (clear() keeps the shard locked: it holds as long as *)
(* no callback reads a name of its own shard.)                             *)
(***************************************************************************)
NoDeadlock ==
    (\E t \in Threads : call[t].pc # "idle") => \E t \in Threads : ENABLED Step(t)
=============================================================================
