--------------------------- MODULE CallbackProofs ---------------------------
(***************************************************************************)
(* Proofs about CallbackValuesMap, for any threads, names and shards, and  *)
(* (at the end) about the lookups by regex in its shards, for any          *)
(* addresses, keys and patterns.                                           *)
(*                                                                         *)
(* The argument is about entries: one that has left the map never comes    *)
(* back to it, and one whose callback was dropped never gets one again, so *)
(* a copy of it in the hands of a reader is harmless.                      *)
(***************************************************************************)
EXTENDS CallbackValuesMap, RegexUtil, FiniteSetTheorems, TLAPS

Reading == {"lookup", "copy", "invoke", "run", "innerRun"}
Running == {"run", "innerRun"}
Making  == {"check", "upsert"}

\* What a call holds at each place.
CallOK(c) ==
    /\ c.pc = "idle" => c = Idle
    /\ c.inner # None => c.pc = "innerRun"
    /\ c.pc \in Making \cup {"erase", "lookup"} => c.name \in Names
    /\ c.pc \in Making \cup {"erase", "lookup", "lockShard"} => c.todo = {}
    /\ c.pc \in Running \cup {"clearEntry"} => c.entry # None
CallInv == \A t \in Threads : CallOK(call[t])

\* Calls that may still make an entry.
Makers == {u \in Threads : call[u].pc \in Making}
BoundInv == made + Cardinality(Makers) <= MaxEntries

\* Every entry that is in use has been made, and is in the map under its name.
HoldsMade(c) == /\ c.todo \cup c.dropped \subseteq 1 .. made
                /\ {c.entry, c.inner} \ {None} \subseteq 1 .. made
EntryInv ==
    /\ \A e \in 1 .. made : nameOf[e] \in Names
    /\ \A n \in Names : map[n] # None => nameOf[map[n]] = n
    /\ gone \subseteq 1 .. made
    /\ \A t \in Threads : HoldsMade(call[t])

\* What unregisterCallback() or clear() has cleared stays so.
Dead(e) == Readers(e) = {} /\ ~callback[e]
RemovalInv ==
    /\ \A e \in gone : Dead(e)
    /\ \A t \in Threads : \A e \in call[t].dropped : Dead(e)

\* Inside clear(): the shard is locked and what is left to clear is in it.
ShardInv ==
    \A t \in Threads : At(t, "clearShard") =>
        /\ locked[call[t].shard] = t
        /\ call[t].todo \subseteq InShard(call[t].shard)

\* An entry that is being removed is not in the map; one that is in the map has
\* its callback, but for a shard that is being cleared.
BeingRemoved(e) == \E u \in Threads : At(u, "clearEntry") /\ call[u].entry = e
MapInv ==
    \A n \in Names : map[n] # None =>
        ~BeingRemoved(map[n]) /\ (Free(n) => callback[map[n]])

\* A steady name is registered, and the entry a reader copied for it can still
\* be called: nobody has taken it out in order to clear it.
SteadyOK(c, names) ==
    /\ names # {} => c.pc \in Reading
    /\ \A n \in names : map[n] # None /\ Free(n)
    /\ \A e \in c.todo : nameOf[e] \in names => callback[e] /\ ~BeingRemoved(e)
SteadyInv == \A t \in Threads : SteadyOK(call[t], steady[t])

\* Where a steady name is on its way into the output.
Copied(c, n) == \E e \in c.todo : nameOf[e] = n
CoverOK(c, names) ==
    \A n \in names :
        /\ c.pc = "lookup" => n = c.name
        /\ c.pc = "copy" /\ ShardOf(n) < c.shard => Copied(c, n)
        /\ c.pc = "invoke" => n \in c.output \/ Copied(c, n)
        /\ c.pc \in Running => n \in c.output \/ Copied(c, n) \/ n = nameOf[c.entry]
CoverInv == \A t \in Threads : CoverOK(call[t], steady[t])

IInv == /\ TypeOK /\ CallInv /\ BoundInv /\ EntryInv /\ RemovalInv /\ ShardInv
        /\ MapInv /\ SteadyInv /\ CoverInv

-----------------------------------------------------------------------------
\* A call record has its fields, and other calls are not touched.
LEMMA CallFields ==
  ASSUME NEW c \in CallType
  PROVE  /\ c.name \in Names \cup {None} /\ c.overwrite \in BOOLEAN
         /\ c.shard \in Shards /\ c.todo \subseteq Entries
         /\ c.entry \in Entries \cup {None} /\ c.inner \in Entries \cup {None}
         /\ c.output \subseteq Names /\ c.dropped \subseteq Entries
  BY DEF CallType

\* A call that is replaced leaves the calls of the other threads as they are.
LEMMA CallUpdate ==
  ASSUME TypeOK, NEW t \in Threads, NEW c \in CallType, call' = [call EXCEPT ![t] = c]
  PROVE  /\ call' \in [Threads -> CallType]
         /\ call'[t] = c
         /\ \A u \in Threads \ {t} : call'[u] = call[u]
  BY DEF TypeOK

\* The entries that have been made are entries.
LEMMA MadeEntries ==
  ASSUME TypeOK
  PROVE  made \in Nat /\ 1 .. made \subseteq Entries
  BY ShardAssumption DEF TypeOK, Entries

\* A thread outside any call satisfies what is asked of calls.
LEMMA IdleOK ==
  /\ Idle \in CallType /\ CallOK(Idle) /\ HoldsMade(Idle)
  /\ SteadyOK(Idle, {}) /\ CoverOK(Idle, {})
  /\ Idle.pc = "idle" /\ Idle.todo = {} /\ Idle.dropped = {}
  /\ Idle.entry = None /\ Idle.inner = None
<1>1. 1 \in Shards BY ShardAssumption DEF Shards
<1>2. Idle \in CallType BY <1>1 DEF Idle, CallType
<1> QED BY <1>2 DEF Idle, CallOK, HoldsMade, SteadyOK, CoverOK, Making, Running, Reading

\* No lock is held and nothing is registered.
LEMMA InitIInv == Init => IInv
<1> SUFFICES ASSUME Init PROVE IInv
  OBVIOUS
<1>1. TypeOK
  BY IdleOK, ShardAssumption DEF Init, TypeOK, Entries, Shards
<1>2. CallInv /\ EntryInv BY IdleOK, ShardAssumption DEF Init, CallInv, EntryInv
<1>3. BoundInv
  <2>1. Makers = {} BY IdleOK DEF Init, Makers, Making
  <2> QED BY <2>1, FS_EmptySet, ShardAssumption DEF Init, BoundInv
<1>4. RemovalInv /\ ShardInv /\ MapInv
  BY IdleOK DEF Init, RemovalInv, ShardInv, MapInv, At
<1>5. SteadyInv /\ CoverInv BY IdleOK DEF Init, SteadyInv, CoverInv
<1> QED BY <1>1, <1>2, <1>3, <1>4, <1>5 DEF IInv

\* The number of makers is finite, and grows or shrinks with the caller.
LEMMA MakersCount ==
  ASSUME TypeOK, NEW t \in Threads, NEW c \in CallType, call' = [call EXCEPT ![t] = c]
  PROVE  /\ Cardinality(Makers) \in Nat /\ Cardinality(Makers') \in Nat
         /\ c.pc \notin Making \/ call[t].pc \in Making =>
               Cardinality(Makers') <= Cardinality(Makers)
         /\ c.pc \notin Making /\ call[t].pc \in Making =>
               Cardinality(Makers') = Cardinality(Makers) - 1
         /\ Cardinality(Makers') <= Cardinality(Makers) + 1
<1>1. IsFiniteSet(Makers) /\ Cardinality(Makers) \in Nat
  BY ShardAssumption, FS_Subset, FS_CardinalityType DEF Makers
<1>2. Makers' = IF c.pc \in Making THEN Makers \cup {t} ELSE Makers \ {t}
  BY CallUpdate DEF Makers
<1>3. t \in Makers <=> call[t].pc \in Making BY DEF Makers
<1>4. IsFiniteSet(Makers')
  BY <1>1, <1>2, FS_AddElement, FS_RemoveElement
<1> QED
  BY <1>1, <1>2, <1>3, <1>4, FS_AddElement, FS_RemoveElement, FS_CardinalityType

\* A step that makes no entry and starts no registration keeps to the bound.
LEMMA BoundKept ==
  ASSUME IInv, NEW t \in Threads, NEW c \in CallType, call' = [call EXCEPT ![t] = c],
         made' = made, c.pc \notin Making
  PROVE  BoundInv'
<1>1. /\ Cardinality(Makers) \in Nat /\ Cardinality(Makers') \in Nat
      /\ Cardinality(Makers') <= Cardinality(Makers)
  BY MakersCount DEF IInv
<1>2. made + Cardinality(Makers) <= MaxEntries /\ made \in Nat /\ MaxEntries \in Nat
  BY MadeEntries, ShardAssumption DEF IInv, BoundInv
<1>3. made + Cardinality(Makers') <= MaxEntries BY <1>1, <1>2
<1> QED BY <1>3 DEF BoundInv

-----------------------------------------------------------------------------
(***************************************************************************)
(* A step of t that changes its own call only: map and entries stay.       *)
(***************************************************************************)
LEMMA OwnStep ==
  ASSUME IInv, NEW t \in Threads, NEW c \in CallType, call' = [call EXCEPT ![t] = c],
         UNCHANGED <<map, entryVars, locked, gone>>, reads' \in Nat, clears' \in Nat,
         NEW names \in SUBSET Names, steady' = [steady EXCEPT ![t] = names],
         CallOK(c), HoldsMade(c), SteadyOK(c, names), CoverOK(c, names),
         c.dropped \subseteq call[t].dropped,
         c.pc \notin {"clearEntry", "clearShard"},
         c.pc \in Making => call[t].pc \in Making \/ made + Cardinality(Makers) < MaxEntries,
         c.pc \in Running => \A e \in {c.entry, c.inner} \ {None} :
                                callback[e] \/ t \in Readers(e)
  PROVE  IInv'
<1>1. /\ call' \in [Threads -> CallType] /\ call'[t] = c
      /\ \A u \in Threads \ {t} : call'[u] = call[u]
  BY CallUpdate DEF IInv
<1>2. TypeOK' BY <1>1 DEF IInv, TypeOK, entryVars
<1>3. CallInv' BY <1>1 DEF IInv, CallInv, CallOK
<1>4. BoundInv'
  <2>1. made \in Nat /\ MaxEntries \in Nat BY ShardAssumption DEF IInv, TypeOK
  <2>2. /\ Cardinality(Makers) \in Nat /\ Cardinality(Makers') \in Nat
        /\ c.pc \notin Making \/ call[t].pc \in Making =>
              Cardinality(Makers') <= Cardinality(Makers)
        /\ Cardinality(Makers') <= Cardinality(Makers) + 1
    BY MakersCount DEF IInv
  <2>3. made + Cardinality(Makers) <= MaxEntries BY DEF IInv, BoundInv
  <2>4. made + Cardinality(Makers') <= MaxEntries BY <2>1, <2>2, <2>3
  <2> QED BY <2>4 DEF BoundInv, entryVars
<1>5. EntryInv' BY <1>1 DEF IInv, EntryInv, HoldsMade, entryVars
<1>6. RemovalInv'
  <2>1. ASSUME NEW e \in Entries, Dead(e) PROVE Dead(e)'
    <3>1. t \notin Readers(e)' 
      BY <1>1, <2>1, ShardAssumption DEF Dead, Readers, Running, Entries
    <3>2. Readers(e)' \subseteq Readers(e) \cup {t} BY <1>1 DEF Readers
    <3> QED BY <2>1, <3>1, <3>2 DEF Dead, entryVars
  <2>2. gone \subseteq Entries /\ \A u \in Threads : call[u].dropped \subseteq Entries
    BY CallFields DEF IInv, TypeOK
  <2>3. \A u \in Threads : call'[u].dropped \subseteq call[u].dropped BY <1>1
  <2> QED BY <2>1, <2>2, <2>3 DEF IInv, RemovalInv
<1>7. ShardInv' BY <1>1 DEF IInv, ShardInv, InShard, At
<1>8. \A e : BeingRemoved(e)' => BeingRemoved(e) BY <1>1 DEF BeingRemoved, At
<1>9. MapInv' BY <1>8 DEF IInv, MapInv, Free, entryVars
<1>10. SteadyInv'
  <2> SUFFICES ASSUME NEW u \in Threads PROVE SteadyOK(call[u], steady[u])'
    BY DEF SteadyInv
  <2>1. SteadyOK(call'[u], steady'[u])
    BY <1>1 DEF IInv, SteadyInv, TypeOK
  <2> QED BY <1>8, <2>1 DEF SteadyOK, Free, entryVars
<1>11. CoverInv'
  BY <1>1 DEF IInv, CoverInv, CoverOK, Copied, TypeOK, entryVars
<1> QED BY <1>2, <1>3, <1>4, <1>5, <1>6, <1>7, <1>9, <1>10, <1>11 DEF IInv

\* A call that is not reading gives way to one that is not reading.
LEMMA NotReadingStep ==
  ASSUME IInv, NEW t \in Threads, NEW c \in CallType, call' = [call EXCEPT ![t] = c],
         UNCHANGED <<map, entryVars, locked, history>>, reads' \in Nat, clears' \in Nat,
         call[t].pc \notin Reading,
         CallOK(c), HoldsMade(c), c.dropped \subseteq call[t].dropped,
         c.pc \notin Reading \cup {"clearEntry", "clearShard"},
         c.pc \in Making => call[t].pc \in Making \/ made + Cardinality(Makers) < MaxEntries
  PROVE  IInv'
<1>1. steady[t] = {} BY DEF IInv, SteadyInv, SteadyOK
<1>2. steady' = [steady EXCEPT ![t] = {}] BY <1>1 DEF history, IInv, TypeOK
<1>4. SteadyOK(c, {}) /\ CoverOK(c, {}) BY DEF SteadyOK, CoverOK
<1>5. c.pc \notin Running BY DEF Reading, Running
<1> QED BY <1>2, <1>4, <1>5, OwnStep DEF history

\* The calls begin with the record Idle.
LEMMA FromIdle ==
  ASSUME IInv, NEW t \in Threads, At(t, "idle")
  PROVE  call[t] = Idle /\ steady[t] = {}
  BY IdleOK DEF IInv, CallInv, CallOK, SteadyInv, SteadyOK, Reading, At

\* registerCallback() begins: it has room for the entry it may make.
LEMMA RegisterCallbackIInv ==
  ASSUME IInv, NEW t \in Threads, NEW n \in Names, NEW ow \in BOOLEAN,
         RegisterCallback(t, n, ow)
  PROVE  IInv'
<1> DEFINE label == IF ow THEN "upsert" ELSE "check"
<1>1. label \in Making BY DEF Making
<1>2. call' = [call EXCEPT ![t].pc = label, ![t].name = n, ![t].overwrite = ow]
  BY DEF RegisterCallback
<1> HIDE DEF label
<1> DEFINE c == [Idle EXCEPT !.pc = label, !.name = n, !.overwrite = ow]
<1>3. call' = [call EXCEPT ![t] = c] BY <1>2, FromIdle DEF RegisterCallback, IInv, TypeOK
<1>4. /\ c \in CallType /\ c.pc = label /\ c.name = n /\ c.todo = {}
      /\ c.dropped = {} /\ c.entry = None /\ c.inner = None
  BY <1>1, IdleOK DEF CallType, Making, Idle
<1>5. CallOK(c) /\ HoldsMade(c) BY <1>1, <1>4 DEF CallOK, HoldsMade, Making, Running
<1>6. call[t].pc \notin Reading BY DEF RegisterCallback, At, Reading
<1>7. made + Cardinality(Makers) < MaxEntries
  BY DEF RegisterCallback, Makers, Making
<1> HIDE DEF c
<1> QED
  BY <1>1, <1>3, <1>4, <1>5, <1>6, <1>7, NotReadingStep
  DEF RegisterCallback, IInv, TypeOK, Making, Reading, bounds

\* unregisterCallback() begins.
LEMMA UnregisterCallbackIInv ==
  ASSUME IInv, NEW t \in Threads, NEW n \in Names, UnregisterCallback(t, n)
  PROVE  IInv'
<1> DEFINE c == [Idle EXCEPT !.pc = "erase", !.name = n]
<1>3. call' = [call EXCEPT ![t] = c] BY FromIdle DEF UnregisterCallback, IInv, TypeOK
<1>4. /\ c \in CallType /\ c.pc = "erase" /\ c.name = n /\ c.todo = {}
      /\ c.dropped = {} /\ c.entry = None /\ c.inner = None
  BY IdleOK DEF CallType, Idle
<1>5. CallOK(c) /\ HoldsMade(c) BY <1>4 DEF CallOK, HoldsMade, Making, Running
<1>6. call[t].pc \notin Reading BY DEF UnregisterCallback, At, Reading
<1> HIDE DEF c
<1> QED
  BY <1>3, <1>4, <1>5, <1>6, NotReadingStep
  DEF UnregisterCallback, IInv, TypeOK, Making, Reading, bounds

\* clear() begins, at the first shard.
LEMMA ClearIInv ==
  ASSUME IInv, NEW t \in Threads, Clear(t)
  PROVE  IInv'
<1> DEFINE c == [Idle EXCEPT !.pc = "lockShard"]
<1>3. call' = [call EXCEPT ![t] = c] BY FromIdle DEF Clear, Goto, IInv, TypeOK
<1>4. /\ c \in CallType /\ c.pc = "lockShard" /\ c.todo = {}
      /\ c.dropped = {} /\ c.entry = None /\ c.inner = None
  BY IdleOK DEF CallType, Idle
<1>5. CallOK(c) /\ HoldsMade(c) BY <1>4 DEF CallOK, HoldsMade, Making, Running
<1>6. call[t].pc \notin Reading /\ clears' \in Nat BY DEF Clear, At, Reading, IInv, TypeOK
<1> HIDE DEF c
<1> QED
  BY <1>3, <1>4, <1>5, <1>6, NotReadingStep
  DEF Clear, IInv, TypeOK, Making, Reading

\* A call returns without having touched the map.
LEMMA ReturnStep ==
  ASSUME IInv, NEW t \in Threads, Return(t), call[t].pc \notin Reading,
         UNCHANGED <<map, entryVars, locked, history, bounds>>
  PROVE  IInv'
<1>1. call' = [call EXCEPT ![t] = Idle] BY DEF Return
<1>2. Idle.pc \notin Making \cup Reading \cup {"clearEntry", "clearShard"}
  BY IdleOK DEF Making, Reading
<1> QED BY <1>1, <1>2, IdleOK, NotReadingStep DEF IInv, TypeOK, bounds

\* The unlocked check of registerCallback(), which returns or goes on.
LEMMA CheckPresentIInv ==
  ASSUME IInv, NEW t \in Threads, CheckPresent(t)
  PROVE  IInv'
<1>1. call[t].pc \notin Reading BY DEF CheckPresent, At, Reading
<1>2. CASE Return(t) BY <1>1, <1>2, ReturnStep DEF CheckPresent
<1>3. CASE Goto(t, "upsert")
  <2> DEFINE d == call[t]
             c == [d EXCEPT !.pc = "upsert"]
  <2>1. d \in CallType /\ d.pc = "check" /\ CallOK(d)
    BY DEF CheckPresent, At, IInv, TypeOK, CallInv
  <2>2. call' = [call EXCEPT ![t] = c] BY <1>3 DEF Goto, IInv, TypeOK
  <2> HIDE DEF d
  <2>3. /\ c \in CallType /\ c.pc = "upsert" /\ c.name = d.name /\ c.todo = d.todo
        /\ c.dropped = d.dropped /\ c.entry = d.entry /\ c.inner = d.inner
    BY <2>1 DEF CallType
  <2>4. CallOK(c) BY <2>1, <2>3 DEF CallOK, Making, Running
  <2>5. HoldsMade(c) BY <2>3 DEF IInv, EntryInv, HoldsMade, d
  <2> HIDE DEF c
  <2> QED
    BY <1>1, <2>1, <2>2, <2>3, <2>4, <2>5, NotReadingStep
    DEF CheckPresent, IInv, TypeOK, Making, Reading, bounds, d
<1> QED BY <1>2, <1>3 DEF CheckPresent

-----------------------------------------------------------------------------
\* Readers: the calls of getValue() and getValues().
LEMMA BeginReadIInv ==
  ASSUME IInv, NEW t \in Threads, NEW n \in Names \cup {None}, NEW label,
         NEW names \in SUBSET Names,
         (label = "lookup" /\ n \in Names /\ names = {n}) \/ label = "copy",
         BeginRead(t, n, label, names)
  PROVE  IInv'
<1> DEFINE c == [Idle EXCEPT !.pc = label, !.name = n]
           ns == {m \in names : map[m] # None /\ Free(m)}
<1>1. At(t, "idle") BY DEF BeginRead
<1>2. call' = [call EXCEPT ![t] = c] /\ steady' = [steady EXCEPT ![t] = ns]
  BY <1>1, FromIdle DEF BeginRead, IInv, TypeOK
<1>3. /\ c \in CallType /\ c.pc = label /\ c.name = n /\ c.todo = {} /\ c.shard = 1
      /\ c.dropped = {} /\ c.entry = None /\ c.inner = None
  BY IdleOK DEF CallType, Idle
<1>4. CallOK(c) /\ HoldsMade(c) BY <1>3 DEF CallOK, HoldsMade, Making, Running
<1>5. SteadyOK(c, ns) BY <1>3 DEF SteadyOK, Reading
<1>6. CoverOK(c, ns) BY <1>3, ShardAssumption DEF CoverOK, Running
<1>7. /\ UNCHANGED <<map, entryVars, locked, gone>> /\ reads' \in Nat /\ clears' \in Nat
      /\ label \notin Making \cup Running \cup {"clearEntry", "clearShard"}
  BY DEF BeginRead, IInv, TypeOK, Making, Running
<1> HIDE DEF c
<1> QED BY <1>2, <1>3, <1>4, <1>5, <1>6, <1>7, OwnStep

\* A step of a reader: what it is steady for stays.
LEMMA ReadStepIs ==
  ASSUME IInv, NEW t \in Threads, NEW c \in CallType, call' = [call EXCEPT ![t] = c],
         UNCHANGED <<map, entryVars, locked, history, bounds>>,
         CallOK(c), HoldsMade(c), SteadyOK(c, steady[t]), CoverOK(c, steady[t]),
         c.dropped = call[t].dropped, c.pc \in Reading,
         c.pc \in Running => \A e \in {c.entry, c.inner} \ {None} :
                                callback[e] \/ t \in Readers(e)
  PROVE  IInv'
<1>1. steady[t] \in SUBSET Names /\ steady' = [steady EXCEPT ![t] = steady[t]]
  BY DEF history, IInv, TypeOK
<1>2. c.pc \notin Making \cup {"clearEntry", "clearShard"} BY DEF Reading, Making
<1>3. UNCHANGED <<map, entryVars, locked, gone>> /\ reads' \in Nat /\ clears' \in Nat
  BY DEF history, bounds, IInv, TypeOK
<1> QED BY <1>1, <1>2, <1>3, OwnStep

\* What is known of the call of a reader before its step.
LEMMA CallKnown ==
  ASSUME IInv, NEW t \in Threads
  PROVE  /\ call[t] \in CallType /\ CallOK(call[t]) /\ HoldsMade(call[t])
         /\ SteadyOK(call[t], steady[t]) /\ CoverOK(call[t], steady[t])
         /\ steady[t] \subseteq Names
  BY DEF IInv, TypeOK, CallInv, EntryInv, SteadyInv, CoverInv

\* getValue() copies the name's entry: if the name is steady, it is there.
LEMMA LookupIInv ==
  ASSUME IInv, NEW t \in Threads, Lookup(t)
  PROVE  IInv'
<1> DEFINE d == call[t]
           n == d.name
           es == {map[n]} \ {None}
           c == [d EXCEPT !.pc = "invoke", !.todo = es]
<1>1. /\ d \in CallType /\ CallOK(d) /\ HoldsMade(d) /\ SteadyOK(d, steady[t])
      /\ CoverOK(d, steady[t]) /\ d.pc = "lookup" /\ n \in Names
  BY CallKnown DEF Lookup, At, CallOK
<1>2. call' = [call EXCEPT ![t] = c] BY DEF Lookup, IInv, TypeOK
<1>3. es \subseteq 1 .. made /\ es \subseteq Entries
  BY <1>1, MadeEntries DEF IInv, TypeOK
<1> HIDE DEF d
<1>4. /\ c \in CallType /\ c.pc = "invoke" /\ c.todo = es /\ c.dropped = d.dropped
      /\ c.entry = d.entry /\ c.inner = d.inner
  BY <1>1, <1>3 DEF CallType
<1>5. CallOK(c) /\ HoldsMade(c)
  BY <1>1, <1>3, <1>4 DEF CallOK, HoldsMade, Making, Running
<1>6. \A e \in es : nameOf[e] = n /\ ~BeingRemoved(e) /\ (Free(n) => callback[e])
  BY <1>1 DEF IInv, EntryInv, MapInv
<1>7. SteadyOK(c, steady[t])
  BY <1>1, <1>4, <1>6 DEF SteadyOK, Reading
<1>8. CoverOK(c, steady[t])
  BY <1>1, <1>4, <1>6 DEF CoverOK, Copied, SteadyOK, Running
<1> HIDE DEF c
<1> QED BY <1>2, <1>4, <1>5, <1>7, <1>8, ReadStepIs DEF Lookup, Reading, Running, d

\* getValues() copies a shard, with the entries of its steady names.
LEMMA CopyShardIInv ==
  ASSUME IInv, NEW t \in Threads, CopyShard(t)
  PROVE  IInv'
<1> DEFINE d == call[t]
           i == d.shard
           next == IF i < NumShards THEN i + 1 ELSE i
           label == IF i < NumShards THEN "copy" ELSE "invoke"
           es == d.todo \cup InShard(i)
           c == [d EXCEPT !.todo = es, !.shard = next, !.pc = label]
<1>1. /\ d \in CallType /\ CallOK(d) /\ HoldsMade(d) /\ SteadyOK(d, steady[t])
      /\ CoverOK(d, steady[t]) /\ d.pc = "copy" /\ i \in Shards /\ locked[i] = None
      /\ d.todo \subseteq Entries /\ steady[t] \subseteq Names
  BY CallKnown, CallFields DEF CopyShard, At
<1>2. InShard(i) \subseteq 1 .. made /\ es \subseteq Entries
  BY <1>1, MadeEntries DEF IInv, TypeOK, InShard
<1>3. next \in Shards /\ label \in {"copy", "invoke"}
  BY <1>1, ShardAssumption DEF Shards
<1>4. \A n \in Names : ShardOf(n) < next \/ label = "invoke" => ShardOf(n) < i \/ ShardOf(n) = i
  BY <1>1, ShardAssumption DEF Shards
<1>5. call' = [call EXCEPT ![t].todo = es, ![t].shard = next, ![t].pc = label]
  BY DEF CopyShard, IInv, TypeOK
<1> HIDE DEF next, label
<1>6. call' = [call EXCEPT ![t] = c] BY <1>5 DEF IInv, TypeOK
<1>7. \A e \in InShard(i) : ~BeingRemoved(e) /\ callback[e]
  BY <1>1 DEF IInv, MapInv, InShard, Free
<1>8. \A n \in Names : ShardOf(n) = i /\ map[n] # None =>
         map[n] \in InShard(i) /\ nameOf[map[n]] = n
  BY DEF InShard, IInv, EntryInv
<1> HIDE DEF d
<1>9. /\ c \in CallType /\ c.pc = label /\ c.todo = es /\ c.dropped = d.dropped
      /\ c.entry = d.entry /\ c.inner = d.inner /\ c.shard = next
  BY <1>1, <1>2, <1>3 DEF CallType
<1>10. CallOK(c) /\ HoldsMade(c)
  BY <1>1, <1>2, <1>3, <1>9 DEF CallOK, HoldsMade, Making, Running
<1>11. SteadyOK(c, steady[t])
  BY <1>1, <1>3, <1>7, <1>9 DEF SteadyOK, Reading
<1>12. CoverOK(c, steady[t])
  BY <1>1, <1>3, <1>4, <1>8, <1>9 DEF CoverOK, Copied, SteadyOK, Running
<1> HIDE DEF c
<1> QED BY <1>3, <1>6, <1>9, <1>10, <1>11, <1>12, ReadStepIs DEF CopyShard, Reading, Running, d

\* An entry is taken up: its callback runs, or it has none and is not steady.
LEMMA InvokeIInv ==
  ASSUME IInv, NEW t \in Threads, NEW e \in Entries, Invoke(t, e)
  PROVE  IInv'
<1> DEFINE d == call[t]
           es == d.todo \ {e}
<1>1. /\ d \in CallType /\ CallOK(d) /\ HoldsMade(d) /\ SteadyOK(d, steady[t])
      /\ CoverOK(d, steady[t]) /\ d.pc = "invoke" /\ e \in d.todo
  BY CallKnown DEF Invoke, At
<1>2. CASE callback[e] /\ call' = [call EXCEPT ![t].todo = @ \ {e}, ![t].entry = e, ![t].pc = "run"]
  <2> DEFINE c == [d EXCEPT !.todo = es, !.entry = e, !.pc = "run"]
  <2>1. call' = [call EXCEPT ![t] = c] BY <1>2 DEF IInv, TypeOK
  <2> HIDE DEF d
  <2>2. /\ c \in CallType /\ c.pc = "run" /\ c.todo = d.todo \ {e} /\ c.entry = e
        /\ c.inner = d.inner /\ c.dropped = d.dropped /\ c.output = d.output
    BY <1>1 DEF CallType
  <2>3. CallOK(c) /\ HoldsMade(c) /\ c.inner = None
    BY <1>1, <2>2, ShardAssumption DEF CallOK, HoldsMade, Making, Running, Entries
  <2>4. SteadyOK(c, steady[t]) BY <1>1, <2>2 DEF SteadyOK, Reading
  <2>5. CoverOK(c, steady[t]) BY <1>1, <2>2 DEF CoverOK, Copied, Running
  <2> HIDE DEF c
  <2> QED BY <1>2, <2>1, <2>2, <2>3, <2>4, <2>5, ReadStepIs DEF Invoke, Reading, d
<1>3. CASE ~callback[e] /\ call' = [call EXCEPT ![t].todo = @ \ {e}]
  <2> DEFINE c == [d EXCEPT !.todo = es]
  <2>1. call' = [call EXCEPT ![t] = c] BY <1>3 DEF IInv, TypeOK
  <2> HIDE DEF d
  <2>2. /\ c \in CallType /\ c.pc = "invoke" /\ c.todo = d.todo \ {e} /\ c.entry = d.entry
        /\ c.inner = d.inner /\ c.dropped = d.dropped /\ c.output = d.output
    BY <1>1 DEF CallType
  <2>3. CallOK(c) /\ HoldsMade(c)
    BY <1>1, <2>2 DEF CallOK, HoldsMade, Making, Running
  <2>4. SteadyOK(c, steady[t]) BY <1>1, <2>2 DEF SteadyOK, Reading
  <2>5. CoverOK(c, steady[t]) BY <1>1, <1>3, <2>2 DEF CoverOK, Copied, Running, SteadyOK
  <2> HIDE DEF c
  <2> QED BY <2>1, <2>2, <2>3, <2>4, <2>5, ReadStepIs DEF Invoke, Reading, Running, d
<1> QED BY <1>2, <1>3 DEF Invoke

\* A callback reads another name of the map.
LEMMA InnerReadIInv ==
  ASSUME IInv, NEW t \in Threads, InnerRead(t)
  PROVE  IInv'
<1> DEFINE d == call[t]
           n == ReadBy(nameOf[d.entry])
           x == IF map[n] # None /\ callback[map[n]] THEN map[n] ELSE None
           c == [d EXCEPT !.pc = "innerRun", !.inner = x]
<1>1. /\ d \in CallType /\ CallOK(d) /\ HoldsMade(d) /\ SteadyOK(d, steady[t])
      /\ CoverOK(d, steady[t]) /\ d.pc = "run" /\ d.entry # None /\ d.entry \in 1 .. made
  BY CallKnown DEF InnerRead, At, CallOK, HoldsMade, Running
<1>2. n \in Names BY <1>1, ShardAssumption DEF InnerRead, IInv, EntryInv
<1>3. x \in (1 .. made) \cup {None} /\ x \in Entries \cup {None} /\ (x # None => callback[x])
  BY <1>2, MadeEntries DEF IInv, TypeOK
<1>4. call' = [call EXCEPT ![t].pc = "innerRun", ![t].inner = x] BY DEF InnerRead
<1> HIDE DEF x
<1>5. call' = [call EXCEPT ![t] = c] BY <1>4 DEF IInv, TypeOK
<1>6. t \in Readers(d.entry) BY <1>1 DEF Readers
<1> HIDE DEF d
<1>7. /\ c \in CallType /\ c.pc = "innerRun" /\ c.todo = d.todo /\ c.entry = d.entry
      /\ c.inner = x /\ c.dropped = d.dropped /\ c.output = d.output
  BY <1>1, <1>3 DEF CallType
<1>8. CallOK(c) /\ HoldsMade(c)
  BY <1>1, <1>3, <1>7 DEF CallOK, HoldsMade, Making, Running
<1>9. SteadyOK(c, steady[t]) BY <1>1, <1>7 DEF SteadyOK, Reading
<1>10. CoverOK(c, steady[t]) BY <1>1, <1>7 DEF CoverOK, Copied, Running
<1> HIDE DEF c
<1> QED BY <1>3, <1>5, <1>6, <1>7, <1>8, <1>9, <1>10, ReadStepIs DEF InnerRead, Reading, d

\* A callback returns and its name is in the output.
LEMMA CallbackReturnsIInv ==
  ASSUME IInv, NEW t \in Threads, CallbackReturns(t)
  PROVE  IInv'
<1> DEFINE d == call[t]
           n == nameOf[d.entry]
           c == [d EXCEPT !.pc = "invoke", !.entry = None, !.inner = None,
                          !.output = d.output \cup {n}]
<1>1. /\ d \in CallType /\ CallOK(d) /\ HoldsMade(d) /\ SteadyOK(d, steady[t])
      /\ CoverOK(d, steady[t]) /\ d.pc \in Running /\ d.entry # None /\ d.entry \in 1 .. made
  BY CallKnown DEF CallbackReturns, At, CallOK, HoldsMade, Running
<1>2. n \in Names BY <1>1 DEF IInv, EntryInv
<1>3. call' = [call EXCEPT ![t] = c] BY DEF CallbackReturns, IInv, TypeOK
<1> HIDE DEF d, n
<1>4. /\ c \in CallType /\ c.pc = "invoke" /\ c.todo = d.todo /\ c.entry = None
      /\ c.inner = None /\ c.dropped = d.dropped /\ c.output = d.output \cup {n}
  BY <1>1, <1>2 DEF CallType
<1>5. CallOK(c) /\ HoldsMade(c)
  BY <1>1, <1>4 DEF CallOK, HoldsMade, Making, Running
<1>6. SteadyOK(c, steady[t]) BY <1>1, <1>4 DEF SteadyOK, Reading
<1>7. CoverOK(c, steady[t]) BY <1>1, <1>4 DEF CoverOK, Copied, Running, n
<1> HIDE DEF c
<1> QED BY <1>3, <1>4, <1>5, <1>6, <1>7, ReadStepIs DEF CallbackReturns, Reading, Running, d

\* A read returns: nothing is steady for a thread outside a read.
LEMMA ReadReturnsIInv ==
  ASSUME IInv, NEW t \in Threads, ReadReturns(t)
  PROVE  IInv'
<1>1. call' = [call EXCEPT ![t] = Idle] /\ steady' = [steady EXCEPT ![t] = {}]
  BY DEF ReadReturns, Return
<1>2. /\ UNCHANGED <<map, entryVars, locked, gone>> /\ reads' \in Nat /\ clears' \in Nat
      /\ Idle.pc \notin Making \cup Running \cup {"clearEntry", "clearShard"}
  BY IdleOK DEF ReadReturns, IInv, TypeOK, Making, Running, bounds
<1> QED BY <1>1, <1>2, IdleOK, OwnStep

-----------------------------------------------------------------------------
\* A new entry is put in the map: its number is new, so nobody holds it and
\* nothing that was removed comes back.
LEMMA UpsertIInv ==
  ASSUME IInv, NEW t \in Threads, Upsert(t)
  PROVE  IInv'
<1> DEFINE n == call[t].name
           e == made + 1
<1>1. /\ call[t].pc = "upsert" /\ n \in Names /\ Free(n) /\ call[t].pc \notin Reading
      /\ steady[t] = {} /\ Return(t)
  BY CallKnown DEF Upsert, At, CallOK, SteadyOK, Making, Reading
<1>2. CASE UNCHANGED <<map, entryVars>>
  BY <1>1, <1>2, ReturnStep DEF Upsert
<1>3. CASE PutEntry(n) /\ callback' = [callback EXCEPT ![made'] = TRUE]
  <2>1. call' = [call EXCEPT ![t] = Idle] BY <1>1 DEF Return
  <2>2. /\ call' \in [Threads -> CallType] /\ call'[t] = Idle
        /\ \A u \in Threads \ {t} : call'[u] = call[u]
    BY <2>1, CallUpdate, IdleOK DEF IInv
  <2>3. /\ Cardinality(Makers') \in Nat /\ Cardinality(Makers) \in Nat
        /\ Cardinality(Makers') = Cardinality(Makers) - 1
    <3>1. call[t].pc \in Making /\ Idle.pc \notin Making BY <1>1, IdleOK DEF Making
    <3> QED BY <2>1, <3>1, MakersCount, IdleOK DEF IInv
  <2>4. made + Cardinality(Makers) <= MaxEntries /\ made \in Nat /\ MaxEntries \in Nat
    BY MadeEntries, ShardAssumption DEF IInv, BoundInv
  <2>5. e \in Entries /\ e \notin 1 .. made /\ e # None /\ 1 .. made' = (1 .. made) \cup {e}
        /\ made' = e
    BY <1>3, <2>3, <2>4, ShardAssumption DEF Entries, PutEntry
  <2>6. /\ map' = [map EXCEPT ![n] = e] /\ nameOf' = [nameOf EXCEPT ![e] = n]
        /\ callback' = [callback EXCEPT ![e] = TRUE]
        /\ UNCHANGED <<locked, gone, steady, reads, clears>>
    BY <1>3, <2>5 DEF PutEntry, Upsert, history, bounds
  <2>7. /\ \A x \in 1 .. made : nameOf'[x] = nameOf[x] /\ callback'[x] = callback[x]
        /\ nameOf'[e] = n /\ callback'[e] = TRUE
        /\ map'[n] = e /\ \A m \in Names \ {n} : map'[m] = map[m]
    BY <1>1, <2>5, <2>6, MadeEntries DEF IInv, TypeOK
  <2>8. TypeOK'
    <3>1. map' \in [Names -> (1 .. made') \cup {None}]
      BY <2>5, <2>6 DEF IInv, TypeOK
    <3>2. made' \in 0 .. MaxEntries BY <2>5, ShardAssumption DEF Entries
    <3> QED BY <1>1, <2>2, <2>6, <3>1, <3>2 DEF IInv, TypeOK
  <2>9. CallInv' BY <2>2, IdleOK DEF IInv, CallInv, CallOK
  <2>10. BoundInv' BY <2>3, <2>4, <2>5 DEF BoundInv
  <2>11. \A u \in Threads : HoldsMade(call'[u])
    BY <2>2, IdleOK DEF IInv, EntryInv
  <2>12. EntryInv'
    <3>1. \A u \in Threads : HoldsMade(call[u])'
      BY <2>5, <2>11 DEF HoldsMade
    <3>2. \A x \in 1 .. made' : nameOf'[x] \in Names
      BY <1>1, <2>5, <2>7 DEF IInv, EntryInv
    <3>3. \A m \in Names : map'[m] # None => nameOf'[map'[m]] = m
      BY <2>7 DEF IInv, EntryInv, TypeOK
    <3> QED BY <2>5, <2>6, <3>1, <3>2, <3>3 DEF IInv, EntryInv
  <2>13. \A x : Readers(x)' \subseteq Readers(x)
    BY <2>2, IdleOK DEF Readers
  <2>14. RemovalInv'
    <3>1. gone \subseteq 1 .. made /\ \A u \in Threads : call'[u].dropped \subseteq 1 .. made
      BY <2>11 DEF IInv, EntryInv, HoldsMade
    <3>2. \A u \in Threads : call'[u].dropped \subseteq call[u].dropped BY <2>2, IdleOK
    <3>3. \A x \in 1 .. made : Dead(x) => Dead(x)' BY <2>7, <2>13 DEF Dead
    <3> QED BY <2>6, <3>1, <3>2, <3>3 DEF IInv, RemovalInv
  <2>15. ShardInv'
    <3> SUFFICES ASSUME NEW u \in Threads, call'[u].pc = "clearShard"
                 PROVE  /\ locked'[call'[u].shard] = u
                        /\ call'[u].todo \subseteq InShard(call[u].shard)'
      BY DEF ShardInv, At
    <3>1. u # t /\ call'[u] = call[u] BY <2>2, IdleOK
    <3>2. locked[call[u].shard] = u /\ call[u].todo \subseteq InShard(call[u].shard)
      BY <3>1 DEF IInv, ShardInv, At
    <3>3. ShardOf(n) # call[u].shard BY <1>1, <3>2, ShardAssumption DEF Free
    <3>4. InShard(call[u].shard) \subseteq InShard(call[u].shard)'
      BY <2>7, <3>1, <3>3 DEF InShard
    <3> QED BY <2>6, <3>1, <3>2, <3>4
  <2>16. \A x : BeingRemoved(x)' => BeingRemoved(x) /\ x \in (1 .. made) \cup {None}
    BY <2>2, IdleOK DEF BeingRemoved, At, IInv, EntryInv, HoldsMade
  <2>17. MapInv'
    BY <2>5, <2>6, <2>7, <2>16 DEF IInv, MapInv, Free, TypeOK
  <2>18. SteadyInv'
    <3> SUFFICES ASSUME NEW u \in Threads PROVE SteadyOK(call[u], steady[u])'
      BY DEF SteadyInv
    <3>1. SteadyOK(call'[u], steady[u]) /\ call'[u].todo \subseteq 1 .. made
      BY <1>1, <2>2, <2>11, IdleOK, CallKnown DEF HoldsMade
    <3>2. steady[u] \subseteq Names BY CallKnown
    <3>3. \A m \in steady[u] : map'[m] # None /\ Free(m)'
      BY <2>5, <2>6, <2>7, <3>1, <3>2 DEF SteadyOK, Free
    <3>4. steady'[u] = steady[u] BY <2>6
    <3>5. \A x \in call'[u].todo : nameOf'[x] \in steady[u] => callback'[x] /\ ~BeingRemoved(x)'
      BY <2>7, <2>16, <3>1 DEF SteadyOK
    <3> QED BY <3>1, <3>3, <3>4, <3>5 DEF SteadyOK
  <2>19. CoverInv'
    <3> SUFFICES ASSUME NEW u \in Threads PROVE CoverOK(call[u], steady[u])'
      BY DEF CoverInv
    <3>1. /\ CoverOK(call'[u], steady[u]) /\ HoldsMade(call'[u]) /\ CallOK(call'[u])
      BY <1>1, <2>2, <2>11, IdleOK, CallKnown
    <3>2. \A m : Copied(call'[u], m) => Copied(call[u], m)'
      BY <2>7, <3>1 DEF Copied, HoldsMade
    <3>3. call'[u].pc \in Running => nameOf'[call'[u].entry] = nameOf[call'[u].entry]
      BY <2>7, <3>1 DEF HoldsMade, CallOK
    <3> QED BY <2>6, <3>1, <3>2, <3>3 DEF CoverOK
  <2> QED BY <2>8, <2>9, <2>10, <2>12, <2>14, <2>15, <2>17, <2>18, <2>19 DEF IInv
<1> QED BY <1>2, <1>3 DEF Upsert

-----------------------------------------------------------------------------
\* The name's entry leaves the map; the name is steady for nobody any more.
LEMMA EraseEntryIInv ==
  ASSUME IInv, NEW t \in Threads, EraseEntry(t)
  PROVE  IInv'
<1> DEFINE d == call[t]
           n == d.name
           e == map[n]
<1>1. /\ d.pc = "erase" /\ n \in Names /\ Free(n) /\ d.pc \notin Reading
      /\ steady[t] = {} /\ d \in CallType /\ CallOK(d) /\ HoldsMade(d)
      /\ map' = [map EXCEPT ![n] = None] /\ steady' = [u \in Threads |-> steady[u] \ {n}]
      /\ UNCHANGED <<entryVars, locked, gone, bounds>>
  BY CallKnown DEF EraseEntry, At, CallOK, SteadyOK, Making, Reading, Unsteady
<1>2. CASE map[n] = None /\ Return(t)
  <2>1. \A u \in Threads : n \notin steady[u]
    BY <1>2 DEF IInv, SteadyInv, SteadyOK
  <2>2. UNCHANGED <<map, history>> BY <1>1, <1>2, <2>1 DEF IInv, TypeOK, history
  <2> QED BY <1>1, <1>2, <2>2, ReturnStep
<1>3. CASE /\ map[n] # None
           /\ call' = [call EXCEPT ![t].pc = "clearEntry", ![t].entry = map[n]]
  <2> DEFINE c == [d EXCEPT !.pc = "clearEntry", !.entry = e]
  <2>1. e \in 1 .. made /\ e \in Entries BY <1>1, <1>3, MadeEntries DEF IInv, TypeOK
  <2>2. call' = [call EXCEPT ![t] = c] BY <1>3 DEF IInv, TypeOK
  <2> HIDE DEF d
  <2>3. /\ c \in CallType /\ c.pc = "clearEntry" /\ c.entry = e /\ c.todo = d.todo
        /\ c.dropped = d.dropped /\ c.inner = d.inner /\ c.name = d.name
    BY <1>1, <2>1 DEF CallType
  <2>4. CallOK(c) /\ HoldsMade(c) /\ c.todo = {} /\ c.inner = None
    BY <1>1, <1>3, <2>1, <2>3 DEF CallOK, HoldsMade, Making, Running
  <2> HIDE DEF c
  <2>5. /\ call' \in [Threads -> CallType] /\ call'[t] = c
        /\ \A u \in Threads \ {t} : call'[u] = call[u]
    BY <2>2, <2>3, CallUpdate DEF IInv
  <2>6. map'[n] = None /\ \A m \in Names \ {n} : map'[m] = map[m]
    BY <1>1 DEF IInv, TypeOK
  <2>7. TypeOK' BY <1>1, <2>5 DEF IInv, TypeOK, entryVars, bounds
  <2>8. CallInv' BY <2>4, <2>5 DEF IInv, CallInv, CallOK
  <2>9. BoundInv' BY <1>1, <2>2, <2>3, BoundKept DEF Making, entryVars
  <2>10. EntryInv'
    BY <1>1, <2>4, <2>5, <2>6 DEF IInv, EntryInv, HoldsMade, entryVars
  <2>11. RemovalInv'
    <3>1. \A x : Readers(x)' \subseteq Readers(x) BY <2>3, <2>5 DEF Readers
    <3>2. \A u \in Threads : call'[u].dropped = call[u].dropped BY <2>3, <2>5 DEF d
    <3> QED BY <1>1, <3>1, <3>2 DEF IInv, RemovalInv, Dead, entryVars
  <2>12. ShardInv'
    <3> SUFFICES ASSUME NEW u \in Threads, call'[u].pc = "clearShard"
                 PROVE  /\ locked'[call'[u].shard] = u
                        /\ call'[u].todo \subseteq InShard(call[u].shard)'
      BY DEF ShardInv, At
    <3>1. u # t /\ call'[u] = call[u] BY <2>3, <2>5
    <3>2. locked[call[u].shard] = u /\ call[u].todo \subseteq InShard(call[u].shard)
      BY <3>1 DEF IInv, ShardInv, At
    <3>3. ShardOf(n) # call[u].shard BY <1>1, <3>2, ShardAssumption DEF Free
    <3>4. InShard(call[u].shard) \subseteq InShard(call[u].shard)'
      BY <2>6, <3>1, <3>3 DEF InShard
    <3> QED BY <1>1, <3>1, <3>2, <3>4
  <2>13. \A x : BeingRemoved(x)' => BeingRemoved(x) \/ x = e
    BY <2>3, <2>5 DEF BeingRemoved, At
  <2>14. nameOf[e] = n BY <1>1, <1>3 DEF IInv, EntryInv
  <2>15. MapInv'
    <3> SUFFICES ASSUME NEW m \in Names, map'[m] # None
                 PROVE  ~BeingRemoved(map[m])' /\ (Free(m)' => callback'[map'[m]])
      BY DEF MapInv
    <3>1. m # n /\ map'[m] = map[m] BY <2>6
    <3>2. map[m] # e BY <2>14, <3>1 DEF IInv, EntryInv
    <3>3. ~BeingRemoved(map[m]) /\ (Free(m) => callback[map[m]])
      BY <3>1 DEF IInv, MapInv
    <3> QED BY <1>1, <2>13, <3>1, <3>2, <3>3 DEF Free, entryVars
  <2>16. SteadyInv'
    <3> SUFFICES ASSUME NEW u \in Threads PROVE SteadyOK(call[u], steady[u])'
      BY DEF SteadyInv
    <3>1. SteadyOK(call'[u], steady[u]) /\ steady[u] \subseteq Names
      BY <1>1, <2>4, <2>5, CallKnown DEF SteadyOK
    <3>2. steady'[u] = steady[u] \ {n} BY <1>1
    <3>3. \A m \in steady'[u] : map'[m] # None /\ Free(m)'
      BY <1>1, <2>6, <3>1, <3>2 DEF SteadyOK, Free
    <3>4. \A x \in call'[u].todo : nameOf'[x] \in steady'[u] =>
              callback'[x] /\ ~BeingRemoved(x)'
      BY <1>1, <2>13, <2>14, <3>1, <3>2 DEF SteadyOK, entryVars
    <3> QED BY <3>1, <3>2, <3>3, <3>4 DEF SteadyOK
  <2>17. CoverInv'
    <3> SUFFICES ASSUME NEW u \in Threads PROVE CoverOK(call[u], steady[u])'
      BY DEF CoverInv
    <3>1. CoverOK(call'[u], steady[u])
      BY <1>1, <2>5, CallKnown DEF CoverOK
    <3> QED BY <1>1, <3>1 DEF CoverOK, Copied, entryVars
  <2> QED BY <2>7, <2>8, <2>9, <2>10, <2>11, <2>12, <2>15, <2>16, <2>17 DEF IInv
<1> QED BY <1>1, <1>2, <1>3 DEF EraseEntry

\* A step that drops one callback and gives t the call c.
LEMMA DropFrame ==
  ASSUME IInv, NEW t \in Threads, NEW c \in CallType, call' = [call EXCEPT ![t] = c],
         NEW e \in Entries, Readers(e) = {}, callback' = [callback EXCEPT ![e] = FALSE],
         UNCHANGED <<map, made, nameOf, locked, steady, bounds>>,
         CallOK(c), HoldsMade(c), steady[t] = {}, e \in 1 .. made,
         c.pc \notin Making \cup Reading \cup {"clearEntry"},
         c.pc = "clearShard" => c = [call[t] EXCEPT !.todo = c.todo, !.dropped = c.dropped]
                                /\ c.todo \subseteq call[t].todo /\ At(t, "clearShard"),
         \A n \in Names : map[n] = e => ~Free(n),
         \A u \in Threads : \A x \in call[u].todo :
             nameOf[x] \in steady[u] => x # e,
         gone' \subseteq gone \cup {e}, c.dropped \subseteq call[t].dropped \cup {e}
  PROVE  IInv'
<1>1. /\ call' \in [Threads -> CallType] /\ call'[t] = c
      /\ \A u \in Threads \ {t} : call'[u] = call[u]
  BY CallUpdate DEF IInv
<1>2. /\ ~callback'[e] /\ \A x \in Entries \ {e} : callback'[x] = callback[x]
  BY DEF IInv, TypeOK
<1>3. TypeOK' BY <1>1 DEF IInv, TypeOK, bounds
<1>4. CallInv' BY <1>1 DEF IInv, CallInv, CallOK
<1>5. BoundInv' BY BoundKept
<1>6. EntryInv' BY <1>1 DEF IInv, EntryInv, HoldsMade
<1>7. RemovalInv'
  <2>1. \A x : Readers(x)' \subseteq Readers(x) BY <1>1 DEF Readers, Reading
  <2>2. \A x \in Entries : Dead(x) => Dead(x)' BY <1>2, <2>1 DEF Dead
  <2>3. Dead(e)' BY <1>2, <2>1 DEF Dead
  <2>4. gone \subseteq Entries /\ \A u \in Threads : call[u].dropped \subseteq Entries
    BY CallFields DEF IInv, TypeOK
  <2>5. \A u \in Threads : call'[u].dropped \subseteq call[u].dropped \cup {e} BY <1>1
  <2> QED BY <2>2, <2>3, <2>4, <2>5 DEF IInv, RemovalInv
<1>8. ShardInv'
  <2> SUFFICES ASSUME NEW u \in Threads, call'[u].pc = "clearShard"
               PROVE  /\ locked'[call'[u].shard] = u
                      /\ call'[u].todo \subseteq InShard(call[u].shard)'
    BY DEF ShardInv, At
  <2>1. /\ At(u, "clearShard") /\ call'[u].shard = call[u].shard
        /\ call'[u].todo \subseteq call[u].todo
    <3>1. CASE u = t
      <4>1. c = [call[t] EXCEPT !.todo = c.todo, !.dropped = c.dropped] BY <1>1, <3>1
      <4>2. call[t] \in CallType BY CallKnown
      <4>3. c.shard = call[t].shard BY <4>1, <4>2 DEF CallType
      <4> QED BY <1>1, <3>1, <4>3
    <3>2. CASE u # t BY <1>1, <3>2 DEF At
    <3> QED BY <3>1, <3>2
  <2>2. locked[call[u].shard] = u /\ call[u].todo \subseteq InShard(call[u].shard)
    BY <2>1 DEF IInv, ShardInv
  <2> QED BY <2>1, <2>2 DEF InShard
<1>9. \A x : BeingRemoved(x)' => BeingRemoved(x) BY <1>1 DEF BeingRemoved, At
<1>10. MapInv'
  <2> SUFFICES ASSUME NEW m \in Names, map[m] # None
               PROVE  ~BeingRemoved(map[m])' /\ (Free(m)' => callback'[map[m]])
    BY DEF MapInv
  <2>1. map[m] \in Entries BY MadeEntries DEF IInv, TypeOK
  <2>2. ~BeingRemoved(map[m]) /\ (Free(m) => callback[map[m]])
    BY DEF IInv, MapInv
  <2> QED BY <1>2, <1>9, <2>1, <2>2 DEF Free
<1>11. SteadyInv'
  <2> SUFFICES ASSUME NEW u \in Threads PROVE SteadyOK(call[u], steady[u])'
    BY DEF SteadyInv
  <2>1. CASE u = t BY <1>1, <2>1 DEF SteadyOK
  <2>2. CASE u # t
    <3>1. call'[u] = call[u] /\ SteadyOK(call[u], steady[u]) /\ call[u].todo \subseteq Entries
      BY <1>1, <2>2, CallKnown, CallFields
    <3> QED BY <1>2, <1>9, <3>1 DEF SteadyOK, Free
  <2> QED BY <2>1, <2>2
<1>12. CoverInv'
  <2> SUFFICES ASSUME NEW u \in Threads PROVE CoverOK(call[u], steady[u])'
    BY DEF CoverInv
  <2>1. CASE u = t BY <1>1, <2>1 DEF CoverOK
  <2>2. CASE u # t BY <1>1, <2>2, CallKnown DEF CoverOK, Copied
  <2> QED BY <2>1, <2>2
<1> QED BY <1>3, <1>4, <1>5, <1>6, <1>7, <1>8, <1>10, <1>11, <1>12 DEF IInv

\* unregisterCallback() clears the entry it has taken out of the map.
LEMMA ClearEntryIInv ==
  ASSUME IInv, NEW t \in Threads, ClearEntry(t)
  PROVE  IInv'
<1> DEFINE e == call[t].entry
<1>1. /\ e \in 1 .. made /\ e \in Entries /\ steady[t] = {} /\ BeingRemoved(e)
  BY CallKnown, MadeEntries
  DEF ClearEntry, At, CallOK, HoldsMade, SteadyOK, Reading, BeingRemoved, IInv
<1>2. call' = [call EXCEPT ![t] = Idle] BY DEF ClearEntry, Return
<1>3. \A n \in Names : map[n] # e
  BY <1>1, ShardAssumption DEF IInv, MapInv, Entries
<1>4. \A u \in Threads : \A x \in call[u].todo : nameOf[x] \in steady[u] => x # e
  BY <1>1, CallKnown DEF SteadyOK
<1>5. Idle.pc \notin Making \cup Reading \cup {"clearEntry", "clearShard"}
  BY IdleOK DEF Making, Reading
<1>6. /\ Readers(e) = {} /\ callback' = [callback EXCEPT ![e] = FALSE] /\ gone' = gone \cup {e}
      /\ UNCHANGED <<map, made, nameOf, locked, steady, bounds>>
  BY DEF ClearEntry
<1> HIDE DEF e
<1> QED BY <1>1, <1>2, <1>3, <1>4, <1>5, <1>6, IdleOK, DropFrame

\* clear() clears an entry of the shard it holds, whose names nobody relies on.
LEMMA ClearShardEntryIInv ==
  ASSUME IInv, NEW t \in Threads, NEW e \in Entries, ClearShardEntry(t, e)
  PROVE  IInv'
<1> DEFINE d == call[t]
           ts == d.todo \ {e}
           ds == d.dropped \cup {e}
           c == [d EXCEPT !.todo = ts, !.dropped = ds]
<1>1. /\ d \in CallType /\ CallOK(d) /\ HoldsMade(d) /\ d.pc = "clearShard" /\ e \in d.todo
      /\ steady[t] = {} /\ e \in 1 .. made
  BY CallKnown DEF ClearShardEntry, At, SteadyOK, Reading, HoldsMade
<1>2. call' = [call EXCEPT ![t] = c] BY DEF ClearShardEntry, IInv, TypeOK
<1>3. locked[d.shard] = t /\ e \in InShard(d.shard)
  BY <1>1 DEF IInv, ShardInv, At
<1>4. PICK m \in Names : map[m] = e /\ ShardOf(m) = d.shard BY <1>3 DEF InShard
<1>5. nameOf[e] = m /\ ~Free(m)
  BY <1>1, <1>3, <1>4, ShardAssumption DEF IInv, EntryInv, Free, Entries
<1>6. \A n \in Names : map[n] = e => ~Free(n)
  BY <1>4, <1>5, ShardAssumption DEF IInv, EntryInv, Entries
<1>7. \A u \in Threads : \A x \in call[u].todo : nameOf[x] \in steady[u] => x # e
  BY <1>5, CallKnown DEF SteadyOK
<1> HIDE DEF d
<1>8. /\ c \in CallType /\ c.pc = "clearShard" /\ c.todo = ts /\ c.dropped = ds
      /\ c.entry = d.entry /\ c.inner = d.inner /\ c.name = d.name
  BY <1>1 DEF CallType
<1>9. CallOK(c) /\ HoldsMade(c)
  BY <1>1, <1>8 DEF CallOK, HoldsMade, Making, Running
<1>10. c = [d EXCEPT !.todo = c.todo, !.dropped = c.dropped] BY <1>8
<1>11. /\ Readers(e) = {} /\ callback' = [callback EXCEPT ![e] = FALSE] /\ gone' = gone
       /\ UNCHANGED <<map, made, nameOf, locked, steady, bounds>> /\ At(t, "clearShard")
  BY DEF ClearShardEntry, history
<1> HIDE DEF c
<1> QED
  BY <1>1, <1>2, <1>6, <1>7, <1>8, <1>9, <1>10, <1>11, DropFrame DEF d, Making, Reading

\* clear() takes a shard's lock: no name of the shard is steady any more.
LEMMA LockShardIInv ==
  ASSUME IInv, NEW t \in Threads, LockShard(t)
  PROVE  IInv'
<1> DEFINE d == call[t]
           i == d.shard
           ts == InShard(i)
           c == [d EXCEPT !.pc = "clearShard", !.todo = ts]
<1>1. /\ d \in CallType /\ CallOK(d) /\ HoldsMade(d) /\ d.pc = "lockShard"
      /\ locked[i] = None /\ steady[t] = {} /\ i \in Shards
      /\ locked' = [locked EXCEPT ![i] = t]
      /\ steady' = [u \in Threads |-> steady[u] \ {n \in Names : ShardOf(n) = i}]
      /\ UNCHANGED <<map, entryVars, gone, bounds>>
  BY CallKnown, CallFields DEF LockShard, At, SteadyOK, Reading, Unsteady
<1>2. call' = [call EXCEPT ![t] = c] BY DEF LockShard, IInv, TypeOK
<1>3. ts \subseteq 1 .. made /\ ts \subseteq Entries
  BY MadeEntries DEF IInv, TypeOK, InShard
<1>4. \A k : InShard(k)' = InShard(k) BY <1>1 DEF InShard
<1> HIDE DEF ts, d
<1>5. /\ c \in CallType /\ c.pc = "clearShard" /\ c.todo = ts /\ c.dropped = d.dropped
      /\ c.entry = d.entry /\ c.inner = d.inner /\ c.name = d.name /\ c.shard = d.shard
  BY <1>1, <1>3 DEF CallType
<1>6. CallOK(c) /\ HoldsMade(c)
  BY <1>1, <1>3, <1>5 DEF CallOK, HoldsMade, Making, Running
<1> HIDE DEF c
<1>7. /\ call' \in [Threads -> CallType] /\ call'[t] = c
      /\ \A u \in Threads \ {t} : call'[u] = call[u]
  BY <1>2, <1>5, CallUpdate DEF IInv
<1>8. /\ locked'[i] = t /\ t # None /\ \A j \in Shards \ {i} : locked'[j] = locked[j]
  BY <1>1, ShardAssumption DEF IInv, TypeOK
<1>9. \A n \in Names : Free(n)' <=> Free(n) /\ ShardOf(n) # i
  BY <1>1, <1>8, ShardAssumption DEF Free, Shards
<1>10. TypeOK' BY <1>1, <1>7 DEF IInv, TypeOK, entryVars, bounds
<1>11. CallInv' BY <1>6, <1>7 DEF IInv, CallInv, CallOK
<1>12. BoundInv' BY <1>1, <1>2, <1>5, BoundKept DEF Making, entryVars
<1>13. EntryInv' BY <1>1, <1>6, <1>7 DEF IInv, EntryInv, HoldsMade, entryVars
<1>14. RemovalInv'
  <2>1. \A x : Readers(x)' \subseteq Readers(x) BY <1>5, <1>7 DEF Readers
  <2>2. \A u \in Threads : call'[u].dropped = call[u].dropped BY <1>5, <1>7 DEF d
  <2> QED BY <1>1, <2>1, <2>2 DEF IInv, RemovalInv, Dead, entryVars
<1>15. ShardInv'
  <2> SUFFICES ASSUME NEW u \in Threads, call'[u].pc = "clearShard"
               PROVE  /\ locked'[call'[u].shard] = u
                      /\ call'[u].todo \subseteq InShard(call[u].shard)'
    BY <1>5, <1>7 DEF ShardInv, At, d
  <2>1. CASE u = t BY <1>4, <1>5, <1>7, <1>8, <2>1 DEF d, ts
  <2>2. CASE u # t
    <3>1. call'[u] = call[u] /\ call[u].shard \in Shards BY <1>7, <2>2, CallKnown, CallFields
    <3>2. locked[call[u].shard] = u /\ call[u].todo \subseteq InShard(call[u].shard)
      BY <3>1 DEF IInv, ShardInv, At
    <3>3. i # call[u].shard BY <1>1, <3>2, ShardAssumption
    <3> QED BY <1>4, <1>8, <3>1, <3>2, <3>3
  <2> QED BY <2>1, <2>2
<1>16. \A x : BeingRemoved(x)' => BeingRemoved(x) BY <1>5, <1>7 DEF BeingRemoved, At
<1>17. MapInv' BY <1>1, <1>9, <1>16 DEF IInv, MapInv, entryVars
<1>18. SteadyInv'
  <2> SUFFICES ASSUME NEW u \in Threads PROVE SteadyOK(call[u], steady[u])'
    BY DEF SteadyInv
  <2>1. CASE u = t BY <1>1, <1>7, <2>1 DEF SteadyOK
  <2>2. CASE u # t
    <3>1. SteadyOK(call[u], steady[u]) /\ steady[u] \subseteq Names /\ call'[u] = call[u]
      BY <1>7, <2>2, CallKnown
    <3>2. steady'[u] = steady[u] \ {n \in Names : ShardOf(n) = i} BY <1>1
    <3> QED BY <1>1, <1>9, <1>16, <3>1, <3>2 DEF SteadyOK, entryVars
  <2> QED BY <2>1, <2>2
<1>19. CoverInv'
  <2> SUFFICES ASSUME NEW u \in Threads PROVE CoverOK(call[u], steady[u])'
    BY DEF CoverInv
  <2>1. CASE u = t BY <1>1, <1>7, <2>1 DEF CoverOK
  <2>2. CASE u # t BY <1>1, <1>7, <2>2, CallKnown DEF CoverOK, Copied, entryVars
  <2> QED BY <2>1, <2>2
<1> QED
  BY <1>10, <1>11, <1>12, <1>13, <1>14, <1>15, <1>17, <1>18, <1>19 DEF IInv

\* clear() empties the shard it holds, unlocks it, and goes on or returns.
LEMMA EmptyShardIInv ==
  ASSUME IInv, NEW t \in Threads, EmptyShard(t)
  PROVE  IInv'
<1> DEFINE d == call[t]
           i == d.shard
           j == i + 1
           n0 == [d EXCEPT !.pc = "lockShard", !.shard = j]
<1>1. /\ d \in CallType /\ CallOK(d) /\ HoldsMade(d) /\ d.pc = "clearShard" /\ d.todo = {}
      /\ locked[i] = t /\ steady[t] = {} /\ i \in Shards /\ t # None
      /\ locked' = [locked EXCEPT ![i] = None]
      /\ map' = [n \in Names |-> IF ShardOf(n) = i THEN None ELSE map[n]]
      /\ UNCHANGED <<entryVars, steady, bounds>>
      /\ gone' \subseteq gone \cup d.dropped
  BY CallKnown, CallFields, ShardAssumption
  DEF EmptyShard, At, SteadyOK, Reading, IInv, ShardInv
<1>2. \E c \in CallType : /\ call' = [call EXCEPT ![t] = c]
                          /\ CallOK(c) /\ HoldsMade(c) /\ c.todo = {}
                          /\ c.dropped \subseteq d.dropped
                          /\ c.pc \in {"idle", "lockShard"}
  <2>1. CASE Return(t)
    BY <2>1, IdleOK DEF Return
  <2>2. CASE i < NumShards /\ call' = [call EXCEPT ![t].pc = "lockShard", ![t].shard = j]
    <3>1. j \in Shards BY <1>1, <2>2, ShardAssumption DEF Shards
    <3>2. call' = [call EXCEPT ![t] = n0] BY <2>2 DEF IInv, TypeOK
    <3> HIDE DEF d, j
    <3>3. /\ n0 \in CallType /\ n0.pc = "lockShard" /\ n0.todo = {} /\ n0.dropped = d.dropped
          /\ n0.entry = d.entry /\ n0.inner = d.inner /\ n0.name = d.name
      BY <1>1, <3>1 DEF CallType
    <3>4. CallOK(n0) /\ HoldsMade(n0)
      BY <1>1, <3>3 DEF CallOK, HoldsMade, Making, Running
    <3> HIDE DEF n0
    <3> QED BY <3>2, <3>3, <3>4
  <2> QED BY <2>1, <2>2 DEF EmptyShard
<1>3. PICK c \in CallType : /\ call' = [call EXCEPT ![t] = c]
                            /\ CallOK(c) /\ HoldsMade(c) /\ c.todo = {}
                            /\ c.dropped \subseteq d.dropped
                            /\ c.pc \in {"idle", "lockShard"}
  BY <1>2
<1>4. /\ call' \in [Threads -> CallType] /\ call'[t] = c
      /\ \A u \in Threads \ {t} : call'[u] = call[u]
  BY <1>3, CallUpdate DEF IInv
<1> HIDE DEF d
<1>5. /\ locked'[i] = None /\ \A k \in Shards \ {i} : locked'[k] = locked[k]
  BY <1>1 DEF IInv, TypeOK
<1>6. \A n \in Names : IF ShardOf(n) = i THEN map'[n] = None /\ ~Free(n)
                       ELSE map'[n] = map[n] /\ (Free(n)' <=> Free(n))
  BY <1>1, <1>5, ShardAssumption DEF Free, Shards
<1>7. TypeOK'
  <2>1. gone' \subseteq Entries BY <1>1, CallFields DEF IInv, TypeOK
  <2> QED BY <1>1, <1>4, <2>1 DEF IInv, TypeOK, entryVars, bounds
<1>8. CallInv' BY <1>3, <1>4 DEF IInv, CallInv, CallOK
<1>9. BoundInv' BY <1>1, <1>3, BoundKept DEF Making, entryVars
<1>10. EntryInv'
  <2>1. gone' \subseteq 1 .. made BY <1>1 DEF IInv, EntryInv, HoldsMade
  <2> QED BY <1>1, <1>3, <1>4, <1>6, <2>1 DEF IInv, EntryInv, HoldsMade, entryVars
<1>11. RemovalInv'
  <2>1. \A x : Readers(x)' \subseteq Readers(x) BY <1>3, <1>4 DEF Readers
  <2>2. \A x : Dead(x) => Dead(x)' BY <1>1, <2>1 DEF Dead, entryVars
  <2>3. \A u \in Threads : call'[u].dropped \subseteq call[u].dropped BY <1>3, <1>4 DEF d
  <2> QED BY <1>1, <2>2, <2>3 DEF IInv, RemovalInv, d
<1>12. ShardInv'
  <2> SUFFICES ASSUME NEW u \in Threads, call'[u].pc = "clearShard"
               PROVE  /\ locked'[call'[u].shard] = u
                      /\ call'[u].todo \subseteq InShard(call[u].shard)'
    BY <1>3, <1>4 DEF ShardInv, At
  <2>1. u # t /\ call'[u] = call[u] /\ call[u].shard \in Shards
    BY <1>3, <1>4, CallKnown, CallFields
  <2>2. locked[call[u].shard] = u /\ call[u].todo \subseteq InShard(call[u].shard)
    BY <2>1 DEF IInv, ShardInv, At
  <2>3. i # call[u].shard BY <1>1, <2>1, <2>2
  <2>4. InShard(call[u].shard) \subseteq InShard(call[u].shard)'
    BY <1>6, <2>1, <2>3 DEF InShard
  <2> QED BY <1>5, <2>1, <2>2, <2>3, <2>4
<1>13. \A x : BeingRemoved(x)' => BeingRemoved(x) BY <1>3, <1>4 DEF BeingRemoved, At
<1>14. MapInv' BY <1>1, <1>6, <1>13 DEF IInv, MapInv, entryVars
<1>15. SteadyInv'
  <2> SUFFICES ASSUME NEW u \in Threads PROVE SteadyOK(call[u], steady[u])'
    BY DEF SteadyInv
  <2>1. CASE u = t BY <1>1, <1>4, <2>1, <1>3 DEF SteadyOK
  <2>2. CASE u # t
    <3>1. SteadyOK(call[u], steady[u]) /\ steady[u] \subseteq Names /\ call'[u] = call[u]
      BY <1>4, <2>2, CallKnown
    <3> QED BY <1>1, <1>6, <1>13, <3>1 DEF SteadyOK, entryVars
  <2> QED BY <2>1, <2>2
<1>16. CoverInv'
  <2> SUFFICES ASSUME NEW u \in Threads PROVE CoverOK(call[u], steady[u])'
    BY DEF CoverInv
  <2>1. CASE u = t BY <1>1, <1>4, <2>1 DEF CoverOK
  <2>2. CASE u # t BY <1>1, <1>4, <2>2, CallKnown DEF CoverOK, Copied, entryVars
  <2> QED BY <2>1, <2>2
<1> QED
  BY <1>7, <1>8, <1>9, <1>10, <1>11, <1>12, <1>14, <1>15, <1>16 DEF IInv

-----------------------------------------------------------------------------
\* Every step keeps the invariant.
LEMMA NextIInv == IInv /\ [Next]_vars => IInv'
<1> SUFFICES ASSUME IInv, [Next]_vars PROVE IInv'
  OBVIOUS
<1>1. CASE UNCHANGED vars
  BY <1>1 DEF vars, IInv, TypeOK, CallInv, BoundInv, EntryInv, RemovalInv, ShardInv,
     MapInv, SteadyInv, CoverInv, Makers, HoldsMade, Dead, Readers, InShard, At,
     BeingRemoved, Free, SteadyOK, CoverOK, Copied
<1>2. ASSUME NEW t \in Threads, WriteStep(t) PROVE IInv'
  BY <1>2, CheckPresentIInv, UpsertIInv, EraseEntryIInv, ClearEntryIInv, LockShardIInv,
     EmptyShardIInv, ClearShardEntryIInv DEF WriteStep
<1>3. ASSUME NEW t \in Threads, ReadStep(t) PROVE IInv'
  BY <1>3, LookupIInv, CopyShardIInv, ReadReturnsIInv, CallbackReturnsIInv,
     InnerReadIInv, InvokeIInv DEF ReadStep
<1>4. ASSUME NEW t \in Threads, Call(t) PROVE IInv'
  <2>1. ASSUME NEW n \in Names, GetValue(t, n) PROVE IInv'
    BY <2>1, BeginReadIInv DEF GetValue
  <2>2. CASE GetValues(t) BY <2>2, BeginReadIInv DEF GetValues
  <2> QED
    BY <1>4, <2>1, <2>2, RegisterCallbackIInv, UnregisterCallbackIInv, ClearIInv DEF Call
<1> QED BY <1>1, <1>2, <1>3, <1>4 DEF Next, Step

(***************************************************************************)
(* The invariant holds of every run of the map.                            *)
(***************************************************************************)
THEOREM CallbackInvariant == Spec => []IInv
  BY InitIInv, NextIInv, PTL DEF Spec

(***************************************************************************)
(* Every variable keeps its type: in particular the map only ever names    *)
(* entries that have been made, and no more than MaxEntries are.           *)
(***************************************************************************)
THEOREM CallbackTypes == Spec => []TypeOK
<1>1. IInv => TypeOK BY DEF IInv
<1> QED BY <1>1, CallbackInvariant, PTL

(***************************************************************************)
(* What unregisterCallback() or clear() removed is not running when it     *)
(* returns and never runs again, for any number of readers and removals:   *)
(* the removal waits for the entry's lock, and an entry without callback   *)
(* never gets one, also where a reader still has a copy of it.             *)
(***************************************************************************)
THEOREM RemovedNeverCalled == Spec => []NoCallAfterRemoval
<1>1. IInv => NoCallAfterRemoval
  BY DEF IInv, RemovalInv, Dead, NoCallAfterRemoval
<1> QED BY <1>1, CallbackInvariant, PTL

(***************************************************************************)
(* getValue() and getValues() miss no name that stays registered while     *)
(* they run, whatever is registered, replaced and removed meanwhile.       *)
(***************************************************************************)
THEOREM SteadyNamesAreRead == Spec => []SteadyNamesRead
<1>1. IInv => SteadyNamesRead
  <2> SUFFICES ASSUME IInv, NEW t \in Threads, At(t, "invoke"), call[t].todo = {},
                      NEW n \in steady[t]
               PROVE  n \in call[t].output
    BY DEF SteadyNamesRead
  <2> QED BY DEF IInv, CoverInv, CoverOK, Copied, At
<1> QED BY <1>1, CallbackInvariant, PTL

(***************************************************************************)
(* A registration without overwrite never replaces an entry: the second    *)
(* lookup, under the upgrade lock, decides.                                *)
(***************************************************************************)
THEOREM RegistrationKept == Spec => KeptUnlessOverwritten
<1> DEFINE Kept == \A n \in Names :
                      (map[n] # None /\ map'[n] \notin {None, map[n]}) =>
                          \E t \in Threads : /\ At(t, "upsert") /\ ~At(t, "upsert")'
                                             /\ call[t].name = n /\ call[t].overwrite
<1>1. IInv /\ [Next]_vars => [Kept]_vars
  <2> SUFFICES ASSUME IInv, Next, NEW n \in Names,
                      map[n] # None, map'[n] \notin {None, map[n]}
               PROVE  \E t \in Threads : /\ At(t, "upsert") /\ ~At(t, "upsert")'
                                         /\ call[t].name = n /\ call[t].overwrite
    OBVIOUS
  <2>1. PICK t \in Threads : Step(t) \/ Call(t) BY DEF Next
  <2>2. ~Call(t)
    BY DEF Call, RegisterCallback, UnregisterCallback, GetValue, GetValues, BeginRead, Clear
  <2>3. ~ReadStep(t)
    BY DEF ReadStep, Lookup, CopyShard, ReadReturns, CallbackReturns, InnerRead, Invoke
  <2>4. ~CheckPresent(t) /\ ~ClearEntry(t) /\ ~LockShard(t)
    BY DEF CheckPresent, ClearEntry, LockShard
  <2>5. ~EraseEntry(t) BY DEF EraseEntry, IInv, TypeOK
  <2>6. ~EmptyShard(t) BY DEF EmptyShard
  <2>7. ~\E e \in Entries : ClearShardEntry(t, e) BY DEF ClearShardEntry
  <2>8. Upsert(t) BY <2>1, <2>2, <2>3, <2>4, <2>5, <2>6, <2>7 DEF Step, WriteStep
  <2>9. call[t].name = n /\ call[t].overwrite
    BY <2>8 DEF Upsert, PutEntry, IInv, TypeOK
  <2>10. At(t, "upsert") /\ ~At(t, "upsert")'
    BY <2>8, IdleOK DEF Upsert, Return, At, IInv, TypeOK
  <2> QED BY <2>9, <2>10
<1> QED BY <1>1, CallbackInvariant, PTL DEF Spec, KeptUnlessOverwritten

-----------------------------------------------------------------------------
(***************************************************************************)
(* RegexUtil.  Here the argument is about addresses: whatever a finder     *)
(* keeps alive is never freed, so never allocated again, so what the scan  *)
(* found at an address is still true of it when the result is published.   *)
(***************************************************************************)
\* A find record is well typed exactly field by field.
LEMMA FindFields ==
  ASSUME NEW x \in FindType
  PROVE  /\ x.pc \in {"idle", "check", "locked", "pin", "scan", "publish", "returned"}
         /\ x.regex \in Regexes \cup {NoKey}
         /\ x.alive \subseteq Addrs /\ x.handle \subseteq Addrs
         /\ x.scanned \subseteq Addrs /\ x.hits \subseteq Addrs
         /\ x.out \subseteq Keys /\ x.want \subseteq Keys
  BY DEF FindType

\* The cache is empty and nobody is looking anything up.
LEMMA InitRegexInv == RegexInit => RegexInv
<1> SUFFICES ASSUME RegexInit PROVE RegexInv
  OBVIOUS
<1>1. NoFind \in FindType
  BY DEF NoFind, FindType
<1>2. RegexTypeOK BY <1>1 DEF RegexInit, RegexTypeOK
<1>3. Lockstep /\ CacheCorrect BY DEF RegexInit, Lockstep, CacheCorrect
<1>4. PinInv BY DEF RegexInit, PinInv, NoFind, Hits
<1>5. FindsExactly BY DEF RegexInit, FindsExactly, NoFind
<1> QED BY <1>2, <1>3, <1>4, <1>5 DEF RegexInv

\* A step that leaves the finders and every pinned string alone.
LEMMA PinFrame ==
  ASSUME RegexInv, find' = find,
         \A a \in Pinned : content'[a] = content[a]
  PROVE  PinInv' /\ FindsExactly'
<1>1. FindsExactly' BY DEF RegexInv, FindsExactly
<1>2. PinInv'
  <2> SUFFICES ASSUME NEW f \in Finders
               PROVE  /\ find[f].pc \notin {"idle", "returned"} => find[f].regex \in Regexes
                      /\ find[f].pc \notin {"scan", "publish"} => find[f].alive = {}
                      /\ find[f].handle \cup find[f].scanned \subseteq find[f].alive
                      /\ find[f].hits = Hits(find[f].regex, find[f].scanned)'
                      /\ \A a \in find[f].alive : content'[a] # NoKey
    BY DEF PinInv
  <2>1. \A a \in find[f].alive : content'[a] = content[a]
    BY DEF Pinned
  <2>2. Hits(find[f].regex, find[f].scanned)' = Hits(find[f].regex, find[f].scanned)
    BY <2>1 DEF Hits, RegexInv, PinInv
  <2> QED BY <2>1, <2>2 DEF RegexInv, PinInv
<1> QED BY <1>1, <1>2

\* Freeing what has left the map touches neither the map nor a pinned string.
LEMMA FreeUnusedIs ==
  ASSUME RegexTypeOK, NEW left \in SUBSET Addrs, NEW pins, content' = FreeUnused(left, pins)
  PROVE  /\ content' \in [Addrs -> Keys \cup {NoKey}]
         /\ \A a \in Addrs : a \notin left \/ a \in pins => content'[a] = content[a]
  BY DEF FreeUnused, RegexTypeOK

\* Every pinned string is at an address that is in use.
LEMMA PinnedInUse ==
  ASSUME RegexInv, NEW a \in Pinned
  PROVE  a \in Addrs /\ content[a] # NoKey
  BY FindFields DEF Pinned, RegexInv, PinInv, RegexTypeOK

-----------------------------------------------------------------------------
\* A new entry: its address was free, so not pinned, and it is queued.
LEMMA AddStringIInv ==
  ASSUME RegexInv, NEW a \in Addrs, NEW n \in Keys, AddString(a, n)
  PROVE  RegexInv'
<1>1. RegexTypeOK' BY DEF AddString, RegexInv, RegexTypeOK
<1>2. \A b \in Addrs \ {a} : content'[b] = content[b]
  BY DEF AddString, RegexInv, RegexTypeOK
<1>3. content'[a] = n /\ n # NoKey /\ content[a] = NoKey
  BY MatchAssumption DEF AddString, RegexInv, RegexTypeOK
<1>4. a \notin inMap BY <1>3 DEF RegexInv, Lockstep
<1>5. Lockstep'
  <2>1. strings' = inMap' /\ \A b \in inMap' : content'[b] # NoKey
    BY <1>2, <1>3 DEF AddString, RegexInv, Lockstep, RegexTypeOK
  <2>2. \A b, c \in inMap' : content'[b] = content'[c] => b = c
    BY <1>2, <1>3, <1>4 DEF AddString, RegexInv, Lockstep, RegexTypeOK, NamesInMap
  <2>3. \A r \in Regexes : /\ matched'[r] \cup queue'[r] \subseteq strings'
                           /\ matched'[r] \cap queue'[r] = {}
                           /\ r \notin known' => matched'[r] = {} /\ queue'[r] = {}
    BY <1>4 DEF AddString, RegexInv, Lockstep, RegexTypeOK
  <2> QED BY <2>1, <2>2, <2>3 DEF Lockstep
<1>6. CacheCorrect'
  BY <1>2, <1>3, <1>4 DEF AddString, RegexInv, Lockstep, RegexTypeOK, CacheCorrect
<1>7. \A b \in Pinned : content'[b] = content[b]
  BY <1>2, <1>3, PinnedInUse
<1> QED BY <1>1, <1>5, <1>6, <1>7, PinFrame DEF AddString, RegexInv

\* An entry leaves the map, the cache's strings, queues and matches together.
LEMMA EraseStringIInv ==
  ASSUME RegexInv, NEW a \in Addrs, EraseString(a)
  PROVE  RegexInv'
<1>1. /\ content' \in [Addrs -> Keys \cup {NoKey}]
      /\ \A b \in Addrs : b # a \/ b \in Pinned => content'[b] = content[b]
  BY FreeUnusedIs DEF EraseString, RegexInv
<1>2. RegexTypeOK' BY <1>1 DEF EraseString, EraseStrings, RegexInv, RegexTypeOK
<1>3. /\ strings' = strings \ {a} /\ inMap' = inMap \ {a} /\ known' = known
      /\ \A r \in Regexes : /\ queue'[r] = queue[r] \ {a}
                            /\ matched'[r] = matched[r] \ {a}
  BY DEF EraseString, EraseStrings
<1>4. Lockstep'
  BY <1>1, <1>3 DEF RegexInv, Lockstep, RegexTypeOK
<1>5. CacheCorrect'
  BY <1>1, <1>3 DEF RegexInv, CacheCorrect, RegexTypeOK
<1>6. \A b \in Pinned : content'[b] = content[b]
  BY <1>1, PinnedInUse
<1> QED BY <1>2, <1>4, <1>5, <1>6, PinFrame DEF EraseString, RegexInv

\* Replacement: the new entry is at an address that was free.
LEMMA ReplaceStringIInv ==
  ASSUME RegexInv, NEW a \in Addrs, NEW b \in Addrs, ReplaceString(a, b)
  PROVE  RegexInv'
<1> DEFINE c0 == FreeUnused({a}, Pinned)
<1>1. a # b /\ content[b] = NoKey /\ a \in inMap /\ content[a] # NoKey
  BY DEF ReplaceString, RegexInv, Lockstep
<1>2. c0 \in [Addrs -> Keys \cup {NoKey}]
  BY DEF FreeUnused, RegexInv, RegexTypeOK
<1>3. content' = [c0 EXCEPT ![b] = content[a]]
  BY DEF ReplaceString
<1>4. /\ content' \in [Addrs -> Keys \cup {NoKey}]
      /\ content'[b] = content[a]
      /\ \A x \in Addrs \ {b} : x # a \/ x \in Pinned => content'[x] = content[x]
  BY <1>2, <1>3 DEF FreeUnused, RegexInv, RegexTypeOK
<1>5. RegexTypeOK' BY <1>4 DEF ReplaceString, RegexInv, RegexTypeOK
<1>6. b \notin inMap BY <1>1 DEF RegexInv, Lockstep
<1>7. /\ strings' = (strings \ {a}) \cup {b} /\ inMap' = (inMap \ {a}) \cup {b}
      /\ known' = known
      /\ \A r \in Regexes :
            /\ queue'[r] = (queue[r] \ {a}) \cup (IF r \in known THEN {b} ELSE {})
            /\ matched'[r] = matched[r] \ {a}
  BY DEF ReplaceString
<1>8. Lockstep'
  <2>1. strings' = inMap' /\ \A x \in inMap' : content'[x] # NoKey
    BY <1>1, <1>4, <1>7 DEF RegexInv, Lockstep, RegexTypeOK
  <2>2. \A x, y \in inMap' : content'[x] = content'[y] => x = y
    BY <1>1, <1>4, <1>7 DEF RegexInv, Lockstep, RegexTypeOK
  <2>3. \A r \in Regexes : /\ matched'[r] \cup queue'[r] \subseteq strings'
                           /\ matched'[r] \cap queue'[r] = {}
                           /\ r \notin known' => matched'[r] = {} /\ queue'[r] = {}
    BY <1>6, <1>7 DEF RegexInv, Lockstep, RegexTypeOK
  <2> QED BY <2>1, <2>2, <2>3 DEF Lockstep
<1>9. CacheCorrect'
  BY <1>4, <1>6, <1>7 DEF RegexInv, CacheCorrect, RegexTypeOK, Lockstep
<1>10. \A x \in Pinned : content'[x] = content[x]
  BY <1>1, <1>4, PinnedInUse
<1> QED BY <1>5, <1>8, <1>9, <1>10, PinFrame DEF ReplaceString, RegexInv

\* Everything leaves the map and the cache.
LEMMA ClearStringsIInv ==
  ASSUME RegexInv, ClearStrings
  PROVE  RegexInv'
<1>1. /\ content' \in [Addrs -> Keys \cup {NoKey}]
      /\ \A b \in Addrs : b \in Pinned => content'[b] = content[b]
  BY FreeUnusedIs DEF ClearStrings, RegexInv, RegexTypeOK
<1>2. RegexTypeOK' BY <1>1 DEF ClearStrings, RegexInv, RegexTypeOK
<1>3. Lockstep' /\ CacheCorrect'
  BY DEF ClearStrings, Lockstep, CacheCorrect
<1>4. \A b \in Pinned : content'[b] = content[b]
  BY <1>1, PinnedInUse
<1> QED BY <1>2, <1>3, <1>4, PinFrame DEF ClearStrings, RegexInv

\* Forgetting patterns leaves what is known of the others.
LEMMA ForgetKeeps ==
  ASSUME RegexInv, NEW rs \in SUBSET Regexes, ForgetRegexes(rs), inMap' = inMap,
         \A a \in inMap : content'[a] = content[a]
  PROVE  /\ Lockstep' /\ CacheCorrect'
         /\ strings' \subseteq Addrs /\ known' \subseteq Regexes
         /\ queue' \in [Regexes -> SUBSET Addrs]
         /\ matched' \in [Regexes -> SUBSET Addrs]
  BY DEF RegexInv, ForgetRegexes, Lockstep, CacheCorrect, RegexTypeOK

\* Eviction of patterns.
LEMMA TrimStaleIInv ==
  ASSUME RegexInv, NEW rs \in SUBSET Regexes, TrimStale(rs)
  PROVE  RegexInv'
<1>1. Lockstep' /\ CacheCorrect' /\ RegexTypeOK'
  BY ForgetKeeps DEF TrimStale, RegexInv, RegexTypeOK
<1>2. \A b \in Pinned : content'[b] = content[b]
  BY DEF TrimStale
<1> QED BY <1>1, <1>2, PinFrame DEF TrimStale, RegexInv

-----------------------------------------------------------------------------
\* Strings that match, by their addresses, give the names that match.
LEMMA CopyExact ==
  ASSUME RegexInv, NEW r \in Regexes, NEW M \in SUBSET Addrs,
         \A a \in Addrs : a \in M <=> a \in inMap /\ content[a] \in Matches(r)
  PROVE  /\ {content[a] : a \in M} = Wanted(r)
         /\ Wanted(r) \subseteq Keys
<1>1. inMap \subseteq Addrs BY DEF RegexInv, RegexTypeOK
<1>2. Wanted(r) \subseteq Keys
  BY MatchAssumption DEF Wanted
<1>3. {content[a] : a \in M} = Wanted(r)
  BY <1>1 DEF Wanted, NamesInMap
<1> QED BY <1>2, <1>3

\* A lookup that returns frees only what has left the map and nobody else
\* keeps alive.
LEMMA ReturnFrame ==
  ASSUME RegexInv, NEW f \in Finders, NEW out \in SUBSET Keys, ReturnFound(f, out, out)
  PROVE  /\ content' \in [Addrs -> Keys \cup {NoKey}]
         /\ find' \in [Finders -> FindType]
         /\ \A a \in inMap : content'[a] = content[a]
         /\ PinInv' /\ FindsExactly'
<1> DEFINE new == [NoFind EXCEPT !.pc = "returned", !.out = out, !.want = out]
           others == UNION {find[g].alive : g \in Finders \ {f}}
<1>1. /\ new \in FindType /\ new.pc = "returned" /\ new.alive = {} /\ new.handle = {}
      /\ new.scanned = {} /\ new.hits = {} /\ new.out = out /\ new.want = out
  BY DEF NoFind, FindType
<1>2. find \in [Finders -> FindType] /\ inMap \subseteq Addrs
  BY DEF RegexInv, RegexTypeOK
<1>3. find' = [find EXCEPT ![f] = new]
  BY DEF ReturnFound
<1>4. find[f].alive \ inMap \subseteq Addrs
  BY <1>2, FindFields
<1>5. /\ content' \in [Addrs -> Keys \cup {NoKey}]
      /\ \A a \in Addrs : a \in inMap \/ a \in others => content'[a] = content[a]
  <2>1. content' = FreeUnused(find[f].alive \ inMap, others)
    BY DEF ReturnFound
  <2> QED BY <2>1 DEF FreeUnused, RegexInv, RegexTypeOK
<1> HIDE DEF new
<1>6. find' \in [Finders -> FindType] /\ find'[f] = new
      /\ \A g \in Finders \ {f} : find'[g] = find[g]
  BY <1>1, <1>2, <1>3
<1>7. FindsExactly'
  BY <1>1, <1>6 DEF FindsExactly, RegexInv
<1>8. PinInv'
  <2> SUFFICES ASSUME NEW g \in Finders
               PROVE  /\ find'[g].pc \notin {"idle", "returned"} => find'[g].regex \in Regexes
                      /\ find'[g].pc \notin {"scan", "publish"} => find'[g].alive = {}
                      /\ find'[g].handle \cup find'[g].scanned \subseteq find'[g].alive
                      /\ find'[g].hits = Hits(find[g].regex, find[g].scanned)'
                      /\ \A a \in find'[g].alive : content'[a] # NoKey
    BY DEF PinInv
  <2>1. CASE g = f
    BY <1>1, <1>6, <2>1 DEF Hits
  <2>2. CASE g # f
    <3>1. find'[g] = find[g] /\ find[g].alive \subseteq Addrs
      BY <1>2, <1>6, <2>2, FindFields
    <3>2. \A a \in find[g].alive : content'[a] = content[a]
      BY <1>5, <2>2, <3>1
    <3>3. Hits(find[g].regex, find[g].scanned)' = Hits(find[g].regex, find[g].scanned)
      BY <3>1, <3>2 DEF Hits, RegexInv, PinInv
    <3> QED BY <3>1, <3>2, <3>3 DEF RegexInv, PinInv
  <2> QED BY <2>1, <2>2
<1> QED BY <1>2, <1>5, <1>6, <1>7, <1>8

\* A step of one lookup that frees nothing.
LEMMA OwnStepFrame ==
  ASSUME RegexInv, NEW f \in Finders, NEW new \in FindType,
         find' = [find EXCEPT ![f] = new], content' = content,
         new.pc \notin {"idle", "returned"} => new.regex \in Regexes,
         new.pc \notin {"scan", "publish"} => new.alive = {},
         new.handle \cup new.scanned \subseteq new.alive,
         new.hits = Hits(new.regex, new.scanned),
         \A a \in new.alive : content[a] # NoKey,
         new.out = new.want
  PROVE  find' \in [Finders -> FindType] /\ PinInv' /\ FindsExactly'
<1>1. find \in [Finders -> FindType] BY DEF RegexInv, RegexTypeOK
<1>2. find' \in [Finders -> FindType] /\ find'[f] = new
      /\ \A g \in Finders \ {f} : find'[g] = find[g]
  BY <1>1
<1>3. FindsExactly' BY <1>2 DEF FindsExactly, RegexInv
<1>4. PinInv' BY <1>2 DEF PinInv, RegexInv, Hits
<1> QED BY <1>2, <1>3, <1>4

\* A cache in which one pattern is now settled, the rest as before.
LEMMA SettleKeeps ==
  ASSUME RegexInv, NEW r \in Regexes, NEW M \in SUBSET Addrs,
         inMap' = inMap, strings' = strings, known' = known \cup {r},
         matched' = [matched EXCEPT ![r] = M], queue' = [queue EXCEPT ![r] = {}],
         \A a \in inMap : content'[a] = content[a],
         \A a \in Addrs : a \in M <=> a \in inMap /\ content[a] \in Matches(r)
  PROVE  /\ Lockstep' /\ CacheCorrect'
         /\ strings' \subseteq Addrs /\ known' \subseteq Regexes
         /\ queue' \in [Regexes -> SUBSET Addrs]
         /\ matched' \in [Regexes -> SUBSET Addrs]
<1>1. /\ matched'[r] = M /\ queue'[r] = {}
      /\ \A s \in Regexes \ {r} : matched'[s] = matched[s] /\ queue'[s] = queue[s]
      /\ queue' \in [Regexes -> SUBSET Addrs] /\ matched' \in [Regexes -> SUBSET Addrs]
      /\ strings' \subseteq Addrs /\ known' \subseteq Regexes
  BY DEF RegexInv, RegexTypeOK
<1>2. Lockstep' BY <1>1 DEF RegexInv, Lockstep
<1>3. CacheCorrect' BY <1>1 DEF RegexInv, CacheCorrect, Lockstep, RegexTypeOK
<1> QED BY <1>1, <1>2, <1>3

\* Nothing changes in the cache, and nothing in the map is freed.
LEMMA CacheFrame ==
  ASSUME RegexInv, UNCHANGED <<inMap, cacheVars>>, \A a \in inMap : content'[a] = content[a]
  PROVE  Lockstep' /\ CacheCorrect'
  BY DEF RegexInv, Lockstep, CacheCorrect, RegexTypeOK, cacheVars

-----------------------------------------------------------------------------
\* The pattern of a lookup under way is a pattern.
LEMMA RegexOf ==
  ASSUME RegexInv, NEW f \in Finders, find[f].pc \notin {"idle", "returned"}
  PROVE  find[f].regex \in Regexes
  BY DEF RegexInv, PinInv

\* A lookup starts.
LEMMA GetRegexKeysIInv ==
  ASSUME RegexInv, NEW f \in Finders, NEW r \in Regexes, GetRegexKeys(f, r)
  PROVE  RegexInv'
<1> DEFINE new == [find[f] EXCEPT !.pc = "check", !.regex = r]
<1>1. find[f] \in FindType BY DEF RegexInv, RegexTypeOK
<1>2. new \in FindType /\ new.pc = "check" /\ new.regex = r
      /\ new.alive = find[f].alive /\ new.handle = find[f].handle
      /\ new.scanned = find[f].scanned /\ new.hits = find[f].hits
      /\ new.out = find[f].out /\ new.want = find[f].want
  BY <1>1 DEF FindType
<1>3. find' = [find EXCEPT ![f] = new]
  BY DEF GetRegexKeys, RegexInv, RegexTypeOK
<1>4. find[f].alive = {} /\ find[f].scanned = {} /\ find[f].handle = {} /\ find[f].hits = {}
  BY DEF GetRegexKeys, FinderAt, RegexInv, PinInv, Hits
<1>5. new.out = new.want BY <1>2 DEF RegexInv, FindsExactly
<1> HIDE DEF new
<1>6. new.hits = Hits(new.regex, new.scanned) BY <1>2, <1>4 DEF Hits
<1>7. find' \in [Finders -> FindType] /\ PinInv' /\ FindsExactly'
  <2>1. content' = content BY DEF GetRegexKeys
  <2> QED BY <2>1, <1>2, <1>3, <1>4, <1>5, <1>6, OwnStepFrame
<1> QED BY <1>7, CacheFrame DEF GetRegexKeys, RegexInv, RegexTypeOK, cacheVars

\* The answer is in the cache, or the lookup goes on.
LEMMA ReadyReturn ==
  ASSUME RegexInv, NEW f \in Finders, NEW r \in Regexes, IsReady(r),
         ReturnFound(f, Found(r), Wanted(r)), UNCHANGED <<inMap, cacheVars>>
  PROVE  RegexInv'
<1>1. \A a \in Addrs : a \in matched[r] <=> a \in inMap /\ content[a] \in Matches(r)
  BY DEF RegexInv, RegexTypeOK, Lockstep, CacheCorrect, IsReady
<1>2. matched[r] \in SUBSET Addrs BY DEF RegexInv, RegexTypeOK
<1>3. Found(r) = Wanted(r) /\ Wanted(r) \subseteq Keys
  BY <1>1, <1>2, CopyExact DEF Found
<1>4. ReturnFound(f, Wanted(r), Wanted(r)) BY <1>3
<1> HIDE DEF Wanted
<1>5. /\ content' \in [Addrs -> Keys \cup {NoKey}]
      /\ find' \in [Finders -> FindType]
      /\ \A a \in inMap : content'[a] = content[a]
      /\ PinInv' /\ FindsExactly'
  BY <1>3, <1>4, ReturnFrame
<1>6. Lockstep' /\ CacheCorrect' BY <1>5, CacheFrame
<1>7. RegexTypeOK' BY <1>5 DEF RegexInv, RegexTypeOK, cacheVars
<1> QED BY <1>5, <1>6, <1>7 DEF RegexInv

\* One pattern is settled and the lookup returns what matches it.
LEMMA SettledReturn ==
  ASSUME RegexInv, NEW f \in Finders, NEW r \in Regexes, NEW M \in SUBSET Addrs,
         inMap' = inMap, strings' = strings, known' = known \cup {r},
         matched' = [matched EXCEPT ![r] = M], queue' = [queue EXCEPT ![r] = {}],
         \A a \in Addrs : a \in M <=> a \in inMap /\ content[a] \in Matches(r),
         ReturnFound(f, {content[a] : a \in matched'[r]}, Wanted(r))
  PROVE  RegexInv'
<1>1. matched'[r] = M BY DEF RegexInv, RegexTypeOK
<1>2. {content[a] : a \in M} = Wanted(r) /\ Wanted(r) \subseteq Keys
  BY CopyExact
<1>3. ReturnFound(f, Wanted(r), Wanted(r)) BY <1>1, <1>2
<1>4. /\ content' \in [Addrs -> Keys \cup {NoKey}]
      /\ find' \in [Finders -> FindType]
      /\ \A a \in inMap : content'[a] = content[a]
      /\ PinInv' /\ FindsExactly'
  BY <1>2, <1>3, ReturnFrame
<1>5. /\ Lockstep' /\ CacheCorrect'
      /\ strings' \subseteq Addrs /\ known' \subseteq Regexes
      /\ queue' \in [Regexes -> SUBSET Addrs]
      /\ matched' \in [Regexes -> SUBSET Addrs]
  BY <1>4, SettleKeeps
<1>6. RegexTypeOK' BY <1>4, <1>5 DEF RegexInv, RegexTypeOK
<1> QED BY <1>4, <1>5, <1>6 DEF RegexInv

\* The first look, under the shared lock.
LEMMA CheckReadyIInv ==
  ASSUME RegexInv, NEW f \in Finders, CheckReady(f)
  PROVE  RegexInv'
<1> DEFINE r == find[f].regex
<1>1. r \in Regexes BY RegexOf DEF CheckReady, FinderAt
<1>2. CASE IsReady(r)
  BY <1>1, <1>2, ReadyReturn DEF CheckReady
<1>3. CASE ~IsReady(r)
  <2> DEFINE label == IF inMap = {} THEN "locked" ELSE "pin"
             new == [find[f] EXCEPT !.pc = label]
  <2>1. find[f] \in FindType BY DEF RegexInv, RegexTypeOK
  <2>2. find' = [find EXCEPT ![f] = new] /\ content' = content
        /\ UNCHANGED <<inMap, cacheVars>>
    BY <1>3, <2>1 DEF CheckReady, RegexInv, RegexTypeOK
  <2>3. new \in FindType /\ new.pc \in {"locked", "pin"} /\ new.regex = r
        /\ new.alive = find[f].alive /\ new.handle = find[f].handle
        /\ new.scanned = find[f].scanned /\ new.hits = find[f].hits
        /\ new.out = find[f].out /\ new.want = find[f].want
    BY <2>1 DEF FindType
  <2>4. /\ find[f].alive = {}
        /\ find[f].handle \cup find[f].scanned \subseteq find[f].alive
        /\ find[f].hits = Hits(r, find[f].scanned)
        /\ find[f].out = find[f].want
    BY DEF CheckReady, FinderAt, RegexInv, PinInv, FindsExactly
  <2> HIDE DEF new
  <2>5. find' \in [Finders -> FindType] /\ PinInv' /\ FindsExactly'
    BY <1>1, <2>2, <2>3, <2>4, OwnStepFrame
  <2> QED BY <2>2, <2>5, CacheFrame DEF RegexInv, RegexTypeOK, cacheVars
<1> QED BY <1>2, <1>3

\* The whole lookup under the exclusive lock.
LEMMA FindLockedIInv ==
  ASSUME RegexInv, NEW f \in Finders, FindLocked(f)
  PROVE  RegexInv'
<1> DEFINE r == find[f].regex
           M == matched[r] \cup Hits(r, QueueOf(r))
<1>1. r \in Regexes BY RegexOf DEF FindLocked, FinderAt
<1>2. M \in SUBSET Addrs BY <1>1 DEF RegexInv, RegexTypeOK, Hits, QueueOf
<1>3. \A a \in Addrs : a \in M <=> a \in inMap /\ content[a] \in Matches(r)
  BY <1>1 DEF RegexInv, RegexTypeOK, Lockstep, CacheCorrect, Hits, QueueOf
<1>4. /\ inMap' = inMap /\ strings' = strings /\ known' = known \cup {r}
      /\ matched' = [matched EXCEPT ![r] = M] /\ queue' = [queue EXCEPT ![r] = {}]
      /\ ReturnFound(f, {content[a] : a \in matched'[r]}, Wanted(r))
  BY <1>1 DEF FindLocked, PrepareToFindMatches, RegexInv, RegexTypeOK
<1> QED BY <1>1, <1>2, <1>3, <1>4, SettledReturn

\* Every entry is kept alive, and the strings to look at are among them.
LEMMA PinIInv ==
  ASSUME RegexInv, NEW f \in Finders, Pin(f)
  PROVE  RegexInv'
<1> DEFINE r == find[f].regex
<1>1. r \in Regexes BY RegexOf DEF Pin, FinderAt
<1>2. CASE IsReady(r)
  BY <1>1, <1>2, ReadyReturn DEF Pin
<1>3. CASE ~IsReady(r)
  <2> DEFINE new == [find[f] EXCEPT !.pc = "scan", !.alive = inMap, !.handle = QueueOf(r)]
  <2>1. find[f] \in FindType /\ inMap \subseteq Addrs /\ QueueOf(r) \subseteq inMap
    BY <1>1 DEF RegexInv, RegexTypeOK, Lockstep, QueueOf
  <2>2. /\ find' = [find EXCEPT ![f] = new] /\ content' = content
        /\ inMap' = inMap /\ strings' = strings /\ matched' = matched
        /\ known' = known \cup {r} /\ queue' = [queue EXCEPT ![r] = QueueOf(r)]
    BY <1>3, <2>1 DEF Pin, RegexInv, RegexTypeOK
  <2>3. new \in FindType /\ new.pc = "scan" /\ new.regex = r
        /\ new.alive = inMap /\ new.handle = QueueOf(r)
        /\ new.scanned = find[f].scanned /\ new.hits = find[f].hits
        /\ new.out = find[f].out /\ new.want = find[f].want
    BY <2>1 DEF FindType
  <2>4. /\ find[f].scanned = {}
        /\ find[f].hits = Hits(r, find[f].scanned)
        /\ find[f].out = find[f].want
    BY DEF Pin, FinderAt, RegexInv, PinInv, FindsExactly
  <2>5. \A a \in inMap : content[a] # NoKey BY DEF RegexInv, Lockstep
  <2> HIDE DEF new
  <2>6. find' \in [Finders -> FindType] /\ PinInv' /\ FindsExactly'
    BY <1>1, <2>1, <2>2, <2>3, <2>4, <2>5, OwnStepFrame
  <2>7. RegexTypeOK' BY <1>1, <2>1, <2>2, <2>6 DEF RegexInv, RegexTypeOK
  <2>8. Lockstep' BY <1>1, <2>2 DEF RegexInv, Lockstep, QueueOf, RegexTypeOK
  <2>9. CacheCorrect' BY <1>1, <2>2 DEF RegexInv, Lockstep, CacheCorrect, QueueOf, RegexTypeOK
  <2> QED BY <2>6, <2>7, <2>8, <2>9 DEF RegexInv
<1> QED BY <1>2, <1>3

\* One string is matched with no lock held.
LEMMA ScanIInv ==
  ASSUME RegexInv, NEW f \in Finders, NEW a \in Addrs, Scan(f, a)
  PROVE  RegexInv'
<1> DEFINE r == find[f].regex
           new == [find[f] EXCEPT !.handle = @ \ {a}, !.scanned = @ \cup {a},
                                  !.hits = @ \cup Hits(r, {a})]
<1>1. r \in Regexes BY RegexOf DEF Scan, FinderAt
<1>2. find[f] \in FindType /\ Hits(r, {a}) \subseteq Addrs
  BY DEF RegexInv, RegexTypeOK, Hits
<1>3. find' = [find EXCEPT ![f] = new]
  BY <1>2 DEF Scan, RegexInv, RegexTypeOK
<1>4. new \in FindType /\ new.pc = find[f].pc /\ new.regex = r
      /\ new.alive = find[f].alive /\ new.handle = find[f].handle \ {a}
      /\ new.scanned = find[f].scanned \cup {a}
      /\ new.hits = find[f].hits \cup Hits(r, {a})
      /\ new.out = find[f].out /\ new.want = find[f].want
  BY <1>2 DEF FindType
<1>5. /\ a \in find[f].handle /\ find[f].pc = "scan"
      /\ find[f].handle \cup find[f].scanned \subseteq find[f].alive
      /\ find[f].hits = Hits(r, find[f].scanned)
      /\ \A b \in find[f].alive : content[b] # NoKey
      /\ find[f].out = find[f].want
  BY DEF Scan, FinderAt, RegexInv, PinInv, FindsExactly
<1>6. Hits(r, find[f].scanned) \cup Hits(r, {a}) = Hits(r, find[f].scanned \cup {a})
  BY DEF Hits
<1> HIDE DEF new
<1>7. find' \in [Finders -> FindType] /\ PinInv' /\ FindsExactly'
  <2>1. content' = content BY DEF Scan
  <2> QED BY <2>1, <1>1, <1>3, <1>4, <1>5, <1>6, OwnStepFrame
<1> QED BY <1>7, CacheFrame DEF Scan, RegexInv, RegexTypeOK, cacheVars

\* The scan is over.
LEMMA ScanEndsIInv ==
  ASSUME RegexInv, NEW f \in Finders, ScanEnds(f)
  PROVE  RegexInv'
<1> DEFINE new == [find[f] EXCEPT !.pc = "publish"]
<1>1. find[f].regex \in Regexes BY RegexOf DEF ScanEnds, FinderAt
<1>2. find[f] \in FindType BY DEF RegexInv, RegexTypeOK
<1>3. find' = [find EXCEPT ![f] = new]
  BY <1>2 DEF ScanEnds, RegexInv, RegexTypeOK
<1>4. new \in FindType /\ new.pc = "publish" /\ new.regex = find[f].regex
      /\ new.alive = find[f].alive /\ new.handle = find[f].handle
      /\ new.scanned = find[f].scanned /\ new.hits = find[f].hits
      /\ new.out = find[f].out /\ new.want = find[f].want
  BY <1>2 DEF FindType
<1>5. /\ find[f].handle \cup find[f].scanned \subseteq find[f].alive
      /\ find[f].hits = Hits(find[f].regex, find[f].scanned)
      /\ \A b \in find[f].alive : content[b] # NoKey
      /\ find[f].out = find[f].want
  BY DEF RegexInv, PinInv, FindsExactly
<1> HIDE DEF new
<1>6. find' \in [Finders -> FindType] /\ PinInv' /\ FindsExactly'
  <2>1. content' = content BY DEF ScanEnds
  <2> QED BY <2>1, <1>1, <1>3, <1>4, <1>5, OwnStepFrame
<1> QED BY <1>6, CacheFrame DEF ScanEnds, RegexInv, RegexTypeOK, cacheVars

\* The scan throws: the pattern is forgotten unless another lookup settled it.
LEMMA ScanThrowsIInv ==
  ASSUME RegexInv, NEW f \in Finders, ScanThrows(f)
  PROVE  RegexInv'
<1> DEFINE r == find[f].regex
<1>1. r \in Regexes BY RegexOf DEF ScanThrows, FinderAt
<1>2. /\ content' \in [Addrs -> Keys \cup {NoKey}]
      /\ find' \in [Finders -> FindType]
      /\ \A a \in inMap : content'[a] = content[a]
      /\ PinInv' /\ FindsExactly'
  <2>1. ReturnFound(f, {}, {}) BY DEF ScanThrows
  <2> QED BY <2>1, ReturnFrame
<1>3. CASE IsReady(r)
  BY <1>2, <1>3, CacheFrame DEF ScanThrows, RegexInv, RegexTypeOK, cacheVars
<1>4. CASE ~IsReady(r)
  <2>1. ForgetRegexes({r}) /\ inMap' = inMap BY <1>4 DEF ScanThrows
  <2>2. {r} \in SUBSET Regexes BY <1>1
  <2>3. /\ Lockstep' /\ CacheCorrect'
        /\ strings' \subseteq Addrs /\ known' \subseteq Regexes
        /\ queue' \in [Regexes -> SUBSET Addrs]
        /\ matched' \in [Regexes -> SUBSET Addrs]
    BY <1>2, <2>1, <2>2, ForgetKeeps
  <2> QED BY <1>2, <2>1, <2>3 DEF RegexInv, RegexTypeOK
<1> QED BY <1>3, <1>4

\* What was scanned is settled by address: the address still holds the string
\* that was matched, because it was kept alive.
LEMMA PublishIInv ==
  ASSUME RegexInv, NEW f \in Finders, Publish(f)
  PROVE  RegexInv'
<1> DEFINE r == find[f].regex
           done == find[f].scanned \cap queue[r]
           left == QueueOf(r) \ done
           M == matched[r] \cup (find[f].hits \cap done) \cup Hits(r, left)
<1>1. r \in Regexes BY RegexOf DEF Publish, FinderAt
<1>2. find[f].hits = Hits(r, find[f].scanned) BY DEF RegexInv, PinInv
<1>3. M \in SUBSET Addrs
  BY <1>1 DEF RegexInv, RegexTypeOK, Hits, QueueOf
<1>4. \A a \in Addrs : a \in M <=> a \in inMap /\ content[a] \in Matches(r)
  <2> SUFFICES ASSUME NEW a \in Addrs
               PROVE  a \in M <=> a \in inMap /\ content[a] \in Matches(r)
    OBVIOUS
  <2>1. /\ a \in find[f].hits \cap done <=> a \in done /\ content[a] \in Matches(r)
        /\ a \in Hits(r, left) <=> a \in left /\ content[a] \in Matches(r)
    BY <1>2 DEF Hits
  <2>2. done \subseteq queue[r] /\ queue[r] \subseteq QueueOf(r) /\ QueueOf(r) \subseteq inMap
        /\ matched[r] \subseteq inMap
    BY <1>1 DEF QueueOf, RegexInv, Lockstep, RegexTypeOK
  <2>3. a \in inMap \ QueueOf(r) => (a \in matched[r] <=> content[a] \in Matches(r))
    BY <1>1 DEF RegexInv, Lockstep, CacheCorrect, QueueOf
  <2>4. a \in matched[r] => content[a] \in Matches(r)
    BY <1>1 DEF RegexInv, Lockstep, CacheCorrect
  <2> QED BY <2>1, <2>2, <2>3, <2>4
<1>5. /\ inMap' = inMap /\ strings' = strings /\ known' = known \cup {r}
      /\ matched' = [matched EXCEPT ![r] = M] /\ queue' = [queue EXCEPT ![r] = {}]
      /\ ReturnFound(f, {content[a] : a \in matched'[r]}, Wanted(r))
  BY <1>1 DEF Publish, RegexInv, RegexTypeOK
<1> QED BY <1>1, <1>3, <1>4, <1>5, SettledReturn

\* The caller has used the result.
LEMMA DoneIInv ==
  ASSUME RegexInv, NEW f \in Finders, Done(f)
  PROVE  RegexInv'
<1>1. NoFind \in FindType /\ NoFind.pc = "idle" /\ NoFind.handle = {}
      /\ NoFind.scanned = {} /\ NoFind.alive = {} /\ NoFind.hits = {}
      /\ NoFind.out = NoFind.want
  BY DEF NoFind, FindType
<1>2. NoFind.hits = Hits(NoFind.regex, NoFind.scanned) BY <1>1 DEF Hits
<1>3. find' \in [Finders -> FindType] /\ PinInv' /\ FindsExactly'
  BY <1>1, <1>2, OwnStepFrame DEF Done
<1> QED BY <1>3, CacheFrame DEF Done, RegexInv, RegexTypeOK, cacheVars

-----------------------------------------------------------------------------
\* Every step keeps the inductive invariant.
LEMMA NextRegexInv == RegexInv /\ [RegexNext]_regexVars => RegexInv'
<1> SUFFICES ASSUME RegexInv, [RegexNext]_regexVars PROVE RegexInv'
  OBVIOUS
<1>1. CASE MapStep
  BY <1>1, AddStringIInv, EraseStringIInv, ReplaceStringIInv, ClearStringsIInv,
     TrimStaleIInv DEF MapStep
<1>2. ASSUME NEW f \in Finders, FindStep(f) PROVE RegexInv'
  BY <1>2, GetRegexKeysIInv, CheckReadyIInv, FindLockedIInv, PinIInv, ScanIInv,
     ScanEndsIInv, ScanThrowsIInv, PublishIInv, DoneIInv DEF FindStep
<1>3. CASE UNCHANGED regexVars
  BY <1>3 DEF regexVars, cacheVars, RegexInv, RegexTypeOK, Lockstep, CacheCorrect, PinInv,
     FindsExactly, Hits
<1> QED BY <1>1, <1>2, <1>3 DEF RegexNext

\* The inductive invariant holds throughout.
THEOREM RegexInvariant == RegexSpec => []RegexInv
  BY InitRegexInv, NextRegexInv, PTL DEF RegexSpec

\* The map and the cache hold the same strings, for any number of threads.
THEOREM StaysInLockstep == RegexSpec => []Lockstep
<1>1. RegexInv => Lockstep BY DEF RegexInv
<1> QED BY <1>1, RegexInvariant, PTL

\* What the cache has settled is right for the string at the address, however
\* addresses are reused while scans are under way.
THEOREM CacheStaysCorrect == RegexSpec => []CacheCorrect
<1>1. RegexInv => CacheCorrect BY DEF RegexInv
<1> QED BY <1>1, RegexInvariant, PTL

\* The scan without a lock never looks at a freed string.
THEOREM ScansSeeLive == RegexSpec => []ScanSeesLive
<1>1. RegexInv => ScanSeesLive BY DEF RegexInv, PinInv, ScanSeesLive
<1> QED BY <1>1, RegexInvariant, PTL

\* Every lookup returns exactly the names that match when it copies them.
THEOREM LookupsExact == RegexSpec => []FindsExactly
<1>1. RegexInv => FindsExactly BY DEF RegexInv
<1> QED BY <1>1, RegexInvariant, PTL
=============================================================================
