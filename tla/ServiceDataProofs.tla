-------------------------- MODULE ServiceDataProofs --------------------------
(***************************************************************************)
(* Proofs about ServiceData, for any threads, names, types and numbers of  *)
(* calls.                                                                  *)
(***************************************************************************)
EXTENDS ServiceData, FiniteSetTheorems, TLAPS

\* Calls that are to make a stat, and those that are to make a quantile stat.
Making == {t \in Threads : call[t].pc \in {"find", "create"}}
Offering == {t \in Threads : call[t].pc = "getQuantile"}
CountInv ==
    /\ calls \in 0..MaxCalls /\ made \in Nat /\ offered \in Nat
    /\ made + Cardinality(Making) <= calls /\ offered + Cardinality(Offering) <= calls

\* A call has the arguments it was made with, and the stat it found or made.
Named == {"find", "create", "register", "use", "hold", "lockMap", "unregister", "getQuantile",
          "checkQuantile", "insertQuantile", "addQuantile", "tryCounter", "upsertCounter"}
Labels == {"idle", "find", "create", "register", "use", "hold", "lockMap", "unregister",
           "visitAll", "visit", "read", "getQuantile", "checkQuantile", "insertQuantile",
           "addQuantile", "tryCounter", "upsertCounter", "zeroFlat", "resetFlat", "resetStats",
           "resetQuantiles", "clearCounters"}
Ops == {None, "add", "clear", "lock", "export", "unexport", "flush", "zero", "reset", "read",
        "quantile", "increment", "set"}
Shape == [pc : Labels, op : Ops, name : Names \cup {None},
          types : SUBSET (Types \cup Defs \cup Counters), item : Stats \cup {None},
          todo : SUBSET Counters, visit : SUBSET Stats, waitFor : SUBSET Threads]
CallOK(t) ==
    /\ call[t] \in Shape
    /\ call[t].pc \in Named => call[t].name \in Names
    /\ call[t].pc \in {"find", "create", "register"} => call[t].types \subseteq Types
    /\ call[t].pc = "getQuantile" => call[t].types \subseteq Defs
    /\ call[t].pc \in {"register", "unregister"} =>
          call[t].todo \subseteq CountersOf(call[t].name, Types)
    /\ call[t].pc \in {"register", "use", "hold"} =>
          /\ call[t].item \in 1..made
          /\ \A n \in Names : statMap[n] = call[t].item => n = call[t].name
    /\ call[t].pc \in {"checkQuantile", "insertQuantile", "addQuantile"} =>
          call[t].item \in 1..offered
CallInv == call \in [Threads -> Shape] /\ \A t \in Threads : CallOK(t)

\* A stat is of one name and has the values that were added to the name.
StatInv ==
    /\ statMap \in [Names -> (1..made) \cup {None}]
    /\ samples \in [Stats -> Nat] /\ owed \in [Names -> Nat] /\ asked \in [Stats -> SUBSET Types]
    /\ dynamic \in [Counters -> (1..made) \cup {None}]
    /\ \A s \in Stats : s > made => samples[s] = 0 /\ asked[s] = {}
    /\ \A n, m \in Names : statMap[n] = statMap[m] /\ statMap[n] # None => n = m
    /\ \A n \in Names : owed[n] = IF statMap[n] = None THEN 0 ELSE samples[statMap[n]]

LockInv == /\ writer \in Threads \cup {None}
           /\ \A t \in Threads : call[t].pc \in {"unregister", "visit"} <=> writer = t

\* A name nobody removes while it is exported is exported for the stat in the
\* map, and not exported while it is removed; resetAllData() has emptied the map.
Exports(n) == \E u \in Threads : call[u].pc = "register" /\ call[u].name = n
ExportOK(t) ==
    call[t].pc = "register" /\ call[t].name \notin raced => statMap[call[t].name] = call[t].item
RemoveOK(t) ==
    call[t].pc = "unregister" /\ call[t].name \notin raced =>
        /\ ~Exports(call[t].name)
        /\ \A y \in Types : <<call[t].name, y>> \notin call[t].todo =>
               dynamic[<<call[t].name, y>>] = None
ClearOK(t) ==
    call[t].pc = "clearCounters" => \A n \in Names \ raced, y \in Types :
        <<n, y>> \notin call[t].todo => dynamic[<<n, y>>] = None
ResetOK == Resetting => \A n \in Names \ raced : statMap[n] = None
ExportInv == /\ \A t \in Threads : ExportOK(t) /\ RemoveOK(t) /\ ClearOK(t)
             /\ ResetOK

\* The counters of a name are those of its stat, as far as it is exported.
UnderwayBy(t, n, y) ==
    /\ call[t].name = n
    /\ \/ call[t].pc = "register" /\ <<n, y>> \in call[t].todo
       \/ call[t].pc = "unregister"
Underway(n, y) == \E t \in Threads : UnderwayBy(t, n, y)
ShowOK(n, y) ==
    /\ dynamic[<<n, y>>] \in {None, statMap[n]}
    /\ statMap[n] # None /\ y \in asked[statMap[n]] =>
          dynamic[<<n, y>>] = statMap[n] \/ Underway(n, y)
ShowInv == ~Resetting => \A n \in Names \ (stale \cup raced), y \in Types : ShowOK(n, y)

\* Quantile stats that are handed out are registered ones.
GivenOK(t) ==
    call[t].pc = "addQuantile" => call[t].item \in {bases[call[t].name]} \cup forgotten
KeyOK(n, d) == keys[<<n, d>>] = IF bases[n] # None /\ d \in defsOf[bases[n]]
                                THEN bases[n] ELSE None
QuantileInv ==
    /\ bases \in [Names -> (1..offered) \cup {None}] /\ defsOf \in [Stats -> SUBSET Defs]
    /\ keys \in [Keys -> (1..offered) \cup {None}] /\ forgotten \subseteq 1..offered
    /\ \A t \in Threads : GivenOK(t)
    /\ \A n \in Names, d \in Defs : KeyOK(n, d)

FlatInv ==
    \A k \in Names : \/ flat[k] = None /\ flatOwed[k] = 0
                     \/ flat[k] \in Nat /\ flatOwed[k] = flat[k]
SideInv == /\ flat \in [Names -> Nat \cup {None}] /\ flatOwed \in [Names -> Nat]
           /\ resets \in 0..MaxResets /\ stale \subseteq Names /\ raced \subseteq Names

IInv == /\ CountInv /\ CallInv /\ StatInv /\ LockInv /\ ExportInv /\ ShowInv
        /\ QuantileInv /\ FlatInv /\ SideInv


-----------------------------------------------------------------------------
(***************************************************************************)
(* A step of a thread.                                                     *)
(***************************************************************************)
\* Thread u is where it was, with what it had; threads other than t are.
Same(u) ==
    /\ call'[u] \in Shape /\ call'[u].pc = call[u].pc /\ call'[u].name = call[u].name
    /\ call'[u].types = call[u].types /\ call'[u].item = call[u].item
    /\ call'[u].todo = call[u].todo
Only(t) == /\ call' \in [Threads -> Shape] /\ call'[t] \in Shape
           /\ \A u \in Threads \ {t} : Same(u)

\* What a call is, now.
LEMMA CallNow ==
  ASSUME IInv, NEW t \in Threads
  PROVE  /\ DOMAIN call = Threads /\ call \in [Threads -> Shape] /\ call[t] \in Shape /\ CallOK(t)
         /\ \A u \in Threads \ {t} : call[u] \in Shape
  BY DEF IInv, CallInv, CallOK

\* A call that is entirely new, or over.
LEMMA SetCall ==
  ASSUME IInv, NEW t \in Threads, NEW d \in Shape, call' = [call EXCEPT ![t] = d]
  PROVE  Only(t) /\ call'[t] = d
<1>1. /\ call \in [Threads -> Shape] /\ \A u \in Threads \ {t} : call[u] \in Shape BY CallNow
<1>2. call' \in [Threads -> Shape] /\ call'[t] = d /\ \A u \in Threads \ {t} : call'[u] = call[u]
  BY <1>1
<1>3. ASSUME NEW u \in Threads \ {t} PROVE Same(u)
  <2>1. call'[u] = call[u] /\ call[u] \in Shape BY <1>1, <1>2
  <2> QED BY <2>1 DEF Same
<1> QED BY <1>2, <1>3 DEF Only

\* The call of an idle thread.
LEMMA IdleIs == Idle \in Shape /\ Idle.pc = "idle"
  BY DEF Idle, Shape, Labels, Ops

\* A call returns.
LEMMA ReturnIs ==
  ASSUME IInv, NEW t \in Threads, Return(t)
  PROVE  Only(t) /\ call'[t].pc = "idle"
  BY IdleIs, SetCall DEF Return

\* A call goes on.
LEMMA GotoIs ==
  ASSUME IInv, NEW t \in Threads, NEW label \in Labels, Goto(t, label)
  PROVE  /\ Only(t) /\ call'[t].pc = label /\ call'[t].name = call[t].name
         /\ call'[t].types = call[t].types /\ call'[t].item = call[t].item
         /\ call'[t].todo = call[t].todo /\ call'[t].op = call[t].op
<1> DEFINE d == [call[t] EXCEPT !.pc = label]
<1>1. call[t] \in Shape BY CallNow
<1>2. /\ d \in Shape /\ d.pc = label /\ d.name = call[t].name /\ d.types = call[t].types
      /\ d.item = call[t].item /\ d.todo = call[t].todo /\ d.op = call[t].op
  BY <1>1 DEF Shape
<1>3. call' = [call EXCEPT ![t] = d] BY DEF Goto
<1> HIDE DEF d
<1>4. Only(t) /\ call'[t] = d BY <1>2, <1>3, SetCall
<1> QED BY <1>2, <1>4

\* A call begins.
LEMMA BeginIs ==
  ASSUME IInv, NEW t \in Threads, NEW op \in Ops, NEW label \in Labels,
         NEW name \in Names \cup {None}, NEW types \in SUBSET (Types \cup Defs),
         Begin(t, op, label, name, types)
  PROVE  /\ Only(t) /\ call[t].pc = "idle" /\ call'[t].pc = label /\ call'[t].name = name
         /\ call'[t].types = types /\ call'[t].op = op
         /\ calls < MaxCalls /\ calls' = calls + 1
<1> DEFINE d == [Idle EXCEPT !.pc = label, !.op = op, !.name = name, !.types = types]
<1>1. /\ d \in Shape /\ d.pc = label /\ d.name = name /\ d.types = types /\ d.op = op
  BY IdleIs DEF Shape
<1>2. call' = [call EXCEPT ![t] = d] BY DEF Begin
<1> HIDE DEF d
<1>3. Only(t) /\ call'[t] = d BY <1>1, <1>2, SetCall
<1> QED BY <1>1, <1>3 DEF Begin, At

One(b) == IF b THEN 1 ELSE 0

\* How many threads are in a set, after thread t came or went.
LEMMA CountMoves ==
  ASSUME NEW S \in SUBSET Threads, NEW R \in SUBSET Threads, NEW t \in Threads,
         R \ {t} = S \ {t}
  PROVE  /\ Cardinality(S) \in Nat /\ Cardinality(R) \in Nat
         /\ Cardinality(R) + One(t \in S) = Cardinality(S) + One(t \in R)
<1>1. IsFiniteSet(S) /\ IsFiniteSet(R) BY CallAssumption, FS_Subset
<1>2. Cardinality(S) \in Nat /\ Cardinality(R) \in Nat BY <1>1, FS_CardinalityType
<1>3. Cardinality(S \ {t}) = IF t \in S THEN Cardinality(S) - 1 ELSE Cardinality(S)
  BY <1>1, FS_RemoveElement
<1>4. Cardinality(R \ {t}) = IF t \in R THEN Cardinality(R) - 1 ELSE Cardinality(R)
  BY <1>1, FS_RemoveElement
<1> QED BY <1>2, <1>3, <1>4 DEF One

\* A call makes at most one stat.
LEMMA CountStep ==
  ASSUME IInv, NEW t \in Threads, Only(t), calls' \in 0..MaxCalls, made' \in Nat,
         offered' \in Nat,
         made' + One(call'[t].pc \in {"find", "create"}) + calls
            <= made + One(call[t].pc \in {"find", "create"}) + calls',
         offered' + One(call'[t].pc = "getQuantile") + calls
            <= offered + One(call[t].pc = "getQuantile") + calls'
  PROVE  CountInv'
<1>1. \A u \in Threads \ {t} : call'[u].pc = call[u].pc BY DEF Only, Same
<1>2. /\ calls \in Nat /\ made \in Nat /\ offered \in Nat /\ calls' \in Nat
      /\ made + Cardinality(Making) <= calls /\ offered + Cardinality(Offering) <= calls
  BY CallAssumption DEF IInv, CountInv
<1>3. /\ Cardinality(Making) \in Nat /\ Cardinality(Making') \in Nat
      /\ Cardinality(Making') + One(t \in Making) = Cardinality(Making) + One(t \in Making')
  <2>1. Making \in SUBSET Threads /\ Making' \in SUBSET Threads /\ Making' \ {t} = Making \ {t}
    BY <1>1 DEF Making
  <2> QED BY <2>1, CountMoves
<1>4. /\ Cardinality(Offering) \in Nat /\ Cardinality(Offering') \in Nat
      /\ Cardinality(Offering') + One(t \in Offering)
            = Cardinality(Offering) + One(t \in Offering')
  <2>1. /\ Offering \in SUBSET Threads /\ Offering' \in SUBSET Threads
        /\ Offering' \ {t} = Offering \ {t}
    BY <1>1 DEF Offering
  <2> QED BY <2>1, CountMoves
<1>5. /\ One(call'[t].pc \in {"find", "create"}) = One(t \in Making')
      /\ One(call[t].pc \in {"find", "create"}) = One(t \in Making)
      /\ One(call'[t].pc = "getQuantile") = One(t \in Offering')
      /\ One(call[t].pc = "getQuantile") = One(t \in Offering)
  BY DEF One, Making, Offering
<1>6. \A b : One(b) \in Nat BY DEF One
<1>7. made' + Cardinality(Making') <= calls' BY <1>2, <1>3, <1>5, <1>6
<1>8. offered' + Cardinality(Offering') <= calls' BY <1>2, <1>4, <1>5, <1>6
<1> QED BY <1>7, <1>8 DEF CountInv

-----------------------------------------------------------------------------
(***************************************************************************)
(* What a step of thread t leaves true of the others.                      *)
(***************************************************************************)
\* The other calls keep their stats: a name changes its stat only for a new one.
LEMMA CallFrame ==
  ASSUME IInv, NEW t \in Threads, Only(t), made' \in Nat, made' >= made, offered' \in Nat,
         offered' >= offered,
         \A n \in Names : statMap'[n] = statMap[n] \/ statMap'[n] = None \/ statMap'[n] > made,
         CallOK(t)'
  PROVE  CallInv'
<1>1. call' \in [Threads -> Shape] BY DEF Only
<1>2. ASSUME NEW u \in Threads \ {t} PROVE CallOK(u)'
  <2>1. CallOK(u) BY DEF IInv, CallInv
  <2>2. Same(u) BY DEF Only
  <2>3. None \notin Nat /\ made \in Nat /\ offered \in Nat
    BY CallAssumption DEF IInv, CountInv
  <2>4. /\ call'[u] \in Shape
        /\ call'[u].pc \in Named => call'[u].name \in Names
        /\ call'[u].pc \in {"find", "create", "register"} => call'[u].types \subseteq Types
        /\ call'[u].pc = "getQuantile" => call'[u].types \subseteq Defs
        /\ call'[u].pc \in {"register", "unregister"} =>
              call'[u].todo \subseteq CountersOf(call'[u].name, Types)
        /\ call'[u].pc \in {"checkQuantile", "insertQuantile", "addQuantile"} =>
              call'[u].item \in 1..offered'
    BY <2>1, <2>2, <2>3 DEF CallOK, Same
  <2>5. ASSUME call'[u].pc \in {"register", "use", "hold"}
        PROVE  /\ call'[u].item \in 1..made'
               /\ \A n \in Names : statMap'[n] = call'[u].item => n = call'[u].name
    <3>1. /\ call[u].item \in 1..made
          /\ \A n \in Names : statMap[n] = call[u].item => n = call[u].name
          /\ call'[u].item = call[u].item /\ call'[u].name = call[u].name
      BY <2>1, <2>2, <2>5 DEF CallOK, Same
    <3>2. ASSUME NEW n \in Names, statMap'[n] = call'[u].item PROVE n = call'[u].name
      BY <3>1, <3>2, <2>3
    <3> QED BY <3>1, <3>2, <2>3
  <2> QED BY <2>4, <2>5 DEF CallOK
<1> QED BY <1>1, <1>2 DEF CallInv

\* The map is locked by the call that is inside.
LEMMA LockKept ==
  ASSUME IInv, NEW t \in Threads, Only(t), writer' = writer,
         call[t].pc \in {"unregister", "visit"} <=> call'[t].pc \in {"unregister", "visit"}
  PROVE  LockInv'
  BY DEF IInv, LockInv, Only, Same

\* A call takes the lock.
LEMMA LockTaken ==
  ASSUME IInv, NEW t \in Threads, Only(t), writer = None, writer' = t,
         call'[t].pc \in {"unregister", "visit"}
  PROVE  LockInv'
<1>1. \A u \in Threads : u # None BY CallAssumption
<1> QED BY <1>1 DEF IInv, LockInv, Only, Same

\* A call releases the lock.
LEMMA LockReleased ==
  ASSUME IInv, NEW t \in Threads, Only(t), call[t].pc \in {"unregister", "visit"},
         writer' = None, call'[t].pc \notin {"unregister", "visit"}
  PROVE  LockInv'
<1>1. \A u \in Threads : u # None BY CallAssumption
<1> QED BY <1>1 DEF IInv, LockInv, Only, Same

\* The stats are what they were.
LEMMA StatsSame ==
  ASSUME IInv, UNCHANGED <<statMap, made, samples, owed, asked, dynamic>>
  PROVE  StatInv'
  BY DEF IInv, StatInv

\* The quantile stats are what they were.
LEMMA QuantilesSame ==
  ASSUME IInv, NEW t \in Threads, Only(t), UNCHANGED quantileVars, GivenOK(t)'
  PROVE  QuantileInv'
<1>1. QuantileInv /\ UNCHANGED <<bases, keys, offered, defsOf, forgotten>>
  BY DEF IInv, quantileVars
<1>2. ASSUME NEW u \in Threads \ {t} PROVE GivenOK(u)'
  BY <1>1 DEF QuantileInv, GivenOK, Only, Same
<1>3. \A n \in Names, d \in Defs : KeyOK(n, d)' BY <1>1 DEF QuantileInv, KeyOK
<1> QED BY <1>1, <1>2, <1>3 DEF QuantileInv

\* The flat counters are what they were.
LEMMA FlatSame ==
  ASSUME IInv, UNCHANGED <<flat, flatOwed>>, resets' \in 0..MaxResets, stale' \subseteq Names,
         raced' \subseteq Names
  PROVE  FlatInv' /\ SideInv'
<1>1. FlatInv' BY DEF IInv, FlatInv
<1>2. SideInv' BY DEF IInv, SideInv
<1> QED BY <1>1, <1>2

\* Names that are being exported, as a set and as a condition.
LEMMA ExportingIs ==
  ASSUME NEW n PROVE n \in Exporting <=> Exports(n)
  BY DEF Exporting, Exports, At

\* Exports remain those for the stat in the map.
LEMMA ExportFrame ==
  ASSUME IInv, NEW t \in Threads, Only(t), raced \subseteq raced',
         \A n \in Names : statMap'[n] = statMap[n] \/ ~Exports(n) \/ n \in raced',
         ExportOK(t)'
  PROVE  \A u \in Threads : ExportOK(u)'
<1>1. ASSUME NEW u \in Threads \ {t}, call'[u].pc = "register", call'[u].name \notin raced'
      PROVE  statMap'[call'[u].name] = call'[u].item
  <2>1. /\ call[u].pc = "register" /\ call[u].name \notin raced
        /\ call'[u].name = call[u].name /\ call'[u].item = call[u].item
    BY <1>1 DEF Only, Same
  <2>2. call[u].name \in Names BY <2>1 DEF IInv, CallInv, CallOK, Named
  <2>3. Exports(call[u].name) BY <2>1 DEF Exports
  <2>4. statMap[call[u].name] = call[u].item BY <2>1 DEF IInv, ExportInv, ExportOK
  <2> QED BY <1>1, <2>1, <2>2, <2>3, <2>4
<1> QED BY <1>1 DEF ExportOK

\* Nothing of a name that is removed is exported meanwhile.
LEMMA RemoveFrame ==
  ASSUME IInv, NEW t \in Threads, Only(t), raced \subseteq raced',
         \/ writer = None
         \/ call'[t].pc # "register"
         \/ call[t].pc = "register" /\ call'[t].name = call[t].name,
         \A n \in Names, y \in Types : \/ dynamic'[<<n, y>>] \in {dynamic[<<n, y>>], None}
                                       \/ Exports(n),
         RemoveOK(t)'
  PROVE  \A u \in Threads : RemoveOK(u)'
<1>1. ASSUME NEW u \in Threads \ {t}, call'[u].pc = "unregister", call'[u].name \notin raced'
      PROVE  /\ ~Exports(call[u].name)'
             /\ \A y \in Types : <<call'[u].name, y>> \notin call'[u].todo =>
                    dynamic'[<<call'[u].name, y>>] = None
  <2>1. /\ call[u].pc = "unregister" /\ call[u].name \notin raced
        /\ call'[u].name = call[u].name /\ call'[u].todo = call[u].todo
    BY <1>1 DEF Only, Same
  <2>2. call[u].name \in Names BY <2>1 DEF IInv, CallInv, CallOK, Named
  <2>3. /\ ~Exports(call[u].name)
        /\ \A y \in Types : <<call[u].name, y>> \notin call[u].todo =>
               dynamic[<<call[u].name, y>>] = None
    BY <2>1 DEF IInv, ExportInv, RemoveOK
  <2>4. writer # None BY <2>1, CallAssumption DEF IInv, LockInv
  <2>5. ASSUME NEW v \in Threads, call'[v].pc = "register" PROVE call'[v].name # call[u].name
    <3>1. CASE v = t BY <2>3, <2>4, <2>5, <3>1 DEF Exports
    <3>2. CASE v # t BY <2>3, <2>5, <3>2 DEF Exports, Only, Same
    <3> QED BY <3>1, <3>2
  <2>6. ~Exports(call[u].name)' BY <2>1, <2>5 DEF Exports
  <2> QED BY <2>1, <2>2, <2>3, <2>6
<1> QED BY <1>1 DEF RemoveOK

\* An exported name, unless it was removed meanwhile, is not one resetAllData() cleared.
LEMMA NoneExported ==
  ASSUME IInv, Resetting, NEW n \in Names \ raced PROVE ~Exports(n)
<1>1. statMap[n] = None BY DEF IInv, ExportInv, ResetOK
<1>2. ASSUME NEW u \in Threads, call[u].pc = "register", call[u].name = n PROVE FALSE
  <2>1. statMap[n] = call[u].item BY <1>2 DEF IInv, ExportInv, ExportOK
  <2>2. call[u].item \in 1..made BY <1>2 DEF IInv, CallInv, CallOK
  <2> QED BY <1>1, <2>1, <2>2, CallAssumption
<1> QED BY <1>2 DEF Exports

\* What resetAllData() has cleared stays clear.
LEMMA ClearFrame ==
  ASSUME IInv, NEW t \in Threads, Only(t), raced \subseteq raced',
         \A n \in Names, y \in Types : \/ dynamic'[<<n, y>>] \in {dynamic[<<n, y>>], None}
                                       \/ Exports(n),
         ClearOK(t)'
  PROVE  \A u \in Threads : ClearOK(u)'
<1>1. ASSUME NEW u \in Threads \ {t}, call'[u].pc = "clearCounters",
             NEW n \in Names \ raced', NEW y \in Types, <<n, y>> \notin call'[u].todo
      PROVE  dynamic'[<<n, y>>] = None
  <2>1. call[u].pc = "clearCounters" /\ call'[u].todo = call[u].todo BY <1>1 DEF Only, Same
  <2>2. Resetting BY <2>1 DEF Resetting
  <2>3. n \in Names \ raced OBVIOUS
  <2>4. ~Exports(n) BY <2>2, <2>3, NoneExported
  <2>5. dynamic[<<n, y>>] = None BY <1>1, <2>1, <2>3 DEF IInv, ExportInv, ClearOK
  <2> QED BY <2>4, <2>5
<1> QED BY <1>1 DEF ClearOK

\* The map stays empty while resetAllData() is in between.
LEMMA ResetFrame ==
  ASSUME IInv, NEW t \in Threads, Only(t), raced \subseteq raced',
         Resetting => \A n \in Names : statMap'[n] \in {statMap[n], None} \/ n \in raced',
         \/ call'[t].pc \notin {"resetQuantiles", "clearCounters"}
         \/ call[t].pc \in {"resetQuantiles", "clearCounters"}
         \/ \A n \in Names : statMap'[n] = None
  PROVE  ResetOK'
<1>1. SUFFICES ASSUME Resetting', NEW n \in Names \ raced' PROVE statMap'[n] = None
  BY DEF ResetOK
<1>2. \/ Resetting
      \/ \A m \in Names : statMap'[m] = None
  BY <1>1 DEF Resetting, Only, Same
<1>3. CASE Resetting
  <2>1. statMap[n] = None BY <1>3 DEF IInv, ExportInv, ResetOK
  <2> QED BY <1>3, <2>1
<1> QED BY <1>2, <1>3

\* A name this step is not about.
LEMMA ShowFrame ==
  ASSUME IInv, NEW t \in Threads, Only(t), ~Resetting,
         NEW n \in Names \ (stale \cup raced), NEW y \in Types,
         dynamic'[<<n, y>>] = dynamic[<<n, y>>], statMap'[n] = statMap[n],
         statMap[n] # None => asked'[statMap[n]] = asked[statMap[n]],
         UnderwayBy(t, n, y) => UnderwayBy(t, n, y)'
  PROVE  ShowOK(n, y)'
<1>1. ShowOK(n, y) BY DEF IInv, ShowInv
<1>2. ASSUME Underway(n, y) PROVE Underway(n, y)'
  <2>1. PICK u \in Threads : UnderwayBy(u, n, y) BY <1>2 DEF Underway
  <2>2. CASE u = t BY <2>1, <2>2 DEF Underway
  <2>3. CASE u # t
    <3>1. UnderwayBy(u, n, y)' BY <2>1, <2>3 DEF UnderwayBy, Only, Same
    <3> QED BY <3>1 DEF Underway
  <2> QED BY <2>2, <2>3
<1> QED BY <1>1, <1>2 DEF ShowOK

Quiet == {"register", "unregister", "resetQuantiles", "clearCounters"}

\* A step that touches neither stats nor counters, of a call that exports nothing.
LEMMA QuietStep ==
  ASSUME IInv, NEW t \in Threads, Only(t), UNCHANGED <<statMap, dynamic, asked, stale, raced>>,
         call[t].pc \notin Quiet, call'[t].pc \notin Quiet
  PROVE  ExportInv' /\ ShowInv'
<1>1. ExportOK(t)' /\ RemoveOK(t)' /\ ClearOK(t)' BY DEF ExportOK, RemoveOK, ClearOK, Quiet
<1>2. \A u \in Threads : ExportOK(u)' BY <1>1, ExportFrame
<1>3. call'[t].pc # "register" BY DEF Quiet
<1>4. \A u \in Threads : RemoveOK(u)' BY <1>1, <1>3, RemoveFrame
<1>5. \A u \in Threads : ClearOK(u)' BY <1>1, ClearFrame
<1>6. ResetOK'
  <2>1. call'[t].pc \notin {"resetQuantiles", "clearCounters"} BY DEF Quiet
  <2> QED BY <2>1, ResetFrame
<1>7. ExportInv' BY <1>2, <1>4, <1>5, <1>6 DEF ExportInv
<1>8. Resetting' <=> Resetting BY DEF Resetting, Only, Same, Quiet
<1>9. ASSUME ~Resetting, NEW n \in Names \ (stale \cup raced), NEW y \in Types
      PROVE  ShowOK(n, y)'
  <2>1. ~UnderwayBy(t, n, y) BY DEF UnderwayBy, Quiet
  <2> QED BY <1>9, <2>1, ShowFrame
<1>10. ShowInv' BY <1>8, <1>9 DEF ShowInv
<1> QED BY <1>7, <1>10

-----------------------------------------------------------------------------
(***************************************************************************)
(* Calls, and steps that leave the stats and counters alone.               *)
(***************************************************************************)
\* A label at which no stat is in hand and no lock is held.
Fresh == {"idle", "find", "create", "lockMap", "getQuantile", "tryCounter", "upsertCounter",
          "visitAll", "zeroFlat", "resetFlat", "resetStats"}

\* The call of t is well formed where it needs no stat.
LEMMA FreshOK ==
  ASSUME NEW t \in Threads, call'[t] \in Shape, call'[t].pc \in Fresh,
         call'[t].pc \in Named => call'[t].name \in Names,
         call'[t].pc \in {"find", "create"} => call'[t].types \subseteq Types,
         call'[t].pc = "getQuantile" => call'[t].types \subseteq Defs
  PROVE  CallOK(t)' /\ GivenOK(t)' /\ call'[t].pc \notin Quiet
         /\ call'[t].pc \notin {"unregister", "visit"}
  BY DEF CallOK, GivenOK, Fresh, Quiet

\* A call begins.
LEMMA BeginStep ==
  ASSUME IInv, NEW t \in Threads, NEW op \in Ops, NEW label \in Fresh,
         NEW name \in Names \cup {None}, NEW types \in SUBSET (Types \cup Defs),
         Begin(t, op, label, name, types), label # "idle", label # "create",
         label \in Named => name \in Names, label = "find" => types \subseteq Types,
         label = "getQuantile" => types \subseteq Defs,
         UNCHANGED <<statVars, quantileVars, flat, flatOwed>>, resets' \in 0..MaxResets
  PROVE  IInv'
<1>1. label \in Labels BY DEF Labels, Fresh
<1>2. /\ Only(t) /\ call[t].pc = "idle" /\ call'[t].pc = label /\ call'[t].name = name
      /\ call'[t].types = types /\ calls < MaxCalls /\ calls' = calls + 1
  BY <1>1, BeginIs
<1>3. /\ UNCHANGED <<statMap, writer, made, samples, dynamic, asked, owed, stale, raced>>
      /\ UNCHANGED <<bases, keys, offered, defsOf, forgotten>>
  BY DEF statVars, quantileVars
<1>4. /\ CallOK(t)' /\ GivenOK(t)' /\ call'[t].pc \notin Quiet
      /\ call'[t].pc \notin {"unregister", "visit"}
  <2>1. call'[t] \in Shape BY <1>2 DEF Only
  <2> QED BY <1>2, <2>1, FreshOK
<1>5. made \in Nat /\ offered \in Nat /\ calls \in 0..MaxCalls BY DEF IInv, CountInv
<1>6. CountInv'
  <2>1. calls' \in 0..MaxCalls BY <1>2, <1>5, CallAssumption
  <2>2. /\ One(call'[t].pc \in {"find", "create"}) <= 1 /\ One(call'[t].pc = "getQuantile") <= 1
        /\ One(call'[t].pc \in {"find", "create"}) \in Nat
        /\ One(call'[t].pc = "getQuantile") \in Nat
        /\ One(call[t].pc \in {"find", "create"}) \in Nat
        /\ One(call[t].pc = "getQuantile") \in Nat
    BY DEF One
  <2>3. /\ made' + One(call'[t].pc \in {"find", "create"}) + calls
             <= made + One(call[t].pc \in {"find", "create"}) + calls'
        /\ offered' + One(call'[t].pc = "getQuantile") + calls
             <= offered + One(call[t].pc = "getQuantile") + calls'
    BY <1>2, <1>3, <1>5, <2>2
  <2> QED BY <1>2, <1>3, <1>5, <2>1, <2>3, CountStep
<1>7. CallInv' BY <1>2, <1>3, <1>4, <1>5, CallFrame
<1>8. LockInv' BY <1>2, <1>3, <1>4, LockKept
<1>9. StatInv' BY <1>3, StatsSame
<1>10. call[t].pc \notin Quiet BY <1>2 DEF Quiet
<1>11. ExportInv' /\ ShowInv' BY <1>2, <1>3, <1>4, <1>10, QuietStep
<1>12. QuantileInv' BY <1>2, <1>4, QuantilesSame
<1>13. FlatInv' /\ SideInv' BY <1>3, FlatSame DEF IInv, SideInv
<1> QED BY <1>6, <1>7, <1>8, <1>9, <1>11, <1>12, <1>13 DEF IInv

\* A call goes on or returns, and no stat is made.
LEMMA CountSame ==
  ASSUME IInv, NEW t \in Threads, Only(t), UNCHANGED <<calls, made, offered>>,
         call'[t].pc \in {"find", "create"} => call[t].pc \in {"find", "create"},
         call'[t].pc # "getQuantile"
  PROVE  CountInv'
<1>1. made \in Nat /\ offered \in Nat /\ calls \in 0..MaxCalls /\ calls \in Nat
  BY CallAssumption DEF IInv, CountInv
<1>2. /\ One(call'[t].pc \in {"find", "create"}) <= One(call[t].pc \in {"find", "create"})
      /\ One(call'[t].pc = "getQuantile") <= One(call[t].pc = "getQuantile")
      /\ One(call'[t].pc \in {"find", "create"}) \in Nat
      /\ One(call'[t].pc = "getQuantile") \in Nat
      /\ One(call[t].pc \in {"find", "create"}) \in Nat
      /\ One(call[t].pc = "getQuantile") \in Nat
  BY DEF One
<1>3. /\ made' + One(call'[t].pc \in {"find", "create"}) + calls
           <= made + One(call[t].pc \in {"find", "create"}) + calls'
      /\ offered' + One(call'[t].pc = "getQuantile") + calls
           <= offered + One(call[t].pc = "getQuantile") + calls'
  BY <1>1, <1>2
<1> QED BY <1>1, <1>3, CountStep

\* The calls find their stats where they were.
LEMMA CallsSame ==
  ASSUME IInv, NEW t \in Threads, Only(t), UNCHANGED <<made, offered, statMap>>, CallOK(t)'
  PROVE  CallInv'
<1>1. made \in Nat /\ offered \in Nat BY DEF IInv, CountInv
<1> QED BY <1>1, CallFrame

\* What a call that is over or goes on without a stat leaves as it is.
LEMMA QuietKeeps ==
  ASSUME IInv, NEW t \in Threads, Only(t),
         UNCHANGED <<calls, statMap, made, dynamic, asked, stale, raced, offered>>,
         call[t].pc \notin Quiet, call'[t].pc \notin Quiet, CallOK(t)',
         call'[t].pc \in {"find", "create"} => call[t].pc \in {"find", "create"},
         call'[t].pc # "getQuantile"
  PROVE  CountInv' /\ CallInv' /\ ExportInv' /\ ShowInv'
<1>1. CountInv' BY CountSame
<1>2. CallInv' BY CallsSame
<1>3. ExportInv' /\ ShowInv' BY QuietStep
<1> QED BY <1>1, <1>2, <1>3

\* An idle call needs nothing.
LEMMA IdleOK ==
  ASSUME NEW t \in Threads, call'[t] \in Shape, call'[t].pc = "idle"
  PROVE  CallOK(t)' /\ GivenOK(t)' /\ call'[t].pc \notin Quiet
  BY DEF CallOK, GivenOK, Quiet, Named

\* What the model's variables being unchanged means, for each map.
LEMMA StatVarsSame ==
  ASSUME UNCHANGED statVars
  PROVE  UNCHANGED <<statMap, writer, made, samples, dynamic, asked, owed, stale, raced>>
  BY DEF statVars

\* The same for the quantile stats.
LEMMA QuantileVarsSame ==
  ASSUME UNCHANGED quantileVars PROVE UNCHANGED <<bases, keys, offered, defsOf, forgotten>>
  BY DEF quantileVars

\* The same for the flat counters.
LEMMA RestSame ==
  ASSUME IInv, UNCHANGED flatVars, stale' \subseteq Names, raced' \subseteq Names
  PROVE  FlatInv' /\ SideInv'
  BY FlatSame DEF flatVars, IInv, SideInv

-----------------------------------------------------------------------------
(***************************************************************************)
(* getStatPtrNoExport(): the stat of a name is found or made.              *)
(***************************************************************************)
\* The call has its stat, and exports it or uses it.
LEMMA HaveIs ==
  ASSUME IInv, NEW t \in Threads, NEW s \in Stats, NEW created \in BOOLEAN,
         call[t].pc \in {"find", "create"}, HaveStat(t, s, created)
  PROVE  /\ Only(t) /\ call'[t].name = call[t].name /\ call'[t].types = call[t].types
         /\ call'[t].item = s
         /\ \/ /\ call'[t].pc = "register"
               /\ call'[t].todo = CountersOf(call[t].name, call[t].types)
               /\ asked' = [asked EXCEPT ![s] = @ \cup call[t].types]
            \/ ~created /\ call'[t].pc = "use" /\ asked' = asked
<1> DEFINE export == created \/ call[t].op = "export"
           d == [call[t] EXCEPT !.item = s,
                   !.pc = IF export THEN "register" ELSE "use",
                   !.todo = IF export THEN CountersOf(call[t].name, call[t].types) ELSE {}]
<1>1. /\ call[t] \in Shape /\ call[t].name \in Names /\ call[t].types \subseteq Types
      /\ DOMAIN call = Threads
  BY CallNow DEF CallOK, Named
<1>2. CountersOf(call[t].name, call[t].types) \in SUBSET Counters
  BY <1>1 DEF CountersOf, Counters
<1>3. /\ d \in Shape /\ d.item = s /\ d.name = call[t].name /\ d.types = call[t].types
      /\ d.pc = (IF export THEN "register" ELSE "use")
      /\ d.todo = (IF export THEN CountersOf(call[t].name, call[t].types) ELSE {})
  BY <1>1, <1>2 DEF Shape, Labels
<1>4. call' = [call EXCEPT ![t] = d] BY <1>1 DEF HaveStat
<1>5. asked' = IF export THEN [asked EXCEPT ![s] = @ \cup call[t].types] ELSE asked
  BY DEF HaveStat
<1> HIDE DEF d
<1>6. Only(t) /\ call'[t] = d BY <1>3, <1>4, SetCall
<1> QED BY <1>3, <1>5, <1>6

\* A thread that is about to find or make the stat of a name.
LEMMA FindingIs ==
  ASSUME IInv, NEW t \in Threads, call[t].pc \in {"find", "create"}
  PROVE  /\ call[t].name \in Names /\ call[t].types \subseteq Types /\ call[t].pc \notin Quiet
         /\ made \in Nat /\ made < MaxCalls /\ offered \in Nat /\ calls \in Nat
<1>1. /\ call[t].name \in Names /\ call[t].types \subseteq Types
  BY CallNow DEF CallOK, Named
<1>2. call[t].pc \notin Quiet BY DEF Quiet
<1>3. IsFiniteSet(Making) /\ t \in Making BY CallAssumption, FS_Subset DEF Making
<1>4. Cardinality(Making) \in Nat /\ Cardinality(Making) # 0
  BY <1>3, FS_CardinalityType, FS_EmptySet
<1> QED BY <1>1, <1>2, <1>4, CallAssumption DEF IInv, CountInv

\* The call exports a stat that is in the map, or was just put there.
LEMMA HaveExport ==
  ASSUME IInv, NEW t \in Threads, Only(t), call[t].pc \in {"find", "create"}, writer = None,
         call'[t].name = call[t].name, call'[t].types = call[t].types,
         call'[t].pc = "register", NEW s \in Stats, call'[t].item = s,
         call'[t].todo = CountersOf(call[t].name, call[t].types),
         asked' = [asked EXCEPT ![s] = @ \cup call[t].types], UNCHANGED <<dynamic, stale>>,
         raced \subseteq raced',
         \/ statMap[call[t].name] = s /\ statMap' = statMap
         \/ /\ statMap[call[t].name] = None /\ s > made
            /\ statMap' = [statMap EXCEPT ![call[t].name] = s]
            /\ Resetting => call[t].name \in raced'
  PROVE  ExportInv' /\ ShowInv'
<1> DEFINE n == call[t].name
<1>1. /\ n \in Names /\ call[t].types \subseteq Types /\ call[t].pc \notin Quiet
      /\ made \in Nat
  BY FindingIs
<1>2. /\ statMap \in [Names -> (1..made) \cup {None}] /\ asked \in [Stats -> SUBSET Types]
      /\ \A x \in Stats : x > made => asked[x] = {}
      /\ \A m, k \in Names : statMap[m] = statMap[k] /\ statMap[m] # None => m = k
      /\ None \notin Nat
  BY CallAssumption DEF IInv, StatInv
<1>3. \A m \in Names : ~Exports(m) \/ statMap'[m] = statMap[m] \/ m \in raced'
  <2>1. ASSUME NEW m \in Names, Exports(m), m \notin raced PROVE statMap[m] # None
    <3>1. PICK u \in Threads : call[u].pc = "register" /\ call[u].name = m
      BY <2>1 DEF Exports
    <3>2. statMap[m] = call[u].item BY <2>1, <3>1 DEF IInv, ExportInv, ExportOK
    <3>3. call[u].item \in 1..made BY <3>1 DEF IInv, CallInv, CallOK
    <3> QED BY <3>2, <3>3, <1>2, <1>1
  <2> QED BY <1>1, <1>2, <2>1
<1>4. statMap'[n] = s BY <1>1, <1>2
<1>5. ExportOK(t)' /\ RemoveOK(t)' /\ ClearOK(t)'
  BY <1>4 DEF ExportOK, RemoveOK, ClearOK
<1>6. \A u \in Threads : ExportOK(u)' BY <1>3, <1>5, ExportFrame
<1>7. \A u \in Threads : RemoveOK(u)' BY <1>5, RemoveFrame
<1>8. \A u \in Threads : ClearOK(u)' BY <1>5, ClearFrame
<1>9. ResetOK'
  <2>1. Resetting => \A m \in Names : statMap'[m] \in {statMap[m], None} \/ m \in raced'
    BY <1>1, <1>2
  <2> QED BY <2>1, ResetFrame
<1>10. ExportInv' BY <1>6, <1>7, <1>8, <1>9 DEF ExportInv
<1>11. Resetting' <=> Resetting BY DEF Resetting, Only, Same
<1>12. ASSUME ~Resetting, NEW m \in Names \ (stale \cup raced), NEW y \in Types
       PROVE  ShowOK(m, y)'
  <2>1. ~UnderwayBy(t, m, y) BY <1>1 DEF UnderwayBy, Quiet
  <2>2. CASE m # n
    <3>1. statMap'[m] = statMap[m] BY <1>1, <1>2, <2>2
    <3>2. statMap[m] # None => statMap[m] # s BY <1>1, <1>2, <2>2
    <3>3. statMap[m] # None => asked'[statMap[m]] = asked[statMap[m]] BY <1>2, <3>2
    <3> QED BY <1>12, <2>1, <3>1, <3>3, ShowFrame
  <2>3. CASE m = n
    <3>1. ShowOK(n, y) BY <1>12, <2>3 DEF IInv, ShowInv
    <3>2. dynamic'[<<n, y>>] \in {None, statMap'[n]} BY <1>4, <3>1 DEF ShowOK
    <3>3. ASSUME y \in asked'[s] PROVE dynamic'[<<n, y>>] = s \/ Underway(n, y)'
      <4>1. CASE y \in call[t].types
        <5>1. <<n, y>> \in call'[t].todo BY <4>1 DEF CountersOf
        <5>2. UnderwayBy(t, n, y)' BY <5>1 DEF UnderwayBy
        <5> QED BY <5>2 DEF Underway
      <4>2. CASE y \notin call[t].types
        <5>1. y \in asked[s] BY <1>2, <3>3, <4>2
        <5>2. statMap[n] = s BY <1>2, <5>1
        <5>3. dynamic[<<n, y>>] = s \/ Underway(n, y) BY <1>2, <3>1, <5>1, <5>2 DEF ShowOK
        <5>4. ASSUME Underway(n, y) PROVE Underway(n, y)'
          <6>1. PICK u \in Threads : UnderwayBy(u, n, y) BY <5>4 DEF Underway
          <6>2. u # t BY <6>1, <2>1, <2>3
          <6>3. UnderwayBy(u, n, y)' BY <6>1, <6>2 DEF UnderwayBy, Only, Same
          <6> QED BY <6>3 DEF Underway
        <5> QED BY <5>3, <5>4
      <4> QED BY <4>1, <4>2
    <3> QED BY <2>3, <1>4, <3>2, <3>3 DEF ShowOK
  <2> QED BY <2>2, <2>3
<1>13. ShowInv' BY <1>11, <1>12 DEF ShowInv
<1> QED BY <1>10, <1>13

\* The call has the stat that is in the map.
LEMMA HaveOld ==
  ASSUME IInv, NEW t \in Threads, call[t].pc \in {"find", "create"}, writer = None,
         statMap[call[t].name] # None, HaveStat(t, statMap[call[t].name], FALSE),
         UNCHANGED <<statMap, writer, made, samples, dynamic, owed, stale, raced, calls>>,
         UNCHANGED <<quantileVars, flatVars>>
  PROVE  IInv'
<1>1. /\ call[t].name \in Names /\ call[t].types \subseteq Types /\ call[t].pc \notin Quiet
      /\ made \in Nat /\ made < MaxCalls
  BY FindingIs
<1>2. PICK s : s = statMap[call[t].name] OBVIOUS
<1>3. StatInv /\ SideInv BY DEF IInv
<1>4. s \in 1..made /\ s \in Stats BY <1>1, <1>2, <1>3, CallAssumption DEF StatInv, Stats
<1>5. /\ Only(t) /\ call'[t].name = call[t].name /\ call'[t].types = call[t].types
      /\ call'[t].item = s
      /\ \/ /\ call'[t].pc = "register"
            /\ call'[t].todo = CountersOf(call[t].name, call[t].types)
            /\ asked' = [asked EXCEPT ![s] = @ \cup call[t].types]
         \/ call'[t].pc = "use" /\ asked' = asked
  BY <1>2, <1>4, HaveIs
<1>6. UNCHANGED <<bases, keys, offered, defsOf, forgotten>> BY QuantileVarsSame
<1>7. CountInv' BY <1>5, <1>6, CountSame
<1>8. CallInv'
  <2>1. call'[t] \in Shape BY <1>5 DEF Only
  <2>2. \A n \in Names : statMap'[n] = s => n = call'[t].name
    BY <1>1, <1>2, <1>3, <1>5 DEF StatInv
  <2>3. call'[t].pc = "register" => call'[t].todo \subseteq CountersOf(call'[t].name, Types)
    BY <1>1, <1>5 DEF CountersOf
  <2>4. CallOK(t)' BY <1>1, <1>4, <1>5, <2>1, <2>2, <2>3 DEF CallOK
  <2> QED BY <1>5, <1>6, <2>4, CallsSame
<1>9. StatInv'
  <2>1. asked' \in [Stats -> SUBSET Types] BY <1>1, <1>3, <1>4, <1>5 DEF StatInv
  <2>2. \A x \in Stats : x > made => asked'[x] = {} BY <1>1, <1>3, <1>4, <1>5 DEF StatInv
  <2> QED BY <1>3, <2>1, <2>2 DEF StatInv
<1>10. LockInv' BY <1>5, LockKept
<1>11. ExportInv' /\ ShowInv'
  <2>1. CASE call'[t].pc = "register" BY <1>2, <1>4, <1>5, <2>1, HaveExport
  <2>2. CASE call'[t].pc = "use"
    <3>1. asked' = asked /\ call'[t].pc \notin Quiet BY <1>5, <2>2 DEF Quiet
    <3> QED BY <1>1, <1>5, <3>1, QuietStep
  <2> QED BY <1>5, <2>1, <2>2
<1>12. QuantileInv'
  <2>1. GivenOK(t)' BY <1>5 DEF GivenOK
  <2> QED BY <1>5, <2>1, QuantilesSame
<1>13. FlatInv' /\ SideInv' BY <1>3, RestSame DEF SideInv
<1> QED BY <1>7, <1>8, <1>9, <1>10, <1>11, <1>12, <1>13 DEF IInv

\* The lookup under the shared lock.
LEMMA FindStatStep ==
  ASSUME IInv, NEW t \in Threads, FindStat(t), UNCHANGED <<quantileVars, flatVars>>
  PROVE  IInv'
<1>1. /\ call[t].pc = "find" /\ writer = None
      /\ UNCHANGED <<statMap, writer, made, samples, dynamic, owed, stale, raced, calls>>
      /\ \/ statMap[call[t].name] # None /\ HaveStat(t, statMap[call[t].name], FALSE)
         \/ Goto(t, "create") /\ UNCHANGED asked
  BY DEF FindStat, At
<1>2. CASE statMap[call[t].name] # None /\ HaveStat(t, statMap[call[t].name], FALSE)
  BY <1>1, <1>2, HaveOld
<1>3. CASE Goto(t, "create") /\ UNCHANGED asked
  <2>1. /\ call[t].name \in Names /\ call[t].types \subseteq Types /\ call[t].pc \notin Quiet
    BY <1>1, FindingIs
  <2>2. "create" \in Labels BY DEF Labels
  <2>3. /\ Only(t) /\ call'[t].pc = "create" /\ call'[t].name = call[t].name
        /\ call'[t].types = call[t].types /\ call'[t].item = call[t].item
    BY <1>3, <2>2, GotoIs
  <2>4. call'[t] \in Shape BY <2>3 DEF Only
  <2>5. "create" \in Fresh BY DEF Fresh
  <2>6. CallOK(t)' /\ GivenOK(t)' /\ call'[t].pc \notin Quiet
    BY <2>1, <2>3, <2>4, <2>5, FreshOK
  <2>7. UNCHANGED <<bases, keys, offered, defsOf, forgotten>> BY QuantileVarsSame
  <2>8. CountInv' /\ CallInv' /\ ExportInv' /\ ShowInv'
    BY <1>1, <1>3, <2>1, <2>3, <2>6, <2>7, QuietKeeps
  <2>9. LockInv' BY <1>1, <2>3, LockKept
  <2>10. StatInv' BY <1>1, <1>3, StatsSame
  <2>11. QuantileInv' BY <2>3, <2>6, QuantilesSame
  <2>12. FlatInv' /\ SideInv' BY <1>1, RestSame DEF IInv, SideInv
  <2> QED BY <2>8, <2>9, <2>10, <2>11, <2>12 DEF IInv
<1> QED BY <1>1, <1>2, <1>3

\* Under the upgrade lock: the stat of another thread, or a new one.
LEMMA CreateStatStep ==
  ASSUME IInv, NEW t \in Threads, CreateStat(t), UNCHANGED <<quantileVars, flatVars>>
  PROVE  IInv'
<1> DEFINE n == call[t].name
<1>1. /\ call[t].pc = "create" /\ writer = None
      /\ UNCHANGED <<writer, samples, dynamic, owed, stale, calls>>
      /\ \/ /\ statMap[n] # None /\ HaveStat(t, statMap[n], FALSE)
            /\ UNCHANGED <<statMap, made, raced>>
         \/ /\ statMap[n] = None /\ made' = made + 1
            /\ statMap' = [statMap EXCEPT ![n] = made']
            /\ HaveStat(t, made', TRUE)
            /\ raced' = IF n \in stale \/ Resetting THEN raced \cup {n} ELSE raced
  BY DEF CreateStat, At
<1>2. CASE statMap[n] # None /\ HaveStat(t, statMap[n], FALSE) /\ UNCHANGED <<statMap, made, raced>>
  BY <1>1, <1>2, HaveOld
<1>3. CASE /\ statMap[n] = None /\ made' = made + 1
           /\ statMap' = [statMap EXCEPT ![n] = made']
           /\ HaveStat(t, made', TRUE)
           /\ raced' = IF n \in stale \/ Resetting THEN raced \cup {n} ELSE raced
  <2>1. /\ n \in Names /\ call[t].types \subseteq Types /\ call[t].pc \notin Quiet
        /\ made \in Nat /\ made < MaxCalls /\ offered \in Nat /\ calls \in Nat
        /\ MaxCalls \in Nat /\ None \notin Nat
    BY <1>1, FindingIs, CallAssumption
  <2>2. PICK s : s = made + 1 OBVIOUS
  <2>3. s \in Stats /\ s \in Nat /\ s > made /\ made' = s BY <1>3, <2>1, <2>2 DEF Stats
  <2>4. HaveStat(t, s, TRUE) BY <1>3, <2>3
  <2>5. /\ Only(t) /\ call'[t].name = n /\ call'[t].types = call[t].types
        /\ call'[t].item = s /\ call'[t].pc = "register"
        /\ call'[t].todo = CountersOf(n, call[t].types)
        /\ asked' = [asked EXCEPT ![s] = @ \cup call[t].types]
    BY <1>1, <2>3, <2>4, HaveIs
  <2>6. UNCHANGED <<bases, keys, offered, defsOf, forgotten>> BY QuantileVarsSame
  <2>7. StatInv /\ SideInv BY DEF IInv
  <2>8. statMap' = [statMap EXCEPT ![n] = s] BY <1>3, <2>3
  <2>9. CountInv'
    <3>1. /\ One(call'[t].pc \in {"find", "create"}) = 0 /\ One(call'[t].pc = "getQuantile") = 0
          /\ One(call[t].pc \in {"find", "create"}) = 1 /\ One(call[t].pc = "getQuantile") = 0
      BY <1>1, <2>5 DEF One
    <3>2. calls' \in 0..MaxCalls BY <1>1 DEF IInv, CountInv
    <3>3. /\ made' + One(call'[t].pc \in {"find", "create"}) + calls
               <= made + One(call[t].pc \in {"find", "create"}) + calls'
          /\ offered' + One(call'[t].pc = "getQuantile") + calls
               <= offered + One(call[t].pc = "getQuantile") + calls'
      BY <1>1, <2>1, <2>2, <2>3, <2>6, <3>1
    <3> QED BY <2>1, <2>3, <2>5, <2>6, <3>2, <3>3, CountStep
  <2>10. CallInv'
    <3>1. call'[t] \in Shape BY <2>5 DEF Only
    <3>2. \A m \in Names : statMap'[m] = s => m = n
      BY <2>1, <2>3, <2>7, <2>8 DEF StatInv
    <3>3. call'[t].todo \subseteq CountersOf(call'[t].name, Types)
      BY <2>1, <2>5 DEF CountersOf
    <3>4. CallOK(t)'
      <4>1. call'[t].item \in 1..made' BY <2>1, <2>2, <2>3, <2>5
      <4> QED BY <2>1, <2>5, <3>1, <3>2, <3>3, <4>1 DEF CallOK
    <3>5. \A m \in Names : statMap'[m] = statMap[m] \/ statMap'[m] = None \/ statMap'[m] > made
      BY <2>1, <2>3, <2>7, <2>8 DEF StatInv
    <3>6. made' \in Nat /\ made' >= made /\ offered' \in Nat /\ offered' >= offered
      BY <2>1, <2>3, <2>6
    <3> QED BY <2>5, <3>4, <3>5, <3>6, CallFrame
  <2>11. StatInv'
    <3>1. statMap' \in [Names -> (1..made') \cup {None}]
      BY <2>1, <2>2, <2>3, <2>7, <2>8 DEF StatInv
    <3>2. dynamic' \in [Counters -> (1..made') \cup {None}]
      <4>1. (1..made) \cup {None} \subseteq (1..made') \cup {None} BY <2>1, <2>2, <2>3
      <4>2. dynamic \in [Counters -> (1..made) \cup {None}] /\ dynamic' = dynamic
        BY <1>1, <2>7 DEF StatInv
      <4> QED BY <4>1, <4>2
    <3>3. asked' \in [Stats -> SUBSET Types] BY <2>1, <2>3, <2>5, <2>7 DEF StatInv
    <3>4. \A x \in Stats : x > made' => samples'[x] = 0 /\ asked'[x] = {}
      BY <1>1, <2>1, <2>2, <2>3, <2>5, <2>7 DEF StatInv, Stats
    <3>5. \A m, k \in Names : statMap'[m] = statMap'[k] /\ statMap'[m] # None => m = k
      BY <2>1, <2>3, <2>7, <2>8 DEF StatInv
    <3>6. \A m \in Names : owed'[m] = IF statMap'[m] = None THEN 0 ELSE samples'[statMap'[m]]
      <4>1. owed[n] = 0 /\ samples[s] = 0 /\ s # None
        BY <1>3, <2>1, <2>3, <2>7 DEF StatInv
      <4> QED BY <1>1, <2>1, <2>7, <2>8, <4>1 DEF StatInv
    <3> QED BY <1>1, <2>7, <3>1, <3>2, <3>3, <3>4, <3>5, <3>6 DEF StatInv
  <2>12. LockInv' BY <1>1, <2>5, LockKept
  <2>13. ExportInv' /\ ShowInv'
    <3>1. raced \subseteq raced' /\ (Resetting => n \in raced') BY <1>3
    <3> QED BY <1>1, <1>3, <2>3, <2>5, <2>8, <3>1, HaveExport
  <2>14. QuantileInv'
    <3>1. GivenOK(t)' BY <2>5 DEF GivenOK
    <3> QED BY <2>5, <3>1, QuantilesSame
  <2>15. FlatInv' /\ SideInv' BY <1>1, <1>3, <2>1, <2>7, RestSame DEF SideInv
  <2> QED BY <2>9, <2>10, <2>11, <2>12, <2>13, <2>14, <2>15 DEF IInv
<1> QED BY <1>1, <1>2, <1>3

-----------------------------------------------------------------------------
(***************************************************************************)
(* TimeseriesExporter::exportStat(), one counter at a time.                *)
(***************************************************************************)
\* A call loses one counter of those it has still to visit.
LEMMA TodoIs ==
  ASSUME IInv, NEW t \in Threads, NEW c, call' = [call EXCEPT ![t].todo = @ \ {c}]
  PROVE  /\ Only(t) /\ call'[t].pc = call[t].pc /\ call'[t].name = call[t].name
         /\ call'[t].types = call[t].types /\ call'[t].item = call[t].item
         /\ call'[t].todo = call[t].todo \ {c}
<1> DEFINE d == [call[t] EXCEPT !.todo = @ \ {c}]
<1>1. call[t] \in Shape /\ DOMAIN call = Threads BY CallNow
<1>2. /\ d \in Shape /\ d.pc = call[t].pc /\ d.name = call[t].name /\ d.types = call[t].types
      /\ d.item = call[t].item /\ d.todo = call[t].todo \ {c}
  BY <1>1 DEF Shape
<1>3. call' = [call EXCEPT ![t] = d] BY <1>1
<1> HIDE DEF d
<1>4. Only(t) /\ call'[t] = d BY <1>2, <1>3, SetCall
<1> QED BY <1>2, <1>4

\* A thread that exports.
LEMMA RegisterIs ==
  ASSUME IInv, NEW t \in Threads, call[t].pc = "register"
  PROVE  /\ call[t].name \in Names /\ call[t].types \subseteq Types
         /\ call[t].todo \subseteq CountersOf(call[t].name, Types)
         /\ call[t].item \in 1..made /\ call[t].item # None /\ call[t].item \in Stats
         /\ \A n \in Names : statMap[n] = call[t].item => n = call[t].name
         /\ Exports(call[t].name)
<1>1. /\ call[t].name \in Names /\ call[t].types \subseteq Types
      /\ call[t].todo \subseteq CountersOf(call[t].name, Types)
      /\ call[t].item \in 1..made /\ call[t] \in Shape
      /\ \A n \in Names : statMap[n] = call[t].item => n = call[t].name
  BY CallNow DEF CallOK, Named
<1>2. call[t].item # None /\ call[t].item \in Stats
  <2>1. made \in Nat BY DEF IInv, CountInv
  <2>2. call[t].item # None BY <1>1, <2>1, CallAssumption
  <2> QED BY <1>1, <2>2 DEF Shape
<1> QED BY <1>1, <1>2 DEF Exports

\* A counter is registered unless there is one.
LEMMA RegisterStep ==
  ASSUME IInv, NEW t \in Threads, NEW c \in Counters, Register(t, c),
         UNCHANGED <<quantileVars, flatVars>>
  PROVE  IInv'
<1> DEFINE n == call[t].name
<1>1. /\ call[t].pc = "register" /\ c \in call[t].todo
      /\ dynamic' = [dynamic EXCEPT ![c] = IF @ = None THEN call[t].item ELSE @]
      /\ call' = [call EXCEPT ![t].todo = @ \ {c}]
      /\ UNCHANGED <<statMap, writer, made, samples, asked, owed, stale, raced, calls>>
  BY DEF Register, At
<1>2. /\ n \in Names /\ call[t].types \subseteq Types
      /\ call[t].todo \subseteq CountersOf(n, Types)
      /\ call[t].item \in 1..made /\ call[t].item # None
      /\ \A m \in Names : statMap[m] = call[t].item => m = n
      /\ Exports(n)
  BY <1>1, RegisterIs
<1>3. PICK z \in Types : c = <<n, z>> BY <1>1, <1>2 DEF CountersOf
<1>4. /\ Only(t) /\ call'[t].pc = "register" /\ call'[t].name = n
      /\ call'[t].types = call[t].types /\ call'[t].item = call[t].item
      /\ call'[t].todo = call[t].todo \ {c}
  BY <1>1, TodoIs
<1>5. StatInv /\ SideInv BY DEF IInv
<1>6. UNCHANGED <<bases, keys, offered, defsOf, forgotten>> BY QuantileVarsSame
<1>7. CountInv' BY <1>1, <1>4, <1>6, CountSame
<1>8. CallInv'
  <2>1. call'[t] \in Shape BY <1>4 DEF Only
  <2>2. call'[t].todo \subseteq CountersOf(n, Types) BY <1>2, <1>4
  <2>3. CallOK(t)' BY <1>1, <1>2, <1>4, <2>1, <2>2 DEF CallOK
  <2> QED BY <1>1, <1>4, <1>6, <2>3, CallsSame
<1>9. dynamic \in [Counters -> (1..made) \cup {None}] BY <1>5 DEF StatInv
<1>10. /\ dynamic' \in [Counters -> (1..made) \cup {None}]
       /\ dynamic'[c] = IF dynamic[c] = None THEN call[t].item ELSE dynamic[c]
       /\ \A b \in Counters : b # c => dynamic'[b] = dynamic[b]
  BY <1>1, <1>2, <1>9
<1>11. StatInv' BY <1>1, <1>5, <1>10 DEF StatInv
<1>12. LockInv' BY <1>1, <1>4, LockKept
<1>13. ExportInv'
  <2>1. ExportOK(t)' BY <1>1, <1>4 DEF IInv, ExportInv, ExportOK
  <2>2. RemoveOK(t)' /\ ClearOK(t)' BY <1>4 DEF RemoveOK, ClearOK
  <2>3. \A m \in Names, y \in Types : \/ dynamic'[<<m, y>>] \in {dynamic[<<m, y>>], None}
                                      \/ Exports(m)
    BY <1>2, <1>3, <1>10 DEF Counters
  <2>4. \A u \in Threads : ExportOK(u)' BY <1>1, <1>4, <2>1, ExportFrame
  <2>5. \A u \in Threads : RemoveOK(u)' BY <1>1, <1>4, <2>2, <2>3, RemoveFrame
  <2>6. \A u \in Threads : ClearOK(u)' BY <1>1, <1>4, <2>2, <2>3, ClearFrame
  <2>7. ResetOK' BY <1>1, <1>4, ResetFrame
  <2> QED BY <2>4, <2>5, <2>6, <2>7 DEF ExportInv
<1>14. ShowInv'
  <2>1. Resetting' <=> Resetting BY <1>1, <1>4 DEF Resetting, Only, Same
  <2>2. ASSUME ~Resetting, NEW m \in Names \ (stale \cup raced), NEW y \in Types
        PROVE  ShowOK(m, y)'
    <3>1. CASE m = n /\ y = z
      <4>1. ShowOK(n, z) BY <2>2, <3>1 DEF IInv, ShowInv
      <4>2. statMap[n] = call[t].item
        BY <1>1, <2>2, <3>1 DEF IInv, ExportInv, ExportOK
      <4>3. dynamic'[<<n, z>>] = statMap'[n]
        BY <1>1, <1>3, <1>10, <4>1, <4>2 DEF ShowOK
      <4> QED BY <3>1, <4>3 DEF ShowOK
    <3>2. CASE m # n \/ y # z
      <4>1. <<m, y>> # c /\ <<m, y>> \in Counters BY <1>3, <3>2 DEF Counters
      <4>2. dynamic'[<<m, y>>] = dynamic[<<m, y>>] BY <1>10, <4>1
      <4>3. UnderwayBy(t, m, y) => UnderwayBy(t, m, y)'
        BY <1>1, <1>4, <4>1 DEF UnderwayBy
      <4> QED BY <1>1, <1>4, <2>2, <4>2, <4>3, ShowFrame
    <3> QED BY <3>1, <3>2
  <2> QED BY <1>1, <2>1, <2>2 DEF ShowInv
<1>15. QuantileInv'
  <2>1. GivenOK(t)' BY <1>4 DEF GivenOK
  <2> QED BY <1>4, <2>1, QuantilesSame
<1>16. FlatInv' /\ SideInv' BY <1>1, <1>5, RestSame DEF SideInv
<1> QED BY <1>7, <1>8, <1>11, <1>12, <1>13, <1>14, <1>15, <1>16 DEF IInv

\* A step that changes no stat or counter, of a call with no counter left to visit.
LEMMA DoneStep ==
  ASSUME IInv, NEW t \in Threads, Only(t), UNCHANGED <<statMap, dynamic, asked, stale, raced>>,
         call[t].pc = "register", call[t].todo = {}, call'[t].pc \notin Quiet
  PROVE  ExportInv' /\ ShowInv'
<1>1. ExportOK(t)' /\ RemoveOK(t)' /\ ClearOK(t)' BY DEF ExportOK, RemoveOK, ClearOK, Quiet
<1>2. \A u \in Threads : ExportOK(u)' BY <1>1, ExportFrame
<1>3. call'[t].pc # "register" /\ call'[t].pc \notin {"resetQuantiles", "clearCounters"}
  BY DEF Quiet
<1>4. \A u \in Threads : RemoveOK(u)' BY <1>1, <1>3, RemoveFrame
<1>5. \A u \in Threads : ClearOK(u)' BY <1>1, ClearFrame
<1>6. ResetOK' BY <1>3, ResetFrame
<1>7. ExportInv' BY <1>2, <1>4, <1>5, <1>6 DEF ExportInv
<1>8. Resetting' <=> Resetting BY <1>3 DEF Resetting, Only, Same
<1>9. ASSUME ~Resetting, NEW n \in Names \ (stale \cup raced), NEW y \in Types
      PROVE  ShowOK(n, y)'
  <2>1. ~UnderwayBy(t, n, y) BY DEF UnderwayBy
  <2> QED BY <1>9, <2>1, ShowFrame
<1>10. ShowInv' BY <1>8, <1>9 DEF ShowInv
<1> QED BY <1>7, <1>10

\* All counters are registered.
LEMMA RegisteredStep ==
  ASSUME IInv, NEW t \in Threads, Registered(t), UNCHANGED <<quantileVars, flatVars>>
  PROVE  IInv'
<1>1. /\ call[t].pc = "register" /\ call[t].todo = {} /\ UNCHANGED calls
      /\ Return(t) \/ Goto(t, "use")
      /\ UNCHANGED <<statMap, writer, made, samples, dynamic, asked, owed, stale, raced>>
  BY DEF Registered, At, statVars
<1>2. /\ call[t].name \in Names /\ call[t].item \in 1..made
      /\ \A n \in Names : statMap[n] = call[t].item => n = call[t].name
  BY <1>1, RegisterIs
<1>3. /\ Only(t)
      /\ \/ call'[t].pc = "idle"
         \/ /\ call'[t].pc = "use" /\ call'[t].name = call[t].name
            /\ call'[t].item = call[t].item
  <2>1. "use" \in Labels BY DEF Labels
  <2> QED BY <1>1, <2>1, ReturnIs, GotoIs
<1>4. CallOK(t)' /\ GivenOK(t)' /\ call'[t].pc \notin Quiet
  <2>1. call'[t] \in Shape BY <1>3 DEF Only
  <2>2. CASE call'[t].pc = "idle" BY <2>1, <2>2, IdleOK
  <2>3. CASE call'[t].pc = "use" BY <1>1, <1>2, <1>3, <2>1, <2>3 DEF CallOK, GivenOK, Quiet
  <2> QED BY <1>3, <2>2, <2>3
<1>5. UNCHANGED <<bases, keys, offered, defsOf, forgotten>> BY QuantileVarsSame
<1>6. CountInv' BY <1>1, <1>3, <1>5, CountSame
<1>7. CallInv' BY <1>1, <1>3, <1>4, <1>5, CallsSame
<1>8. StatInv' BY <1>1, StatsSame
<1>9. LockInv' BY <1>1, <1>3, LockKept
<1>10. ExportInv' /\ ShowInv' BY <1>1, <1>3, <1>4, DoneStep
<1>11. QuantileInv' BY <1>3, <1>4, QuantilesSame
<1>12. FlatInv' /\ SideInv' BY <1>1, RestSame DEF IInv, SideInv
<1> QED BY <1>6, <1>7, <1>8, <1>9, <1>10, <1>11, <1>12 DEF IInv

-----------------------------------------------------------------------------
(***************************************************************************)
(* Using a stat, and visiting all of them.                                 *)
(***************************************************************************)
\* A stat and its name change together.
LEMMA SampleStep ==
  ASSUME IInv, NEW s \in 1..made, NEW n \in Names, NEW v \in Nat, NEW w \in Nat,
         \A m \in Names : statMap[m] = s => m = n,
         statMap[n] = s => w = v,
         samples' = [samples EXCEPT ![s] = v],
         owed' = IF statMap[n] = s THEN [owed EXCEPT ![n] = w] ELSE owed,
         UNCHANGED <<statMap, made, asked, dynamic>>
  PROVE  StatInv'
<1>1. /\ StatInv /\ made \in Nat /\ made <= MaxCalls /\ MaxCalls \in Nat /\ None \notin Nat
  <2>1. IsFiniteSet(Making) BY CallAssumption, FS_Subset DEF Making
  <2>2. Cardinality(Making) \in Nat BY <2>1, FS_CardinalityType
  <2> QED BY <2>2, CallAssumption DEF IInv, CountInv
<1>2. s \in Stats /\ s # None BY <1>1 DEF Stats
<1>3. samples' \in [Stats -> Nat] /\ owed' \in [Names -> Nat] BY <1>1, <1>2 DEF StatInv
<1>4. \A x \in Stats : x > made => samples'[x] = 0 /\ asked'[x] = {}
  BY <1>1, <1>2 DEF StatInv
<1>5. ASSUME NEW m \in Names
      PROVE  owed'[m] = IF statMap'[m] = None THEN 0 ELSE samples'[statMap'[m]]
  <2>1. owed[m] = IF statMap[m] = None THEN 0 ELSE samples[statMap[m]] BY <1>1 DEF StatInv
  <2>2. statMap[m] = None \/ statMap[m] \in Stats BY <1>1 DEF StatInv, Stats
  <2>3. CASE statMap[m] = s
    <3>1. m = n /\ owed'[m] = v /\ samples'[s] = v BY <1>1, <1>2, <2>3 DEF StatInv
    <3> QED BY <1>2, <2>3, <3>1
  <2>4. CASE statMap[m] # s
    <3>1. owed'[m] = owed[m] BY <1>1, <2>4 DEF StatInv
    <3>2. statMap[m] # None => samples'[statMap[m]] = samples[statMap[m]]
      BY <1>1, <2>2, <2>4 DEF StatInv
    <3> QED BY <2>1, <3>1, <3>2
  <2> QED BY <2>3, <2>4
<1> QED BY <1>1, <1>3, <1>4, <1>5 DEF StatInv

\* The stat that a call uses or keeps locked.
LEMMA UsingIs ==
  ASSUME IInv, NEW t \in Threads, call[t].pc \in {"use", "hold"}
  PROVE  /\ call[t].name \in Names /\ call[t].item \in 1..made /\ call[t].item \in Stats
         /\ \A n \in Names : statMap[n] = call[t].item => n = call[t].name
         /\ samples[call[t].item] \in Nat /\ owed[call[t].name] \in Nat
         /\ statMap[call[t].name] = call[t].item => owed[call[t].name] = samples[call[t].item]
         /\ call[t].pc \notin Quiet
<1>1. /\ call[t].name \in Names /\ call[t].item \in 1..made /\ call[t] \in Shape
      /\ \A n \in Names : statMap[n] = call[t].item => n = call[t].name
  BY CallNow DEF CallOK, Named
<1>2. made \in Nat /\ StatInv /\ None \notin Nat BY CallAssumption DEF IInv, CountInv
<1>3. call[t].item # None BY <1>1, <1>2
<1>4. call[t].item \in Stats BY <1>1, <1>3 DEF Shape
<1>5. call[t].pc \notin Quiet BY DEF Quiet
<1> QED BY <1>1, <1>2, <1>3, <1>4, <1>5 DEF StatInv

\* A call returns, having changed at most values.
LEMMA ReturnStep ==
  ASSUME IInv, NEW t \in Threads, Only(t), call'[t].pc = "idle",
         call[t].pc \notin Quiet, call[t].pc # "visit",
         UNCHANGED <<calls, statMap, made, dynamic, asked, stale, raced, writer>>,
         UNCHANGED <<quantileVars, flatVars>>, StatInv'
  PROVE  IInv'
<1>1. UNCHANGED <<bases, keys, offered, defsOf, forgotten>> BY QuantileVarsSame
<1>2. CallOK(t)' /\ GivenOK(t)' /\ call'[t].pc \notin Quiet BY IdleOK DEF Only
<1>3. CountInv' /\ CallInv' /\ ExportInv' /\ ShowInv' BY <1>1, <1>2, QuietKeeps
<1>4. call[t].pc \notin {"unregister", "visit"} BY DEF Quiet
<1>5. LockInv' BY <1>4, LockKept
<1>6. QuantileInv' BY <1>2, QuantilesSame
<1>7. FlatInv' /\ SideInv' BY RestSame DEF IInv, SideInv
<1> QED BY <1>3, <1>5, <1>6, <1>7 DEF IInv

\* addValue() and clear() under the stat's lock; getLockedStatPtr() keeps it.
LEMMA UseStatStep ==
  ASSUME IInv, NEW t \in Threads, UseStat(t), UNCHANGED <<quantileVars, flatVars>>
  PROVE  IInv'
<1> DEFINE s == call[t].item
           n == call[t].name
           Reset(old) == IF call[t].op = "add" THEN old + 1 ELSE 0
<1>1. /\ call[t].pc = "use"
      /\ \/ Goto(t, "hold") /\ UNCHANGED <<samples, owed>>
         \/ /\ Return(t)
            /\ samples' = [samples EXCEPT ![s] = Reset(samples[s])]
            /\ owed' = IF statMap[n] = s THEN [owed EXCEPT ![n] = Reset(owed[n])] ELSE owed
      /\ UNCHANGED <<statMap, writer, made, dynamic, asked, stale, raced, calls>>
  BY DEF UseStat, At
<1>2. /\ n \in Names /\ s \in 1..made /\ s \in Stats
      /\ \A m \in Names : statMap[m] = s => m = n
      /\ samples[s] \in Nat /\ owed[n] \in Nat
      /\ statMap[n] = s => owed[n] = samples[s]
      /\ call[t].pc \notin Quiet
  BY <1>1, UsingIs
<1>3. CASE /\ Return(t)
           /\ samples' = [samples EXCEPT ![s] = Reset(samples[s])]
           /\ owed' = IF statMap[n] = s THEN [owed EXCEPT ![n] = Reset(owed[n])] ELSE owed
  <2>1. PICK v \in Nat : v = Reset(samples[s]) BY <1>2
  <2>2. PICK w \in Nat : w = Reset(owed[n]) BY <1>2
  <2>3. statMap[n] = s => w = v BY <1>2, <2>1, <2>2
  <2>4. /\ samples' = [samples EXCEPT ![s] = v]
        /\ owed' = IF statMap[n] = s THEN [owed EXCEPT ![n] = w] ELSE owed
    BY <1>3, <2>1, <2>2
  <2>5. StatInv' BY <1>1, <1>2, <2>3, <2>4, SampleStep
  <2>6. Only(t) /\ call'[t].pc = "idle" BY <1>3, ReturnIs
  <2> QED BY <1>1, <1>2, <2>5, <2>6, ReturnStep
<1>4. CASE Goto(t, "hold") /\ UNCHANGED <<samples, owed>>
  <2>1. "hold" \in Labels BY DEF Labels
  <2>2. /\ Only(t) /\ call'[t].pc = "hold" /\ call'[t].name = n /\ call'[t].item = s
    BY <1>4, <2>1, GotoIs
  <2>3. CallOK(t)' /\ GivenOK(t)' /\ call'[t].pc \notin Quiet
    BY <1>1, <1>2, <2>2 DEF CallOK, GivenOK, Quiet, Only
  <2>4. UNCHANGED <<bases, keys, offered, defsOf, forgotten>> BY QuantileVarsSame
  <2>5. CountInv' /\ CallInv' /\ ExportInv' /\ ShowInv'
    BY <1>1, <1>2, <2>2, <2>3, <2>4, QuietKeeps
  <2>6. LockInv' BY <1>1, <2>2, LockKept
  <2>7. StatInv' BY <1>1, <1>4, StatsSame
  <2>8. QuantileInv' BY <2>2, <2>3, QuantilesSame
  <2>9. FlatInv' /\ SideInv' BY <1>1, RestSame DEF IInv, SideInv
  <2> QED BY <2>5, <2>6, <2>7, <2>8, <2>9 DEF IInv
<1> QED BY <1>1, <1>3, <1>4

\* The caller of getLockedStatPtr() adds a value and lets the stat go.
LEMMA ReleaseStatStep ==
  ASSUME IInv, NEW t \in Threads, ReleaseStat(t), UNCHANGED <<quantileVars, flatVars>>
  PROVE  IInv'
<1> DEFINE s == call[t].item
           n == call[t].name
<1>1. /\ call[t].pc = "hold" /\ Return(t)
      /\ samples' = [samples EXCEPT ![s] = samples[s] + 1]
      /\ owed' = IF statMap[n] = s THEN [owed EXCEPT ![n] = owed[n] + 1] ELSE owed
      /\ UNCHANGED <<statMap, writer, made, dynamic, asked, stale, raced, calls>>
  BY DEF ReleaseStat, At
<1>2. /\ n \in Names /\ s \in 1..made /\ s \in Stats
      /\ \A m \in Names : statMap[m] = s => m = n
      /\ samples[s] \in Nat /\ owed[n] \in Nat
      /\ statMap[n] = s => owed[n] = samples[s]
      /\ call[t].pc \notin Quiet
  BY <1>1, UsingIs
<1>3. StatInv'
  <2>1. PICK v \in Nat : v = samples[s] + 1 BY <1>2
  <2>2. PICK w \in Nat : w = owed[n] + 1 BY <1>2
  <2>3. statMap[n] = s => w = v BY <1>2, <2>1, <2>2
  <2>4. /\ samples' = [samples EXCEPT ![s] = v]
        /\ owed' = IF statMap[n] = s THEN [owed EXCEPT ![n] = w] ELSE owed
    BY <1>1, <2>1, <2>2
  <2>5. UNCHANGED <<statMap, made, asked, dynamic>> BY <1>1
  <2> QED BY <1>2, <2>3, <2>4, <2>5, SampleStep
<1>4. Only(t) /\ call'[t].pc = "idle" BY <1>1, ReturnIs
<1> QED BY <1>1, <1>2, <1>3, <1>4, ReturnStep

\* A callback has read its stat.
LEMMA ReadStatStep ==
  ASSUME IInv, NEW t \in Threads, ReadStat(t), UNCHANGED <<quantileVars, flatVars>>
  PROVE  IInv'
<1>1. /\ call[t].pc = "read" /\ UNCHANGED calls
      /\ call' = [u \in Threads |->
                    IF u = t THEN Idle ELSE [call[u] EXCEPT !.waitFor = @ \ {t}]]
      /\ UNCHANGED <<statMap, writer, made, samples, dynamic, asked, owed, stale, raced>>
  BY DEF ReadStat, At, statVars
<1>2. Only(t) /\ call'[t].pc = "idle"
  <2>1. call'[t] = Idle BY <1>1
  <2>2. ASSUME NEW u \in Threads \ {t} PROVE Same(u)
    <3>1. call[u] \in Shape BY CallNow
    <3>2. call'[u] = [call[u] EXCEPT !.waitFor = @ \ {t}] BY <1>1
    <3> QED BY <3>1, <3>2 DEF Same, Shape
  <2>3. ASSUME NEW u \in Threads PROVE call'[u] \in Shape
    BY <2>1, <2>2, IdleIs DEF Same
  <2>4. call' \in [Threads -> Shape] BY <1>1, <2>3
  <2> QED BY <2>1, <2>2, <2>4, IdleIs DEF Only
<1>3. call[t].pc \notin Quiet BY <1>1 DEF Quiet
<1>4. StatInv' BY <1>1, StatsSame
<1> QED BY <1>1, <1>2, <1>3, <1>4, ReturnStep

\* A counter is read: its callback runs.
LEMMA GetCounterStep ==
  ASSUME IInv, NEW t \in Threads, NEW c \in Counters, GetCounter(t, c),
         UNCHANGED <<quantileVars, flatVars>>
  PROVE  IInv'
<1> DEFINE d == [Idle EXCEPT !.pc = "read", !.op = "read", !.types = {c}, !.item = dynamic[c]]
<1>1. /\ call[t].pc = "idle" /\ calls < MaxCalls /\ dynamic[c] # None /\ calls' = calls + 1
      /\ call' = [call EXCEPT ![t] = d]
      /\ UNCHANGED <<statMap, writer, made, samples, dynamic, asked, owed, stale, raced>>
  BY DEF GetCounter, At, statVars
<1>2. /\ made \in Nat /\ offered \in Nat /\ calls \in 0..MaxCalls /\ calls \in Nat
      /\ MaxCalls \in Nat /\ made <= calls
  <2>1. IsFiniteSet(Making) BY CallAssumption, FS_Subset DEF Making
  <2>2. Cardinality(Making) \in Nat BY <2>1, FS_CardinalityType
  <2> QED BY <2>2, CallAssumption DEF IInv, CountInv
<1>3. dynamic[c] \in Stats
  <2>1. dynamic[c] \in 1..made BY <1>1 DEF IInv, StatInv
  <2> QED BY <1>2, <2>1 DEF Stats
<1>4. d \in Shape /\ d.pc = "read"
  <2>1. "read" \in Labels /\ "read" \in Ops BY DEF Labels, Ops
  <2> QED BY <1>3, <2>1, IdleIs DEF Shape
<1> HIDE DEF d
<1>5. Only(t) /\ call'[t] = d BY <1>1, <1>4, SetCall
<1>6. UNCHANGED <<bases, keys, offered, defsOf, forgotten>> BY QuantileVarsSame
<1>7. CallOK(t)' /\ GivenOK(t)' /\ call'[t].pc \notin Quiet /\ call[t].pc \notin Quiet
  BY <1>1, <1>4, <1>5 DEF CallOK, GivenOK, Quiet, Named
<1>8. CountInv'
  <2>1. calls' \in 0..MaxCalls BY <1>1, <1>2
  <2>2. /\ One(call'[t].pc \in {"find", "create"}) = 0 /\ One(call'[t].pc = "getQuantile") = 0
        /\ One(call[t].pc \in {"find", "create"}) = 0 /\ One(call[t].pc = "getQuantile") = 0
    BY <1>1, <1>4, <1>5 DEF One
  <2>3. /\ made' + One(call'[t].pc \in {"find", "create"}) + calls
             <= made + One(call[t].pc \in {"find", "create"}) + calls'
        /\ offered' + One(call'[t].pc = "getQuantile") + calls
             <= offered + One(call[t].pc = "getQuantile") + calls'
    BY <1>1, <1>2, <1>6, <2>2
  <2> QED BY <1>1, <1>2, <1>5, <1>6, <2>1, <2>3, CountStep
<1>9. CallInv' BY <1>1, <1>5, <1>6, <1>7, CallsSame
<1>10. LockInv' BY <1>1, <1>4, <1>5, LockKept
<1>11. StatInv' BY <1>1, StatsSame
<1>12. ExportInv' /\ ShowInv' BY <1>1, <1>5, <1>7, QuietStep
<1>13. QuantileInv' BY <1>5, <1>7, QuantilesSame
<1>14. FlatInv' /\ SideInv' BY <1>1, RestSame DEF IInv, SideInv
<1> QED BY <1>8, <1>9, <1>10, <1>11, <1>12, <1>13, <1>14 DEF IInv

\* A walk over the stats begins, with the map locked.
LEMMA VisitAllStep ==
  ASSUME IInv, NEW t \in Threads, VisitAll(t), UNCHANGED <<quantileVars, flatVars>>
  PROVE  IInv'
<1> DEFINE d == [call[t] EXCEPT !.pc = "visit", !.visit = {statMap[n] : n \in Names} \ {None}]
<1>1. /\ call[t].pc = "visitAll" /\ writer = None /\ writer' = t
      /\ call' = [call EXCEPT ![t].pc = "visit",
                              ![t].visit = {statMap[n] : n \in Names} \ {None}]
      /\ UNCHANGED <<statMap, made, samples, dynamic, asked, owed, stale, raced, calls>>
  BY DEF VisitAll, At
<1>2. {statMap[n] : n \in Names} \ {None} \subseteq Stats
  <2>1. IsFiniteSet(Making) BY CallAssumption, FS_Subset DEF Making
  <2>2. Cardinality(Making) \in Nat BY <2>1, FS_CardinalityType
  <2>3. made \in Nat /\ made <= MaxCalls /\ MaxCalls \in Nat
    BY <2>2, CallAssumption DEF IInv, CountInv
  <2>4. \A n \in Names : statMap[n] \in (1..made) \cup {None} BY DEF IInv, StatInv
  <2> QED BY <2>3, <2>4 DEF Stats
<1>3. call[t] \in Shape /\ DOMAIN call = Threads BY CallNow
<1>4. d \in Shape /\ d.pc = "visit"
  <2>1. "visit" \in Labels BY DEF Labels
  <2> QED BY <1>2, <1>3, <2>1 DEF Shape
<1>5. call' = [call EXCEPT ![t] = d] BY <1>1, <1>3
<1> HIDE DEF d
<1>6. Only(t) /\ call'[t] = d BY <1>4, <1>5, SetCall
<1>7. UNCHANGED <<bases, keys, offered, defsOf, forgotten>> BY QuantileVarsSame
<1>8. CallOK(t)' /\ GivenOK(t)' /\ call'[t].pc \notin Quiet /\ call[t].pc \notin Quiet
  BY <1>1, <1>4, <1>6 DEF CallOK, GivenOK, Quiet, Named
<1>9. CountInv' /\ CallInv' /\ ExportInv' /\ ShowInv'
  BY <1>1, <1>4, <1>6, <1>7, <1>8, QuietKeeps
<1>10. LockInv' BY <1>1, <1>4, <1>6, LockTaken
<1>11. StatInv' BY <1>1, StatsSame
<1>12. QuantileInv' BY <1>6, <1>8, QuantilesSame
<1>13. FlatInv' /\ SideInv' BY <1>1, RestSame DEF IInv, SideInv
<1> QED BY <1>9, <1>10, <1>11, <1>12, <1>13 DEF IInv

\* One stat is flushed or cleared.
LEMMA VisitStatStep ==
  ASSUME IInv, NEW t \in Threads, NEW s \in Stats, VisitStat(t, s),
         UNCHANGED <<quantileVars, flatVars>>
  PROVE  IInv'
<1> DEFINE d == [call[t] EXCEPT !.visit = @ \ {s}]
<1>1. /\ call[t].pc = "visit" /\ call' = [call EXCEPT ![t].visit = @ \ {s}]
      /\ \/ UNCHANGED <<samples, owed>>
         \/ /\ samples' = [samples EXCEPT ![s] = 0]
            /\ owed' = [n \in Names |-> IF statMap[n] = s THEN 0 ELSE owed[n]]
      /\ UNCHANGED <<statMap, writer, made, dynamic, asked, stale, raced, calls>>
  BY DEF VisitStat, At
<1>2. call[t] \in Shape /\ DOMAIN call = Threads BY CallNow
<1>3. d \in Shape /\ d.pc = "visit" BY <1>1, <1>2 DEF Shape
<1>4. call' = [call EXCEPT ![t] = d] BY <1>1, <1>2
<1> HIDE DEF d
<1>5. Only(t) /\ call'[t] = d BY <1>3, <1>4, SetCall
<1>6. UNCHANGED <<bases, keys, offered, defsOf, forgotten>> BY QuantileVarsSame
<1>7. CallOK(t)' /\ GivenOK(t)' /\ call'[t].pc \notin Quiet /\ call[t].pc \notin Quiet
  BY <1>1, <1>3, <1>5 DEF CallOK, GivenOK, Quiet, Named
<1>8. CountInv' /\ CallInv' /\ ExportInv' /\ ShowInv'
  BY <1>1, <1>3, <1>5, <1>6, <1>7, QuietKeeps
<1>9. LockInv' BY <1>1, <1>3, <1>5, LockKept
<1>10. StatInv'
  <2>1. CASE UNCHANGED <<samples, owed>> BY <1>1, <2>1, StatsSame
  <2>2. CASE /\ samples' = [samples EXCEPT ![s] = 0]
             /\ owed' = [n \in Names |-> IF statMap[n] = s THEN 0 ELSE owed[n]]
    <3>1. StatInv /\ None \notin Stats BY CallAssumption DEF IInv, Stats
    <3>2. samples' \in [Stats -> Nat] /\ owed' \in [Names -> Nat] BY <2>2, <3>1 DEF StatInv
    <3>3. \A x \in Stats : x > made => samples'[x] = 0 BY <2>2, <3>1 DEF StatInv
    <3>4. ASSUME NEW m \in Names
          PROVE  owed'[m] = IF statMap'[m] = None THEN 0 ELSE samples'[statMap'[m]]
      BY <1>1, <2>2, <3>1 DEF StatInv
    <3> QED BY <1>1, <3>1, <3>2, <3>3, <3>4 DEF StatInv
  <2> QED BY <1>1, <2>1, <2>2
<1>11. QuantileInv' BY <1>5, <1>7, QuantilesSame
<1>12. FlatInv' /\ SideInv' BY <1>1, RestSame DEF IInv, SideInv
<1> QED BY <1>8, <1>9, <1>10, <1>11, <1>12 DEF IInv

\* The walk is over.
LEMMA VisitedStep ==
  ASSUME IInv, NEW t \in Threads, Visited(t), UNCHANGED <<quantileVars, flatVars>>
  PROVE  IInv'
<1>1. /\ call[t].pc = "visit" /\ writer' = None /\ Return(t)
      /\ UNCHANGED <<statMap, made, samples, dynamic, asked, owed, stale, raced, calls>>
  BY DEF Visited, At
<1>2. Only(t) /\ call'[t].pc = "idle" BY <1>1, ReturnIs
<1>3. UNCHANGED <<bases, keys, offered, defsOf, forgotten>> BY QuantileVarsSame
<1>4. CallOK(t)' /\ GivenOK(t)' /\ call'[t].pc \notin Quiet BY <1>2, IdleOK DEF Only
<1>5. call[t].pc \notin Quiet BY <1>1 DEF Quiet
<1>6. CountInv' /\ CallInv' /\ ExportInv' /\ ShowInv'
  BY <1>1, <1>2, <1>3, <1>4, <1>5, QuietKeeps
<1>7. LockInv' BY <1>1, <1>2, LockReleased
<1>8. StatInv' BY <1>1, StatsSame
<1>9. QuantileInv' BY <1>2, <1>4, QuantilesSame
<1>10. FlatInv' /\ SideInv' BY <1>1, RestSame DEF IInv, SideInv
<1> QED BY <1>6, <1>7, <1>8, <1>9, <1>10 DEF IInv

-----------------------------------------------------------------------------
(***************************************************************************)
(* unExportStatAll(), with the map locked throughout.                      *)
(***************************************************************************)
\* The map is locked, or the name is not there.
LEMMA LockMapStep ==
  ASSUME IInv, NEW t \in Threads, LockMap(t), UNCHANGED <<quantileVars, flatVars>>
  PROVE  IInv'
<1> DEFINE n == call[t].name
           d == [call[t] EXCEPT !.pc = "unregister", !.todo = CountersOf(n, Types)]
<1>1. /\ call[t].pc = "lockMap" /\ writer = None
      /\ \/ Return(t) /\ UNCHANGED <<writer, raced>>
         \/ /\ writer' = t
            /\ call' = [call EXCEPT ![t].pc = "unregister", ![t].todo = CountersOf(n, Types)]
            /\ raced' = raced \cup ({n} \cap Exporting)
      /\ UNCHANGED <<statMap, made, samples, dynamic, asked, owed, stale, calls>>
  BY DEF LockMap, At
<1>2. call[t].pc \notin Quiet BY <1>1 DEF Quiet
<1>3. StatInv' BY <1>1, StatsSame
<1>4. CASE Return(t) /\ UNCHANGED <<writer, raced>>
  <2>1. Only(t) /\ call'[t].pc = "idle" BY <1>4, ReturnIs
  <2> QED BY <1>1, <1>2, <1>3, <1>4, <2>1, ReturnStep
<1>5. CASE /\ writer' = t
           /\ call' = [call EXCEPT ![t].pc = "unregister", ![t].todo = CountersOf(n, Types)]
           /\ raced' = raced \cup ({n} \cap Exporting)
  <2>1. call[t] \in Shape /\ DOMAIN call = Threads /\ n \in Names
    BY <1>1, CallNow DEF CallOK, Named
  <2>2. CountersOf(n, Types) \in SUBSET Counters BY <2>1 DEF CountersOf, Counters
  <2>3. /\ d \in Shape /\ d.pc = "unregister" /\ d.name = n /\ d.todo = CountersOf(n, Types)
    <3>1. "unregister" \in Labels BY DEF Labels
    <3> QED BY <2>1, <2>2, <3>1 DEF Shape
  <2>4. call' = [call EXCEPT ![t] = d] BY <1>5, <2>1
  <2> HIDE DEF d
  <2>5. Only(t) /\ call'[t] = d BY <2>3, <2>4, SetCall
  <2>6. UNCHANGED <<bases, keys, offered, defsOf, forgotten>> BY QuantileVarsSame
  <2>7. CallOK(t)' /\ GivenOK(t)' BY <2>1, <2>3, <2>5 DEF CallOK, GivenOK
  <2>8. CountInv' BY <1>1, <2>3, <2>5, <2>6, CountSame
  <2>9. CallInv' BY <1>1, <2>5, <2>6, <2>7, CallsSame
  <2>10. LockInv' BY <1>1, <1>5, <2>3, <2>5, LockTaken
  <2>11. raced \subseteq raced' /\ raced' \subseteq Names
    BY <1>5, <2>1 DEF IInv, SideInv
  <2>12. ExportInv'
    <3>1. ExportOK(t)' /\ ClearOK(t)' BY <2>3, <2>5 DEF ExportOK, ClearOK
    <3>2. RemoveOK(t)'
      <4>1. ASSUME n \notin raced' PROVE ~Exports(n)'
        <5>1. ~Exports(n) BY <1>5, <4>1, ExportingIs
        <5>2. \A u \in Threads : call'[u].pc = "register" => call'[u].name # n
          BY <2>3, <2>5, <5>1 DEF Exports, Only, Same
        <5>3. call'[t].name = n BY <2>3, <2>5
        <5> QED BY <5>2, <5>3 DEF Exports
      <4>2. \A y \in Types : <<n, y>> \in call'[t].todo BY <2>3, <2>5 DEF CountersOf
      <4>3. call'[t].name = n /\ call'[t].pc = "unregister" BY <2>3, <2>5
      <4>4. call'[t].name \notin raced' => ~Exports(call[t].name)' BY <4>1, <4>3
      <4> QED BY <4>2, <4>3, <4>4 DEF RemoveOK
    <3>3. \A u \in Threads : ExportOK(u)' BY <1>1, <2>5, <2>11, <3>1, ExportFrame
    <3>4. \A u \in Threads : RemoveOK(u)' BY <1>1, <2>5, <2>11, <3>2, RemoveFrame
    <3>5. \A u \in Threads : ClearOK(u)' BY <1>1, <2>5, <2>11, <3>1, ClearFrame
    <3>6. ResetOK' BY <1>1, <2>3, <2>5, <2>11, ResetFrame
    <3> QED BY <3>3, <3>4, <3>5, <3>6 DEF ExportInv
  <2>13. ShowInv'
    <3>1. Resetting' <=> Resetting BY <1>1, <2>3, <2>5 DEF Resetting, Only, Same
    <3>2. ASSUME ~Resetting, NEW m \in Names \ (stale \cup raced), NEW y \in Types
          PROVE  ShowOK(m, y)'
      <4>1. ~UnderwayBy(t, m, y) BY <1>2 DEF UnderwayBy, Quiet
      <4> QED BY <1>1, <2>5, <3>2, <4>1, ShowFrame
    <3> QED BY <1>1, <2>11, <3>1, <3>2 DEF ShowInv
  <2>14. QuantileInv' BY <2>5, <2>7, QuantilesSame
  <2>15. FlatInv' /\ SideInv' BY <1>1, <2>11, RestSame DEF IInv, SideInv
  <2> QED BY <1>3, <2>8, <2>9, <2>10, <2>12, <2>13, <2>14, <2>15 DEF IInv
<1> QED BY <1>1, <1>4, <1>5

\* A counter is taken out of its map; then its readers are waited for.
LEMMA UnregisterStep ==
  ASSUME IInv, NEW t \in Threads, NEW c \in Counters, Unregister(t, c),
         UNCHANGED <<quantileVars, flatVars>>
  PROVE  IInv'
<1> DEFINE n == call[t].name
           w == {u \in Threads : At(u, "read") /\ call[u].types = {c}}
           d == [call[t] EXCEPT !.todo = @ \ {c}, !.waitFor = w]
<1>1. /\ call[t].pc = "unregister" /\ c \in call[t].todo /\ dynamic' = [dynamic EXCEPT ![c] = None]
      /\ call' = [call EXCEPT ![t].todo = @ \ {c}, ![t].waitFor = w]
      /\ UNCHANGED <<statMap, writer, made, samples, asked, owed, stale, raced, calls>>
  BY DEF Unregister, At
<1>2. call[t] \in Shape /\ DOMAIN call = Threads /\ n \in Names
  BY <1>1, CallNow DEF CallOK, Named
<1>3. w \in SUBSET Threads OBVIOUS
<1>4. call' = [call EXCEPT ![t] = d] BY <1>1, <1>2
<1> HIDE DEF w
<1>5. d \in Shape /\ d.pc = "unregister" /\ d.name = n /\ d.todo = call[t].todo \ {c}
  BY <1>1, <1>2, <1>3 DEF Shape
<1> HIDE DEF d
<1>6. Only(t) /\ call'[t] = d BY <1>4, <1>5, SetCall
<1>7. UNCHANGED <<bases, keys, offered, defsOf, forgotten>> BY QuantileVarsSame
<1>8. CallOK(t)' /\ GivenOK(t)'
  <2>1. call[t].todo \subseteq CountersOf(n, Types) BY <1>1, CallNow DEF CallOK
  <2> QED BY <1>2, <1>5, <1>6, <2>1 DEF CallOK, GivenOK
<1>9. CountInv' BY <1>1, <1>5, <1>6, <1>7, CountSame
<1>10. CallInv' BY <1>1, <1>6, <1>7, <1>8, CallsSame
<1>11. LockInv' BY <1>1, <1>5, <1>6, LockKept
<1>12. dynamic \in [Counters -> (1..made) \cup {None}] BY DEF IInv, StatInv
<1>13. /\ dynamic' \in [Counters -> (1..made) \cup {None}] /\ dynamic'[c] = None
       /\ \A b \in Counters : b # c => dynamic'[b] = dynamic[b]
  BY <1>1, <1>12
<1>14. StatInv' BY <1>1, <1>13 DEF IInv, StatInv
<1>15. \A m \in Names, y \in Types : dynamic'[<<m, y>>] \in {dynamic[<<m, y>>], None}
  BY <1>13 DEF Counters
<1>16. ExportInv'
  <2>1. ExportOK(t)' /\ ClearOK(t)' BY <1>5, <1>6 DEF ExportOK, ClearOK
  <2>2. call'[t].pc = "unregister" /\ call'[t].name = n /\ call'[t].todo = call[t].todo \ {c}
    BY <1>5, <1>6
  <2>3. RemoveOK(t)'
    <3>1. ASSUME n \notin raced
          PROVE  /\ ~Exports(n)
                 /\ \A y \in Types : <<n, y>> \notin call[t].todo => dynamic[<<n, y>>] = None
      BY <1>1, <3>1 DEF IInv, ExportInv, RemoveOK
    <3>2. ASSUME ~Exports(n) PROVE \A u \in Threads : call'[u].pc = "register" => call'[u].name # n
      BY <2>2, <1>6, <3>2 DEF Exports, Only, Same
    <3>3. n \notin raced => ~Exports(call[t].name)' BY <2>2, <3>1, <3>2 DEF Exports
    <3>4. ASSUME n \notin raced, NEW y \in Types, <<n, y>> \notin call'[t].todo
          PROVE  dynamic'[<<n, y>>] = None
      <4>1. <<n, y>> \in Counters BY <1>2 DEF Counters
      <4>2. CASE <<n, y>> = c BY <1>13, <4>2
      <4>3. CASE <<n, y>> # c BY <1>13, <2>2, <3>1, <3>4, <4>1, <4>3
      <4> QED BY <4>2, <4>3
    <3>5. raced' = raced BY <1>1
    <3>6. \A y \in Types : n \notin raced /\ <<n, y>> \notin call'[t].todo =>
             dynamic'[<<n, y>>] = None
      BY <3>4
    <3> QED BY <2>2, <3>3, <3>5, <3>6 DEF RemoveOK
  <2>4. \A u \in Threads : ExportOK(u)' BY <1>1, <1>6, <2>1, ExportFrame
  <2>5. \A u \in Threads : RemoveOK(u)' BY <1>1, <1>6, <1>15, <2>2, <2>3, RemoveFrame
  <2>6. \A u \in Threads : ClearOK(u)' BY <1>1, <1>6, <1>15, <2>1, ClearFrame
  <2>7. ResetOK' BY <1>1, <1>6, <2>2, ResetFrame
  <2> QED BY <2>4, <2>5, <2>6, <2>7 DEF ExportInv
<1>17. ShowInv'
  <2>1. Resetting' <=> Resetting BY <1>1, <1>5, <1>6 DEF Resetting, Only, Same
  <2>2. ASSUME ~Resetting, NEW m \in Names \ (stale \cup raced), NEW y \in Types
        PROVE  ShowOK(m, y)'
    <3>2. CASE m = n
      <4>1. ShowOK(m, y) BY <2>2 DEF IInv, ShowInv
      <4>2. dynamic'[<<m, y>>] \in {None, statMap'[m]} BY <1>1, <1>15, <4>1 DEF ShowOK
      <4>3. UnderwayBy(t, m, y)' BY <1>5, <1>6, <3>2 DEF UnderwayBy
      <4>4. Underway(m, y)' BY <4>3 DEF Underway
      <4> QED BY <4>2, <4>4 DEF ShowOK
    <3>3. CASE m # n
      <4>1. c \in CountersOf(n, Types) BY <1>1, CallNow DEF CallOK
      <4>2. <<m, y>> # c /\ <<m, y>> \in Counters BY <3>3, <4>1 DEF Counters, CountersOf
      <4>3. dynamic'[<<m, y>>] = dynamic[<<m, y>>] BY <1>13, <4>2
      <4>4. ~UnderwayBy(t, m, y) BY <3>3 DEF UnderwayBy
      <4> QED BY <1>1, <1>6, <2>2, <4>3, <4>4, ShowFrame
    <3> QED BY <3>2, <3>3
  <2> QED BY <1>1, <2>1, <2>2 DEF ShowInv
<1>18. QuantileInv' BY <1>6, <1>8, QuantilesSame
<1>19. FlatInv' /\ SideInv' BY <1>1, RestSame DEF IInv, SideInv
<1> QED BY <1>9, <1>10, <1>11, <1>14, <1>16, <1>17, <1>18, <1>19 DEF IInv

\* Names leave the map.
LEMMA GoneStats ==
  ASSUME IInv, NEW G,
         statMap' = [n \in Names |-> IF n \in G THEN None ELSE statMap[n]],
         owed' = [n \in Names |-> IF n \in G THEN 0 ELSE owed[n]],
         UNCHANGED <<made, samples, asked, dynamic>>
  PROVE  /\ StatInv' /\ \A n \in Names : statMap'[n] \in {statMap[n], None}
         /\ \A n \in Names : n \in G => statMap'[n] = None
         /\ \A n \in Names : n \notin G => statMap'[n] = statMap[n]
<1>1. StatInv BY DEF IInv
<1>2. /\ \A n \in Names : statMap'[n] = IF n \in G THEN None ELSE statMap[n]
      /\ \A n \in Names : owed'[n] = IF n \in G THEN 0 ELSE owed[n]
  OBVIOUS
<1>3. statMap' \in [Names -> (1..made') \cup {None}] /\ owed' \in [Names -> Nat]
  BY <1>1 DEF StatInv
<1>4. \A n, m \in Names : statMap'[n] = statMap'[m] /\ statMap'[n] # None => n = m
  BY <1>1, <1>2 DEF StatInv
<1>5. \A n \in Names : owed'[n] = IF statMap'[n] = None THEN 0 ELSE samples'[statMap'[n]]
  BY <1>1, <1>2 DEF StatInv
<1>6. StatInv' BY <1>1, <1>3, <1>4, <1>5 DEF StatInv
<1> QED BY <1>2, <1>6

\* The name is erased, once all its counters are.
LEMMA EraseStatStep ==
  ASSUME IInv, NEW t \in Threads, EraseStat(t), UNCHANGED <<quantileVars, flatVars>>
  PROVE  IInv'
<1>1. PICK n : n = call[t].name OBVIOUS
<1>2. /\ call[t].pc = "unregister" /\ call[t].todo = {}
      /\ statMap' = [statMap EXCEPT ![n] = None] /\ owed' = [owed EXCEPT ![n] = 0]
      /\ writer' = None /\ Return(t)
      /\ UNCHANGED <<made, samples, dynamic, asked, stale, raced, calls>>
  BY <1>1 DEF EraseStat, At
<1>3. n \in Names BY <1>1, <1>2, CallNow DEF CallOK, Named
<1>4. Only(t) /\ call'[t].pc = "idle" BY <1>2, ReturnIs
<1>5. UNCHANGED <<bases, keys, offered, defsOf, forgotten>> BY QuantileVarsSame
<1>6. CallOK(t)' /\ GivenOK(t)' /\ call'[t].pc \notin Quiet BY <1>4, IdleOK DEF Only
<1>7. /\ StatInv' /\ \A m \in Names : statMap'[m] \in {statMap[m], None}
      /\ statMap'[n] = None
      /\ \A m \in Names : m # n => statMap'[m] = statMap[m]
  <2>1. statMap' = [m \in Names |-> IF m \in {n} THEN None ELSE statMap[m]]
    BY <1>2, <1>3 DEF IInv, StatInv
  <2>2. owed' = [m \in Names |-> IF m \in {n} THEN 0 ELSE owed[m]]
    BY <1>2, <1>3 DEF IInv, StatInv
  <2>3. UNCHANGED <<made, samples, asked, dynamic>> BY <1>2
  <2>4. PICK G : G = {n} OBVIOUS
  <2>5. /\ statMap' = [m \in Names |-> IF m \in G THEN None ELSE statMap[m]]
        /\ owed' = [m \in Names |-> IF m \in G THEN 0 ELSE owed[m]]
    BY <2>1, <2>2, <2>4
  <2>6. /\ StatInv' /\ \A m \in Names : statMap'[m] \in {statMap[m], None}
        /\ \A m \in Names : m \in G => statMap'[m] = None
        /\ \A m \in Names : m \notin G => statMap'[m] = statMap[m]
    BY <2>3, <2>5, GoneStats
  <2> QED BY <1>3, <2>4, <2>6
<1>8. CountInv' BY <1>2, <1>4, <1>5, CountSame
<1>9. CallInv'
  <2>1. made' \in Nat /\ made' >= made /\ offered' \in Nat /\ offered' >= offered
    BY <1>2, <1>5 DEF IInv, CountInv
  <2> QED BY <1>4, <1>6, <1>7, <2>1, CallFrame
<1>10. LockInv' BY <1>2, <1>4, LockReleased
<1>11. n \notin raced => ~Exports(n) /\ \A y \in Types : dynamic[<<n, y>>] = None
  BY <1>1, <1>2 DEF IInv, ExportInv, RemoveOK
<1>12. ExportInv'
  <2>1. ExportOK(t)' /\ RemoveOK(t)' /\ ClearOK(t)' BY <1>4 DEF ExportOK, RemoveOK, ClearOK
  <2>2. \A m \in Names : statMap'[m] = statMap[m] \/ ~Exports(m) \/ m \in raced'
    BY <1>2, <1>7, <1>11
  <2>3. \A u \in Threads : ExportOK(u)' BY <1>2, <1>4, <2>1, <2>2, ExportFrame
  <2>4. \A u \in Threads : RemoveOK(u)' BY <1>2, <1>4, <2>1, RemoveFrame
  <2>5. \A u \in Threads : ClearOK(u)' BY <1>2, <1>4, <2>1, ClearFrame
  <2>6. ResetOK' BY <1>2, <1>4, <1>7, ResetFrame
  <2> QED BY <2>3, <2>4, <2>5, <2>6 DEF ExportInv
<1>13. ShowInv'
  <2>1. Resetting' <=> Resetting BY <1>2, <1>4 DEF Resetting, Only, Same
  <2>2. ASSUME ~Resetting, NEW m \in Names \ (stale \cup raced), NEW y \in Types
        PROVE  ShowOK(m, y)'
    <3>1. CASE m = n BY <1>2, <1>7, <1>11, <2>2, <3>1 DEF ShowOK
    <3>2. CASE m # n
      <4>1. ~UnderwayBy(t, m, y) BY <1>1, <3>2 DEF UnderwayBy
      <4> QED BY <1>2, <1>4, <1>7, <2>2, <3>2, <4>1, ShowFrame
    <3> QED BY <3>1, <3>2
  <2> QED BY <1>2, <2>1, <2>2 DEF ShowInv
<1>14. QuantileInv' BY <1>4, <1>6, QuantilesSame
<1>15. FlatInv' /\ SideInv' BY <1>2, RestSame DEF IInv, SideInv
<1> QED BY <1>7, <1>8, <1>9, <1>10, <1>12, <1>13, <1>14, <1>15 DEF IInv

-----------------------------------------------------------------------------
(***************************************************************************)
(* forgetStatsFor() and forgetAllStats(): the counters stay.               *)
(***************************************************************************)
\* A call that stays where it is.
LEMMA StaysIs ==
  ASSUME IInv, NEW t \in Threads, UNCHANGED call
  PROVE  Only(t) /\ call'[t] = call[t]
<1>1. call[t] \in Shape /\ call \in [Threads -> Shape] /\ \A u \in Threads \ {t} : call[u] \in Shape
  BY CallNow
<1>2. ASSUME NEW u \in Threads \ {t} PROVE Same(u) BY <1>1 DEF Same
<1> QED BY <1>1, <1>2 DEF Only

\* A call that is made and over in one step.
LEMMA CountCall ==
  ASSUME IInv, NEW t \in Threads, UNCHANGED <<call, made, offered>>, calls < MaxCalls,
         calls' = calls + 1
  PROVE  CountInv'
<1>1. Only(t) /\ call'[t] = call[t] BY StaysIs
<1>2. /\ made \in Nat /\ offered \in Nat /\ calls \in 0..MaxCalls /\ calls \in Nat
      /\ MaxCalls \in Nat
  BY CallAssumption DEF IInv, CountInv
<1>3. calls' \in 0..MaxCalls BY <1>2
<1>4. One(call[t].pc \in {"find", "create"}) \in Nat /\ One(call[t].pc = "getQuantile") \in Nat
  BY DEF One
<1>5. /\ made' + One(call'[t].pc \in {"find", "create"}) + calls
           <= made + One(call[t].pc \in {"find", "create"}) + calls'
      /\ offered' + One(call'[t].pc = "getQuantile") + calls
           <= offered + One(call[t].pc = "getQuantile") + calls'
  BY <1>1, <1>2, <1>4
<1> QED BY <1>1, <1>2, <1>3, <1>5, CountStep

\* Names are forgotten by a thread that is not exporting.
LEMMA ForgetShows ==
  ASSUME IInv, NEW t \in Threads, Only(t), call[t].pc \notin Quiet, NEW G \in SUBSET Names,
         statMap' = [n \in Names |-> IF n \in G THEN None ELSE statMap[n]],
         owed' = [n \in Names |-> IF n \in G THEN 0 ELSE owed[n]],
         raced' = raced \cup (G \cap Exporting), UNCHANGED dynamic,
         \/ call'[t].pc \notin Quiet
         \/ call'[t].pc = "resetQuantiles" /\ G = Names
  PROVE  ExportInv' /\ raced \subseteq raced' /\ raced' \subseteq Names
<1>1. \A n \in Names : statMap'[n] = IF n \in G THEN None ELSE statMap[n] OBVIOUS
<1>2. raced \subseteq raced' /\ raced' \subseteq Names BY DEF IInv, SideInv
<1>3. ExportOK(t)' /\ RemoveOK(t)' /\ ClearOK(t)' BY DEF ExportOK, RemoveOK, ClearOK, Quiet
<1>4. \A n \in Names : statMap'[n] = statMap[n] \/ ~Exports(n) \/ n \in raced'
  BY <1>1, ExportingIs
<1>5. \A u \in Threads : ExportOK(u)' BY <1>2, <1>3, <1>4, ExportFrame
<1>6. call'[t].pc # "register" BY DEF Quiet
<1>7. \A u \in Threads : RemoveOK(u)' BY <1>2, <1>3, <1>6, RemoveFrame
<1>8. \A u \in Threads : ClearOK(u)' BY <1>2, <1>3, ClearFrame
<1>9. ResetOK'
  <2>1. \/ call'[t].pc \notin {"resetQuantiles", "clearCounters"}
        \/ \A n \in Names : statMap'[n] = None
    BY <1>1 DEF Quiet
  <2>2. \A n \in Names : statMap'[n] \in {statMap[n], None} BY <1>1
  <2> QED BY <1>2, <2>1, <2>2, ResetFrame
<1> QED BY <1>2, <1>5, <1>7, <1>8, <1>9 DEF ExportInv

\* forgetStatsFor()
LEMMA ForgetStatsForStep ==
  ASSUME IInv, NEW t \in Threads, NEW n \in Names, ForgetStatsFor(t, n),
         UNCHANGED <<quantileVars, flatVars>>
  PROVE  IInv'
<1>1. PICK G \in SUBSET Names : G = {n} OBVIOUS
<1>2. /\ call[t].pc = "idle" /\ calls < MaxCalls /\ calls' = calls + 1
      /\ statMap' = [m \in Names |-> IF m \in G THEN None ELSE statMap[m]]
      /\ owed' = [m \in Names |-> IF m \in G THEN 0 ELSE owed[m]]
      /\ raced' = raced \cup (G \cap Exporting)
      /\ stale' = stale \cup {n}
      /\ UNCHANGED <<call, writer, made, samples, dynamic, asked>>
  BY <1>1 DEF ForgetStatsFor, Forget, At
<1>3. Only(t) /\ call'[t] = call[t] BY <1>2, StaysIs
<1>4. UNCHANGED <<bases, keys, offered, defsOf, forgotten>> BY QuantileVarsSame
<1>5. CallOK(t)' /\ GivenOK(t)' /\ call'[t].pc \notin Quiet BY <1>2, <1>3, IdleOK DEF Only
<1>6. call[t].pc \notin Quiet BY <1>2 DEF Quiet
<1>7. /\ StatInv' /\ \A m \in Names : statMap'[m] \in {statMap[m], None}
      /\ \A m \in Names : m \notin G => statMap'[m] = statMap[m]
  BY <1>2, GoneStats
<1>8. CountInv' BY <1>2, <1>4, CountCall
<1>9. CallInv'
  <2>1. made' \in Nat /\ made' >= made /\ offered' \in Nat /\ offered' >= offered
    BY <1>2, <1>4 DEF IInv, CountInv
  <2> QED BY <1>3, <1>5, <1>7, <2>1, CallFrame
<1>10. LockInv' BY <1>2, <1>3, LockKept
<1>11. ExportInv' /\ raced \subseteq raced' /\ raced' \subseteq Names
  BY <1>2, <1>3, <1>5, <1>6, ForgetShows
<1>12. ShowInv'
  <2>1. Resetting' <=> Resetting BY <1>2 DEF Resetting
  <2>2. ASSUME ~Resetting, NEW m \in Names \ (stale' \cup raced'), NEW y \in Types
        PROVE  ShowOK(m, y)'
    <3>1. m # n /\ m \in Names \ (stale \cup raced) BY <1>2, <1>11
    <3>2. statMap'[m] = statMap[m] BY <1>1, <1>7, <3>1
    <3>3. ~UnderwayBy(t, m, y) BY <1>2 DEF UnderwayBy
    <3> QED BY <1>2, <1>3, <2>2, <3>1, <3>2, <3>3, ShowFrame
  <2> QED BY <2>1, <2>2 DEF ShowInv
<1>13. QuantileInv' BY <1>3, <1>5, QuantilesSame
<1>14. FlatInv' /\ SideInv' BY <1>2, <1>11, RestSame DEF IInv, SideInv
<1> QED BY <1>7, <1>8, <1>9, <1>10, <1>11, <1>12, <1>13, <1>14 DEF IInv

\* forgetAllStats(), of resetAllData()
LEMMA ResetStatsStep ==
  ASSUME IInv, NEW t \in Threads, ResetStats(t)
  PROVE  IInv'
<1>1. PICK G \in SUBSET Names : G = Names OBVIOUS
<1>2. /\ call[t].pc = "resetStats" /\ writer = None /\ Goto(t, "resetQuantiles")
      /\ statMap' = [m \in Names |-> IF m \in G THEN None ELSE statMap[m]]
      /\ owed' = [m \in Names |-> IF m \in G THEN 0 ELSE owed[m]]
      /\ raced' = raced \cup (G \cap Exporting)
      /\ UNCHANGED <<calls, writer, made, samples, dynamic, asked, stale>>
      /\ UNCHANGED <<quantileVars, flatVars>>
  BY <1>1 DEF ResetStats, Forget, At
<1>3. Only(t) /\ call'[t].pc = "resetQuantiles"
  <2>1. "resetQuantiles" \in Labels BY DEF Labels
  <2> QED BY <1>2, <2>1, GotoIs
<1>4. UNCHANGED <<bases, keys, offered, defsOf, forgotten>> BY <1>2, QuantileVarsSame
<1>5. CallOK(t)' /\ GivenOK(t)' BY <1>3 DEF CallOK, GivenOK, Only, Named
<1>6. call[t].pc \notin Quiet BY <1>2 DEF Quiet
<1>7. /\ StatInv' /\ \A m \in Names : statMap'[m] \in {statMap[m], None}
  BY <1>2, GoneStats
<1>8. CountInv' BY <1>2, <1>3, <1>4, CountSame
<1>9. CallInv'
  <2>1. made' \in Nat /\ made' >= made /\ offered' \in Nat /\ offered' >= offered
    BY <1>2, <1>4 DEF IInv, CountInv
  <2> QED BY <1>3, <1>5, <1>7, <2>1, CallFrame
<1>10. LockInv' BY <1>2, <1>3, LockKept
<1>11. ExportInv' /\ raced \subseteq raced' /\ raced' \subseteq Names
  BY <1>1, <1>2, <1>3, <1>6, ForgetShows
<1>12. ShowInv'
  <2>1. Resetting' BY <1>3 DEF Resetting
  <2> QED BY <2>1 DEF ShowInv
<1>13. QuantileInv' BY <1>2, <1>3, <1>5, QuantilesSame
<1>14. FlatInv' /\ SideInv' BY <1>2, <1>11, RestSame DEF IInv, SideInv
<1> QED BY <1>7, <1>8, <1>9, <1>10, <1>11, <1>12, <1>13, <1>14 DEF IInv

-----------------------------------------------------------------------------
(***************************************************************************)
(* resetAllData(): the quantile stats and the counters.                    *)
(***************************************************************************)
\* forgetAll() of the quantile stats
LEMMA ResetQuantilesStep ==
  ASSUME IInv, NEW t \in Threads, ResetQuantiles(t)
  PROVE  IInv'
<1> DEFINE d == [call[t] EXCEPT !.pc = "clearCounters", !.todo = Counters]
<1>1. /\ call[t].pc = "resetQuantiles"
      /\ bases' = [n \in Names |-> None] /\ keys' = [k \in Keys |-> None]
      /\ forgotten' = forgotten \cup ({bases[n] : n \in Names} \ {None})
      /\ call' = [call EXCEPT ![t].pc = "clearCounters", ![t].todo = Counters]
      /\ UNCHANGED <<calls, offered, defsOf, flatVars>>
      /\ UNCHANGED <<statMap, writer, made, samples, dynamic, asked, owed, stale, raced>>
  BY DEF ResetQuantiles, At, statVars
<1>2. call[t] \in Shape /\ DOMAIN call = Threads BY CallNow
<1>3. d \in Shape /\ d.pc = "clearCounters" /\ d.todo = Counters
  <2>1. "clearCounters" \in Labels BY DEF Labels
  <2> QED BY <1>2, <2>1 DEF Shape
<1>4. call' = [call EXCEPT ![t] = d] BY <1>1, <1>2
<1> HIDE DEF d
<1>5. Only(t) /\ call'[t] = d BY <1>3, <1>4, SetCall
<1>6. CallOK(t)' /\ GivenOK(t)' BY <1>3, <1>5 DEF CallOK, GivenOK, Only, Named
<1>7. CountInv' BY <1>1, <1>3, <1>5, CountSame
<1>8. CallInv' BY <1>1, <1>5, <1>6, CallsSame
<1>9. LockInv' BY <1>1, <1>3, <1>5, LockKept
<1>10. StatInv' BY <1>1, StatsSame
<1>11. ExportInv'
  <2>1. call'[t].pc = "clearCounters" /\ call'[t].todo = Counters BY <1>3, <1>5
  <2>2. ExportOK(t)' /\ RemoveOK(t)' /\ ClearOK(t)'
    BY <2>1 DEF ExportOK, RemoveOK, ClearOK, Counters
  <2>3. \A u \in Threads : ExportOK(u)' BY <1>1, <1>5, <2>2, ExportFrame
  <2>4. \A u \in Threads : RemoveOK(u)' BY <1>1, <1>5, <2>1, <2>2, RemoveFrame
  <2>5. \A u \in Threads : ClearOK(u)' BY <1>1, <1>5, <2>2, ClearFrame
  <2>6. ResetOK' BY <1>1, <1>5, ResetFrame
  <2> QED BY <2>3, <2>4, <2>5, <2>6 DEF ExportInv
<1>12. ShowInv'
  <2>1. Resetting' BY <1>3, <1>5 DEF Resetting
  <2> QED BY <2>1 DEF ShowInv
<1>13. QuantileInv'
  <2>1. QuantileInv BY DEF IInv
  <2>2. bases' \in [Names -> (1..offered') \cup {None}] /\ defsOf' \in [Stats -> SUBSET Defs]
    BY <1>1, <2>1 DEF QuantileInv
  <2>3. keys' \in [Keys -> (1..offered') \cup {None}] /\ forgotten' \subseteq 1..offered'
    BY <1>1, <2>1 DEF QuantileInv
  <2>4. ASSUME NEW u \in Threads PROVE GivenOK(u)'
    <3>1. CASE u = t BY <1>6, <3>1
    <3>2. CASE u # t
      <4>1. SUFFICES ASSUME call'[u].pc = "addQuantile"
                     PROVE  call'[u].item \in {bases'[call'[u].name]} \cup forgotten'
        BY DEF GivenOK
      <4>2. /\ call[u].pc = "addQuantile" /\ call'[u].name = call[u].name
            /\ call'[u].item = call[u].item
        BY <1>5, <3>2, <4>1 DEF Only, Same
      <4>3. call[u].name \in Names BY <4>2 DEF IInv, CallInv, CallOK, Named
      <4>4. call[u].item \in {bases[call[u].name]} \cup forgotten
        BY <2>1, <4>2 DEF QuantileInv, GivenOK
      <4>5. call[u].item # None
        <5>1. call[u].item \in 1..offered BY <4>2 DEF IInv, CallInv, CallOK
        <5> QED BY <5>1, CallAssumption
      <4>6. /\ forgotten \subseteq forgotten'
            /\ \A n \in Names : bases[n] # None => bases[n] \in forgotten'
        BY <1>1
      <4>7. call[u].item \in forgotten' BY <4>3, <4>4, <4>5, <4>6
      <4> QED BY <4>2, <4>7
    <3> QED BY <3>1, <3>2
  <2>5. ASSUME NEW n \in Names, NEW e \in Defs PROVE KeyOK(n, e)'
    <3>1. <<n, e>> \in Keys BY DEF Keys
    <3> QED BY <1>1, <3>1 DEF KeyOK
  <2> QED BY <2>2, <2>3, <2>4, <2>5 DEF QuantileInv
<1>14. FlatInv' /\ SideInv' BY <1>1, RestSame DEF IInv, SideInv
<1> QED BY <1>7, <1>8, <1>9, <1>10, <1>11, <1>12, <1>13, <1>14 DEF IInv

\* clear() of the counters, one of them
LEMMA ClearDynamicStep ==
  ASSUME IInv, NEW t \in Threads, NEW c \in Counters, ClearDynamic(t, c)
  PROVE  IInv'
<1>1. /\ call[t].pc = "clearCounters" /\ c \in call[t].todo
      /\ dynamic' = [dynamic EXCEPT ![c] = None]
      /\ call' = [call EXCEPT ![t].todo = @ \ {c}]
      /\ UNCHANGED <<calls, statMap, writer, made, samples, asked, owed, stale, raced>>
      /\ UNCHANGED <<quantileVars, flatVars>>
  BY DEF ClearDynamic, At
<1>2. Only(t) /\ call'[t].pc = "clearCounters" /\ call'[t].todo = call[t].todo \ {c}
  BY <1>1, TodoIs
<1>3. UNCHANGED <<bases, keys, offered, defsOf, forgotten>> BY <1>1, QuantileVarsSame
<1>4. CallOK(t)' /\ GivenOK(t)' BY <1>2 DEF CallOK, GivenOK, Only, Named
<1>5. CountInv' BY <1>1, <1>2, <1>3, CountSame
<1>6. CallInv' BY <1>1, <1>2, <1>3, <1>4, CallsSame
<1>7. LockInv' BY <1>1, <1>2, LockKept
<1>8. dynamic \in [Counters -> (1..made) \cup {None}] BY DEF IInv, StatInv
<1>9. /\ dynamic' \in [Counters -> (1..made) \cup {None}] /\ dynamic'[c] = None
      /\ \A b \in Counters : b # c => dynamic'[b] = dynamic[b]
  BY <1>1, <1>8
<1>10. StatInv' BY <1>1, <1>9 DEF IInv, StatInv
<1>11. \A m \in Names, y \in Types : dynamic'[<<m, y>>] \in {dynamic[<<m, y>>], None}
  BY <1>9 DEF Counters
<1>12. ExportInv'
  <2>1. ExportOK(t)' /\ RemoveOK(t)' BY <1>2 DEF ExportOK, RemoveOK
  <2>2. ClearOK(t)'
    <3>1. ASSUME NEW n \in Names \ raced, NEW y \in Types, <<n, y>> \notin call'[t].todo
          PROVE  dynamic'[<<n, y>>] = None
      <4>1. CASE <<n, y>> = c BY <1>9, <4>1
      <4>2. CASE <<n, y>> # c
        <5>1. <<n, y>> \notin call[t].todo BY <1>2, <3>1, <4>2
        <5>2. dynamic[<<n, y>>] = None BY <1>1, <5>1 DEF IInv, ExportInv, ClearOK
        <5> QED BY <1>11, <5>2
      <4> QED BY <4>1, <4>2
    <3> QED BY <1>1, <3>1 DEF ClearOK
  <2>3. \A u \in Threads : ExportOK(u)' BY <1>1, <1>2, <2>1, ExportFrame
  <2>4. \A u \in Threads : RemoveOK(u)' BY <1>1, <1>2, <1>11, <2>1, RemoveFrame
  <2>5. \A u \in Threads : ClearOK(u)' BY <1>1, <1>2, <1>11, <2>2, ClearFrame
  <2>6. ResetOK' BY <1>1, <1>2, ResetFrame
  <2> QED BY <2>3, <2>4, <2>5, <2>6 DEF ExportInv
<1>13. ShowInv'
  <2>1. Resetting' BY <1>2 DEF Resetting
  <2> QED BY <2>1 DEF ShowInv
<1>14. QuantileInv' BY <1>1, <1>2, <1>4, QuantilesSame
<1>15. FlatInv' /\ SideInv' BY <1>1, RestSame DEF IInv, SideInv
<1> QED BY <1>5, <1>6, <1>7, <1>10, <1>12, <1>13, <1>14, <1>15 DEF IInv

\* All counters are cleared, those that forgetStatsFor() left too.
LEMMA ResetDoneStep ==
  ASSUME IInv, NEW t \in Threads, ResetDone(t)
  PROVE  IInv'
<1>1. /\ call[t].pc = "clearCounters" /\ call[t].todo = {} /\ stale' = {} /\ Return(t)
      /\ UNCHANGED <<calls, statMap, writer, made, samples, dynamic, asked, owed, raced>>
      /\ UNCHANGED <<quantileVars, flatVars>>
  BY DEF ResetDone, At
<1>2. Only(t) /\ call'[t].pc = "idle" BY <1>1, ReturnIs
<1>3. UNCHANGED <<bases, keys, offered, defsOf, forgotten>> BY <1>1, QuantileVarsSame
<1>4. CallOK(t)' /\ GivenOK(t)' BY <1>2, IdleOK DEF Only
<1>5. CountInv' BY <1>1, <1>2, <1>3, CountSame
<1>6. CallInv' BY <1>1, <1>2, <1>3, <1>4, CallsSame
<1>7. LockInv' BY <1>1, <1>2, LockKept
<1>8. StatInv' BY <1>1, StatsSame
<1>9. ExportInv'
  <2>1. ExportOK(t)' /\ RemoveOK(t)' /\ ClearOK(t)' BY <1>2 DEF ExportOK, RemoveOK, ClearOK
  <2>2. \A u \in Threads : ExportOK(u)' BY <1>1, <1>2, <2>1, ExportFrame
  <2>3. \A u \in Threads : RemoveOK(u)' BY <1>1, <1>2, <2>1, RemoveFrame
  <2>4. \A u \in Threads : ClearOK(u)' BY <1>1, <1>2, <2>1, ClearFrame
  <2>5. ResetOK' BY <1>1, <1>2, ResetFrame
  <2> QED BY <2>2, <2>3, <2>4, <2>5 DEF ExportInv
<1>10. ShowInv'
  <2>1. Resetting BY <1>1 DEF Resetting
  <2>2. ASSUME NEW n \in Names \ raced, NEW y \in Types PROVE ShowOK(n, y)'
    <3>1. statMap[n] = None BY <2>1 DEF IInv, ExportInv, ResetOK
    <3>2. dynamic[<<n, y>>] = None BY <1>1 DEF IInv, ExportInv, ClearOK
    <3> QED BY <1>1, <3>1, <3>2 DEF ShowOK
  <2> QED BY <1>1, <2>2 DEF ShowInv
<1>11. QuantileInv' BY <1>1, <1>2, <1>4, QuantilesSame
<1>12. FlatInv' /\ SideInv' BY <1>1, RestSame DEF IInv, SideInv
<1> QED BY <1>5, <1>6, <1>7, <1>8, <1>9, <1>10, <1>11, <1>12 DEF IInv

-----------------------------------------------------------------------------
(***************************************************************************)
(* Flat counters.                                                          *)
(***************************************************************************)
\* A step that is about the flat counters only.
LEMMA FlatOnly ==
  ASSUME IInv, NEW t \in Threads, Only(t), UNCHANGED <<calls, statVars, quantileVars>>,
         call[t].pc \in Fresh, call'[t].pc \in Fresh \ {"find", "create", "getQuantile"},
         call'[t].pc \in Named => call'[t].name \in Names, FlatInv', SideInv'
  PROVE  IInv'
<1>1. /\ UNCHANGED <<bases, keys, offered, defsOf, forgotten>>
      /\ UNCHANGED <<statMap, writer, made, samples, dynamic, asked, owed, stale, raced>>
  BY QuantileVarsSame, StatVarsSame
<1>2. /\ CallOK(t)' /\ GivenOK(t)' /\ call'[t].pc \notin Quiet
      /\ call'[t].pc \notin {"unregister", "visit"}
  <2>1. call'[t] \in Shape BY DEF Only
  <2> QED BY <2>1, FreshOK
<1>3. call[t].pc \notin Quiet /\ call[t].pc \notin {"unregister", "visit"} BY DEF Quiet, Fresh
<1>4. CountInv' /\ CallInv' /\ ExportInv' /\ ShowInv' BY <1>1, <1>2, <1>3, QuietKeeps
<1>5. LockInv' BY <1>1, <1>2, <1>3, LockKept
<1>6. StatInv' BY <1>1, StatsSame
<1>7. QuantileInv' BY <1>2, QuantilesSame
<1> QED BY <1>4, <1>5, <1>6, <1>7 DEF IInv

\* What is said besides the values of flat counters.
LEMMA SideSame ==
  ASSUME IInv, UNCHANGED <<resets, stale, raced>>, flat' \in [Names -> Nat \cup {None}],
         flatOwed' \in [Names -> Nat]
  PROVE  SideInv'
  BY DEF IInv, SideInv

\* The counter and what was added to it change together.
LEMMA ApplyStep ==
  ASSUME IInv, NEW t \in Threads, call[t].pc \in {"tryCounter", "upsertCounter"},
         NEW v \in Nat, flatOwed[call[t].name] = v, ApplyTo(t, v),
         UNCHANGED <<calls, resets, statVars, quantileVars>>
  PROVE  IInv'
<1>1. PICK k \in Names : k = call[t].name BY CallNow DEF CallOK, Named
<1>2. PICK w : w = Modified(call[t].op, v) OBVIOUS
<1>3. w \in Nat BY <1>2 DEF Modified
<1>4. flat' = [flat EXCEPT ![k] = w] /\ flatOwed' = [flatOwed EXCEPT ![k] = w] /\ Return(t)
  BY <1>1, <1>2 DEF ApplyTo
<1>5. Only(t) /\ call'[t].pc = "idle" BY <1>4, ReturnIs
<1>6. flat \in [Names -> Nat \cup {None}] /\ flatOwed \in [Names -> Nat] BY DEF IInv, SideInv
<1>7. FlatInv'
  <2>1. ASSUME NEW m \in Names
        PROVE  \/ flat'[m] = None /\ flatOwed'[m] = 0
               \/ flat'[m] \in Nat /\ flatOwed'[m] = flat'[m]
    <3>1. CASE m = k BY <1>3, <1>4, <1>6, <3>1
    <3>2. CASE m # k
      <4>1. flat'[m] = flat[m] /\ flatOwed'[m] = flatOwed[m] BY <1>4, <1>6, <3>2
      <4> QED BY <4>1 DEF IInv, FlatInv
    <3> QED BY <3>1, <3>2
  <2> QED BY <2>1 DEF FlatInv
<1>8. SideInv' BY <1>3, <1>4, <1>6, SideSame, StatVarsSame
<1>9. call[t].pc \in Fresh /\ "idle" \in Fresh \ {"find", "create", "getQuantile"}
      /\ "idle" \notin Named
  BY DEF Fresh, Named
<1> QED BY <1>5, <1>7, <1>8, <1>9, FlatOnly

\* modifyCounter() under the shared lock
LEMMA TryCounterStep ==
  ASSUME IInv, NEW t \in Threads, TryCounter(t), UNCHANGED <<statVars, quantileVars>>
  PROVE  IInv'
<1>1. /\ call[t].pc = "tryCounter" /\ UNCHANGED <<calls, resets>>
      /\ \/ flat[call[t].name] # None /\ ApplyTo(t, flat[call[t].name])
         \/ Goto(t, "upsertCounter") /\ UNCHANGED <<flat, flatOwed>>
  BY DEF TryCounter, At
<1>2. call[t].name \in Names BY <1>1, CallNow DEF CallOK, Named
<1>3. CASE flat[call[t].name] # None /\ ApplyTo(t, flat[call[t].name])
  <2>1. flat[call[t].name] \in Nat /\ flatOwed[call[t].name] = flat[call[t].name]
    BY <1>2, <1>3 DEF IInv, FlatInv
  <2>2. PICK v \in Nat : v = flat[call[t].name] BY <2>1
  <2>3. ApplyTo(t, v) /\ flatOwed[call[t].name] = v BY <1>3, <2>1, <2>2
  <2> QED BY <1>1, <2>3, ApplyStep
<1>4. CASE Goto(t, "upsertCounter") /\ UNCHANGED <<flat, flatOwed>>
  <2>1. "upsertCounter" \in Labels BY DEF Labels
  <2>2. Only(t) /\ call'[t].pc = "upsertCounter" /\ call'[t].name = call[t].name
    BY <1>4, <2>1, GotoIs
  <2>3. FlatInv' /\ SideInv'
    <3>1. UNCHANGED <<stale, raced>> BY StatVarsSame
    <3> QED BY <1>1, <1>4, <3>1, FlatSame DEF IInv, SideInv
  <2>4. call[t].pc \in Fresh /\ call'[t].pc \in Fresh \ {"find", "create", "getQuantile"}
    BY <1>1, <2>2 DEF Fresh
  <2> QED BY <1>1, <1>2, <2>2, <2>3, <2>4, FlatOnly
<1> QED BY <1>1, <1>3, <1>4

\* modifyCounter() under the exclusive lock
LEMMA UpsertCounterStep ==
  ASSUME IInv, NEW t \in Threads, UpsertCounter(t), UNCHANGED <<statVars, quantileVars>>
  PROVE  IInv'
<1> DEFINE k == call[t].name
<1>1. /\ call[t].pc = "upsertCounter" /\ UNCHANGED <<calls, resets>>
      /\ ApplyTo(t, IF flat[k] = None THEN 0 ELSE flat[k])
  BY DEF UpsertCounter, At
<1>2. k \in Names BY <1>1, CallNow DEF CallOK, Named
<1>3. PICK v : v = IF flat[k] = None THEN 0 ELSE flat[k] OBVIOUS
<1>4. v \in Nat /\ flatOwed[k] = v BY <1>2, <1>3, CallAssumption DEF IInv, FlatInv
<1>5. ApplyTo(t, v) BY <1>1, <1>3
<1> QED BY <1>1, <1>4, <1>5, ApplyStep

\* Every flat counter is zeroed, or removed; the call goes on.
LEMMA AllFlatStep ==
  ASSUME IInv, NEW t \in Threads, call[t].pc \in {"zeroFlat", "resetFlat"},
         NEW label \in {"visitAll", "resetStats"}, Goto(t, label),
         flatOwed' = [k \in Names |-> 0], flat' \in [Names -> {0, None}],
         UNCHANGED <<calls, resets, statVars, quantileVars>>
  PROVE  IInv'
<1>1. label \in Labels BY DEF Labels
<1>2. Only(t) /\ call'[t].pc = label BY <1>1, GotoIs
<1>3. FlatInv' BY DEF FlatInv
<1>4. SideInv' BY SideSame, StatVarsSame
<1>5. /\ call[t].pc \in Fresh /\ call'[t].pc \in Fresh \ {"find", "create", "getQuantile"}
      /\ call'[t].pc \notin Named
  BY <1>2 DEF Fresh, Named
<1> QED BY <1>2, <1>3, <1>4, <1>5, FlatOnly

\* zeroStats(), its first part
LEMMA ZeroFlatStep ==
  ASSUME IInv, NEW t \in Threads, ZeroFlat(t) PROVE IInv'
<1>1. /\ call[t].pc = "zeroFlat" /\ Goto(t, "visitAll")
      /\ flat' = [k \in Names |-> IF flat[k] = None THEN None ELSE 0]
      /\ flatOwed' = [k \in Names |-> 0]
      /\ UNCHANGED <<calls, resets, statVars, quantileVars>>
  BY DEF ZeroFlat, At
<1>2. PICK label \in {"visitAll", "resetStats"} : label = "visitAll" OBVIOUS
<1>3. Goto(t, label) BY <1>1, <1>2
<1>4. flat' \in [Names -> {0, None}] BY <1>1
<1> QED BY <1>1, <1>3, <1>4, AllFlatStep

\* resetAllData(), its first part
LEMMA ResetFlatStep ==
  ASSUME IInv, NEW t \in Threads, ResetFlat(t) PROVE IInv'
<1>1. /\ call[t].pc = "resetFlat" /\ Goto(t, "resetStats")
      /\ flat' = [k \in Names |-> None] /\ flatOwed' = [k \in Names |-> 0]
      /\ UNCHANGED <<calls, resets, statVars, quantileVars>>
  BY DEF ResetFlat, At
<1>2. PICK label \in {"visitAll", "resetStats"} : label = "resetStats" OBVIOUS
<1>3. Goto(t, label) BY <1>1, <1>2
<1>4. flat' \in [Names -> {0, None}] BY <1>1
<1> QED BY <1>1, <1>3, <1>4, AllFlatStep

\* clearCounter()
LEMMA ClearCounterStep ==
  ASSUME IInv, NEW t \in Threads, NEW k \in Names, ClearCounter(t, k),
         UNCHANGED <<statVars, quantileVars>>
  PROVE  IInv'
<1>1. /\ call[t].pc = "idle" /\ calls < MaxCalls /\ calls' = calls + 1
      /\ flat' = [flat EXCEPT ![k] = None] /\ flatOwed' = [flatOwed EXCEPT ![k] = 0]
      /\ UNCHANGED <<call, resets>>
  BY DEF ClearCounter, At
<1>2. Only(t) /\ call'[t] = call[t] BY <1>1, StaysIs
<1>3. /\ UNCHANGED <<bases, keys, offered, defsOf, forgotten>>
      /\ UNCHANGED <<statMap, writer, made, samples, dynamic, asked, owed, stale, raced>>
  BY QuantileVarsSame, StatVarsSame
<1>4. CallOK(t)' /\ GivenOK(t)' /\ call'[t].pc \notin Quiet BY <1>1, <1>2, IdleOK DEF Only
<1>5. call[t].pc \notin Quiet BY <1>1 DEF Quiet
<1>6. CountInv' BY <1>1, <1>3, CountCall
<1>7. CallInv' BY <1>2, <1>3, <1>4, CallsSame
<1>8. LockInv' BY <1>2, <1>3, LockKept
<1>9. StatInv' BY <1>3, StatsSame
<1>10. ExportInv' /\ ShowInv' BY <1>2, <1>3, <1>4, <1>5, QuietStep
<1>11. QuantileInv' BY <1>2, <1>4, QuantilesSame
<1>12. flat \in [Names -> Nat \cup {None}] /\ flatOwed \in [Names -> Nat] BY DEF IInv, SideInv
<1>13. FlatInv' BY <1>1, <1>12 DEF IInv, FlatInv
<1>14. SideInv' BY <1>1, <1>3, <1>12, SideSame
<1> QED BY <1>6, <1>7, <1>8, <1>9, <1>10, <1>11, <1>13, <1>14 DEF IInv

-----------------------------------------------------------------------------
(***************************************************************************)
(* Quantile stats.                                                         *)
(***************************************************************************)
\* The call has a stat in hand, and is at a place of getQuantileStat().
LEMMA ItemIs ==
  ASSUME IInv, NEW t \in Threads, NEW s \in Stats, NEW label \in Labels,
         call' = [call EXCEPT ![t].item = s, ![t].pc = label]
  PROVE  /\ Only(t) /\ call'[t].pc = label /\ call'[t].item = s
         /\ call'[t].name = call[t].name
<1> DEFINE d == [call[t] EXCEPT !.item = s, !.pc = label]
<1>1. call[t] \in Shape /\ DOMAIN call = Threads BY CallNow
<1>2. d \in Shape /\ d.pc = label /\ d.item = s /\ d.name = call[t].name BY <1>1 DEF Shape
<1>3. call' = [call EXCEPT ![t] = d] BY <1>1
<1> HIDE DEF d
<1>4. Only(t) /\ call'[t] = d BY <1>2, <1>3, SetCall
<1> QED BY <1>2, <1>4

\* No more quantile stats are made than calls.
LEMMA OfferedIs ==
  ASSUME IInv
  PROVE  /\ offered \in Nat /\ calls \in Nat /\ MaxCalls \in Nat /\ made \in Nat
         /\ None \notin Nat /\ 1..offered \subseteq Stats
         /\ \A t \in Threads : call[t].pc = "getQuantile" => offered < MaxCalls
<1>1. IsFiniteSet(Offering) BY CallAssumption, FS_Subset DEF Offering
<1>2. Cardinality(Offering) \in Nat /\ (Offering # {} => Cardinality(Offering) # 0)
  BY <1>1, FS_CardinalityType, FS_EmptySet
<1>3. /\ offered \in Nat /\ calls \in 0..MaxCalls /\ MaxCalls \in Nat /\ made \in Nat
      /\ None \notin Nat /\ offered + Cardinality(Offering) <= calls
  BY CallAssumption DEF IInv, CountInv
<1>4. 1..offered \subseteq Stats BY <1>2, <1>3 DEF Stats
<1>5. ASSUME NEW t \in Threads, call[t].pc = "getQuantile" PROVE offered < MaxCalls
  <2>1. t \in Offering BY <1>5 DEF Offering
  <2> QED BY <1>2, <1>3, <2>1
<1> QED BY <1>3, <1>4, <1>5

\* A step of getQuantileStat() that makes no stat and registers none.
LEMMA QuantileMoves ==
  ASSUME IInv, NEW t \in Threads, Only(t), UNCHANGED <<calls, statVars, quantileVars, flatVars>>,
         call[t].pc \in {"getQuantile", "checkQuantile", "insertQuantile"},
         call'[t].pc \in {"checkQuantile", "insertQuantile", "addQuantile"},
         call'[t].name = call[t].name, call'[t].item \in 1..offered,
         call'[t].pc = "addQuantile" => call'[t].item = bases[call[t].name]
  PROVE  IInv'
<1>1. /\ UNCHANGED <<bases, keys, offered, defsOf, forgotten>>
      /\ UNCHANGED <<statMap, writer, made, samples, dynamic, asked, owed, stale, raced>>
  BY QuantileVarsSame, StatVarsSame
<1>2. call[t].name \in Names BY CallNow DEF CallOK, Named
<1>3. CallOK(t)' BY <1>1, <1>2 DEF CallOK, Only
<1>4. GivenOK(t)' BY <1>1 DEF GivenOK
<1>5. call[t].pc \notin Quiet /\ call'[t].pc \notin Quiet BY DEF Quiet
<1>6. CountInv' /\ CallInv' /\ ExportInv' /\ ShowInv' BY <1>1, <1>3, <1>5, QuietKeeps
<1>7. LockInv' BY <1>1, LockKept
<1>8. StatInv' BY <1>1, StatsSame
<1>9. QuantileInv' BY <1>4, QuantilesSame
<1>10. FlatInv' /\ SideInv' BY <1>1, RestSame DEF IInv, SideInv
<1> QED BY <1>6, <1>7, <1>8, <1>9, <1>10 DEF IInv

\* The call is given the stat that is registered.
LEMMA GivenOld ==
  ASSUME IInv, NEW t \in Threads, UNCHANGED <<calls, statVars, quantileVars, flatVars>>,
         call[t].pc \in {"getQuantile", "checkQuantile", "insertQuantile"},
         bases[call[t].name] # None, HaveQuantile(t, bases[call[t].name])
  PROVE  IInv'
<1>1. PICK s : s = bases[call[t].name] OBVIOUS
<1>2. call[t].name \in Names BY CallNow DEF CallOK, Named
<1>3. s \in 1..offered BY <1>1, <1>2 DEF IInv, QuantileInv
<1>4. s \in Stats BY <1>3, OfferedIs
<1>5. "addQuantile" \in Labels BY DEF Labels
<1>6. call' = [call EXCEPT ![t].item = s, ![t].pc = "addQuantile"] BY <1>1 DEF HaveQuantile
<1>7. /\ Only(t) /\ call'[t].pc = "addQuantile" /\ call'[t].item = s
      /\ call'[t].name = call[t].name
  BY <1>4, <1>5, <1>6, ItemIs
<1> QED BY <1>1, <1>3, <1>7, QuantileMoves

\* The registered stat, or a new one that is not registered yet.
LEMMA MakeQuantileStep ==
  ASSUME IInv, NEW t \in Threads, MakeQuantile(t), UNCHANGED <<statVars, flatVars>>
  PROVE  IInv'
<1>1. PICK n : n = call[t].name OBVIOUS
<1>2. /\ call[t].pc = "getQuantile" /\ UNCHANGED <<bases, keys, forgotten, calls>>
      /\ \/ /\ bases[n] # None /\ HaveQuantile(t, bases[n]) /\ UNCHANGED <<offered, defsOf>>
         \/ /\ bases[n] = None /\ offered' = offered + 1
            /\ defsOf' = [defsOf EXCEPT ![offered'] = call[t].types]
            /\ call' = [call EXCEPT ![t].item = offered', ![t].pc = "checkQuantile"]
  BY <1>1 DEF MakeQuantile, At
<1>3. CASE bases[n] # None /\ HaveQuantile(t, bases[n]) /\ UNCHANGED <<offered, defsOf>>
  <2>1. UNCHANGED <<calls, statVars, quantileVars, flatVars>> BY <1>2, <1>3 DEF quantileVars
  <2> QED BY <1>1, <1>2, <1>3, <2>1, GivenOld
<1>4. CASE /\ bases[n] = None /\ offered' = offered + 1
           /\ defsOf' = [defsOf EXCEPT ![offered'] = call[t].types]
           /\ call' = [call EXCEPT ![t].item = offered', ![t].pc = "checkQuantile"]
  <2>1. /\ offered \in Nat /\ offered < MaxCalls /\ calls \in Nat /\ MaxCalls \in Nat
        /\ made \in Nat /\ None \notin Nat
    BY <1>2, OfferedIs
  <2>2. PICK s : s = offered + 1 OBVIOUS
  <2>3. s \in Stats /\ s \in Nat /\ s > offered /\ offered' = s
    BY <1>4, <2>1, <2>2 DEF Stats
  <2>4. n \in Names /\ call[t].types \subseteq Defs BY <1>1, <1>2, CallNow DEF CallOK, Named
  <2>5. "checkQuantile" \in Labels BY DEF Labels
  <2>6. call' = [call EXCEPT ![t].item = s, ![t].pc = "checkQuantile"] BY <1>4, <2>3
  <2>7. /\ Only(t) /\ call'[t].pc = "checkQuantile" /\ call'[t].item = s
        /\ call'[t].name = n
    <3>1. /\ Only(t) /\ call'[t].pc = "checkQuantile" /\ call'[t].item = s
          /\ call'[t].name = call[t].name
      BY <2>3, <2>5, <2>6, ItemIs
    <3> QED BY <1>1, <3>1
  <2>8. UNCHANGED <<statMap, writer, made, samples, dynamic, asked, owed, stale, raced>>
    BY StatVarsSame
  <2>9. CallOK(t)' /\ GivenOK(t)'
    <3>1. call'[t].item \in 1..offered' BY <2>1, <2>2, <2>3, <2>7
    <3> QED BY <2>4, <2>7, <3>1 DEF CallOK, GivenOK, Only
  <2>10. CountInv'
    <3>1. /\ One(call'[t].pc \in {"find", "create"}) = 0 /\ One(call'[t].pc = "getQuantile") = 0
          /\ One(call[t].pc \in {"find", "create"}) = 0 /\ One(call[t].pc = "getQuantile") = 1
      BY <1>2, <2>7 DEF One
    <3>2. calls' \in 0..MaxCalls BY <1>2 DEF IInv, CountInv
    <3>3. /\ made' + One(call'[t].pc \in {"find", "create"}) + calls
               <= made + One(call[t].pc \in {"find", "create"}) + calls'
          /\ offered' + One(call'[t].pc = "getQuantile") + calls
               <= offered + One(call[t].pc = "getQuantile") + calls'
      BY <1>2, <2>1, <2>2, <2>3, <2>8, <3>1
    <3> QED BY <2>1, <2>3, <2>7, <2>8, <3>2, <3>3, CountStep
  <2>11. CallInv'
    <3>1. made' \in Nat /\ made' >= made /\ offered' \in Nat /\ offered' >= offered
      BY <2>1, <2>3, <2>8
    <3> QED BY <2>7, <2>8, <2>9, <3>1, CallFrame
  <2>12. LockInv' BY <1>2, <2>7, <2>8, LockKept
  <2>13. StatInv' BY <2>8, StatsSame
  <2>14. call[t].pc \notin Quiet /\ call'[t].pc \notin Quiet BY <1>2, <2>7 DEF Quiet
  <2>15. ExportInv' /\ ShowInv' BY <2>7, <2>8, <2>14, QuietStep
  <2>16. QuantileInv'
    <3>1. QuantileInv BY DEF IInv
    <3>2. 1..offered \subseteq 1..offered' BY <2>1, <2>2, <2>3
    <3>3. bases' \in [Names -> (1..offered') \cup {None}] BY <1>2, <3>1, <3>2 DEF QuantileInv
    <3>4. defsOf' = [defsOf EXCEPT ![s] = call[t].types] BY <1>4, <2>3
    <3>5. /\ defsOf' \in [Stats -> SUBSET Defs]
          /\ \A x \in Stats : x # s => defsOf'[x] = defsOf[x]
      BY <2>3, <2>4, <3>1, <3>4 DEF QuantileInv
    <3>6. keys' \in [Keys -> (1..offered') \cup {None}] /\ forgotten' \subseteq 1..offered'
      BY <1>2, <3>1, <3>2 DEF QuantileInv
    <3>7. ASSUME NEW u \in Threads PROVE GivenOK(u)'
      <4>1. CASE u = t BY <2>9, <4>1
      <4>2. CASE u # t BY <1>2, <2>7, <3>1, <4>2 DEF QuantileInv, GivenOK, Only, Same
      <4> QED BY <4>1, <4>2
    <3>8. ASSUME NEW m \in Names, NEW e \in Defs PROVE KeyOK(m, e)'
      <4>1. KeyOK(m, e) BY <3>1 DEF QuantileInv
      <4>2. bases[m] # None => bases[m] \in 1..offered BY <3>1 DEF QuantileInv
      <4>3. bases[m] # None => bases[m] \in Stats /\ bases[m] # s
        BY <2>1, <2>3, <4>2, OfferedIs
      <4>4. bases[m] # None => defsOf'[bases[m]] = defsOf[bases[m]] BY <3>5, <4>3
      <4> QED BY <1>2, <4>1, <4>4 DEF KeyOK
    <3> QED BY <3>3, <3>5, <3>6, <3>7, <3>8 DEF QuantileInv
  <2>17. FlatInv' /\ SideInv' BY <2>8, RestSame DEF IInv, SideInv
  <2> QED BY <2>10, <2>11, <2>12, <2>13, <2>15, <2>16, <2>17 DEF IInv
<1> QED BY <1>2, <1>3, <1>4

\* registerQuantileStat() under the shared lock
LEMMA CheckQuantileStep ==
  ASSUME IInv, NEW t \in Threads, CheckQuantile(t), UNCHANGED <<statVars, flatVars>>
  PROVE  IInv'
<1>1. /\ call[t].pc = "checkQuantile" /\ UNCHANGED <<calls, statVars, quantileVars, flatVars>>
      /\ \/ bases[call[t].name] # None /\ HaveQuantile(t, bases[call[t].name])
         \/ Goto(t, "insertQuantile")
  BY DEF CheckQuantile, At
<1>2. CASE bases[call[t].name] # None /\ HaveQuantile(t, bases[call[t].name])
  BY <1>1, <1>2, GivenOld
<1>3. CASE Goto(t, "insertQuantile")
  <2>1. "insertQuantile" \in Labels BY DEF Labels
  <2>2. /\ Only(t) /\ call'[t].pc = "insertQuantile" /\ call'[t].name = call[t].name
        /\ call'[t].item = call[t].item
    BY <1>3, <2>1, GotoIs
  <2>3. call[t].item \in 1..offered BY <1>1, CallNow DEF CallOK
  <2> QED BY <1>1, <2>2, <2>3, QuantileMoves
<1> QED BY <1>1, <1>2, <1>3

\* registerQuantileStat() under the exclusive lock
LEMMA InsertQuantileStep ==
  ASSUME IInv, NEW t \in Threads, InsertQuantile(t), UNCHANGED <<statVars, flatVars>>
  PROVE  IInv'
<1>1. PICK n : n = call[t].name OBVIOUS
<1>2. PICK s : s = call[t].item OBVIOUS
<1>3. /\ call[t].pc = "insertQuantile" /\ UNCHANGED <<offered, defsOf, forgotten, calls>>
      /\ \/ bases[n] # None /\ HaveQuantile(t, bases[n]) /\ UNCHANGED <<bases, keys>>
         \/ bases[n] = None /\ AddKeys(n, s) /\ HaveQuantile(t, s)
  BY <1>1, <1>2 DEF InsertQuantile, At
<1>4. CASE bases[n] # None /\ HaveQuantile(t, bases[n]) /\ UNCHANGED <<bases, keys>>
  <2>1. UNCHANGED <<calls, statVars, quantileVars, flatVars>> BY <1>3, <1>4 DEF quantileVars
  <2> QED BY <1>1, <1>3, <1>4, <2>1, GivenOld
<1>5. CASE bases[n] = None /\ AddKeys(n, s) /\ HaveQuantile(t, s)
  <2>1. n \in Names /\ s \in 1..offered BY <1>1, <1>2, <1>3, CallNow DEF CallOK, Named
  <2>2. s \in Stats /\ s # None BY <2>1, OfferedIs
  <2>3. "addQuantile" \in Labels BY DEF Labels
  <2>4. call' = [call EXCEPT ![t].item = s, ![t].pc = "addQuantile"] BY <1>5 DEF HaveQuantile
  <2>5. /\ Only(t) /\ call'[t].pc = "addQuantile" /\ call'[t].item = s /\ call'[t].name = n
    <3>1. /\ Only(t) /\ call'[t].pc = "addQuantile" /\ call'[t].item = s
          /\ call'[t].name = call[t].name
      BY <2>2, <2>3, <2>4, ItemIs
    <3> QED BY <1>1, <3>1
  <2>6. UNCHANGED <<statMap, writer, made, samples, dynamic, asked, owed, stale, raced>>
    BY StatVarsSame
  <2>7. CallOK(t)' BY <1>3, <2>1, <2>5 DEF CallOK, Only
  <2>8. call[t].pc \notin Quiet /\ call'[t].pc \notin Quiet BY <1>3, <2>5 DEF Quiet
  <2>9. CountInv' /\ CallInv' /\ ExportInv' /\ ShowInv'
    BY <1>3, <2>5, <2>6, <2>7, <2>8, QuietKeeps
  <2>10. LockInv' BY <1>3, <2>5, <2>6, LockKept
  <2>11. StatInv' BY <2>6, StatsSame
  <2>12. QuantileInv'
    <3>1. QuantileInv BY DEF IInv
    <3>2. /\ bases' = [bases EXCEPT ![n] = s]
          /\ keys' = [k \in Keys |-> IF k \in {n} \X defsOf[s] /\ keys[k] = None
                                     THEN s ELSE keys[k]]
      BY <1>5 DEF AddKeys
    <3>3. bases' \in [Names -> (1..offered) \cup {None}] /\ bases'[n] = s
          /\ \A m \in Names : m # n => bases'[m] = bases[m]
      BY <2>1, <3>1, <3>2 DEF QuantileInv
    <3>4. ASSUME NEW u \in Threads PROVE GivenOK(u)'
      <4>1. SUFFICES ASSUME call'[u].pc = "addQuantile"
                     PROVE  call'[u].item \in {bases'[call'[u].name]} \cup forgotten'
        BY DEF GivenOK
      <4>2. CASE u = t BY <2>5, <3>3, <4>2
      <4>3. CASE u # t
        <5>1. /\ call[u].pc = "addQuantile" /\ call'[u].name = call[u].name
              /\ call'[u].item = call[u].item
          BY <2>5, <4>1, <4>3 DEF Only, Same
        <5>2. call[u].name \in Names /\ call[u].item \in 1..offered
          BY <5>1 DEF IInv, CallInv, CallOK, Named
        <5>3. call[u].item # None BY <5>2, OfferedIs
        <5>4. call[u].item \in {bases[call[u].name]} \cup forgotten
          BY <3>1, <5>1 DEF QuantileInv, GivenOK
        <5> QED BY <1>3, <1>5, <3>3, <5>1, <5>2, <5>3, <5>4
      <4> QED BY <4>2, <4>3
    <3>5. ASSUME NEW m \in Names, NEW e \in Defs PROVE KeyOK(m, e)'
      <4>1. KeyOK(m, e) BY <3>1 DEF QuantileInv
      <4>2. <<m, e>> \in Keys BY DEF Keys
      <4>3. keys'[<<m, e>>] = IF <<m, e>> \in {n} \X defsOf[s] /\ keys[<<m, e>>] = None
                              THEN s ELSE keys[<<m, e>>]
        BY <3>2, <4>2
      <4>4. CASE m = n
        <5>1. keys[<<m, e>>] = None BY <1>5, <4>1, <4>4 DEF KeyOK
        <5>2. <<m, e>> \in {n} \X defsOf[s] <=> e \in defsOf[s] BY <4>4
        <5> QED BY <1>3, <2>2, <3>3, <4>3, <4>4, <5>1, <5>2 DEF KeyOK
      <4>5. CASE m # n
        <5>1. <<m, e>> \notin {n} \X defsOf[s] BY <4>5
        <5> QED BY <1>3, <3>3, <4>1, <4>3, <4>5, <5>1 DEF KeyOK
      <4> QED BY <4>4, <4>5
    <3>6. keys' \in [Keys -> (1..offered) \cup {None}] BY <2>1, <3>1, <3>2 DEF QuantileInv
    <3> QED BY <1>3, <3>1, <3>3, <3>4, <3>5, <3>6 DEF QuantileInv
  <2>13. FlatInv' /\ SideInv' BY <2>6, RestSame DEF IInv, SideInv
  <2> QED BY <2>9, <2>10, <2>11, <2>12, <2>13 DEF IInv
<1> QED BY <1>3, <1>4, <1>5

\* The caller adds its value.
LEMMA AddQuantileStep ==
  ASSUME IInv, NEW t \in Threads, AddQuantile(t), UNCHANGED <<statVars, flatVars>>
  PROVE  IInv'
<1>1. /\ call[t].pc = "addQuantile" /\ Return(t) /\ UNCHANGED <<calls, quantileVars>>
      /\ UNCHANGED <<statMap, writer, made, samples, dynamic, asked, owed, stale, raced>>
  BY StatVarsSame DEF AddQuantile, At
<1>2. Only(t) /\ call'[t].pc = "idle" BY <1>1, ReturnIs
<1>3. call[t].pc \notin Quiet BY <1>1 DEF Quiet
<1>4. StatInv' BY <1>1, StatsSame
<1> QED BY <1>1, <1>2, <1>3, <1>4, ReturnStep

\* forgetStatsFor() of a quantile stat
LEMMA ForgetQuantileStep ==
  ASSUME IInv, NEW t \in Threads, NEW n \in Names, ForgetQuantile(t, n),
         UNCHANGED <<statVars, flatVars>>
  PROVE  IInv'
<1>1. /\ call[t].pc = "idle" /\ calls < MaxCalls /\ calls' = calls + 1 /\ bases[n] # None
      /\ bases' = [m \in Names |-> IF m \in {n} THEN None ELSE bases[m]]
      /\ keys' = [k \in Keys |-> IF /\ k[1] \in {n} /\ bases[k[1]] # None
                                    /\ k[2] \in defsOf[bases[k[1]]]
                                 THEN None ELSE keys[k]]
      /\ forgotten' = forgotten \cup ({bases[m] : m \in {n}} \ {None})
      /\ UNCHANGED <<call, offered, defsOf>>
  BY DEF ForgetQuantile, ForgetNames, At
<1>2. Only(t) /\ call'[t] = call[t] BY <1>1, StaysIs
<1>3. UNCHANGED <<statMap, writer, made, samples, dynamic, asked, owed, stale, raced>>
  BY StatVarsSame
<1>4. CallOK(t)' /\ call'[t].pc \notin Quiet BY <1>1, <1>2, IdleOK DEF Only
<1>5. call[t].pc \notin Quiet BY <1>1 DEF Quiet
<1>6. CountInv' BY <1>1, <1>3, CountCall
<1>7. CallInv' BY <1>1, <1>2, <1>3, <1>4, CallsSame
<1>8. LockInv' BY <1>2, <1>3, LockKept
<1>9. StatInv' BY <1>3, StatsSame
<1>10. ExportInv' /\ ShowInv' BY <1>2, <1>3, <1>4, <1>5, QuietStep
<1>11. QuantileInv'
  <2>1. QuantileInv BY DEF IInv
  <2>2. /\ \A m \in Names : bases'[m] = IF m = n THEN None ELSE bases[m]
        /\ bases' \in [Names -> (1..offered) \cup {None}]
    BY <1>1, <2>1 DEF QuantileInv
  <2>3. bases[n] \in 1..offered BY <1>1, <2>1 DEF QuantileInv
  <2>4. bases[n] \in forgotten' /\ forgotten \subseteq forgotten' /\ forgotten' \subseteq 1..offered
    BY <1>1, <2>1, <2>3 DEF QuantileInv
  <2>5. ASSUME NEW u \in Threads PROVE GivenOK(u)'
    <3>1. SUFFICES ASSUME call[u].pc = "addQuantile"
                   PROVE  call[u].item \in {bases'[call[u].name]} \cup forgotten'
      BY <1>1 DEF GivenOK
    <3>2. call[u].name \in Names BY <3>1 DEF IInv, CallInv, CallOK, Named
    <3>3. call[u].item \in {bases[call[u].name]} \cup forgotten
      BY <2>1, <3>1 DEF QuantileInv, GivenOK
    <3> QED BY <2>2, <2>4, <3>2, <3>3
  <2>6. ASSUME NEW m \in Names, NEW e \in Defs PROVE KeyOK(m, e)'
    <3>1. KeyOK(m, e) BY <2>1 DEF QuantileInv
    <3>2. <<m, e>> \in Keys BY DEF Keys
    <3>3. keys'[<<m, e>>] = IF m = n /\ bases[m] # None /\ e \in defsOf[bases[m]]
                            THEN None ELSE keys[<<m, e>>]
      BY <1>1, <3>2
    <3> QED BY <1>1, <2>2, <3>1, <3>3 DEF KeyOK
  <2>7. keys' \in [Keys -> (1..offered) \cup {None}] BY <1>1, <2>1 DEF QuantileInv
  <2> QED BY <1>1, <2>1, <2>2, <2>4, <2>5, <2>6, <2>7 DEF QuantileInv
<1>12. FlatInv' /\ SideInv' BY <1>3, RestSame DEF IInv, SideInv
<1> QED BY <1>6, <1>7, <1>8, <1>9, <1>10, <1>11, <1>12 DEF IInv

-----------------------------------------------------------------------------
(***************************************************************************)
(* The invariant, and what follows from it.                                *)
(***************************************************************************)
\* The invariant holds at the start.
LEMMA InitIInv == Init => IInv
<1> SUFFICES ASSUME Init PROVE IInv OBVIOUS
<1> USE CallAssumption DEF Init, StatInit, QuantileInit
<1>1. \A t \in Threads : call[t] = Idle OBVIOUS
<1>2. \A t \in Threads : call[t] \in Shape /\ call[t].pc = "idle" BY <1>1, IdleIs
<1>3. CountInv
  <2>1. Making = {} /\ Offering = {} BY <1>2 DEF Making, Offering
  <2>2. Cardinality(Making) = 0 /\ Cardinality(Offering) = 0 BY <2>1, FS_EmptySet
  <2> QED BY <2>2 DEF CountInv
<1>4. CallInv BY <1>2 DEF CallInv, CallOK, Named
<1>5. StatInv BY DEF StatInv
<1>6. LockInv BY <1>2 DEF LockInv
<1>7. ~Resetting BY <1>2 DEF Resetting
<1>8. ExportInv BY <1>2, <1>7 DEF ExportInv, ExportOK, RemoveOK, ClearOK, ResetOK
<1>9. ShowInv
  <2>1. ASSUME NEW n \in Names, NEW y \in Types PROVE ShowOK(n, y)
    <3>1. <<n, y>> \in Counters BY DEF Counters
    <3> QED BY <3>1 DEF ShowOK
  <2> QED BY <2>1 DEF ShowInv
<1>10. QuantileInv
  <2>1. ASSUME NEW n \in Names, NEW e \in Defs PROVE KeyOK(n, e)
    <3>1. <<n, e>> \in Keys BY DEF Keys
    <3> QED BY <3>1 DEF KeyOK
  <2>2. \A t \in Threads : GivenOK(t) BY <1>2 DEF GivenOK
  <2> QED BY <2>1, <2>2 DEF QuantileInv
<1>11. FlatInv /\ SideInv BY ResetAssumption DEF FlatInv, SideInv
<1> QED BY <1>3, <1>4, <1>5, <1>6, <1>8, <1>9, <1>10, <1>11 DEF IInv

\* Calls on stats.
LEMMA StatCallStep ==
  ASSUME IInv, NEW t \in Threads, StatCall(t), UNCHANGED <<quantileVars, flatVars>>
  PROVE  IInv'
<1>1. UNCHANGED <<flat, flatOwed, resets>> /\ resets' \in 0..MaxResets
  BY DEF flatVars, IInv, SideInv
<1>2. /\ {"add", "export", "clear", "lock", "unexport"} \subseteq Ops
      /\ {"find", "lockMap"} \subseteq Fresh
  BY DEF Ops, Fresh
<1>3. DefaultTypes \subseteq Types BY TypesAssumption
<1>4. ASSUME NEW n \in Names, UnExportStatAll(t, n) PROVE IInv'
  <2>1. {} \in SUBSET (Types \cup Defs) OBVIOUS
  <2>2. Begin(t, "unexport", "lockMap", n, {}) /\ UNCHANGED statVars
    BY <1>4 DEF UnExportStatAll
  <2> QED BY <1>1, <1>2, <2>1, <2>2, BeginStep
<1>5. ASSUME NEW n \in Names, NEW op \in {"add", "export", "clear", "lock"},
             NEW types \in SUBSET Types, Begin(t, op, "find", n, types), UNCHANGED statVars
      PROVE  IInv'
  <2>1. types \in SUBSET (Types \cup Defs) OBVIOUS
  <2> QED BY <1>1, <1>2, <1>5, <2>1, BeginStep
<1>6. ASSUME NEW n \in Names, ClearValue(t, n) \/ GetLockedStatPtr(t, n) PROVE IInv'
  BY <1>3, <1>5, <1>6 DEF ClearValue, GetLockedStatPtr
<1>7. ASSUME NEW n \in Names, NEW types \in {{y} : y \in Types} \cup {DefaultTypes},
             AddValue(t, n, types) \/ ExportStat(t, n, types)
      PROVE  IInv'
  <2>1. types \in SUBSET Types BY <1>3
  <2> QED BY <1>5, <1>7, <2>1 DEF AddValue, ExportStat
<1>8. ASSUME NEW n \in Names, ForgetStatsFor(t, n) PROVE IInv' BY <1>8, ForgetStatsForStep
<1>9. ASSUME NEW c \in Counters, GetCounter(t, c) PROVE IInv' BY <1>9, GetCounterStep
<1> QED BY <1>4, <1>6, <1>7, <1>8, <1>9 DEF StatCall

\* Calls on quantile stats.
LEMMA QuantileCallStep ==
  ASSUME IInv, NEW t \in Threads, QuantileCall(t), UNCHANGED <<statVars, flatVars>>
  PROVE  IInv'
<1>1. UNCHANGED <<flat, flatOwed, resets>> /\ resets' \in 0..MaxResets
  BY DEF flatVars, IInv, SideInv
<1>2. ASSUME NEW n \in Names, NEW defs \in (SUBSET Defs) \ {{}}, GetQuantileStat(t, n, defs)
      PROVE  IInv'
  <2>1. "quantile" \in Ops /\ "getQuantile" \in Fresh BY DEF Ops, Fresh
  <2>2. defs \in SUBSET (Types \cup Defs) /\ defs \subseteq Defs OBVIOUS
  <2>3. Begin(t, "quantile", "getQuantile", n, defs) /\ UNCHANGED quantileVars
    BY <1>2 DEF GetQuantileStat
  <2> QED BY <1>1, <2>1, <2>2, <2>3, BeginStep
<1>3. ASSUME NEW n \in Names, ForgetQuantile(t, n) PROVE IInv' BY <1>3, ForgetQuantileStep
<1> QED BY <1>2, <1>3 DEF QuantileCall

\* Calls on flat counters.
LEMMA FlatCallStep ==
  ASSUME IInv, NEW t \in Threads, FlatCall(t), UNCHANGED <<statVars, quantileVars>>
  PROVE  IInv'
<1>1. ASSUME NEW k \in Names, NEW op \in {"increment", "set"}, ModifyCounter(t, k, op)
      PROVE  IInv'
  <2>1. op \in Ops /\ "tryCounter" \in Fresh BY DEF Ops, Fresh
  <2>2. {} \in SUBSET (Types \cup Defs) OBVIOUS
  <2>3. Begin(t, op, "tryCounter", k, {}) /\ UNCHANGED <<flat, flatOwed, resets>>
    BY <1>1 DEF ModifyCounter, flatVars
  <2>4. resets' \in 0..MaxResets BY <2>3 DEF IInv, SideInv
  <2> QED BY <2>1, <2>2, <2>3, <2>4, BeginStep
<1>2. ASSUME NEW k \in Names, ClearCounter(t, k) PROVE IInv' BY <1>2, ClearCounterStep
<1> QED BY <1>1, <1>2 DEF FlatCall

\* Calls that go through all the maps.
LEMMA AllCallStep ==
  ASSUME IInv, NEW t \in Threads, AllCall(t)
  PROVE  IInv'
<1>1. ASSUME NEW op \in {"flush", "zero", "reset"},
             NEW label \in {"visitAll", "zeroFlat", "resetFlat"}, Begin(t, op, label, None, {}),
             UNCHANGED <<statVars, quantileVars, flat, flatOwed>>, resets' \in 0..MaxResets
      PROVE  IInv'
  <2>1. op \in Ops /\ label \in Fresh BY DEF Ops, Fresh
  <2>2. {} \in SUBSET (Types \cup Defs) /\ None \in Names \cup {None} OBVIOUS
  <2>3. label \notin Named BY DEF Named
  <2> QED BY <1>1, <2>1, <2>2, <2>3, BeginStep
<1>2. resets \in 0..MaxResets /\ MaxResets \in Nat BY ResetAssumption DEF IInv, SideInv
<1>3. CASE FlushAllData(t) BY <1>1, <1>2, <1>3 DEF FlushAllData, flatVars
<1>4. CASE ZeroStats(t) BY <1>1, <1>2, <1>4 DEF ZeroStats, flatVars
<1>5. CASE ResetAllData(t)
  <2>1. resets' \in 0..MaxResets BY <1>2, <1>5 DEF ResetAllData
  <2> QED BY <1>1, <1>5, <2>1 DEF ResetAllData
<1> QED BY <1>3, <1>4, <1>5 DEF AllCall

\* Every step preserves the invariant.
LEMMA NextIInv == IInv /\ [Next]_vars => IInv'
<1> SUFFICES ASSUME IInv, [Next]_vars PROVE IInv' OBVIOUS
<1>1. ASSUME NEW t \in Threads, StatStep(t), UNCHANGED <<quantileVars, flatVars>> PROVE IInv'
  <2>1. CASE FindStat(t) BY <1>1, <2>1, FindStatStep
  <2>2. CASE CreateStat(t) BY <1>1, <2>2, CreateStatStep
  <2>3. CASE Registered(t) BY <1>1, <2>3, RegisteredStep
  <2>4. CASE UseStat(t) BY <1>1, <2>4, UseStatStep
  <2>5. CASE ReleaseStat(t) BY <1>1, <2>5, ReleaseStatStep
  <2>6. CASE LockMap(t) BY <1>1, <2>6, LockMapStep
  <2>7. CASE EraseStat(t) BY <1>1, <2>7, EraseStatStep
  <2>8. CASE VisitAll(t) BY <1>1, <2>8, VisitAllStep
  <2>9. CASE Visited(t) BY <1>1, <2>9, VisitedStep
  <2>10. CASE ReadStat(t) BY <1>1, <2>10, ReadStatStep
  <2>11. ASSUME NEW c \in Counters, Register(t, c) PROVE IInv' BY <1>1, <2>11, RegisterStep
  <2>12. ASSUME NEW c \in Counters, Unregister(t, c) PROVE IInv' BY <1>1, <2>12, UnregisterStep
  <2>13. ASSUME NEW s \in Stats, VisitStat(t, s) PROVE IInv' BY <1>1, <2>13, VisitStatStep
  <2> QED BY <1>1, <2>1, <2>2, <2>3, <2>4, <2>5, <2>6, <2>7, <2>8, <2>9, <2>10, <2>11, <2>12,
             <2>13 DEF StatStep
<1>2. ASSUME NEW t \in Threads, QuantileStep(t), UNCHANGED <<statVars, flatVars>> PROVE IInv'
  BY <1>2, MakeQuantileStep, CheckQuantileStep, InsertQuantileStep, AddQuantileStep
     DEF QuantileStep
<1>3. ASSUME NEW t \in Threads, FlatStep(t), UNCHANGED <<statVars, quantileVars>> PROVE IInv'
  BY <1>3, TryCounterStep, UpsertCounterStep DEF FlatStep
<1>4. ASSUME NEW t \in Threads, AllStep(t) PROVE IInv'
  BY <1>4, ZeroFlatStep, ResetFlatStep, ResetStatsStep, ResetQuantilesStep, ResetDoneStep,
     ClearDynamicStep DEF AllStep
<1>5. ASSUME NEW t \in Threads, Call(t) PROVE IInv'
  BY <1>5, StatCallStep, QuantileCallStep, FlatCallStep, AllCallStep DEF Call
<1>6. CASE UNCHANGED vars
  <2>1. /\ UNCHANGED <<call, calls, statVars, quantileVars, flatVars>>
        /\ UNCHANGED <<statMap, writer, made, samples, dynamic, asked, owed, stale, raced>>
        /\ UNCHANGED <<bases, keys, offered, defsOf, forgotten>>
        /\ UNCHANGED <<flat, flatOwed, resets>>
    BY <1>6 DEF vars, statVars, quantileVars, flatVars
  <2>2. CountInv' BY <2>1 DEF IInv, CountInv, Making, Offering
  <2>3. CallInv' BY <2>1 DEF IInv, CallInv, CallOK
  <2>4. StatInv' /\ LockInv' BY <2>1 DEF IInv, StatInv, LockInv
  <2>5. Resetting' <=> Resetting BY <2>1 DEF Resetting
  <2>6. ExportInv' BY <2>1, <2>5
        DEF IInv, ExportInv, ExportOK, RemoveOK, ClearOK, ResetOK, Exports
  <2>7. ShowInv' BY <2>1, <2>5 DEF IInv, ShowInv, ShowOK, Underway, UnderwayBy
  <2>8. QuantileInv' BY <2>1 DEF IInv, QuantileInv, GivenOK, KeyOK
  <2>9. FlatInv' /\ SideInv' BY <2>1 DEF IInv, FlatInv, SideInv
  <2> QED BY <2>2, <2>3, <2>4, <2>6, <2>7, <2>8, <2>9 DEF IInv
<1> QED BY <1>1, <1>2, <1>3, <1>4, <1>5, <1>6 DEF Next, Step

\* The invariant holds throughout.
THEOREM ServiceDataInvariant == Spec => []IInv
  BY InitIInv, NextIInv, PTL DEF Spec

\* The invariant implies the type invariant of ServiceData.
LEMMA IInvTypes == IInv => TypeOK
<1> SUFFICES ASSUME IInv PROVE TypeOK OBVIOUS
<1>1. call \in [Threads -> CallType]
  <2>1. Shape = CallType BY DEF Shape, CallType, Labels, Ops
  <2> QED BY <2>1 DEF IInv, CallInv
<1>2. /\ calls \in 0..MaxCalls /\ made \in 0..MaxCalls /\ offered \in 0..MaxCalls
  <2>1. IsFiniteSet(Making) /\ IsFiniteSet(Offering)
    BY CallAssumption, FS_Subset DEF Making, Offering
  <2>2. Cardinality(Making) \in Nat /\ Cardinality(Offering) \in Nat
    BY <2>1, FS_CardinalityType
  <2> QED BY <2>2, CallAssumption DEF IInv, CountInv
<1> QED BY <1>1, <1>2 DEF TypeOK, IInv, LockInv, StatInv, QuantileInv, SideInv

\* The variables keep their types.
THEOREM ServiceDataTypes == Spec => []TypeOK
  BY ServiceDataInvariant, IInvTypes, PTL

(***************************************************************************)
(* Counters show the stat in the map, with all the values added to the     *)
(* name, by however many threads that raced to create or export it         *)
(* (getStatPtrNoExport(), exportStat(), unExportStatAll(), resetAllData()).*)
(***************************************************************************)
THEOREM CountersAlwaysShow == Spec => []CountersShowUpdates
<1>1. IInv => CountersShowUpdates
  <2>1. SUFFICES ASSUME IInv, ~Resetting, \A t \in Threads : ~At(t, "unregister"),
                        NEW n \in Names \ (stale \cup raced \cup Exporting), NEW y \in Types
                 PROVE  /\ dynamic[<<n, y>>] \in {None, statMap[n]}
                        /\ statMap[n] # None =>
                             /\ samples[statMap[n]] = owed[n]
                             /\ y \in asked[statMap[n]] => dynamic[<<n, y>>] = statMap[n]
    BY DEF CountersShowUpdates
  <2>2. ShowOK(n, y) BY <2>1 DEF IInv, ShowInv
  <2>3. ~Exports(n) BY ExportingIs
  <2>4. ~Underway(n, y) BY <2>1, <2>3 DEF Underway, UnderwayBy, Exports, At
  <2>5. statMap[n] # None => samples[statMap[n]] = owed[n] BY <2>1 DEF IInv, StatInv
  <2> QED BY <2>2, <2>4, <2>5 DEF ShowOK
<1> QED BY <1>1, ServiceDataInvariant, PTL

(***************************************************************************)
(* Everyone who asked for a quantile stat of one name is given the         *)
(* registered one, and the keys are those of the registered stats          *)
(* (registerQuantileStat(), forgetStatsFor(), forgetAll()).                *)
(***************************************************************************)
THEOREM QuantilesAlwaysShared == Spec => []QuantilesShared
<1>1. IInv => QuantilesShared BY DEF IInv, QuantileInv, QuantilesShared, GivenOK, KeyOK, At
<1> QED BY <1>1, ServiceDataInvariant, PTL

(***************************************************************************)
(* No increment of a flat counter is lost, whichever threads find it       *)
(* absent at the same time (modifyCounter()).                              *)
(***************************************************************************)
THEOREM IncrementsAlwaysKept == Spec => []IncrementsKept
<1>1. IInv => IncrementsKept BY DEF IInv, FlatInv, IncrementsKept
<1> QED BY <1>1, ServiceDataInvariant, PTL
=============================================================================
