--------------------------- MODULE HistogramProofs ---------------------------
(***************************************************************************)
(* Proofs about ExportedHistogramMap, for any threads, names and numbers   *)
(* of calls and histograms.                                                *)
(*                                                                         *)
(* The argument: a histogram belongs to one name for good, and the one of  *)
(* a name that was not forgotten is in the map for good, so whatever a     *)
(* thread found, cached or exported under the name is still the one in the *)
(* map when it is used.                                                    *)
(***************************************************************************)
EXTENDS ExportedHistogramMap, FiniteSetTheorems, TLAPS

\* The pieces that may be left of a call, and those left only when the name has
\* had a histogram before.
Lists == {<<"getOrCreate">>, <<"emplace">>, <<"getOrCreate", "exportIfMade", "addValue">>,
          <<"exportIfMade", "addValue">>, <<"addValue">>, <<"export">>, <<"unexport">>,
          <<"clear">>, <<"getOrCreate", "attach">>, <<"attach">>,
          <<"getOrCreate", "export", "applied", "get">>, <<"export", "applied", "get">>,
          <<"applied", "get">>, <<"get">>}
Sure == {<<"export", "applied", "get">>, <<"applied", "get">>, <<"get">>}

Cache == [hist : Nat, n : Nat]
Types ==
    /\ histMap \in [Names -> Int] /\ mapLock \in Threads \cup {None}
    /\ made \in Nat /\ made <= MaxHists /\ count \in [1 .. MaxHists -> Nat]
    /\ strings \in [Names -> Nat] /\ counters \in [Names -> Nat]
    /\ cached \in [Threads -> [Names -> Cache]]
    /\ once \in [Names -> {"new", "running", "done"}]
    /\ call \in [Threads -> [name : Names \cup {None}, todo : Lists \cup {<<>>}, item : Nat]]
    /\ pc \in [Threads -> {"idle", "piece", "insert", "make", "buckets", "use"}]
    /\ calls \in Nat
    /\ accepted \in [Names -> Nat] /\ cleared \in [Names -> Nat]
    /\ forgotten \subseteq Names /\ crashed \subseteq Names

\* Histogram h is, or was, that of name n.
Ref(n, h) == \/ histMap[n] = h
             \/ \E t \in Threads : Name(t) = n /\ call[t].item = h
             \/ \E t \in Threads : cached[t][n].hist = h
OwnerInv == /\ \A n \in Names, h \in Nat \ {0} : Ref(n, h) => h <= made
            /\ \A m, n \in Names, h \in Nat \ {0} : Ref(m, h) /\ Ref(n, h) => m = n
            /\ \A h \in 1 .. MaxHists : h > made => count[h] = 0
            /\ \A n \in Names : histMap[n] >= Null

\* Where a thread is in its call, and what it has found.
Placed(t) ==
    /\ pc[t] = "insert" => Head(call[t].todo) = "getOrCreate"
    /\ pc[t] = "make" => Head(call[t].todo) = "emplace"
    /\ pc[t] = "buckets" => Head(call[t].todo) \in {"getOrCreate", "emplace"} /\ call[t].item > 0
    /\ pc[t] = "use" => Head(call[t].todo) \in Finders /\ call[t].item > 0
    /\ Head(call[t].todo) = "attach" => call[t].item > 0
Found(t) ==
    Name(t) \notin forgotten =>
        /\ call[t].item # Absent => histMap[Name(t)] = call[t].item
        /\ call[t].todo \in Sure => histMap[Name(t)] > 0
ThreadOK(t) ==
    \/ pc[t] = "idle" /\ call[t] = NoCall
    \/ pc[t] # "idle" /\ Name(t) \in Names /\ call[t].todo \in Lists /\ Placed(t) /\ Found(t)
ThreadInv == \A t \in Threads : ThreadOK(t)

\* The null pointer is there as long as the thread that put it has the lock.
LockInv == /\ \A t \in Threads : pc[t] = "make" <=> mapLock = t
           /\ \A n \in Names : histMap[n] = Null <=> mapLock # None /\ Name(mapLock) = n

\* What is cached, exported and counted under a name that was not forgotten.
CacheInv ==
    /\ \A t \in Threads, n \in Names : cached[t][n].hist = Absent => cached[t][n].n = 0
    /\ \A n \in Names \ forgotten :
          /\ once[n] = "done" => histMap[n] > 0
          /\ \A t \in Threads : cached[t][n].hist # Absent => histMap[n] = cached[t][n].hist
ExportInv ==
    \A n \in Names \ forgotten :
        /\ histMap[n] <= 0 => strings[n] = Absent /\ counters[n] = Absent
        /\ histMap[n] > 0 => counters[n] \in {Absent, histMap[n]}
        /\ histMap[n] > 0 /\ strings[n] # histMap[n] =>
              \E t \in Threads : Name(t) = n /\ pc[t] = "buckets"

IInv == /\ Types /\ OwnerInv /\ ThreadInv /\ LockInv /\ CacheInv /\ ExportInv
        /\ NoValueAside /\ WrapperHasHistogram

-----------------------------------------------------------------------------
(***************************************************************************)
(* Values cached by threads, counted.                                      *)
(***************************************************************************)
\* One pair for each value: thread t has f[t] of them.
Values(f) == UNION {{t} \X (1 .. f[t]) : t \in Threads}

\* A pair is in the set if its number is in range.
LEMMA ValuesAre ==
  ASSUME NEW f \in [Threads -> Nat]
  PROVE  Values(f) = {p \in Threads \X Nat : p[2] \in 1 .. f[p[1]]}
  BY DEF Values

\* The set is finite.
LEMMA ValuesFinite ==
  ASSUME NEW f \in [Threads -> Nat]
  PROVE  IsFiniteSet(Values(f)) /\ Cardinality(Values(f)) \in Nat
<1> DEFINE part(t) == {t} \X (1 .. f[t])
           parts == {part(t) : t \in Threads}
<1>1. IsFiniteSet(parts)
  <2>1. IsFiniteSet(Threads) BY HistogramAssumption
  <2> DEFINE g == [t \in Threads |-> part(t)]
  <2>2. g \in Surjection(Threads, parts) BY DEF Surjection
  <2> HIDE DEF parts, g
  <2> QED BY <2>1, <2>2, FS_Surjection
<1>2. \A T \in parts : IsFiniteSet(T)
  <2> SUFFICES ASSUME NEW t \in Threads PROVE IsFiniteSet(part(t))
    OBVIOUS
  <2>1. IsFiniteSet({t}) BY FS_Singleton
  <2>2. f[t] \in Int OBVIOUS
  <2>3. IsFiniteSet(1 .. f[t]) BY <2>2, FS_Interval
  <2> QED BY <2>1, <2>3, FS_Product
<1>3. IsFiniteSet(UNION parts)
  <2> HIDE DEF parts
  <2> QED BY <1>1, <1>2, FS_UNION
<1> QED BY <1>3, FS_CardinalityType DEF Values

\* Thread t adds a value.
LEMMA ValuesAdd ==
  ASSUME NEW f \in [Threads -> Nat], NEW g \in [Threads -> Nat], NEW t \in Threads,
         g[t] = f[t] + 1, \A u \in Threads \ {t} : g[u] = f[u]
  PROVE  Cardinality(Values(g)) = Cardinality(Values(f)) + 1
<1>1. Values(g) = Values(f) \cup {<<t, f[t] + 1>>} BY ValuesAre
<1>2. <<t, f[t] + 1>> \notin Values(f) BY ValuesAre
<1>3. IsFiniteSet(Values(f)) BY ValuesFinite
<1> HIDE DEF Values
<1> QED BY <1>1, <1>2, <1>3, FS_AddElement

\* Thread t hands over what it has.
LEMMA ValuesTake ==
  ASSUME NEW f \in [Threads -> Nat], NEW g \in [Threads -> Nat], NEW t \in Threads,
         g[t] = 0, \A u \in Threads \ {t} : g[u] = f[u]
  PROVE  Cardinality(Values(f)) = Cardinality(Values(g)) + f[t]
<1> DEFINE part == {t} \X (1 .. f[t])
<1>1. Values(f) = Values(g) \cup part /\ Values(g) \cap part = {} BY ValuesAre
<1>2. IsFiniteSet(part) /\ Cardinality(part) = f[t]
  <2>1. IsFiniteSet({t}) /\ Cardinality({t}) = 1 BY FS_Singleton
  <2>2. f[t] \in Nat OBVIOUS
  <2>3. IsFiniteSet(1 .. f[t]) /\ Cardinality(1 .. f[t]) = f[t]
    <3>1. PICK k \in Nat : k = f[t] BY <2>2
    <3>2. Cardinality(1 .. k) = IF 1 > k THEN 0 ELSE k - 1 + 1 BY FS_Interval
    <3>3. IsFiniteSet(1 .. k) /\ Cardinality(1 .. k) = k BY <3>2, FS_Interval
    <3> QED BY <3>1, <3>3
  <2>4. IsFiniteSet(part) /\ Cardinality(part) = Cardinality({t}) * Cardinality(1 .. f[t])
    BY <2>1, <2>3, FS_Product
  <2> QED BY <2>1, <2>2, <2>3, <2>4
<1>3. IsFiniteSet(Values(g)) /\ Cardinality(Values(g)) \in Nat BY ValuesFinite
<1>4. Cardinality({}) = 0 BY FS_EmptySet
<1> HIDE DEF part, Values
<1>5. Cardinality(Values(g) \cup part) =
          Cardinality(Values(g)) + Cardinality(part) - Cardinality(Values(g) \cap part)
  BY <1>2, <1>3, FS_Union
<1>6. f[t] \in Nat OBVIOUS
<1>7. Cardinality(Values(f)) = Cardinality(Values(g) \cup part) BY <1>1
<1>8. Cardinality(Values(g) \cap part) = 0 BY <1>1, <1>4
<1> QED BY <1>2, <1>3, <1>5, <1>6, <1>7, <1>8

\* What the threads have cached of a name.
Cached(n) == [t \in Threads |-> cached[t][n].n]

\* Pending counts it.
LEMMA PendingIs ==
  ASSUME Types, NEW n \in Names
  PROVE  /\ Cached(n) \in [Threads -> Nat] /\ Pending(n) = Cardinality(Values(Cached(n)))
         /\ Pending(n) \in Nat
<1>1. Cached(n) \in [Threads -> Nat] BY DEF Cached, Types, Cache
<1>2. Values(Cached(n)) = UNION {{t} \X (1 .. cached[t][n].n) : t \in Threads}
  BY DEF Values, Cached
<1> QED BY <1>1, <1>2, ValuesFinite DEF Pending

\* After a step.
LEMMA PendingNext ==
  ASSUME Types, Types', NEW n \in Names
  PROVE  /\ (\A u \in Threads : cached'[u][n].n = cached[u][n].n) => Pending(n)' = Pending(n)
         /\ \A t \in Threads :
               (\A u \in Threads \ {t} : cached'[u][n].n = cached[u][n].n) =>
                  /\ cached'[t][n].n = cached[t][n].n + 1 => Pending(n)' = Pending(n) + 1
                  /\ cached'[t][n].n = 0 => Pending(n) = Pending(n)' + cached[t][n].n
<1> DEFINE f == Cached(n)
           g == Cached(n)'
<1>1. /\ f \in [Threads -> Nat] /\ g \in [Threads -> Nat]
      /\ Pending(n) = Cardinality(Values(f)) /\ Pending(n)' = Cardinality(Values(g))
  <2>1. g \in [Threads -> Nat] BY DEF Cached, Types, Cache
  <2>2. Values(g) = UNION {{t} \X (1 .. cached'[t][n].n) : t \in Threads}
    BY DEF Values, Cached
  <2> QED BY <2>1, <2>2, PendingIs DEF Pending
<1>2. \A t \in Threads : f[t] = cached[t][n].n /\ g[t] = cached'[t][n].n BY DEF Cached
<1> HIDE DEF f, g
<1>3. ASSUME \A u \in Threads : cached'[u][n].n = cached[u][n].n PROVE f = g
  BY <1>1, <1>2, <1>3
<1>4. ASSUME NEW t \in Threads, \A u \in Threads \ {t} : cached'[u][n].n = cached[u][n].n
      PROVE  /\ cached'[t][n].n = cached[t][n].n + 1 => Pending(n)' = Pending(n) + 1
             /\ cached'[t][n].n = 0 => Pending(n) = Pending(n)' + cached[t][n].n
  BY <1>1, <1>2, <1>4, ValuesAdd, ValuesTake
<1> QED BY <1>1, <1>3, <1>4

-----------------------------------------------------------------------------
(***************************************************************************)
(* Calls and their pieces.                                                 *)
(***************************************************************************)
\* What is left of a call after a piece, also without exporting percentiles.
Skip(q) == IF Tail(q) # <<>> /\ Head(Tail(q)) = "exportIfMade" THEN Tail(Tail(q)) ELSE Tail(q)
Ends(q) == q = <<>> \/ q \in Lists

\* How each list begins and goes on.
LEMMA ListFacts ==
  ASSUME NEW q \in Lists
  PROVE  /\ q # <<>> /\ Ends(Tail(q)) /\ Ends(Skip(q))
         /\ Head(q) \in Finders \cup {"getOrCreate", "emplace", "attach", "applied", "get"}
         /\ Head(q) \in {"applied", "get"} => q \in Sure
         /\ q \in Sure => Head(q) \in {"export", "applied", "get"}
         /\ Head(q) # "getOrCreate" => /\ Tail(q) \in Sure => q \in Sure
                                       /\ Tail(q) # <<>> => Head(Tail(q)) # "attach"
         /\ Head(q) = "emplace" => Tail(q) = <<>>
<1> USE DEF Ends, Sure, Finders, Skip, Lists
<1>1. CASE q = <<"getOrCreate">> BY <1>1
<1>2. CASE q = <<"emplace">> BY <1>2
<1>3. CASE q = <<"addValue">> BY <1>3
<1>4. CASE q = <<"export">> BY <1>4
<1>5. CASE q = <<"unexport">> BY <1>5
<1>6. CASE q = <<"clear">> BY <1>6
<1>7. CASE q = <<"attach">> BY <1>7
<1>8. CASE q = <<"get">> BY <1>8
<1>9. CASE q = <<"exportIfMade", "addValue">> BY <1>9
<1>10. CASE q = <<"getOrCreate", "attach">> BY <1>10
<1>11. CASE q = <<"applied", "get">> BY <1>11
<1>12. CASE q = <<"getOrCreate", "exportIfMade", "addValue">> BY <1>12
<1>13. CASE q = <<"export", "applied", "get">> BY <1>13
<1>14. CASE q = <<"getOrCreate", "export", "applied", "get">> BY <1>14
<1> QED
  BY <1>1, <1>2, <1>3, <1>4, <1>5, <1>6, <1>7, <1>8, <1>9, <1>10, <1>11, <1>12, <1>13, <1>14

\* The calls begin with lists.
LEMMA PiecesAre ==
  ASSUME NEW op \in DOMAIN Pieces
  PROVE  Pieces[op] \in Lists \ Sure /\ Head(Pieces[op]) # "attach"
  BY DEF Pieces, Lists, Sure

\* The other threads' calls are what they were.
Others(t) == \A u \in Threads \ {t} : call'[u] = call[u] /\ pc'[u] = pc[u]
CallType == [name : Names \cup {None}, todo : Lists \cup {<<>>}, item : Nat]
Labels == {"idle", "piece", "insert", "make", "buckets", "use"}

\* A piece is done: `rest` are left.
LEMMA GoFacts ==
  ASSUME Types, NEW t \in Threads, NEW rest, Ends(rest), Go(t, rest)
  PROVE  /\ Others(t) /\ calls' = calls /\ call' \in [Threads -> CallType]
         /\ pc' \in [Threads -> Labels]
         /\ rest = <<>> => pc'[t] = "idle" /\ call'[t] = NoCall
         /\ rest # <<>> => /\ pc'[t] = "piece" /\ call'[t].name = call[t].name
                           /\ call'[t].todo = rest /\ call'[t].item = call[t].item
         /\ call'[t].item \in {Absent, call[t].item}
         /\ pc'[t] \in {"idle", "piece"}
<1>1. call[t] \in CallType BY DEF Types, CallType
<1>2. NoCall \in CallType BY DEF NoCall, CallType, Absent
<1> DEFINE c == [call[t] EXCEPT !.todo = rest]
<1>3. /\ rest # <<>> => c \in CallType
      /\ c.name = call[t].name /\ c.todo = rest /\ c.item = call[t].item
  BY <1>1 DEF CallType, Ends
<1> HIDE DEF c
<1>4. /\ call' = [call EXCEPT ![t] = IF rest = <<>> THEN NoCall ELSE c]
      /\ pc' = [pc EXCEPT ![t] = IF rest = <<>> THEN "idle" ELSE "piece"] /\ calls' = calls
  BY DEF Go, c
<1>5. /\ call'[t] = IF rest = <<>> THEN NoCall ELSE c
      /\ pc'[t] = IF rest = <<>> THEN "idle" ELSE "piece"
      /\ Others(t)
  BY <1>4 DEF Types, Others
<1>6. call' \in [Threads -> CallType] /\ pc' \in [Threads -> Labels]
  BY <1>2, <1>3, <1>4 DEF Types, CallType, Labels
<1> QED BY <1>3, <1>4, <1>5, <1>6 DEF NoCall, Absent

\* A thread goes on in its piece, with the histogram it found.
LEMMA StayFacts ==
  ASSUME Types, NEW t \in Threads, NEW where \in Labels, NEW h \in Nat, Stay(t, where, h)
  PROVE  /\ Others(t) /\ calls' = calls /\ call' \in [Threads -> CallType]
         /\ pc' \in [Threads -> Labels]
         /\ pc'[t] = where /\ call'[t].name = call[t].name
         /\ call'[t].todo = call[t].todo /\ call'[t].item = h
<1>1. call[t] \in CallType BY DEF Types, CallType
<1> DEFINE c == [call[t] EXCEPT !.item = h]
<1>2. /\ c \in CallType /\ c.name = call[t].name /\ c.todo = call[t].todo /\ c.item = h
  BY <1>1 DEF CallType
<1> HIDE DEF c
<1>3. /\ call' = [call EXCEPT ![t] = c] /\ pc' = [pc EXCEPT ![t] = where] /\ calls' = calls
  BY DEF Stay, c
<1> QED BY <1>2, <1>3 DEF Types, Others, CallType, Labels

\* It found one that was there before.
LEMMA FoundFacts ==
  ASSUME Types, NEW t \in Threads, histMap[Name(t)] \in Nat, Ends(Skip(call[t].todo)),
         FoundOld(t)
  PROVE  LET rest == Skip(call[t].todo)
         IN  /\ Others(t) /\ calls' = calls /\ call' \in [Threads -> CallType]
             /\ pc' \in [Threads -> Labels]
             /\ rest = <<>> => pc'[t] = "idle" /\ call'[t] = NoCall
             /\ rest # <<>> => /\ pc'[t] = "piece" /\ call'[t].name = call[t].name
                               /\ call'[t].todo = rest /\ call'[t].item = histMap[Name(t)]
<1>1. call[t] \in CallType BY DEF Types, CallType
<1>2. NoCall \in CallType BY DEF NoCall, CallType, Absent
<1> DEFINE rest == Skip(call[t].todo)
           h == histMap[Name(t)]
           c == [call[t] EXCEPT !.item = h, !.todo = rest]
<1>3. Ends(rest) /\ h \in Nat OBVIOUS
<1>4. /\ call' = [call EXCEPT ![t] = IF rest = <<>> THEN NoCall ELSE c]
      /\ pc' = [pc EXCEPT ![t] = IF rest = <<>> THEN "idle" ELSE "piece"] /\ calls' = calls
  BY DEF FoundOld, Skip
<1> HIDE DEF rest, h
<1>5. /\ rest # <<>> => c \in CallType
      /\ c.name = call[t].name /\ c.todo = rest /\ c.item = h
  BY <1>1, <1>3 DEF CallType, Ends
<1> HIDE DEF c
<1>6. /\ call'[t] = IF rest = <<>> THEN NoCall ELSE c
      /\ pc'[t] = IF rest = <<>> THEN "idle" ELSE "piece"
      /\ Others(t)
  BY <1>4 DEF Types, Others
<1>7. call' \in [Threads -> CallType] /\ pc' \in [Threads -> Labels]
  BY <1>2, <1>4, <1>5 DEF Types, CallType, Labels
<1> QED BY <1>4, <1>5, <1>6, <1>7 DEF rest, h

-----------------------------------------------------------------------------
(***************************************************************************)
(* Frames: what a step of t leaves alone.                                  *)
(***************************************************************************)
\* The histogram of a name stays in the map until the name is forgotten.
MapKept == /\ forgotten \subseteq forgotten'
           /\ \A n \in Names \ forgotten' : histMap[n] > 0 => histMap'[n] = histMap[n]

\* So what another thread found is still there.
LEMMA ThreadFrame ==
  ASSUME IInv, NEW t \in Threads, Others(t), MapKept, ThreadOK(t)'
  PROVE  ThreadInv'
<1> SUFFICES ASSUME NEW u \in Threads \ {t} PROVE ThreadOK(u)'
  BY DEF ThreadInv
<1>1. call'[u] = call[u] /\ pc'[u] = pc[u] /\ ThreadOK(u) /\ call[u] \in CallType
  BY DEF Others, IInv, ThreadInv, Types, CallType
<1>2. Name(u)' = Name(u) BY <1>1 DEF Name
<1>3. call[u].item \in Nat BY <1>1 DEF CallType
<1>4. Name(u) \in Names /\ Found(u) => Found(u)'
  BY <1>1, <1>2, <1>3 DEF Found, MapKept, Absent
<1>5. Placed(u) => Placed(u)' BY <1>1 DEF Placed
<1> QED BY <1>1, <1>2, <1>4, <1>5 DEF ThreadOK

\* No name gets a histogram of another, and a new one goes to one name, m.
LEMMA OwnerFrame ==
  ASSUME IInv, Types', NEW t \in Threads, NEW m \in Names, Others(t),
         made' \in {made, made + 1},
         \A n \in Names : /\ histMap'[n] >= Null
                          /\ \/ histMap'[n] = histMap[n] \/ histMap'[n] <= 0
                             \/ n = m /\ histMap'[n] = made + 1 /\ made' = made + 1,
         \/ call'[t].item = 0
         \/ call'[t].name = call[t].name /\ call'[t].item = call[t].item
         \/ call'[t].name \in Names /\ histMap[call'[t].name] = call'[t].item
         \/ call'[t].name = m /\ call'[t].item = made + 1 /\ made' = made + 1,
         \A u \in Threads, n \in Names : \/ cached'[u][n].hist = cached[u][n].hist
                                        \/ Ref(n, cached'[u][n].hist),
         \A h \in 1 .. MaxHists : h > made' => count'[h] = 0
  PROVE  OwnerInv'
<1>1. ASSUME NEW n \in Names, NEW h \in Nat \ {0}, Ref(n, h)'
      PROVE  Ref(n, h) \/ (n = m /\ h = made + 1 /\ made' = made + 1)
  <2>1. CASE histMap'[n] = h BY <2>1 DEF Ref
  <2>2. ASSUME NEW u \in Threads, Name(u)' = n, call'[u].item = h
        PROVE  Ref(n, h) \/ (n = m /\ h = made + 1 /\ made' = made + 1)
    <3>1. CASE u # t BY <2>2, <3>1 DEF Ref, Others, Name
    <3>2. CASE u = t BY <2>2, <3>2 DEF Ref, Name
    <3> QED BY <3>1, <3>2
  <2>3. ASSUME NEW u \in Threads, cached'[u][n].hist = h PROVE Ref(n, h)
    BY <2>3 DEF Ref
  <2> QED BY <1>1, <2>1, <2>2, <2>3 DEF Ref
<1>2. made \in Nat /\ made' \in Nat BY DEF IInv, Types
<1>3. \A n \in Names, h \in Nat \ {0} : Ref(n, h)' => h <= made'
  BY <1>1, <1>2 DEF IInv, OwnerInv
<1>4. \A k, n \in Names, h \in Nat \ {0} : Ref(k, h)' /\ Ref(n, h)' => k = n
  BY <1>1, <1>2 DEF IInv, OwnerInv
<1> QED BY <1>3, <1>4 DEF OwnerInv

\* A histogram is that of one name only.
LEMMA OneOwner ==
  ASSUME IInv, NEW n \in Names, NEW h \in Nat \ {0}, Ref(n, h)
  PROVE  h \in 1 .. made /\ h \in 1 .. MaxHists /\ \A m \in Names \ {n} : histMap[m] # h
<1>1. h <= made BY DEF IInv, OwnerInv
<1>2. made \in Nat /\ MaxHists \in Nat /\ made <= MaxHists
  BY HistogramAssumption DEF IInv, Types
<1>3. \A m \in Names : histMap[m] = h => Ref(m, h) BY DEF Ref
<1>4. \A m \in Names : histMap[m] = h => m = n BY <1>3 DEF IInv, OwnerInv
<1> QED BY <1>1, <1>2, <1>4

\* The lock is with whom it was.
LEMMA LockFrame ==
  ASSUME IInv, NEW t \in Threads, Others(t), mapLock' = mapLock, pc[t] # "make",
         pc'[t] # "make", \A n \in Names : histMap'[n] = Null <=> histMap[n] = Null
  PROVE  LockInv'
<1>1. \A u \in Threads : pc'[u] = "make" <=> mapLock' = u BY DEF IInv, LockInv, Others
<1>2. mapLock # t BY DEF IInv, LockInv
<1>3. mapLock # None => mapLock \in Threads \ {t} BY <1>2 DEF IInv, Types
<1>4. mapLock # None => Name(mapLock)' = Name(mapLock) BY <1>3 DEF Others, Name
<1> QED BY <1>1, <1>4 DEF IInv, LockInv

\* Nothing is cached or applied.
LEMMA CacheFrame ==
  ASSUME IInv, MapKept, UNCHANGED cached,
         \A n \in Names \ forgotten : once'[n] = "done" => once[n] = "done" \/ histMap[n] > 0
  PROVE  CacheInv'
<1>1. \A t \in Threads, n \in Names : cached[t][n].hist \in Nat BY DEF IInv, Types, Cache
<1> QED BY <1>1 DEF IInv, CacheInv, MapKept, Absent

\* Nothing is exported.
LEMMA ExportFrame ==
  ASSUME IInv, Types', NEW t \in Threads, Others(t), MapKept, UNCHANGED exportVars,
         pc[t] # "buckets", \A n \in Names \ forgotten' : histMap[n] <= 0 => histMap'[n] <= 0
  PROVE  ExportInv'
<1> SUFFICES ASSUME NEW n \in Names \ forgotten'
             PROVE  /\ histMap'[n] <= 0 => strings'[n] = Absent /\ counters'[n] = Absent
                    /\ histMap'[n] > 0 => counters'[n] \in {Absent, histMap'[n]}
                    /\ histMap'[n] > 0 /\ strings'[n] # histMap'[n] =>
                          \E u \in Threads : Name(u)' = n /\ pc'[u] = "buckets"
  BY DEF ExportInv
<1>1. n \notin forgotten /\ histMap[n] \in Int /\ histMap'[n] \in Int BY DEF MapKept, IInv, Types
<1>2. histMap[n] > 0 => histMap'[n] = histMap[n] BY DEF MapKept
<1>3. ASSUME NEW u \in Threads, Name(u) = n, pc[u] = "buckets"
      PROVE  Name(u)' = n /\ pc'[u] = "buckets"
  BY <1>3 DEF Others, Name
<1>4. strings' = strings /\ counters' = counters BY DEF exportVars
<1>5. CASE histMap[n] <= 0 BY <1>1, <1>4, <1>5 DEF IInv, ExportInv
<1>6. CASE histMap[n] > 0
  <2>1. /\ counters[n] \in {Absent, histMap[n]}
        /\ strings[n] # histMap[n] => \E u \in Threads : Name(u) = n /\ pc[u] = "buckets"
    BY <1>1, <1>6 DEF IInv, ExportInv
  <2> QED BY <1>1, <1>2, <1>3, <1>4, <1>6, <2>1
<1> QED BY <1>1, <1>5, <1>6

\* The values in the histogram the map has for a name.
Held(n) == IF histMap[n] > 0 THEN count[histMap[n]] ELSE 0

\* The values of every name are where they were.
LEMMA SumFrame ==
  ASSUME IInv, Types', MapKept, UNCHANGED <<accepted, cleared>>,
         \A u \in Threads, n \in Names : cached'[u][n].n = cached[u][n].n,
         \A n \in Names \ forgotten' : Held(n)' = Held(n)
  PROVE  NoValueAside'
<1>1. \A n \in Names : Pending(n)' = Pending(n) BY PendingNext DEF IInv
<1> QED BY <1>1 DEF IInv, NoValueAside, MapKept, Held

\* A step that moves t, and applies a spec perhaps, and nothing else.
LEMMA CallStep ==
  ASSUME IInv, NEW t \in Threads, Types', ThreadOK(t)', Others(t),
         UNCHANGED <<mapVars, exportVars, cached, crashed, sumVars>>,
         pc[t] \notin {"make", "buckets"}, pc'[t] # "make",
         \/ call'[t].item = 0
         \/ call'[t].name = call[t].name /\ call'[t].item = call[t].item
         \/ call'[t].name \in Names /\ histMap[call'[t].name] = call'[t].item,
         \A n \in Names \ forgotten : once'[n] = "done" => once[n] = "done" \/ histMap[n] > 0
  PROVE  IInv'
<1>1. MapKept BY DEF MapKept, mapVars, sumVars
<1>2. OwnerInv'
  <2>1. CASE Names # {}
    <3>1. PICK m \in Names : TRUE BY <2>1
    <3> QED BY OwnerFrame DEF IInv, OwnerInv, mapVars
  <2>2. CASE Names = {}
    BY <2>2 DEF IInv, OwnerInv, mapVars
  <2> QED BY <2>1, <2>2
<1>3. ThreadInv' BY <1>1, ThreadFrame
<1>4. LockInv' BY LockFrame DEF mapVars
<1>5. CacheInv' BY <1>1, CacheFrame
<1>6. ExportInv' BY <1>1, ExportFrame DEF mapVars
<1>7. NoValueAside' BY <1>1, SumFrame DEF sumVars, mapVars, Held
<1>8. WrapperHasHistogram' BY DEF IInv, WrapperHasHistogram, sumVars
<1> QED BY <1>2, <1>3, <1>4, <1>5, <1>6, <1>7, <1>8 DEF IInv

-----------------------------------------------------------------------------
(***************************************************************************)
(* Steps that only move their thread.                                      *)
(***************************************************************************)
\* A thread at work on a call.
LEMMA AtWork ==
  ASSUME IInv, NEW t \in Threads, pc[t] # "idle"
  PROVE  /\ Name(t) \in Names /\ Name(t) = call[t].name /\ call[t].todo \in Lists
         /\ Placed(t) /\ Found(t) /\ call[t].item \in Nat /\ call[t] \in CallType
         /\ Ends(Tail(call[t].todo)) /\ Ends(Skip(call[t].todo))
         /\ histMap[Name(t)] \in Int
         /\ call[t].item > 0 => Ref(Name(t), call[t].item)
<1>1. /\ Name(t) \in Names /\ Name(t) = call[t].name /\ call[t].todo \in Lists
      /\ Placed(t) /\ Found(t)
  BY DEF IInv, ThreadInv, ThreadOK, Name
<1>2. call[t] \in CallType BY DEF IInv, Types, CallType
<1>3. call[t].item \in Nat BY <1>2 DEF CallType
<1>4. histMap[Name(t)] \in Int BY <1>1 DEF IInv, Types
<1>5. Ref(Name(t), call[t].item) BY DEF Ref
<1> QED BY <1>1, <1>2, <1>3, <1>4, <1>5, ListFacts

\* What the map has when nobody has the lock.
LEMMA FreeMap ==
  ASSUME IInv, MapFree, NEW n \in Names
  PROVE  histMap[n] \in Nat /\ histMap[n] >= 0 /\ (histMap[n] # Absent => histMap[n] > 0)
<1>1. histMap[n] # Null BY DEF IInv, LockInv, MapFree
<1>2. histMap[n] \in Int /\ histMap[n] >= Null BY DEF IInv, Types, OwnerInv
<1> QED BY <1>1, <1>2 DEF Null, Absent

\* The thread is done with a piece that needs, or made, no histogram.
LEMMA DoneOK ==
  ASSUME IInv, NEW t \in Threads, pc[t] # "idle", MapKept, Done(t),
         Head(call[t].todo) # "getOrCreate" \/ call[t].item > 0
  PROVE  /\ Others(t) /\ calls' = calls /\ call' \in [Threads -> CallType]
         /\ pc' \in [Threads -> Labels] /\ pc'[t] \in {"idle", "piece"} /\ ThreadOK(t)'
         /\ \/ call'[t].item = 0
            \/ call'[t].name = call[t].name /\ call'[t].item = call[t].item
<1> DEFINE q == call[t].todo
<1>1. /\ Name(t) \in Names /\ Name(t) = call[t].name /\ q \in Lists /\ Found(t)
      /\ call[t].item \in Nat /\ Ends(Tail(q)) /\ histMap[Name(t)] \in Int
  BY AtWork
<1>2. /\ Others(t) /\ calls' = calls /\ call' \in [Threads -> CallType]
      /\ pc' \in [Threads -> Labels]
      /\ Tail(q) = <<>> => pc'[t] = "idle" /\ call'[t] = NoCall
      /\ Tail(q) # <<>> => /\ pc'[t] = "piece" /\ call'[t].name = call[t].name
                           /\ call'[t].todo = Tail(q) /\ call'[t].item = call[t].item
  BY <1>1, GoFacts DEF Done, IInv
<1>3. CASE Tail(q) = <<>> BY <1>2, <1>3 DEF ThreadOK, NoCall, Absent
<1>4. CASE Tail(q) # <<>>
  <2>1. Tail(q) \in Lists BY <1>1, <1>4 DEF Ends
  <2>2. Name(t)' = Name(t) BY <1>1, <1>2, <1>4 DEF Name
  <2>3. Head(Tail(q)) = "attach" => call[t].item > 0 BY <1>1, <1>4, ListFacts
  <2>4. Placed(t)' BY <1>2, <1>4, <2>3 DEF Placed
  <2>5. Tail(q) \in Sure => q \in Sure \/ call[t].item > 0 BY <1>1, ListFacts
  <2>6. Found(t)'
    <3> SUFFICES ASSUME Name(t) \notin forgotten'
                 PROVE  /\ call[t].item # Absent => histMap'[Name(t)] = call[t].item
                        /\ Tail(q) \in Sure => histMap'[Name(t)] > 0
      BY <1>2, <1>4, <2>2 DEF Found
    <3>1. Name(t) \notin forgotten BY DEF MapKept
    <3>2. histMap[Name(t)] > 0 => histMap'[Name(t)] = histMap[Name(t)] BY <1>1 DEF MapKept
    <3> QED BY <1>1, <2>5, <3>1, <3>2 DEF Found, Absent
  <2> QED BY <1>1, <1>2, <1>4, <2>1, <2>2, <2>4, <2>6 DEF ThreadOK
<1> QED BY <1>3, <1>4

\* The thread found a histogram that was there.
LEMMA FoundOldOK ==
  ASSUME IInv, NEW t \in Threads, pc[t] # "idle", UNCHANGED <<histMap, forgotten>>, MapFree,
         histMap[Name(t)] # Absent, FoundOld(t)
  PROVE  /\ Others(t) /\ calls' = calls /\ call' \in [Threads -> CallType]
         /\ pc' \in [Threads -> Labels] /\ pc'[t] \in {"idle", "piece"} /\ ThreadOK(t)'
         /\ \/ call'[t].item = 0
            \/ call'[t].name \in Names /\ histMap[call'[t].name] = call'[t].item
<1> DEFINE rest == Skip(call[t].todo)
           h == histMap[Name(t)]
<1>1. /\ Name(t) \in Names /\ Name(t) = call[t].name /\ Ends(rest)
  BY AtWork
<1>2. h \in Nat /\ h > 0 BY <1>1, FreeMap
<1>3. /\ Others(t) /\ calls' = calls /\ call' \in [Threads -> CallType]
      /\ pc' \in [Threads -> Labels]
      /\ rest = <<>> => pc'[t] = "idle" /\ call'[t] = NoCall
      /\ rest # <<>> => /\ pc'[t] = "piece" /\ call'[t].name = call[t].name
                        /\ call'[t].todo = rest /\ call'[t].item = h
  BY <1>1, <1>2, FoundFacts DEF IInv
<1> HIDE DEF rest
<1>4. CASE rest = <<>> BY <1>3, <1>4 DEF ThreadOK, NoCall, Absent
<1>5. CASE rest # <<>>
  <2>1. rest \in Lists BY <1>1, <1>5 DEF Ends
  <2>2. Name(t)' = Name(t) BY <1>1, <1>3, <1>5 DEF Name
  <2>3. Placed(t)' BY <1>2, <1>3, <1>5 DEF Placed
  <2>4. Found(t)' BY <1>2, <1>3, <1>5, <2>2 DEF Found
  <2> QED BY <1>1, <1>3, <1>5, <2>1, <2>2, <2>3, <2>4 DEF ThreadOK
<1> QED BY <1>4, <1>5

\* A thread that is idle begins a call.
LEMMA BeginOK ==
  ASSUME IInv, NEW t \in Threads, NEW n \in Names, NEW q \in Lists, Begin(t, n, q),
         UNCHANGED <<histMap, forgotten>>, Head(q) # "attach",
         q \in Sure /\ n \notin forgotten => histMap[n] > 0
  PROVE  /\ Others(t) /\ calls' \in Nat /\ call' \in [Threads -> CallType]
         /\ pc' \in [Threads -> Labels] /\ pc'[t] = "piece" /\ ThreadOK(t)'
         /\ call'[t].item = 0 /\ pc[t] = "idle"
<1> DEFINE c == [name |-> n, todo |-> q, item |-> Absent]
<1>1. c \in CallType /\ c.name = n /\ c.todo = q /\ c.item = 0
  BY DEF CallType, Absent
<1>2. /\ call' = [call EXCEPT ![t] = c] /\ pc' = [pc EXCEPT ![t] = "piece"]
      /\ pc[t] = "idle" /\ calls' \in Nat
  BY DEF Begin, IInv, Types
<1> HIDE DEF c
<1>3. /\ call'[t] = c /\ pc'[t] = "piece" /\ Others(t)
      /\ call' \in [Threads -> CallType] /\ pc' \in [Threads -> Labels]
  BY <1>1, <1>2 DEF IInv, Types, Others, CallType, Labels
<1>4. Name(t)' = n BY <1>1, <1>3 DEF Name
<1>5. Placed(t)' /\ Found(t)' BY <1>1, <1>3, <1>4 DEF Placed, Found, Absent
<1> QED BY <1>1, <1>2, <1>3, <1>4, <1>5 DEF ThreadOK

\* A call of the map begins.
LEMMA CallMapIInv ==
  ASSUME IInv, NEW t \in Threads, NEW n \in Names, NEW op \in DOMAIN Pieces, CallMap(t, n, op)
  PROVE  IInv'
<1>1. /\ UNCHANGED <<mapVars, exportVars, cached, crashed, sumVars>> /\ once' = once
      /\ UNCHANGED <<histMap, forgotten>> /\ Begin(t, n, Pieces[op])
  BY DEF CallMap, tlVars, mapVars, sumVars
<1>2. Pieces[op] \in Lists /\ Pieces[op] \notin Sure /\ Head(Pieces[op]) # "attach"
  BY PiecesAre
<1>3. /\ Others(t) /\ calls' \in Nat /\ call' \in [Threads -> CallType]
      /\ pc' \in [Threads -> Labels] /\ pc'[t] = "piece" /\ ThreadOK(t)'
      /\ call'[t].item = 0 /\ pc[t] = "idle"
  BY <1>1, <1>2, BeginOK
<1>4. Types'
  BY <1>1, <1>3 DEF IInv, Types, mapVars, exportVars, sumVars, CallType, Labels
<1> QED BY <1>1, <1>3, <1>4, CallStep

\* HistogramWrapper::add() begins.
LEMMA WrapperAddIInv ==
  ASSUME IInv, NEW t \in Threads, NEW n \in Names, WrapperAdd(t, n)
  PROVE  IInv'
<1>1. /\ UNCHANGED <<mapVars, exportVars, cached, crashed, sumVars>>
      /\ UNCHANGED <<histMap, forgotten>>
  BY DEF WrapperAdd, mapVars, sumVars
<1>2. /\ <<"get">> \in Lists /\ Head(<<"get">>) # "attach"
      /\ ApplySpec \in Lists \ Sure /\ Head(ApplySpec) # "attach"
  BY DEF Lists, Sure, ApplySpec
<1>3. /\ once' \in [Names -> {"new", "running", "done"}]
      /\ \A k \in Names : once'[k] = "done" => once[k] = "done"
  BY DEF WrapperAdd, IInv, Types
<1>4. \E q \in Lists : /\ Begin(t, n, q) /\ Head(q) # "attach"
                       /\ q \in Sure /\ n \notin forgotten => histMap[n] > 0
  <2>1. CASE once[n] = "done" /\ Begin(t, n, <<"get">>)
    <3>1. n \notin forgotten => histMap[n] > 0 BY <2>1 DEF IInv, CacheInv
    <3> QED BY <1>2, <2>1, <3>1
  <2>2. CASE Begin(t, n, ApplySpec)
    BY <1>2, <2>2
  <2> QED BY <2>1, <2>2 DEF WrapperAdd
<1>5. /\ Others(t) /\ calls' \in Nat /\ call' \in [Threads -> CallType]
      /\ pc' \in [Threads -> Labels] /\ pc'[t] = "piece" /\ ThreadOK(t)'
      /\ call'[t].item = 0 /\ pc[t] = "idle"
  BY <1>1, <1>4, BeginOK
<1>6. Types'
  BY <1>1, <1>3, <1>5 DEF IInv, Types, mapVars, exportVars, sumVars, CallType, Labels
<1> QED BY <1>1, <1>3, <1>5, <1>6, CallStep

\* getOrCreateUnlocked() looks, with the shared lock.
LEMMA LookUpIInv ==
  ASSUME IInv, NEW t \in Threads, LookUp(t)
  PROVE  IInv'
<1>1. /\ UNCHANGED <<mapVars, exportVars, cached, crashed, sumVars>> /\ once' = once
      /\ UNCHANGED <<histMap, forgotten>> /\ MapFree /\ pc[t] = "piece"
      /\ Head(call[t].todo) = "getOrCreate"
      /\ \/ histMap[Name(t)] # Absent /\ FoundOld(t)
         \/ Stay(t, "insert", Absent)
  BY DEF LookUp, At, tlVars, mapVars, sumVars
<1>2. CASE histMap[Name(t)] # Absent /\ FoundOld(t)
  <2>1. /\ Others(t) /\ calls' = calls /\ call' \in [Threads -> CallType]
        /\ pc' \in [Threads -> Labels] /\ pc'[t] \in {"idle", "piece"} /\ ThreadOK(t)'
        /\ \/ call'[t].item = 0
           \/ call'[t].name \in Names /\ histMap[call'[t].name] = call'[t].item
    BY <1>1, <1>2, FoundOldOK
  <2>2. Types'
    BY <1>1, <2>1 DEF IInv, Types, mapVars, exportVars, sumVars, CallType, Labels
  <2> QED BY <1>1, <2>1, <2>2, CallStep
<1>3. CASE Stay(t, "insert", Absent)
  <2>1. /\ Others(t) /\ calls' = calls /\ call' \in [Threads -> CallType]
        /\ pc' \in [Threads -> Labels] /\ pc'[t] = "insert" /\ call'[t].name = call[t].name
        /\ call'[t].todo = call[t].todo /\ call'[t].item = 0
    BY <1>3, StayFacts DEF IInv, Labels, Absent
  <2>2. Types'
    BY <1>1, <2>1 DEF IInv, Types, mapVars, exportVars, sumVars, CallType, Labels
  <2>3. /\ Name(t) \in Names /\ Name(t)' = Name(t) /\ call[t].todo \in Lists
        /\ Head(call[t].todo) = "getOrCreate" /\ call[t].todo \notin Sure
    BY <1>1, <2>1, AtWork, ListFacts DEF Name
  <2>4. ThreadOK(t)' BY <2>1, <2>3 DEF ThreadOK, Placed, Found, Absent
  <2> QED BY <1>1, <2>1, <2>2, <2>4, CallStep
<1> QED BY <1>1, <1>2, <1>3

\* getHistogramUnlocked() finds a histogram, or none.
LEMMA FindIInv ==
  ASSUME IInv, NEW t \in Threads, Find(t)
  PROVE  IInv'
<1>1. /\ UNCHANGED <<mapVars, exportVars, cached, crashed, sumVars>> /\ once' = once
      /\ UNCHANGED <<histMap, forgotten>> /\ MapFree /\ pc[t] = "piece"
      /\ Head(call[t].todo) \in Finders
      /\ \/ Done(t)
         \/ histMap[Name(t)] # Absent /\ Stay(t, "use", histMap[Name(t)])
  BY DEF Find, At, tlVars, mapVars, sumVars
<1>2. MapKept BY <1>1 DEF MapKept
<1>3. Head(call[t].todo) \notin {"getOrCreate", "attach"} BY <1>1 DEF Finders
<1>4. CASE Done(t)
  <2>1. /\ Others(t) /\ calls' = calls /\ call' \in [Threads -> CallType]
        /\ pc' \in [Threads -> Labels] /\ pc'[t] \in {"idle", "piece"} /\ ThreadOK(t)'
        /\ \/ call'[t].item = 0
           \/ call'[t].name = call[t].name /\ call'[t].item = call[t].item
    BY <1>1, <1>2, <1>3, <1>4, DoneOK
  <2>2. Types'
    BY <1>1, <2>1 DEF IInv, Types, mapVars, exportVars, sumVars, CallType, Labels
  <2> QED BY <1>1, <2>1, <2>2, CallStep
<1>5. CASE histMap[Name(t)] # Absent /\ Stay(t, "use", histMap[Name(t)])
  <2>1. /\ Name(t) \in Names /\ Name(t) = call[t].name /\ call[t].todo \in Lists /\ Found(t)
    BY <1>1, AtWork
  <2>2. histMap[Name(t)] \in Nat /\ histMap[Name(t)] > 0 BY <1>1, <1>5, <2>1, FreeMap
  <2>3. /\ Others(t) /\ calls' = calls /\ call' \in [Threads -> CallType]
        /\ pc' \in [Threads -> Labels] /\ pc'[t] = "use" /\ call'[t].name = call[t].name
        /\ call'[t].todo = call[t].todo /\ call'[t].item = histMap[Name(t)]
    BY <1>5, <2>2, StayFacts DEF IInv, Labels
  <2>4. Types'
    BY <1>1, <2>3 DEF IInv, Types, mapVars, exportVars, sumVars, CallType, Labels
  <2>5. Name(t)' = Name(t) BY <2>1, <2>3 DEF Name
  <2>6. Placed(t)' BY <1>1, <1>3, <2>2, <2>3 DEF Placed
  <2>7. Found(t)' BY <1>1, <2>2, <2>3, <2>5 DEF Found
  <2>8. ThreadOK(t)' BY <2>1, <2>3, <2>5, <2>6, <2>7 DEF ThreadOK
  <2> QED BY <1>1, <2>1, <2>3, <2>4, <2>8, CallStep
<1> QED BY <1>1, <1>4, <1>5

\* The spec of a wrapper is applied: the name has a histogram.
LEMMA AppliedIInv ==
  ASSUME IInv, NEW t \in Threads, Applied(t)
  PROVE  IInv'
<1>1. /\ UNCHANGED <<mapVars, exportVars, cached, crashed, sumVars>>
      /\ UNCHANGED <<histMap, forgotten>> /\ pc[t] = "piece"
      /\ Head(call[t].todo) = "applied" /\ Done(t)
      /\ once' = [once EXCEPT ![Name(t)] = "done"]
  BY DEF Applied, At, mapVars, sumVars
<1>2. MapKept BY <1>1 DEF MapKept
<1>3. /\ Others(t) /\ calls' = calls /\ call' \in [Threads -> CallType]
      /\ pc' \in [Threads -> Labels] /\ pc'[t] \in {"idle", "piece"} /\ ThreadOK(t)'
      /\ \/ call'[t].item = 0
         \/ call'[t].name = call[t].name /\ call'[t].item = call[t].item
  BY <1>1, <1>2, DoneOK
<1>4. Name(t) \in Names /\ Found(t) /\ call[t].todo \in Sure BY <1>1, AtWork, ListFacts
<1>5. /\ once' \in [Names -> {"new", "running", "done"}]
      /\ \A n \in Names \ forgotten : once'[n] = "done" => once[n] = "done" \/ histMap[n] > 0
  BY <1>1, <1>4 DEF Found, IInv, Types
<1>6. Types'
  BY <1>1, <1>3, <1>5 DEF IInv, Types, mapVars, exportVars, sumVars, CallType, Labels
<1> QED BY <1>1, <1>3, <1>5, <1>6, CallStep

-----------------------------------------------------------------------------
(***************************************************************************)
(* Histograms are made and forgotten.                                      *)
(***************************************************************************)
\* A name that has none gets a new histogram; its buckets are not exported yet.
LEMMA NewHistogram ==
  ASSUME IInv, NEW t \in Threads, pc[t] \in {"insert", "make"}, histMap[Name(t)] <= 0,
         made < MaxHists, made' = made + 1, histMap' = [histMap EXCEPT ![Name(t)] = made + 1],
         Stay(t, "buckets", made + 1), mapLock' \in Threads \cup {None}, LockInv',
         UNCHANGED <<count, exportVars, tlVars, sumVars>>
  PROVE  IInv'
<1> DEFINE n == Name(t)
<1>1. /\ n \in Names /\ n = call[t].name /\ call[t].todo \in Lists /\ Placed(t)
      /\ histMap[n] \in Int
  BY AtWork
<1>2. made \in Nat /\ MaxHists \in Nat BY HistogramAssumption DEF IInv, Types
<1>3. /\ Others(t) /\ calls' = calls /\ call' \in [Threads -> CallType]
      /\ pc' \in [Threads -> Labels] /\ pc'[t] = "buckets" /\ call'[t].name = n
      /\ call'[t].todo = call[t].todo /\ call'[t].item = made + 1
  BY <1>1, <1>2, StayFacts DEF IInv, Labels
<1> HIDE DEF n
<1>4. histMap'[n] = made + 1 /\ \A m \in Names \ {n} : histMap'[m] = histMap[m]
  BY <1>1 DEF IInv, Types, n
<1>5. histMap' \in [Names -> Int]
  <2>1. made + 1 \in Int BY <1>2
  <2> QED BY <2>1 DEF IInv, Types
<1>6. Types'
  <2>1. made' \in Nat /\ made' <= MaxHists BY <1>2
  <2> QED
    BY <1>3, <1>5, <2>1 DEF IInv, Types, exportVars, tlVars, sumVars, CallType, Labels
<1>7. MapKept
  <2>1. \A m \in Names : histMap[m] > 0 => m # n BY <1>1 DEF n
  <2> QED BY <1>4, <2>1 DEF MapKept, sumVars
<1>8. OwnerInv'
  <2>1. /\ \A m \in Names : histMap[m] >= Null /\ histMap[m] \in Int
        /\ \A h \in 1 .. MaxHists : h > made => count[h] = 0
    BY DEF IInv, OwnerInv, Types
  <2>2. \A h \in 1 .. MaxHists : h > made' => count'[h] = 0 BY <1>2, <2>1
  <2>3. \A m \in Names : /\ histMap'[m] >= Null
                         /\ histMap'[m] = histMap[m] \/ (m = n /\ histMap'[m] = made + 1)
    BY <1>2, <1>4, <2>1 DEF Null
  <2>4. cached' = cached BY DEF tlVars
  <2> QED BY <1>1, <1>3, <1>6, <2>2, <2>3, <2>4, OwnerFrame
<1>9. ThreadInv'
  <2>1. Name(t)' = n BY <1>3 DEF Name
  <2>2. Head(call[t].todo) \in {"getOrCreate", "emplace"} BY <1>1 DEF Placed
  <2>3. Placed(t)' BY <1>2, <1>3, <2>2 DEF Placed
  <2>4. Found(t)' BY <1>2, <1>3, <1>4, <2>1 DEF Found
  <2>5. ThreadOK(t)' BY <1>1, <1>3, <2>1, <2>3, <2>4 DEF ThreadOK
  <2> QED BY <1>3, <1>7, <2>5, ThreadFrame
<1>10. CacheInv' BY <1>7, CacheFrame DEF tlVars
<1>11. ExportInv'
  <2> SUFFICES ASSUME NEW m \in Names \ forgotten'
               PROVE  /\ histMap'[m] <= 0 => strings'[m] = Absent /\ counters'[m] = Absent
                      /\ histMap'[m] > 0 => counters'[m] \in {Absent, histMap'[m]}
                      /\ histMap'[m] > 0 /\ strings'[m] # histMap'[m] =>
                            \E u \in Threads : Name(u)' = m /\ pc'[u] = "buckets"
    BY DEF ExportInv
  <2>1. m \notin forgotten /\ strings' = strings /\ counters' = counters
    BY DEF sumVars, exportVars
  <2>2. CASE m = n
    <3>1. counters[n] = Absent BY <1>1, <2>1, <2>2 DEF IInv, ExportInv, n
    <3>2. Name(t)' = m /\ pc'[t] = "buckets" BY <1>3, <2>2 DEF Name
    <3>3. histMap'[m] > 0 BY <1>2, <1>4, <2>2
    <3> QED BY <1>2, <1>4, <2>1, <2>2, <3>1, <3>2, <3>3
  <2>3. CASE m # n
    <3>1. \A u \in Threads : Name(u) = m /\ pc[u] = "buckets" =>
                                Name(u)' = m /\ pc'[u] = "buckets"
      BY <1>3 DEF Others, Name
    <3> QED BY <1>4, <2>1, <2>3, <3>1 DEF IInv, ExportInv
  <2> QED BY <2>2, <2>3
<1>12. NoValueAside'
  <2>1. count[made + 1] = 0 BY <1>2 DEF IInv, OwnerInv
  <2>2. histMap[n] <= 0 BY DEF n
  <2>3. ASSUME NEW m \in Names, m = n PROVE Held(m)' = Held(m)
    <3>1. ~(histMap[m] > 0) BY <1>1, <2>2, <2>3
    <3>2. histMap'[m] = made + 1 /\ histMap'[m] > 0 BY <1>2, <1>4, <2>3
    <3> QED BY <2>1, <3>1, <3>2 DEF Held
  <2>4. \A m \in Names : Held(m)' = Held(m) BY <1>4, <2>3 DEF Held
  <2> QED BY <1>6, <1>7, <2>4, SumFrame DEF sumVars, tlVars
<1>13. WrapperHasHistogram' BY DEF IInv, WrapperHasHistogram, sumVars, tlVars
<1> QED BY <1>6, <1>8, <1>9, <1>10, <1>11, <1>12, <1>13 DEF IInv

\* getOrCreateUnlocked() inserts, unless there is one by now.
LEMMA InsertIInv ==
  ASSUME IInv, NEW t \in Threads, Insert(t)
  PROVE  IInv'
<1>1. /\ pc[t] = "insert" /\ MapFree
      /\ UNCHANGED <<mapLock, count, exportVars, tlVars, sumVars>>
  BY DEF Insert
<1>2. Name(t) \in Names BY <1>1, AtWork
<1>3. CASE /\ histMap[Name(t)] = Absent /\ made < MaxHists /\ made' = made + 1
           /\ histMap' = [histMap EXCEPT ![Name(t)] = made'] /\ Stay(t, "buckets", made')
  <2>1. made \in Nat BY DEF IInv, Types
  <2>2. /\ Others(t) /\ pc'[t] = "buckets"
    BY <1>3, <2>1, StayFacts DEF IInv, Labels
  <2>3. \A n \in Names : histMap'[n] = Null <=> histMap[n] = Null
    BY <1>2, <1>3, <2>1 DEF IInv, Types, Null, Absent
  <2>4. LockInv' BY <1>1, <2>2, <2>3, LockFrame
  <2>5. mapLock' \in Threads \cup {None} /\ histMap[Name(t)] <= 0
    BY <1>1, <1>3 DEF IInv, Types, Absent
  <2> QED BY <1>1, <1>3, <2>4, <2>5, NewHistogram
<1>4. CASE histMap[Name(t)] # Absent /\ FoundOld(t) /\ UNCHANGED <<histMap, made>>
  <2>1. /\ UNCHANGED <<mapVars, exportVars, cached, crashed, sumVars>> /\ once' = once
        /\ UNCHANGED <<histMap, forgotten>>
    BY <1>1, <1>4 DEF mapVars, tlVars, sumVars
  <2>2. /\ Others(t) /\ calls' = calls /\ call' \in [Threads -> CallType]
        /\ pc' \in [Threads -> Labels] /\ pc'[t] \in {"idle", "piece"} /\ ThreadOK(t)'
        /\ \/ call'[t].item = 0
           \/ call'[t].name \in Names /\ histMap[call'[t].name] = call'[t].item
    BY <1>1, <1>4, <2>1, FoundOldOK
  <2>3. Types'
    BY <2>1, <2>2 DEF IInv, Types, mapVars, exportVars, sumVars, CallType, Labels
  <2> QED BY <1>1, <2>1, <2>2, <2>3, CallStep
<1> QED BY <1>3, <1>4 DEF Insert

\* addHistogram() makes the histogram it reserved the name for.
LEMMA MakeHistogramIInv ==
  ASSUME IInv, NEW t \in Threads, MakeHistogram(t)
  PROVE  IInv'
<1>1. /\ pc[t] = "make" /\ made < MaxHists /\ made' = made + 1 /\ mapLock' = None
      /\ histMap' = [histMap EXCEPT ![Name(t)] = made'] /\ Stay(t, "buckets", made')
      /\ UNCHANGED <<count, exportVars, tlVars, sumVars>>
  BY DEF MakeHistogram
<1>2. Name(t) \in Names /\ made \in Nat BY <1>1, AtWork DEF IInv, Types
<1>3. mapLock = t /\ mapLock # None /\ histMap[Name(t)] = Null
  BY <1>1, <1>2, HistogramAssumption DEF IInv, LockInv
<1>4. Others(t) /\ pc'[t] = "buckets" BY <1>1, <1>2, StayFacts DEF IInv, Labels
<1>5. LockInv'
  <2>1. \A u \in Threads : pc'[u] # "make" BY <1>3, <1>4 DEF Others, IInv, LockInv
  <2>2. \A n \in Names \ {Name(t)} : histMap[n] # Null BY <1>3 DEF IInv, LockInv
  <2>3. \A n \in Names : histMap'[n] # Null
    BY <1>1, <1>2, <2>2 DEF IInv, Types, Null
  <2> QED BY <1>1, <2>1, <2>3, HistogramAssumption DEF LockInv
<1>6. /\ histMap[Name(t)] <= 0 /\ mapLock' \in Threads \cup {None}
      /\ histMap' = [histMap EXCEPT ![Name(t)] = made + 1] /\ Stay(t, "buckets", made + 1)
  BY <1>1, <1>3 DEF Null
<1> QED BY <1>1, <1>5, <1>6, NewHistogram

\* addHistogram() reserves the name with a null pointer and keeps the lock.
LEMMA EmplaceNullIInv ==
  ASSUME IInv, NEW t \in Threads, EmplaceNull(t)
  PROVE  IInv'
<1> DEFINE n == Name(t)
<1>1. /\ pc[t] = "piece" /\ Head(call[t].todo) = "emplace" /\ MapFree
      /\ UNCHANGED <<made, count, exportVars, tlVars, sumVars>>
      /\ \/ Done(t) /\ UNCHANGED <<histMap, mapLock>>
         \/ /\ histMap[n] = Absent /\ histMap' = [histMap EXCEPT ![n] = Null]
            /\ mapLock' = t /\ Stay(t, "make", Absent)
  BY DEF EmplaceNull, At
<1>2. /\ n \in Names /\ n = call[t].name /\ call[t].todo \in Lists /\ histMap[n] \in Int
  BY <1>1, AtWork
<1>3. CASE Done(t) /\ UNCHANGED <<histMap, mapLock>>
  <2>1. /\ UNCHANGED <<mapVars, exportVars, cached, crashed, sumVars>> /\ once' = once
        /\ UNCHANGED <<histMap, forgotten>> /\ MapKept
    BY <1>1, <1>3 DEF mapVars, tlVars, sumVars, MapKept
  <2>2. /\ Others(t) /\ calls' = calls /\ call' \in [Threads -> CallType]
        /\ pc' \in [Threads -> Labels] /\ pc'[t] \in {"idle", "piece"} /\ ThreadOK(t)'
        /\ \/ call'[t].item = 0
           \/ call'[t].name = call[t].name /\ call'[t].item = call[t].item
    BY <1>1, <1>3, <2>1, DoneOK
  <2>3. Types'
    BY <2>1, <2>2 DEF IInv, Types, mapVars, exportVars, sumVars, CallType, Labels
  <2> QED BY <1>1, <2>1, <2>2, <2>3, CallStep
<1>4. CASE /\ histMap[n] = Absent /\ histMap' = [histMap EXCEPT ![n] = Null]
           /\ mapLock' = t /\ Stay(t, "make", Absent)
  <2>1. /\ Others(t) /\ calls' = calls /\ call' \in [Threads -> CallType]
        /\ pc' \in [Threads -> Labels] /\ pc'[t] = "make" /\ call'[t].name = n
        /\ call'[t].todo = call[t].todo /\ call'[t].item = 0
    BY <1>2, <1>4, StayFacts DEF IInv, Labels, Absent
  <2> HIDE DEF n
  <2>2. histMap'[n] = Null /\ \A m \in Names \ {n} : histMap'[m] = histMap[m]
    BY <1>2, <1>4 DEF IInv, Types
  <2>3. histMap' \in [Names -> Int] BY <1>2, <1>4 DEF IInv, Types, Null
  <2>4. Types'
    BY <1>1, <1>4, <2>1, <2>3 DEF IInv, Types, exportVars, tlVars, sumVars, CallType, Labels
  <2>5. MapKept BY <1>1, <1>4, <2>2 DEF MapKept, sumVars, Absent
  <2>6. OwnerInv'
    <3>1. \A m \in Names : /\ histMap'[m] >= Null
                           /\ histMap'[m] = histMap[m] \/ histMap'[m] <= 0
      BY <2>2 DEF IInv, OwnerInv, Null
    <3> QED BY <1>1, <1>2, <2>1, <2>4, <3>1, OwnerFrame DEF tlVars, IInv, OwnerInv
  <2>7. ThreadInv'
    <3>1. Name(t)' = n BY <2>1 DEF Name
    <3>2. call[t].todo \notin Sure BY <1>1, <1>2, ListFacts
    <3>3. ThreadOK(t)' BY <1>1, <1>2, <2>1, <3>1, <3>2 DEF ThreadOK, Placed, Found, Absent
    <3> QED BY <2>1, <2>5, <3>3, ThreadFrame
  <2>8. LockInv'
    <3>1. mapLock = None BY <1>1 DEF MapFree
    <3>2. \A u \in Threads \ {t} : pc'[u] # "make"
      BY <2>1, <3>1, HistogramAssumption DEF Others, IInv, LockInv
    <3>3. \A m \in Names : histMap[m] # Null BY <3>1 DEF IInv, LockInv
    <3>4. Name(t)' = n BY <2>1 DEF Name
    <3>5. Name(mapLock)' = n BY <1>4, <3>4 DEF Name
    <3>6. t # None BY HistogramAssumption
    <3> QED BY <1>4, <2>1, <2>2, <3>2, <3>3, <3>5, <3>6 DEF LockInv
  <2>9. CacheInv' BY <1>1, <2>5, CacheFrame DEF tlVars
  <2>10. ExportInv'
    <3>1. \A m \in Names : histMap[m] <= 0 => histMap'[m] <= 0 BY <2>2 DEF Null
    <3> QED BY <1>1, <2>1, <2>4, <2>5, <3>1, ExportFrame
  <2>11. NoValueAside'
    <3>1. \A m \in Names : Held(m)' = Held(m)
      BY <1>1, <1>4, <2>2 DEF Held, Null, Absent
    <3> QED BY <1>1, <2>4, <2>5, <3>1, SumFrame DEF sumVars, tlVars
  <2>12. WrapperHasHistogram' BY <1>1 DEF IInv, WrapperHasHistogram, sumVars, tlVars
  <2> QED BY <2>4, <2>6, <2>7, <2>8, <2>9, <2>10, <2>11, <2>12 DEF IInv
<1> QED BY <1>1, <1>3, <1>4

\* The constructor threw: SCOPE_FAIL takes the null pointer out again.
LEMMA MakeThrowsIInv ==
  ASSUME IInv, NEW t \in Threads, MakeThrows(t)
  PROVE  IInv'
<1> DEFINE n == Name(t)
<1>1. /\ pc[t] = "make" /\ histMap' = [histMap EXCEPT ![n] = Absent] /\ mapLock' = None
      /\ Go(t, <<>>) /\ UNCHANGED <<made, count, exportVars, tlVars, sumVars>>
  BY DEF MakeThrows
<1>2. n \in Names BY <1>1, AtWork
<1>3. /\ Others(t) /\ calls' = calls /\ call' \in [Threads -> CallType]
      /\ pc' \in [Threads -> Labels] /\ pc'[t] = "idle" /\ call'[t] = NoCall
  BY <1>1, GoFacts DEF IInv, Ends
<1>4. mapLock = t /\ mapLock # None /\ histMap[n] = Null
  BY <1>1, <1>2, HistogramAssumption DEF IInv, LockInv
<1>5. \A m \in Names \ {n} : histMap[m] # Null BY <1>4 DEF IInv, LockInv
<1> HIDE DEF n
<1>6. histMap'[n] = 0 /\ \A m \in Names \ {n} : histMap'[m] = histMap[m]
  BY <1>1, <1>2 DEF IInv, Types, Absent
<1>7. histMap' \in [Names -> Int] BY <1>1, <1>2 DEF IInv, Types, Absent
<1>8. Types'
  BY <1>1, <1>3, <1>7 DEF IInv, Types, exportVars, tlVars, sumVars, CallType, Labels
<1>9. MapKept BY <1>1, <1>4, <1>6 DEF MapKept, sumVars, Null
<1>10. OwnerInv'
  <2>1. \A m \in Names : /\ histMap'[m] >= Null
                         /\ histMap'[m] = histMap[m] \/ histMap'[m] <= 0
    BY <1>6 DEF IInv, OwnerInv, Null
  <2>2. call'[t].item = 0 BY <1>3 DEF NoCall, Absent
  <2> QED BY <1>1, <1>2, <1>3, <1>8, <2>1, <2>2, OwnerFrame DEF tlVars, IInv, OwnerInv
<1>11. ThreadInv'
  <2>1. ThreadOK(t)' BY <1>3 DEF ThreadOK
  <2> QED BY <1>3, <1>9, <2>1, ThreadFrame
<1>12. LockInv'
  <2>1. \A u \in Threads : pc'[u] # "make" BY <1>3, <1>4 DEF Others, IInv, LockInv
  <2>2. \A m \in Names : histMap'[m] # Null BY <1>5, <1>6 DEF Null
  <2> QED BY <1>1, <2>1, <2>2, HistogramAssumption DEF LockInv
<1>13. CacheInv' BY <1>1, <1>9, CacheFrame DEF tlVars
<1>14. ExportInv'
  <2>1. \A m \in Names : histMap[m] <= 0 => histMap'[m] <= 0 BY <1>6
  <2> QED BY <1>1, <1>3, <1>8, <1>9, <2>1, ExportFrame
<1>15. NoValueAside'
  <2>1. \A m \in Names : Held(m)' = Held(m) BY <1>1, <1>4, <1>6 DEF Held, Null
  <2> QED BY <1>1, <1>8, <1>9, <2>1, SumFrame DEF sumVars, tlVars
<1>16. WrapperHasHistogram' BY <1>1 DEF IInv, WrapperHasHistogram, sumVars, tlVars
<1> QED BY <1>8, <1>10, <1>11, <1>12, <1>13, <1>14, <1>15, <1>16 DEF IInv

\* Names are forgotten.
LEMMA ForgetIInv ==
  ASSUME IInv, NEW t \in Threads, NEW ns \in SUBSET Names, Forget(t, ns)
  PROVE  IInv'
<1>1. /\ pc[t] = "idle" /\ calls' = calls + 1 /\ MapFree
      /\ histMap' = [n \in Names |-> IF n \in ns THEN Absent ELSE histMap[n]]
      /\ forgotten' = forgotten \cup ns
      /\ UNCHANGED <<mapLock, made, count, exportVars, tlVars, call, pc, accepted, cleared>>
  BY DEF Forget
<1>2. Others(t) BY <1>1 DEF Others
<1>3. \A n \in Names : histMap'[n] = IF n \in ns THEN 0 ELSE histMap[n]
  BY <1>1 DEF Absent
<1>4. histMap' \in [Names -> Int] BY <1>1 DEF IInv, Types, Absent
<1>5. Types' BY <1>1, <1>4 DEF IInv, Types, exportVars, tlVars
<1>6. MapKept BY <1>1, <1>3 DEF MapKept
<1>7. OwnerInv'
  <2>1. CASE Names # {}
    <3>1. PICK m \in Names : TRUE BY <2>1
    <3>2. \A k \in Names : /\ histMap'[k] >= Null
                           /\ histMap'[k] = histMap[k] \/ histMap'[k] <= 0
      BY <1>3 DEF IInv, OwnerInv, Null
    <3> QED BY <1>1, <1>2, <1>5, <3>2, OwnerFrame DEF tlVars, IInv, OwnerInv
  <2>2. CASE Names = {} BY <1>1, <2>2 DEF IInv, OwnerInv
  <2> QED BY <2>1, <2>2
<1>8. ThreadInv'
  <2>1. ThreadOK(t)' BY <1>1 DEF IInv, ThreadInv, ThreadOK
  <2> QED BY <1>2, <1>6, <2>1, ThreadFrame
<1>9. LockInv'
  <2>1. \A n \in Names : histMap[n] # Null /\ histMap'[n] # Null
    BY <1>1, <1>3 DEF IInv, LockInv, MapFree, Null
  <2> QED BY <1>1, <1>2, <2>1, LockFrame
<1>10. CacheInv' BY <1>1, <1>6, CacheFrame DEF tlVars
<1>11. ExportInv'
  <2>1. \A n \in Names : histMap[n] <= 0 => histMap'[n] <= 0 BY <1>3
  <2> QED BY <1>1, <1>2, <1>5, <1>6, <2>1, ExportFrame
<1>12. NoValueAside'
  <2>1. \A n \in Names \ forgotten' : Held(n)' = Held(n) BY <1>1, <1>3 DEF Held
  <2> QED BY <1>1, <1>5, <1>6, <2>1, SumFrame DEF tlVars
<1>13. WrapperHasHistogram' BY <1>1 DEF IInv, WrapperHasHistogram, tlVars
<1> QED BY <1>5, <1>7, <1>8, <1>9, <1>10, <1>11, <1>12, <1>13 DEF IInv

-----------------------------------------------------------------------------
(***************************************************************************)
(* Histograms are used.                                                    *)
(***************************************************************************)
\* What holds of the map and the threads after a step that leaves the map alone.
LEMMA SameMap ==
  ASSUME IInv, NEW t \in Threads, Types', ThreadOK(t)', Others(t),
         UNCHANGED <<histMap, mapLock, made, forgotten>>,
         pc[t] # "make", pc'[t] # "make",
         \/ call'[t].item = 0
         \/ call'[t].name = call[t].name /\ call'[t].item = call[t].item,
         \A u \in Threads, n \in Names : \/ cached'[u][n].hist = cached[u][n].hist
                                         \/ Ref(n, cached'[u][n].hist),
         \A h \in 1 .. MaxHists : h > made => count'[h] = 0
  PROVE  MapKept /\ OwnerInv' /\ ThreadInv' /\ LockInv'
<1>1. MapKept BY DEF MapKept
<1>2. OwnerInv'
  <2>1. CASE Names # {}
    <3>1. PICK m \in Names : TRUE BY <2>1
    <3> QED BY OwnerFrame DEF IInv, OwnerInv
  <2>2. CASE Names = {} BY <2>2 DEF OwnerInv
  <2> QED BY <2>1, <2>2
<1>3. ThreadInv' BY <1>1, ThreadFrame
<1>4. LockInv' BY LockFrame
<1> QED BY <1>1, <1>2, <1>3, <1>4

\* Only the histogram h of name n changes: the other names' values stay.
LEMMA OtherNames ==
  ASSUME IInv, NEW n \in Names, NEW h \in Nat \ {0}, Ref(n, h), histMap' = histMap,
         \A k \in (1 .. MaxHists) \ {h} : count'[k] = count[k]
  PROVE  \A m \in Names \ {n} : Held(m)' = Held(m)
<1> SUFFICES ASSUME NEW m \in Names \ {n}, histMap[m] > 0
             PROVE  count'[histMap[m]] = count[histMap[m]]
  BY DEF Held
<1>1. histMap[m] \in Nat \ {0} /\ Ref(m, histMap[m]) BY DEF IInv, Types, Ref
<1>2. histMap[m] \in 1 .. MaxHists BY <1>1, OneOwner
<1>3. histMap[m] # h BY OneOwner
<1> QED BY <1>2, <1>3

\* The values of name n change as those added and cleared do.
LEMMA SumOfName ==
  ASSUME IInv, Types', UNCHANGED <<histMap, forgotten>>, NEW n \in Names,
         \A m \in Names \ {n} : /\ accepted'[m] = accepted[m] /\ cleared'[m] = cleared[m]
                                /\ Pending(m)' = Pending(m) /\ Held(m)' = Held(m),
         n \notin forgotten =>
            (accepted[n] - cleared[n] = Pending(n) + Held(n) =>
             accepted'[n] - cleared'[n] = Pending(n)' + Held(n)')
  PROVE  NoValueAside'
<1>1. \A m \in Names \ forgotten : accepted[m] - cleared[m] = Pending(m) + Held(m)
  BY DEF IInv, NoValueAside, Held
<1>2. \A m \in Names \ forgotten : accepted'[m] - cleared'[m] = Pending(m)' + Held(m)'
  BY <1>1
<1> QED BY <1>2 DEF NoValueAside, Held

\* exportBuckets(): the bucket callback of a new histogram.
LEMMA ExportBucketsIInv ==
  ASSUME IInv, NEW t \in Threads, ExportBuckets(t)
  PROVE  IInv'
<1>1. /\ pc[t] = "buckets" /\ strings' = [strings EXCEPT ![Name(t)] = call[t].item]
      /\ Done(t) /\ UNCHANGED <<histMap, mapLock, made, count, counters, forgotten>>
      /\ UNCHANGED <<tlVars, sumVars>>
  BY DEF ExportBuckets, mapVars, sumVars
<1>2. /\ Name(t) \in Names /\ call[t].item \in Nat /\ call[t].item > 0 /\ Found(t)
  BY <1>1, AtWork DEF Placed
<1>3. MapKept BY <1>1 DEF MapKept
<1>4. /\ Others(t) /\ calls' = calls /\ call' \in [Threads -> CallType]
      /\ pc' \in [Threads -> Labels] /\ pc'[t] \in {"idle", "piece"} /\ ThreadOK(t)'
      /\ \/ call'[t].item = 0
         \/ call'[t].name = call[t].name /\ call'[t].item = call[t].item
  BY <1>1, <1>2, <1>3, DoneOK
<1>5. Types'
  <2>1. strings' \in [Names -> Nat] BY <1>1, <1>2 DEF IInv, Types
  <2> QED BY <1>1, <1>4, <2>1 DEF IInv, Types, tlVars, sumVars, CallType, Labels
<1>6. OwnerInv' /\ ThreadInv' /\ LockInv'
  BY <1>1, <1>4, <1>5, SameMap DEF tlVars, IInv, OwnerInv
<1>7. CacheInv' BY <1>1, <1>3, CacheFrame DEF tlVars
<1>8. ExportInv'
  <2> SUFFICES ASSUME NEW n \in Names \ forgotten
               PROVE  /\ histMap[n] <= 0 => strings'[n] = Absent /\ counters[n] = Absent
                      /\ histMap[n] > 0 => counters[n] \in {Absent, histMap[n]}
                      /\ histMap[n] > 0 /\ strings'[n] # histMap[n] =>
                            \E u \in Threads : Name(u)' = n /\ pc'[u] = "buckets"
    BY <1>1 DEF ExportInv
  <2>1. CASE n = Name(t)
    <3>1. strings'[n] = call[t].item /\ histMap[n] = call[t].item
      BY <1>1, <1>2, <2>1 DEF IInv, Types, Found, Absent
    <3> QED BY <1>2, <3>1 DEF IInv, ExportInv
  <2>2. CASE n # Name(t)
    <3>1. strings'[n] = strings[n] BY <1>1, <2>2 DEF IInv, Types
    <3>2. \A u \in Threads : Name(u) = n /\ pc[u] = "buckets" =>
                                Name(u)' = n /\ pc'[u] = "buckets"
      BY <1>4, <2>2 DEF Others, Name
    <3> QED BY <3>1, <3>2 DEF IInv, ExportInv
  <2> QED BY <2>1, <2>2
<1>9. NoValueAside' BY <1>1, <1>3, <1>5, SumFrame DEF sumVars, tlVars, Held
<1>10. WrapperHasHistogram' BY <1>1 DEF IInv, WrapperHasHistogram, tlVars, sumVars
<1> QED BY <1>5, <1>6, <1>7, <1>8, <1>9, <1>10 DEF IInv

\* A thread uses the histogram it found.
LEMMA UseIInv ==
  ASSUME IInv, NEW t \in Threads, Use(t)
  PROVE  IInv'
<1>1. PICK n \in Names, h \in Nat : n = Name(t) /\ h = call[t].item
  <2>1. pc[t] # "idle" BY DEF Use
  <2> QED BY <2>1, AtWork
<1>2. /\ pc[t] = "use" /\ Done(t)
      /\ UNCHANGED <<histMap, mapLock, made, strings, forgotten>> /\ UNCHANGED tlVars
      /\ \/ /\ counters' = [counters EXCEPT ![n] = h] \/ counters' = [counters EXCEPT ![n] = Absent]
            /\ UNCHANGED <<count, accepted, cleared>>
         \/ /\ count' = [count EXCEPT ![h] = @ + 1]
            /\ accepted' = [accepted EXCEPT ![n] = @ + 1]
            /\ UNCHANGED <<counters, cleared>>
         \/ /\ count' = [count EXCEPT ![h] = 0]
            /\ cleared' = [cleared EXCEPT ![n] = @ + count[h]]
            /\ UNCHANGED <<counters, accepted>>
  BY <1>1 DEF Use
<1>3. /\ h > 0 /\ Ref(n, h) /\ (n \notin forgotten => histMap[n] = h)
      /\ Head(call[t].todo) # "getOrCreate"
  <2>1. pc[t] # "idle" BY <1>2
  <2>2. call[t].item > 0 /\ Head(call[t].todo) \in Finders
    BY <1>2, <2>1, AtWork DEF Placed
  <2> QED BY <1>1, <2>1, <2>2, AtWork DEF Found, Absent, Finders
<1>4. h \in Nat \ {0} /\ h \in 1 .. made /\ h \in 1 .. MaxHists
  BY <1>1, <1>3, OneOwner
<1>5. MapKept BY <1>2 DEF MapKept
<1>6. /\ Others(t) /\ calls' = calls /\ call' \in [Threads -> CallType]
      /\ pc' \in [Threads -> Labels] /\ pc'[t] \in {"idle", "piece"} /\ ThreadOK(t)'
      /\ \/ call'[t].item = 0
         \/ call'[t].name = call[t].name /\ call'[t].item = call[t].item
  BY <1>2, <1>3, <1>5, DoneOK
<1>7. /\ counters' \in [Names -> Nat] /\ accepted' \in [Names -> Nat]
      /\ cleared' \in [Names -> Nat] /\ count' \in [1 .. MaxHists -> Nat]
  <2>1. counters' \in [Names -> Nat] BY <1>2, <1>4 DEF IInv, Types, Absent
  <2>2. accepted[n] \in Nat /\ count[h] \in Nat /\ cleared[n] \in Nat
    BY <1>4 DEF IInv, Types
  <2>3. accepted[n] + 1 \in Nat /\ count[h] + 1 \in Nat /\ cleared[n] + count[h] \in Nat
    BY <2>2
  <2>4. accepted' \in [Names -> Nat] /\ cleared' \in [Names -> Nat]
    <3>1. accepted' = accepted \/ accepted' = [accepted EXCEPT ![n] = accepted[n] + 1]
      BY <1>2
    <3>2. cleared' = cleared \/ cleared' = [cleared EXCEPT ![n] = cleared[n] + count[h]]
      BY <1>2
    <3>3. accepted' \in [Names -> Nat] BY <2>3, <3>1 DEF IInv, Types
    <3>4. cleared' \in [Names -> Nat] BY <2>3, <3>2 DEF IInv, Types
    <3> QED BY <3>3, <3>4
  <2>5. count' \in [1 .. MaxHists -> Nat] BY <1>2, <2>3 DEF IInv, Types
  <2> QED BY <2>1, <2>4, <2>5
<1>8. Types' BY <1>2, <1>6, <1>7 DEF IInv, Types, tlVars, CallType, Labels
<1>9. \A k \in (1 .. MaxHists) \ {h} : count'[k] = count[k] BY <1>2 DEF IInv, Types
<1>10. OwnerInv' /\ ThreadInv' /\ LockInv'
  <2>1. \A k \in 1 .. MaxHists : k > made => count'[k] = 0
    BY <1>4, <1>9 DEF IInv, OwnerInv, Types
  <2> QED BY <1>2, <1>6, <1>8, <2>1, SameMap DEF tlVars
<1>11. CacheInv' BY <1>2, <1>5, CacheFrame DEF tlVars
<1>12. ExportInv'
  <2> SUFFICES ASSUME NEW m \in Names \ forgotten
               PROVE  /\ histMap[m] <= 0 => strings[m] = Absent /\ counters'[m] = Absent
                      /\ histMap[m] > 0 => counters'[m] \in {Absent, histMap[m]}
                      /\ histMap[m] > 0 /\ strings[m] # histMap[m] =>
                            \E u \in Threads : Name(u)' = m /\ pc'[u] = "buckets"
    BY <1>2 DEF ExportInv
  <2>1. counters'[m] = counters[m] \/ (m = n /\ counters'[m] \in {Absent, h})
    BY <1>2 DEF IInv, Types
  <2>2. \A u \in Threads : Name(u) = m /\ pc[u] = "buckets" =>
                              Name(u)' = m /\ pc'[u] = "buckets"
    BY <1>2, <1>6 DEF Others, Name
  <2>3. m = n => histMap[m] = h BY <1>3
  <2> QED BY <1>3, <1>4, <2>1, <2>2, <2>3 DEF IInv, ExportInv
<1>13. NoValueAside'
  <2>1. \A m \in Names : Pending(m)' = Pending(m)
    BY <1>2, <1>8, PendingNext DEF IInv, tlVars
  <2>2. \A m \in Names \ {n} : Held(m)' = Held(m) BY <1>2, <1>3, <1>4, <1>9, OtherNames
  <2>3. \A m \in Names \ {n} : accepted'[m] = accepted[m] /\ cleared'[m] = cleared[m]
    BY <1>2 DEF IInv, Types
  <2>4. ASSUME n \notin forgotten, accepted[n] - cleared[n] = Pending(n) + Held(n)
        PROVE  accepted'[n] - cleared'[n] = Pending(n)' + Held(n)'
    <3>1. Held(n) = count[h] /\ Held(n)' = count'[h] BY <1>2, <1>3, <2>4 DEF Held
    <3>2. Pending(n)' = Pending(n) BY <2>1
    <3>3. /\ accepted[n] \in Nat /\ cleared[n] \in Nat /\ count[h] \in Nat
          /\ Pending(n) \in Nat
      BY <1>4, PendingIs DEF IInv, Types
    <3>4. \/ accepted'[n] = accepted[n] /\ cleared'[n] = cleared[n] /\ count'[h] = count[h]
          \/ accepted'[n] = accepted[n] + 1 /\ cleared'[n] = cleared[n] /\ count'[h] = count[h] + 1
          \/ accepted'[n] = accepted[n] /\ cleared'[n] = cleared[n] + count[h] /\ count'[h] = 0
      BY <1>2, <1>4 DEF IInv, Types
    <3> QED BY <2>4, <3>1, <3>2, <3>3, <3>4
  <2> QED BY <1>2, <1>8, <2>1, <2>2, <2>3, <2>4, SumOfName
<1>14. WrapperHasHistogram' BY <1>2 DEF IInv, WrapperHasHistogram, tlVars
<1> QED BY <1>8, <1>10, <1>11, <1>12, <1>13, <1>14 DEF IInv

\* clearAllHistograms(): every histogram in the map.
LEMMA ClearAllIInv ==
  ASSUME IInv, NEW t \in Threads, ClearAllHistograms(t)
  PROVE  IInv'
<1>1. /\ pc[t] = "idle" /\ calls' = calls + 1 /\ MapFree
      /\ count' = [h \in DOMAIN count |->
                      IF \E n \in Names : histMap[n] = h THEN 0 ELSE count[h]]
      /\ cleared' = [n \in Names |->
                        cleared[n] + IF histMap[n] = Absent THEN 0 ELSE count[histMap[n]]]
      /\ UNCHANGED <<histMap, mapLock, made, call, pc, accepted, forgotten>>
      /\ UNCHANGED <<exportVars, tlVars>>
  BY DEF ClearAllHistograms
<1>2. Others(t) /\ MapKept BY <1>1 DEF Others, MapKept
<1>3. ASSUME NEW n \in Names
      PROVE  \/ histMap[n] = 0
             \/ histMap[n] > 0 /\ histMap[n] \in 1 .. MaxHists
  <2>1. histMap[n] \in Nat /\ Ref(n, histMap[n]) BY <1>1, FreeMap DEF Ref
  <2> QED BY <2>1, OneOwner
<1>4. \A n \in Names : /\ histMap[n] = 0 => cleared'[n] = cleared[n]
                       /\ histMap[n] > 0 => cleared'[n] = cleared[n] + count[histMap[n]]
  <2>1. \A n \in Names : cleared[n] \in Nat /\ histMap[n] \in Int BY DEF IInv, Types
  <2> QED BY <1>1, <2>1 DEF Absent
<1>5. \A k \in 1 .. MaxHists : count'[k] = IF \E n \in Names : histMap[n] = k THEN 0 ELSE count[k]
  BY <1>1 DEF IInv, Types
<1>6. count' \in [1 .. MaxHists -> Nat] BY <1>1 DEF IInv, Types
<1>7. cleared' \in [Names -> Nat]
  <2>1. /\ \A n \in Names : cleared[n] \in Nat
        /\ \A k \in 1 .. MaxHists : count[k] \in Nat
    BY DEF IInv, Types
  <2>2. \A n \in Names : cleared'[n] \in Nat BY <1>3, <1>4, <2>1
  <2> QED BY <1>1, <2>2
<1>8. Types' BY <1>1, <1>6, <1>7 DEF IInv, Types, exportVars, tlVars
<1>9. OwnerInv' /\ ThreadInv' /\ LockInv'
  <2>1. \A h \in 1 .. MaxHists : h > made => count'[h] = 0 BY <1>5 DEF IInv, OwnerInv
  <2>2. ThreadOK(t)' BY <1>1 DEF IInv, ThreadInv, ThreadOK
  <2> QED BY <1>1, <1>2, <1>8, <2>1, <2>2, SameMap DEF tlVars
<1>10. CacheInv' BY <1>1, <1>2, CacheFrame DEF tlVars
<1>11. ExportInv' BY <1>1, <1>2, <1>8, ExportFrame
<1>12. NoValueAside'
  <2> SUFFICES ASSUME NEW n \in Names \ forgotten
               PROVE  accepted[n] - cleared'[n] = Pending(n)' + Held(n)'
    BY <1>1 DEF NoValueAside, Held
  <2>1. Pending(n)' = Pending(n) BY <1>1, <1>8, PendingNext DEF IInv, tlVars
  <2>2. accepted[n] - cleared[n] = Pending(n) + Held(n) BY DEF IInv, NoValueAside, Held
  <2>3. accepted[n] \in Nat /\ cleared[n] \in Nat /\ Pending(n) \in Nat
    BY PendingIs DEF IInv, Types
  <2>4. CASE histMap[n] = 0
    <3>1. Held(n) = 0 /\ Held(n)' = 0 BY <1>1, <2>4 DEF Held
    <3> QED BY <1>4, <2>1, <2>2, <2>3, <2>4, <3>1
  <2>5. CASE histMap[n] > 0 /\ histMap[n] \in 1 .. MaxHists
    <3>1. Held(n) = count[histMap[n]] /\ Held(n)' = 0 BY <1>1, <1>5, <2>5 DEF Held
    <3>2. count[histMap[n]] \in Nat BY <2>5 DEF IInv, Types
    <3> QED BY <1>4, <2>1, <2>2, <2>3, <2>5, <3>1, <3>2
  <2> QED BY <1>3, <2>4, <2>5
<1>13. WrapperHasHistogram' BY <1>1 DEF IInv, WrapperHasHistogram, tlVars
<1> QED BY <1>8, <1>9, <1>10, <1>11, <1>12, <1>13 DEF IInv

-----------------------------------------------------------------------------
(***************************************************************************)
(* Thread-cached histograms.                                               *)
(***************************************************************************)
\* A value goes into the cache of t, on the histogram of its name.
LEMMA AddCachedFacts ==
  ASSUME IInv, NEW t \in Threads, NEW n \in Names, NEW h \in Nat, AddCached(t, n, h)
  PROVE  /\ cached' \in [Threads -> [Names -> Cache]] /\ accepted' \in [Names -> Nat]
         /\ cached'[t][n].hist = h /\ cached'[t][n].n = cached[t][n].n + 1
         /\ \A u \in Threads, m \in Names : u # t \/ m # n => cached'[u][m] = cached[u][m]
         /\ accepted'[n] = accepted[n] + 1
         /\ \A m \in Names \ {n} : accepted'[m] = accepted[m]
<1>1. /\ cached[t][n] \in Cache /\ cached[t][n].n \in Nat /\ accepted[n] \in Nat
  BY DEF IInv, Types, Cache
<1> DEFINE c == [hist |-> h, n |-> cached[t][n].n + 1]
<1>2. c \in Cache /\ c.hist = h /\ c.n = cached[t][n].n + 1 BY <1>1 DEF Cache
<1>3. cached' = [cached EXCEPT ![t][n] = c] BY DEF AddCached
<1> HIDE DEF c
<1>4. /\ cached' \in [Threads -> [Names -> Cache]] /\ cached'[t][n] = c
      /\ \A u \in Threads, m \in Names : u # t \/ m # n => cached'[u][m] = cached[u][m]
  BY <1>2, <1>3 DEF IInv, Types
<1>5. /\ accepted' \in [Names -> Nat] /\ accepted'[n] = accepted[n] + 1
      /\ \A m \in Names \ {n} : accepted'[m] = accepted[m]
  BY <1>1 DEF AddCached, IInv, Types
<1> QED BY <1>2, <1>4, <1>5

\* So it is counted, and on its way to the histogram in the map.
LEMMA AddCachedOK ==
  ASSUME IInv, Types', NEW t \in Threads, NEW n \in Names, NEW h \in Nat \ {0},
         AddCached(t, n, h), UNCHANGED <<histMap, forgotten, cleared, count, once>>,
         n \notin forgotten => histMap[n] = h
  PROVE  CacheInv' /\ NoValueAside'
<1>1. /\ cached'[t][n].hist = h /\ cached'[t][n].n = cached[t][n].n + 1
      /\ \A u \in Threads, m \in Names : u # t \/ m # n => cached'[u][m] = cached[u][m]
      /\ accepted'[n] = accepted[n] + 1
      /\ \A m \in Names \ {n} : accepted'[m] = accepted[m]
  BY AddCachedFacts
<1>2. CacheInv'
  <2>1. ASSUME NEW u \in Threads, NEW m \in Names
        PROVE  cached'[u][m].hist = Absent => cached'[u][m].n = 0
    BY <1>1 DEF IInv, CacheInv, Absent
  <2>2. ASSUME NEW m \in Names \ forgotten
        PROVE  /\ once[m] = "done" => histMap[m] > 0
               /\ \A u \in Threads : cached'[u][m].hist # Absent => histMap[m] = cached'[u][m].hist
    BY <1>1 DEF IInv, CacheInv
  <2> QED BY <2>1, <2>2 DEF CacheInv
<1>3. NoValueAside'
  <2>1. \A m \in Names \ {n} : Pending(m)' = Pending(m) BY <1>1, PendingNext DEF IInv
  <2>2. \A u \in Threads \ {t} : cached'[u][n].n = cached[u][n].n BY <1>1
  <2>3. Pending(n)' = Pending(n) + 1 BY <1>1, <2>2, PendingNext DEF IInv
  <2>4. \A m \in Names : Held(m)' = Held(m) BY DEF Held
  <2>5. accepted[n] \in Nat /\ cleared[n] \in Nat /\ Pending(n) \in Nat
    BY PendingIs DEF IInv, Types
  <2>6. n \notin forgotten => Held(n) \in Nat
    <3>1. Ref(n, histMap[n]) BY DEF Ref
    <3>2. n \notin forgotten => h \in 1 .. MaxHists BY <3>1, OneOwner
    <3> QED BY <3>2 DEF Held, IInv, Types
  <2>7. n \notin forgotten =>
            (accepted[n] - cleared[n] = Pending(n) + Held(n) =>
             accepted'[n] - cleared'[n] = Pending(n)' + Held(n)')
    <3>1. Held(n)' = Held(n) /\ cleared'[n] = cleared[n] BY <2>4
    <3> QED BY <1>1, <2>3, <2>5, <2>6, <3>1
  <2> QED BY <1>1, <2>1, <2>4, <2>7, SumOfName
<1> QED BY <1>2, <1>3

\* The histogram t has cached for a name is that of the name.
LEMMA CachedIs ==
  ASSUME IInv, NEW t \in Threads, NEW n \in Names, cached[t][n].hist # Absent
  PROVE  /\ cached[t][n].hist \in Nat \ {0} /\ Ref(n, cached[t][n].hist)
         /\ n \notin forgotten => histMap[n] = cached[t][n].hist
<1>1. cached[t][n].hist \in Nat BY DEF IInv, Types, Cache
<1> QED BY <1>1 DEF IInv, CacheInv, Ref, Absent

\* ThreadLocalStatsMap::addHistogramValue().
LEMMA AddHistogramValueIInv ==
  ASSUME IInv, NEW t \in Threads, NEW n \in Names, AddHistogramValue(t, n)
  PROVE  IInv'
<1>1. /\ pc[t] = "idle" /\ calls' = calls + 1
      /\ UNCHANGED <<mapVars, exportVars, once, crashed, call, pc, cleared, forgotten>>
      /\ UNCHANGED <<histMap, mapLock, made, count>>
  BY DEF AddHistogramValue, mapVars
<1>2. Others(t) /\ MapKept /\ ThreadOK(t)'
  BY <1>1 DEF Others, MapKept, IInv, ThreadInv, ThreadOK
<1>3. CASE UNCHANGED <<cached, accepted>>
  <2>1. Types' BY <1>1, <1>3 DEF IInv, Types, exportVars
  <2> QED BY <1>1, <1>2, <1>3, <2>1, CallStep DEF sumVars
<1>4. ASSUME NEW h \in Nat \ {0}, Ref(n, h), AddCached(t, n, h),
             n \notin forgotten => histMap[n] = h
      PROVE  IInv'
  <2>1. /\ cached' \in [Threads -> [Names -> Cache]] /\ accepted' \in [Names -> Nat]
        /\ cached'[t][n].hist = h
        /\ \A u \in Threads, m \in Names : u # t \/ m # n => cached'[u][m] = cached[u][m]
    BY <1>4, AddCachedFacts
  <2>2. Types'
    <3>1. calls' \in Nat BY <1>1 DEF IInv, Types
    <3>2. strings' = strings /\ counters' = counters BY <1>1 DEF exportVars
    <3> QED BY <1>1, <2>1, <3>1, <3>2 DEF IInv, Types
  <2>3. CacheInv' /\ NoValueAside' BY <1>1, <1>4, <2>2, AddCachedOK
  <2>4. OwnerInv' /\ ThreadInv' /\ LockInv'
    BY <1>1, <1>2, <1>4, <2>1, <2>2, SameMap DEF IInv, OwnerInv
  <2>5. ExportInv' BY <1>1, <1>2, <2>2, ExportFrame
  <2>6. WrapperHasHistogram' BY <1>1 DEF IInv, WrapperHasHistogram
  <2> QED BY <2>2, <2>3, <2>4, <2>5, <2>6 DEF IInv
<1>5. CASE cached[t][n].hist # Absent /\ AddCached(t, n, cached[t][n].hist)
  BY <1>4, <1>5, CachedIs
<1>6. CASE MapFree /\ histMap[n] # Absent /\ AddCached(t, n, histMap[n])
  <2>1. histMap[n] \in Nat \ {0} /\ Ref(n, histMap[n]) BY <1>6, FreeMap DEF Ref
  <2> QED BY <1>4, <1>6, <2>1
<1> QED BY <1>3, <1>5, <1>6 DEF AddHistogramValue

\* getHistogramSafe() and addValue() on what it returned.
LEMMA GetHistogramSafeIInv ==
  ASSUME IInv, NEW t \in Threads, GetHistogramSafe(t)
  PROVE  IInv'
<1>1. PICK n \in Names : n = Name(t)
  <2>1. pc[t] # "idle" BY DEF GetHistogramSafe, At
  <2> QED BY <2>1, AtWork
<1> DEFINE h == IF cached[t][n].hist # Absent THEN cached[t][n].hist ELSE histMap[n]
<1>2. /\ pc[t] = "piece" /\ Head(call[t].todo) = "get" /\ Done(t)
      /\ cached[t][n].hist = Absent => MapFree
      /\ \/ /\ h = Absent /\ crashed' = crashed \cup {n} /\ UNCHANGED <<cached, accepted>>
         \/ h # Absent /\ AddCached(t, n, h) /\ UNCHANGED crashed
      /\ UNCHANGED <<mapVars, exportVars, once, cleared, forgotten>>
      /\ UNCHANGED <<histMap, mapLock, made, count>>
  BY <1>1 DEF GetHistogramSafe, At, mapVars
<1>3. MapKept BY <1>2 DEF MapKept
<1>4. /\ Others(t) /\ calls' = calls /\ call' \in [Threads -> CallType]
      /\ pc' \in [Threads -> Labels] /\ pc'[t] \in {"idle", "piece"} /\ ThreadOK(t)'
      /\ \/ call'[t].item = 0
         \/ call'[t].name = call[t].name /\ call'[t].item = call[t].item
  BY <1>2, <1>3, DoneOK
<1>5. n \notin forgotten => histMap[n] > 0
  <2>1. Found(t) /\ call[t].todo \in Sure BY <1>2, AtWork, ListFacts
  <2> QED BY <1>1, <2>1 DEF Found
<1>6. /\ h # Absent => h \in Nat \ {0} /\ Ref(n, h) /\ (n \notin forgotten => histMap[n] = h)
      /\ h = Absent => cached[t][n].hist = Absent /\ histMap[n] = Absent
  <2>1. CASE cached[t][n].hist # Absent BY <2>1, CachedIs
  <2>2. CASE cached[t][n].hist = Absent
    <3>1. histMap[n] # Absent => histMap[n] \in Nat \ {0} /\ Ref(n, histMap[n])
      BY <1>2, <2>2, FreeMap DEF Ref, Absent
    <3> QED BY <2>2, <3>1
  <2> QED BY <2>1, <2>2
<1> HIDE DEF h
<1>7. CASE h = Absent /\ crashed' = crashed \cup {n} /\ UNCHANGED <<cached, accepted>>
  <2>1. Types' BY <1>2, <1>4, <1>7 DEF IInv, Types, exportVars, CallType, Labels
  <2>2. OwnerInv' /\ ThreadInv' /\ LockInv'
    BY <1>2, <1>4, <1>7, <2>1, SameMap DEF IInv, OwnerInv
  <2>3. CacheInv' BY <1>2, <1>3, <1>7, CacheFrame
  <2>4. ExportInv' BY <1>2, <1>3, <1>4, <2>1, ExportFrame
  <2>5. NoValueAside' BY <1>2, <1>3, <1>7, <2>1, SumFrame DEF Held
  <2>6. n \in forgotten BY <1>5, <1>6, <1>7 DEF Absent
  <2>7. WrapperHasHistogram' BY <1>2, <1>7, <2>6 DEF IInv, WrapperHasHistogram
  <2> QED BY <2>1, <2>2, <2>3, <2>4, <2>5, <2>7 DEF IInv
<1>8. CASE h # Absent /\ AddCached(t, n, h) /\ UNCHANGED crashed
  <2>1. /\ cached' \in [Threads -> [Names -> Cache]] /\ accepted' \in [Names -> Nat]
        /\ cached'[t][n].hist = h
        /\ \A u \in Threads, m \in Names : u # t \/ m # n => cached'[u][m] = cached[u][m]
    BY <1>6, <1>8, AddCachedFacts
  <2>2. Types' BY <1>2, <1>4, <1>8, <2>1 DEF IInv, Types, exportVars, CallType, Labels
  <2>3. CacheInv' /\ NoValueAside' BY <1>2, <1>6, <1>8, <2>2, AddCachedOK
  <2>4. OwnerInv' /\ ThreadInv' /\ LockInv'
    BY <1>2, <1>4, <1>6, <1>8, <2>1, <2>2, SameMap DEF IInv, OwnerInv
  <2>5. ExportInv' BY <1>2, <1>3, <1>4, <2>2, ExportFrame
  <2>6. WrapperHasHistogram' BY <1>2, <1>8 DEF IInv, WrapperHasHistogram
  <2> QED BY <2>2, <2>3, <2>4, <2>5, <2>6 DEF IInv
<1> QED BY <1>2, <1>7, <1>8

\* TLHistogram's constructor: on the histogram t has just found or made.
LEMMA AttachIInv ==
  ASSUME IInv, NEW t \in Threads, Attach(t)
  PROVE  IInv'
<1>1. PICK n \in Names, h \in Nat : n = Name(t) /\ h = call[t].item
  <2>1. pc[t] # "idle" BY DEF Attach, At
  <2> QED BY <2>1, AtWork
<1>2. /\ pc[t] = "piece" /\ Head(call[t].todo) = "attach" /\ Done(t)
      /\ cached' = [cached EXCEPT ![t][n] =
                       IF cached[t][n].hist = Absent THEN [hist |-> h, n |-> 0]
                                                     ELSE cached[t][n]]
      /\ UNCHANGED <<exportVars, once, crashed, sumVars>>
      /\ UNCHANGED <<histMap, mapLock, made, count, forgotten>>
  BY <1>1 DEF Attach, At, mapVars, sumVars
<1>3. h > 0 /\ Ref(n, h) /\ (n \notin forgotten => histMap[n] = h)
  BY <1>1, <1>2, AtWork DEF Placed, Found, Absent
<1>4. MapKept BY <1>2 DEF MapKept
<1>5. /\ Others(t) /\ calls' = calls /\ call' \in [Threads -> CallType]
      /\ pc' \in [Threads -> Labels] /\ pc'[t] \in {"idle", "piece"} /\ ThreadOK(t)'
      /\ \/ call'[t].item = 0
         \/ call'[t].name = call[t].name /\ call'[t].item = call[t].item
  BY <1>2, <1>4, DoneOK
<1> DEFINE new == [hist |-> h, n |-> 0]
           c == IF cached[t][n].hist = Absent THEN new ELSE cached[t][n]
<1>6. /\ c \in Cache /\ c.n = cached[t][n].n
      /\ c.hist \in {h, cached[t][n].hist} /\ c.hist # Absent
  <2>1. cached[t][n] \in Cache BY DEF IInv, Types
  <2>2. new \in Cache /\ new.hist = h /\ new.n = 0 BY DEF Cache
  <2>3. cached[t][n].hist = Absent => cached[t][n].n = 0 BY DEF IInv, CacheInv
  <2> QED BY <1>3, <2>1, <2>2, <2>3 DEF Absent
<1>7. cached' = [cached EXCEPT ![t][n] = c] BY <1>2
<1> HIDE DEF c, new
<1>8. /\ cached' \in [Threads -> [Names -> Cache]] /\ cached'[t][n] = c
      /\ \A u \in Threads, m \in Names : u # t \/ m # n => cached'[u][m] = cached[u][m]
  BY <1>6, <1>7 DEF IInv, Types
<1>9. Types' BY <1>2, <1>5, <1>8 DEF IInv, Types, exportVars, sumVars, CallType, Labels
<1>10. \A u \in Threads, m \in Names : \/ cached'[u][m].hist = cached[u][m].hist
                                       \/ u = t /\ m = n /\ cached'[u][m].hist = h
  BY <1>6, <1>8
<1>11. OwnerInv' /\ ThreadInv' /\ LockInv'
  <2>1. \A u \in Threads, m \in Names : \/ cached'[u][m].hist = cached[u][m].hist
                                        \/ Ref(m, cached'[u][m].hist)
    BY <1>3, <1>10
  <2> QED BY <1>2, <1>5, <1>9, <2>1, SameMap DEF IInv, OwnerInv
<1>12. CacheInv'
  <2>1. \A u \in Threads, m \in Names : cached'[u][m].hist = Absent => cached'[u][m].n = 0
    BY <1>6, <1>8 DEF IInv, CacheInv
  <2>2. ASSUME NEW m \in Names \ forgotten
        PROVE  /\ once[m] = "done" => histMap[m] > 0
               /\ \A u \in Threads : cached'[u][m].hist # Absent => histMap[m] = cached'[u][m].hist
    BY <1>3, <1>10 DEF IInv, CacheInv
  <2> QED BY <1>2, <2>1, <2>2 DEF CacheInv
<1>13. ExportInv' BY <1>2, <1>4, <1>5, <1>9, ExportFrame
<1>14. NoValueAside'
  <2>1. \A u \in Threads, m \in Names : cached'[u][m].n = cached[u][m].n BY <1>6, <1>8
  <2> QED BY <1>2, <1>4, <1>9, <2>1, SumFrame DEF Held, sumVars
<1>15. WrapperHasHistogram' BY <1>2 DEF IInv, WrapperHasHistogram
<1> QED BY <1>9, <1>11, <1>12, <1>13, <1>14, <1>15 DEF IInv

\* The values a thread has cached go to the histogram they were added to.
LEMMA AggregateIInv ==
  ASSUME IInv, NEW t \in Threads, NEW n \in Names, Aggregate(t, n)
  PROVE  IInv'
<1>1. PICK h \in Nat, k \in Nat : h = cached[t][n].hist /\ k = cached[t][n].n
  <2>1. cached[t][n] \in Cache BY DEF IInv, Types
  <2> QED BY <2>1 DEF Cache
<1>2. /\ k > 0 /\ count' = [count EXCEPT ![h] = @ + k]
      /\ cached' = [cached EXCEPT ![t][n].n = 0]
      /\ UNCHANGED <<histMap, mapLock, made, exportVars, once, crashed, sumVars, call, pc, calls>>
      /\ UNCHANGED <<forgotten, accepted, cleared>>
  BY <1>1 DEF Aggregate, sumVars
<1>3. /\ h \in Nat \ {0} /\ Ref(n, h) /\ (n \notin forgotten => histMap[n] = h)
  <2>1. cached[t][n].hist # Absent BY <1>1, <1>2 DEF IInv, CacheInv
  <2> QED BY <1>1, <2>1, CachedIs
<1>4. h \in 1 .. made /\ h \in 1 .. MaxHists BY <1>3, OneOwner
<1> DEFINE c == [cached[t][n] EXCEPT !.n = 0]
<1>5. c \in Cache /\ c.hist = h /\ c.n = 0
  <2>1. cached[t][n] \in Cache BY DEF IInv, Types
  <2> QED BY <1>1, <2>1 DEF Cache
<1>6. cached' = [cached EXCEPT ![t][n] = c] BY <1>2
<1> HIDE DEF c
<1>7. /\ cached' \in [Threads -> [Names -> Cache]] /\ cached'[t][n] = c
      /\ \A u \in Threads, m \in Names : u # t \/ m # n => cached'[u][m] = cached[u][m]
  BY <1>5, <1>6 DEF IInv, Types
<1>8. /\ count' \in [1 .. MaxHists -> Nat] /\ count[h] \in Nat /\ count'[h] = count[h] + k
      /\ \A j \in (1 .. MaxHists) \ {h} : count'[j] = count[j]
  <2>1. count[h] \in Nat BY <1>4 DEF IInv, Types
  <2>2. count[h] + k \in Nat BY <2>1
  <2> QED BY <1>2, <1>4, <2>1, <2>2 DEF IInv, Types
<1>9. Types' BY <1>2, <1>7, <1>8 DEF IInv, Types, exportVars, sumVars
<1>10. \A u \in Threads, m \in Names : cached'[u][m].hist = cached[u][m].hist
  BY <1>1, <1>5, <1>7
<1>11. Others(t) /\ ThreadOK(t)' /\ MapKept
  BY <1>2 DEF Others, MapKept, IInv, ThreadInv, ThreadOK, Placed, Found, Name
<1>12. OwnerInv' /\ ThreadInv' /\ LockInv'
  <2>1. \A j \in 1 .. MaxHists : j > made => count'[j] = 0
    BY <1>4, <1>8 DEF IInv, OwnerInv, Types
  <2>2. OwnerInv'
    BY <1>2, <1>9, <1>10, <1>11, <2>1, OwnerFrame DEF IInv, OwnerInv
  <2>3. ThreadInv' BY <1>11, ThreadFrame
  <2>4. LockInv'
    BY <1>2 DEF IInv, LockInv, Name
  <2> QED BY <2>2, <2>3, <2>4
<1>13. CacheInv'
  <2>1. \A u \in Threads, m \in Names : cached'[u][m].hist = Absent => cached'[u][m].n = 0
    BY <1>5, <1>7 DEF IInv, CacheInv
  <2> QED BY <1>2, <1>10, <2>1 DEF IInv, CacheInv
<1>14. ExportInv' BY <1>2 DEF IInv, ExportInv, exportVars, Name
<1>15. NoValueAside'
  <2>1. \A m \in Names \ {n} : Pending(m)' = Pending(m)
    BY <1>7, <1>9, PendingNext DEF IInv
  <2>2. \A u \in Threads \ {t} : cached'[u][n].n = cached[u][n].n BY <1>7
  <2>3. cached'[t][n].n = 0 BY <1>5, <1>7
  <2>4. Pending(n) = Pending(n)' + k BY <1>1, <1>9, <2>2, <2>3, PendingNext DEF IInv
  <2>5. \A m \in Names \ {n} : Held(m)' = Held(m) BY <1>2, <1>3, <1>8, OtherNames
  <2>6. Pending(n)' \in Nat
    <3>1. Types' => Pending(n)' \in Nat
      <4>1. ASSUME Types' PROVE Cached(n)' \in [Threads -> Nat]
        BY <4>1 DEF Cached, Types, Cache
      <4>2. Values(Cached(n)') = UNION {{u} \X (1 .. cached'[u][n].n) : u \in Threads}
        BY DEF Values, Cached
      <4> QED BY <4>1, <4>2, ValuesFinite DEF Pending
    <3> QED BY <1>9, <3>1
  <2>7. n \notin forgotten =>
            (accepted[n] - cleared[n] = Pending(n) + Held(n) =>
             accepted'[n] - cleared'[n] = Pending(n)' + Held(n)')
    <3>1. n \notin forgotten => Held(n) = count[h] /\ Held(n)' = count[h] + k
      BY <1>2, <1>3, <1>8 DEF Held
    <3>2. accepted'[n] = accepted[n] /\ cleared'[n] = cleared[n] BY <1>2
    <3>3. accepted[n] \in Nat /\ cleared[n] \in Nat BY DEF IInv, Types
    <3> QED BY <1>8, <2>4, <2>6, <3>1, <3>2, <3>3
  <2> QED BY <1>2, <1>9, <2>1, <2>5, <2>7, SumOfName
<1>16. WrapperHasHistogram' BY <1>2 DEF IInv, WrapperHasHistogram
<1> QED BY <1>9, <1>12, <1>13, <1>14, <1>15, <1>16 DEF IInv

-----------------------------------------------------------------------------
(***************************************************************************)
(* The invariant, and what it says.                                        *)
(***************************************************************************)
\* At the start nothing is there.
LEMMA InitIInv == Init => IInv
<1> SUFFICES ASSUME Init PROVE IInv
  OBVIOUS
<1> USE DEF Absent
<1>1. /\ \A n \in Names : /\ histMap[n] = 0 /\ strings[n] = 0 /\ counters[n] = 0
                          /\ once[n] = "new" /\ accepted[n] = 0 /\ cleared[n] = 0
      /\ \A t \in Threads : call[t] = NoCall /\ pc[t] = "idle" /\ call[t].item = 0
      /\ \A t \in Threads, n \in Names : cached[t][n].hist = 0 /\ cached[t][n].n = 0
  BY DEF Init, NoCall, NoCache
<1>2. Types
  <2>1. NoCall \in CallType /\ NoCache \in Cache BY DEF NoCall, CallType, NoCache, Cache
  <2>2. call \in [Threads -> CallType] /\ cached \in [Threads -> [Names -> Cache]]
    BY <2>1 DEF Init
  <2> QED BY <2>2, HistogramAssumption DEF Init, Types, CallType
<1>3. OwnerInv
  <2>1. \A n \in Names, h \in Nat \ {0} : ~Ref(n, h) BY <1>1 DEF Ref
  <2>2. \A h \in 1 .. MaxHists : count[h] = 0 BY DEF Init
  <2> QED BY <1>1, <2>1, <2>2 DEF OwnerInv, Null
<1>4. ThreadInv BY <1>1 DEF ThreadInv, ThreadOK
<1>5. LockInv
  <2>1. mapLock = None BY DEF Init
  <2> QED BY <1>1, <2>1, HistogramAssumption DEF LockInv, Null
<1>6. CacheInv BY <1>1 DEF CacheInv
<1>7. ExportInv BY <1>1 DEF ExportInv
<1>8. NoValueAside
  <2> SUFFICES ASSUME NEW n \in Names PROVE Pending(n) = 0
    BY <1>1 DEF NoValueAside
  <2>1. Values(Cached(n)) = {}
    <3>1. Cached(n) \in [Threads -> Nat] BY <1>2, PendingIs
    <3>2. \A t \in Threads : Cached(n)[t] = 0 BY <1>1 DEF Cached
    <3> QED BY <3>1, <3>2, ValuesAre
  <2> QED BY <1>2, <2>1, PendingIs, FS_EmptySet
<1>9. WrapperHasHistogram BY DEF Init, WrapperHasHistogram
<1> QED BY <1>2, <1>3, <1>4, <1>5, <1>6, <1>7, <1>8, <1>9 DEF IInv

\* Nothing happens.
LEMMA StutterIInv == IInv /\ UNCHANGED vars => IInv'
<1> SUFFICES ASSUME IInv, UNCHANGED vars PROVE IInv'
  OBVIOUS
<1> USE DEF vars, mapVars, exportVars, tlVars, sumVars
<1>1. Types' BY DEF IInv, Types
<1>2. OwnerInv' BY DEF IInv, OwnerInv, Ref, Name
<1>3. ThreadInv' BY DEF IInv, ThreadInv, ThreadOK, Placed, Found, Name
<1>4. LockInv' BY DEF IInv, LockInv, Name
<1>5. CacheInv' BY DEF IInv, CacheInv
<1>6. ExportInv' BY DEF IInv, ExportInv, Name
<1>7. NoValueAside' BY DEF IInv, NoValueAside, Pending
<1>8. WrapperHasHistogram' BY DEF IInv, WrapperHasHistogram
<1> QED BY <1>1, <1>2, <1>3, <1>4, <1>5, <1>6, <1>7, <1>8 DEF IInv

\* Every step keeps the invariant.
LEMMA NextIInv == IInv /\ [Next]_vars => IInv'
<1> SUFFICES ASSUME IInv, [Next]_vars PROVE IInv'
  OBVIOUS
<1>1. CASE UNCHANGED vars BY <1>1, StutterIInv
<1>2. ASSUME NEW t \in Threads, Step(t) PROVE IInv'
  BY <1>2, LookUpIInv, InsertIInv, EmplaceNullIInv, MakeHistogramIInv, MakeThrowsIInv,
     ExportBucketsIInv, FindIInv, UseIInv, AttachIInv, AppliedIInv, GetHistogramSafeIInv,
     AggregateIInv DEF Step
<1>3. ASSUME NEW t \in Threads, NEW ns \in {{n} : n \in Names} \cup {Names}, Forget(t, ns)
      PROVE  IInv'
  <2>1. ns \in SUBSET Names OBVIOUS
  <2> QED BY <1>3, <2>1, ForgetIInv
<1>4. CASE Next
  BY <1>2, <1>3, <1>4, CallMapIInv, AddHistogramValueIInv, WrapperAddIInv, ClearAllIInv
  DEF Next
<1> QED BY <1>1, <1>4

\* The map, what the threads found and cached in it, what is exported and the
\* values of each name agree in every reachable state, for any number of
\* threads, names, calls and histograms.
THEOREM HistogramInvariant == Spec => []IInv
  BY InitIInv, NextIInv, PTL DEF Spec

\* The null pointer addHistogram() reserves a name with (ExportedHistogramMap
\* .cpp:110) is never in the map while its lock is free, also when the
\* constructor throws.
THEOREM NullIsHidden == Spec => []NullHidden
<1>1. IInv => NullHidden BY DEF IInv, LockInv, NullHidden
<1> QED BY <1>1, HistogramInvariant, PTL

\* However many threads make the histogram of a name at the same time, and
\* whichever pointer each of them caches, every value is in the histogram in the
\* map or on its way there, until the name is forgotten.
THEOREM NoValueIsAside == Spec => []NoValueAside
<1>1. IInv => NoValueAside BY DEF IInv
<1> QED BY <1>1, HistogramInvariant, PTL

\* The exported callbacks read the histogram in the map, and the buckets are
\* exported once the call that made it has returned.
THEOREM ExportsFollow == Spec => []ExportsFollowMap
<1>1. IInv => ExportsFollowMap
  <2> SUFFICES ASSUME IInv, NEW n \in Names \ forgotten
               PROVE  /\ counters[n] \in {Absent, histMap[n]}
                      /\ strings[n] # histMap[n] =>
                            \/ histMap[n] = Null
                            \/ \E t \in Threads : Name(t) = n /\ pc[t] = "buckets"
    BY DEF ExportsFollowMap
  <2>1. histMap[n] \in Int /\ histMap[n] >= Null BY DEF IInv, Types, OwnerInv
  <2>2. histMap[n] > 0 \/ histMap[n] = 0 \/ histMap[n] = Null BY <2>1 DEF Null
  <2> QED BY <2>2 DEF IInv, ExportInv, Null, Absent
<1> QED BY <1>1, HistogramInvariant, PTL

\* HistogramWrapper::add() dereferences no null pointer, whoever applies the
\* spec, as long as the histogram is not forgotten.
THEOREM WrapperFinds == Spec => []WrapperHasHistogram
<1>1. IInv => WrapperHasHistogram BY DEF IInv
<1> QED BY <1>1, HistogramInvariant, PTL
=============================================================================
