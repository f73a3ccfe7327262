------------------------- MODULE ThreadCachedProofs -------------------------
(***************************************************************************)
(* Proofs about ThreadCachedServiceData, for any threads, callers, keys,   *)
(* subkeys, intervals and numbers of calls and objects.                    *)
(*                                                                         *)
(* The argument: a TLTimeseries that any cache of a thread points to is    *)
(* alive, of that thread and of the key it is cached under, since only one *)
(* that nothing points to is unlinked; so values go into an object that    *)
(* someone will sweep or flush.  A value is then followed from the object  *)
(* to a hand and to the exported statistic, and for zeroStats() through    *)
(* the stages of its sweep: what was added before the call is either out   *)
(* of reach, or zeroed, or still ahead of the sweep.                       *)
(***************************************************************************)
EXTENDS ThreadCachedServiceData, FiniteSetTheorems, TLAPS

Actors == Threads \cup Publishers
Objects == [thread : Threads, key : Keys, value : Nat]
ObjectsOK(o) == DOMAIN o \subseteq 1..MaxObjects /\ \A i \in DOMAIN o : o[i] \in Objects
Hands == [key : Keys, n : Nat] \cup {NoKey}
MapInv == /\ ObjectsOK(object) /\ hand \in [Actors -> Hands]
          /\ sum \in [Keys -> Nat] /\ added \in [Keys -> Nat]

\* What t has a pointer to is alive, of t and of key k.
Owned(t, k, i) == i \in DOMAIN object /\ object[i].thread = t /\ object[i].key = k
Holds(t) ==
    /\ DOMAIN named[t] \subseteq Keys
    /\ \A k \in DOMAIN named[t] : named[t][k] \in Entries /\ Owned(t, k, named[t][k].id)
    /\ wrapper[t] # Empty => DOMAIN wrapper[t] = {1} /\ Owned(t, FixedKey, wrapper[t][1].id)
    /\ DOMAIN local[t] \subseteq Subkeys
    /\ \A s \in DOMAIN local[t] : Owned(t, Format[s], local[t][s].id)
HoldInv == /\ DOMAIN named = Threads /\ DOMAIN wrapper = Threads /\ DOMAIN local = Threads
           /\ \A t \in Threads : Holds(t)

\* The last item found is in the local map, and is the one a call uses; what is
\* cached, flagged or about to be entered is exported.
Exported(k) == {k} \X Types \subseteq exports
Keyed(t) ==
    /\ last[t] # NoItem => /\ last[t].sub \in DOMAIN local[t]
                           /\ local[t][last[t].sub].id = last[t].id
    /\ pc[t] = "use" => last[t].sub = call[t].sub
    /\ pc[t] \in {"upgrade", "prepare", "emplace", "use"} => call[t].sub \in Subkeys
    /\ pc[t] = "emplace" => Exported(Format[call[t].sub])
    /\ DOMAIN local[t] \subseteq globalMap
    /\ \A k \in DOMAIN named[t] : {k} \X named[t][k].types \subseteq exports
KeyInv == /\ DOMAIN last = Threads /\ DOMAIN call = Threads /\ DOMAIN pc = Actors
          /\ \A s \in globalMap : s \in Subkeys /\ Exported(Format[s])
          /\ \A t \in Threads : Keyed(t)

\* Who has the upgrade lock is about to enter a subkey that is not there, and
\* no subkey has been prepared that is neither there nor about to be.
UpgradeInv ==
    /\ \A t \in Threads : /\ pc[t] \in {"prepare", "emplace"} <=> upgrader = t
                          /\ upgrader = t => call[t].sub \notin globalMap
    /\ prepared \in [Subkeys -> 0..1]
    /\ \A s \in Subkeys \ globalMap : prepared[s] = 1 =>
          \E t \in Threads : pc[t] = "emplace" /\ call[t].sub = s

\* The objects a sweep has still to visit are those of the thread it is in.
Visits == [by : Publishers \cup {None}, threads : SUBSET Threads, in : Threads \cup {None},
           objects : SUBSET (1..MaxObjects)]
SweepInv ==
    /\ listed \subseteq Threads /\ visit \in Visits
    /\ \A i \in visit.objects : i \in DOMAIN object /\ object[i].thread = visit.in
    /\ visit.by # None => /\ visit.threads \subseteq listed /\ visit.in \in listed \cup {None}
                          /\ pc[visit.by] \in {"publish", "publishThenZero"}
    /\ \A p \in Publishers : hand[p] # NoKey => visit.by = p

WorkerInv ==
    /\ \A a \in Callers : pc[a] = "join" <=> workerLock = a
    /\ workerLock # None => manager
    /\ manager /\ workerLock = None => worker = interval

\* Values of key k in objects o of threads ts or among ids, and in hands h of as.
ValuesOf(o, k, ts, ids) ==
    [i \in 1..MaxObjects |->
        IF i \in DOMAIN o /\ o[i].key = k /\ (o[i].thread \in ts \/ i \in ids)
        THEN o[i].value ELSE 0]
HandsOf(h, k, who) == [a \in Actors |-> IF a \in who /\ h[a].key = k THEN h[a].n ELSE 0]
Amount(o, k, ts, ids) == Total(ValuesOf(o, k, ts, ids))
HandAmount(h, k, who) == Total(HandsOf(h, k, who))

\* What was added before zeroStats() and is not zeroed: before the sweep of
\* zeroStats() reaches it, during that sweep, and after it.
Ahead(k) == carried[k] + sum[k] + InHand(k, Publishers) + Cached(k, listed)
During(k) == carried[k] + sum[k] + InHand(k, Publishers)
                 + Amount(object, k, visit.threads, visit.objects)
Zeroing(a) == pc[a] \in {"publishThenZero", "zero"}
ZeroInv ==
    /\ zeroing \subseteq Keys
    /\ zeroed \in [Keys -> Nat] /\ before \in [Keys -> Nat] /\ carried \in [Keys -> Nat]
    /\ \A a \in Callers : Zeroing(a) => zeroing # {} /\ \A b \in Callers : Zeroing(b) => a = b
    /\ zeroing = {} => \A k \in Keys : before[k] <= zeroed[k] + carried[k]
    /\ \A a \in Callers, k \in Keys :
        /\ pc[a] = "publishThenZero" => k \in zeroing
        /\ pc[a] = "publishThenZero" /\ visit.by # a => before[k] <= zeroed[k] + Ahead(k)
        /\ pc[a] = "publishThenZero" /\ visit.by = a => before[k] <= zeroed[k] + During(k)
        /\ pc[a] = "zero" /\ k \in zeroing => before[k] <= zeroed[k] + carried[k] + sum[k]
        /\ pc[a] = "zero" /\ k \notin zeroing => before[k] <= zeroed[k] + carried[k]

IInv == /\ MapInv /\ HoldInv /\ KeyInv /\ UpgradeInv /\ SweepInv /\ WorkerInv
        /\ ValuesConserved /\ ZeroInv

-----------------------------------------------------------------------------
(***************************************************************************)
(* Numbers of values, counted.                                             *)
(***************************************************************************)
Pairs(f) == UNION {{x} \X (1..f[x]) : x \in DOMAIN f}

\* A pair is in the set if its number is in range.
LEMMA PairsAre ==
  ASSUME NEW D, NEW f \in [D -> Nat]
  PROVE  Pairs(f) = {p \in D \X Nat : p[2] \in 1..f[p[1]]} /\ Total(f) = Cardinality(Pairs(f))
  BY DEF Pairs, Total

\* The set is finite.
LEMMA PairsFinite ==
  ASSUME NEW D, IsFiniteSet(D), NEW f \in [D -> Nat]
  PROVE  IsFiniteSet(Pairs(f)) /\ Total(f) \in Nat
<1> DEFINE part(x) == {x} \X (1..f[x])
           parts == {part(x) : x \in D}
<1>1. IsFiniteSet(parts)
  <2> DEFINE g == [x \in D |-> part(x)]
  <2>1. g \in Surjection(D, parts) BY DEF Surjection
  <2> HIDE DEF parts, g
  <2> QED BY <2>1, FS_Surjection
<1>2. \A T \in parts : IsFiniteSet(T)
  <2> SUFFICES ASSUME NEW x \in D PROVE IsFiniteSet(part(x))
    OBVIOUS
  <2>1. IsFiniteSet({x}) BY FS_Singleton
  <2>2. f[x] \in Int OBVIOUS
  <2>3. IsFiniteSet(1..f[x]) BY <2>2, FS_Interval
  <2> QED BY <2>1, <2>3, FS_Product
<1>3. IsFiniteSet(UNION parts)
  <2> HIDE DEF parts
  <2> QED BY <1>1, <1>2, FS_UNION
<1>4. UNION parts = Pairs(f) BY DEF Pairs
<1> QED BY <1>3, <1>4, FS_CardinalityType, PairsAre

\* Values divided among two maps.
LEMMA TotalDivided ==
  ASSUME NEW D, IsFiniteSet(D), NEW f \in [D -> Nat], NEW g \in [D -> Nat],
         NEW h \in [D -> Nat],
         \A x \in D : (f[x] = 0 /\ h[x] = g[x]) \/ (g[x] = 0 /\ h[x] = f[x])
  PROVE  Total(h) = Total(f) + Total(g)
<1>1. Pairs(h) = Pairs(f) \cup Pairs(g) /\ Pairs(f) \cap Pairs(g) = {}
  <2>1. /\ Pairs(f) = {p \in D \X Nat : p[2] \in 1..f[p[1]]}
        /\ Pairs(g) = {p \in D \X Nat : p[2] \in 1..g[p[1]]}
        /\ Pairs(h) = {p \in D \X Nat : p[2] \in 1..h[p[1]]}
    BY PairsAre
  <2>2. \A p \in D \X Nat : p \in Pairs(h) <=> p \in Pairs(f) \/ p \in Pairs(g) BY <2>1
  <2>3. \A p \in D \X Nat : ~(p \in Pairs(f) /\ p \in Pairs(g)) BY <2>1
  <2> HIDE DEF Pairs
  <2> QED BY <2>1, <2>2, <2>3
<1>2. /\ Total(f) = Cardinality(Pairs(f)) /\ Total(g) = Cardinality(Pairs(g))
      /\ Total(h) = Cardinality(Pairs(h))
  BY PairsAre
<1>3. /\ IsFiniteSet(Pairs(f)) /\ Total(f) \in Nat /\ IsFiniteSet(Pairs(g)) /\ Total(g) \in Nat
  BY PairsFinite
<1>4. Cardinality({}) = 0 BY FS_EmptySet
<1>5. Cardinality(Pairs(f) \cup Pairs(g)) =
          Cardinality(Pairs(f)) + Cardinality(Pairs(g)) - Cardinality(Pairs(f) \cap Pairs(g))
  BY <1>3, FS_Union
<1>6. Cardinality(Pairs(f) \cap Pairs(g)) = 0 BY <1>1, <1>4
<1>7. Total(h) = Cardinality(Pairs(f) \cup Pairs(g)) BY <1>1, <1>2
<1> QED BY <1>2, <1>3, <1>5, <1>6, <1>7

\* No values.
LEMMA TotalZero ==
  ASSUME NEW D, NEW f \in [D -> Nat], \A x \in D : f[x] = 0
  PROVE  Total(f) = 0
<1>1. Pairs(f) = {} BY PairsAre
<1> QED BY <1>1, PairsAre, FS_EmptySet

\* The values of one member of the domain.
LEMMA TotalOne ==
  ASSUME NEW D, NEW f \in [D -> Nat], NEW x \in D, \A y \in D \ {x} : f[y] = 0
  PROVE  Total(f) = f[x]
<1>1. PICK n \in Nat : n = f[x] OBVIOUS
<1>2. Pairs(f) = {x} \X (1..n) BY <1>1, PairsAre
<1>3. IsFiniteSet({x}) /\ Cardinality({x}) = 1 BY FS_Singleton
<1>4. Cardinality(1..n) = IF 1 > n THEN 0 ELSE n - 1 + 1 BY FS_Interval
<1>5. IsFiniteSet(1..n) /\ Cardinality(1..n) = n BY <1>4, FS_Interval
<1>6. Cardinality({x} \X (1..n)) = Cardinality({x}) * Cardinality(1..n)
  BY <1>3, <1>5, FS_Product
<1>7. Cardinality({x} \X (1..n)) = n BY <1>3, <1>5, <1>6
<1>8. Total(f) = Cardinality({x} \X (1..n)) BY <1>2, PairsAre
<1> QED BY <1>1, <1>7, <1>8

\* The number of values changes by what one member of the domain gains or loses.
LEMMA TotalPoint ==
  ASSUME NEW D, IsFiniteSet(D), NEW f \in [D -> Nat], NEW g \in [D -> Nat], NEW x \in D,
         \A y \in D \ {x} : f[y] = g[y]
  PROVE  Total(f) \in Nat /\ Total(g) \in Nat /\ Total(g) + f[x] = Total(f) + g[x]
<1> DEFINE rest == [y \in D |-> IF y = x THEN 0 ELSE f[y]]
           one(h) == [y \in D |-> IF y = x THEN h[y] ELSE 0]
<1>1. rest \in [D -> Nat] /\ one(f) \in [D -> Nat] /\ one(g) \in [D -> Nat] OBVIOUS
<1>2. Total(one(f)) = f[x] /\ Total(one(g)) = g[x]
  <2>1. \A y \in D \ {x} : one(f)[y] = 0 /\ one(g)[y] = 0 OBVIOUS
  <2>2. one(f)[x] = f[x] /\ one(g)[x] = g[x] OBVIOUS
  <2> HIDE DEF one
  <2> QED BY <1>1, <2>1, <2>2, TotalOne
<1>3. Total(f) = Total(rest) + Total(one(f))
  <2>1. \A y \in D : (rest[y] = 0 /\ f[y] = one(f)[y]) \/ (one(f)[y] = 0 /\ f[y] = rest[y])
    OBVIOUS
  <2> HIDE DEF rest, one
  <2> QED BY <1>1, <2>1, TotalDivided
<1>4. Total(g) = Total(rest) + Total(one(g))
  <2>1. \A y \in D : (rest[y] = 0 /\ g[y] = one(g)[y]) \/ (one(g)[y] = 0 /\ g[y] = rest[y])
    OBVIOUS
  <2> HIDE DEF rest, one
  <2> QED BY <1>1, <2>1, TotalDivided
<1>5. Total(rest) \in Nat /\ f[x] \in Nat /\ g[x] \in Nat
  <2> HIDE DEF rest
  <2> QED BY <1>1, PairsFinite
<1> HIDE DEF rest, one
<1> QED BY <1>2, <1>3, <1>4, <1>5

\* Members of the domain without values do not matter.
LEMMA TotalExtended ==
  ASSUME NEW D, NEW f \in [D -> Nat], NEW S, S \subseteq D, NEW g \in [S -> Nat],
         \A x \in S : f[x] = g[x], \A x \in D \ S : f[x] = 0
  PROVE  Total(f) = Total(g)
<1>1. Pairs(f) = {p \in D \X Nat : p[2] \in 1..f[p[1]]} BY PairsAre
<1>2. Pairs(g) = {p \in S \X Nat : p[2] \in 1..g[p[1]]} BY PairsAre
<1>3. \A p \in D \X Nat : p \in Pairs(f) <=> p \in Pairs(g) BY <1>1, <1>2
<1>4. Pairs(f) = Pairs(g)
  <2> HIDE DEF Pairs
  <2> QED BY <1>1, <1>2, <1>3
<1> QED BY <1>4, PairsAre

\* Objects and actors are finite in number.
LEMMA Domains == IsFiniteSet(1..MaxObjects) /\ IsFiniteSet(Actors)
<1>1. IsFiniteSet(1..MaxObjects) BY MapAssumption, FS_Interval
<1>2. IsFiniteSet({Worker}) BY FS_Singleton
<1>3. IsFiniteSet(Callers \cup {Worker}) BY <1>2, ActorAssumption, FS_Union
<1>4. IsFiniteSet(Actors) BY <1>3, ActorAssumption, FS_Union DEF Actors, Publishers
<1> QED BY <1>1, <1>4

\* What the objects hold is a number for each id.
LEMMA ValuesAre ==
  ASSUME NEW o, ObjectsOK(o), NEW k, NEW ts, NEW ids
  PROVE  /\ ValuesOf(o, k, ts, ids) \in [1..MaxObjects -> Nat]
         /\ Amount(o, k, ts, ids) \in Nat
<1>1. ValuesOf(o, k, ts, ids) \in [1..MaxObjects -> Nat] BY DEF ValuesOf, ObjectsOK, Objects
<1> QED BY <1>1, Domains, PairsFinite DEF Amount

\* And what the hands hold is one for each actor.
LEMMA HandsAre ==
  ASSUME NEW h \in [Actors -> Hands], NEW k, NEW who
  PROVE  /\ HandsOf(h, k, who) \in [Actors -> Nat]
         /\ HandAmount(h, k, who) \in Nat
<1>1. \A a \in Actors : h[a].n \in Nat BY DEF Hands, NoKey
<1>2. HandsOf(h, k, who) \in [Actors -> Nat] BY <1>1 DEF HandsOf
<1> QED BY <1>2, Domains, PairsFinite DEF HandAmount

\* Cached() is such a number.
LEMMA CachedIs ==
  ASSUME NEW o, ObjectsOK(o), NEW k, NEW ts
  PROVE  Total([i \in {j \in DOMAIN o : o[j].key = k /\ o[j].thread \in ts} |-> o[i].value])
             = Amount(o, k, ts, {})
<1> DEFINE S == {j \in DOMAIN o : o[j].key = k /\ o[j].thread \in ts}
           f == ValuesOf(o, k, ts, {})
           g == [i \in S |-> o[i].value]
<1>1. f \in [1..MaxObjects -> Nat] BY ValuesAre
<1>2. S \subseteq 1..MaxObjects /\ g \in [S -> Nat] BY DEF ObjectsOK, Objects
<1>3. (\A x \in S : f[x] = g[x]) /\ (\A x \in (1..MaxObjects) \ S : f[x] = 0)
  BY DEF ValuesOf, ObjectsOK
<1>4. Total(f) = Total(g)
  <2> HIDE DEF f, g, S
  <2>1. PICK D : D = 1..MaxObjects OBVIOUS
  <2>2. /\ f \in [D -> Nat] /\ S \subseteq D /\ g \in [S -> Nat]
        /\ (\A x \in S : f[x] = g[x]) /\ (\A x \in D \ S : f[x] = 0)
    BY <1>1, <1>2, <1>3, <2>1
  <2> QED BY ONLY <2>2, TotalExtended
<1> QED BY <1>4 DEF Amount

\* And so is InHand().
LEMMA InHandIs ==
  ASSUME NEW h \in [Actors -> Hands], NEW k, NEW who, who \subseteq Actors
  PROVE  Total([a \in {b \in who : h[b].key = k} |-> h[a].n]) = HandAmount(h, k, who)
<1> DEFINE S == {b \in who : h[b].key = k}
           f == HandsOf(h, k, who)
           g == [a \in S |-> h[a].n]
<1>1. f \in [Actors -> Nat] BY HandsAre
<1>2. \A a \in Actors : h[a].n \in Nat BY DEF Hands, NoKey
<1>3. S \subseteq Actors /\ g \in [S -> Nat] BY <1>2
<1>4. (\A x \in S : f[x] = g[x]) /\ (\A x \in Actors \ S : f[x] = 0) BY DEF HandsOf
<1>5. Total(f) = Total(g)
  <2> HIDE DEF f, g, S
  <2> QED BY <1>1, <1>3, <1>4, TotalExtended
<1> QED BY <1>5 DEF HandAmount

\* The properties speak of these numbers.
LEMMA Amounts ==
  ASSUME MapInv, NEW k \in Keys
  PROVE  /\ \A ts : Cached(k, ts) = Amount(object, k, ts, {})
         /\ \A who : who \subseteq Actors => InHand(k, who) = HandAmount(hand, k, who)
         /\ DOMAIN hand = Actors
         /\ \A ts, ids : Amount(object, k, ts, ids) \in Nat
         /\ \A who : HandAmount(hand, k, who) \in Nat
<1>1. ObjectsOK(object) /\ hand \in [Actors -> Hands] BY DEF MapInv
<1>2. \A ts : Cached(k, ts) = Amount(object, k, ts, {}) BY <1>1, CachedIs DEF Cached
<1>3. \A who : who \subseteq Actors => InHand(k, who) = HandAmount(hand, k, who)
  BY <1>1, InHandIs DEF InHand
<1> QED BY <1>1, <1>2, <1>3, ValuesAre, HandsAre

\* After a step too.
LEMMA AmountsNext ==
  ASSUME MapInv', NEW k \in Keys
  PROVE  /\ Cached(k, Threads)' = Amount(object', k, Threads, {})
         /\ Cached(k, listed)' = Amount(object', k, listed', {})
         /\ InHand(k, Publishers)' = HandAmount(hand', k, Publishers)
         /\ InHand(k, DOMAIN hand)' = HandAmount(hand', k, Actors)
         /\ \A t \in Threads : InHand(k, {t})' = HandAmount(hand', k, {t})
         /\ \A ts, ids : Amount(object', k, ts, ids) \in Nat
         /\ \A who : HandAmount(hand', k, who) \in Nat
<1>1. ObjectsOK(object') /\ hand' \in [Actors -> Hands] BY DEF MapInv, ObjectsOK
<1>2. Cached(k, Threads)' = Amount(object', k, Threads, {}) BY <1>1, CachedIs DEF Cached
<1>3. Cached(k, listed)' = Amount(object', k, listed', {}) BY <1>1, CachedIs DEF Cached
<1>4. InHand(k, Publishers)' = HandAmount(hand', k, Publishers)
  BY <1>1, InHandIs DEF InHand, Actors
<1>5. InHand(k, DOMAIN hand)' = HandAmount(hand', k, Actors)
  <2>1. DOMAIN hand' = Actors BY <1>1
  <2>2. InHand(k, DOMAIN hand)' =
           Total([a \in {b \in DOMAIN hand' : hand'[b].key = k} |-> hand'[a].n])
    BY DEF InHand
  <2> QED BY <1>1, <2>1, <2>2, InHandIs
<1>6. ASSUME NEW t \in Threads PROVE InHand(k, {t})' = HandAmount(hand', k, {t})
  BY <1>1, InHandIs DEF InHand, Actors
<1> QED BY <1>1, <1>2, <1>3, <1>4, <1>5, <1>6, ValuesAre, HandsAre

-----------------------------------------------------------------------------
(***************************************************************************)
(* How the numbers change with the objects and the hands.                  *)
(***************************************************************************)
Covered(o, i, k, ts, ids) == o[i].key = k /\ (o[i].thread \in ts \/ i \in ids)

\* Objects q are objects o but for object i, which has got n values.
WithMore(o, q, t, k, i, n) ==
    /\ i \in 1..MaxObjects /\ DOMAIN q = DOMAIN o \cup {i}
    /\ i \in DOMAIN o => o[i].thread = t /\ o[i].key = k
    /\ q[i] = [thread |-> t, key |-> k, value |-> (IF i \in DOMAIN o THEN o[i].value ELSE 0) + n]
    /\ \A j \in DOMAIN o \ {i} : q[j] = o[j]

\* Objects q are objects o without the values of object i, and without it.
Emptied(o, q, i) ==
    /\ i \in DOMAIN o /\ DOMAIN q = DOMAIN o
    /\ q[i] = [thread |-> o[i].thread, key |-> o[i].key, value |-> 0]
    /\ \A j \in DOMAIN o \ {i} : q[j] = o[j]
Dropped(o, q, i) ==
    /\ i \in DOMAIN o /\ DOMAIN q = DOMAIN o \ {i} /\ o[i].value = 0
    /\ \A j \in DOMAIN q : q[j] = o[j]

\* Values are added to an object.
LEMMA AmountMore ==
  ASSUME NEW o, NEW q, ObjectsOK(o), ObjectsOK(q), NEW t, NEW kk, NEW i, NEW n \in Nat,
         WithMore(o, q, t, kk, i, n), NEW k, NEW ts, NEW ids
  PROVE  Amount(q, k, ts, ids) = Amount(o, k, ts, ids)
                                    + IF kk = k /\ (t \in ts \/ i \in ids) THEN n ELSE 0
<1> DEFINE f == ValuesOf(o, k, ts, ids)
           g == ValuesOf(q, k, ts, ids)
           d == IF kk = k /\ (t \in ts \/ i \in ids) THEN n ELSE 0
<1>1. f \in [1..MaxObjects -> Nat] /\ g \in [1..MaxObjects -> Nat] BY ValuesAre
<1>2. \A y \in (1..MaxObjects) \ {i} : f[y] = g[y] BY DEF ValuesOf, WithMore
<1>3. i \in 1..MaxObjects BY DEF WithMore
<1>4. g[i] = f[i] + d
  <2>1. /\ q[i].thread = t /\ q[i].key = kk
        /\ q[i].value = (IF i \in DOMAIN o THEN o[i].value ELSE 0) + n
        /\ i \in DOMAIN q /\ (i \in DOMAIN o => o[i].thread = t /\ o[i].key = kk)
    BY DEF WithMore
  <2>2. i \in DOMAIN o => o[i].value \in Nat BY DEF ObjectsOK, Objects
  <2> QED BY <1>3, <2>1, <2>2 DEF ValuesOf
<1>5. d \in Nat OBVIOUS
<1> HIDE DEF f, g, d
<1>6. Total(f) \in Nat /\ Total(g) \in Nat /\ Total(g) + f[i] = Total(f) + g[i]
  BY <1>1, <1>2, <1>3, Domains, TotalPoint
<1>7. Total(g) = Total(f) + d
  <2>1. f[i] \in Nat BY <1>1, <1>3
  <2> QED BY <1>4, <1>5, <1>6, <2>1
<1> QED BY <1>7 DEF f, g, d, Amount

\* The values of an object are taken.
LEMMA AmountEmptied ==
  ASSUME NEW o, NEW q, ObjectsOK(o), ObjectsOK(q), NEW i, Emptied(o, q, i),
         NEW k, NEW ts, NEW ids
  PROVE  Amount(o, k, ts, ids) = Amount(q, k, ts, ids)
                                    + IF Covered(o, i, k, ts, ids) THEN o[i].value ELSE 0
<1> DEFINE f == ValuesOf(o, k, ts, ids)
           g == ValuesOf(q, k, ts, ids)
           d == IF Covered(o, i, k, ts, ids) THEN o[i].value ELSE 0
<1>1. f \in [1..MaxObjects -> Nat] /\ g \in [1..MaxObjects -> Nat] BY ValuesAre
<1>2. \A y \in (1..MaxObjects) \ {i} : f[y] = g[y] BY DEF ValuesOf, Emptied
<1>3. i \in 1..MaxObjects BY DEF Emptied, ObjectsOK
<1>4. g[i] = 0 /\ f[i] = d BY <1>3 DEF ValuesOf, Emptied, Covered
<1> HIDE DEF f, g, d
<1>5. Total(f) \in Nat /\ Total(g) \in Nat /\ Total(g) + f[i] = Total(f) + g[i]
  BY <1>1, <1>2, <1>3, Domains, TotalPoint
<1>6. Total(f) = Total(g) + d
  <2>1. f[i] \in Nat BY <1>1, <1>3
  <2> QED BY <1>4, <1>5, <2>1
<1> QED BY <1>6 DEF f, g, d, Amount

\* An object without values goes.
LEMMA AmountDropped ==
  ASSUME NEW o, NEW q, NEW i, Dropped(o, q, i), NEW k, NEW ts, NEW ids
  PROVE  Amount(q, k, ts, ids) = Amount(o, k, ts, ids)
<1>1. ValuesOf(q, k, ts, ids) = ValuesOf(o, k, ts, ids) BY DEF ValuesOf, Dropped
<1> QED BY <1>1 DEF Amount

\* Nothing is ahead of a sweep that is through.
LEMMA AmountSwept ==
  ASSUME NEW o, ObjectsOK(o), NEW k
  PROVE  Amount(o, k, {}, {}) = 0
<1>1. ValuesOf(o, k, {}, {}) \in [1..MaxObjects -> Nat] BY ValuesAre
<1>2. \A x \in 1..MaxObjects : ValuesOf(o, k, {}, {})[x] = 0 BY DEF ValuesOf
<1> QED BY <1>1, <1>2, TotalZero DEF Amount

\* A sweep that comes to a thread has the objects of that thread ahead of it.
LEMMA AmountVisited ==
  ASSUME NEW o, NEW k, NEW ts, NEW t, t \in ts
  PROVE  Amount(o, k, ts \ {t}, {i \in DOMAIN o : o[i].thread = t}) = Amount(o, k, ts, {})
<1>1. ValuesOf(o, k, ts \ {t}, {i \in DOMAIN o : o[i].thread = t}) = ValuesOf(o, k, ts, {})
  BY DEF ValuesOf
<1> QED BY <1>1 DEF Amount

\* A sweep passes an object without values.
LEMMA AmountPassed ==
  ASSUME NEW o, NEW k, NEW ts, NEW ids, NEW i, i \in DOMAIN o, o[i].value = 0
  PROVE  Amount(o, k, ts, ids \ {i}) = Amount(o, k, ts, ids)
<1>1. ValuesOf(o, k, ts, ids \ {i}) = ValuesOf(o, k, ts, ids) BY DEF ValuesOf
<1> QED BY <1>1 DEF Amount

\* The objects of two sets of threads.
LEMMA AmountDivided ==
  ASSUME NEW o, ObjectsOK(o), NEW k, NEW ts, NEW us, ts \cap us = {}
  PROVE  Amount(o, k, ts \cup us, {}) = Amount(o, k, ts, {}) + Amount(o, k, us, {})
<1> DEFINE f == ValuesOf(o, k, ts, {})
           g == ValuesOf(o, k, us, {})
           h == ValuesOf(o, k, ts \cup us, {})
<1>1. /\ f \in [1..MaxObjects -> Nat] /\ g \in [1..MaxObjects -> Nat]
      /\ h \in [1..MaxObjects -> Nat]
  BY ValuesAre
<1>2. \A x \in 1..MaxObjects : (f[x] = 0 /\ h[x] = g[x]) \/ (g[x] = 0 /\ h[x] = f[x])
  BY DEF ValuesOf
<1> HIDE DEF f, g, h
<1>3. IsFiniteSet(1..MaxObjects) BY Domains
<1>4. Total(h) = Total(f) + Total(g)
  <2>1. PICK D : D = 1..MaxObjects OBVIOUS
  <2>2. /\ IsFiniteSet(D) /\ f \in [D -> Nat] /\ g \in [D -> Nat] /\ h \in [D -> Nat]
        /\ \A x \in D : (f[x] = 0 /\ h[x] = g[x]) \/ (g[x] = 0 /\ h[x] = f[x])
    BY <1>1, <1>2, <1>3, <2>1
  <2> QED BY ONLY <2>2, TotalDivided
<1> QED BY <1>4 DEF f, g, h, Amount

\* One hand takes or gives.
LEMMA HandChanges ==
  ASSUME NEW h \in [Actors -> Hands], NEW g \in [Actors -> Hands], NEW a \in Actors,
         \A b \in Actors \ {a} : g[b] = h[b], NEW k, NEW who
  PROVE  HandAmount(g, k, who) + (IF a \in who /\ h[a].key = k THEN h[a].n ELSE 0)
             = HandAmount(h, k, who) + IF a \in who /\ g[a].key = k THEN g[a].n ELSE 0
<1> DEFINE x == HandsOf(h, k, who)
           y == HandsOf(g, k, who)
<1>1. x \in [Actors -> Nat] /\ y \in [Actors -> Nat] BY HandsAre
<1>2. \A b \in Actors \ {a} : x[b] = y[b] BY DEF HandsOf
<1>3. /\ x[a] = IF a \in who /\ h[a].key = k THEN h[a].n ELSE 0
      /\ y[a] = IF a \in who /\ g[a].key = k THEN g[a].n ELSE 0
  BY DEF HandsOf
<1> HIDE DEF x, y
<1>4. Total(y) + x[a] = Total(x) + y[a]
  <2>1. IsFiniteSet(Actors) BY Domains
  <2>2. a \in Actors OBVIOUS
  <2> QED BY ONLY <1>1, <1>2, <2>1, <2>2, TotalPoint
<1> QED BY <1>3, <1>4 DEF x, y, HandAmount

\* Hands that are empty, and those of two sets of actors.
LEMMA HandsDivided ==
  ASSUME NEW h \in [Actors -> Hands], NEW k
  PROVE  /\ \A who : who \subseteq Actors /\ (\A a \in who : h[a] = NoKey)
                       => HandAmount(h, k, who) = 0
         /\ HandAmount(h, k, Actors) = HandAmount(h, k, Threads) + HandAmount(h, k, Publishers)
<1>1. ASSUME NEW who, who \subseteq Actors, \A a \in who : h[a] = NoKey
      PROVE  HandAmount(h, k, who) = 0
  <2>1. HandsOf(h, k, who) \in [Actors -> Nat] BY HandsAre
  <2>0. NoKey.n = 0 BY DEF NoKey
  <2>2. \A a \in who : h[a].n = 0 BY <1>1, <2>0
  <2>3. \A a \in Actors : HandsOf(h, k, who)[a] = 0 BY <2>2 DEF HandsOf
  <2> QED BY <2>1, <2>3, TotalZero DEF HandAmount
<1>2. HandAmount(h, k, Actors) = HandAmount(h, k, Threads) + HandAmount(h, k, Publishers)
  <2> DEFINE f == HandsOf(h, k, Threads)
             g == HandsOf(h, k, Publishers)
             e == HandsOf(h, k, Actors)
  <2>1. f \in [Actors -> Nat] /\ g \in [Actors -> Nat] /\ e \in [Actors -> Nat] BY HandsAre
  <2>2. \A x \in Actors : x \in Threads <=> x \notin Publishers
    BY ActorAssumption DEF Actors, Publishers
  <2>3. \A x \in Actors : (f[x] = 0 /\ e[x] = g[x]) \/ (g[x] = 0 /\ e[x] = f[x])
    BY <2>2 DEF HandsOf
  <2> HIDE DEF f, g, e
  <2>4. IsFiniteSet(Actors) BY Domains
  <2>5. Total(e) = Total(f) + Total(g) BY ONLY <2>1, <2>3, <2>4, TotalDivided
  <2> QED BY <2>5 DEF f, g, e, HandAmount
<1> QED BY <1>1, <1>2

-----------------------------------------------------------------------------
(***************************************************************************)
(* What the operations on objects and maps do.                             *)
(***************************************************************************)
\* The entry tryInsertLocked() returns has an object of t and k, or a free id.
LEMMA InsertIs ==
  ASSUME IInv, NEW t \in Threads, NEW k \in Keys, NEW e \in Entries, TryInsertLocked(t, k, e)
  PROVE  /\ e.id \in 1..MaxObjects /\ e.types \subseteq Types
         /\ e.id \in DOMAIN object => Owned(t, k, e.id)
         /\ {k} \X e.types \subseteq exports
<1>1. e.id \in 1..MaxObjects /\ e.types \subseteq Types BY DEF Entries
<1>2. CASE k \in DOMAIN named[t]
  <2>1. e = named[t][k] BY <1>2 DEF TryInsertLocked
  <2> QED BY <1>1, <1>2, <2>1 DEF IInv, HoldInv, Holds, KeyInv, Keyed
<1>3. CASE k \notin DOMAIN named[t]
  <2>1. FreeIds # {} /\ e = [id |-> CHOOSE i \in FreeIds : TRUE, types |-> {}]
    BY <1>3 DEF TryInsertLocked
  <2>2. (CHOOSE i \in FreeIds : TRUE) \in FreeIds BY <2>1
  <2>3. e.id \in FreeIds /\ e.types = {} BY <2>1, <2>2
  <2> QED BY <1>1, <2>3 DEF FreeIds
<1> QED BY <1>2, <1>3

\* The object of an entry after n values were added to it.
LEMMA UpdatedIs ==
  ASSUME IInv, NEW t \in Threads, NEW k \in Keys, NEW e, NEW n \in Nat,
         e.id \in 1..MaxObjects, e.id \in DOMAIN object => Owned(t, k, e.id),
         object' = Updated(t, k, e, n)
  PROVE  WithMore(object, object', t, k, e.id, n) /\ ObjectsOK(object')
<1> DEFINE i == e.id
           o == IF i \in DOMAIN object THEN object[i]
                ELSE [thread |-> t, key |-> k, value |-> 0]
           v == [o EXCEPT !.value = @ + n]
           w == (IF i \in DOMAIN object THEN object[i].value ELSE 0) + n
<1>1. ObjectsOK(object) BY DEF IInv, MapInv
<1>2. o \in Objects /\ o.thread = t /\ o.key = k
  BY <1>1 DEF ObjectsOK, Objects, Owned
<1>3. o.value + n = w BY <1>1 DEF ObjectsOK, Objects
<1>4. v = [thread |-> t, key |-> k, value |-> w] /\ v \in Objects
  <2>1. o.value \in Nat BY <1>2 DEF Objects
  <2>2. v = [thread |-> o.thread, key |-> o.key, value |-> o.value + n]
    <3> HIDE DEF o
    <3> QED BY <1>2 DEF Objects
  <2>3. v = [thread |-> t, key |-> k, value |-> w] BY <1>2, <1>3, <2>2
  <2>4. w \in Nat BY <1>3, <2>1
  <2> QED BY <2>3, <2>4 DEF Objects
<1>5. object' = Put(object, i, v) BY DEF Updated
<1> HIDE DEF v, o
<1>6. /\ DOMAIN object' = DOMAIN object \cup {i} /\ object'[i] = v
      /\ \A j \in DOMAIN object \ {i} : object'[j] = object[j]
  BY <1>5 DEF Put
<1>7. WithMore(object, object', t, k, i, n) BY <1>4, <1>6 DEF WithMore, Owned
<1>8. ObjectsOK(object') BY <1>1, <1>4, <1>6 DEF ObjectsOK
<1> QED BY <1>7, <1>8

\* Every object stays, and stays of its thread and key.
Kept(o, q) == \A i \in DOMAIN o : /\ i \in DOMAIN q /\ q[i].thread = o[i].thread
                                  /\ q[i].key = o[i].key

\* It does when values are added or taken.
LEMMA ObjectsKept ==
  ASSUME NEW o, NEW q
  PROVE  /\ q = o => Kept(o, q)
         /\ \A t, k, i, n : WithMore(o, q, t, k, i, n) => Kept(o, q)
         /\ \A i : Emptied(o, q, i) => Kept(o, q)
<1>1. q = o => Kept(o, q) BY DEF Kept
<1>2. ASSUME NEW t, NEW k, NEW i, NEW n, WithMore(o, q, t, k, i, n) PROVE Kept(o, q)
  <2>1. q[i].thread = t /\ q[i].key = k BY <1>2 DEF WithMore
  <2> QED BY <1>2, <2>1 DEF WithMore, Kept
<1>3. ASSUME NEW i, Emptied(o, q, i) PROVE Kept(o, q)
  <2>1. q[i].thread = o[i].thread /\ q[i].key = o[i].key BY <1>3 DEF Emptied
  <2> QED BY <1>3, <2>1 DEF Emptied, Kept
<1> QED BY <1>1, <1>2, <1>3

\* The values of object i are taken.
LEMMA TakeIs ==
  ASSUME IInv, NEW a \in Actors, NEW i \in DOMAIN object, Take(a, i)
  PROVE  /\ Emptied(object, object', i) /\ ObjectsOK(object')
         /\ hand' \in [Actors -> Hands] /\ hand[a] = NoKey
         /\ hand'[a] = [key |-> object[i].key, n |-> object[i].value]
         /\ \A b \in Actors \ {a} : hand'[b] = hand[b]
         /\ UNCHANGED <<named, wrapper, local, exports, sum, added>>
<1>1. ObjectsOK(object) /\ hand \in [Actors -> Hands] BY DEF IInv, MapInv
<1>2. PICK x \in Objects : x = object[i] BY <1>1 DEF ObjectsOK
<1>3. [x EXCEPT !.value = 0] = [thread |-> x.thread, key |-> x.key, value |-> 0]
  BY DEF Objects
<1>4. object' = [object EXCEPT ![i] = [x EXCEPT !.value = 0]] BY <1>2 DEF Take
<1>5. Emptied(object, object', i) BY <1>2, <1>3, <1>4 DEF Emptied
<1>6. ObjectsOK(object')
  <2>1. object'[i] = [thread |-> x.thread, key |-> x.key, value |-> 0] BY <1>3, <1>4
  <2>2. object'[i] \in Objects BY <2>1 DEF Objects
  <2> QED BY <1>1, <1>5, <2>2 DEF ObjectsOK, Emptied
<1>7. [key |-> x.key, n |-> x.value] \in Hands BY DEF Objects, Hands
<1>8. hand' = [hand EXCEPT ![a] = [key |-> x.key, n |-> x.value]] BY <1>2 DEF Take
<1> HIDE DEF Hands
<1>9. /\ hand' \in [Actors -> Hands] /\ hand'[a] = [key |-> x.key, n |-> x.value]
      /\ \A b \in Actors \ {a} : hand'[b] = hand[b]
  BY <1>1, <1>7, <1>8
<1> QED BY <1>2, <1>5, <1>6, <1>9 DEF Take, holdVars

\* And delivered.
LEMMA DeliverIs ==
  ASSUME IInv, NEW a \in Actors, Deliver(a)
  PROVE  /\ hand' \in [Actors -> Hands] /\ hand[a] # NoKey /\ hand'[a] = NoKey
         /\ hand[a].key \in Keys /\ hand[a].n \in Nat
         /\ \A b \in Actors \ {a} : hand'[b] = hand[b]
         /\ sum' \in [Keys -> Nat] /\ sum'[hand[a].key] = sum[hand[a].key] + hand[a].n
         /\ \A k \in Keys \ {hand[a].key} : sum'[k] = sum[k]
         /\ UNCHANGED <<object, named, wrapper, local, exports, added>>
<1>1. hand \in [Actors -> Hands] /\ sum \in [Keys -> Nat] BY DEF IInv, MapInv
<1>2. hand[a] # NoKey BY DEF Deliver
<1>3. hand[a].key \in Keys /\ hand[a].n \in Nat BY <1>1, <1>2 DEF Hands
<1>4. NoKey \in Hands BY DEF Hands
<1>5. /\ hand' \in [Actors -> Hands] /\ hand'[a] = NoKey
      /\ \A b \in Actors \ {a} : hand'[b] = hand[b]
  BY <1>1, <1>4 DEF Deliver
<1>6. PICK k, n : k = hand[a].key /\ n = hand[a].n OBVIOUS
<1>7. sum' = [sum EXCEPT ![k] = @ + n] BY <1>6 DEF Deliver
<1>8. /\ sum' \in [Keys -> Nat] /\ sum'[k] = sum[k] + n
      /\ \A j \in Keys \ {k} : sum'[j] = sum[j]
  BY <1>1, <1>3, <1>6, <1>7
<1> QED BY <1>2, <1>3, <1>5, <1>6, <1>8 DEF Deliver, holdVars

\* An object that nothing points to goes.
LEMMA UnlinkIs ==
  ASSUME IInv, NEW t \in Threads, NEW i \in Dying(t), Unlink(t, i)
  PROVE  /\ Dropped(object, object', i) /\ ObjectsOK(object') /\ HoldInv'
         /\ object[i].thread = t
         /\ UNCHANGED <<named, wrapper, local, exports, hand, sum, added>>
<1>1. i \in DOMAIN object /\ object[i].thread = t /\ i \notin Held(t) BY DEF Dying
<1>2. object' = Restrict(object, DOMAIN object \ {i}) /\ object[i].value = 0 BY DEF Unlink
<1>3. DOMAIN object' = DOMAIN object \ {i} /\ \A j \in DOMAIN object \ {i} : object'[j] = object[j]
  BY <1>2 DEF Restrict
<1>4. Dropped(object, object', i) BY <1>1, <1>2, <1>3 DEF Dropped
<1>5. ObjectsOK(object') BY <1>3 DEF IInv, MapInv, ObjectsOK
<1>6. UNCHANGED <<named, wrapper, local, exports, hand, sum, added>> BY DEF Unlink, holdVars
<1>7. \A u, k, j : Owned(u, k, j) /\ j # i => Owned(u, k, j)' BY <1>3 DEF Owned
<1>8. ASSUME NEW u \in Threads PROVE Holds(u)'
  <2>1. Holds(u) BY DEF IInv, HoldInv
  <2>2. \A k \in DOMAIN named[u] : named[u][k].id # i
    <3>1. u = t => \A k \in DOMAIN named[u] : named[u][k].id \in Held(t) BY DEF Held, Ids
    <3> QED BY <1>1, <2>1, <3>1 DEF Holds, Owned
  <2>3. wrapper[u] # Empty => wrapper[u][1].id # i
    <3>1. u = t /\ wrapper[u] # Empty => wrapper[u][1].id \in Held(t)
      BY <2>1 DEF Holds, Held, Ids
    <3> QED BY <1>1, <2>1, <3>1 DEF Holds, Owned
  <2>4. \A s \in DOMAIN local[u] : local[u][s].id # i
    <3>1. u = t => \A s \in DOMAIN local[u] : local[u][s].id \in Held(t) BY DEF Held, Ids
    <3> QED BY <1>1, <2>1, <3>1 DEF Holds, Owned
  <2> QED BY <1>6, <1>7, <2>1, <2>2, <2>3, <2>4 DEF Holds
<1>9. HoldInv' BY <1>6, <1>8 DEF IInv, HoldInv
<1> QED BY <1>1, <1>4, <1>5, <1>6, <1>9

-----------------------------------------------------------------------------
(***************************************************************************)
(* Frames: what a step leaves alone.                                       *)
(***************************************************************************)
\* Where the actors are, after actor a went on.
LEMMA GotoIs ==
  ASSUME IInv, NEW a \in Actors, NEW where, Goto(a, where)
  PROVE  DOMAIN pc' = Actors /\ pc'[a] = where /\ \A b \in Actors \ {a} : pc'[b] = pc[b]
  BY DEF IInv, KeyInv, Goto

\* Threads, callers and the worker are different actors.
LEMMA ActorsDiffer ==
  /\ \A t \in Threads : t \in Actors /\ t \notin Publishers /\ t \notin Callers /\ t # None
  /\ \A p \in Publishers : p \in Actors /\ p \notin Threads /\ p # None
  /\ \A a \in Callers : a \in Publishers
  BY MapAssumption, ActorAssumption DEF Actors, Publishers

\* What the other threads hold, they hold still.
LEMMA HoldFrame ==
  ASSUME IInv, Kept(object, object'), NEW t \in Threads, Holds(t)',
         DOMAIN named' = Threads, DOMAIN wrapper' = Threads, DOMAIN local' = Threads,
         \A u \in Threads \ {t} :
            named'[u] = named[u] /\ wrapper'[u] = wrapper[u] /\ local'[u] = local[u]
  PROVE  HoldInv'
<1> SUFFICES ASSUME NEW u \in Threads \ {t} PROVE Holds(u)'
  BY DEF HoldInv
<1>1. Holds(u) BY DEF IInv, HoldInv
<1>2. \A k, i : Owned(u, k, i) => Owned(u, k, i)' BY DEF Owned, Kept
<1> QED BY <1>1, <1>2 DEF Holds

\* And all of them do when no pointer changes.
LEMMA HoldSame ==
  ASSUME IInv, Kept(object, object'), UNCHANGED <<named, wrapper, local>>
  PROVE  HoldInv'
<1>1. \A t, k, i : Owned(t, k, i) => Owned(t, k, i)' BY DEF Owned, Kept
<1>2. \A t \in Threads : Holds(t) => Holds(t)' BY <1>1 DEF Holds
<1> QED BY <1>2 DEF IInv, HoldInv

\* What the other threads know of subkeys, they know still.
LEMMA KeyFrame ==
  ASSUME IInv, NEW t \in Threads, Keyed(t)',
         exports \subseteq exports', globalMap \subseteq globalMap',
         \A s \in globalMap' \ globalMap : s \in Subkeys /\ Exported(Format[s])',
         DOMAIN last' = Threads, DOMAIN call' = Threads, DOMAIN pc' = Actors,
         \A u \in Threads \ {t} :
            /\ named'[u] = named[u] /\ local'[u] = local[u] /\ last'[u] = last[u]
            /\ call'[u] = call[u] /\ pc'[u] = pc[u]
  PROVE  KeyInv'
<1>1. \A k : Exported(k) => Exported(k)' BY DEF Exported
<1>2. ASSUME NEW u \in Threads \ {t} PROVE Keyed(u)'
  <2>1. Keyed(u) BY DEF IInv, KeyInv
  <2>2. \A k \in DOMAIN named[u] : {k} \X named[u][k].types \subseteq exports'
    BY <2>1 DEF Keyed
  <2> QED BY <1>1, <2>1, <2>2 DEF Keyed
<1>3. \A s \in globalMap' : s \in Subkeys /\ Exported(Format[s])'
  BY <1>1 DEF IInv, KeyInv
<1> QED BY <1>2, <1>3 DEF KeyInv

\* Nobody has to do with the upgrade lock.
LEMMA UpgradeFrame ==
  ASSUME IInv, UNCHANGED <<globalMap, upgrader, prepared>>, NEW t \in Threads,
         pc[t] \notin {"prepare", "emplace"}, pc'[t] \notin {"prepare", "emplace"},
         \A u \in Threads \ {t} : call'[u] = call[u] /\ pc'[u] = pc[u]
  PROVE  UpgradeInv'
<1>1. upgrader # t BY DEF IInv, UpgradeInv
<1>2. \A u \in Threads : /\ pc'[u] \in {"prepare", "emplace"} <=> upgrader = u
                         /\ upgrader = u => call'[u].sub \notin globalMap
  BY <1>1 DEF IInv, UpgradeInv
<1>3. ASSUME NEW s \in Subkeys \ globalMap, prepared[s] = 1
      PROVE  \E u \in Threads : pc'[u] = "emplace" /\ call'[u].sub = s
  <2>1. PICK u \in Threads : pc[u] = "emplace" /\ call[u].sub = s
    BY <1>3 DEF IInv, UpgradeInv
  <2>2. u # t BY <2>1
  <2> QED BY <2>1, <2>2
<1> QED BY <1>2, <1>3 DEF IInv, UpgradeInv

\* A step of a publisher leaves the threads' maps and keys alone.
LEMMA PublisherFrame ==
  ASSUME IInv, Kept(object, object'), DOMAIN pc' = Actors,
         UNCHANGED <<named, wrapper, local, exports, globalMap, upgrader, prepared, last, call>>,
         \A t \in Threads : pc'[t] = pc[t]
  PROVE  HoldInv' /\ KeyInv' /\ UpgradeInv'
<1>1. HoldInv' BY HoldSame
<1>2. \A k : Exported(k) => Exported(k)' BY DEF Exported
<1>3. \A t \in Threads : Keyed(t) => Keyed(t)' BY <1>2 DEF Keyed
<1>4. KeyInv' BY <1>2, <1>3 DEF IInv, KeyInv
<1>5. UpgradeInv' BY DEF IInv, UpgradeInv
<1> QED BY <1>1, <1>4, <1>5

\* A step of a thread leaves the sweep and the publish thread alone.
LEMMA ThreadFrame ==
  ASSUME IInv, visit' = visit, UNCHANGED <<interval, worker, manager, workerLock>>,
         \A p \in Publishers : pc'[p] = pc[p] /\ hand'[p] = hand[p],
         \A i \in visit.objects : i \in DOMAIN object' /\ object'[i].thread = object[i].thread,
         listed' \subseteq listed, visit.by # None => listed' = listed
  PROVE  SweepInv' /\ WorkerInv'
<1>1. visit \in Visits BY DEF IInv, SweepInv
<1>2. visit.by # None => visit.by \in Publishers BY <1>1 DEF Visits
<1>3. SweepInv' BY <1>2 DEF IInv, SweepInv
<1>4. WorkerInv' BY ActorsDiffer DEF IInv, WorkerInv
<1> QED BY <1>3, <1>4

\* The publish thread is left alone.
LEMMA WorkerFrame ==
  ASSUME IInv, UNCHANGED <<interval, worker, manager, workerLock>>,
         \A a \in Callers : pc'[a] = "join" <=> pc[a] = "join"
  PROVE  WorkerInv'
  BY DEF IInv, WorkerInv

\* The sweep is left alone.
LEMMA SweepFrame ==
  ASSUME IInv, UNCHANGED <<visit, listed>>, Kept(object, object'),
         visit.by # None => pc'[visit.by] = pc[visit.by],
         \A p \in Publishers : hand'[p] = hand[p]
  PROVE  SweepInv'
<1>1. visit \in Visits BY DEF IInv, SweepInv
<1>2. \A i \in visit.objects : i \in DOMAIN object' /\ object'[i].thread = object[i].thread
  BY DEF IInv, SweepInv, Kept
<1> QED BY <1>2 DEF IInv, SweepInv

-----------------------------------------------------------------------------
(***************************************************************************)
(* Values kept, and values still to be zeroed, from state to state.        *)
(***************************************************************************)
\* ValuesConserved and the bounds of ZeroInv in terms of amounts.
LEMMA AmountsNow ==
  ASSUME IInv, NEW k \in Keys
  PROVE  /\ added[k] = sum[k] + zeroed[k] + Amount(object, k, Threads, {})
                           + HandAmount(hand, k, Actors)
         /\ Ahead(k) = carried[k] + sum[k] + HandAmount(hand, k, Publishers)
                           + Amount(object, k, listed, {})
         /\ During(k) = carried[k] + sum[k] + HandAmount(hand, k, Publishers)
                            + Amount(object, k, visit.threads, visit.objects)
         /\ added[k] \in Nat /\ sum[k] \in Nat /\ zeroed[k] \in Nat /\ carried[k] \in Nat
         /\ before[k] \in Nat
<1>1. MapInv /\ ValuesConserved /\ ZeroInv BY DEF IInv
<1>2. /\ added[k] \in Nat /\ sum[k] \in Nat /\ zeroed[k] \in Nat /\ carried[k] \in Nat
      /\ before[k] \in Nat
  BY <1>1 DEF MapInv, ZeroInv
<1>3. Publishers \subseteq Actors BY DEF Actors
<1>4. /\ Cached(k, Threads) = Amount(object, k, Threads, {})
      /\ Cached(k, listed) = Amount(object, k, listed, {})
      /\ InHand(k, Publishers) = HandAmount(hand, k, Publishers)
      /\ InHand(k, DOMAIN hand) = HandAmount(hand, k, Actors)
  BY <1>1, <1>3, Amounts
<1> QED BY <1>1, <1>2, <1>4 DEF ValuesConserved, Ahead, During

\* The first after a step.
LEMMA ConservedNext ==
  ASSUME MapInv',
         \A k \in Keys : added'[k] = sum'[k] + zeroed'[k] + Amount(object', k, Threads, {})
                                         + HandAmount(hand', k, Actors)
  PROVE  ValuesConserved'
  BY AmountsNext DEF ValuesConserved

\* What is ahead of the sweep of zeroStats() does not get less.
LEMMA ZeroFrame ==
  ASSUME IInv, MapInv', UNCHANGED <<zeroing, zeroed, before>>, carried' \in [Keys -> Nat],
         visit'.by = visit.by, \A a \in Callers : Zeroing(a)' => pc'[a] = pc[a],
         \A k \in Keys : carried[k] <= carried'[k] /\ sum[k] <= sum'[k],
         zeroing # {} => \A k \in Keys :
            carried[k] + sum[k] + HandAmount(hand, k, Publishers)
                + Amount(object, k, listed, {})
              <= carried'[k] + sum'[k] + HandAmount(hand', k, Publishers)
                     + Amount(object', k, listed', {}),
         zeroing # {} /\ visit.by # None => \A k \in Keys :
            carried[k] + sum[k] + HandAmount(hand, k, Publishers)
                + Amount(object, k, visit.threads, visit.objects)
              <= carried'[k] + sum'[k] + HandAmount(hand', k, Publishers)
                     + Amount(object', k, visit'.threads, visit'.objects)
  PROVE  ZeroInv'
<1>1. ZeroInv BY DEF IInv
<1>2. \A a \in Callers : Zeroing(a)' => Zeroing(a) /\ pc'[a] = pc[a] BY DEF Zeroing
<1>3. \A a \in Callers : Zeroing(a)' => zeroing' # {} /\ \A b \in Callers : Zeroing(b)' => a = b
  BY <1>1, <1>2 DEF ZeroInv
<1>4. ASSUME NEW k \in Keys
      PROVE  /\ zeroing # {} => Ahead(k) <= Ahead(k)'
             /\ zeroing # {} /\ visit.by # None => During(k) <= During(k)'
             /\ Ahead(k) \in Int /\ During(k) \in Int /\ Ahead(k)' \in Int /\ During(k)' \in Int
             /\ before[k] \in Nat /\ zeroed[k] \in Nat /\ carried[k] \in Nat /\ sum[k] \in Nat
             /\ carried'[k] \in Nat /\ sum'[k] \in Nat
             /\ carried[k] <= carried'[k] /\ sum[k] <= sum'[k]
  <2>1. /\ sum[k] \in Nat /\ zeroed[k] \in Nat /\ carried[k] \in Nat /\ before[k] \in Nat
        /\ carried'[k] \in Nat /\ sum'[k] \in Nat
    BY AmountsNow DEF MapInv
  <2>2. /\ HandAmount(hand, k, Publishers) \in Nat /\ Amount(object, k, listed, {}) \in Nat
        /\ Amount(object, k, visit.threads, visit.objects) \in Nat
    BY Amounts DEF IInv
  <2>3. /\ HandAmount(hand', k, Publishers) \in Nat /\ Amount(object', k, listed', {}) \in Nat
        /\ Amount(object', k, visit'.threads, visit'.objects) \in Nat
    BY AmountsNext
  <2>4. /\ Ahead(k) = carried[k] + sum[k] + HandAmount(hand, k, Publishers)
                          + Amount(object, k, listed, {})
        /\ During(k) = carried[k] + sum[k] + HandAmount(hand, k, Publishers)
                           + Amount(object, k, visit.threads, visit.objects)
    BY AmountsNow
  <2>5. /\ Ahead(k)' = carried'[k] + sum'[k] + HandAmount(hand', k, Publishers)
                           + Amount(object', k, listed', {})
        /\ During(k)' = carried'[k] + sum'[k] + HandAmount(hand', k, Publishers)
                            + Amount(object', k, visit'.threads, visit'.objects)
    BY AmountsNext DEF Ahead, During
  <2> QED BY <2>1, <2>2, <2>3, <2>4, <2>5
<1>5. zeroing' = {} => \A k \in Keys : before'[k] <= zeroed'[k] + carried'[k]
  BY <1>1, <1>4 DEF ZeroInv
<1>6. ASSUME NEW a \in Callers, NEW k \in Keys, Zeroing(a)'
      PROVE  /\ pc'[a] = "publishThenZero" => k \in zeroing'
             /\ pc'[a] = "publishThenZero" /\ visit'.by # a => before'[k] <= zeroed'[k] + Ahead(k)'
             /\ pc'[a] = "publishThenZero" /\ visit'.by = a => before'[k] <= zeroed'[k] + During(k)'
             /\ pc'[a] = "zero" /\ k \in zeroing' =>
                   before'[k] <= zeroed'[k] + carried'[k] + sum'[k]
             /\ pc'[a] = "zero" /\ k \notin zeroing' => before'[k] <= zeroed'[k] + carried'[k]
  <2>1. zeroing # {} /\ pc'[a] = pc[a] BY <1>1, <1>2, <1>6 DEF ZeroInv
  <2>2. visit.by = a => visit.by # None BY ActorsDiffer
  <2>3. /\ pc[a] = "publishThenZero" => k \in zeroing
        /\ pc[a] = "publishThenZero" /\ visit.by # a => before[k] <= zeroed[k] + Ahead(k)
        /\ pc[a] = "publishThenZero" /\ visit.by = a => before[k] <= zeroed[k] + During(k)
        /\ pc[a] = "zero" /\ k \in zeroing => before[k] <= zeroed[k] + carried[k] + sum[k]
        /\ pc[a] = "zero" /\ k \notin zeroing => before[k] <= zeroed[k] + carried[k]
    BY <1>1 DEF ZeroInv
  <2> QED BY <1>4, <2>1, <2>2, <2>3
<1>7. \A a \in Callers : pc'[a] \in {"publishThenZero", "zero"} => Zeroing(a)' BY DEF Zeroing
<1> QED BY <1>1, <1>3, <1>5, <1>6, <1>7 DEF ZeroInv

\* A step without values.
LEMMA ValuesQuiet ==
  ASSUME IInv, UNCHANGED <<object, hand, sum, added, zeroing, zeroed, before, carried>>,
         UNCHANGED <<listed, visit>>, \A a \in Callers : Zeroing(a)' => pc'[a] = pc[a]
  PROVE  MapInv' /\ ValuesConserved' /\ ZeroInv'
<1>1. MapInv' BY DEF IInv, MapInv, ObjectsOK
<1>2. ValuesConserved' BY <1>1, AmountsNow, ConservedNext
<1>3. carried' \in [Keys -> Nat] /\ \A k \in Keys : carried[k] \in Nat /\ sum[k] \in Nat
  BY DEF IInv, ZeroInv, MapInv
<1>4. \A k \in Keys : /\ HandAmount(hand, k, Publishers) \in Nat
                      /\ Amount(object, k, listed, {}) \in Nat
                      /\ Amount(object, k, visit.threads, visit.objects) \in Nat
  BY Amounts DEF IInv
<1>5. ZeroInv' BY <1>1, <1>3, <1>4, ZeroFrame
<1> QED BY <1>1, <1>2, <1>5

\* A thread adds n values of key k to object i.
LEMMA ValuesMore ==
  ASSUME IInv, NEW t \in Threads, NEW k \in Keys, NEW i, NEW n \in Nat,
         WithMore(object, object', t, k, i, n), ObjectsOK(object'),
         added' = [added EXCEPT ![k] = @ + n],
         UNCHANGED <<hand, sum, zeroing, zeroed, before, carried, listed, visit>>,
         \A a \in Callers : pc'[a] = pc[a]
  PROVE  MapInv' /\ ValuesConserved' /\ ZeroInv'
<1>1. MapInv' BY DEF IInv, MapInv
<1>2. ObjectsOK(object) BY DEF IInv, MapInv
<1>3. \A j, ts, ids : Amount(object', j, ts, ids) = Amount(object, j, ts, ids)
                          + IF k = j /\ (t \in ts \/ i \in ids) THEN n ELSE 0
  BY <1>2, AmountMore
<1>4. ASSUME NEW j \in Keys
      PROVE  added'[j] = sum'[j] + zeroed'[j] + Amount(object', j, Threads, {})
                             + HandAmount(hand', j, Actors)
  <2>1. added'[j] = added[j] + IF k = j THEN n ELSE 0 BY DEF IInv, MapInv
  <2>2. Amount(object, j, Threads, {}) \in Nat /\ HandAmount(hand, j, Actors) \in Nat
    BY Amounts DEF IInv
  <2>3. added[j] = sum[j] + zeroed[j] + Amount(object, j, Threads, {})
                       + HandAmount(hand, j, Actors)
    BY AmountsNow
  <2>4. sum[j] \in Nat /\ zeroed[j] \in Nat BY AmountsNow
  <2>5. Amount(object', j, Threads, {}) = Amount(object, j, Threads, {}) + IF k = j THEN n ELSE 0
    BY <1>3
  <2> QED BY <2>1, <2>2, <2>3, <2>4, <2>5
<1>5. ValuesConserved' BY <1>1, <1>4, ConservedNext
<1>6. ASSUME NEW j \in Keys
      PROVE  /\ carried[j] \in Nat /\ sum[j] \in Nat /\ HandAmount(hand, j, Publishers) \in Nat
             /\ \A ts, ids : /\ Amount(object, j, ts, ids) \in Nat
                             /\ Amount(object', j, ts, ids) \in Nat
                             /\ Amount(object, j, ts, ids) <= Amount(object', j, ts, ids)
  <2>1. carried[j] \in Nat /\ sum[j] \in Nat BY AmountsNow
  <2>2. HandAmount(hand, j, Publishers) \in Nat BY Amounts DEF IInv
  <2>3. \A ts, ids : Amount(object, j, ts, ids) \in Nat BY Amounts DEF IInv
  <2> QED BY <1>3, <2>1, <2>2, <2>3
<1>7. carried' \in [Keys -> Nat] BY DEF IInv, ZeroInv
<1>8. ASSUME NEW j \in Keys, NEW ts, NEW ids
      PROVE  carried[j] + sum[j] + HandAmount(hand, j, Publishers) + Amount(object, j, ts, ids)
             <= carried'[j] + sum'[j] + HandAmount(hand', j, Publishers)
                    + Amount(object', j, ts, ids)
  BY <1>6
<1>9. ZeroInv' BY <1>1, <1>6, <1>7, <1>8, ZeroFrame
<1> QED BY <1>1, <1>5, <1>9

-----------------------------------------------------------------------------
(***************************************************************************)
(* Steps of a thread on its maps.                                          *)
(***************************************************************************)
\* The maps of the other threads are what they were.
OthersMaps(t) ==
    /\ DOMAIN named' = Threads /\ DOMAIN wrapper' = Threads /\ DOMAIN local' = Threads
    /\ \A u \in Threads \ {t} :
          named'[u] = named[u] /\ wrapper'[u] = wrapper[u] /\ local'[u] = local[u]

\* What is flagged as exported is.
Flagged(t) == \A k \in DOMAIN named[t] : {k} \X named[t][k].types \subseteq exports

\* An entry is put into the map of t.
LEMMA SetNamedIs ==
  ASSUME IInv, NEW t \in Threads, NEW k, NEW e, SetNamed(t, k, e)
  PROVE  /\ DOMAIN named' = Threads /\ \A u \in Threads \ {t} : named'[u] = named[u]
         /\ DOMAIN named'[t] = DOMAIN named[t] \cup {k} /\ named'[t][k] = e
         /\ \A j \in DOMAIN named[t] \ {k} : named'[t][j] = named[t][j]
<1>1. DOMAIN named = Threads BY DEF IInv, HoldInv
<1>2. named' = [named EXCEPT ![t] = Put(named[t], k, e)] BY DEF SetNamed
<1>3. named'[t] = Put(named[t], k, e) BY <1>1, <1>2
<1> QED BY <1>1, <1>2, <1>3 DEF Put

\* An object with more values is the one of its thread and key.
LEMMA MoreOwned ==
  ASSUME IInv, NEW t \in Threads, NEW k, NEW i, NEW n, WithMore(object, object', t, k, i, n)
  PROVE  Owned(t, k, i)' /\ \A j, m : Owned(t, j, m) => Owned(t, j, m)'
<1>1. object'[i].thread = t /\ object'[i].key = k /\ i \in DOMAIN object' BY DEF WithMore
<1>2. Kept(object, object') BY ObjectsKept
<1> QED BY <1>1, <1>2 DEF Owned, Kept

\* A value is added by name.
LEMMA AddNamedIs ==
  ASSUME IInv, NEW t \in Threads, NEW k \in Keys, NEW types, types \subseteq Types,
         AddNamed(t, k, types)
  PROVE  /\ \E i : WithMore(object, object', t, k, i, 1)
         /\ ObjectsOK(object') /\ Holds(t)' /\ OthersMaps(t) /\ Flagged(t)'
         /\ exports \subseteq exports' /\ added' = [added EXCEPT ![k] = @ + 1]
         /\ UNCHANGED <<wrapper, local, hand, sum>>
<1>1. PICK e \in Entries : /\ TryInsertLocked(t, k, e) /\ object' = Updated(t, k, e, 1)
                           /\ SetNamed(t, k, [e EXCEPT !.types = @ \cup types])
                           /\ exports' = exports \cup ({k} \X (types \ e.types))
  BY DEF AddNamed
<1>2. /\ e.id \in 1..MaxObjects /\ e.types \subseteq Types
      /\ e.id \in DOMAIN object => Owned(t, k, e.id) /\ {k} \X e.types \subseteq exports
      /\ {k} \X e.types \subseteq exports
  BY <1>1, InsertIs
<1>3. WithMore(object, object', t, k, e.id, 1) /\ ObjectsOK(object')
  BY <1>1, <1>2, UpdatedIs
<1> DEFINE x == [e EXCEPT !.types = @ \cup types]
<1>4. x \in Entries /\ x.id = e.id /\ x.types = e.types \cup types BY DEF Entries
<1>5. SetNamed(t, k, x) BY <1>1
<1> HIDE DEF x
<1>6. /\ DOMAIN named' = Threads /\ \A u \in Threads \ {t} : named'[u] = named[u]
      /\ DOMAIN named'[t] = DOMAIN named[t] \cup {k} /\ named'[t][k] = x
      /\ \A j \in DOMAIN named[t] \ {k} : named'[t][j] = named[t][j]
  BY <1>5, SetNamedIs
<1>7. UNCHANGED <<wrapper, local, hand, sum>> /\ added' = [added EXCEPT ![k] = @ + 1]
  BY DEF AddNamed
<1>8. Owned(t, k, e.id)' /\ \A j, m : Owned(t, j, m) => Owned(t, j, m)' BY <1>3, MoreOwned
<1>9. Holds(t) /\ Flagged(t) BY DEF IInv, HoldInv, KeyInv, Keyed, Flagged
<1>10. Holds(t)'
  <2>1. DOMAIN named'[t] \subseteq Keys BY <1>6, <1>9 DEF Holds
  <2>2. \A j \in DOMAIN named'[t] : named'[t][j] \in Entries /\ Owned(t, j, named[t][j].id)'
    BY <1>4, <1>6, <1>8, <1>9 DEF Holds
  <2> QED BY <1>7, <1>8, <1>9, <2>1, <2>2 DEF Holds
<1>11. Flagged(t)'
  <2>1. exports \subseteq exports' BY <1>1
  <2>2. {k} \X x.types \subseteq exports' BY <1>1, <1>2, <1>4
  <2>3. ASSUME NEW j \in DOMAIN named[t] \ {k}
        PROVE  {j} \X named'[t][j].types \subseteq exports'
    BY <1>6, <1>9, <2>1 DEF Flagged
  <2> QED BY <1>6, <2>2, <2>3 DEF Flagged
<1>12. OthersMaps(t) BY <1>6, <1>7 DEF OthersMaps, IInv, HoldInv
<1> QED BY <1>1, <1>3, <1>7, <1>10, <1>11, <1>12

\* The entry of a subkey is looked up the slow way.
LEMMA FillLocalIs ==
  ASSUME IInv, NEW t \in Threads, NEW s \in Subkeys, FillLocal(t, s)
  PROVE  /\ \E i : WithMore(object, object', t, Format[s], i, 0)
         /\ ObjectsOK(object') /\ Holds(t)' /\ OthersMaps(t) /\ Flagged(t)'
         /\ added' = [added EXCEPT ![Format[s]] = @ + 0]
         /\ DOMAIN local'[t] = DOMAIN local[t] \cup {s}
         /\ last'[t].sub = s /\ local'[t][s].id = last'[t].id
         /\ DOMAIN last' = Threads /\ \A u \in Threads \ {t} : last'[u] = last[u]
         /\ Goto(t, "use") /\ UNCHANGED <<wrapper, exports, hand, sum>>
<1> DEFINE k == Format[s]
<1>1. k \in Keys BY FormatAssumption
<1>2. PICK e \in Entries : /\ TryInsertLocked(t, k, e) /\ object' = Updated(t, k, e, 0)
                           /\ SetNamed(t, k, e) /\ Found(t, s, e.id)
                           /\ local' = [local EXCEPT ![t] = Put(local[t], s, [id |-> e.id])]
  BY DEF FillLocal, FormatKey
<1> HIDE DEF k
<1>3. /\ e.id \in 1..MaxObjects /\ {k} \X e.types \subseteq exports
      /\ e.id \in DOMAIN object => Owned(t, k, e.id)
  BY <1>1, <1>2, InsertIs
<1>4. WithMore(object, object', t, k, e.id, 0) /\ ObjectsOK(object')
  BY <1>1, <1>2, <1>3, UpdatedIs
<1>5. /\ DOMAIN named' = Threads /\ \A u \in Threads \ {t} : named'[u] = named[u]
      /\ DOMAIN named'[t] = DOMAIN named[t] \cup {k} /\ named'[t][k] = e
      /\ \A j \in DOMAIN named[t] \ {k} : named'[t][j] = named[t][j]
  BY <1>2, SetNamedIs
<1>6. /\ DOMAIN local' = Threads /\ local'[t] = Put(local[t], s, [id |-> e.id])
      /\ \A u \in Threads \ {t} : local'[u] = local[u]
  BY <1>2 DEF IInv, HoldInv
<1>7. /\ DOMAIN local'[t] = DOMAIN local[t] \cup {s} /\ local'[t][s] = [id |-> e.id]
      /\ \A y \in DOMAIN local[t] \ {s} : local'[t][y] = local[t][y]
  BY <1>6 DEF Put
<1>8. Owned(t, k, e.id)' /\ \A j, m : Owned(t, j, m) => Owned(t, j, m)' BY <1>4, MoreOwned
<1>9. Holds(t) /\ Flagged(t) BY DEF IInv, HoldInv, KeyInv, Keyed, Flagged
<1>10. UNCHANGED <<wrapper, exports, hand, sum>> /\ added' = added BY DEF FillLocal
<1>11. local'[t][s].id = e.id BY <1>7
<1>12. Holds(t)'
  <2>1. DOMAIN named'[t] \subseteq Keys /\ DOMAIN local'[t] \subseteq Subkeys
    BY <1>1, <1>5, <1>7, <1>9 DEF Holds
  <2>2. \A j \in DOMAIN named'[t] : named'[t][j] \in Entries /\ Owned(t, j, named[t][j].id)'
    BY <1>5, <1>8, <1>9 DEF Holds
  <2>3. \A y \in DOMAIN local'[t] : Owned(t, Format[y], local[t][y].id)'
    BY <1>7, <1>8, <1>9, <1>11 DEF Holds, k
  <2> QED BY <1>8, <1>9, <1>10, <2>1, <2>2, <2>3 DEF Holds
<1>13. Flagged(t)'
  <2>1. ASSUME NEW j \in DOMAIN named[t] \ {k}
        PROVE  {j} \X named'[t][j].types \subseteq exports
    BY <1>5, <1>9 DEF Flagged
  <2> QED BY <1>3, <1>5, <1>10, <2>1 DEF Flagged
<1>14. OthersMaps(t) BY <1>5, <1>6, <1>10 DEF OthersMaps, IInv, HoldInv
<1>15. added' = [added EXCEPT ![k] = @ + 0] BY <1>1, <1>10 DEF IInv, MapInv
<1>16. /\ last'[t] = [sub |-> s, id |-> e.id] /\ DOMAIN last' = Threads
       /\ \A u \in Threads \ {t} : last'[u] = last[u]
  BY <1>2 DEF Found, IInv, KeyInv
<1>17. last'[t].sub = s /\ last'[t].id = e.id BY <1>16
<1>18. Goto(t, "use") BY <1>2 DEF Found
<1> QED BY <1>4, <1>7, <1>10, <1>11, <1>12, <1>13, <1>14, <1>15, <1>16, <1>17, <1>18 DEF k

-----------------------------------------------------------------------------
(***************************************************************************)
(* Calls of a thread.                                                      *)
(***************************************************************************)
\* All but what concerns subkeys.
MapPart == MapInv /\ HoldInv /\ SweepInv /\ WorkerInv /\ ValuesConserved /\ ZeroInv
KeyPart == KeyInv /\ UpgradeInv

\* A thread adds values.
LEMMA ThreadAdds ==
  ASSUME IInv, NEW t \in Threads, NEW k \in Keys, NEW n \in Nat,
         \E i : WithMore(object, object', t, k, i, n), ObjectsOK(object'),
         Holds(t)', OthersMaps(t), added' = [added EXCEPT ![k] = @ + n],
         UNCHANGED <<hand, sum>>, Elsewhere, \A p \in Publishers : pc'[p] = pc[p]
  PROVE  MapPart'
<1>1. PICK i : WithMore(object, object', t, k, i, n) OBVIOUS
<1>2. Kept(object, object') BY <1>1, ObjectsKept
<1>3. HoldInv' BY <1>2, HoldFrame DEF OthersMaps
<1>4. UNCHANGED <<interval, worker, manager, workerLock, listed, visit>>
  BY DEF Elsewhere, workVars
<1>5. \A j \in visit.objects : j \in DOMAIN object' /\ object'[j].thread = object[j].thread
  BY <1>2 DEF IInv, SweepInv, Kept
<1>6. SweepInv' /\ WorkerInv' BY <1>4, <1>5, ThreadFrame
<1>7. UNCHANGED <<zeroing, zeroed, before, carried>> BY DEF Elsewhere, zeroVars
<1>8. \A a \in Callers : pc'[a] = pc[a] BY ActorsDiffer
<1>9. MapInv' /\ ValuesConserved' /\ ZeroInv' BY <1>1, <1>4, <1>7, <1>8, ValuesMore
<1> QED BY <1>3, <1>6, <1>9 DEF MapPart

\* A thread changes its maps only.
LEMMA ThreadQuiet ==
  ASSUME IInv, NEW t \in Threads, UNCHANGED <<object, hand, sum, added>>,
         Holds(t)', OthersMaps(t), Elsewhere, \A p \in Publishers : pc'[p] = pc[p]
  PROVE  MapPart'
<1>2. Kept(object, object') BY ObjectsKept
<1>3. HoldInv' BY <1>2, HoldFrame DEF OthersMaps
<1>4. UNCHANGED <<interval, worker, manager, workerLock, listed, visit>>
  BY DEF Elsewhere, workVars
<1>5. \A j \in visit.objects : j \in DOMAIN object' /\ object'[j].thread = object[j].thread
  BY <1>2 DEF IInv, SweepInv, Kept
<1>6. SweepInv' /\ WorkerInv' BY <1>4, <1>5, ThreadFrame
<1>7. UNCHANGED <<zeroing, zeroed, before, carried>> BY DEF Elsewhere, zeroVars
<1>8. \A a \in Callers : pc'[a] = pc[a] BY ActorsDiffer
<1>9. MapInv' /\ ValuesConserved' /\ ZeroInv' BY <1>4, <1>7, <1>8, ValuesQuiet
<1> QED BY <1>3, <1>6, <1>9 DEF MapPart

\* A thread stays where it is with its subkeys.
LEMMA KeyQuiet ==
  ASSUME IInv, NEW t \in Threads, UNCHANGED <<pc, memoVars, local>>, Flagged(t)',
         OthersMaps(t), exports \subseteq exports'
  PROVE  KeyPart'
<1>1. UNCHANGED <<globalMap, upgrader, prepared, last, call>> BY DEF memoVars, globalVars
<1>2. Keyed(t) BY DEF IInv, KeyInv
<1>3. \A k : Exported(k) => Exported(k)' BY DEF Exported
<1>4. Keyed(t)' BY <1>1, <1>2, <1>3 DEF Keyed, Flagged
<1>5. KeyInv' BY <1>1, <1>4, KeyFrame DEF OthersMaps, IInv, KeyInv
<1>6. UpgradeInv' BY <1>1 DEF IInv, UpgradeInv
<1> QED BY <1>5, <1>6 DEF KeyPart

\* The parts are the whole.
LEMMA Whole == IInv' <=> MapPart' /\ KeyPart'
  BY DEF IInv, MapPart, KeyPart

\* addStatValue() and the like.
LEMMA AddStatValueStep ==
  ASSUME IInv, NEW t \in Threads, NEW k \in Keys, NEW types, types \subseteq Types,
         AddStatValue(t, k, types)
  PROVE  IInv'
<1>1. AddNamed(t, k, types) /\ UNCHANGED <<pc, memoVars>> /\ Elsewhere BY DEF AddStatValue
<1>2. /\ \E i : WithMore(object, object', t, k, i, 1)
      /\ ObjectsOK(object') /\ Holds(t)' /\ OthersMaps(t) /\ Flagged(t)'
      /\ exports \subseteq exports' /\ added' = [added EXCEPT ![k] = @ + 1]
      /\ UNCHANGED <<wrapper, local, hand, sum>>
  BY <1>1, AddNamedIs
<1>3. MapPart' BY <1>1, <1>2, ThreadAdds
<1>4. KeyPart' BY <1>1, <1>2, KeyQuiet
<1> QED BY <1>3, <1>4, Whole

\* What t holds and has flagged now.
LEMMA HoldsNow ==
  ASSUME IInv, NEW t \in Threads
  PROVE  /\ Holds(t) /\ Flagged(t) /\ Keyed(t)
         /\ DOMAIN named = Threads /\ DOMAIN wrapper = Threads /\ DOMAIN local = Threads
  BY DEF IInv, HoldInv, KeyInv, Keyed, Flagged

\* Entries leave the map of t, or lose flags.
LEMMA NamedShrinks ==
  ASSUME IInv, NEW t \in Threads, UNCHANGED <<object, wrapper, local>>,
         DOMAIN named' = Threads, \A u \in Threads \ {t} : named'[u] = named[u],
         DOMAIN named'[t] \subseteq DOMAIN named[t],
         \A j \in DOMAIN named'[t] : /\ named'[t][j] \in Entries
                                     /\ named'[t][j].id = named[t][j].id
                                     /\ named'[t][j].types \subseteq named[t][j].types,
         exports \subseteq exports'
  PROVE  Holds(t)' /\ Flagged(t)' /\ OthersMaps(t)
<1>1. Holds(t) /\ Flagged(t) BY HoldsNow
<1>2. \A k, i : Owned(t, k, i)' <=> Owned(t, k, i) BY DEF Owned
<1>3. Holds(t)'
  <2>1. \A j \in DOMAIN named'[t] : named'[t][j] \in Entries /\ Owned(t, j, named[t][j].id)'
    BY <1>1, <1>2 DEF Holds
  <2> QED BY <1>1, <1>2, <2>1 DEF Holds
<1>4. Flagged(t)' BY <1>1 DEF Flagged
<1>5. OthersMaps(t) BY HoldsNow DEF OthersMaps
<1> QED BY <1>3, <1>4, <1>5

\* clearStat().
LEMMA ClearStatTypeStep ==
  ASSUME IInv, NEW t \in Threads, NEW k \in Keys, NEW type \in Types, ClearStatType(t, k, type)
  PROVE  IInv'
<1>1. ClearStat(t, k, type) /\ UNCHANGED <<pc, memoVars>> /\ Elsewhere BY DEF ClearStatType
<1>2. UNCHANGED <<object, wrapper, local, hand, sum, added>> /\ exports \subseteq exports'
  BY <1>1 DEF ClearStat
<1>3. Holds(t) /\ DOMAIN named = Threads BY HoldsNow
<1>6. Holds(t)' /\ Flagged(t)' /\ OthersMaps(t)
  <2>1. CASE k \notin DOMAIN named[t]
    <3>1. UNCHANGED named BY <1>1, <2>1 DEF ClearStat
    <3> QED BY <1>2, <1>3, <3>1, NamedShrinks DEF Holds
  <2>2. CASE k \in DOMAIN named[t]
    <3>1. PICK e \in Entries : e = named[t][k] BY <1>3, <2>2 DEF Holds
    <3> DEFINE x == [e EXCEPT !.types = @ \ {type}]
    <3>2. x \in Entries /\ x.id = e.id /\ x.types \subseteq e.types BY DEF Entries
    <3>3. named' = [named EXCEPT ![t] = [named[t] EXCEPT ![k] = x]]
      BY <1>1, <2>2, <3>1 DEF ClearStat
    <3> HIDE DEF x
    <3>4. /\ DOMAIN named' = Threads /\ \A u \in Threads \ {t} : named'[u] = named[u]
          /\ named'[t] = [named[t] EXCEPT ![k] = x]
      BY <1>3, <3>3
    <3>5. /\ DOMAIN named'[t] = DOMAIN named[t]
          /\ \A j \in DOMAIN named[t] : /\ named'[t][j] \in Entries
                                        /\ named'[t][j].id = named[t][j].id
                                        /\ named'[t][j].types \subseteq named[t][j].types
      BY <1>3, <3>1, <3>2, <3>4 DEF Holds
    <3> QED BY <1>2, <3>4, <3>5, NamedShrinks
  <2> QED BY <2>1, <2>2
<1>7. MapPart' BY <1>1, <1>2, <1>6, ThreadQuiet
<1>8. KeyPart' BY <1>1, <1>2, <1>6, KeyQuiet
<1> QED BY <1>7, <1>8, Whole

\* clearTimeseriesSafe() of some keys.
LEMMA ClearTimeseriesIs ==
  ASSUME IInv, NEW t \in Threads, NEW ks, ClearTimeseriesSafe(t, ks)
  PROVE  /\ DOMAIN named' = Threads /\ \A u \in Threads \ {t} : named'[u] = named[u]
         /\ DOMAIN named'[t] \subseteq DOMAIN named[t]
         /\ \A j \in DOMAIN named'[t] : named'[t][j] = named[t][j] /\ named[t][j] \in Entries
<1>1. Holds(t) /\ DOMAIN named = Threads BY HoldsNow
<1>2. named' = [named EXCEPT ![t] = Restrict(named[t], DOMAIN named[t] \ ks)]
  BY DEF ClearTimeseriesSafe
<1>3. named'[t] = Restrict(named[t], DOMAIN named[t] \ ks) BY <1>1, <1>2
<1>4. /\ DOMAIN named'[t] = DOMAIN named[t] \ ks
      /\ \A j \in DOMAIN named[t] \ ks : named'[t][j] = named[t][j]
  BY <1>3 DEF Restrict
<1> QED BY <1>1, <1>2, <1>4 DEF Holds

\* resetAllData().
LEMMA ResetAllDataStep ==
  ASSUME IInv, NEW t \in Threads, ResetAllData(t)
  PROVE  IInv'
<1>1. /\ ClearTimeseriesSafe(t, Keys) /\ UNCHANGED <<pc, memoVars>> /\ Elsewhere
      /\ UNCHANGED <<object, wrapper, local, exports, hand, sum, added>>
  BY DEF ResetAllData
<1>2. /\ DOMAIN named' = Threads /\ \A u \in Threads \ {t} : named'[u] = named[u]
      /\ DOMAIN named'[t] \subseteq DOMAIN named[t]
      /\ \A j \in DOMAIN named'[t] : named'[t][j] = named[t][j] /\ named[t][j] \in Entries
  BY <1>1, ClearTimeseriesIs
<1>3. Holds(t)' /\ Flagged(t)' /\ OthersMaps(t) BY <1>1, <1>2, NamedShrinks
<1>4. MapPart' BY <1>1, <1>3, ThreadQuiet
<1>5. KeyPart' BY <1>1, <1>3, KeyQuiet
<1> QED BY <1>4, <1>5, Whole

\* add() of the wrapper of a fixed key.
LEMMA AddToWrapperStep ==
  ASSUME IInv, NEW t \in Threads, AddToWrapper(t)
  PROVE  IInv'
<1>1. WrapperAdd(t) /\ UNCHANGED <<pc, memoVars>> /\ Elsewhere BY DEF AddToWrapper
<1> DEFINE k == FixedKey
<1>2. PICK e \in Entries :
         /\ IF wrapper[t] # Empty
            THEN e = [id |-> wrapper[t][1].id, types |-> {}] /\ UNCHANGED named
            ELSE GetStatSafe(t, e)
         /\ object' = Updated(t, k, e, 1)
         /\ wrapper' = [wrapper EXCEPT ![t] = <<[id |-> e.id]>>]
  BY <1>1 DEF WrapperAdd
<1>3. /\ added' = [added EXCEPT ![k] = @ + 1] /\ UNCHANGED <<local, exports, hand, sum>>
  BY <1>1 DEF WrapperAdd
<1>4. k \in Keys BY MapAssumption
<1>5. /\ Holds(t) /\ Flagged(t) /\ DOMAIN named = Threads /\ DOMAIN wrapper = Threads
      /\ DOMAIN local = Threads
  BY HoldsNow
<1> HIDE DEF k
<1>6. e.id \in 1..MaxObjects BY DEF Entries
<1>7. e.id \in DOMAIN object => Owned(t, k, e.id)
  <2>1. CASE wrapper[t] # Empty
    <3>1. e.id = wrapper[t][1].id BY <1>2, <2>1
    <3> QED BY <1>5, <2>1, <3>1 DEF Holds, k
  <2>2. CASE wrapper[t] = Empty
    <3>1. TryInsertLocked(t, k, e) BY <1>2, <2>2 DEF GetStatSafe, k
    <3> QED BY <1>4, <3>1, InsertIs
  <2> QED BY <2>1, <2>2
<1>8. WithMore(object, object', t, k, e.id, 1) /\ ObjectsOK(object')
  BY <1>2, <1>4, <1>6, <1>7, UpdatedIs
<1>9. Owned(t, k, e.id)' /\ \A j, m : Owned(t, j, m) => Owned(t, j, m)' BY <1>8, MoreOwned
<1>10. /\ DOMAIN wrapper' = Threads /\ \A u \in Threads \ {t} : wrapper'[u] = wrapper[u]
       /\ wrapper'[t] = <<[id |-> e.id]>>
  BY <1>2, <1>5
<1>11. DOMAIN wrapper'[t] = {1} /\ wrapper'[t][1].id = e.id BY <1>10
<1>12. /\ DOMAIN named' = Threads /\ \A u \in Threads \ {t} : named'[u] = named[u]
       /\ DOMAIN named'[t] \subseteq DOMAIN named[t] \cup {k}
       /\ \A j \in DOMAIN named'[t] : \/ j \in DOMAIN named[t] /\ named'[t][j] = named[t][j]
                                      \/ /\ j = k /\ named'[t][j] = e
                                         /\ {k} \X e.types \subseteq exports
  <2>1. CASE wrapper[t] # Empty BY <1>2, <1>5, <2>1
  <2>2. CASE wrapper[t] = Empty
    <3>1. TryInsertLocked(t, k, e) /\ SetNamed(t, k, e) BY <1>2, <2>2 DEF GetStatSafe, k
    <3>2. {k} \X e.types \subseteq exports BY <1>4, <3>1, InsertIs
    <3>3. /\ DOMAIN named' = Threads /\ \A u \in Threads \ {t} : named'[u] = named[u]
          /\ DOMAIN named'[t] = DOMAIN named[t] \cup {k} /\ named'[t][k] = e
          /\ \A j \in DOMAIN named[t] \ {k} : named'[t][j] = named[t][j]
      BY <3>1, SetNamedIs
    <3> QED BY <3>2, <3>3
  <2> QED BY <2>1, <2>2
<1>13. Holds(t)'
  <2>1. DOMAIN named'[t] \subseteq Keys BY <1>4, <1>5, <1>12 DEF Holds
  <2>2. \A j \in DOMAIN named'[t] : named'[t][j] \in Entries /\ Owned(t, j, named[t][j].id)'
    BY <1>5, <1>9, <1>12 DEF Holds
  <2>3. DOMAIN wrapper'[t] = {1} /\ Owned(t, FixedKey, wrapper[t][1].id)'
    BY <1>9, <1>11 DEF k
  <2>4. /\ DOMAIN local'[t] \subseteq Subkeys
        /\ \A s \in DOMAIN local'[t] : Owned(t, Format[s], local[t][s].id)'
    BY <1>3, <1>5, <1>9 DEF Holds
  <2> QED BY <2>1, <2>2, <2>3, <2>4 DEF Holds
<1>14. Flagged(t)' BY <1>3, <1>5, <1>12 DEF Flagged
<1>15. OthersMaps(t) BY <1>3, <1>5, <1>10, <1>12 DEF OthersMaps
<1>16. MapPart' BY <1>1, <1>3, <1>4, <1>8, <1>13, <1>15, ThreadAdds
<1>17. KeyPart' BY <1>1, <1>3, <1>14, <1>15, KeyQuiet
<1> QED BY <1>16, <1>17, Whole

-----------------------------------------------------------------------------
(***************************************************************************)
(* Subkeys.                                                                *)
(***************************************************************************)
\* A thread has filled its local map, and may have entered the subkey.
LEMMA FilledStep ==
  ASSUME IInv, NEW t \in Threads, NEW s \in Subkeys, FillLocal(t, s), Elsewhere,
         call'[t].sub = s, DOMAIN call' = Threads,
         \A u \in Threads \ {t} : call'[u] = call[u],
         globalMap' = globalMap \cup {s}, Exported(Format[s])
  PROVE  MapPart' /\ KeyInv'
<1>1. /\ \E i : WithMore(object, object', t, Format[s], i, 0)
      /\ ObjectsOK(object') /\ Holds(t)' /\ OthersMaps(t) /\ Flagged(t)'
      /\ added' = [added EXCEPT ![Format[s]] = @ + 0]
      /\ DOMAIN local'[t] = DOMAIN local[t] \cup {s}
      /\ last'[t].sub = s /\ local'[t][s].id = last'[t].id
      /\ DOMAIN last' = Threads /\ \A u \in Threads \ {t} : last'[u] = last[u]
      /\ Goto(t, "use") /\ UNCHANGED <<wrapper, exports, hand, sum>>
  BY FillLocalIs
<1>2. /\ DOMAIN pc' = Actors /\ pc'[t] = "use"
      /\ \A b \in Actors \ {t} : pc'[b] = pc[b]
  BY <1>1, ActorsDiffer, GotoIs
<1>3. Format[s] \in Keys BY FormatAssumption
<1>4. \A p \in Publishers : pc'[p] = pc[p] BY <1>2, ActorsDiffer
<1>5. MapPart' BY <1>1, <1>3, <1>4, ThreadAdds
<1>6. Keyed(t) BY HoldsNow
<1>7. Keyed(t)'
  <2>1. DOMAIN local'[t] \subseteq globalMap' BY <1>1, <1>6 DEF Keyed
  <2> QED BY <1>1, <1>2, <2>1 DEF Keyed, Flagged
<1>8. \A u \in Threads \ {t} :
         /\ named'[u] = named[u] /\ local'[u] = local[u] /\ last'[u] = last[u]
         /\ call'[u] = call[u] /\ pc'[u] = pc[u]
  BY <1>1, <1>2, ActorsDiffer DEF OthersMaps
<1>9. Exported(Format[s])' BY <1>1 DEF Exported
<1>10. KeyInv' BY <1>1, <1>2, <1>7, <1>8, <1>9, KeyFrame
<1> QED BY <1>5, <1>10

\* A call that leaves the maps alone.
LEMMA MapsSame ==
  ASSUME IInv, NEW t \in Threads, UNCHANGED mapVars, Elsewhere,
         \A p \in Publishers : pc'[p] = pc[p]
  PROVE  MapPart' /\ OthersMaps(t) /\ Flagged(t)' /\ UNCHANGED <<named, local, exports>>
<1>1. UNCHANGED <<object, named, wrapper, local, exports, hand, sum, added>>
  BY DEF mapVars, holdVars
<1>2. Holds(t) /\ Flagged(t) BY HoldsNow
<1>3. \A k, i : Owned(t, k, i)' <=> Owned(t, k, i) BY <1>1 DEF Owned
<1>4. Holds(t)' BY <1>1, <1>2, <1>3 DEF Holds
<1>5. OthersMaps(t) BY <1>1, HoldsNow DEF OthersMaps
<1>6. Flagged(t)' BY <1>1, <1>2 DEF Flagged
<1>7. MapPart' BY <1>1, <1>4, <1>5, ThreadQuiet
<1> QED BY <1>1, <1>5, <1>6, <1>7

\* A thread that leaves the maps alone goes on with a subkey.
LEMMA MovesOn ==
  ASSUME IInv, NEW t \in Threads, NEW where, UNCHANGED mapVars, Elsewhere, Goto(t, where),
         UNCHANGED globalMap, DOMAIN last' = Threads, DOMAIN call' = Threads,
         \A u \in Threads \ {t} : last'[u] = last[u] /\ call'[u] = call[u],
         last'[t] # NoItem => /\ last'[t].sub \in DOMAIN local[t]
                              /\ local[t][last'[t].sub].id = last'[t].id,
         where = "use" => last'[t].sub = call'[t].sub,
         where \in {"upgrade", "prepare", "use"} => call'[t].sub \in Subkeys,
         where # "emplace"
  PROVE  /\ MapPart' /\ KeyInv' /\ pc'[t] = where
         /\ \A u \in Threads \ {t} : pc'[u] = pc[u]
<1>1. DOMAIN pc' = Actors /\ pc'[t] = where /\ \A b \in Actors \ {t} : pc'[b] = pc[b]
  BY ActorsDiffer, GotoIs
<1>2. \A p \in Publishers : pc'[p] = pc[p] BY <1>1, ActorsDiffer
<1>3. /\ MapPart' /\ OthersMaps(t) /\ Flagged(t)' /\ UNCHANGED <<named, local, exports>>
  BY <1>2, MapsSame
<1>4. Keyed(t) BY HoldsNow
<1>5. Keyed(t)' BY <1>1, <1>3, <1>4 DEF Keyed, Flagged
<1>6. \A u \in Threads \ {t} : pc'[u] = pc[u] BY <1>1, ActorsDiffer
<1>7. KeyInv' BY <1>1, <1>3, <1>5, <1>6, KeyFrame
<1> QED BY <1>1, <1>3, <1>6, <1>7

\* A call of the wrapper begins.
LEMMA CallDynamicStep ==
  ASSUME IInv, NEW t \in Threads, CallDynamic(t)
  PROVE  IInv'
<1>1. PICK op \in {"add", "addAggregated", "exportKey", "clear"}, s \in Subkeys :
         CallWrapper(t, op, s)
  BY DEF CallDynamic
<1>2. Elsewhere BY DEF CallDynamic
<1>3. UNCHANGED <<globalMap, upgrader, prepared>> /\ pc[t] = "idle"
  BY <1>1 DEF CallWrapper, globalVars, BeginCall, Idle
<1>4. /\ DOMAIN call' = Threads /\ call'[t].sub = s
      /\ \A u \in Threads \ {t} : call'[u] = call[u]
  <2>1. call' = [call EXCEPT ![t] = [op |-> op, sub |-> s]] BY <1>1 DEF CallWrapper
  <2>2. DOMAIN call = Threads BY DEF IInv, KeyInv
  <2>3. call'[t] = [op |-> op, sub |-> s] BY <2>1, <2>2
  <2> QED BY <2>1, <2>2, <2>3
<1>5. Keyed(t) /\ DOMAIN last = Threads BY HoldsNow DEF IInv, KeyInv
<1>6. CASE last[t].sub = s /\ Goto(t, "use") /\ UNCHANGED <<mapVars, last>>
  <2>1. /\ MapPart' /\ KeyInv' /\ pc'[t] = "use"
        /\ \A u \in Threads \ {t} : pc'[u] = pc[u]
    BY <1>2, <1>3, <1>4, <1>5, <1>6, MovesOn DEF Keyed
  <2>2. UpgradeInv' BY <1>3, <1>4, <2>1, UpgradeFrame
  <2> QED BY <2>1, <2>2, Whole DEF KeyPart
<1>7. CASE s \in DOMAIN local[t] /\ Found(t, s, local[t][s].id) /\ UNCHANGED mapVars
  <2>1. /\ Goto(t, "use") /\ last'[t] = [sub |-> s, id |-> local[t][s].id]
        /\ DOMAIN last' = Threads /\ \A u \in Threads \ {t} : last'[u] = last[u]
    BY <1>5, <1>7 DEF Found
  <2>2. last'[t].sub = s /\ last'[t].id = local[t][s].id BY <2>1
  <2>3. /\ MapPart' /\ KeyInv' /\ pc'[t] = "use"
        /\ \A u \in Threads \ {t} : pc'[u] = pc[u]
    BY <1>2, <1>3, <1>4, <1>7, <2>1, <2>2, MovesOn
  <2>4. UpgradeInv' BY <1>3, <1>4, <2>3, UpgradeFrame
  <2> QED BY <2>3, <2>4, Whole DEF KeyPart
<1>8. CASE s \in globalMap /\ FillLocal(t, s)
  <2>1. Exported(Format[s]) BY <1>8 DEF IInv, KeyInv
  <2>2. globalMap' = globalMap \cup {s} BY <1>3, <1>8
  <2>3. MapPart' /\ KeyInv' BY <1>2, <1>4, <1>8, <2>1, <2>2, FilledStep
  <2>4. Goto(t, "use") BY <1>8, FillLocalIs
  <2>5. pc'[t] = "use" /\ \A u \in Threads \ {t} : pc'[u] = pc[u]
    BY <2>4, GotoIs, ActorsDiffer
  <2>6. UpgradeInv' BY <1>3, <1>4, <2>5, UpgradeFrame
  <2> QED BY <2>3, <2>6, Whole DEF KeyPart
<1>9. CASE Goto(t, "upgrade") /\ UNCHANGED <<mapVars, last>>
  <2>1. /\ MapPart' /\ KeyInv' /\ pc'[t] = "upgrade"
        /\ \A u \in Threads \ {t} : pc'[u] = pc[u]
    BY <1>2, <1>3, <1>4, <1>5, <1>9, MovesOn DEF Keyed
  <2>2. UpgradeInv' BY <1>3, <1>4, <2>1, UpgradeFrame
  <2> QED BY <2>1, <2>2, Whole DEF KeyPart
<1> QED BY <1>1, <1>6, <1>7, <1>8, <1>9 DEF CallWrapper

\* The second look.
LEMMA LookAgainStep ==
  ASSUME IInv, NEW t \in Threads, LookAgain(t), Elsewhere
  PROVE  IInv'
<1> DEFINE s == call[t].sub
<1>1. /\ pc[t] = "upgrade" /\ upgrader = None
      /\ UNCHANGED <<globalMap, prepared, call>>
  BY DEF LookAgain
<1>2. Keyed(t) /\ DOMAIN last = Threads /\ DOMAIN call = Threads BY HoldsNow DEF IInv, KeyInv
<1>3. s \in Subkeys BY <1>1, <1>2 DEF Keyed
<1>4. CASE s \in globalMap /\ FillLocal(t, s) /\ UNCHANGED upgrader
  <2>1. Exported(Format[s]) BY <1>4 DEF IInv, KeyInv
  <2>2. globalMap' = globalMap \cup {s} BY <1>1, <1>4
  <2>3. call'[t].sub = s BY <1>1
  <2>4. PICK x \in Subkeys : x = s BY <1>3
  <2>5. MapPart' /\ KeyInv'
    <3>1. /\ FillLocal(t, x) /\ call'[t].sub = x /\ globalMap' = globalMap \cup {x}
          /\ Exported(Format[x]) /\ DOMAIN call' = Threads
          /\ \A u \in Threads \ {t} : call'[u] = call[u]
      BY <1>1, <1>2, <1>4, <2>1, <2>2, <2>3, <2>4
    <3> QED BY <3>1, FilledStep
  <2>6. Goto(t, "use")
    <3>1. FillLocal(t, x) BY <1>4, <2>4
    <3> QED BY <3>1, FillLocalIs
  <2>7. pc'[t] = "use" /\ \A u \in Threads \ {t} : pc'[u] = pc[u]
    BY <2>6, GotoIs, ActorsDiffer
  <2>8. UpgradeInv' BY <1>1, <1>4, <2>7, UpgradeFrame
  <2> QED BY <2>5, <2>8, Whole DEF KeyPart
<1>5. CASE s \notin globalMap /\ Goto(t, "prepare") /\ upgrader' = t /\ UNCHANGED <<mapVars, last>>
  <2>1. /\ MapPart' /\ KeyInv' /\ pc'[t] = "prepare"
        /\ \A u \in Threads \ {t} : pc'[u] = pc[u]
    <3>1. call'[t].sub \in Subkeys BY <1>1, <1>3
    <3> QED BY <1>1, <1>2, <1>5, <3>1, MovesOn DEF Keyed
  <2>2. \A u \in Threads : pc[u] \notin {"prepare", "emplace"}
    BY <1>1, ActorsDiffer DEF IInv, UpgradeInv
  <2>3. \A u \in Threads : /\ pc'[u] \in {"prepare", "emplace"} <=> upgrader' = u
                           /\ upgrader' = u => call'[u].sub \notin globalMap'
    BY <1>1, <1>5, <2>1, <2>2
  <2>4. \A x \in Subkeys \ globalMap : prepared[x] # 1 BY <2>2 DEF IInv, UpgradeInv
  <2>5. UpgradeInv' BY <1>1, <2>3, <2>4 DEF IInv, UpgradeInv
  <2> QED BY <2>1, <2>5, Whole DEF KeyPart
<1> QED BY <1>4, <1>5 DEF LookAgain

\* The new key is exported, under the upgrade lock.
LEMMA PrepareKeyStep ==
  ASSUME IInv, NEW t \in Threads, PrepareKey(t), Elsewhere
  PROVE  IInv'
<1> DEFINE s == call[t].sub
<1>1. /\ pc[t] = "prepare" /\ exports' = exports \cup ({Format[s]} \X Types)
      /\ prepared' = [prepared EXCEPT ![s] = @ + 1] /\ Goto(t, "emplace")
      /\ UNCHANGED <<object, named, wrapper, local, hand, sum, added>>
      /\ UNCHANGED <<globalMap, upgrader, last, call>>
  BY DEF PrepareKey, holdVars, FormatKey
<1>2. /\ Keyed(t) /\ Holds(t) /\ Flagged(t) /\ DOMAIN last = Threads /\ DOMAIN call = Threads
  BY HoldsNow DEF IInv, KeyInv
<1>3. s \in Subkeys BY <1>1, <1>2 DEF Keyed
<1>4. DOMAIN pc' = Actors /\ pc'[t] = "emplace" /\ \A b \in Actors \ {t} : pc'[b] = pc[b]
  BY <1>1, ActorsDiffer, GotoIs
<1>5. \A p \in Publishers : pc'[p] = pc[p] BY <1>4, ActorsDiffer
<1>6. \A u \in Threads \ {t} : pc'[u] = pc[u] BY <1>4, ActorsDiffer
<1>7. OthersMaps(t) BY <1>1, HoldsNow DEF OthersMaps
<1>8. \A k, i : Owned(t, k, i)' <=> Owned(t, k, i) BY <1>1 DEF Owned
<1>9. Holds(t)' BY <1>1, <1>2, <1>8 DEF Holds
<1>10. MapPart' BY <1>1, <1>5, <1>7, <1>9, ThreadQuiet
<1>11. exports \subseteq exports' /\ Exported(Format[s])' BY <1>1 DEF Exported
<1>12. Flagged(t)' BY <1>1, <1>2, <1>11 DEF Flagged
<1>13. Keyed(t)'
  <2>1. Exported(Format[call[t].sub])' BY <1>1, <1>11 DEF Exported
  <2> QED BY <1>1, <1>2, <1>3, <1>4, <1>12, <2>1 DEF Keyed, Flagged
<1>14. KeyInv' BY <1>1, <1>2, <1>4, <1>6, <1>11, <1>13, KeyFrame
<1>15. UpgradeInv'
  <2>1. upgrader = t /\ s \notin globalMap BY <1>1 DEF IInv, UpgradeInv
  <2>2. \A u \in Threads \ {t} : pc[u] \notin {"prepare", "emplace"}
    BY <2>1 DEF IInv, UpgradeInv
  <2>3. prepared \in [Subkeys -> 0..1] BY DEF IInv, UpgradeInv
  <2>4. \A x \in Subkeys \ globalMap : prepared[x] = 0
    <3>1. \A x \in Subkeys \ globalMap : prepared[x] # 1
      BY <1>1, <2>2 DEF IInv, UpgradeInv
    <3> QED BY <2>3, <3>1
  <2>5. prepared[s] = 0 BY <1>3, <2>1, <2>4
  <2>6. /\ prepared' \in [Subkeys -> 0..1]
        /\ \A x \in Subkeys \ globalMap : prepared'[x] = 1 => x = s
    BY <1>1, <1>3, <2>3, <2>4, <2>5
  <2>7. \A u \in Threads : /\ pc'[u] \in {"prepare", "emplace"} <=> upgrader' = u
                           /\ upgrader' = u => call'[u].sub \notin globalMap'
    BY <1>1, <1>4, <1>6, <2>1, <2>2
  <2>8. \A x \in Subkeys \ globalMap' : prepared'[x] = 1 =>
           \E u \in Threads : pc'[u] = "emplace" /\ call'[u].sub = x
    BY <1>1, <1>4, <2>6
  <2> QED BY <2>6, <2>7, <2>8 DEF UpgradeInv
<1> QED BY <1>10, <1>14, <1>15, Whole DEF KeyPart

\* The subkey is entered, and the upgrade lock let go.
LEMMA EmplaceStep ==
  ASSUME IInv, NEW t \in Threads, Emplace(t), Elsewhere
  PROVE  IInv'
<1>1. Keyed(t) /\ DOMAIN call = Threads BY HoldsNow DEF IInv, KeyInv
<1>2. pc[t] = "emplace" BY DEF Emplace
<1>3. PICK s \in Subkeys : s = call[t].sub BY <1>1, <1>2 DEF Keyed
<1>4. /\ globalMap' = globalMap \cup {s} /\ upgrader' = None /\ FillLocal(t, s)
      /\ UNCHANGED <<prepared, call>>
  BY <1>3 DEF Emplace
<1>5. Exported(Format[s]) BY <1>1, <1>2, <1>3 DEF Keyed
<1>6. call'[t].sub = s /\ DOMAIN call' = Threads /\ \A u \in Threads \ {t} : call'[u] = call[u]
  BY <1>1, <1>3, <1>4
<1>7. MapPart' /\ KeyInv' BY <1>4, <1>5, <1>6, FilledStep
<1>8. Goto(t, "use") BY <1>4, FillLocalIs
<1>9. pc'[t] = "use" /\ \A u \in Threads \ {t} : pc'[u] = pc[u]
  BY <1>8, GotoIs, ActorsDiffer
<1>10. UpgradeInv'
  <2>1. upgrader = t BY <1>2 DEF IInv, UpgradeInv
  <2>2. \A u \in Threads : pc'[u] \notin {"prepare", "emplace"}
    BY <1>9, <2>1 DEF IInv, UpgradeInv
  <2>3. ASSUME NEW x \in Subkeys \ globalMap', prepared[x] = 1 PROVE FALSE
    <3>1. PICK u \in Threads : pc[u] = "emplace" /\ call[u].sub = x
      BY <1>4, <2>3 DEF IInv, UpgradeInv
    <3>2. u # t BY <1>3, <1>4, <3>1
    <3> QED BY <2>1, <3>1, <3>2 DEF IInv, UpgradeInv
  <2>4. \A u \in Threads : upgrader' # u BY <1>4, ActorsDiffer
  <2> QED BY <1>4, <2>2, <2>3, <2>4 DEF IInv, UpgradeInv
<1> QED BY <1>7, <1>10, Whole DEF KeyPart

\* A thread has the entry it looked for.
LEMMA UseEntryStep ==
  ASSUME IInv, NEW t \in Threads, UseEntry(t), Elsewhere
  PROVE  IInv'
<1>1. /\ pc[t] = "use" /\ Goto(t, "idle") /\ call' = [call EXCEPT ![t] = NoCall]
      /\ UNCHANGED <<globalMap, upgrader, prepared>>
  BY DEF UseEntry, globalVars
<1>2. /\ Keyed(t) /\ Holds(t) /\ Flagged(t) /\ DOMAIN last = Threads /\ DOMAIN call = Threads
  BY HoldsNow DEF IInv, KeyInv
<1>3. PICK s \in Subkeys : s = call[t].sub BY <1>1, <1>2 DEF Keyed
<1>4. Format[s] \in Keys BY FormatAssumption
<1>5. DOMAIN pc' = Actors /\ pc'[t] = "idle" /\ \A b \in Actors \ {t} : pc'[b] = pc[b]
  BY <1>1, ActorsDiffer, GotoIs
<1>6. \A p \in Publishers : pc'[p] = pc[p] BY <1>5, ActorsDiffer
<1>7. DOMAIN call' = Threads /\ \A u \in Threads \ {t} : call'[u] = call[u] /\ pc'[u] = pc[u]
  BY <1>1, <1>2, <1>5, ActorsDiffer
<1>8. UpgradeInv' BY <1>1, <1>5, <1>7, UpgradeFrame
<1>9. ASSUME OthersMaps(t), Flagged(t)', exports \subseteq exports',
             DOMAIN last' = Threads, \A u \in Threads \ {t} : last'[u] = last[u],
             DOMAIN local'[t] \subseteq DOMAIN local[t],
             last'[t] # NoItem => /\ last'[t].sub \in DOMAIN local'[t]
                                  /\ local'[t][last'[t].sub].id = last'[t].id
      PROVE  KeyInv'
  <2>1. Keyed(t)' BY <1>1, <1>2, <1>5, <1>9 DEF Keyed, Flagged
  <2> QED BY <1>1, <1>5, <1>7, <1>9, <2>1, KeyFrame DEF OthersMaps
<1>10. CASE AddEntry(t)
  <2>1. /\ UNCHANGED <<named, wrapper, local, exports, hand, sum, last>>
        /\ added' = [added EXCEPT ![Format[s]] = @ + 1]
        /\ object' = Updated(t, Format[s], [id |-> last[t].id], 1)
    BY <1>3, <1>10 DEF AddEntry, holdVars, FormatKey
  <2>2. last[t].sub = s BY <1>1, <1>2, <1>3 DEF Keyed
  <2>3. NoItem.sub = None /\ None \notin Subkeys BY FormatAssumption DEF NoItem
  <2>4. last[t] # NoItem BY <2>2, <2>3
  <2>5. s \in DOMAIN local[t] /\ local[t][s].id = last[t].id BY <1>2, <2>2, <2>4 DEF Keyed
  <2>6. PICK i : i = last[t].id OBVIOUS
  <2>7. Owned(t, Format[s], i) BY <1>2, <2>5, <2>6 DEF Holds
  <2>8. PICK e : e = [id |-> i] OBVIOUS
  <2>9. e.id = i /\ i \in 1..MaxObjects BY <2>7, <2>8 DEF Owned, IInv, MapInv, ObjectsOK
  <2>10. object' = Updated(t, Format[s], e, 1) BY <2>1, <2>6, <2>8
  <2>11. WithMore(object, object', t, Format[s], i, 1) /\ ObjectsOK(object')
    <3>1. WithMore(object, object', t, Format[s], e.id, 1) /\ ObjectsOK(object')
      BY <1>4, <2>7, <2>9, <2>10, UpdatedIs
    <3> QED BY <2>9, <3>1
  <2>12. \A j, m : Owned(t, j, m) => Owned(t, j, m)' BY <2>11, MoreOwned
  <2>13. Holds(t)' BY <1>2, <2>1, <2>12 DEF Holds
  <2>14. OthersMaps(t) BY <2>1, HoldsNow DEF OthersMaps
  <2>15. MapPart' BY <1>4, <1>6, <2>1, <2>11, <2>13, <2>14, ThreadAdds
  <2>16. Flagged(t)' BY <1>2, <2>1 DEF Flagged
  <2>17. KeyInv' BY <1>2, <1>9, <2>1, <2>14, <2>16 DEF Keyed
  <2> QED BY <1>8, <2>15, <2>17, Whole DEF KeyPart
<1>11. CASE AddAggregated(t)
  <2>1. AddNamed(t, Format[s], {}) /\ UNCHANGED last BY <1>3, <1>11 DEF AddAggregated, FormatKey
  <2>2. /\ \E i : WithMore(object, object', t, Format[s], i, 1)
        /\ ObjectsOK(object') /\ Holds(t)' /\ OthersMaps(t) /\ Flagged(t)'
        /\ exports \subseteq exports' /\ added' = [added EXCEPT ![Format[s]] = @ + 1]
        /\ UNCHANGED <<wrapper, local, hand, sum>>
    BY <1>4, <2>1, AddNamedIs
  <2>3. MapPart' BY <1>4, <1>6, <2>2, ThreadAdds
  <2>4. KeyInv' BY <1>2, <1>9, <2>1, <2>2 DEF Keyed
  <2> QED BY <1>8, <2>3, <2>4, Whole DEF KeyPart
<1>12. CASE ExportKey(t)
  <2>1. UNCHANGED mapVars /\ UNCHANGED last BY <1>12 DEF ExportKey
  <2>2. /\ MapPart' /\ OthersMaps(t) /\ Flagged(t)' /\ UNCHANGED <<named, local, exports>>
    BY <1>6, <2>1, MapsSame
  <2>3. KeyInv' BY <1>2, <1>9, <2>1, <2>2 DEF Keyed
  <2> QED BY <1>8, <2>2, <2>3, Whole DEF KeyPart
<1>13. CASE ClearKey(t)
  <2>1. /\ ClearTimeseriesSafe(t, {Format[s]}) /\ EraseFormattedKey(t, s)
        /\ exports \subseteq exports' /\ UNCHANGED <<object, wrapper, hand, sum, added>>
    BY <1>3, <1>13 DEF ClearKey, FormatKey
  <2>2. /\ DOMAIN named' = Threads /\ \A u \in Threads \ {t} : named'[u] = named[u]
        /\ DOMAIN named'[t] \subseteq DOMAIN named[t]
        /\ \A j \in DOMAIN named'[t] : named'[t][j] = named[t][j] /\ named[t][j] \in Entries
    BY <2>1, ClearTimeseriesIs
  <2>3. /\ DOMAIN local = Threads /\ DOMAIN wrapper = Threads
        /\ local' = [local EXCEPT ![t] = Restrict(local[t], DOMAIN local[t] \ {s})]
        /\ last' = [last EXCEPT ![t] = NoItem]
    BY <2>1, HoldsNow DEF EraseFormattedKey
  <2>4. /\ DOMAIN local' = Threads /\ \A u \in Threads \ {t} : local'[u] = local[u]
        /\ local'[t] = Restrict(local[t], DOMAIN local[t] \ {s})
    BY <2>3
  <2>5. /\ DOMAIN local'[t] \subseteq DOMAIN local[t]
        /\ \A y \in DOMAIN local'[t] : local'[t][y] = local[t][y]
    BY <2>4 DEF Restrict
  <2>6. DOMAIN last' = Threads /\ last'[t] = NoItem /\ \A u \in Threads \ {t} : last'[u] = last[u]
    BY <1>2, <2>3
  <2>7. \A k, i : Owned(t, k, i)' <=> Owned(t, k, i) BY <2>1 DEF Owned
  <2>8. Holds(t)'
    <3>1. \A j \in DOMAIN named'[t] : named'[t][j] \in Entries /\ Owned(t, j, named[t][j].id)'
      BY <1>2, <2>2, <2>7 DEF Holds
    <3>2. \A y \in DOMAIN local'[t] : Owned(t, Format[y], local[t][y].id)'
      BY <1>2, <2>5, <2>7 DEF Holds
    <3> QED BY <1>2, <2>1, <2>2, <2>5, <2>7, <3>1, <3>2 DEF Holds
  <2>9. OthersMaps(t) BY <2>1, <2>2, <2>3, <2>4 DEF OthersMaps
  <2>10. Flagged(t)' BY <1>2, <2>1, <2>2 DEF Flagged
  <2>11. MapPart' BY <1>6, <2>1, <2>8, <2>9, ThreadQuiet
  <2>12. KeyInv' BY <1>9, <2>1, <2>5, <2>6, <2>9, <2>10
  <2> QED BY <1>8, <2>11, <2>12, Whole DEF KeyPart
<1> QED BY <1>10, <1>11, <1>12, <1>13 DEF UseEntry

-----------------------------------------------------------------------------
(***************************************************************************)
(* The end of threads and of objects.                                      *)
(***************************************************************************)
\* Values go from an object into a hand.
LEMMA TakeAmounts ==
  ASSUME IInv, NEW a \in Actors, NEW i \in DOMAIN object, Take(a, i), NEW k \in Keys
  PROVE  LET v == IF object[i].key = k THEN object[i].value ELSE 0
         IN  /\ v \in Nat
             /\ \A who : HandAmount(hand', k, who)
                           = HandAmount(hand, k, who) + IF a \in who THEN v ELSE 0
             /\ \A ts, ids : Amount(object, k, ts, ids) = Amount(object', k, ts, ids)
                                + IF object[i].thread \in ts \/ i \in ids THEN v ELSE 0
<1> DEFINE v == IF object[i].key = k THEN object[i].value ELSE 0
<1>1. /\ Emptied(object, object', i) /\ ObjectsOK(object')
      /\ hand' \in [Actors -> Hands] /\ hand[a] = NoKey
      /\ hand'[a] = [key |-> object[i].key, n |-> object[i].value]
      /\ \A b \in Actors \ {a} : hand'[b] = hand[b]
  BY TakeIs
<1>2. ObjectsOK(object) /\ hand \in [Actors -> Hands] BY DEF IInv, MapInv
<1>3. v \in Nat BY <1>2 DEF ObjectsOK, Objects
<1>4. hand'[a].key = object[i].key /\ hand'[a].n = object[i].value BY <1>1
<1>5. hand[a].n = 0 BY <1>1 DEF NoKey
<1>6. ASSUME NEW who
      PROVE  HandAmount(hand', k, who) = HandAmount(hand, k, who) + IF a \in who THEN v ELSE 0
  <2>1. PICK h, g : h = hand /\ g = hand' OBVIOUS
  <2>2. /\ h \in [Actors -> Hands] /\ g \in [Actors -> Hands]
        /\ \A b \in Actors \ {a} : g[b] = h[b]
    BY <1>1, <1>2, <2>1
  <2>3. PICK x, y : /\ x = IF a \in who /\ h[a].key = k THEN h[a].n ELSE 0
                    /\ y = IF a \in who /\ g[a].key = k THEN g[a].n ELSE 0
    OBVIOUS
  <2>4. HandAmount(g, k, who) + x = HandAmount(h, k, who) + y BY <2>2, <2>3, HandChanges
  <2>5. y = IF a \in who THEN v ELSE 0 BY <1>4, <2>1, <2>3
  <2>6. x = 0 /\ y \in Nat BY <1>3, <1>5, <2>1, <2>5, <2>3
  <2>7. HandAmount(h, k, who) \in Nat /\ HandAmount(g, k, who) \in Nat BY <2>2, HandsAre
  <2>8. HandAmount(g, k, who) = HandAmount(h, k, who) + y BY <2>4, <2>6, <2>7
  <2> QED BY <2>1, <2>5, <2>8
<1>7. ASSUME NEW ts, NEW ids
      PROVE  Amount(object, k, ts, ids) = Amount(object', k, ts, ids)
                 + IF object[i].thread \in ts \/ i \in ids THEN v ELSE 0
  <2>1. Amount(object, k, ts, ids) = Amount(object', k, ts, ids)
            + IF Covered(object, i, k, ts, ids) THEN object[i].value ELSE 0
    BY <1>1, <1>2, AmountEmptied
  <2>2. (IF Covered(object, i, k, ts, ids) THEN object[i].value ELSE 0)
          = IF object[i].thread \in ts \/ i \in ids THEN v ELSE 0
    BY DEF Covered
  <2> QED BY <2>1, <2>2
<1> QED BY <1>3, <1>6, <1>7

\* Taking keeps values.
LEMMA TakeConserves ==
  ASSUME IInv, NEW a \in Actors, NEW i \in DOMAIN object, Take(a, i), zeroed' = zeroed
  PROVE  MapInv' /\ ValuesConserved' /\ Kept(object, object')
<1>1. /\ Emptied(object, object', i) /\ ObjectsOK(object') /\ hand' \in [Actors -> Hands]
      /\ UNCHANGED <<sum, added>>
  BY TakeIs
<1>2. MapInv' BY <1>1 DEF IInv, MapInv
<1>3. ASSUME NEW k \in Keys
      PROVE  added'[k] = sum'[k] + zeroed'[k] + Amount(object', k, Threads, {})
                             + HandAmount(hand', k, Actors)
  <2> DEFINE v == IF object[i].key = k THEN object[i].value ELSE 0
  <2>1. /\ v \in Nat
        /\ HandAmount(hand', k, Actors) = HandAmount(hand, k, Actors) + v
        /\ Amount(object, k, Threads, {}) = Amount(object', k, Threads, {})
                                + IF object[i].thread \in Threads \/ i \in {} THEN v ELSE 0
    BY TakeAmounts
  <2>2. object[i].thread \in Threads BY DEF IInv, MapInv, ObjectsOK, Objects
  <2> HIDE DEF v
  <2>3. Amount(object, k, Threads, {}) = Amount(object', k, Threads, {}) + v BY <2>1, <2>2
  <2>4. /\ added[k] = sum[k] + zeroed[k] + Amount(object, k, Threads, {})
                          + HandAmount(hand, k, Actors)
        /\ sum[k] \in Nat /\ zeroed[k] \in Nat
    BY AmountsNow
  <2>5. HandAmount(hand, k, Actors) \in Nat BY Amounts DEF IInv
  <2>6. Amount(object', k, Threads, {}) \in Nat BY <1>2, AmountsNext
  <2> QED BY <1>1, <2>1, <2>3, <2>4, <2>5, <2>6
<1>4. ValuesConserved' BY <1>2, <1>3, ConservedNext
<1> QED BY <1>1, <1>2, <1>4, ObjectsKept

\* Values go from a hand into the exported statistic.
LEMMA DeliverValues ==
  ASSUME IInv, NEW a \in Actors, Deliver(a),
         UNCHANGED <<pc, listed, visit, zeroing, zeroed, before, carried>>
  PROVE  MapInv' /\ ValuesConserved' /\ ZeroInv'
<1> DEFINE d(k) == IF hand[a].key = k THEN hand[a].n ELSE 0
<1>1. /\ hand' \in [Actors -> Hands] /\ hand[a] # NoKey /\ hand'[a] = NoKey
      /\ hand[a].key \in Keys /\ hand[a].n \in Nat
      /\ \A b \in Actors \ {a} : hand'[b] = hand[b]
      /\ sum' \in [Keys -> Nat] /\ sum'[hand[a].key] = sum[hand[a].key] + hand[a].n
      /\ \A k \in Keys \ {hand[a].key} : sum'[k] = sum[k]
      /\ UNCHANGED <<object, added>>
  BY DeliverIs
<1>2. MapInv' BY <1>1 DEF IInv, MapInv
<1>3. hand \in [Actors -> Hands] BY DEF IInv, MapInv
<1>4. hand'[a].n = 0 BY <1>1 DEF NoKey
<1>5. ASSUME NEW k \in Keys
      PROVE  /\ d(k) \in Nat /\ sum'[k] = sum[k] + d(k) /\ sum[k] \in Nat
             /\ \A who : /\ HandAmount(hand, k, who)
                             = HandAmount(hand', k, who) + IF a \in who THEN d(k) ELSE 0
                        /\ HandAmount(hand', k, who) \in Nat
  <2>1. d(k) \in Nat BY <1>1
  <2>2. sum[k] \in Nat BY AmountsNow
  <2>3. sum'[k] = sum[k] + d(k) BY <1>1, <2>2
  <2>4. ASSUME NEW who
        PROVE  /\ HandAmount(hand, k, who)
                      = HandAmount(hand', k, who) + IF a \in who THEN d(k) ELSE 0
               /\ HandAmount(hand', k, who) \in Nat
    <3>1. PICK h, g : h = hand /\ g = hand' OBVIOUS
    <3>2. /\ h \in [Actors -> Hands] /\ g \in [Actors -> Hands]
          /\ \A b \in Actors \ {a} : g[b] = h[b]
      BY <1>1, <1>3, <3>1
    <3>3. PICK x, y : /\ x = IF a \in who /\ h[a].key = k THEN h[a].n ELSE 0
                      /\ y = IF a \in who /\ g[a].key = k THEN g[a].n ELSE 0
      OBVIOUS
    <3>4. HandAmount(g, k, who) + x = HandAmount(h, k, who) + y BY <3>2, <3>3, HandChanges
    <3>5. y = 0 /\ x = (IF a \in who THEN d(k) ELSE 0) /\ x \in Nat
      BY <1>4, <2>1, <3>1, <3>3
    <3>6. HandAmount(h, k, who) \in Nat /\ HandAmount(g, k, who) \in Nat BY <3>2, HandsAre
    <3>7. HandAmount(h, k, who) = HandAmount(g, k, who) + x BY <3>4, <3>5, <3>6
    <3> QED BY <3>1, <3>5, <3>6, <3>7
  <2> QED BY <2>1, <2>2, <2>3, <2>4
<1> HIDE DEF d
<1>6. ASSUME NEW k \in Keys
      PROVE  added'[k] = sum'[k] + zeroed'[k] + Amount(object', k, Threads, {})
                             + HandAmount(hand', k, Actors)
  <2>1. /\ added[k] = sum[k] + zeroed[k] + Amount(object, k, Threads, {})
                          + HandAmount(hand, k, Actors)
        /\ sum[k] \in Nat /\ zeroed[k] \in Nat
    BY AmountsNow
  <2>2. Amount(object, k, Threads, {}) \in Nat BY Amounts DEF IInv
  <2>3. HandAmount(hand, k, Actors) = HandAmount(hand', k, Actors) + d(k) BY <1>5
  <2> QED BY <1>1, <1>5, <2>1, <2>2, <2>3
<1>7. ValuesConserved' BY <1>2, <1>6, ConservedNext
<1>8. carried' \in [Keys -> Nat] /\ \A k \in Keys : carried[k] \in Nat BY DEF IInv, ZeroInv
<1>9. ASSUME NEW k \in Keys, NEW ts, NEW ids
      PROVE  carried[k] + sum[k] + HandAmount(hand, k, Publishers) + Amount(object, k, ts, ids)
             <= carried'[k] + sum'[k] + HandAmount(hand', k, Publishers)
                    + Amount(object', k, ts, ids)
  <2>1. Amount(object, k, ts, ids) \in Nat BY Amounts DEF IInv
  <2>2. HandAmount(hand, k, Publishers) <= HandAmount(hand', k, Publishers) + d(k)
    BY <1>5
  <2>3. HandAmount(hand, k, Publishers) \in Nat BY Amounts DEF IInv
  <2> QED BY <1>1, <1>5, <1>8, <2>1, <2>2, <2>3
<1>10. \A k \in Keys : carried[k] <= carried'[k] /\ sum[k] <= sum'[k] BY <1>5, <1>8
<1>11. ZeroInv' BY <1>2, <1>8, <1>9, <1>10, ZeroFrame
<1> QED BY <1>2, <1>7, <1>11

\* A destructor flushes an object of a thread, or delivers what it took, or
\* removes the object.
LEMMA DestructorStep ==
  ASSUME IInv, NEW t \in Threads, Destructor(t)
  PROVE  IInv'
<1>1. /\ UNCHANGED <<pc, listed, visit, zeroing, zeroed, before>>
      /\ UNCHANGED <<interval, worker, manager, workerLock>>
      /\ UNCHANGED <<globalMap, upgrader, prepared, last, call>>
  BY DEF Destructor, keyVars, memoVars, globalVars, workVars
<1>2. t \in Actors /\ \A p \in Publishers : p # t /\ p \in Actors BY ActorsDiffer
<1>3. DOMAIN pc = Actors /\ (\A u \in Threads : Keyed(u)) /\ visit \in Visits
  BY DEF IInv, KeyInv, SweepInv
<1>4. ASSUME UNCHANGED <<named, wrapper, local, exports>>
      PROVE  KeyInv' /\ UpgradeInv'
  <2>1. \A k : Exported(k) => Exported(k)' BY <1>4 DEF Exported
  <2>2. \A u \in Threads : Keyed(u)' BY <1>1, <1>3, <1>4, <2>1 DEF Keyed
  <2>3. KeyInv' BY <1>1, <1>4, <2>1, <2>2 DEF IInv, KeyInv
  <2>4. UpgradeInv' BY <1>1 DEF IInv, UpgradeInv
  <2> QED BY <2>3, <2>4
<1>5. CASE /\ FlushDying(t)
           /\ Carry([k \in Keys |-> IF t \in listed THEN InHand(k, {t})' ELSE 0])
  <2>1. PICK i \in Dying(t) : Take(t, i) BY <1>5 DEF FlushDying
  <2>2. i \in DOMAIN object /\ object[i].thread = t BY DEF Dying
  <2>3. /\ UNCHANGED <<named, wrapper, local, exports, sum, added>> /\ hand[t] = NoKey
        /\ \A b \in Actors \ {t} : hand'[b] = hand[b]
    BY <1>2, <2>1, <2>2, TakeIs
  <2>4. MapInv' /\ ValuesConserved' /\ Kept(object, object')
    BY <1>1, <1>2, <2>1, <2>2, TakeConserves
  <2>5. HoldInv' BY <2>3, <2>4, HoldSame
  <2>6. SweepInv' /\ WorkerInv'
    <3>1. \A p \in Publishers : hand'[p] = hand[p] BY <1>2, <2>3
    <3>2. \A j \in visit.objects : j \in DOMAIN object' /\ object'[j].thread = object[j].thread
      BY <2>4 DEF IInv, SweepInv, Kept
    <3> QED BY <1>1, <3>1, <3>2, ThreadFrame
  <2>7. KeyInv' /\ UpgradeInv' BY <1>4, <2>3
  <2> DEFINE v(k) == IF object[i].key = k THEN object[i].value ELSE 0
             w(k) == IF t \in listed THEN v(k) ELSE 0
  <2>8. ASSUME NEW k \in Keys
        PROVE  /\ v(k) \in Nat
               /\ HandAmount(hand', k, Publishers) = HandAmount(hand, k, Publishers)
               /\ InHand(k, {t})' = v(k)
               /\ \A ts, ids : Amount(object, k, ts, ids) = Amount(object', k, ts, ids)
                                  + IF t \in ts \/ i \in ids THEN v(k) ELSE 0
    <3>1. /\ v(k) \in Nat
          /\ \A who : HandAmount(hand', k, who)
                         = HandAmount(hand, k, who) + IF t \in who THEN v(k) ELSE 0
          /\ \A ts, ids : Amount(object, k, ts, ids) = Amount(object', k, ts, ids)
                             + IF t \in ts \/ i \in ids THEN v(k) ELSE 0
      BY <1>2, <2>1, <2>2, TakeAmounts
    <3> HIDE DEF v
    <3>2. HandAmount(hand, k, Publishers) \in Nat BY Amounts DEF IInv
    <3>3. HandAmount(hand', k, Publishers) = HandAmount(hand, k, Publishers)
      BY <1>2, <3>1, <3>2
    <3>4. HandAmount(hand, k, {t}) = 0 BY <1>2, <2>3, HandsDivided DEF IInv, MapInv
    <3>5. HandAmount(hand', k, {t}) = HandAmount(hand, k, {t}) + v(k) BY <3>1
    <3>6. InHand(k, {t})' = HandAmount(hand', k, {t}) BY <2>4, AmountsNext
    <3> QED BY <3>1, <3>3, <3>4, <3>5, <3>6
  <2>9. /\ carried' \in [Keys -> Nat]
        /\ zeroing = {} => carried' = carried
        /\ zeroing # {} => \A k \in Keys : carried'[k] = carried[k] + w(k)
        /\ carried \in [Keys -> Nat] /\ \A k \in Keys : w(k) \in Nat
    <3>1. carried \in [Keys -> Nat] BY DEF IInv, ZeroInv
    <3>2. \A k \in Keys : w(k) \in Nat BY <2>8
    <3>3. zeroing = {} => carried' = carried BY <1>5 DEF Carry
    <3>4. zeroing # {} => carried' = [k \in Keys |-> carried[k] + w(k)]
      <4>1. \A k \in Keys : (IF t \in listed THEN InHand(k, {t})' ELSE 0) = w(k) BY <2>8
      <4> HIDE DEF v, w
      <4> QED BY <1>5, <4>1 DEF Carry
    <3> HIDE DEF v, w
    <3> QED BY <3>1, <3>2, <3>3, <3>4
  <2>10. \A k \in Keys : carried[k] <= carried'[k] /\ sum[k] <= sum'[k]
    <3>1. \A k \in Keys : sum[k] \in Nat BY AmountsNow
    <3>2. \A k \in Keys : sum[k] <= sum'[k] BY <2>3, <3>1
    <3> HIDE DEF v, w
    <3>3. ASSUME NEW k \in Keys PROVE carried[k] <= carried'[k]
      <4>1. carried[k] \in Nat /\ w(k) \in Nat BY <2>9
      <4>2. CASE zeroing = {} BY <2>9, <4>1, <4>2
      <4>3. CASE zeroing # {} BY <2>9, <4>1, <4>3
      <4> QED BY <4>2, <4>3
    <3> QED BY <3>2, <3>3
  <2>11. ASSUME NEW k \in Keys, NEW ts, NEW ids, t \in ts \/ i \in ids => t \in listed,
                zeroing # {}
         PROVE  carried[k] + sum[k] + HandAmount(hand, k, Publishers) + Amount(object, k, ts, ids)
                <= carried'[k] + sum'[k] + HandAmount(hand', k, Publishers)
                       + Amount(object', k, ts, ids)
    <3>1. /\ carried'[k] = carried[k] + w(k) /\ carried[k] \in Nat /\ w(k) \in Nat
          /\ HandAmount(hand', k, Publishers) = HandAmount(hand, k, Publishers)
          /\ Amount(object, k, ts, ids) = Amount(object', k, ts, ids)
                                  + IF t \in ts \/ i \in ids THEN v(k) ELSE 0
      <4>1. carried'[k] = carried[k] + w(k) /\ carried[k] \in Nat /\ w(k) \in Nat
        <5> HIDE DEF w
        <5> QED BY <2>9, <2>11
      <4> HIDE DEF v, w
      <4> QED BY <2>8, <4>1
    <3>2. sum[k] \in Nat /\ sum'[k] = sum[k] BY <2>3, AmountsNow
    <3>3. HandAmount(hand, k, Publishers) \in Nat BY Amounts DEF IInv
    <3>4. Amount(object', k, ts, ids) \in Nat BY <2>4, AmountsNext
    <3>5. v(k) \in Nat BY <2>8
    <3>6. (IF t \in ts \/ i \in ids THEN v(k) ELSE 0) <= w(k)
      <4>1. CASE t \in listed
        <5>1. w(k) = v(k) BY <4>1
        <5> HIDE DEF v, w
        <5> QED BY <3>5, <5>1
      <4>2. CASE t \notin listed
        <5>1. w(k) = 0 BY <4>2
        <5> HIDE DEF v, w
        <5> QED BY <2>11, <4>2, <5>1
      <4> QED BY <4>1, <4>2
    <3>7. PICK x \in Nat : x = IF t \in ts \/ i \in ids THEN v(k) ELSE 0 BY <3>5
    <3> HIDE DEF v, w
    <3> QED BY <3>1, <3>2, <3>3, <3>4, <3>6, <3>7
  <2>12. ZeroInv'
    <3>1. \A k \in Keys : zeroing # {} =>
             carried[k] + sum[k] + HandAmount(hand, k, Publishers) + Amount(object, k, listed, {})
             <= carried'[k] + sum'[k] + HandAmount(hand', k, Publishers)
                    + Amount(object', k, listed, {})
      BY <2>11
    <3>2. visit.by # None => (t \in visit.threads \/ i \in visit.objects => t \in listed)
      BY <2>2, ActorsDiffer DEF IInv, SweepInv
    <3>3. \A k \in Keys : zeroing # {} /\ visit.by # None =>
             carried[k] + sum[k] + HandAmount(hand, k, Publishers)
                 + Amount(object, k, visit.threads, visit.objects)
             <= carried'[k] + sum'[k] + HandAmount(hand', k, Publishers)
                    + Amount(object', k, visit.threads, visit.objects)
      BY <2>11, <3>2
    <3>4. carried' \in [Keys -> Nat]
      <4> HIDE DEF v, w
      <4> QED BY <2>9
    <3>5. UNCHANGED <<zeroing, zeroed, before, visit, listed, pc>> BY <1>1
    <3>6. zeroing # {} => \A k \in Keys :
             carried[k] + sum[k] + HandAmount(hand, k, Publishers) + Amount(object, k, listed, {})
             <= carried'[k] + sum'[k] + HandAmount(hand', k, Publishers)
                    + Amount(object', k, listed', {})
      BY <3>1, <3>5
    <3>7. zeroing # {} /\ visit.by # None => \A k \in Keys :
             carried[k] + sum[k] + HandAmount(hand, k, Publishers)
                 + Amount(object, k, visit.threads, visit.objects)
             <= carried'[k] + sum'[k] + HandAmount(hand', k, Publishers)
                    + Amount(object', k, visit'.threads, visit'.objects)
      BY <3>3, <3>5
    <3> HIDE DEF v, w
    <3> QED BY <2>4, <2>10, <3>4, <3>5, <3>6, <3>7, ZeroFrame
  <2> QED BY <2>4, <2>5, <2>6, <2>7, <2>12 DEF IInv
<1>6. CASE Deliver(t) /\ UNCHANGED carried
  <2>1. /\ UNCHANGED <<object, named, wrapper, local, exports, added>>
        /\ \A b \in Actors \ {t} : hand'[b] = hand[b]
    BY <1>2, <1>6, DeliverIs
  <2>2. MapInv' /\ ValuesConserved' /\ ZeroInv' BY <1>1, <1>2, <1>6, DeliverValues
  <2>3. Kept(object, object') BY <2>1, ObjectsKept
  <2>4. HoldInv' BY <2>1, <2>3, HoldSame
  <2>5. SweepInv' /\ WorkerInv'
    <3>1. \A p \in Publishers : hand'[p] = hand[p] BY <1>2, <2>1
    <3>2. \A j \in visit.objects : j \in DOMAIN object' /\ object'[j].thread = object[j].thread
      BY <2>1 DEF IInv, SweepInv
    <3> QED BY <1>1, <3>1, <3>2, ThreadFrame
  <2>6. KeyInv' /\ UpgradeInv' BY <1>4, <2>1
  <2> QED BY <2>2, <2>4, <2>5, <2>6 DEF IInv
<1>7. CASE visit.in # t /\ (\E i \in Dying(t) : Unlink(t, i)) /\ UNCHANGED carried
  <2>1. PICK i \in Dying(t) : Unlink(t, i) BY <1>7
  <2>2. /\ Dropped(object, object', i) /\ ObjectsOK(object') /\ HoldInv'
        /\ object[i].thread = t
        /\ UNCHANGED <<named, wrapper, local, exports, hand, sum, added>>
    BY <2>1, UnlinkIs
  <2>3. \A k, ts, ids : Amount(object', k, ts, ids) = Amount(object, k, ts, ids)
    BY <2>2, AmountDropped
  <2>4. MapInv' BY <2>2 DEF IInv, MapInv
  <2>5. ValuesConserved' BY <1>1, <2>2, <2>3, <2>4, AmountsNow, ConservedNext
  <2>6. SweepInv' /\ WorkerInv'
    <3>1. \A j \in visit.objects : j \in DOMAIN object /\ j # i
      BY <1>7, <2>2 DEF IInv, SweepInv
    <3>2. \A j \in visit.objects : j \in DOMAIN object' /\ object'[j].thread = object[j].thread
      BY <2>2, <3>1 DEF Dropped
    <3> QED BY <1>1, <2>2, <3>2, ThreadFrame
  <2>7. KeyInv' /\ UpgradeInv' BY <1>4, <2>2
  <2>8. carried' \in [Keys -> Nat] BY <1>7 DEF IInv, ZeroInv
  <2>9. \A k \in Keys : carried[k] \in Nat /\ sum[k] \in Nat BY AmountsNow
  <2>10. ASSUME NEW k \in Keys, NEW ts, NEW ids
         PROVE  carried[k] + sum[k] + HandAmount(hand, k, Publishers) + Amount(object, k, ts, ids)
                <= carried'[k] + sum'[k] + HandAmount(hand', k, Publishers)
                       + Amount(object', k, ts, ids)
    <3>1. HandAmount(hand, k, Publishers) \in Nat /\ Amount(object, k, ts, ids) \in Nat
      BY Amounts DEF IInv
    <3> QED BY <1>7, <2>2, <2>3, <2>9, <3>1
  <2>11. ZeroInv' BY <1>1, <1>7, <2>2, <2>4, <2>8, <2>9, <2>10, ZeroFrame
  <2> QED BY <2>2, <2>4, <2>5, <2>6, <2>7, <2>11 DEF IInv
<1> QED BY <1>5, <1>6, <1>7 DEF Destructor

\* A thread that ends loses its map, its wrapper's pointer or its caches.
LEMMA DropHolderStep ==
  ASSUME IInv, NEW t \in Threads, DropHolder(t)
  PROVE  IInv'
<1>1. /\ UNCHANGED <<object, exports, hand, sum, added, globalMap, upgrader, prepared>>
      /\ UNCHANGED <<call, pc>> /\ Elsewhere /\ pc[t] = "exit"
  BY DEF DropHolder, globalVars
<1>2. /\ Holds(t) /\ Flagged(t) /\ Keyed(t)
      /\ DOMAIN named = Threads /\ DOMAIN wrapper = Threads /\ DOMAIN local = Threads
  BY HoldsNow
<1>3. DOMAIN Empty = {} BY DEF Empty
<1>4. \A k, i : Owned(t, k, i)' <=> Owned(t, k, i) BY <1>1 DEF Owned
<1>5. DOMAIN last = Threads /\ DOMAIN call = Threads /\ DOMAIN pc = Actors
  BY DEF IInv, KeyInv
<1>6. UpgradeInv' BY <1>1 DEF IInv, UpgradeInv
<1>7. CASE named' = [named EXCEPT ![t] = Empty] /\ UNCHANGED <<wrapper, local, last>>
  <2>1. /\ DOMAIN named' = Threads /\ named'[t] = Empty
        /\ \A u \in Threads \ {t} : named'[u] = named[u]
    BY <1>2, <1>7
  <2>2. Holds(t)' /\ Flagged(t)' /\ OthersMaps(t)
    BY <1>1, <1>3, <1>7, <2>1, NamedShrinks
  <2>3. MapPart' BY <1>1, <2>2, ThreadQuiet
  <2>4. KeyPart' BY <1>1, <1>7, <2>2, KeyQuiet, Zenon DEF memoVars, globalVars
  <2> QED BY <2>3, <2>4, Whole
<1>8. CASE wrapper' = [wrapper EXCEPT ![t] = Empty] /\ UNCHANGED <<named, local, last>>
  <2>1. /\ DOMAIN wrapper' = Threads /\ wrapper'[t] = Empty
        /\ \A u \in Threads \ {t} : wrapper'[u] = wrapper[u]
    BY <1>2, <1>8
  <2>2. Holds(t)' BY <1>2, <1>4, <1>8, <2>1 DEF Holds
  <2>3. OthersMaps(t) BY <1>2, <1>8, <2>1 DEF OthersMaps
  <2>4. Flagged(t)' BY <1>1, <1>2, <1>8 DEF Flagged
  <2>5. MapPart' BY <1>1, <2>2, <2>3, ThreadQuiet
  <2>6. KeyPart' BY <1>1, <1>8, <2>3, <2>4, KeyQuiet, Zenon DEF memoVars, globalVars
  <2> QED BY <2>5, <2>6, Whole
<1>9. CASE /\ local' = [local EXCEPT ![t] = Empty] /\ last' = [last EXCEPT ![t] = NoItem]
           /\ UNCHANGED <<named, wrapper>>
  <2>1. /\ DOMAIN local' = Threads /\ local'[t] = Empty
        /\ \A u \in Threads \ {t} : local'[u] = local[u]
    BY <1>2, <1>9
  <2>2. DOMAIN last' = Threads /\ last'[t] = NoItem /\ \A u \in Threads \ {t} : last'[u] = last[u]
    BY <1>5, <1>9
  <2>3. Holds(t)' BY <1>2, <1>3, <1>4, <1>9, <2>1 DEF Holds
  <2>4. OthersMaps(t) BY <1>2, <1>9, <2>1 DEF OthersMaps
  <2>5. Flagged(t)' BY <1>1, <1>2, <1>9 DEF Flagged
  <2>6. MapPart' BY <1>1, <2>3, <2>4, ThreadQuiet
  <2>7. Keyed(t)' BY <1>1, <1>3, <2>1, <2>2, <2>5 DEF Keyed, Flagged
  <2>8. KeyInv' BY <1>1, <1>5, <1>9, <2>1, <2>2, <2>7, KeyFrame
  <2> QED BY <1>6, <2>6, <2>8, Whole DEF KeyPart
<1> QED BY <1>7, <1>8, <1>9 DEF DropHolder

\* A thread ends: its values are out of the reach of sweeps.
LEMMA ExitThreadStep ==
  ASSUME IInv, NEW t \in Threads, ExitThread(t)
  PROVE  IInv'
<1>1. /\ UNCHANGED <<object, named, wrapper, local, exports, hand, sum, added>>
      /\ UNCHANGED <<globalMap, upgrader, prepared, last, call, visit>>
      /\ UNCHANGED <<interval, worker, manager, workerLock, zeroing, zeroed, before>>
      /\ pc[t] = "idle" /\ Goto(t, "exit") /\ visit.by = None /\ listed' = listed \ {t}
      /\ Carry([k \in Keys |-> Cached(k, {t})])
  BY DEF ExitThread, BeginCall, Idle, mapVars, holdVars, memoVars, globalVars, workVars
<1>2. /\ DOMAIN pc' = Actors /\ pc'[t] = "exit" /\ t \in Actors
      /\ \A b \in Actors \ {t} : pc'[b] = pc[b]
  BY <1>1, ActorsDiffer, GotoIs
<1>3. \A p \in Publishers : pc'[p] = pc[p] BY <1>2, ActorsDiffer
<1>4. MapInv' BY <1>1 DEF IInv, MapInv
<1>5. ValuesConserved' BY <1>1, <1>4, AmountsNow, ConservedNext
<1>6. HoldInv' BY <1>1, ObjectsKept, HoldSame
<1>7. SweepInv' /\ WorkerInv'
  BY <1>1, <1>3, ThreadFrame DEF IInv, SweepInv
<1>8. KeyInv'
  <2>1. Keyed(t) /\ DOMAIN last = Threads /\ DOMAIN call = Threads
    BY DEF IInv, KeyInv
  <2>2. Keyed(t)' BY <1>1, <1>2, <2>1 DEF Keyed
  <2> QED BY <1>1, <1>2, <2>1, <2>2, ActorsDiffer, KeyFrame
<1>9. UpgradeInv' BY <1>1, <1>2, ActorsDiffer, UpgradeFrame
<1>10. ZeroInv'
  <2>1. carried \in [Keys -> Nat] BY DEF IInv, ZeroInv
  <2>2. ASSUME NEW k \in Keys
        PROVE  Cached(k, {t}) = Amount(object, k, {t}, {}) /\ Amount(object, k, {t}, {}) \in Nat
    BY Amounts DEF IInv
  <2>3. zeroing # {} => carried' = [k \in Keys |-> carried[k] + Amount(object, k, {t}, {})]
    BY <1>1, <2>2 DEF Carry
  <2>4. zeroing = {} => carried' = carried BY <1>1 DEF Carry
  <2>5. carried' \in [Keys -> Nat]
    <3>1. CASE zeroing = {} BY <2>1, <2>4, <3>1
    <3>2. CASE zeroing # {} BY <2>1, <2>2, <2>3, <3>2
    <3> QED BY <3>1, <3>2
  <2>6. ASSUME NEW k \in Keys PROVE carried[k] <= carried'[k] /\ sum[k] <= sum'[k]
    <3>1. sum[k] \in Nat /\ carried[k] \in Nat BY AmountsNow
    <3>2. CASE zeroing = {} BY <1>1, <2>4, <3>1, <3>2
    <3>3. CASE zeroing # {}
      <4>1. carried'[k] = carried[k] + Amount(object, k, {t}, {}) BY <2>3, <3>3
      <4>2. Amount(object, k, {t}, {}) \in Nat BY <2>2
      <4>3. carried[k] <= carried'[k] BY <3>1, <4>1, <4>2
      <4> QED BY <1>1, <3>1, <4>3
    <3> QED BY <3>2, <3>3
  <2>7. ASSUME zeroing # {}, NEW k \in Keys
        PROVE  carried[k] + sum[k] + HandAmount(hand, k, Publishers)
                   + Amount(object, k, listed, {})
               <= carried'[k] + sum'[k] + HandAmount(hand', k, Publishers)
                      + Amount(object', k, listed', {})
    <3>1. sum[k] \in Nat /\ carried[k] \in Nat BY AmountsNow
    <3>2. /\ HandAmount(hand, k, Publishers) \in Nat /\ Amount(object, k, listed, {}) \in Nat
          /\ Amount(object, k, listed \ {t}, {}) \in Nat
      BY Amounts DEF IInv
    <3>3. Amount(object, k, listed, {})
             <= Amount(object, k, listed \ {t}, {}) + Amount(object, k, {t}, {})
      <4>1. CASE t \in listed
        <5>1. listed = (listed \ {t}) \cup {t} /\ (listed \ {t}) \cap {t} = {} BY <4>1
        <5>2. ObjectsOK(object) BY DEF IInv, MapInv
        <5>3. Amount(object, k, (listed \ {t}) \cup {t}, {})
                 = Amount(object, k, listed \ {t}, {}) + Amount(object, k, {t}, {})
          BY <5>1, <5>2, AmountDivided
        <5> QED BY <2>2, <3>2, <5>1, <5>3
      <4>2. CASE t \notin listed
        <5>1. listed \ {t} = listed BY <4>2
        <5> QED BY <2>2, <3>2, <5>1
      <4> QED BY <4>1, <4>2
    <3>4. carried'[k] = carried[k] + Amount(object, k, {t}, {}) BY <2>3, <2>7
    <3>5. PICK x \in Nat : x = Amount(object, k, {t}, {}) BY <2>2
    <3>6. PICK y \in Nat : y = Amount(object, k, listed \ {t}, {}) BY <3>2
    <3>7. carried[k] + sum[k] + HandAmount(hand, k, Publishers) + Amount(object, k, listed, {})
             <= (carried[k] + x) + sum[k] + HandAmount(hand, k, Publishers) + y
      BY <3>1, <3>2, <3>3, <3>5, <3>6
    <3>8. sum'[k] = sum[k] /\ hand' = hand /\ object' = object /\ listed' = listed \ {t}
      BY <1>1
    <3> QED BY <3>4, <3>5, <3>6, <3>7, <3>8
  <2>8. \A a \in Callers : Zeroing(a)' => pc'[a] = pc[a] BY <1>3, ActorsDiffer
  <2>9. visit'.by = visit.by BY <1>1
  <2> QED BY <1>1, <1>4, <2>5, <2>6, <2>7, <2>8, <2>9, ZeroFrame
<1> QED BY <1>4, <1>5, <1>6, <1>7, <1>8, <1>9, <1>10 DEF IInv

-----------------------------------------------------------------------------
(***************************************************************************)
(* Sweeps.                                                                 *)
(***************************************************************************)
\* No value moves.
LEMMA ValuesStay ==
  ASSUME IInv, UNCHANGED <<object, hand, sum, added, zeroed>>
  PROVE  MapInv' /\ ValuesConserved' /\ Kept(object, object')
<1>1. MapInv' BY DEF IInv, MapInv
<1>2. ValuesConserved' BY <1>1, AmountsNow, ConservedNext
<1> QED BY <1>1, <1>2, ObjectsKept

\* A sweep begins, for which no other may be under way.
LEMMA BeginSweepStep ==
  ASSUME IInv, NEW p \in Publishers, BeginSweep(p)
  PROVE  IInv'
<1>1. /\ UNCHANGED <<object, named, wrapper, local, exports, hand, sum, added>>
      /\ UNCHANGED <<globalMap, upgrader, prepared, last, call, pc, listed>>
      /\ UNCHANGED <<interval, worker, manager, workerLock, zeroing, zeroed, before, carried>>
      /\ pc[p] \in {"publish", "publishThenZero"} /\ visit.by = None
      /\ visit' = [by |-> p, threads |-> listed, in |-> None, objects |-> {}]
  BY DEF BeginSweep, mapVars, holdVars, keyVars, memoVars, globalVars, workVars, zeroVars,
         NoVisit
<1>2. DOMAIN pc = Actors BY DEF IInv, KeyInv
<1>3. MapInv' /\ ValuesConserved' /\ Kept(object, object') BY <1>1, ValuesStay
<1>4. HoldInv' /\ KeyInv' /\ UpgradeInv' BY <1>1, <1>2, <1>3, PublisherFrame
<1>5. WorkerInv' BY <1>1, WorkerFrame
<1>6. /\ visit'.by = p /\ visit'.threads = listed /\ visit'.in = None /\ visit'.objects = {}
  BY <1>1
<1>7. SweepInv'
  <2>1. \A q \in Publishers : hand[q] = NoKey BY <1>1, ActorsDiffer DEF IInv, SweepInv
  <2>2. visit' \in Visits BY <1>1 DEF IInv, SweepInv, Visits
  <2> QED BY <1>1, <1>6, <2>1, <2>2 DEF IInv, SweepInv
<1>8. ZeroInv'
  <2>1. ASSUME NEW a \in Callers, NEW k \in Keys, pc[a] = "publishThenZero"
        PROVE  /\ visit'.by # a => before[k] <= zeroed[k] + Ahead(k)'
               /\ visit'.by = a => before[k] <= zeroed[k] + During(k)'
    <3>1. before[k] <= zeroed[k] + Ahead(k) BY <1>1, <2>1, ActorsDiffer DEF IInv, ZeroInv
    <3>2. Ahead(k)' = Ahead(k) BY <1>1 DEF Ahead, Cached, InHand
    <3>3. During(k)' = Ahead(k)
      <4>1. During(k)' = carried'[k] + sum'[k] + HandAmount(hand', k, Publishers)
                             + Amount(object', k, visit'.threads, visit'.objects)
        BY <1>3, AmountsNext DEF During
      <4>2. Ahead(k) = carried[k] + sum[k] + HandAmount(hand, k, Publishers)
                           + Amount(object, k, listed, {})
        BY AmountsNow
      <4> QED BY <1>1, <1>6, <4>1, <4>2
    <3> QED BY <3>1, <3>2, <3>3
  <2> QED BY <1>1, <2>1 DEF IInv, ZeroInv, Zeroing
<1> QED BY <1>3, <1>4, <1>5, <1>7, <1>8 DEF IInv

\* It comes to a thread.
LEMMA VisitThreadStep ==
  ASSUME IInv, NEW p \in Publishers, VisitThread(p)
  PROVE  IInv'
<1>1. PICK t \in visit.threads :
        visit' = [visit EXCEPT !.threads = @ \ {t}, !.in = t,
                               !.objects = {i \in DOMAIN object : object[i].thread = t}]
  BY DEF VisitThread
<1>2. /\ UNCHANGED <<object, named, wrapper, local, exports, hand, sum, added>>
      /\ UNCHANGED <<globalMap, upgrader, prepared, last, call, pc, listed>>
      /\ UNCHANGED <<interval, worker, manager, workerLock, zeroing, zeroed, before, carried>>
      /\ visit.by = p /\ visit.objects = {} /\ hand[p] = NoKey
  BY DEF VisitThread, mapVars, holdVars, keyVars, memoVars, globalVars, workVars, zeroVars
<1>3. DOMAIN pc = Actors /\ visit \in Visits /\ p # None
  BY ActorsDiffer DEF IInv, KeyInv, SweepInv
<1>4. MapInv' /\ ValuesConserved' /\ Kept(object, object') BY <1>2, ValuesStay
<1>5. HoldInv' /\ KeyInv' /\ UpgradeInv' BY <1>2, <1>3, <1>4, PublisherFrame
<1>6. WorkerInv' BY <1>2, WorkerFrame
<1>7. /\ visit'.by = visit.by /\ visit'.threads = visit.threads \ {t} /\ visit'.in = t
      /\ visit'.objects = {i \in DOMAIN object : object[i].thread = t}
  BY <1>1, <1>3 DEF Visits
<1>8. SweepInv'
  <2>1. visit.threads \subseteq listed /\ visit.threads \subseteq Threads /\ t \in listed
    BY <1>2, <1>3 DEF IInv, SweepInv, Visits
  <2>2. visit'.objects \in SUBSET (1..MaxObjects) BY <1>7 DEF IInv, MapInv, ObjectsOK
  <2>3. visit' \in Visits BY <1>1, <1>3, <1>7, <2>1, <2>2 DEF Visits
  <2> QED BY <1>2, <1>7, <2>1, <2>3 DEF IInv, SweepInv
<1>9. ZeroInv'
  <2>1. ASSUME NEW k \in Keys
        PROVE  Amount(object', k, visit'.threads, visit'.objects)
                   = Amount(object, k, visit.threads, visit.objects)
    <3>1. Amount(object, k, visit.threads \ {t}, {i \in DOMAIN object : object[i].thread = t})
             = Amount(object, k, visit.threads, {})
      BY AmountVisited
    <3> QED BY <1>2, <1>7, <3>1
  <2>2. carried' \in [Keys -> Nat] BY <1>2 DEF IInv, ZeroInv
  <2>3. ASSUME NEW k \in Keys
        PROVE  /\ carried[k] <= carried'[k] /\ sum[k] <= sum'[k]
               /\ carried[k] + sum[k] + HandAmount(hand, k, Publishers)
                      + Amount(object, k, listed, {})
                  <= carried'[k] + sum'[k] + HandAmount(hand', k, Publishers)
                         + Amount(object', k, listed', {})
               /\ carried[k] + sum[k] + HandAmount(hand, k, Publishers)
                      + Amount(object, k, visit.threads, visit.objects)
                  <= carried'[k] + sum'[k] + HandAmount(hand', k, Publishers)
                         + Amount(object', k, visit'.threads, visit'.objects)
    <3>1. /\ carried[k] \in Nat /\ sum[k] \in Nat BY AmountsNow
    <3>2. /\ HandAmount(hand, k, Publishers) \in Nat /\ Amount(object, k, listed, {}) \in Nat
          /\ Amount(object, k, visit.threads, visit.objects) \in Nat
      BY Amounts DEF IInv
    <3> QED BY <1>2, <2>1, <3>1, <3>2
  <2> QED BY <1>2, <1>4, <1>7, <2>2, <2>3, ZeroFrame
<1> QED BY <1>4, <1>5, <1>6, <1>8, <1>9 DEF IInv

\* It comes to an object, and takes its values.
LEMMA SweepStatStep ==
  ASSUME IInv, NEW p \in Publishers, SweepStat(p)
  PROVE  IInv'
<1>1. PICK i \in visit.objects :
        /\ visit' = [visit EXCEPT !.objects = @ \ {i}]
        /\ IF object[i].value > 0 THEN Take(p, i) ELSE UNCHANGED mapVars
  BY DEF SweepStat
<1>2. /\ UNCHANGED <<globalMap, upgrader, prepared, last, call, pc, listed>>
      /\ UNCHANGED <<interval, worker, manager, workerLock, zeroing, zeroed, before, carried>>
      /\ visit.by = p /\ hand[p] = NoKey
  BY DEF SweepStat, keyVars, memoVars, globalVars, workVars, zeroVars
<1>3. DOMAIN pc = Actors /\ visit \in Visits /\ p # None /\ p \in Actors
  BY ActorsDiffer DEF IInv, KeyInv, SweepInv
<1>4. i \in DOMAIN object /\ object[i].thread = visit.in /\ ObjectsOK(object)
  BY DEF IInv, SweepInv, MapInv
<1>5. /\ visit'.by = visit.by /\ visit'.threads = visit.threads /\ visit'.in = visit.in
      /\ visit'.objects = visit.objects \ {i} /\ visit' \in Visits
  BY <1>1, <1>3 DEF Visits
<1>6. WorkerInv' BY <1>2, WorkerFrame
<1>7. /\ UNCHANGED <<named, wrapper, local, exports, sum, added>>
      /\ MapInv' /\ ValuesConserved' /\ Kept(object, object')
      /\ \A q \in Publishers \ {p} : hand'[q] = hand[q]
  <2>1. CASE object[i].value > 0
    <3>1. Take(p, i) BY <1>1, <2>1
    <3>2. /\ UNCHANGED <<named, wrapper, local, exports, sum, added>>
          /\ \A b \in Actors \ {p} : hand'[b] = hand[b]
      BY <1>3, <1>4, <3>1, TakeIs
    <3>3. MapInv' /\ ValuesConserved' /\ Kept(object, object')
      BY <1>2, <1>3, <1>4, <3>1, TakeConserves
    <3> QED BY <3>2, <3>3, ActorsDiffer
  <2>2. CASE ~(object[i].value > 0)
    <3>1. UNCHANGED <<object, named, wrapper, local, exports, hand, sum, added>>
      BY <1>1, <2>2 DEF mapVars, holdVars
    <3> QED BY <1>2, <3>1, ValuesStay
  <2> QED BY <2>1, <2>2
<1>8. HoldInv' /\ KeyInv' /\ UpgradeInv' BY <1>2, <1>3, <1>7, PublisherFrame
<1>9. SweepInv'
  <2>1. \A j \in visit'.objects : j \in DOMAIN object' /\ object'[j].thread = visit'.in
    BY <1>5, <1>7 DEF IInv, SweepInv, Kept
  <2>2. \A q \in Publishers : hand'[q] # NoKey => visit'.by = q
    BY <1>2, <1>5, <1>7 DEF IInv, SweepInv
  <2> QED BY <1>2, <1>5, <2>1, <2>2 DEF IInv, SweepInv
<1>10. ASSUME NEW k \in Keys
       PROVE  /\ HandAmount(hand, k, Publishers) + Amount(object, k, listed, {})
                 <= HandAmount(hand', k, Publishers) + Amount(object', k, listed, {})
              /\ HandAmount(hand, k, Publishers)
                     + Amount(object, k, visit.threads, visit.objects)
                 <= HandAmount(hand', k, Publishers)
                        + Amount(object', k, visit.threads, visit.objects \ {i})
  <2>1. /\ HandAmount(hand, k, Publishers) \in Nat /\ Amount(object, k, listed, {}) \in Nat
        /\ Amount(object, k, visit.threads, visit.objects) \in Nat
    BY Amounts DEF IInv
  <2>2. CASE object[i].value > 0
    <3>1. Take(p, i) BY <1>1, <2>2
    <3>2. PICK v : v = IF object[i].key = k THEN object[i].value ELSE 0 OBVIOUS
    <3>3. /\ v \in Nat
          /\ \A who : HandAmount(hand', k, who)
                        = HandAmount(hand, k, who) + IF p \in who THEN v ELSE 0
          /\ \A ts, ids : Amount(object, k, ts, ids) = Amount(object', k, ts, ids)
                             + IF object[i].thread \in ts \/ i \in ids THEN v ELSE 0
      BY <1>3, <1>4, <3>1, <3>2, TakeAmounts
    <3>4. HandAmount(hand', k, Publishers) = HandAmount(hand, k, Publishers) + v BY <3>3
    <3>5. Amount(object, k, visit.threads, visit.objects)
             = Amount(object', k, visit.threads, visit.objects) + v
      BY <3>3
    <3>6. PICK x : /\ x = IF object[i].thread \in listed \/ i \in {} THEN v ELSE 0
                   /\ Amount(object, k, listed, {}) = Amount(object', k, listed, {}) + x
      BY <3>3
    <3>7. x \in Nat /\ x <= v BY <3>3, <3>6
    <3>8. /\ Amount(object', k, listed, {}) \in Nat
          /\ Amount(object', k, visit.threads, visit.objects) \in Nat
      BY <1>7, AmountsNext
    <3>9. Amount(object', k, visit.threads, visit.objects \ {i})
             = Amount(object', k, visit.threads, visit.objects)
      <4>1. Emptied(object, object', i) BY <1>3, <1>4, <3>1, TakeIs
      <4>2. PICK o, ts, ids : o = object' /\ ts = visit.threads /\ ids = visit.objects OBVIOUS
      <4>3. i \in DOMAIN o /\ o[i].value = 0 /\ ObjectsOK(o)
        BY <1>7, <4>1, <4>2 DEF Emptied, MapInv
      <4>4. Amount(o, k, ts, ids \ {i}) = Amount(o, k, ts, ids) BY <4>3, AmountPassed
      <4> QED BY <4>2, <4>4
    <3> QED BY <2>1, <3>3, <3>4, <3>5, <3>6, <3>7, <3>8, <3>9
  <2>3. CASE ~(object[i].value > 0)
    <3>1. object' = object /\ hand' = hand BY <1>1, <2>3 DEF mapVars
    <3>2. object[i].value = 0
      BY <1>4, <2>3 DEF ObjectsOK, Objects
    <3>3. Amount(object, k, visit.threads, visit.objects \ {i})
             = Amount(object, k, visit.threads, visit.objects)
      <4>1. PICK o, ts, ids : o = object /\ ts = visit.threads /\ ids = visit.objects OBVIOUS
      <4>2. Amount(o, k, ts, ids \ {i}) = Amount(o, k, ts, ids)
        BY <1>4, <3>2, <4>1, AmountPassed
      <4> QED BY <4>1, <4>2
    <3> QED BY <2>1, <3>1, <3>3
  <2> QED BY <2>2, <2>3
<1>11. ZeroInv'
  <2>1. carried' \in [Keys -> Nat] BY <1>2 DEF IInv, ZeroInv
  <2>2. ASSUME NEW k \in Keys
        PROVE  /\ carried[k] <= carried'[k] /\ sum[k] <= sum'[k]
               /\ carried[k] + sum[k] + HandAmount(hand, k, Publishers)
                      + Amount(object, k, listed, {})
                  <= carried'[k] + sum'[k] + HandAmount(hand', k, Publishers)
                         + Amount(object', k, listed', {})
               /\ carried[k] + sum[k] + HandAmount(hand, k, Publishers)
                      + Amount(object, k, visit.threads, visit.objects)
                  <= carried'[k] + sum'[k] + HandAmount(hand', k, Publishers)
                         + Amount(object', k, visit'.threads, visit'.objects)
    <3>1. /\ carried[k] \in Nat /\ sum[k] \in Nat /\ carried' = carried /\ sum' = sum
      BY <1>2, <1>7, AmountsNow
    <3>2. PICK c, s \in Nat : c = carried[k] /\ s = sum[k] BY <3>1
    <3>3. PICK h, g, x, y, u, w \in Nat :
            /\ h = HandAmount(hand, k, Publishers) /\ g = HandAmount(hand', k, Publishers)
            /\ x = Amount(object, k, listed, {}) /\ y = Amount(object', k, listed, {})
            /\ u = Amount(object, k, visit.threads, visit.objects)
            /\ w = Amount(object', k, visit.threads, visit.objects \ {i})
      BY <1>7, Amounts, AmountsNext DEF IInv
    <3>4. h + x <= g + y /\ h + u <= g + w BY <1>10, <3>3
    <3>5. c <= c /\ s <= s /\ c + s + h + x <= c + s + g + y /\ c + s + h + u <= c + s + g + w
      BY <3>4
    <3> QED BY <1>2, <1>5, <3>1, <3>2, <3>3, <3>5
  <2> QED BY <1>2, <1>5, <1>7, <2>1, <2>2, ZeroFrame
<1> QED BY <1>6, <1>7, <1>8, <1>9, <1>11 DEF IInv

\* What was taken reaches the exported statistic.
LEMMA DeliverSweptStep ==
  ASSUME IInv, NEW p \in Publishers, DeliverSwept(p)
  PROVE  IInv'
<1>1. /\ Deliver(p)
      /\ UNCHANGED <<globalMap, upgrader, prepared, last, call, pc, listed, visit>>
      /\ UNCHANGED <<interval, worker, manager, workerLock, zeroing, zeroed, before, carried>>
  BY DEF DeliverSwept, Elsewhere, keyVars, memoVars, globalVars, workVars, zeroVars
<1>2. p \in Actors /\ DOMAIN pc = Actors BY ActorsDiffer DEF IInv, KeyInv
<1>3. /\ UNCHANGED <<object, named, wrapper, local, exports>> /\ hand'[p] = NoKey
      /\ \A b \in Actors \ {p} : hand'[b] = hand[b]
  BY <1>1, <1>2, DeliverIs
<1>4. MapInv' /\ ValuesConserved' /\ ZeroInv' BY <1>1, <1>2, DeliverValues
<1>5. Kept(object, object') BY <1>3, ObjectsKept
<1>6. HoldInv' /\ KeyInv' /\ UpgradeInv' BY <1>1, <1>2, <1>3, <1>5, PublisherFrame
<1>7. WorkerInv' BY <1>1, WorkerFrame
<1>8. SweepInv'
  <2>1. \A q \in Publishers : hand'[q] # NoKey => visit.by = q
    BY <1>2, <1>3, ActorsDiffer DEF IInv, SweepInv
  <2> QED BY <1>1, <1>3, <2>1 DEF IInv, SweepInv
<1> QED BY <1>4, <1>6, <1>7, <1>8 DEF IInv

\* The sweep is through: for zeroStats(), nothing is ahead of it any more.
LEMMA EndSweepStep ==
  ASSUME IInv, NEW p \in Publishers, EndSweep(p)
  PROVE  IInv'
<1>1. /\ UNCHANGED <<object, named, wrapper, local, exports, hand, sum, added>>
      /\ UNCHANGED <<globalMap, upgrader, prepared, last, call, listed>>
      /\ UNCHANGED <<interval, worker, manager, workerLock, zeroing, zeroed, before, carried>>
      /\ visit.by = p /\ visit.threads = {} /\ visit.objects = {} /\ hand[p] = NoKey
      /\ visit' = [by |-> None, threads |-> {}, in |-> None, objects |-> {}]
      /\ Goto(p, IF pc[p] = "publish" THEN "idle" ELSE "zero")
  BY DEF EndSweep, mapVars, holdVars, keyVars, memoVars, globalVars, workVars, zeroVars,
         NoVisit
<1>2. p \in Actors /\ p # None /\ pc[p] \in {"publish", "publishThenZero"}
  BY <1>1, ActorsDiffer DEF IInv, SweepInv
<1>3. /\ DOMAIN pc' = Actors /\ pc'[p] = IF pc[p] = "publish" THEN "idle" ELSE "zero"
      /\ \A b \in Actors \ {p} : pc'[b] = pc[b]
  BY <1>1, <1>2, GotoIs
<1>4. MapInv' /\ ValuesConserved' /\ Kept(object, object') BY <1>1, ValuesStay
<1>5. HoldInv' /\ KeyInv' /\ UpgradeInv' BY <1>1, <1>3, <1>4, ActorsDiffer, PublisherFrame
<1>6. WorkerInv' BY <1>1, <1>2, <1>3, ActorsDiffer, WorkerFrame
<1>7. visit'.by = None /\ visit'.threads = {} /\ visit'.in = None /\ visit'.objects = {}
  BY <1>1
<1>8. \A q \in Publishers : hand[q] = NoKey BY <1>1 DEF IInv, SweepInv
<1>9. SweepInv'
  <2>1. visit' \in Visits BY <1>1 DEF Visits
  <2> QED BY <1>1, <1>7, <1>8, <2>1 DEF IInv, SweepInv
<1>10. ZeroInv'
  <2>1. ASSUME NEW a \in Callers, NEW k \in Keys
        PROVE  /\ pc'[a] = "publishThenZero" => /\ pc[a] = "publishThenZero" /\ k \in zeroing
                                               /\ before[k] <= zeroed[k] + Ahead(k)
               /\ pc'[a] = "zero" /\ k \in zeroing => before[k] <= zeroed[k] + carried[k] + sum[k]
               /\ pc'[a] = "zero" /\ k \notin zeroing => before[k] <= zeroed[k] + carried[k]
    <3>1. /\ pc[a] = "publishThenZero" => k \in zeroing
          /\ pc[a] = "publishThenZero" /\ visit.by # a => before[k] <= zeroed[k] + Ahead(k)
          /\ pc[a] = "publishThenZero" /\ visit.by = a => before[k] <= zeroed[k] + During(k)
          /\ pc[a] = "zero" /\ k \in zeroing => before[k] <= zeroed[k] + carried[k] + sum[k]
          /\ pc[a] = "zero" /\ k \notin zeroing => before[k] <= zeroed[k] + carried[k]
      BY DEF IInv, ZeroInv
    <3>2. CASE a # p
      BY <1>1, <1>3, <3>1, <3>2, ActorsDiffer
    <3>3. CASE a = p
      <4>1. HandAmount(hand, k, Publishers) = 0
        BY <1>8, ActorsDiffer, HandsDivided DEF IInv, MapInv
      <4>2. Amount(object, k, {}, {}) = 0 BY AmountSwept DEF IInv, MapInv
      <4>3. /\ During(k) = carried[k] + sum[k] + HandAmount(hand, k, Publishers)
                               + Amount(object, k, visit.threads, visit.objects)
            /\ carried[k] \in Nat /\ sum[k] \in Nat
        BY AmountsNow
      <4>4. During(k) = carried[k] + sum[k] + 0 + 0 BY <1>1, <4>1, <4>2, <4>3
      <4>5. During(k) = carried[k] + sum[k] BY <4>3, <4>4
      <4>6. zeroed[k] \in Nat /\ before[k] \in Nat BY AmountsNow
      <4>7. pc[a] = "publishThenZero" => before[k] <= zeroed[k] + carried[k] + sum[k]
        BY <1>1, <3>1, <3>3, <4>3, <4>5, <4>6
      <4> QED BY <1>2, <1>3, <3>1, <3>3, <4>7
    <3> QED BY <3>2, <3>3
  <2>2. \A a \in Callers : Zeroing(a)' => Zeroing(a)
    BY <1>2, <1>3, ActorsDiffer DEF Zeroing
  <2>3. \A k \in Keys : Ahead(k)' = Ahead(k) BY <1>1 DEF Ahead, Cached, InHand
  <2>4. \A a \in Callers : visit'.by # a BY <1>7, ActorsDiffer
  <2>5. /\ \A a \in Callers : Zeroing(a) => zeroing # {} /\ \A b \in Callers : Zeroing(b) => a = b
        /\ zeroing \subseteq Keys
        /\ zeroed \in [Keys -> Nat] /\ before \in [Keys -> Nat] /\ carried \in [Keys -> Nat]
        /\ zeroing = {} => \A k \in Keys : before[k] <= zeroed[k] + carried[k]
    BY DEF IInv, ZeroInv
  <2> QED BY <1>1, <2>1, <2>2, <2>3, <2>4, <2>5 DEF ZeroInv
<1> QED BY <1>4, <1>5, <1>6, <1>9, <1>10 DEF IInv

-----------------------------------------------------------------------------
(***************************************************************************)
(* zeroStats() and the publish thread.                                     *)
(***************************************************************************)
\* A publisher begins or ends something else than a sweep.
LEMMA PublisherQuiet ==
  ASSUME IInv, UNCHANGED <<mapVars, memoVars, listed, visit, zeroVars>>, WorkerInv',
         NEW a \in Publishers, NEW where, Goto(a, where) \/ pc' = pc,
         pc'[a] = pc[a] \/ (pc[a] \notin {"publish", "publishThenZero"}
                            /\ pc'[a] \notin {"publishThenZero", "zero"})
  PROVE  IInv'
<1>1. /\ UNCHANGED <<object, named, wrapper, local, exports, hand, sum, added>>
      /\ UNCHANGED <<globalMap, upgrader, prepared, last, call, listed, visit>>
      /\ UNCHANGED <<zeroing, zeroed, before, carried>>
  BY DEF mapVars, holdVars, memoVars, globalVars, zeroVars
<1>2. a \in Actors /\ DOMAIN pc = Actors BY ActorsDiffer DEF IInv, KeyInv
<1>3. DOMAIN pc' = Actors /\ \A b \in Actors \ {a} : pc'[b] = pc[b] BY <1>2, GotoIs
<1>4. \A b \in Callers : Zeroing(b)' => pc'[b] = pc[b] BY <1>3, ActorsDiffer DEF Zeroing
<1>5. MapInv' /\ ValuesConserved' /\ ZeroInv' BY <1>1, <1>4, ValuesQuiet
<1>6. Kept(object, object') BY <1>1, ObjectsKept
<1>7. HoldInv' /\ KeyInv' /\ UpgradeInv' BY <1>1, <1>3, <1>6, ActorsDiffer, PublisherFrame
<1>8. SweepInv'
  <2>1. visit.by # None => /\ visit.by \in Actors
                           /\ pc[visit.by] \in {"publish", "publishThenZero"}
    BY ActorsDiffer DEF IInv, SweepInv, Visits
  <2>2. visit.by # None => pc'[visit.by] = pc[visit.by] BY <1>3, <2>1
  <2> QED BY <1>1, <1>6, <2>2, SweepFrame
<1> QED BY <1>5, <1>7, <1>8 DEF IInv

\* publishStats() is called, or the worker wakes up.
LEMMA PublishStatsStep ==
  ASSUME IInv, NEW p \in Publishers, PublishStats(p)
  PROVE  IInv'
<1>1. /\ UNCHANGED <<mapVars, memoVars, listed, visit, zeroVars>> /\ Goto(p, "publish")
      /\ UNCHANGED <<interval, worker, manager, workerLock>> /\ pc[p] = "idle"
  BY DEF PublishStats, Elsewhere, workVars, Idle
<1>2. pc'[p] = "publish" /\ \A b \in Actors \ {p} : pc'[b] = pc[b]
  BY <1>1, ActorsDiffer, GotoIs
<1>3. WorkerInv' BY <1>1, <1>2, ActorsDiffer, WorkerFrame
<1> QED BY <1>1, <1>2, <1>3, PublisherQuiet

\* startPublishThread() and stopPublishThread() are called.
LEMMA AskStep ==
  ASSUME IInv, NEW a \in Callers,
         StopPublishThread(a) \/ \E i : StartPublishThread(a, i)
  PROVE  IInv'
<1>1. /\ UNCHANGED <<mapVars, memoVars, listed, visit, zeroVars>>
      /\ UNCHANGED <<interval, worker, manager, workerLock>> /\ pc[a] = "idle"
      /\ Goto(a, "lockWorker") \/ pc' = pc
  BY DEF StopPublishThread, StartPublishThread, Idle
<1>2. /\ Goto(a, "lockWorker") =>
            pc'[a] = "lockWorker" /\ \A b \in Actors \ {a} : pc'[b] = pc[b]
      /\ a \in Actors /\ a \in Publishers
  BY ActorsDiffer, GotoIs
<1>3. WorkerInv' BY <1>1, <1>2, ActorsDiffer, WorkerFrame
<1> QED BY <1>1, <1>2, <1>3, PublisherQuiet

\* The interval is stored under the lock of the worker.
LEMMA StoreIntervalStep ==
  ASSUME IInv, NEW a \in Callers, StoreInterval(a)
  PROVE  IInv'
<1>1. /\ UNCHANGED <<mapVars, memoVars, listed, visit, zeroVars>>
      /\ UNCHANGED <<worker, manager>> /\ pc[a] = "lockWorker"
      /\ Goto(a, IF manager THEN "join" ELSE "idle")
      /\ IF manager THEN workerLock = None /\ workerLock' = a
         ELSE UNCHANGED <<workerLock, interval>>
  BY DEF StoreInterval, keyVars
<1>2. /\ pc'[a] = (IF manager THEN "join" ELSE "idle") /\ a \in Actors /\ a \in Publishers
      /\ a # None /\ \A b \in Callers \ {a} : pc'[b] = pc[b]
  BY <1>1, ActorsDiffer, GotoIs
<1>3. WorkerInv'
  <2>1. /\ \A b \in Callers : pc[b] = "join" <=> workerLock = b
        /\ workerLock # None => manager
        /\ \A b \in Callers : b # None
    BY ActorsDiffer DEF IInv, WorkerInv
  <2>2. CASE manager BY <1>1, <1>2, <2>1, <2>2 DEF WorkerInv
  <2>3. CASE ~manager BY <1>1, <1>2, <2>1, <2>3 DEF WorkerInv
  <2> QED BY <2>2, <2>3
<1> QED BY <1>1, <1>2, <1>3, PublisherQuiet

\* The old worker is joined and a new one started.
LEMMA ReplaceWorkerStep ==
  ASSUME IInv, NEW a \in Callers, ReplaceWorker(a)
  PROVE  IInv'
<1>1. /\ UNCHANGED <<mapVars, memoVars, listed, visit, zeroVars>>
      /\ UNCHANGED <<interval, manager>> /\ pc[a] = "join" /\ Goto(a, "idle")
      /\ worker' = interval /\ workerLock' = None
  BY DEF ReplaceWorker, keyVars
<1>2. /\ pc'[a] = "idle" /\ a \in Actors /\ a \in Publishers
      /\ \A b \in Callers \ {a} : pc'[b] = pc[b]
  BY <1>1, ActorsDiffer, GotoIs
<1>3. WorkerInv' BY <1>1, <1>2, ActorsDiffer DEF IInv, WorkerInv
<1> QED BY <1>1, <1>2, <1>3, PublisherQuiet

\* The singleton goes, or comes back.
LEMMA ManagerStep ==
  ASSUME IInv, DestroyManager \/ VivifyManager
  PROVE  IInv'
<1>1. /\ UNCHANGED <<mapVars, memoVars, listed, visit, zeroVars>>
      /\ UNCHANGED <<interval, workerLock>> /\ pc' = pc
      /\ \/ workerLock = None /\ ~manager'
         \/ ~manager /\ manager' /\ worker' = interval
  BY DEF DestroyManager, VivifyManager, keyVars
<1>2. WorkerInv' BY <1>1 DEF IInv, WorkerInv
<1>3. Worker \in Publishers BY DEF Publishers
<1> QED BY <1>1, <1>2, <1>3, PublisherQuiet

\* zeroStats() is called: every value added so far is ahead of its sweep, or
\* counted as out of its reach.
LEMMA ZeroStatsStep ==
  ASSUME IInv, NEW a \in Callers, ZeroStats(a)
  PROVE  IInv'
<1>1. /\ UNCHANGED <<object, named, wrapper, local, exports, hand, sum, added>>
      /\ UNCHANGED <<globalMap, upgrader, prepared, last, call, listed, visit>>
      /\ UNCHANGED <<interval, worker, manager, workerLock, zeroed>>
      /\ pc[a] = "idle" /\ zeroing = {} /\ Goto(a, "publishThenZero")
      /\ zeroing' = Keys /\ before' = added
      /\ carried' = [k \in Keys |-> InHand(k, Threads) + Cached(k, Threads \ listed)]
  BY DEF ZeroStats, Idle, mapVars, holdVars, memoVars, globalVars, workVars
<1>2. /\ DOMAIN pc' = Actors /\ pc'[a] = "publishThenZero" /\ a \in Actors
      /\ \A b \in Actors \ {a} : pc'[b] = pc[b]
  BY <1>1, ActorsDiffer, GotoIs
<1>3. MapInv' /\ ValuesConserved' /\ Kept(object, object') BY <1>1, ValuesStay
<1>4. HoldInv' /\ KeyInv' /\ UpgradeInv' BY <1>1, <1>2, <1>3, ActorsDiffer, PublisherFrame
<1>5. WorkerInv' BY <1>1, <1>2, ActorsDiffer, WorkerFrame
<1>6. visit.by # a BY <1>1, ActorsDiffer DEF IInv, SweepInv
<1>7. SweepInv'
  <2>1. visit.by # None => pc'[visit.by] = pc[visit.by]
    BY <1>2, <1>6, ActorsDiffer DEF IInv, SweepInv, Visits
  <2> QED BY <1>1, <1>3, <2>1, SweepFrame
<1>8. \A b \in Callers : Zeroing(b)' => b = a
  BY <1>1, <1>2, ActorsDiffer DEF IInv, ZeroInv, Zeroing
<1>9. ASSUME NEW k \in Keys
      PROVE  /\ carried'[k] = HandAmount(hand, k, Threads) + Amount(object, k, Threads \ listed, {})
             /\ carried'[k] \in Nat
  <2>1. Threads \subseteq Actors BY ActorsDiffer
  <2>2. /\ InHand(k, Threads) = HandAmount(hand, k, Threads)
        /\ Cached(k, Threads \ listed) = Amount(object, k, Threads \ listed, {})
        /\ HandAmount(hand, k, Threads) \in Nat /\ Amount(object, k, Threads \ listed, {}) \in Nat
    BY <2>1, Amounts DEF IInv
  <2> QED BY <1>1, <2>2
<1>10. carried' \in [Keys -> Nat] BY <1>1, <1>9
<1>11. ASSUME NEW k \in Keys
       PROVE  before'[k] <= zeroed'[k] + Ahead(k)'
  <2>1. listed \subseteq Threads BY DEF IInv, SweepInv
  <2>2. Amount(object, k, Threads, {})
           = Amount(object, k, listed, {}) + Amount(object, k, Threads \ listed, {})
    <3>1. PICK ts, us : ts = listed /\ us = Threads \ listed OBVIOUS
    <3>2. ts \cap us = {} /\ ts \cup us = Threads /\ ObjectsOK(object)
      BY <2>1, <3>1 DEF IInv, MapInv
    <3>3. Amount(object, k, ts \cup us, {}) = Amount(object, k, ts, {}) + Amount(object, k, us, {})
      BY <3>2, AmountDivided
    <3> QED BY <3>1, <3>2, <3>3
  <2>3. HandAmount(hand, k, Actors) = HandAmount(hand, k, Threads) + HandAmount(hand, k, Publishers)
    BY HandsDivided DEF IInv, MapInv
  <2>4. /\ added[k] = sum[k] + zeroed[k] + Amount(object, k, Threads, {})
                          + HandAmount(hand, k, Actors)
        /\ sum[k] \in Nat /\ zeroed[k] \in Nat
    BY AmountsNow
  <2>5. PICK x, y, u, w \in Nat :
          /\ x = Amount(object, k, listed, {}) /\ y = Amount(object, k, Threads \ listed, {})
          /\ u = HandAmount(hand, k, Threads) /\ w = HandAmount(hand, k, Publishers)
    BY Amounts DEF IInv
  <2>6. added[k] = sum[k] + zeroed[k] + (x + y) + (u + w) BY <2>2, <2>3, <2>4, <2>5
  <2>7. carried'[k] = u + y BY <1>9, <2>5
  <2>8. Ahead(k)' = carried'[k] + sum'[k] + HandAmount(hand', k, Publishers)
                        + Amount(object', k, listed', {})
    BY <1>3, AmountsNext DEF Ahead
  <2>9. Ahead(k)' = (u + y) + sum[k] + w + x BY <1>1, <2>5, <2>7, <2>8
  <2>10. before'[k] = added[k] /\ zeroed'[k] = zeroed[k] BY <1>1
  <2>11. added[k] <= zeroed[k] + ((u + y) + sum[k] + w + x) BY <2>4, <2>6
  <2> QED BY <2>9, <2>10, <2>11
<1>12. ZeroInv'
  <2>1. zeroing' # {} BY <1>1, MapAssumption
  <2>2. zeroed' \in [Keys -> Nat] /\ before' \in [Keys -> Nat]
    BY <1>1 DEF IInv, ZeroInv, MapInv
  <2>3. \A b \in Callers : b # a => pc'[b] \notin {"publishThenZero", "zero"}
    BY <1>8 DEF Zeroing
  <2>4. visit'.by # a BY <1>1, <1>6
  <2> QED BY <1>1, <1>2, <1>8, <1>10, <1>11, <2>1, <2>2, <2>3, <2>4 DEF ZeroInv
<1> QED BY <1>3, <1>4, <1>5, <1>7, <1>12 DEF IInv

\* One statistic is zeroed.
LEMMA ZeroStatStep ==
  ASSUME IInv, NEW a \in Callers, ZeroStat(a)
  PROVE  IInv'
<1>1. PICK z \in zeroing : /\ zeroing' = zeroing \ {z} /\ sum' = [sum EXCEPT ![z] = 0]
                           /\ zeroed' = [zeroed EXCEPT ![z] = @ + sum[z]]
  BY DEF ZeroStat
<1>2. /\ UNCHANGED <<object, named, wrapper, local, exports, hand, added>>
      /\ UNCHANGED <<globalMap, upgrader, prepared, last, call, listed, visit>>
      /\ UNCHANGED <<interval, worker, manager, workerLock, before, carried>>
      /\ pc[a] = "zero" /\ Goto(a, IF zeroing' = {} THEN "idle" ELSE "zero")
  BY DEF ZeroStat, holdVars, keyVars, memoVars, globalVars, workVars
<1>3. /\ DOMAIN pc' = Actors /\ pc'[a] = (IF zeroing' = {} THEN "idle" ELSE "zero")
      /\ a \in Actors /\ \A b \in Actors \ {a} : pc'[b] = pc[b]
  BY <1>2, ActorsDiffer, GotoIs
<1>4. /\ z \in Keys /\ zeroing \subseteq Keys /\ sum \in [Keys -> Nat]
      /\ zeroed \in [Keys -> Nat] /\ before \in [Keys -> Nat] /\ carried \in [Keys -> Nat]
  BY DEF IInv, ZeroInv, MapInv
<1>5. /\ sum' \in [Keys -> Nat] /\ sum'[z] = 0 /\ \A k \in Keys \ {z} : sum'[k] = sum[k]
      /\ zeroed' \in [Keys -> Nat] /\ zeroed'[z] = zeroed[z] + sum[z]
      /\ \A k \in Keys \ {z} : zeroed'[k] = zeroed[k]
  BY <1>1, <1>4
<1>6. MapInv' BY <1>2, <1>5 DEF IInv, MapInv
<1>7. ValuesConserved'
  <2>1. ASSUME NEW k \in Keys
        PROVE  added'[k] = sum'[k] + zeroed'[k] + Amount(object', k, Threads, {})
                               + HandAmount(hand', k, Actors)
    <3>1. /\ added[k] = sum[k] + zeroed[k] + Amount(object, k, Threads, {})
                            + HandAmount(hand, k, Actors)
          /\ sum[k] \in Nat /\ zeroed[k] \in Nat
      BY AmountsNow
    <3>2. PICK x, y \in Nat : x = Amount(object, k, Threads, {}) /\ y = HandAmount(hand, k, Actors)
      BY Amounts DEF IInv
    <3>3. sum'[k] + zeroed'[k] = sum[k] + zeroed[k]
      <4>1. CASE k = z BY <1>5, <3>1, <4>1
      <4>2. CASE k # z BY <1>5, <3>1, <4>2
      <4> QED BY <4>1, <4>2
    <3>4. sum'[k] \in Nat /\ zeroed'[k] \in Nat BY <1>5
    <3>5. added[k] = sum'[k] + zeroed'[k] + x + y BY <3>1, <3>2, <3>3, <3>4
    <3> QED BY <1>2, <3>2, <3>5
  <2> QED BY <1>6, <2>1, ConservedNext
<1>8. Kept(object, object') BY <1>2, ObjectsKept
<1>9. HoldInv' /\ KeyInv' /\ UpgradeInv' BY <1>2, <1>3, <1>8, ActorsDiffer, PublisherFrame
<1>10. WorkerInv' BY <1>2, <1>3, ActorsDiffer, WorkerFrame
<1>11. SweepInv'
  <2>1. visit.by # None => pc'[visit.by] = pc[visit.by]
    BY <1>2, <1>3, ActorsDiffer DEF IInv, SweepInv, Visits
  <2> QED BY <1>2, <1>8, <2>1, SweepFrame
<1>12. ZeroInv'
  <2>1. \A b \in Callers : Zeroing(b) => b = a BY <1>2 DEF IInv, ZeroInv, Zeroing
  <2>2. \A b \in Callers : /\ Zeroing(b)' => b = a /\ pc'[b] = "zero" /\ zeroing' # {}
                           /\ pc'[b] # "publishThenZero"
    BY <1>3, <2>1, ActorsDiffer DEF Zeroing
  <2>3. ASSUME NEW k \in Keys
        PROVE  /\ k \in zeroing' => before[k] <= zeroed'[k] + carried[k] + sum'[k]
               /\ k \notin zeroing' => before[k] <= zeroed'[k] + carried[k]
    <3>1. /\ k \in zeroing => before[k] <= zeroed[k] + carried[k] + sum[k]
          /\ k \notin zeroing => before[k] <= zeroed[k] + carried[k]
      BY <1>2 DEF IInv, ZeroInv
    <3>2. CASE k = z
      <4>1. before[k] <= zeroed[k] + carried[k] + sum[k] /\ zeroed'[k] = zeroed[k] + sum[k]
        BY <1>5, <3>1, <3>2
      <4>2. /\ before[k] \in Nat /\ zeroed[k] \in Nat /\ carried[k] \in Nat /\ sum[k] \in Nat
        BY AmountsNow
      <4> QED BY <1>1, <3>2, <4>1, <4>2
    <3>3. CASE k # z BY <1>1, <1>5, <3>1, <3>3
    <3> QED BY <3>2, <3>3
  <2>4. zeroing' \subseteq Keys BY <1>1, <1>4
  <2>5. before' \in [Keys -> Nat] /\ carried' \in [Keys -> Nat] BY <1>2, <1>4
  <2>6. zeroing' = {} => \A k \in Keys : before[k] <= zeroed'[k] + carried[k] BY <2>3
  <2>7. \A b \in Callers : Zeroing(b)' => /\ zeroing' # {}
                                          /\ \A c \in Callers : Zeroing(c)' => b = c
    BY <2>2
  <2> QED BY <1>2, <1>5, <2>2, <2>3, <2>4, <2>5, <2>6, <2>7 DEF ZeroInv
<1> QED BY <1>6, <1>7, <1>9, <1>10, <1>11, <1>12 DEF IInv

-----------------------------------------------------------------------------
(***************************************************************************)
(* The specification.                                                      *)
(***************************************************************************)
\* Nothing has been added, cached or asked for.
LEMMA InitStep ==
  ASSUME Init
  PROVE  IInv
<1>1. DOMAIN Empty = {} BY DEF Empty
<1>2. /\ object = Empty /\ sum = NoValues /\ added = NoValues
      /\ named = [t \in Threads |-> Empty] /\ wrapper = named /\ local = named
      /\ hand = [a \in Actors |-> NoKey] /\ pc = [a \in Actors |-> "idle"]
      /\ globalMap = {} /\ upgrader = None /\ prepared = [s \in Subkeys |-> 0]
      /\ last = [t \in Threads |-> NoItem] /\ call = [t \in Threads |-> NoCall]
      /\ listed = Threads /\ visit = NoVisit
      /\ interval = 0 /\ worker = 0 /\ manager = TRUE /\ workerLock = None
      /\ zeroing = {} /\ zeroed = NoValues /\ before = NoValues /\ carried = NoValues
  BY DEF Init, Actors
<1>3. NoValues \in [Keys -> Nat] BY DEF NoValues
<1>4. MapInv
  <2>1. ObjectsOK(object) BY <1>1, <1>2 DEF ObjectsOK
  <2>2. hand \in [Actors -> Hands] BY <1>2 DEF Hands
  <2> QED BY <1>2, <1>3, <2>1, <2>2 DEF MapInv
<1>5. HoldInv BY <1>1, <1>2 DEF HoldInv, Holds
<1>6. KeyInv BY <1>1, <1>2, ActorsDiffer DEF KeyInv, Keyed
<1>7. UpgradeInv
  <2>1. \A t \in Threads : pc[t] = "idle" /\ upgrader # t BY <1>2, ActorsDiffer
  <2>2. prepared \in [Subkeys -> 0..1] /\ \A s \in Subkeys : prepared[s] # 1 BY <1>2
  <2> QED BY <2>1, <2>2 DEF UpgradeInv
<1>8. SweepInv
  <2>1. visit = [by |-> None, threads |-> {}, in |-> None, objects |-> {}]
    BY <1>2 DEF NoVisit
  <2>2. visit \in Visits BY <2>1 DEF Visits
  <2>3. \A p \in Publishers : hand[p] = NoKey BY <1>2, ActorsDiffer
  <2> QED BY <1>2, <2>1, <2>2, <2>3 DEF SweepInv
<1>9. WorkerInv
  <2>1. \A a \in Callers : pc[a] = "idle" /\ workerLock # a BY <1>2, ActorsDiffer
  <2> QED BY <1>2, <2>1 DEF WorkerInv
<1>10. ASSUME NEW k \in Keys
       PROVE  /\ Cached(k, Threads) = 0 /\ InHand(k, DOMAIN hand) = 0
              /\ sum[k] = 0 /\ added[k] = 0 /\ zeroed[k] = 0 /\ before[k] = 0 /\ carried[k] = 0
  <2>1. Cached(k, Threads) = Amount(object, k, Threads, {})
        /\ InHand(k, DOMAIN hand) = HandAmount(hand, k, Actors)
    BY <1>4, Amounts
  <2>2. HandAmount(hand, k, Actors) = 0 BY <1>2, <1>4, HandsDivided DEF MapInv
  <2>3. Amount(object, k, Threads, {}) = 0
    <3>1. ValuesOf(object, k, Threads, {}) \in [1..MaxObjects -> Nat]
      BY <1>4, ValuesAre DEF MapInv
    <3>2. \A x \in 1..MaxObjects : ValuesOf(object, k, Threads, {})[x] = 0
      BY <1>1, <1>2 DEF ValuesOf
    <3> QED BY <3>1, <3>2, TotalZero DEF Amount
  <2>4. /\ sum[k] = 0 /\ added[k] = 0 /\ zeroed[k] = 0 /\ before[k] = 0 /\ carried[k] = 0
    BY <1>2 DEF NoValues
  <2> QED BY <2>1, <2>2, <2>3, <2>4
<1>11. ValuesConserved BY <1>10 DEF ValuesConserved
<1>12. ZeroInv
  <2>1. \A a \in Callers : pc[a] = "idle" BY <1>2, ActorsDiffer
  <2> QED BY <1>2, <1>3, <1>10, <2>1 DEF ZeroInv, Zeroing
<1> QED BY <1>4, <1>5, <1>6, <1>7, <1>8, <1>9, <1>11, <1>12 DEF IInv

\* Nothing happens.
LEMMA StutterStep ==
  ASSUME IInv, UNCHANGED vars
  PROVE  IInv'
<1>1. /\ UNCHANGED <<mapVars, memoVars, listed, visit, zeroVars>> /\ pc' = pc
      /\ UNCHANGED <<interval, worker, manager, workerLock>>
  BY DEF vars, keyVars, workVars
<1>2. WorkerInv' BY <1>1, WorkerFrame
<1>3. Worker \in Publishers BY DEF Publishers
<1> QED BY <1>1, <1>2, <1>3, PublisherQuiet

\* What a thread calls.
LEMMA ThreadCallsStep ==
  ASSUME IInv, NEW t \in Threads, ThreadCalls(t)
  PROVE  IInv'
<1>1. ASSUME NEW k \in Keys, NEW types \in {{}} \cup {{y} : y \in Types},
             AddStatValue(t, k, types)
      PROVE  IInv'
  <2>1. types \subseteq Types BY <1>1
  <2> QED BY <1>1, <2>1, AddStatValueStep
<1>2. ASSUME NEW k \in Keys, NEW y \in Types, ClearStatType(t, k, y)
      PROVE  IInv'
  BY <1>2, ClearStatTypeStep
<1> QED BY <1>1, <1>2, AddToWrapperStep, ResetAllDataStep, CallDynamicStep, ExitThreadStep
        DEF ThreadCalls

\* Every step keeps the invariant.
LEMMA NextStep ==
  ASSUME IInv, [Next]_vars
  PROVE  IInv'
<1>1. CASE Continue
  <2>1. ASSUME NEW t \in Threads, KeySteps(t) /\ Elsewhere
        PROVE  IInv'
    BY <2>1, LookAgainStep, PrepareKeyStep, EmplaceStep, UseEntryStep DEF KeySteps
  <2>2. ASSUME NEW p \in Publishers, Publishing(p)
        PROVE  IInv'
    BY <2>2, BeginSweepStep, VisitThreadStep, SweepStatStep, DeliverSweptStep, EndSweepStep
       DEF Publishing
  <2>3. ASSUME NEW t \in Threads, Destructor(t) \/ DropHolder(t)
        PROVE  IInv'
    BY <2>3, DestructorStep, DropHolderStep
  <2>4. ASSUME NEW a \in Callers, ZeroStat(a) \/ StoreInterval(a) \/ ReplaceWorker(a)
        PROVE  IInv'
    BY <2>4, ZeroStatStep, StoreIntervalStep, ReplaceWorkerStep
  <2> QED BY <1>1, <2>1, <2>2, <2>3, <2>4 DEF Continue
<1>2. CASE UNCHANGED vars BY <1>2, StutterStep
<1>3. ASSUME NEW t \in Threads, ThreadCalls(t) PROVE IInv' BY <1>3, ThreadCallsStep
<1>4. ASSUME NEW p \in Publishers, PublishStats(p) PROVE IInv' BY <1>4, PublishStatsStep
<1>5. ASSUME NEW a \in Callers, ZeroStats(a) \/ StopPublishThread(a) PROVE IInv'
  BY <1>5, ZeroStatsStep, AskStep
<1>6. ASSUME NEW a \in Callers, NEW i \in Intervals \cup {0}, StartPublishThread(a, i)
      PROVE  IInv'
  BY <1>6, AskStep
<1>7. CASE DestroyManager \/ VivifyManager BY <1>7, ManagerStep
<1> QED BY <1>1, <1>2, <1>3, <1>4, <1>5, <1>6, <1>7 DEF Next

\* In every reachable state: all of the above.
THEOREM CachedInvariant == Spec => []IInv
<1>1. Init => IInv BY InitStep
<1>2. IInv /\ [Next]_vars => IInv' BY NextStep
<1> QED BY <1>1, <1>2, PTL DEF Spec

\* No value that a thread added is lost or counted twice on its way through the
\* caches, the hands of destructors and sweeps, and the exported statistics,
\* whatever is cleared, reset, zeroed or comes to its end meanwhile
\* (ThreadLocalStats-inl.h: the destructor and aggregate(); zeroStats()).
THEOREM ValuesAreConserved == Spec => []ValuesConserved
<1>1. IInv => ValuesConserved BY DEF IInv
<1> QED BY <1>1, CachedInvariant, PTL

\* zeroStats() drops what was added before it was called, save what destructors
\* and ending threads had taken out of the reach of its sweep.
THEOREM ZeroIsComplete == Spec => []ZeroForgets
<1>1. IInv => ZeroForgets
  <2> SUFFICES ASSUME IInv, zeroing = {}, NEW k \in Keys
               PROVE  zeroed[k] + carried[k] >= before[k]
    BY DEF ZeroForgets
  <2>1. before[k] <= zeroed[k] + carried[k] BY DEF IInv, ZeroInv
  <2>2. before[k] \in Nat /\ zeroed[k] \in Nat /\ carried[k] \in Nat BY AmountsNow
  <2> QED BY <2>1, <2>2
<1> QED BY <1>1, CachedInvariant, PTL

\* However many threads meet a subkey first at the same time, it is prepared
\* once, and no thread has it cached, or a type flagged, before it is exported
\* (getFormattedKeyGlobal() under the read, the upgrade and the write lock).
THEOREM PreparedOnce == Spec => []KeysPreparedOnce
<1>1. IInv => KeysPreparedOnce
  <2> SUFFICES ASSUME IInv PROVE KeysPreparedOnce OBVIOUS
  <2>1. \A s \in Subkeys : prepared[s] <= 1 BY DEF IInv, UpgradeInv
  <2>2. ASSUME NEW t \in Threads
        PROVE  /\ \A s \in DOMAIN local[t] : {Format[s]} \X Types \subseteq exports
               /\ \A k \in DOMAIN named[t] : {k} \X named[t][k].types \subseteq exports
    BY DEF IInv, KeyInv, Keyed, Exported
  <2> QED BY <2>1, <2>2 DEF KeysPreparedOnce, FormatKey
<1> QED BY <1>1, CachedInvariant, PTL

\* The raw pointer in the last item found is always one the local map owns, to
\* an object of the calling thread and of the item's key.
THEOREM LastFoundLives == Spec => []LastFoundIsLive
<1>1. IInv => LastFoundIsLive
  <2> SUFFICES ASSUME IInv, NEW t \in Threads, last[t] # NoItem
               PROVE  /\ last[t].sub \in DOMAIN local[t]
                      /\ local[t][last[t].sub].id = last[t].id
                      /\ object[last[t].id].thread = t
                      /\ object[last[t].id].key = FormatKey(last[t].sub)
    BY DEF LastFoundIsLive
  <2>1. last[t].sub \in DOMAIN local[t] /\ local[t][last[t].sub].id = last[t].id
    BY DEF IInv, KeyInv, Keyed
  <2>2. Owned(t, Format[last[t].sub], local[t][last[t].sub].id)
    BY <2>1 DEF IInv, HoldInv, Holds
  <2> QED BY <2>1, <2>2 DEF Owned, FormatKey
<1> QED BY <1>1, CachedInvariant, PTL

\* Whoever starts, stops or restarts the publish thread, and however the
\* singleton comes and goes: when nobody is changing it, the worker runs with the
\* interval that publishThreadRunning() and getPublisherInterval() report.
THEOREM WorkerIsAsReported == Spec => []WorkerFollowsInterval
<1>1. IInv => WorkerFollowsInterval BY DEF IInv, WorkerInv, WorkerFollowsInterval
<1> QED BY <1>1, CachedInvariant, PTL
=============================================================================
