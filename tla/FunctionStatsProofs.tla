------------------------ MODULE FunctionStatsProofs -------------------------
(***************************************************************************)
(* Proofs about TFunctionStatHandler, for any threads, functions, requests *)
(* and ways that requests go.                                              *)
(***************************************************************************)
EXTENDS TFunctionStatHandler, FiniteSetTheorems, TLAPS

\* The values that the state has.
Labels == {"idle", "getStats", "use", "exit", "exitLock", "exitSweep", "delete", "abandon",
           "consolidate", "sweep", "shutdown", "join", "destroy"}
Sums == [Kinds -> Nat]
StatType == [sum : Sums, sampleRate : 0..Scale, sampleTimer : 0..(Scale - 1)]
OpenContext ==
    [open : {TRUE}, fn : Functions, place : Threads, origin : Nat, measureTime : BOOLEAN,
     readBegin : BOOLEAN, readEnd : BOOLEAN, writeBegin : BOOLEAN, writeEnd : BOOLEAN,
     exception : BOOLEAN, userException : BOOLEAN]
DoneContext == [open |-> FALSE, done |-> TRUE]
Target == [place : Threads, id : Nat, fn : Functions]
JobType == [req : Requests \cup {None}, fn : Functions \cup {None}, target : Target \cup {None}]

HandlerTypes ==
    /\ handler \in {"alive", "dying", "gone"} /\ owned \in BOOLEAN
    /\ nThreads \in Nat \ {0} /\ lastId \in Nat /\ id \in [Threads -> Nat]
    /\ listed \subseteq Threads
    /\ map \in [Threads -> (SUBSET Functions) \cup {None}]
    /\ cached \in [Threads -> Functions \cup {None}]
    /\ stats \in [Threads -> [Functions -> StatType]]
    /\ context \in [Requests -> OpenContext \cup {NoContext, DoneContext}]
    /\ pc \in [Actors -> Labels]
    /\ job \in [Threads -> JobType]
    /\ todo \in [Actors -> SUBSET (Threads \X Functions)]
    /\ active \in [Actors -> SUBSET Threads]
    /\ exported \in [Functions -> Sums] /\ logged \in [Functions -> Sums]
    /\ lost \in [Functions -> Sums]

\* Ids are given once, and a thread in a call or in its exit has one.
IdInv ==
    /\ \A t \in Threads : id[t] <= lastId /\ (pc[t] # "idle" => id[t] # 0)
    /\ \A t, u \in Threads : id[t] = id[u] /\ id[t] # 0 => t = u

\* A thread has stats of function f.
Has(t, f) == map[t] # None /\ f \in map[t]

\* The cached entry is one of the map, and the map of a thread that has not
\* begun to exit is among those that are visited.
InCallOf(t) == pc[t] \in {"getStats", "use"}
MapInv ==
    \A t \in Threads :
        /\ cached[t] # None => Has(t, cached[t])
        /\ map[t] # None /\ (pc[t] = "idle" \/ InCallOf(t)) => t \in listed

\* A context was made by a thread that has its stats as long as it runs.
ContextInv ==
    \A r \in Requests : Open(r) =>
        /\ context[r].origin \in 1..lastId
        /\ \A t \in Threads : id[t] = context[r].origin =>
              t = context[r].place /\ Has(t, context[r].fn)

\* A call is for a request of its own, and uses stats of its own thread.
JobOK(t) ==
    /\ InCallOf(t) => /\ job[t].req \in Requests /\ job[t].fn \in Functions
                      /\ context[job[t].req] # DoneContext
                      /\ Open(job[t].req) => context[job[t].req].fn = job[t].fn
    /\ ~InCallOf(t) => job[t] = NoJob
    /\ pc[t] = "use" => /\ job[t].target = [place |-> t, id |-> id[t], fn |-> job[t].fn]
                        /\ Has(t, job[t].fn)
JobInv ==
    /\ \A t \in Threads : JobOK(t)
    /\ \A t, u \in Threads : job[t].req = job[u].req /\ job[t].req # None => t = u

\* Stats that are not in a map count nothing, nor those about to be deleted.
Nothing(t, f) == stats[t][f].sum = Zero
Swept(a, t) == \A f \in Functions : <<t, f>> \in todo[a] \/ Nothing(t, f)
Empty(t) == \A f \in Functions : Nothing(t, f)
EmptyInv ==
    \A t \in Threads :
        /\ \A f \in Functions : Has(t, f) \/ Nothing(t, f)
        /\ pc[t] = "delete" => Empty(t)
        /\ pc[t] = "exitSweep" => Swept(t, t)

\* The one actor in the destructor, which begins when nobody is in a call; it
\* deletes only maps whose stats it has exported.
Destroys(a) == \/ pc[a] \in {"shutdown", "join", "destroy"}
               \/ a # Scheduler /\ pc[a] \in {"consolidate", "sweep"}
DestroyOK(a) ==
    Destroys(a) =>
        /\ handler = "dying"
        /\ a \in Threads /\ a \notin listed => Empty(a)
        /\ pc[a] = "sweep" => \A t \in listed : Swept(a, t)
        /\ pc[a] = "destroy" => \A t \in listed : Empty(t)
DestroyInv ==
    /\ \A a \in Actors : DestroyOK(a)
    /\ \A a, b \in Actors : Destroys(a) /\ Destroys(b) => a = b
    /\ handler # "alive" =>
          /\ ~owned /\ \A r \in Requests : ~Open(r)
          /\ \A t \in Threads : pc[t] \notin {"getStats", "use", "exitLock", "exitSweep"}

IInv == /\ HandlerTypes /\ IdInv /\ MapInv /\ ContextInv /\ JobInv /\ EmptyInv /\ DestroyInv
        /\ CallsConserved

-----------------------------------------------------------------------------
(***************************************************************************)
(* Sums over threads.                                                      *)
(***************************************************************************)
\* The elements that Total() counts for the threads in T.
Blocks(g, T) == UNION {{t} \X (1..g[t]) : t \in T}

\* There are finitely many of them.
LEMMA BlocksFinite ==
  ASSUME NEW g \in [Threads -> Nat], NEW T \in SUBSET Threads
  PROVE  IsFiniteSet(Blocks(g, T))
<1> DEFINE B == {{t} \X (1..g[t]) : t \in T}
           block(t) == {t} \X (1..g[t])
<1>1. IsFiniteSet(T) BY HandlerAssumption, FS_Subset
<1>2. IsFiniteSet(B)
  <2> DEFINE h == [t \in T |-> block(t)]
  <2>1. h \in Surjection(T, B) BY DEF Surjection
  <2> HIDE DEF h
  <2> QED BY <1>1, <2>1, FS_Surjection
<1>3. \A b \in B : IsFiniteSet(b)
  <2> SUFFICES ASSUME NEW t \in T PROVE IsFiniteSet({t} \X (1..g[t]))
    OBVIOUS
  <2>1. IsFiniteSet({t}) BY FS_Singleton
  <2>2. g[t] \in Int /\ 1 \in Int OBVIOUS
  <2>3. IsFiniteSet(1..g[t]) BY <2>2, FS_Interval
  <2> QED BY <2>1, <2>3, FS_Product
<1> HIDE DEF B
<1>4. IsFiniteSet(UNION B) BY <1>2, <1>3, FS_UNION
<1> QED BY <1>4 DEF Blocks, B

\* A sum is a number.
LEMMA TotalType ==
  ASSUME NEW g \in [Threads -> Nat]
  PROVE  Total(g) \in Nat
<1>1. IsFiniteSet(Blocks(g, Threads)) BY BlocksFinite
<1>2. Total(g) = Cardinality(Blocks(g, Threads)) BY DEF Total, Blocks
<1> QED BY <1>1, <1>2, FS_CardinalityType

\* What thread t has is a part of the sum.
LEMMA TotalSplit ==
  ASSUME NEW g \in [Threads -> Nat], NEW t \in Threads
  PROVE  /\ Cardinality(Blocks(g, Threads \ {t})) \in Nat
         /\ Total(g) = Cardinality(Blocks(g, Threads \ {t})) + g[t]
<1> DEFINE R == Blocks(g, Threads \ {t})
           B == {t} \X (1..g[t])
<1>1. IsFiniteSet(R) BY BlocksFinite
<1>2. g[t] \in Nat OBVIOUS
<1>3. IsFiniteSet(B) /\ Cardinality(B) = g[t]
  <2>1. IsFiniteSet({t}) /\ Cardinality({t}) = 1 BY FS_Singleton
  <2>2. g[t] \in Int /\ 1 \in Int BY <1>2
  <2>3. /\ IsFiniteSet(1..g[t])
        /\ Cardinality(1..g[t]) = IF 1 > g[t] THEN 0 ELSE g[t] - 1 + 1
    BY <2>2, FS_Interval
  <2>4. Cardinality(1..g[t]) = g[t] BY <1>2, <2>3
  <2>5. IsFiniteSet(B) /\ Cardinality(B) = Cardinality({t}) * Cardinality(1..g[t])
    BY <2>1, <2>3, FS_Product
  <2> QED BY <1>2, <2>1, <2>4, <2>5
<1>4. R \cap B = {} BY DEF Blocks
<1>5. Blocks(g, Threads) = R \cup B
  <2>1. Blocks(g, Threads) \subseteq R \cup B BY DEF Blocks
  <2>2. R \cup B \subseteq Blocks(g, Threads) BY DEF Blocks
  <2> QED BY <2>1, <2>2
<1>6. Total(g) = Cardinality(R \cup B) BY <1>5 DEF Total, Blocks
<1> HIDE DEF R, B
<1>7. Cardinality(R \cup B) = Cardinality(R) + Cardinality(B) - Cardinality(R \cap B)
  BY <1>1, <1>3, FS_Union
<1>8. Cardinality(R \cap B) = 0 BY <1>4, FS_EmptySet
<1>9. Cardinality(R) \in Nat BY <1>1, FS_CardinalityType
<1> QED BY <1>2, <1>3, <1>6, <1>7, <1>8, <1>9 DEF R

\* A sum changes as much as the one number that changes.
LEMMA TotalUpdate ==
  ASSUME NEW g \in [Threads -> Nat], NEW h \in [Threads -> Nat], NEW t \in Threads,
         \A u \in Threads \ {t} : h[u] = g[u]
  PROVE  Total(h) + g[t] = Total(g) + h[t]
<1>1. Blocks(h, Threads \ {t}) = Blocks(g, Threads \ {t})
  <2>1. {{u} \X (1..h[u]) : u \in Threads \ {t}} = {{u} \X (1..g[u]) : u \in Threads \ {t}}
    OBVIOUS
  <2> QED BY <2>1 DEF Blocks
<1>2. /\ Cardinality(Blocks(g, Threads \ {t})) \in Nat
      /\ Total(g) = Cardinality(Blocks(g, Threads \ {t})) + g[t]
  BY TotalSplit
<1>3. Total(h) = Cardinality(Blocks(h, Threads \ {t})) + h[t]
  BY TotalSplit
<1>4. g[t] \in Nat /\ h[t] \in Nat OBVIOUS
<1> QED BY <1>1, <1>2, <1>3, <1>4

\* What threads hold of a statistic is a number.
LEMMA HeldType ==
  ASSUME HandlerTypes, NEW f \in Functions, NEW k \in Kinds
  PROVE  Held(f)[k] \in Nat
<1> DEFINE g == [t \in Threads |-> stats[t][f].sum[k]]
<1>1. g \in [Threads -> Nat] BY DEF HandlerTypes, StatType, Sums
<1> HIDE DEF g
<1>2. Total(g) \in Nat BY <1>1, TotalType
<1> QED BY <1>2 DEF Held, g

\* A step that changes no sum changes no total.
LEMMA HeldSame ==
  ASSUME NEW f \in Functions,
         \A t \in Threads : stats'[t][f].sum = stats[t][f].sum
  PROVE  Held(f)' = Held(f)
<1>1. \A k \in Kinds : [t \in Threads |-> stats'[t][f].sum[k]]
                           = [t \in Threads |-> stats[t][f].sum[k]]
  OBVIOUS
<1>2. \A k \in Kinds : Total([t \in Threads |-> stats'[t][f].sum[k]])
                           = Total([t \in Threads |-> stats[t][f].sum[k]])
  BY <1>1
<1>3. Held(f)' = [k \in Kinds |-> Total([t \in Threads |-> stats'[t][f].sum[k]])]
  BY DEF Held, Total
<1> QED BY <1>2, <1>3 DEF Held

\* A step that changes the sums of one thread changes the totals as much.
LEMMA HeldMoves ==
  ASSUME HandlerTypes, HandlerTypes', NEW t \in Threads, NEW f \in Functions, NEW k \in Kinds,
         \A u \in Threads \ {t} : stats'[u][f].sum = stats[u][f].sum
  PROVE  /\ Held(f)[k] \in Nat /\ Held(f)'[k] \in Nat
         /\ Held(f)'[k] + stats[t][f].sum[k] = Held(f)[k] + stats'[t][f].sum[k]
<1> DEFINE g == [u \in Threads |-> stats[u][f].sum[k]]
           h == [u \in Threads |-> stats'[u][f].sum[k]]
<1>1. g \in [Threads -> Nat] /\ h \in [Threads -> Nat]
  BY DEF HandlerTypes, StatType, Sums
<1>2. \A u \in Threads \ {t} : h[u] = g[u] OBVIOUS
<1>3. Held(f)[k] = Total(g) BY DEF Held
<1>4. Held(f)'[k] = Total(h) BY DEF Held, Total
<1>5. g[t] = stats[t][f].sum[k] /\ h[t] = stats'[t][f].sum[k] OBVIOUS
<1> HIDE DEF g, h
<1>6. Total(h) + g[t] = Total(g) + h[t] BY <1>1, <1>2, TotalUpdate
<1>7. Total(g) \in Nat /\ Total(h) \in Nat BY <1>1, TotalType
<1> QED BY <1>3, <1>4, <1>5, <1>6, <1>7

-----------------------------------------------------------------------------
(***************************************************************************)
(* What steps have in common.                                              *)
(***************************************************************************)
\* Threads, the scheduler and the owner are different actors.
LEMMA ActorFacts ==
  /\ Threads \subseteq Actors /\ Scheduler \in Actors /\ Owner \in Actors
  /\ Scheduler \notin Threads /\ Owner \notin Threads /\ Scheduler # Owner
  /\ None \notin Requests /\ None \notin Functions
  BY HandlerAssumption DEF Actors

Moved(a, l) == pc'[a] = l /\ \A b \in Actors \ {a} : pc'[b] = pc[b]

\* An actor goes to its next place and nobody else moves.
LEMMA GotoMoves ==
  ASSUME HandlerTypes, NEW a \in Actors, NEW l \in Labels, Goto(a, l)
  PROVE  Moved(a, l) /\ pc' \in [Actors -> Labels]
  BY DEF HandlerTypes, Goto, Moved

\* The three kinds of contexts.
LEMMA ContextKinds ==
  ASSUME HandlerTypes, NEW r \in Requests
  PROVE  /\ Open(r) <=> context[r] \in OpenContext
         /\ ~Open(r) => context[r] \in {NoContext, DoneContext}
         /\ NoContext # DoneContext
         /\ Open(r) => context[r] # NoContext /\ context[r] # DoneContext
<1>1. NoContext # DoneContext
  <2>1. "done" \in DOMAIN DoneContext BY DEF DoneContext
  <2>2. "done" \notin DOMAIN NoContext BY DEF NoContext
  <2> QED BY <2>1, <2>2
<1>2. ~NoContext.open /\ ~DoneContext.open BY DEF NoContext, DoneContext
<1>3. \A c \in OpenContext : c.open BY DEF OpenContext
<1>4. context[r] \in OpenContext \cup {NoContext, DoneContext} BY DEF HandlerTypes
<1> QED BY <1>1, <1>2, <1>3, <1>4 DEF Open

\* A step that changes no sum keeps the balance.
LEMMA SameBalance ==
  ASSUME IInv, UNCHANGED sumVars,
         \A t \in Threads, f \in Functions : stats'[t][f].sum = stats[t][f].sum
  PROVE  CallsConserved'
<1>1. \A f \in Functions : Held(f)' = Held(f) BY HeldSame
<1> QED BY <1>1 DEF CallsConserved, IInv, sumVars

\* Contexts and jobs that stay valid when no thread changes its call.
LEMMA SameCalls ==
  ASSUME IInv, UNCHANGED <<context, job, id>>, lastId' >= lastId, lastId' \in Nat,
         \A t \in Threads, f \in Functions : Has(t, f) => Has(t, f)',
         \A t \in Threads : /\ pc'[t] = "use" => pc[t] = "use"
                            /\ InCallOf(t)' <=> InCallOf(t)
  PROVE  ContextInv' /\ JobInv'
<1>1. ContextInv'
  <2> SUFFICES ASSUME NEW r \in Requests, Open(r)'
               PROVE  /\ context'[r].origin \in 1..lastId'
                      /\ \A t \in Threads : id'[t] = context'[r].origin =>
                            t = context'[r].place /\ Has(t, context[r].fn)'
    BY DEF ContextInv
  <2>1. Open(r) /\ context[r] \in OpenContext BY ContextKinds DEF Open, IInv
  <2>2. context[r].origin \in Nat /\ context[r].fn \in Functions BY <2>1 DEF OpenContext
  <2>3. /\ context[r].origin \in 1..lastId
        /\ \A t \in Threads : id[t] = context[r].origin =>
              t = context[r].place /\ Has(t, context[r].fn)
    BY <2>1 DEF IInv, ContextInv
  <2>4. lastId \in Nat BY DEF IInv, HandlerTypes
  <2> QED BY <2>2, <2>3, <2>4
<1>2. \A t \in Threads : JobOK(t)'
  <2> SUFFICES ASSUME NEW t \in Threads PROVE JobOK(t)'
    OBVIOUS
  <2>1. JobOK(t) BY DEF IInv, JobInv
  <2>2. pc'[t] = "use" => Has(t, job[t].fn)'
    <3>1. pc[t] = "use" => Has(t, job[t].fn) /\ job[t].fn \in Functions
      BY <2>1 DEF JobOK, InCallOf
    <3> QED BY <3>1 DEF Has
  <2> QED BY <2>1, <2>2 DEF JobOK, Open
<1>3. \A t, u \in Threads : job'[t].req = job'[u].req /\ job'[t].req # None => t = u
  BY DEF IInv, JobInv
<1> QED BY <1>1, <1>2, <1>3 DEF JobInv

\* The parts about stats when neither they, the maps nor what is visited change.
LEMMA SameStats ==
  ASSUME IInv, UNCHANGED <<stats, map, listed, todo>>
  PROVE  /\ \A t \in Threads, f \in Functions : Has(t, f)' <=> Has(t, f)
         /\ \A t \in Threads : Empty(t)' <=> Empty(t)
         /\ \A a, t \in Actors : Swept(a, t)' <=> Swept(a, t)
  BY DEF Has, Empty, Swept, Nothing

-----------------------------------------------------------------------------
(***************************************************************************)
(* Threads and requests.                                                   *)
(***************************************************************************)
\* A new thread has an id that no context has as its origin.
LEMMA StartThreadStep ==
  ASSUME IInv, NEW t \in Threads, StartThread(t)
  PROVE  IInv'
<1>1. /\ id[t] = 0 /\ pc[t] = "idle" /\ lastId' = lastId + 1
      /\ id' = [id EXCEPT ![t] = lastId + 1]
      /\ UNCHANGED <<lifeVars, sweepVars, sumVars, listed, map, cached, stats,
                     context, pc, job>>
  BY DEF StartThread
<1>2. HandlerTypes'
  BY <1>1 DEF IInv, HandlerTypes, lifeVars, sweepVars, sumVars
<1>3. IdInv'
  BY <1>1 DEF IInv, HandlerTypes, IdInv
<1>4. MapInv'
  BY <1>1 DEF IInv, MapInv, Has, InCallOf
<1>5. ContextInv'
  <2> SUFFICES ASSUME NEW r \in Requests, Open(r)
               PROVE  /\ context[r].origin \in 1..lastId'
                      /\ \A u \in Threads : id'[u] = context[r].origin =>
                            u = context[r].place /\ Has(u, context[r].fn)
    BY <1>1 DEF ContextInv, Open, Has
  <2>1. /\ context[r].origin \in 1..lastId
        /\ \A u \in Threads : id[u] = context[r].origin =>
              u = context[r].place /\ Has(u, context[r].fn)
    BY DEF IInv, ContextInv
  <2> QED BY <1>1, <2>1 DEF IInv, HandlerTypes
<1>6. JobInv'
  <2>1. JobOK(t)'
    BY <1>1 DEF IInv, JobInv, JobOK, InCallOf
  <2>2. \A u \in Threads \ {t} : JobOK(u)'
    <3>1. \A u \in Threads \ {t} : id'[u] = id[u] BY <1>1 DEF IInv, HandlerTypes
    <3> QED BY <1>1, <3>1 DEF IInv, JobInv, JobOK, InCallOf, Has, Open
  <2>3. \A v, u \in Threads : job'[v].req = job'[u].req /\ job'[v].req # None => v = u
    BY <1>1 DEF IInv, JobInv
  <2> QED BY <2>1, <2>2, <2>3 DEF JobInv
<1>7. EmptyInv'
  BY <1>1 DEF IInv, EmptyInv, Has, Nothing, Empty, Swept, sweepVars
<1>8. DestroyInv'
  BY <1>1
  DEF IInv, DestroyInv, DestroyOK, Destroys, Nothing, Empty, Swept, sweepVars, lifeVars, Open
<1>9. CallsConserved'
  BY <1>1, SameBalance
<1> QED BY <1>2, <1>3, <1>4, <1>5, <1>6, <1>7, <1>8, <1>9 DEF IInv

\* A request arrives: nobody else has it in a call.
LEMMA GetContextStep ==
  ASSUME IInv, NEW t \in Threads, NEW r \in Requests, GetContext(t, r)
  PROVE  IInv'
<1>0. USE ActorFacts
<1> DEFINE j == [req |-> r, fn |-> FnOf[r], target |-> None]
<1>1. /\ pc[t] = "idle" /\ id[t] # 0 /\ owned /\ context[r] = NoContext
      /\ \A u \in Threads : job[u].req # r
      /\ job' = [job EXCEPT ![t] = j]
      /\ Goto(t, "getStats")
      /\ UNCHANGED <<lifeVars, hostVars, sweepVars, sumVars, stats, context>>
  BY DEF GetContext, Running
<1>2. Moved(t, "getStats") /\ pc' \in [Actors -> Labels]
  BY <1>1, GotoMoves DEF IInv, Labels
<1>3. j \in JobType /\ j.req = r /\ j.fn \in Functions
  BY HandlerAssumption DEF JobType
<1>4. job'[t] = j /\ \A u \in Threads \ {t} : job'[u] = job[u]
  BY <1>1 DEF IInv, HandlerTypes
<1>5. HandlerTypes'
  BY <1>1, <1>2, <1>3 DEF IInv, HandlerTypes, lifeVars, hostVars, sweepVars, sumVars
<1>6. IdInv'
  BY <1>1, <1>2 DEF IInv, IdInv, Moved, hostVars
<1>7. MapInv'
  BY <1>1, <1>2 DEF IInv, MapInv, Has, InCallOf, Moved, hostVars
<1>8. ContextInv'
  BY <1>1 DEF IInv, ContextInv, Open, Has, hostVars
<1>9. JobInv'
  <2>1. JobOK(t)'
    <3>1. ~Open(r) /\ context[r] # DoneContext BY <1>1, ContextKinds DEF IInv
    <3> QED BY <1>1, <1>2, <1>3, <1>4, <3>1 DEF JobOK, InCallOf, Moved, Open
  <2>2. \A u \in Threads \ {t} : JobOK(u)'
    BY <1>1, <1>2, <1>4 DEF IInv, JobInv, JobOK, InCallOf, Moved, Open, Has, hostVars
  <2>3. \A v, u \in Threads : job'[v].req = job'[u].req /\ job'[v].req # None => v = u
    BY <1>1, <1>3, <1>4 DEF IInv, JobInv
  <2> QED BY <2>1, <2>2, <2>3 DEF JobInv
<1>10. EmptyInv'
  BY <1>1, <1>2 DEF IInv, EmptyInv, Has, Nothing, Empty, Swept, sweepVars, hostVars, Moved
<1>11. DestroyInv'
  <2>1. handler' = "alive" BY <1>1 DEF IInv, DestroyInv, lifeVars
  <2>2. \A a \in Actors : Destroys(a)' => Destroys(a) BY <1>2 DEF Destroys, Moved
  <2>3. \A a \in Actors : ~Destroys(a) BY <2>1, <1>1 DEF IInv, DestroyInv, DestroyOK, lifeVars
  <2> QED BY <2>1, <2>2, <2>3 DEF DestroyInv, DestroyOK
<1>12. CallsConserved'
  BY <1>1, SameBalance
<1> QED BY <1>5, <1>6, <1>7, <1>8, <1>9, <1>10, <1>11, <1>12 DEF IInv

\* freeContext() on the creating thread goes to stats that this thread has.
LEMMA FreeContextStep ==
  ASSUME IInv, NEW t \in Threads, NEW r \in Requests, NEW o \in Outcomes, FreeContext(t, r, o)
  PROVE  IInv'
<1>0. USE ActorFacts
<1> DEFINE c == context[r]
           own == c.origin = id[t]
           j == [req |-> r, fn |-> c.fn, target |-> IF own THEN StatsOf(c) ELSE None]
           l == IF own THEN "use" ELSE "getStats"
           d == Hooked(c, o)
<1>1. /\ pc[t] = "idle" /\ id[t] # 0 /\ Open(r) /\ ~InCall(r)
      /\ job' = [job EXCEPT ![t] = j]
      /\ Goto(t, l)
      /\ context' = [context EXCEPT ![r] = d]
      /\ UNCHANGED <<lifeVars, hostVars, sweepVars, sumVars, stats>>
  BY DEF FreeContext, Running
<1>2. c \in OpenContext BY <1>1, ContextKinds DEF IInv
<1>3. /\ d \in OpenContext /\ d.open /\ d.fn = c.fn /\ d.place = c.place /\ d.origin = c.origin
  <2> DEFINE b1 == o.stage >= 1
             b2 == o.stage >= 2
             b3 == o.stage >= 3
             b4 == o.stage >= 4
             b5 == o.thrown # "no"
             b6 == o.thrown = "undeclared"
  <2>1. o.stage \in Nat BY HandlerAssumption
  <2>2. /\ b1 \in BOOLEAN /\ b2 \in BOOLEAN /\ b3 \in BOOLEAN /\ b4 \in BOOLEAN
        /\ b5 \in BOOLEAN /\ b6 \in BOOLEAN
    BY <2>1
  <2>3. PICK x1, x2, x3, x4, x5, x6 \in BOOLEAN :
           /\ x1 = b1 /\ x2 = b2 /\ x3 = b3 /\ x4 = b4 /\ x5 = b5 /\ x6 = b6
    BY <2>2
  <2>4. d = [c EXCEPT !.readBegin = x1, !.readEnd = x2, !.userException = x5, !.exception = x6,
                      !.writeBegin = x3, !.writeEnd = x4]
    BY <2>3 DEF Hooked
  <2> HIDE DEF b1, b2, b3, b4, b5, b6, c, d
  <2>5. c = [open |-> c.open, fn |-> c.fn, place |-> c.place, origin |-> c.origin,
             measureTime |-> c.measureTime, readBegin |-> c.readBegin, readEnd |-> c.readEnd,
             writeBegin |-> c.writeBegin, writeEnd |-> c.writeEnd, exception |-> c.exception,
             userException |-> c.userException]
    BY <1>2 DEF OpenContext
  <2>6. d = [open |-> c.open, fn |-> c.fn, place |-> c.place, origin |-> c.origin,
             measureTime |-> c.measureTime, readBegin |-> x1, readEnd |-> x2,
             writeBegin |-> x3, writeEnd |-> x4, exception |-> x6, userException |-> x5]
    BY <2>4, <2>5
  <2>7. /\ c.open = TRUE /\ c.fn \in Functions /\ c.place \in Threads /\ c.origin \in Nat
        /\ c.measureTime \in BOOLEAN
    BY <1>2 DEF OpenContext
  <2>8. d \in OpenContext BY <2>6, <2>7 DEF OpenContext
  <2>9. d.open = c.open /\ d.fn = c.fn /\ d.place = c.place /\ d.origin = c.origin
    BY <2>6
  <2> QED BY <2>7, <2>8, <2>9
<1>4. own => c.place = t /\ Has(t, c.fn)
  BY <1>1 DEF IInv, ContextInv
<1>5. /\ j \in JobType /\ j.req = r /\ j.fn = c.fn /\ c.fn \in Functions
      /\ own => j.target = [place |-> t, id |-> id[t], fn |-> c.fn]
  BY <1>2, <1>4 DEF JobType, Target, StatsOf, OpenContext, IInv, HandlerTypes
<1>6. l \in Labels /\ (l = "use" <=> own) /\ l \in {"use", "getStats"} BY DEF Labels
<1> HIDE DEF j, l, d
<1>7. Moved(t, l) /\ pc' \in [Actors -> Labels]
  BY <1>1, <1>6, GotoMoves DEF IInv
<1>8. job'[t] = j /\ \A u \in Threads \ {t} : job'[u] = job[u]
  BY <1>1 DEF IInv, HandlerTypes
<1>9. context'[r] = d /\ \A q \in Requests \ {r} : context'[q] = context[q]
  BY <1>1 DEF IInv, HandlerTypes
<1>10. HandlerTypes'
  BY <1>1, <1>3, <1>5, <1>7 DEF IInv, HandlerTypes, lifeVars, hostVars, sweepVars, sumVars
<1>11. IdInv'
  BY <1>1, <1>7 DEF IInv, IdInv, Moved, hostVars
<1>12. MapInv'
  BY <1>1, <1>7 DEF IInv, MapInv, Has, InCallOf, Moved, hostVars
<1>13. \A q \in Requests : /\ Open(q)' <=> Open(q)
                           /\ Open(q) => /\ context'[q].origin = context[q].origin
                                         /\ context'[q].place = context[q].place
                                         /\ context'[q].fn = context[q].fn
                           /\ q # r => context'[q] = context[q]
  BY <1>1, <1>3, <1>9 DEF Open
<1>14. ContextInv'
  BY <1>1, <1>13 DEF IInv, ContextInv, Has, hostVars
<1>15. JobInv'
  <2>1. JobOK(t)'
    <3>0. PICK f \in Functions : f = c.fn BY <1>5
    <3>1. own => Has(t, f)' BY <1>1, <1>4, <3>0 DEF Has, hostVars
    <3>2. context'[r] # DoneContext BY <1>3, <1>9 DEF DoneContext
    <3>3. id' = id BY <1>1 DEF hostVars
    <3> QED BY <1>3, <1>5, <1>6, <1>7, <1>8, <1>9, <3>0, <3>1, <3>2, <3>3
            DEF JobOK, InCallOf, Moved, Has
  <2>2. \A u \in Threads \ {t} : job[u].req # r
    BY <1>1 DEF InCall
  <2>3. \A u \in Threads \ {t} : JobOK(u)'
    BY <1>1, <1>7, <1>8, <1>9, <2>2
    DEF IInv, JobInv, JobOK, InCallOf, Moved, Open, Has, hostVars
  <2>4. \A v, u \in Threads : job'[v].req = job'[u].req /\ job'[v].req # None => v = u
    BY <1>5, <1>8, <2>2 DEF IInv, JobInv
  <2> QED BY <2>1, <2>3, <2>4 DEF JobInv
<1>16. EmptyInv'
  BY <1>1, <1>6, <1>7
  DEF IInv, EmptyInv, Has, Nothing, Empty, Swept, sweepVars, hostVars, Moved
<1>17. DestroyInv'
  <2>1. handler' = "alive" BY <1>1 DEF IInv, DestroyInv, lifeVars
  <2>2. \A a \in Actors : Destroys(a)' => Destroys(a) BY <1>6, <1>7 DEF Destroys, Moved
  <2>3. \A a \in Actors : ~Destroys(a) BY <2>1, <1>1 DEF IInv, DestroyInv, DestroyOK, lifeVars
  <2> QED BY <2>1, <2>2, <2>3 DEF DestroyInv, DestroyOK
<1>18. CallsConserved'
  BY <1>1, SameBalance
<1> QED BY <1>10, <1>11, <1>12, <1>14, <1>15, <1>16, <1>17, <1>18 DEF IInv

-----------------------------------------------------------------------------
(***************************************************************************)
(* getStats(fnName)                                                        *)
(***************************************************************************)
\* While somebody uses the handler, nobody is in its destructor.
LEMMA NobodyDestroys ==
  ASSUME IInv, handler = "alive"
  PROVE  \A a \in Actors : ~Destroys(a)
  BY DEF IInv, DestroyInv, DestroyOK

\* As long as the handler stays alive there is nothing to show about it.
LEMMA StaysAlive ==
  ASSUME IInv, handler = "alive", handler' = "alive",
         \A a \in Actors : Destroys(a)' => Destroys(a)
  PROVE  DestroyInv'
  BY NobodyDestroys DEF DestroyInv, DestroyOK

\* The aggregator of a thread is listed as soon as it is there.
LEMMA NewAggregatorStep ==
  ASSUME IInv, NEW t \in Threads, NewAggregator(t)
  PROVE  IInv'
<1>0. USE ActorFacts
<1>1. /\ pc[t] = "getStats" /\ map[t] = None
      /\ map' = [map EXCEPT ![t] = {}]
      /\ listed' = listed \cup {t}
      /\ UNCHANGED <<lifeVars, sweepVars, sumVars, lastId, id, cached, stats, context, pc, job>>
  BY DEF NewAggregator
<1>2. map'[t] = {} /\ \A u \in Threads \ {t} : map'[u] = map[u]
  BY <1>1 DEF IInv, HandlerTypes
<1>3. {} # None BY HandlerAssumption
<1>4. \A u \in Threads, f \in Functions : Has(u, f)' <=> Has(u, f)
  BY <1>1, <1>2 DEF Has
<1>5. HandlerTypes'
  BY <1>1 DEF IInv, HandlerTypes, lifeVars, sweepVars, sumVars
<1>6. IdInv' BY <1>1 DEF IInv, IdInv
<1>7. MapInv'
  <2>1. \A u \in Threads : cached[u] # None => cached[u] \in Functions
    BY DEF IInv, HandlerTypes
  <2>2. cached[t] = None BY <1>1 DEF IInv, MapInv, Has
  <2>3. \A u \in Threads : cached'[u] # None => Has(u, cached[u])'
    BY <1>1, <1>2, <2>1, <2>2 DEF IInv, MapInv, Has
  <2> QED BY <1>1, <1>2, <2>3 DEF IInv, MapInv, InCallOf
<1>8. ContextInv' /\ JobInv'
  <2>1. lastId' >= lastId /\ lastId' \in Nat BY <1>1 DEF IInv, HandlerTypes
  <2> QED BY <1>1, <1>4, <2>1, SameCalls DEF InCallOf
<1>9. EmptyInv'
  BY <1>1, <1>4 DEF IInv, EmptyInv, Nothing, Empty, Swept, sweepVars
<1>10. DestroyInv'
  BY <1>1, StaysAlive DEF IInv, DestroyInv, Destroys, lifeVars
<1>11. CallsConserved' BY <1>1, SameBalance
<1> QED BY <1>5, <1>6, <1>7, <1>8, <1>9, <1>10, <1>11 DEF IInv

\* getStats() returns: the call has stats of its own thread and function.
LEMMA GotJob ==
  ASSUME IInv, NEW t \in Threads, InCallOf(t), Got(t, job[t].fn), UNCHANGED <<id, context>>,
         \A u \in Threads, f \in Functions : Has(u, f) => Has(u, f)',
         Has(t, job[t].fn)'
  PROVE  /\ job' \in [Threads -> JobType] /\ pc' \in [Actors -> Labels]
         /\ cached' \in [Threads -> Functions \cup {None}]
         /\ Moved(t, "use") /\ cached'[t] = job[t].fn
         /\ \A u \in Threads \ {t} : cached'[u] = cached[u]
         /\ JobInv'
<1>0. USE ActorFacts
<1>1. PICK f \in Functions : f = job[t].fn BY DEF IInv, JobInv, JobOK
<1>2. PICK i \in Nat : i = id[t] BY DEF IInv, HandlerTypes
<1> DEFINE tgt == [place |-> t, id |-> i, fn |-> f]
<1>3. /\ cached' = [cached EXCEPT ![t] = f]
      /\ job' = [job EXCEPT ![t].target = tgt]
      /\ Goto(t, "use")
  BY <1>1, <1>2 DEF Got
<1>4. tgt \in Target BY DEF Target
<1> HIDE DEF tgt
<1>5. job[t] \in JobType BY DEF IInv, HandlerTypes
<1>6. /\ job'[t] = [job[t] EXCEPT !.target = tgt]
      /\ \A u \in Threads \ {t} : job'[u] = job[u]
  BY <1>3 DEF IInv, HandlerTypes
<1>7. /\ job'[t] \in JobType /\ job'[t].req = job[t].req /\ job'[t].fn = job[t].fn
      /\ job'[t].target = tgt
  BY <1>4, <1>5, <1>6 DEF JobType
<1>8. job' \in [Threads -> JobType] BY <1>3, <1>6, <1>7 DEF IInv, HandlerTypes
<1>9. Moved(t, "use") /\ pc' \in [Actors -> Labels]
  BY <1>3, GotoMoves DEF IInv, Labels
<1>10. JobInv'
  <2>1. JobOK(t)'
    <3>1. Has(t, f)' BY <1>1, <1>7 DEF Has
    <3>2. JobOK(t) BY DEF IInv, JobInv
    <3> QED BY <1>1, <1>2, <1>7, <1>9, <3>1, <3>2 DEF JobOK, InCallOf, Moved, Open, Has, tgt
  <2>2. \A u \in Threads \ {t} : JobOK(u)'
    <3> SUFFICES ASSUME NEW u \in Threads \ {t} PROVE JobOK(u)'
      OBVIOUS
    <3>1. JobOK(u) BY DEF IInv, JobInv
    <3>2. pc[u] = "use" => Has(u, job[u].fn)'
      <4>1. pc[u] = "use" => Has(u, job[u].fn) /\ job[u].fn \in Functions
        BY <3>1 DEF JobOK, InCallOf
      <4> QED BY <4>1, <1>6 DEF Has
    <3> QED BY <1>6, <1>9, <3>1, <3>2 DEF JobOK, InCallOf, Moved, Open, Has
  <2>3. \A v, u \in Threads : job'[v].req = job'[u].req /\ job'[v].req # None => v = u
    <3>1. \A v \in Threads : job'[v].req = job[v].req BY <1>6, <1>7
    <3> QED BY <3>1 DEF IInv, JobInv
  <2> QED BY <2>1, <2>2, <2>3 DEF JobInv
<1>11. /\ cached' \in [Threads -> Functions \cup {None}] /\ cached'[t] = job[t].fn
       /\ \A u \in Threads \ {t} : cached'[u] = cached[u]
  BY <1>1, <1>3 DEF IInv, HandlerTypes
<1> QED BY <1>8, <1>9, <1>10, <1>11

\* Found in the cache or in the map: either way it is in the map.
LEMMA FindStatsStep ==
  ASSUME IInv, NEW t \in Threads, FindStats(t)
  PROVE  IInv'
<1>0. USE ActorFacts
<1>1. /\ pc[t] = "getStats" /\ map[t] # None
      /\ Got(t, job[t].fn)
      /\ UNCHANGED <<lifeVars, sweepVars, sumVars, lastId, id, listed, map, stats, context>>
  BY DEF FindStats
<1>2. PICK g \in Functions : g = job[t].fn BY <1>1 DEF IInv, JobInv, JobOK, InCallOf
<1>3. Has(t, g)
  BY <1>1, <1>2 DEF FindStats, IInv, MapInv, Has
<1>4. \A u \in Threads, f \in Functions : Has(u, f)' <=> Has(u, f)
  BY <1>1 DEF Has
<1>5. InCallOf(t) BY <1>1 DEF InCallOf
<1>6. job'[t].fn = g
  BY <1>1, <1>2 DEF Got, IInv, HandlerTypes, JobType
<1>7. Has(t, job[t].fn)' BY <1>3, <1>4, <1>6 DEF Has
<1>8. /\ job' \in [Threads -> JobType] /\ pc' \in [Actors -> Labels]
      /\ cached' \in [Threads -> Functions \cup {None}]
      /\ Moved(t, "use") /\ cached'[t] = job[t].fn
      /\ \A u \in Threads \ {t} : cached'[u] = cached[u]
      /\ JobInv'
  BY <1>1, <1>4, <1>5, <1>7, GotJob
<1>9. HandlerTypes'
  BY <1>1, <1>8 DEF IInv, HandlerTypes, lifeVars, sweepVars, sumVars
<1>10. IdInv' BY <1>1, <1>8 DEF IInv, IdInv, Moved
<1>11. MapInv'
  BY <1>1, <1>2, <1>3, <1>8 DEF IInv, MapInv, Has, InCallOf, Moved
<1>12. ContextInv' BY <1>1 DEF IInv, ContextInv, Open, Has
<1>13. EmptyInv'
  BY <1>1, <1>8 DEF IInv, EmptyInv, Has, Nothing, Empty, Swept, sweepVars, Moved
<1>14. DestroyInv'
  BY <1>1, <1>8, StaysAlive DEF IInv, DestroyInv, Destroys, lifeVars, Moved
<1>15. CallsConserved' BY <1>1, SameBalance
<1> QED BY <1>8, <1>9, <1>10, <1>11, <1>12, <1>13, <1>14, <1>15 DEF IInv

\* New stats count nothing, as what was not there did.
LEMMA AddStatsStep ==
  ASSUME IInv, NEW t \in Threads, AddStats(t)
  PROVE  IInv'
<1>0. USE ActorFacts
<1>1. PICK g \in Functions : g = job[t].fn
  BY DEF AddStats, IInv, JobInv, JobOK, InCallOf
<1>2. /\ pc[t] = "getStats" /\ map[t] # None /\ g \notin map[t]
      /\ map' = [map EXCEPT ![t] = map[t] \cup {g}]
      /\ stats' = [stats EXCEPT ![t][g] = NewStats]
      /\ Got(t, job[t].fn)
      /\ UNCHANGED <<lifeVars, sweepVars, sumVars, lastId, id, listed, context>>
  BY <1>1 DEF AddStats
<1>3. map[t] \in SUBSET Functions /\ map[t] \cup {g} \in SUBSET Functions
  <2>1. map[t] \in (SUBSET Functions) \cup {None} BY DEF IInv, HandlerTypes
  <2>2. map[t] \in SUBSET Functions BY <1>2, <2>1
  <2> QED BY <2>2
<1>4. map[t] \cup {g} # None BY <1>3, HandlerAssumption
<1>5. /\ map'[t] = map[t] \cup {g} /\ \A u \in Threads \ {t} : map'[u] = map[u]
      /\ map' \in [Threads -> (SUBSET Functions) \cup {None}]
  BY <1>2, <1>3 DEF IInv, HandlerTypes
<1>6. \A u \in Threads, f \in Functions : Has(u, f)' <=> Has(u, f) \/ (u = t /\ f = g)
  BY <1>2, <1>4, <1>5 DEF Has
<1>7. InCallOf(t) BY <1>2 DEF InCallOf
<1>8. job'[t].fn = g
  BY <1>1, <1>2 DEF Got, IInv, HandlerTypes, JobType
<1>9. Has(t, job[t].fn)' BY <1>6, <1>8 DEF Has
<1>10. /\ job' \in [Threads -> JobType] /\ pc' \in [Actors -> Labels]
       /\ cached' \in [Threads -> Functions \cup {None}]
       /\ Moved(t, "use") /\ cached'[t] = job[t].fn
       /\ \A u \in Threads \ {t} : cached'[u] = cached[u]
       /\ JobInv'
  <2>1. \A u \in Threads, f \in Functions : Has(u, f) => Has(u, f)' BY <1>6
  <2> QED BY <1>2, <1>7, <1>9, <2>1, GotJob
<1>11. NewStats \in StatType /\ NewStats.sum = Zero
  BY HandlerAssumption DEF NewStats, StatType, Zero, Sums
<1>12. /\ stats' \in [Threads -> [Functions -> StatType]]
       /\ stats'[t][g] = NewStats
       /\ \A u \in Threads, f \in Functions : (u # t \/ f # g) => stats'[u][f] = stats[u][f]
  BY <1>2, <1>11 DEF IInv, HandlerTypes
<1>13. \A u \in Threads, f \in Functions : stats'[u][f].sum = stats[u][f].sum
  <2>1. stats[t][g].sum = Zero BY <1>2 DEF IInv, EmptyInv, Has, Nothing
  <2> QED BY <1>11, <1>12, <2>1
<1>14. HandlerTypes'
  BY <1>2, <1>5, <1>10, <1>12 DEF IInv, HandlerTypes, lifeVars, sweepVars, sumVars
<1>15. IdInv' BY <1>2, <1>10 DEF IInv, IdInv, Moved
<1>16. MapInv'
  <2>1. \A u \in Threads : cached'[u] # None => Has(u, cached[u])'
    <3> SUFFICES ASSUME NEW u \in Threads, cached'[u] # None PROVE Has(u, cached[u])'
      OBVIOUS
    <3>1. PICK f \in Functions : f = cached'[u] BY <1>10
    <3>2. Has(u, f)'
      BY <1>1, <1>6, <1>10, <3>1 DEF IInv, MapInv
    <3> QED BY <3>1, <3>2 DEF Has
  <2> QED BY <1>2, <1>5, <1>10, <2>1 DEF IInv, MapInv, InCallOf, Moved
<1>17. ContextInv'
  <2> SUFFICES ASSUME NEW r \in Requests, Open(r)'
               PROVE  /\ context'[r].origin \in 1..lastId'
                      /\ \A u \in Threads : id'[u] = context'[r].origin =>
                            u = context'[r].place /\ Has(u, context[r].fn)'
    BY DEF ContextInv
  <2>1. Open(r) /\ context[r] \in OpenContext BY <1>2, ContextKinds DEF Open, IInv
  <2>2. PICK f \in Functions : f = context[r].fn BY <2>1 DEF OpenContext
  <2>3. /\ context[r].origin \in 1..lastId
        /\ \A u \in Threads : id[u] = context[r].origin => u = context[r].place /\ Has(u, f)
    BY <2>1, <2>2 DEF IInv, ContextInv
  <2>4. \A u \in Threads : Has(u, f) => Has(u, f)' BY <1>6
  <2> QED BY <1>2, <2>2, <2>3, <2>4 DEF Has
<1>18. EmptyInv'
  <2>1. \A u \in Threads, f \in Functions : Nothing(u, f)' <=> Nothing(u, f)
    BY <1>13 DEF Nothing
  <2>2. \A u \in Threads : Empty(u)' <=> Empty(u) BY <2>1 DEF Empty
  <2>3. \A u \in Threads : Swept(u, u)' <=> Swept(u, u) BY <1>2, <2>1 DEF Swept, sweepVars
  <2>4. Nothing(t, g)' BY <1>11, <1>12 DEF Nothing
  <2> QED BY <1>6, <1>10, <2>1, <2>2, <2>3, <2>4 DEF IInv, EmptyInv, Moved
<1>19. DestroyInv'
  BY <1>2, <1>10, StaysAlive DEF IInv, DestroyInv, Destroys, lifeVars, Moved
<1>20. CallsConserved' BY <1>2, <1>13, SameBalance
<1> QED BY <1>10, <1>14, <1>15, <1>16, <1>17, <1>18, <1>19, <1>20 DEF IInv

\* getContext(): the context is of the thread it is made on.
LEMMA MakeContextStep ==
  ASSUME IInv, NEW t \in Threads, MakeContext(t)
  PROVE  IInv'
<1>0. USE ActorFacts
<1>1. PICK f \in Functions, r \in Requests, i \in Nat :
         f = job[t].fn /\ r = job[t].req /\ i = id[t]
  BY DEF MakeContext, IInv, JobInv, JobOK, InCallOf, HandlerTypes
<1> DEFINE s == stats[t][f]
           m == s.sampleTimer + s.sampleRate >= Scale
           c == NewContext(t, f, m)
<1>2. /\ pc[t] = "use" /\ context[r] = NoContext
      /\ stats' = [stats EXCEPT ![t][f] = Sample(s)]
      /\ context' = [context EXCEPT ![r] = c]
      /\ job' = [job EXCEPT ![t] = NoJob]
      /\ Goto(t, "idle")
      /\ UNCHANGED <<lifeVars, hostVars, sweepVars, sumVars>>
  BY <1>1 DEF MakeContext
<1>3. s \in StatType BY DEF IInv, HandlerTypes
<1>4. Sample(s) \in StatType /\ Sample(s).sum = s.sum
  <2> DEFINE timer == s.sampleTimer + s.sampleRate
             next == IF timer >= Scale THEN timer - Scale ELSE timer
  <2>1. s.sampleTimer \in 0..(Scale - 1) /\ s.sampleRate \in 0..Scale BY <1>3 DEF StatType
  <2>2. Scale \in Nat /\ Scale > 0 BY HandlerAssumption
  <2>3. next \in 0..(Scale - 1) BY <2>1, <2>2
  <2>4. Sample(s) = [s EXCEPT !.sampleTimer = next] BY DEF Sample
  <2> HIDE DEF next, s
  <2> QED BY <1>3, <2>3, <2>4 DEF StatType
<1>5. /\ c \in OpenContext /\ c.open /\ c.fn = f /\ c.place = t /\ c.origin = i
  <2>0. s.sampleTimer \in Int /\ s.sampleRate \in Int /\ Scale \in Int
    BY <1>3, HandlerAssumption DEF StatType
  <2>1. PICK b \in BOOLEAN : b = m
    <3>1. m \in BOOLEAN BY <2>0
    <3> QED BY <3>1
  <2>2. c = NewContext(t, f, b) BY <2>1
  <2> QED BY <1>1, <2>2 DEF NewContext, OpenContext
<1> HIDE DEF c, s, m
<1>6. Moved(t, "idle") /\ pc' \in [Actors -> Labels]
  BY <1>2, GotoMoves DEF IInv, Labels
<1>7. job'[t] = NoJob /\ \A u \in Threads \ {t} : job'[u] = job[u]
  BY <1>2 DEF IInv, HandlerTypes
<1>8. context'[r] = c /\ \A q \in Requests \ {r} : context'[q] = context[q]
  BY <1>2 DEF IInv, HandlerTypes
<1>9. /\ stats' \in [Threads -> [Functions -> StatType]]
      /\ \A u \in Threads, g \in Functions : stats'[u][g].sum = stats[u][g].sum
  BY <1>2, <1>4 DEF IInv, HandlerTypes, s
<1>10. HandlerTypes'
  <2>1. NoJob \in JobType BY DEF NoJob, JobType
  <2> QED BY <1>2, <1>5, <1>6, <1>9, <2>1
          DEF IInv, HandlerTypes, lifeVars, hostVars, sweepVars, sumVars
<1>11. \A u \in Threads, g \in Functions : Has(u, g)' <=> Has(u, g)
  BY <1>2 DEF Has, hostVars
<1>12. IdInv' BY <1>2, <1>6 DEF IInv, IdInv, Moved, hostVars
<1>13. MapInv' BY <1>2, <1>6 DEF IInv, MapInv, Has, InCallOf, Moved, hostVars
<1>14. Has(t, f) /\ i # 0 /\ i \in 1..lastId
  <2>1. Has(t, f) BY <1>1, <1>2 DEF IInv, JobInv, JobOK
  <2>2. i # 0 /\ i <= lastId BY <1>1, <1>2 DEF IInv, IdInv
  <2>3. lastId \in Nat BY DEF IInv, HandlerTypes
  <2> QED BY <2>1, <2>2, <2>3
<1>15. ContextInv'
  <2> SUFFICES ASSUME NEW q \in Requests, Open(q)'
               PROVE  /\ context'[q].origin \in 1..lastId'
                      /\ \A u \in Threads : id'[u] = context'[q].origin =>
                            u = context'[q].place /\ Has(u, context[q].fn)'
    BY DEF ContextInv
  <2>1. CASE q = r
    <3>1. \A u \in Threads : id[u] = i => u = t
      BY <1>1, <1>14 DEF IInv, IdInv
    <3>2. Has(t, f)' BY <1>11, <1>14
    <3> QED BY <1>2, <1>5, <1>8, <1>14, <2>1, <3>1, <3>2 DEF hostVars, Has
  <2>2. CASE q # r
    BY <1>2, <1>8, <2>2 DEF IInv, ContextInv, Open, Has, hostVars
  <2> QED BY <2>1, <2>2
<1>16. JobInv'
  <2>1. JobOK(t)' BY <1>6, <1>7 DEF JobOK, InCallOf, Moved
  <2>2. \A u \in Threads \ {t} : job[u].req # r BY <1>1 DEF IInv, JobInv
  <2>3. \A u \in Threads \ {t} : JobOK(u)'
    BY <1>2, <1>6, <1>7, <1>8, <2>2
    DEF IInv, JobInv, JobOK, InCallOf, Moved, Open, Has, hostVars
  <2>4. \A v, u \in Threads : job'[v].req = job'[u].req /\ job'[v].req # None => v = u
    BY <1>7 DEF IInv, JobInv, NoJob
  <2> QED BY <2>1, <2>3, <2>4 DEF JobInv
<1>17. EmptyInv'
  <2>1. \A u \in Threads, g \in Functions : Nothing(u, g)' <=> Nothing(u, g)
    BY <1>9 DEF Nothing
  <2>2. \A u \in Threads : Empty(u)' <=> Empty(u) BY <2>1 DEF Empty
  <2>3. \A u \in Threads : Swept(u, u)' <=> Swept(u, u) BY <1>2, <2>1 DEF Swept, sweepVars
  <2> QED BY <1>6, <1>11, <2>1, <2>2, <2>3 DEF IInv, EmptyInv, Moved
<1>18. DestroyInv'
  BY <1>2, <1>6, StaysAlive DEF IInv, DestroyInv, Destroys, lifeVars, Moved
<1>19. CallsConserved' BY <1>2, <1>9, SameBalance
<1> QED BY <1>10, <1>12, <1>13, <1>15, <1>16, <1>17, <1>18, <1>19 DEF IInv

-----------------------------------------------------------------------------
(***************************************************************************)
(* References to the handler.                                              *)
(***************************************************************************)
\* An actor that lets go goes on, or into the destructor if it was the last.
LEMMA LetGoMoves ==
  ASSUME HandlerTypes, NEW a \in Actors, NEW l \in Labels, LetGo(a, l)
  PROVE  /\ pc' \in [Actors -> Labels]
         /\ \/ Referenced(a) /\ Moved(a, l) /\ handler' = handler
            \/ ~Referenced(a) /\ Moved(a, "shutdown") /\ handler' = "dying"
<1>1. CASE Referenced(a)
  <2>1. Goto(a, l) /\ handler' = handler BY <1>1 DEF LetGo
  <2> QED BY <1>1, <2>1, GotoMoves
<1>2. CASE ~Referenced(a)
  <2>1. Goto(a, "shutdown") /\ handler' = "dying" BY <1>2 DEF LetGo
  <2>2. "shutdown" \in Labels BY DEF Labels
  <2> QED BY <1>2, <2>1, <2>2, GotoMoves
<1> QED BY <1>1, <1>2

\* Two sums of numbers are numbers.
LEMMA PlusType ==
  ASSUME NEW x \in Sums, NEW y \in Sums
  PROVE  Plus(x, y) \in Sums /\ \A k \in Kinds : Plus(x, y)[k] = x[k] + y[k]
  BY DEF Plus, Sums

\* A call adds one or nothing to each statistic.
LEMMA ContributionType ==
  ASSUME NEW c
  PROVE  Contribution(c) \in Sums
<1> DEFINE parts == [calls |-> TRUE, samples |-> c.measureTime,
                  exceptions |-> c.exception, userExceptions |-> c.userException,
                  readData |-> c.readEnd, readTime |-> c.readEnd /\ c.measureTime,
                  writeData |-> c.writeEnd, writeTime |-> c.writeEnd /\ c.measureTime,
                  processed |-> c.writeBegin,
                  processTime |-> c.writeBegin /\ c.measureTime]
<1>1. Contribution(c) = [k \in Kinds |-> IF parts[k] THEN 1 ELSE 0] BY DEF Contribution
<1> HIDE DEF parts
<1> QED BY <1>1 DEF Sums

Balanced(l, e, h, x) == \A f \in Functions : l[f] = Plus(e[f], Plus(h[f], x[f]))
InNumbers(l, e, h, x) ==
    \A f \in Functions, k \in Kinds : l[f][k] = e[f][k] + (h[f][k] + x[f][k])

\* The balance in numbers.
LEMMA SumsBalance ==
  ASSUME NEW l \in [Functions -> Sums], NEW e \in [Functions -> Sums],
         NEW h \in [Functions -> Sums], NEW x \in [Functions -> Sums]
  PROVE  Balanced(l, e, h, x) <=> InNumbers(l, e, h, x)
<1>1. \A f \in Functions : Plus(e[f], Plus(h[f], x[f])) \in Sums
  BY PlusType
<1>2. \A f \in Functions, k \in Kinds :
         Plus(e[f], Plus(h[f], x[f]))[k] = e[f][k] + (h[f][k] + x[f][k])
  <2> TAKE f \in Functions, k \in Kinds
  <2>1. Plus(h[f], x[f]) \in Sums /\ Plus(h[f], x[f])[k] = h[f][k] + x[f][k]
    BY PlusType
  <2> QED BY <2>1, PlusType
<1>3. \A f \in Functions :
         l[f] = Plus(e[f], Plus(h[f], x[f])) <=>
            \A k \in Kinds : l[f][k] = Plus(e[f], Plus(h[f], x[f]))[k]
  BY <1>1 DEF Sums
<1> QED BY <1>2, <1>3 DEF Balanced, InNumbers

\* The balance of calls in numbers, in this state ...
LEMMA BalanceIs ==
  ASSUME HandlerTypes
  PROVE  CallsConserved <=> \A f \in Functions, k \in Kinds :
             logged[f][k] = exported[f][k] + (Held(f)[k] + lost[f][k])
<1> DEFINE h == [f \in Functions |-> Held(f)]
<1>1. \A f \in Functions : Held(f) \in Sums
  <2> TAKE f \in Functions
  <2>1. \A k \in Kinds : Held(f)[k] \in Nat BY HeldType
  <2>2. Held(f) = [k \in Kinds |-> Held(f)[k]] BY DEF Held
  <2> QED BY <2>1, <2>2 DEF Sums
<1>2. h \in [Functions -> Sums] /\ \A f \in Functions : h[f] = Held(f) BY <1>1
<1> HIDE DEF h
<1>0. /\ logged \in [Functions -> Sums] /\ exported \in [Functions -> Sums]
      /\ lost \in [Functions -> Sums]
  BY DEF HandlerTypes
<1>3. Balanced(logged, exported, h, lost) <=> InNumbers(logged, exported, h, lost)
  BY <1>0, <1>2, SumsBalance
<1> QED BY <1>2, <1>3 DEF CallsConserved, Balanced, InNumbers

\* ... and in the next.
LEMMA BalanceNext ==
  ASSUME HandlerTypes'
  PROVE  CallsConserved' <=> \A f \in Functions, k \in Kinds :
             logged'[f][k] = exported'[f][k] + (Held(f)'[k] + lost'[f][k])
<1> DEFINE h == [f \in Functions |-> Held(f)']
<1>1. \A f \in Functions : Held(f)' \in Sums
  <2> TAKE f \in Functions
  <2>1. \A k \in Kinds : Held(f)'[k] \in Nat
    <3> TAKE k \in Kinds
    <3> DEFINE g == [t \in Threads |-> stats'[t][f].sum[k]]
    <3>1. g \in [Threads -> Nat] BY DEF HandlerTypes, StatType, Sums
    <3>2. Held(f)'[k] = Total(g) BY DEF Held, Total
    <3> HIDE DEF g
    <3> QED BY <3>1, <3>2, TotalType
  <2>2. Held(f)' = [k \in Kinds |-> Held(f)'[k]] BY DEF Held
  <2> QED BY <2>1, <2>2 DEF Sums
<1>2. h \in [Functions -> Sums] /\ \A f \in Functions : h[f] = Held(f)' BY <1>1
<1> HIDE DEF h
<1>0. /\ logged' \in [Functions -> Sums] /\ exported' \in [Functions -> Sums]
      /\ lost' \in [Functions -> Sums]
  BY DEF HandlerTypes
<1>3. Balanced(logged', exported', h, lost') <=> InNumbers(logged', exported', h, lost')
  BY <1>0, <1>2, SumsBalance
<1>4. CallsConserved' <=> \A f \in Functions :
         logged'[f] = Plus(exported'[f], Plus(Held(f)', lost'[f]))
  BY DEF CallsConserved, Plus
<1> QED BY <1>2, <1>3, <1>4 DEF Balanced, InNumbers

\* A call that is logged is in the stats of its thread.
LEMMA LogBalance ==
  ASSUME IInv, HandlerTypes', NEW t \in Threads, NEW f \in Functions, NEW add \in Sums,
         logged' = [logged EXCEPT ![f] = Plus(@, add)], UNCHANGED <<exported, lost>>,
         stats' = [stats EXCEPT ![t][f].sum = Plus(@, add)]
  PROVE  CallsConserved'
<1>1. \A u \in Threads, g \in Functions : (u # t \/ g # f) => stats'[u][g] = stats[u][g]
  BY DEF IInv, HandlerTypes
<1>2. stats[t][f] \in StatType BY DEF IInv, HandlerTypes
<1>3. stats'[t][f].sum = Plus(stats[t][f].sum, add)
  BY <1>2 DEF IInv, HandlerTypes, StatType
<1>4. stats[t][f].sum \in Sums /\ logged[f] \in Sums
  BY <1>2 DEF StatType, IInv, HandlerTypes
<1> SUFFICES ASSUME NEW g \in Functions, NEW k \in Kinds
             PROVE  logged'[g][k] = exported'[g][k] + (Held(g)'[k] + lost'[g][k])
  BY BalanceNext
<1>5. logged[g][k] = exported[g][k] + (Held(g)[k] + lost[g][k])
  BY BalanceIs DEF IInv
<1>6. exported[g][k] \in Nat /\ lost[g][k] \in Nat /\ add[k] \in Nat /\ stats[t][f].sum[k] \in Nat
  BY <1>4 DEF IInv, HandlerTypes, Sums
<1>7. /\ Held(g)[k] \in Nat /\ Held(g)'[k] \in Nat
      /\ Held(g)'[k] + stats[t][g].sum[k] = Held(g)[k] + stats'[t][g].sum[k]
  BY <1>1, HeldMoves DEF IInv
<1>8. CASE g = f
  <2>1. logged'[f][k] = logged[f][k] + add[k]
    BY <1>4, PlusType DEF IInv, HandlerTypes
  <2>2. stats'[t][f].sum[k] = stats[t][f].sum[k] + add[k] BY <1>3, <1>4, PlusType
  <2> QED BY <1>5, <1>6, <1>7, <1>8, <2>1, <2>2
<1>9. CASE g # f
  <2>1. logged'[g] = logged[g] BY <1>9 DEF IInv, HandlerTypes
  <2>2. stats'[t][g] = stats[t][g] BY <1>1, <1>9
  <2>3. stats[t][g].sum[k] \in Nat BY DEF IInv, HandlerTypes, StatType, Sums
  <2>4. stats'[t][g].sum[k] = stats[t][g].sum[k] BY <2>2
  <2>5. Held(g)'[k] = Held(g)[k] BY <1>7, <2>3, <2>4
  <2> QED BY <1>5, <2>1, <2>5
<1> QED BY <1>8, <1>9

\* The last reference is gone with actor a: it is the one in the destructor.
LEMMA LastReference ==
  ASSUME IInv, handler = "alive", NEW a \in Actors, ~Referenced(a), Moved(a, "shutdown"),
         handler' = "dying", ~owned', NEW R \in SUBSET Requests,
         \A r \in Requests : Open(r)' => Open(r) /\ r \notin R,
         \A r \in Requests : Open(r) /\ a \in Threads /\ job[a].req = r => r \in R,
         a \in Threads /\ a \notin listed' => Empty(a)'
  PROVE  DestroyInv'
<1>0. USE ActorFacts
<1>1. \A b \in Actors : Destroys(b)' <=> b = a
  BY NobodyDestroys DEF Moved, Destroys
<1>2. DestroyOK(a)' BY DEF DestroyOK, Moved
<1>3. \A r \in Requests : ~Open(r)' BY DEF Referenced
<1>4. \A t \in Threads : pc'[t] \notin {"getStats", "use", "exitLock", "exitSweep"}
  BY DEF Referenced, Moved
<1> QED BY <1>1, <1>2, <1>3, <1>4 DEF DestroyInv, DestroyOK

\* freeContext() logs the call in stats of its thread, and lets go.
LEMMA LogContextDataStep ==
  ASSUME IInv, NEW t \in Threads, LogContextData(t)
  PROVE  IInv'
<1>0. USE ActorFacts
<1>1. PICK f \in Functions, r \in Requests : f = job[t].fn /\ r = job[t].req
  BY DEF LogContextData, IInv, JobInv, JobOK, InCallOf
<1>2. PICK add \in Sums : add = Contribution(context[r]) BY ContributionType
<1>3. pc[t] = "use" /\ context[r] # NoContext BY <1>1 DEF LogContextData
<1>4. /\ job[t].target = [place |-> t, id |-> id[t], fn |-> f] /\ Has(t, f)
      /\ context[r] # DoneContext /\ (Open(r) => context[r].fn = f)
  BY <1>1, <1>3 DEF IInv, JobInv, JobOK, InCallOf
<1>5. Open(r) /\ context[r].fn = f BY <1>3, <1>4, ContextKinds DEF IInv
<1>6. job[t].target.place = t /\ job[t].target.fn = f BY <1>4
<1>7. /\ stats' = [stats EXCEPT ![t][f].sum = Plus(@, add)]
      /\ logged' = [logged EXCEPT ![f] = Plus(@, add)]
      /\ context' = [context EXCEPT ![r] = DoneContext]
      /\ job' = [job EXCEPT ![t] = NoJob]
      /\ LetGo(t, "idle")
      /\ UNCHANGED <<hostVars, sweepVars, owned, running, exported, lost>>
  BY <1>1, <1>2, <1>5, <1>6 DEF LogContextData, DoneContext
<1>8. PICK l \in {"idle", "shutdown"} :
         /\ pc' \in [Actors -> Labels] /\ Moved(t, l) /\ handler' \in {handler, "dying"}
         /\ \/ l = "idle" /\ handler' = handler
            \/ l = "shutdown" /\ handler' = "dying" /\ ~Referenced(t)
  <2>1. "idle" \in Labels BY DEF Labels
  <2> QED BY <1>7, <2>1, LetGoMoves DEF IInv
<1>9. job'[t] = NoJob /\ \A u \in Threads \ {t} : job'[u] = job[u]
  BY <1>7 DEF IInv, HandlerTypes
<1>10. context'[r] = DoneContext /\ \A q \in Requests \ {r} : context'[q] = context[q]
  BY <1>7 DEF IInv, HandlerTypes
<1>11. /\ stats' \in [Threads -> [Functions -> StatType]]
       /\ \A u \in Threads, g \in Functions : (u # t \/ g # f) => stats'[u][g] = stats[u][g]
  <2>1. stats[t][f] \in StatType BY DEF IInv, HandlerTypes
  <2>2. PICK p \in Sums : p = Plus(stats[t][f].sum, add)
    BY <2>1, PlusType DEF StatType
  <2>3. stats' = [stats EXCEPT ![t][f] = [stats[t][f] EXCEPT !.sum = p]]
    BY <1>7, <2>2 DEF IInv, HandlerTypes
  <2>4. [stats[t][f] EXCEPT !.sum = p] \in StatType BY <2>1 DEF StatType
  <2> QED BY <2>3, <2>4 DEF IInv, HandlerTypes
<1>12. HandlerTypes'
  <2>1. NoJob \in JobType BY DEF NoJob, JobType
  <2>2. logged' \in [Functions -> Sums] BY <1>7, PlusType DEF IInv, HandlerTypes
  <2>3. job' \in [Threads -> JobType] BY <1>7, <2>1 DEF IInv, HandlerTypes
  <2>4. context' \in [Requests -> OpenContext \cup {NoContext, DoneContext}]
    BY <1>7 DEF IInv, HandlerTypes
  <2>5. handler' \in {"alive", "dying", "gone"} BY <1>8 DEF IInv, HandlerTypes
  <2> QED BY <1>7, <1>8, <1>11, <2>2, <2>3, <2>4, <2>5
          DEF IInv, HandlerTypes, hostVars, sweepVars
<1>13. \A u \in Threads, g \in Functions : Has(u, g)' <=> Has(u, g)
  BY <1>7 DEF Has, hostVars
<1>14. id[t] # 0 /\ map[t] # None /\ t \in listed
  BY <1>3, <1>4 DEF IInv, IdInv, MapInv, InCallOf, Has
<1>15. IdInv' BY <1>7, <1>8, <1>14 DEF IInv, IdInv, Moved, hostVars
<1>16. MapInv'
  BY <1>7, <1>8, <1>14 DEF IInv, MapInv, Has, InCallOf, Moved, hostVars
<1>17. \A q \in Requests : Open(q)' <=> Open(q) /\ q # r
  BY <1>10 DEF Open, DoneContext
<1>18. ContextInv' BY <1>7, <1>10, <1>17 DEF IInv, ContextInv, Has, hostVars
<1>19. JobInv'
  <2>1. JobOK(t)' BY <1>8, <1>9 DEF JobOK, InCallOf, Moved
  <2>2. \A u \in Threads \ {t} : job[u].req # r BY <1>1 DEF IInv, JobInv
  <2>3. \A u \in Threads \ {t} : JobOK(u)'
    BY <1>7, <1>8, <1>9, <1>10, <2>2
    DEF IInv, JobInv, JobOK, InCallOf, Moved, Open, Has, hostVars
  <2>4. \A v, u \in Threads : job'[v].req = job'[u].req /\ job'[v].req # None => v = u
    BY <1>9 DEF IInv, JobInv, NoJob
  <2> QED BY <2>1, <2>3, <2>4 DEF JobInv
<1>20. EmptyInv'
  <2>1. \A u \in Threads, g \in Functions : (u # t \/ g # f) => (Nothing(u, g)' <=> Nothing(u, g))
    BY <1>11 DEF Nothing
  <2>2. \A u \in Threads \ {t} : Empty(u)' <=> Empty(u) BY <2>1 DEF Empty
  <2>3. \A u \in Threads \ {t} : Swept(u, u)' <=> Swept(u, u)
    BY <1>7, <2>1 DEF Swept, sweepVars
  <2>4. Has(t, f)' BY <1>4, <1>13
  <2> QED BY <1>8, <1>13, <2>1, <2>2, <2>3, <2>4 DEF IInv, EmptyInv, Moved
<1>21. handler = "alive" BY <1>3 DEF IInv, DestroyInv
<1>22. DestroyInv'
  <2>1. CASE l = "idle"
    <3>1. handler' = "alive" BY <1>8, <1>21, <2>1
    <3>2. \A a \in Actors : Destroys(a)' => Destroys(a) BY <1>8, <2>1 DEF Destroys, Moved
    <3> QED BY <1>21, <3>1, <3>2, StaysAlive
  <2>2. CASE l = "shutdown"
    <3>1. ~Referenced(t) /\ handler' = "dying" BY <1>8, <2>2
    <3>2. ~owned' BY <1>7, <3>1 DEF Referenced
    <3>3. t \in listed' BY <1>7, <1>14 DEF hostVars
    <3>4. \A q \in Requests : Open(q)' => Open(q) /\ q \notin {r} BY <1>17
    <3>5. \A q \in Requests : Open(q) /\ t \in Threads /\ job[t].req = q => q \in {r} BY <1>1
    <3>6. {r} \in SUBSET Requests /\ t \in Actors OBVIOUS
    <3> QED BY <1>8, <1>21, <2>2, <3>1, <3>2, <3>3, <3>4, <3>5, <3>6, LastReference
  <2> QED BY <2>1, <2>2
<1>23. CallsConserved' BY <1>7, <1>12, LogBalance
<1> QED BY <1>12, <1>15, <1>16, <1>18, <1>19, <1>20, <1>22, <1>23 DEF IInv

-----------------------------------------------------------------------------
(***************************************************************************)
(* Consolidation.                                                          *)
(***************************************************************************)
\* A product of positive numbers is positive.
LEMMA ProductPositive ==
  ASSUME NEW m \in Nat \ {0}, NEW n \in Nat \ {0}
  PROVE  m * n \in Nat \ {0}
  OBVIOUS

\* The quotient of a number is a number.
LEMMA QuotientType ==
  ASSUME NEW m \in Nat, NEW n \in Nat \ {0}
  PROVE  m \div n \in Nat
  OBVIOUS

\* No more than every call is sampled.
LEMMA SampleRateType ==
  ASSUME HandlerTypes, NEW calls \in Nat
  PROVE  SampleRate(calls) \in 0..Scale
<1>1. Scale \in Nat /\ DesiredSamples \in Nat /\ nThreads \in Nat \ {0}
  BY HandlerAssumption DEF HandlerTypes
<1>2. CASE calls = 0 BY <1>1, <1>2 DEF SampleRate
<1>3. CASE calls # 0
  <2>1. nThreads * calls \in Nat \ {0} BY <1>1, <1>3, ProductPositive
  <2>2. DesiredSamples * Scale \in Nat BY <1>1
  <2>3. PICK q \in Nat : q = (DesiredSamples * Scale) \div (nThreads * calls)
    BY <2>1, <2>2, QuotientType
  <2>4. SampleRate(calls) = Min({q, Scale}) BY <1>3, <2>3 DEF SampleRate
  <2>5. \E x \in {q, Scale} : \A y \in {q, Scale} : x <= y BY <1>1
  <2>6. Min({q, Scale}) \in {q, Scale} /\ \A y \in {q, Scale} : Min({q, Scale}) <= y
    BY <2>5 DEF Min
  <2> QED BY <1>1, <2>4, <2>6
<1> QED BY <1>2, <1>3

\* What is exported of a thread's stats is no longer in them.
LEMMA ExportBalance ==
  ASSUME IInv, HandlerTypes', NEW t \in Threads, NEW f \in Functions,
         exported' = [exported EXCEPT ![f] = Plus(@, stats[t][f].sum)], UNCHANGED <<logged, lost>>,
         \A u \in Threads, g \in Functions : (u # t \/ g # f) => stats'[u][g] = stats[u][g],
         stats'[t][f].sum = Zero
  PROVE  CallsConserved'
<1>1. stats[t][f].sum \in Sums /\ exported[f] \in Sums
  BY DEF StatType, IInv, HandlerTypes
<1> SUFFICES ASSUME NEW g \in Functions, NEW k \in Kinds
             PROVE  logged'[g][k] = exported'[g][k] + (Held(g)'[k] + lost'[g][k])
  BY BalanceNext
<1>2. logged[g][k] = exported[g][k] + (Held(g)[k] + lost[g][k])
  BY BalanceIs DEF IInv
<1>3. /\ exported[g][k] \in Nat /\ lost[g][k] \in Nat /\ stats[t][g].sum[k] \in Nat
      /\ stats[t][f].sum[k] \in Nat
  BY <1>1 DEF IInv, HandlerTypes, StatType, Sums
<1>4. /\ Held(g)[k] \in Nat /\ Held(g)'[k] \in Nat
      /\ Held(g)'[k] + stats[t][g].sum[k] = Held(g)[k] + stats'[t][g].sum[k]
  BY HeldMoves DEF IInv
<1>5. CASE g = f
  <2>1. exported'[f][k] = exported[f][k] + stats[t][f].sum[k]
    BY <1>1, PlusType DEF IInv, HandlerTypes
  <2>2. stats'[t][f].sum[k] = 0 BY DEF Zero
  <2> QED BY <1>2, <1>3, <1>4, <1>5, <2>1, <2>2
<1>6. CASE g # f
  <2>1. exported'[g] = exported[g] BY <1>6 DEF IInv, HandlerTypes
  <2>2. stats'[t][g].sum[k] = stats[t][g].sum[k] BY <1>6
  <2>3. Held(g)'[k] = Held(g)[k] BY <1>3, <1>4, <2>2
  <2> QED BY <1>2, <2>1, <2>3
<1> QED BY <1>5, <1>6

\* consolidateStats() empties the stats that it takes off the list.
LEMMA ConsolidateStatsStep ==
  ASSUME IInv, NEW a \in Actors, NEW t \in Threads, NEW f \in Functions,
         ConsolidateStats(a, t, f)
  PROVE  IInv'
<1>0. USE ActorFacts
<1>1. /\ todo' = [todo EXCEPT ![a] = @ \ {<<t, f>>}]
      /\ exported' = [exported EXCEPT ![f] = Plus(@, stats[t][f].sum)]
      /\ stats' = [stats EXCEPT ![t][f] = Cleared(@)]
      /\ active' = IF stats[t][f].sum["calls"] > 0
                   THEN [active EXCEPT ![a] = @ \cup {t}] ELSE active
      /\ UNCHANGED <<lifeVars, hostVars, statMutex, nThreads, context, pc, job, logged, lost>>
  BY DEF ConsolidateStats
<1>2. stats[t][f] \in StatType /\ stats[t][f].sum \in Sums BY DEF IInv, HandlerTypes, StatType
<1>3. Cleared(stats[t][f]) \in StatType /\ Cleared(stats[t][f]).sum = Zero
  <2>1. stats[t][f].sum["calls"] \in Nat BY <1>2 DEF Sums, Kinds
  <2>2. PICK rate \in 0..Scale : rate = SampleRate(stats[t][f].sum["calls"])
    BY <2>1, SampleRateType DEF IInv
  <2>3. Cleared(stats[t][f]) = [stats[t][f] EXCEPT !.sum = Zero, !.sampleRate = rate]
    BY <2>2 DEF Cleared
  <2>4. Zero \in Sums BY DEF Zero, Sums
  <2> QED BY <1>2, <2>3, <2>4 DEF StatType
<1>4. /\ stats' \in [Threads -> [Functions -> StatType]]
      /\ stats'[t][f].sum = Zero
      /\ \A u \in Threads, g \in Functions : (u # t \/ g # f) => stats'[u][g] = stats[u][g]
  BY <1>1, <1>3 DEF IInv, HandlerTypes
<1>5. /\ todo' \in [Actors -> SUBSET (Threads \X Functions)]
      /\ todo'[a] = todo[a] \ {<<t, f>>} /\ \A b \in Actors \ {a} : todo'[b] = todo[b]
  BY <1>1 DEF IInv, HandlerTypes
<1>6. HandlerTypes'
  <2>1. exported' \in [Functions -> Sums] BY <1>1, <1>2, PlusType DEF IInv, HandlerTypes
  <2>2. active' \in [Actors -> SUBSET Threads] BY <1>1 DEF IInv, HandlerTypes
  <2> QED BY <1>1, <1>4, <1>5, <2>1, <2>2 DEF IInv, HandlerTypes, lifeVars, hostVars
<1>7. IdInv' BY <1>1 DEF IInv, IdInv, hostVars
<1>8. MapInv' BY <1>1 DEF IInv, MapInv, Has, InCallOf, hostVars
<1>9. ContextInv' BY <1>1 DEF IInv, ContextInv, Open, Has, hostVars
<1>10. JobInv' BY <1>1 DEF IInv, JobInv, JobOK, InCallOf, Open, Has, hostVars
<1>11. \A u \in Threads, g \in Functions : Nothing(u, g) => Nothing(u, g)'
  BY <1>4 DEF Nothing
<1>12. \A u \in Threads : Empty(u) => Empty(u)' BY <1>11 DEF Empty
<1>13. \A b \in Actors, u \in Threads : Swept(b, u) => Swept(b, u)'
  <2> SUFFICES ASSUME NEW b \in Actors, NEW u \in Threads, Swept(b, u), NEW g \in Functions
               PROVE  <<u, g>> \in todo'[b] \/ Nothing(u, g)'
    BY DEF Swept
  <2>1. CASE u = t /\ g = f BY <1>4, <2>1 DEF Nothing
  <2>2. CASE ~(u = t /\ g = f)
    <3>1. <<u, g>> # <<t, f>> BY <2>2
    <3> QED BY <1>5, <1>11, <3>1 DEF Swept
  <2> QED BY <2>1, <2>2
<1>14. EmptyInv'
  <2>1. \A u \in Threads, g \in Functions : Has(u, g)' <=> Has(u, g) BY <1>1 DEF Has, hostVars
  <2> QED BY <1>1, <1>11, <1>12, <1>13, <2>1 DEF IInv, EmptyInv
<1>15. DestroyInv'
  <2>1. \A b \in Actors : Destroys(b)' <=> Destroys(b) BY <1>1 DEF Destroys
  <2>2. \A b \in Actors : DestroyOK(b)'
    <3> SUFFICES ASSUME NEW b \in Actors PROVE DestroyOK(b)'
      OBVIOUS
    <3>1. DestroyOK(b) BY DEF IInv, DestroyInv
    <3>2. listed \subseteq Threads BY DEF IInv, HandlerTypes
    <3> QED BY <1>1, <1>12, <1>13, <2>1, <3>1, <3>2 DEF DestroyOK, lifeVars, hostVars
  <2> QED BY <1>1, <2>1, <2>2 DEF IInv, DestroyInv, Open, lifeVars
<1>16. CallsConserved'
  <2>1. exported' = [exported EXCEPT ![f] = Plus(@, stats[t][f].sum)] BY <1>1
  <2>2. UNCHANGED <<logged, lost>> BY <1>1
  <2>3. \A u \in Threads, g \in Functions : (u # t \/ g # f) => stats'[u][g] = stats[u][g]
    BY <1>4
  <2>4. stats'[t][f].sum = Zero BY <1>4
  <2> QED BY <1>6, <2>1, <2>2, <2>3, <2>4, ExportBalance
<1> QED BY <1>6, <1>7, <1>8, <1>9, <1>10, <1>14, <1>15, <1>16 DEF IInv

\* A step that only moves one actor, outside of calls.
LEMMA QuietStep ==
  ASSUME IInv, NEW a \in Actors, NEW l \in Labels, Moved(a, l),
         UNCHANGED <<sumVars, stats, context, job, map, cached, id, lastId>>,
         pc[a] \notin {"getStats", "use"}, l \notin {"getStats", "use"},
         a \in Threads => l # "idle" /\ id[a] # 0, listed \ {a} \subseteq listed'
  PROVE  IdInv' /\ MapInv' /\ ContextInv' /\ JobInv' /\ CallsConserved'
<1>0. USE ActorFacts
<1>1. IdInv' BY DEF IInv, IdInv, Moved
<1>2. MapInv' BY DEF IInv, MapInv, Has, InCallOf, Moved
<1>3. ContextInv' /\ JobInv'
  <2>1. \A t \in Threads : /\ pc'[t] = "use" => pc[t] = "use"
                           /\ InCallOf(t)' <=> InCallOf(t)
    BY DEF InCallOf, Moved
  <2>2. \A t \in Threads, f \in Functions : Has(t, f) => Has(t, f)' BY DEF Has
  <2>3. lastId' >= lastId /\ lastId' \in Nat BY DEF IInv, HandlerTypes
  <2> QED BY <2>1, <2>2, <2>3, SameCalls
<1>4. CallsConserved' BY SameBalance
<1> QED BY <1>1, <1>2, <1>3, <1>4

\* consolidate() is due.
LEMMA TickStep ==
  ASSUME IInv, Tick
  PROVE  IInv'
<1>0. USE ActorFacts
<1>1. /\ pc[Scheduler] = "idle" /\ Goto(Scheduler, "consolidate")
      /\ UNCHANGED <<lifeVars, hostVars, sweepVars, sumVars, stats, context, job>>
  BY DEF Tick
<1>2. "consolidate" \in Labels BY DEF Labels
<1>3. Moved(Scheduler, "consolidate") /\ pc' \in [Actors -> Labels]
  BY <1>1, <1>2, GotoMoves DEF IInv
<1>4. HandlerTypes' BY <1>1, <1>3 DEF IInv, HandlerTypes, lifeVars, hostVars, sweepVars, sumVars
<1>5. IdInv' /\ MapInv' /\ ContextInv' /\ JobInv' /\ CallsConserved'
  BY <1>1, <1>2, <1>3, QuietStep DEF hostVars
<1>6. EmptyInv'
  BY <1>1, <1>3 DEF IInv, EmptyInv, Has, Nothing, Empty, Swept, hostVars, sweepVars, Moved
<1>7. DestroyInv'
  <2>1. \A b \in Actors : Destroys(b)' <=> Destroys(b) BY <1>1, <1>3 DEF Destroys, Moved
  <2>2. \A b \in Actors : DestroyOK(b)'
    BY <1>1, <1>3, <2>1
    DEF IInv, DestroyInv, DestroyOK, Destroys, Empty, Swept, Nothing, Moved, lifeVars, hostVars,
        sweepVars
  <2> QED BY <1>1, <1>3, <2>1, <2>2 DEF IInv, DestroyInv, Open, Moved, lifeVars
<1> QED BY <1>4, <1>5, <1>6, <1>7 DEF IInv

\* A sweep begins with all the stats there are in the maps that are listed.
LEMMA ConsolidateStep ==
  ASSUME IInv, NEW a \in Actors, Consolidate(a)
  PROVE  IInv'
<1>0. USE ActorFacts
<1>1. /\ pc[a] = "consolidate"
      /\ todo' = [todo EXCEPT ![a] = EntriesOf(listed)]
      /\ active' = [active EXCEPT ![a] = {}]
      /\ Goto(a, "sweep")
      /\ UNCHANGED <<lifeVars, hostVars, sumVars, nThreads, stats, context, job>>
  BY DEF Consolidate
<1>2. "sweep" \in Labels BY DEF Labels
<1>3. Moved(a, "sweep") /\ pc' \in [Actors -> Labels] BY <1>1, <1>2, GotoMoves DEF IInv
<1>4. /\ todo' \in [Actors -> SUBSET (Threads \X Functions)]
      /\ todo'[a] = EntriesOf(listed) /\ \A b \in Actors \ {a} : todo'[b] = todo[b]
  BY <1>1 DEF IInv, HandlerTypes, EntriesOf
<1>5. HandlerTypes'
  <2>1. active' \in [Actors -> SUBSET Threads] BY <1>1 DEF IInv, HandlerTypes
  <2> QED BY <1>1, <1>3, <1>4, <2>1 DEF IInv, HandlerTypes, lifeVars, hostVars, sumVars
<1>6. IdInv' /\ MapInv' /\ ContextInv' /\ JobInv' /\ CallsConserved'
  <2>1. a \in Threads => id[a] # 0 BY <1>1 DEF IInv, IdInv
  <2> QED BY <1>1, <1>2, <1>3, <2>1, QuietStep DEF hostVars
<1>7. \A t \in Threads : Empty(t)' <=> Empty(t) BY <1>1 DEF Empty, Nothing
<1>8. \A b \in Actors \ {a}, t \in Threads : Swept(b, t)' <=> Swept(b, t)
  BY <1>1, <1>4 DEF Swept, Nothing
<1>9. EmptyInv'
  <2>1. \A t \in Threads, f \in Functions : /\ Nothing(t, f)' <=> Nothing(t, f)
                                            /\ Has(t, f)' <=> Has(t, f)
    BY <1>1 DEF Has, Nothing, hostVars
  <2> QED BY <1>1, <1>3, <1>7, <1>8, <2>1 DEF IInv, EmptyInv, Moved
<1>10. \A t \in listed : Swept(a, t)'
  <2> SUFFICES ASSUME NEW t \in listed, NEW f \in Functions
               PROVE  <<t, f>> \in todo'[a] \/ Nothing(t, f)'
    BY DEF Swept
  <2>1. t \in Threads BY DEF IInv, HandlerTypes
  <2>2. Has(t, f) \/ Nothing(t, f) BY <2>1 DEF IInv, EmptyInv
  <2>3. Has(t, f) => <<t, f>> \in EntriesOf(listed) BY <2>1 DEF EntriesOf, Has
  <2> QED BY <1>1, <1>4, <2>2, <2>3 DEF Nothing
<1>11. DestroyInv'
  <2>1. \A b \in Actors : Destroys(b)' <=> Destroys(b) BY <1>1, <1>3 DEF Destroys, Moved
  <2>2. DestroyOK(a)'
    BY <1>1, <1>3, <1>7, <1>10, <2>1
    DEF IInv, DestroyInv, DestroyOK, Moved, lifeVars, hostVars
  <2>3. \A b \in Actors \ {a} : DestroyOK(b)'
    <3> SUFFICES ASSUME NEW b \in Actors \ {a} PROVE DestroyOK(b)'
      OBVIOUS
    <3>1. DestroyOK(b) BY DEF IInv, DestroyInv
    <3>2. listed \subseteq Threads BY DEF IInv, HandlerTypes
    <3> QED BY <1>1, <1>3, <1>7, <1>8, <2>1, <3>1, <3>2 DEF DestroyOK, Moved, lifeVars, hostVars
  <2> QED BY <1>1, <1>3, <2>1, <2>2, <2>3 DEF IInv, DestroyInv, Open, Moved, lifeVars
<1> QED BY <1>5, <1>6, <1>9, <1>11 DEF IInv

\* At the end of the destructor's sweep all that is listed has been exported.
LEMMA EndConsolidateStep ==
  ASSUME IInv, NEW a \in Actors, EndConsolidate(a)
  PROVE  IInv'
<1>0. USE ActorFacts
<1> DEFINE l == IF a = Scheduler THEN "idle" ELSE "destroy"
<1>1. /\ pc[a] = "sweep" /\ todo[a] = {}
      /\ nThreads' = IF active[a] # {} THEN Cardinality(active[a]) ELSE nThreads
      /\ active' = [active EXCEPT ![a] = {}]
      /\ Goto(a, l)
      /\ UNCHANGED <<lifeVars, hostVars, sumVars, stats, context, job, todo>>
  BY DEF EndConsolidate
<1>2. l \in Labels /\ l \in {"idle", "destroy"} /\ (l = "idle" <=> a = Scheduler) BY DEF Labels
<1> HIDE DEF l
<1>3. Moved(a, l) /\ pc' \in [Actors -> Labels] BY <1>1, <1>2, GotoMoves DEF IInv
<1>4. nThreads' \in Nat \ {0}
  <2>1. active[a] \subseteq Threads BY DEF IInv, HandlerTypes
  <2>2. IsFiniteSet(active[a]) BY <2>1, HandlerAssumption, FS_Subset
  <2>3. /\ Cardinality(active[a]) \in Nat
        /\ active[a] # {} => Cardinality(active[a]) # 0
    BY <2>2, FS_CardinalityType, FS_EmptySet
  <2> QED BY <1>1, <2>3 DEF IInv, HandlerTypes
<1>5. HandlerTypes'
  <2>1. active' \in [Actors -> SUBSET Threads] BY <1>1 DEF IInv, HandlerTypes
  <2> QED BY <1>1, <1>3, <1>4, <2>1 DEF IInv, HandlerTypes, lifeVars, hostVars, sumVars
<1>6. IdInv' /\ MapInv' /\ ContextInv' /\ JobInv' /\ CallsConserved'
  <2>1. a \in Threads => id[a] # 0 /\ l # "idle" BY <1>1, <1>2 DEF IInv, IdInv
  <2> QED BY <1>1, <1>2, <1>3, <2>1, QuietStep DEF hostVars
<1>7. \A t \in Threads : Empty(t)' <=> Empty(t) BY <1>1 DEF Empty, Nothing
<1>8. \A b \in Actors, t \in Threads : Swept(b, t)' <=> Swept(b, t)
  BY <1>1 DEF Swept, Nothing
<1>9. EmptyInv'
  <2>1. \A t \in Threads, f \in Functions : /\ Nothing(t, f)' <=> Nothing(t, f)
                                            /\ Has(t, f)' <=> Has(t, f)
    BY <1>1 DEF Has, Nothing, hostVars
  <2> QED BY <1>1, <1>2, <1>3, <1>7, <1>8, <2>1 DEF IInv, EmptyInv, Moved
<1>10. DestroyInv'
  <2>1. \A b \in Actors : Destroys(b)' <=> Destroys(b) BY <1>1, <1>2, <1>3 DEF Destroys, Moved
  <2>2. DestroyOK(a)'
    <3>1. Destroys(a) => \A t \in listed : Swept(a, t) BY <1>1 DEF IInv, DestroyInv, DestroyOK
    <3>2. Destroys(a) => \A t \in listed : Empty(t) BY <1>1, <3>1 DEF Swept, Empty
    <3>3. listed \subseteq Threads BY DEF IInv, HandlerTypes
    <3> QED BY <1>1, <1>2, <1>3, <1>7, <2>1, <3>2, <3>3
            DEF IInv, DestroyInv, DestroyOK, Moved, lifeVars, hostVars
  <2>3. \A b \in Actors \ {a} : DestroyOK(b)'
    <3> SUFFICES ASSUME NEW b \in Actors \ {a} PROVE DestroyOK(b)'
      OBVIOUS
    <3>1. DestroyOK(b) BY DEF IInv, DestroyInv
    <3>2. listed \subseteq Threads BY DEF IInv, HandlerTypes
    <3> QED BY <1>1, <1>3, <1>7, <1>8, <2>1, <3>1, <3>2 DEF DestroyOK, Moved, lifeVars, hostVars
  <2> QED BY <1>1, <1>2, <1>3, <2>1, <2>2, <2>3 DEF IInv, DestroyInv, Open, Moved, lifeVars
<1> QED BY <1>5, <1>6, <1>9, <1>10 DEF IInv

-----------------------------------------------------------------------------
(***************************************************************************)
(* The exit of a thread.                                                   *)
(***************************************************************************)
\* A thread without a map has nothing to export.
LEMMA ThreadExitStep ==
  ASSUME IInv, NEW t \in Threads, ThreadExit(t)
  PROVE  IInv'
<1>0. USE ActorFacts
<1> DEFINE l == IF map[t] = None THEN "delete" ELSE "exit"
<1>1. /\ pc[t] = "idle" /\ id[t] # 0 /\ \A a \in Actors : pc[a] # "sweep"
      /\ listed' = listed \ {t}
      /\ Goto(t, l)
      /\ UNCHANGED <<lifeVars, sweepVars, sumVars, lastId, id, map, cached, stats, context, job>>
  BY DEF ThreadExit, Running
<1>2. l \in Labels /\ l \in {"delete", "exit"} /\ (l = "delete" <=> map[t] = None) BY DEF Labels
<1> HIDE DEF l
<1>3. Moved(t, l) /\ pc' \in [Actors -> Labels] BY <1>1, <1>2, GotoMoves DEF IInv
<1>4. HandlerTypes' BY <1>1, <1>3 DEF IInv, HandlerTypes, lifeVars, sweepVars, sumVars
<1>5. IdInv' /\ MapInv' /\ ContextInv' /\ JobInv' /\ CallsConserved'
  BY <1>1, <1>2, <1>3, QuietStep
<1>6. \A u \in Threads : Empty(u)' <=> Empty(u) BY <1>1 DEF Empty, Nothing
<1>7. EmptyInv'
  <2>1. \A u \in Threads, f \in Functions : /\ Nothing(u, f)' <=> Nothing(u, f)
                                            /\ Has(u, f)' <=> Has(u, f)
    BY <1>1 DEF Has, Nothing
  <2>2. l = "delete" => Empty(t) BY <1>2 DEF IInv, EmptyInv, Has, Empty
  <2>3. \A u \in Threads : Swept(u, u)' <=> Swept(u, u) BY <1>1 DEF Swept, Nothing, sweepVars
  <2> QED BY <1>1, <1>2, <1>3, <1>6, <2>1, <2>2, <2>3 DEF IInv, EmptyInv, Moved
<1>8. DestroyInv'
  <2>1. ~Destroys(t) BY <1>1 DEF Destroys
  <2>2. \A b \in Actors : Destroys(b)' <=> Destroys(b) BY <1>1, <1>2, <1>3 DEF Destroys, Moved
  <2>3. \A b \in Actors : DestroyOK(b)'
    <3> SUFFICES ASSUME NEW b \in Actors, Destroys(b) PROVE DestroyOK(b)'
      BY <2>2 DEF DestroyOK
    <3>1. DestroyOK(b) BY DEF IInv, DestroyInv
    <3>2. listed \subseteq Threads BY DEF IInv, HandlerTypes
    <3>3. b # t /\ pc'[b] = pc[b] /\ pc[b] # "sweep" BY <1>1, <1>3, <2>1 DEF Moved
    <3> QED BY <1>1, <1>6, <3>1, <3>2, <3>3 DEF DestroyOK, lifeVars
  <2> QED BY <1>1, <1>2, <1>3, <2>2, <2>3 DEF IInv, DestroyInv, Open, Moved, lifeVars
<1> QED BY <1>4, <1>5, <1>7, <1>8 DEF IInv

\* The weak pointer gives a reference only to a handler that is alive.
LEMMA LockWeakStep ==
  ASSUME IInv, NEW t \in Threads, LockWeak(t)
  PROVE  IInv'
<1>0. USE ActorFacts
<1> DEFINE l == IF handler = "alive" THEN "exitLock" ELSE "abandon"
<1>1. /\ pc[t] = "exit" /\ Goto(t, l)
      /\ UNCHANGED <<lifeVars, hostVars, sweepVars, sumVars, stats, context, job>>
  BY DEF LockWeak
<1>2. l \in Labels /\ l \in {"exitLock", "abandon"} /\ (l = "exitLock" <=> handler = "alive")
  BY DEF Labels
<1> HIDE DEF l
<1>3. Moved(t, l) /\ pc' \in [Actors -> Labels] BY <1>1, <1>2, GotoMoves DEF IInv
<1>4. HandlerTypes' BY <1>1, <1>3 DEF IInv, HandlerTypes, lifeVars, hostVars, sweepVars, sumVars
<1>5. IdInv' /\ MapInv' /\ ContextInv' /\ JobInv' /\ CallsConserved'
  <2>1. id[t] # 0 BY <1>1 DEF IInv, IdInv
  <2> QED BY <1>1, <1>2, <1>3, <2>1, QuietStep DEF hostVars
<1>6. EmptyInv'
  BY <1>1, <1>2, <1>3 DEF IInv, EmptyInv, Has, Nothing, Empty, Swept, hostVars, sweepVars, Moved
<1>7. DestroyInv'
  <2>1. \A b \in Actors : Destroys(b)' <=> Destroys(b) BY <1>1, <1>2, <1>3 DEF Destroys, Moved
  <2>2. \A b \in Actors : DestroyOK(b)'
    <3> SUFFICES ASSUME NEW b \in Actors, Destroys(b) PROVE DestroyOK(b)'
      BY <2>1 DEF DestroyOK
    <3>1. DestroyOK(b) BY DEF IInv, DestroyInv
    <3>2. b # t /\ pc'[b] = pc[b] BY <1>1, <1>3 DEF Moved, Destroys
    <3> QED BY <1>1, <3>1, <3>2
            DEF DestroyOK, Empty, Swept, Nothing, lifeVars, hostVars, sweepVars
  <2> QED BY <1>1, <1>2, <1>3, <2>1, <2>2 DEF IInv, DestroyInv, Open, Moved, lifeVars
<1> QED BY <1>4, <1>5, <1>6, <1>7 DEF IInv

\* consolidateThread() begins with all the stats of the thread.
LEMMA ExitConsolidateStep ==
  ASSUME IInv, NEW t \in Threads, ExitConsolidate(t)
  PROVE  IInv'
<1>0. USE ActorFacts
<1>1. /\ pc[t] = "exitLock"
      /\ todo' = [todo EXCEPT ![t] = EntriesOf({t})]
      /\ Goto(t, "exitSweep")
      /\ UNCHANGED <<lifeVars, hostVars, sumVars, nThreads, stats, context, job, active>>
  BY DEF ExitConsolidate
<1>2. "exitSweep" \in Labels BY DEF Labels
<1>3. Moved(t, "exitSweep") /\ pc' \in [Actors -> Labels] BY <1>1, <1>2, GotoMoves DEF IInv
<1>4. /\ todo' \in [Actors -> SUBSET (Threads \X Functions)]
      /\ todo'[t] = EntriesOf({t}) /\ \A b \in Actors \ {t} : todo'[b] = todo[b]
  BY <1>1 DEF IInv, HandlerTypes, EntriesOf
<1>5. HandlerTypes'
  BY <1>1, <1>3, <1>4 DEF IInv, HandlerTypes, lifeVars, hostVars, sumVars
<1>6. IdInv' /\ MapInv' /\ ContextInv' /\ JobInv' /\ CallsConserved'
  <2>1. id[t] # 0 BY <1>1 DEF IInv, IdInv
  <2> QED BY <1>1, <1>2, <1>3, <2>1, QuietStep DEF hostVars
<1>7. \A u \in Threads : Empty(u)' <=> Empty(u) BY <1>1 DEF Empty, Nothing
<1>8. \A b \in Actors \ {t}, u \in Threads : Swept(b, u)' <=> Swept(b, u)
  BY <1>1, <1>4 DEF Swept, Nothing
<1>9. Swept(t, t)'
  <2> SUFFICES ASSUME NEW f \in Functions PROVE <<t, f>> \in todo'[t] \/ Nothing(t, f)'
    BY DEF Swept
  <2>1. Has(t, f) \/ Nothing(t, f) BY DEF IInv, EmptyInv
  <2>2. Has(t, f) => <<t, f>> \in EntriesOf({t}) BY DEF EntriesOf, Has
  <2> QED BY <1>1, <1>4, <2>1, <2>2 DEF Nothing
<1>10. EmptyInv'
  <2>1. \A u \in Threads, f \in Functions : /\ Nothing(u, f)' <=> Nothing(u, f)
                                            /\ Has(u, f)' <=> Has(u, f)
    BY <1>1 DEF Has, Nothing, hostVars
  <2> QED BY <1>1, <1>3, <1>7, <1>8, <1>9, <2>1 DEF IInv, EmptyInv, Moved
<1>11. DestroyInv'
  <2>1. handler = "alive" /\ handler' = "alive" BY <1>1 DEF IInv, DestroyInv, lifeVars
  <2>2. \A b \in Actors : Destroys(b)' => Destroys(b) BY <1>3 DEF Destroys, Moved
  <2> QED BY <2>1, <2>2, StaysAlive
<1> QED BY <1>5, <1>6, <1>10, <1>11 DEF IInv

\* All that the thread counted is exported when its reference is dropped.
LEMMA EndExitConsolidateStep ==
  ASSUME IInv, NEW t \in Threads, EndExitConsolidate(t)
  PROVE  IInv'
<1>0. USE ActorFacts
<1>1. /\ pc[t] = "exitSweep" /\ todo[t] = {}
      /\ active' = [active EXCEPT ![t] = {}]
      /\ LetGo(t, "delete")
      /\ UNCHANGED <<hostVars, sumVars, owned, running, nThreads, stats, context, job, todo>>
  BY DEF EndExitConsolidate
<1>2. PICK l \in {"delete", "shutdown"} :
         /\ pc' \in [Actors -> Labels] /\ Moved(t, l) /\ handler' \in {handler, "dying"}
         /\ \/ l = "delete" /\ handler' = handler
            \/ l = "shutdown" /\ handler' = "dying" /\ ~Referenced(t)
  <2>1. "delete" \in Labels BY DEF Labels
  <2> QED BY <1>1, <2>1, LetGoMoves DEF IInv
<1>3. l \in Labels BY <1>2 DEF Labels
<1>4. HandlerTypes'
  <2>1. active' \in [Actors -> SUBSET Threads] BY <1>1 DEF IInv, HandlerTypes
  <2>2. handler' \in {"alive", "dying", "gone"} BY <1>2 DEF IInv, HandlerTypes
  <2> QED BY <1>1, <1>2, <2>1, <2>2 DEF IInv, HandlerTypes, hostVars, sumVars
<1>5. IdInv' /\ MapInv' /\ ContextInv' /\ JobInv' /\ CallsConserved'
  <2>1. id[t] # 0 BY <1>1 DEF IInv, IdInv
  <2> QED BY <1>1, <1>2, <1>3, <2>1, QuietStep DEF hostVars
<1>6. Empty(t) BY <1>1 DEF IInv, EmptyInv, Swept, Empty
<1>7. \A u \in Threads : Empty(u)' <=> Empty(u) BY <1>1 DEF Empty, Nothing
<1>8. EmptyInv'
  <2>1. \A u \in Threads, f \in Functions : /\ Nothing(u, f)' <=> Nothing(u, f)
                                            /\ Has(u, f)' <=> Has(u, f)
    BY <1>1 DEF Has, Nothing, hostVars
  <2>2. \A u \in Threads : Swept(u, u)' <=> Swept(u, u) BY <1>1 DEF Swept, Nothing
  <2> QED BY <1>1, <1>2, <1>6, <1>7, <2>1, <2>2 DEF IInv, EmptyInv, Moved
<1>9. handler = "alive" BY <1>1 DEF IInv, DestroyInv
<1>10. DestroyInv'
  <2>1. CASE l = "delete"
    <3>1. handler' = "alive" BY <1>2, <1>9, <2>1
    <3>2. \A a \in Actors : Destroys(a)' => Destroys(a) BY <1>2, <2>1 DEF Destroys, Moved
    <3> QED BY <1>9, <3>1, <3>2, StaysAlive
  <2>2. CASE l = "shutdown"
    <3>1. ~Referenced(t) /\ handler' = "dying" BY <1>2, <2>2
    <3>2. ~owned' BY <1>1, <3>1 DEF Referenced
    <3>3. Empty(t)' BY <1>6, <1>7
    <3>4. \A q \in Requests : Open(q)' => Open(q) /\ q \notin {} BY <1>1 DEF Open
    <3>5. job[t].req = None
      <4>1. job[t] = NoJob BY <1>1 DEF IInv, JobInv, JobOK, InCallOf
      <4> QED BY <4>1 DEF NoJob
    <3>6. \A q \in Requests : Open(q) /\ t \in Threads /\ job[t].req = q => q \in {} BY <3>5
    <3>7. {} \in SUBSET Requests /\ t \in Actors OBVIOUS
    <3>8. Moved(t, "shutdown") BY <1>2, <2>2
    <3>9. t \in Threads /\ t \notin listed' => Empty(t)' BY <3>3
    <3> QED BY <1>9, <3>1, <3>2, <3>4, <3>6, <3>7, <3>8, <3>9, LastReference
  <2> QED BY <2>1, <2>2
<1> QED BY <1>4, <1>5, <1>8, <1>10 DEF IInv

\* What is deleted with a thread's map is lost, if there was anything.
LEMMA LoseBalance ==
  ASSUME IInv, HandlerTypes', NEW t \in Threads, UNCHANGED <<logged, exported>>,
         \A f \in Functions, k \in Kinds : lost'[f][k] = lost[f][k] + stats[t][f].sum[k],
         \A f \in Functions : stats'[t][f].sum = Zero,
         \A u \in Threads \ {t} : stats'[u] = stats[u]
  PROVE  CallsConserved'
<1> SUFFICES ASSUME NEW g \in Functions, NEW k \in Kinds
             PROVE  logged'[g][k] = exported'[g][k] + (Held(g)'[k] + lost'[g][k])
  BY BalanceNext
<1>1. logged[g][k] = exported[g][k] + (Held(g)[k] + lost[g][k])
  BY BalanceIs DEF IInv
<1>2. /\ exported[g][k] \in Nat /\ lost[g][k] \in Nat /\ stats[t][g].sum[k] \in Nat
  BY DEF IInv, HandlerTypes, StatType, Sums
<1>3. /\ Held(g)[k] \in Nat /\ Held(g)'[k] \in Nat
      /\ Held(g)'[k] + stats[t][g].sum[k] = Held(g)[k] + stats'[t][g].sum[k]
  BY HeldMoves DEF IInv
<1>4. stats'[t][g].sum[k] = 0 BY DEF Zero
<1>5. lost'[g][k] = lost[g][k] + stats[t][g].sum[k] OBVIOUS
<1> QED BY <1>1, <1>2, <1>3, <1>4, <1>5

\* The map goes with the thread; a context of it has an id that is never used again.
LEMMA DeleteMapStep ==
  ASSUME IInv, NEW t \in Threads, DeleteMap(t)
  PROVE  IInv'
<1>0. USE ActorFacts
<1> DEFINE new == [f \in Functions |-> NewStats]
<1>1. /\ pc[t] \in {"delete", "abandon"}
      /\ lost' = IF pc[t] = "abandon"
                 THEN [f \in Functions |-> Plus(lost[f], stats[t][f].sum)] ELSE lost
      /\ map' = [map EXCEPT ![t] = None]
      /\ cached' = [cached EXCEPT ![t] = None]
      /\ stats' = [stats EXCEPT ![t] = new]
      /\ id' = [id EXCEPT ![t] = 0]
      /\ Goto(t, "idle")
      /\ UNCHANGED <<lifeVars, sweepVars, lastId, listed, context, job, exported, logged>>
  BY DEF DeleteMap
<1>2. NewStats \in StatType /\ NewStats.sum = Zero
  BY HandlerAssumption DEF NewStats, StatType, Zero, Sums
<1>3. new \in [Functions -> StatType] /\ \A f \in Functions : new[f] = NewStats
  BY <1>2
<1> HIDE DEF new
<1>4. "idle" \in Labels BY DEF Labels
<1>5. Moved(t, "idle") /\ pc' \in [Actors -> Labels] BY <1>1, <1>4, GotoMoves DEF IInv
<1>6. /\ map'[t] = None /\ cached'[t] = None /\ id'[t] = 0 /\ stats'[t] = new
      /\ \A u \in Threads \ {t} : /\ map'[u] = map[u] /\ cached'[u] = cached[u]
                                  /\ id'[u] = id[u] /\ stats'[u] = stats[u]
      /\ map' \in [Threads -> (SUBSET Functions) \cup {None}]
      /\ cached' \in [Threads -> Functions \cup {None}]
      /\ id' \in [Threads -> Nat] /\ stats' \in [Threads -> [Functions -> StatType]]
  BY <1>1, <1>3 DEF IInv, HandlerTypes
<1>7. \A f \in Functions : lost[f] \in Sums /\ stats[t][f].sum \in Sums
  BY DEF IInv, HandlerTypes, StatType
<1>8. /\ lost' \in [Functions -> Sums]
      /\ \A f \in Functions, k \in Kinds : lost'[f][k] = lost[f][k] + stats[t][f].sum[k]
  <2>1. CASE pc[t] = "abandon"
    <3>1. lost' = [f \in Functions |-> Plus(lost[f], stats[t][f].sum)] BY <1>1, <2>1
    <3> QED BY <1>7, <3>1, PlusType
  <2>2. CASE pc[t] # "abandon"
    <3>1. lost' = lost /\ Empty(t) BY <1>1, <2>2 DEF IInv, EmptyInv
    <3>2. \A f \in Functions, k \in Kinds : stats[t][f].sum[k] = 0 /\ lost[f][k] \in Nat
      BY <1>7, <3>1 DEF Empty, Nothing, Zero, Sums
    <3> QED BY <3>1, <3>2 DEF IInv, HandlerTypes
  <2> QED BY <2>1, <2>2
<1>9. HandlerTypes'
  BY <1>1, <1>5, <1>6, <1>8 DEF IInv, HandlerTypes, lifeVars, sweepVars
<1>10. IdInv' BY <1>1, <1>5, <1>6 DEF IInv, IdInv, HandlerTypes, Moved
<1>11. MapInv' BY <1>1, <1>5, <1>6 DEF IInv, MapInv, Has, InCallOf, Moved
<1>12. ContextInv'
  <2> SUFFICES ASSUME NEW r \in Requests, Open(r)
               PROVE  /\ context[r].origin \in 1..lastId
                      /\ \A u \in Threads : id'[u] = context[r].origin =>
                            u = context[r].place /\ map'[u] # None /\ context[r].fn \in map'[u]
    BY <1>1 DEF ContextInv, Open, Has
  <2>1. /\ context[r].origin \in 1..lastId
        /\ \A u \in Threads : id[u] = context[r].origin =>
              u = context[r].place /\ Has(u, context[r].fn)
    BY DEF IInv, ContextInv
  <2>2. context[r].origin # 0 BY <2>1
  <2> QED BY <1>6, <2>1, <2>2 DEF Has
<1>13. JobInv'
  <2>1. JobOK(t)' BY <1>1, <1>5 DEF IInv, JobInv, JobOK, InCallOf, Moved
  <2>2. \A u \in Threads \ {t} : JobOK(u)'
    BY <1>1, <1>5, <1>6 DEF IInv, JobInv, JobOK, InCallOf, Open, Has, Moved
  <2>3. \A v, u \in Threads : job'[v].req = job'[u].req /\ job'[v].req # None => v = u
    BY <1>1 DEF IInv, JobInv
  <2> QED BY <2>1, <2>2, <2>3 DEF JobInv
<1>14. Empty(t)' BY <1>2, <1>3, <1>6 DEF Empty, Nothing
<1>15. \A u \in Threads, f \in Functions : Nothing(u, f) => Nothing(u, f)'
  BY <1>6, <1>14 DEF Nothing, Empty
<1>16. \A u \in Threads : Empty(u) => Empty(u)' BY <1>15 DEF Empty
<1>17. \A b \in Actors, u \in Threads : Swept(b, u) => Swept(b, u)'
  BY <1>1, <1>15 DEF Swept, sweepVars
<1>18. EmptyInv'
  <2>1. \A u \in Threads \ {t}, f \in Functions : Has(u, f)' <=> Has(u, f) BY <1>6 DEF Has
  <2>2. \A f \in Functions : Nothing(t, f)' BY <1>14 DEF Empty
  <2> QED BY <1>5, <1>15, <1>16, <1>17, <2>1, <2>2 DEF IInv, EmptyInv, Moved
<1>19. DestroyInv'
  <2>1. \A b \in Actors : Destroys(b)' <=> Destroys(b) BY <1>1, <1>5 DEF Destroys, Moved
  <2>2. \A b \in Actors : DestroyOK(b)'
    <3> SUFFICES ASSUME NEW b \in Actors, Destroys(b) PROVE DestroyOK(b)'
      BY <2>1 DEF DestroyOK
    <3>1. DestroyOK(b) BY DEF IInv, DestroyInv
    <3>2. listed \subseteq Threads BY DEF IInv, HandlerTypes
    <3>3. b # t /\ pc'[b] = pc[b] BY <1>1, <1>5 DEF Moved, Destroys
    <3> QED BY <1>1, <1>16, <1>17, <3>1, <3>2, <3>3 DEF DestroyOK, lifeVars
  <2> QED BY <1>1, <1>5, <2>1, <2>2 DEF IInv, DestroyInv, Open, Moved, lifeVars
<1>20. CallsConserved'
  <2>1. \A f \in Functions : stats'[t][f].sum = Zero BY <1>14 DEF Empty, Nothing
  <2> QED BY <1>1, <1>6, <1>8, <1>9, <2>1, LoseBalance
<1> QED BY <1>9, <1>10, <1>11, <1>12, <1>13, <1>18, <1>19, <1>20 DEF IInv

-----------------------------------------------------------------------------
(***************************************************************************)
(* The destructor.                                                         *)
(***************************************************************************)
\* The owner lets go of the handler.
LEMMA DropHandlerStep ==
  ASSUME IInv, DropHandler
  PROVE  IInv'
<1>0. USE ActorFacts
<1>1. /\ owned /\ pc[Owner] = "idle" /\ owned' = FALSE /\ LetGo(Owner, "idle")
      /\ UNCHANGED <<hostVars, sweepVars, sumVars, running, stats, context, job>>
  BY DEF DropHandler
<1>2. PICK l \in {"idle", "shutdown"} :
         /\ pc' \in [Actors -> Labels] /\ Moved(Owner, l) /\ handler' \in {handler, "dying"}
         /\ \/ l = "idle" /\ handler' = handler
            \/ l = "shutdown" /\ handler' = "dying" /\ ~Referenced(Owner)
  <2>1. "idle" \in Labels BY DEF Labels
  <2> QED BY <1>1, <2>1, LetGoMoves DEF IInv
<1>3. l \in Labels BY <1>2 DEF Labels
<1>4. HandlerTypes'
  <2>1. handler' \in {"alive", "dying", "gone"} BY <1>2 DEF IInv, HandlerTypes
  <2> QED BY <1>1, <1>2, <2>1 DEF IInv, HandlerTypes, hostVars, sweepVars, sumVars
<1>5. IdInv' /\ MapInv' /\ ContextInv' /\ JobInv' /\ CallsConserved'
  BY <1>1, <1>2, <1>3, QuietStep DEF hostVars
<1>6. EmptyInv'
  BY <1>1, <1>2 DEF IInv, EmptyInv, Has, Nothing, Empty, Swept, hostVars, sweepVars, Moved
<1>7. handler = "alive" BY <1>1 DEF IInv, DestroyInv
<1>8. DestroyInv'
  <2>1. CASE l = "idle"
    <3>1. handler' = "alive" BY <1>2, <1>7, <2>1
    <3>2. \A a \in Actors : Destroys(a)' => Destroys(a) BY <1>2, <2>1 DEF Destroys, Moved
    <3> QED BY <1>7, <3>1, <3>2, StaysAlive
  <2>2. CASE l = "shutdown"
    <3>1. ~Referenced(Owner) /\ handler' = "dying" BY <1>2, <2>2
    <3>2. ~owned' BY <1>1
    <3>3. \A q \in Requests : Open(q)' => Open(q) /\ q \notin {} BY <1>1 DEF Open
    <3>4. \A q \in Requests : Open(q) /\ Owner \in Threads /\ job[Owner].req = q => q \in {}
      OBVIOUS
    <3>5. {} \in SUBSET Requests OBVIOUS
    <3>6. Moved(Owner, "shutdown") BY <1>2, <2>2
    <3>7. Owner \in Threads /\ Owner \notin listed' => Empty(Owner)' OBVIOUS
    <3> QED BY <1>7, <3>1, <3>2, <3>3, <3>4, <3>5, <3>6, <3>7, LastReference
  <2> QED BY <2>1, <2>2
<1> QED BY <1>4, <1>5, <1>6, <1>8 DEF IInv

\* The destructor goes on to its next part, before its consolidation.
LEMMA DestructorMoves ==
  ASSUME IInv, NEW a \in Actors, pc[a] \in {"shutdown", "join"},
         NEW l \in {"join", "consolidate"}, Goto(a, l), a = Scheduler => l = "join",
         UNCHANGED <<hostVars, sweepVars, sumVars, handler, owned, stats, context, job>>
  PROVE  IInv'
<1>0. USE ActorFacts
<1>1. l \in Labels BY DEF Labels
<1>2. Moved(a, l) /\ pc' \in [Actors -> Labels] BY <1>1, GotoMoves DEF IInv
<1>3. HandlerTypes' BY <1>2 DEF IInv, HandlerTypes, hostVars, sweepVars, sumVars
<1>4. IdInv' /\ MapInv' /\ ContextInv' /\ JobInv' /\ CallsConserved'
  <2>1. a \in Threads => id[a] # 0 BY DEF IInv, IdInv
  <2> QED BY <1>1, <1>2, <2>1, QuietStep DEF hostVars
<1>5. EmptyInv'
  BY <1>2 DEF IInv, EmptyInv, Has, Nothing, Empty, Swept, hostVars, sweepVars, Moved
<1>6. DestroyInv'
  <2>1. \A b \in Actors : Destroys(b)' <=> Destroys(b) BY <1>2 DEF Destroys, Moved
  <2>2. \A b \in Actors : DestroyOK(b)'
    <3> SUFFICES ASSUME NEW b \in Actors, Destroys(b) PROVE DestroyOK(b)'
      BY <2>1 DEF DestroyOK
    <3>1. DestroyOK(b) BY DEF IInv, DestroyInv
    <3>2. pc'[b] = pc[b] \/ pc'[b] \in {"join", "consolidate"} BY <1>2 DEF Moved
    <3> QED BY <3>1, <3>2 DEF DestroyOK, Empty, Swept, Nothing, hostVars, sweepVars
  <2> QED BY <1>2, <2>1, <2>2 DEF IInv, DestroyInv, Open, Moved
<1> QED BY <1>3, <1>4, <1>5, <1>6 DEF IInv

\* The maps that the destructor deletes have been exported.
LEMMA DestroyHandlerStep ==
  ASSUME IInv, NEW a \in Actors, DestroyHandler(a)
  PROVE  IInv'
<1>0. USE ActorFacts
<1> DEFINE new == [f \in Functions |-> NewStats]
           l == IF a \in Threads /\ map'[a] # None THEN "delete" ELSE "idle"
<1>1. /\ pc[a] = "destroy" /\ handler' = "gone"
      /\ map' = [t \in Threads |-> IF t \in listed THEN None ELSE map[t]]
      /\ cached' = [t \in Threads |-> IF t \in listed THEN None ELSE cached[t]]
      /\ stats' = [t \in Threads |-> IF t \in listed THEN new ELSE stats[t]]
      /\ listed' = {}
      /\ Goto(a, l)
      /\ UNCHANGED <<sweepVars, sumVars, owned, running, lastId, id, context, job>>
  BY DEF DestroyHandler
<1>2. NewStats \in StatType /\ NewStats.sum = Zero
  BY HandlerAssumption DEF NewStats, StatType, Zero, Sums
<1>3. new \in [Functions -> StatType] /\ \A f \in Functions : new[f] = NewStats
  BY <1>2
<1>4. l \in Labels /\ l \in {"delete", "idle"} BY DEF Labels
<1>5. /\ l = "delete" => a \in Threads /\ map'[a] # None
      /\ l = "idle" => (a \in Threads => map'[a] = None)
  OBVIOUS
<1> HIDE DEF new, l
<1>6. Moved(a, l) /\ pc' \in [Actors -> Labels] BY <1>1, <1>4, GotoMoves DEF IInv
<1>7. /\ map' \in [Threads -> (SUBSET Functions) \cup {None}]
      /\ cached' \in [Threads -> Functions \cup {None}]
      /\ stats' \in [Threads -> [Functions -> StatType]]
  BY <1>1, <1>3 DEF IInv, HandlerTypes
<1>8. HandlerTypes' BY <1>1, <1>6, <1>7 DEF IInv, HandlerTypes, sweepVars, sumVars
<1>9. Destroys(a) /\ DestroyOK(a) BY <1>1 DEF IInv, DestroyInv, Destroys
<1>10. /\ handler = "dying" /\ \A t \in listed : Empty(t)
       /\ a \in Threads /\ a \notin listed => Empty(a)
  BY <1>1, <1>9 DEF DestroyOK
<1>11. /\ ~owned /\ \A r \in Requests : ~Open(r)
       /\ \A t \in Threads : pc[t] \notin {"getStats", "use", "exitLock", "exitSweep"}
  BY <1>10 DEF IInv, DestroyInv
<1>12. IdInv'
  <2>1. a \in Threads => id[a] # 0 BY <1>1 DEF IInv, IdInv
  <2> QED BY <1>1, <1>6, <2>1 DEF IInv, IdInv, Moved
<1>13. MapInv'
  <2>1. \A t \in Threads : map'[t] # None /\ (pc'[t] = "idle" \/ InCallOf(t)') => t \in listed'
    <3> SUFFICES ASSUME NEW t \in Threads, map'[t] # None, pc'[t] = "idle" \/ InCallOf(t)'
                 PROVE  FALSE
      OBVIOUS
    <3>1. t \notin listed /\ map[t] # None BY <1>1
    <3>2. CASE t = a BY <1>4, <1>5, <1>6, <3>2 DEF InCallOf, Moved
    <3>3. CASE t # a
      BY <1>6, <3>1, <3>3 DEF InCallOf, Moved, IInv, MapInv
    <3> QED BY <3>2, <3>3
  <2>2. \A t \in Threads : cached'[t] # None => Has(t, cached[t])'
    BY <1>1 DEF IInv, MapInv, Has
  <2> QED BY <2>1, <2>2 DEF MapInv
<1>14. ContextInv' BY <1>1, <1>11 DEF ContextInv, Open
<1>15. JobInv'
  <2>1. \A t \in Threads : job[t] = NoJob BY <1>11 DEF IInv, JobInv, JobOK, InCallOf
  <2>2. \A t \in Threads : ~InCallOf(t)' BY <1>4, <1>6, <1>11 DEF InCallOf, Moved
  <2> QED BY <1>1, <2>1, <2>2 DEF IInv, JobInv, JobOK, InCallOf
<1>16. \A t \in Threads, f \in Functions : stats'[t][f].sum = stats[t][f].sum
  BY <1>1, <1>2, <1>3, <1>10 DEF Empty, Nothing
<1>17. EmptyInv'
  <2>1. \A t \in Threads, f \in Functions : Nothing(t, f)' <=> Nothing(t, f)
    BY <1>16 DEF Nothing
  <2>2. \A t \in Threads : Empty(t)' <=> Empty(t) BY <2>1 DEF Empty
  <2>3. \A t \in Threads, f \in Functions : Has(t, f)' \/ Nothing(t, f)'
    BY <1>1, <1>10, <2>1 DEF IInv, EmptyInv, Has, Empty
  <2>4. pc'[a] = "delete" => a \in Threads /\ Empty(a)
    BY <1>1, <1>5, <1>6, <1>10 DEF Moved
  <2> QED BY <1>4, <1>6, <1>11, <2>2, <2>3, <2>4 DEF IInv, EmptyInv, Moved
<1>18. DestroyInv'
  <2>1. \A b \in Actors : ~Destroys(b)'
    BY <1>4, <1>6, <1>9 DEF IInv, DestroyInv, Destroys, Moved
  <2> QED BY <1>1, <1>4, <1>6, <1>11, <2>1 DEF DestroyInv, DestroyOK, Open, Moved
<1>19. CallsConserved' BY <1>1, <1>16, SameBalance
<1> QED BY <1>8, <1>12, <1>13, <1>14, <1>15, <1>17, <1>18, <1>19 DEF IInv

-----------------------------------------------------------------------------
(***************************************************************************)
(* The theorems.                                                           *)
(***************************************************************************)
\* Nothing is counted at the start.
LEMMA InitIInv == Init => IInv
<1> SUFFICES ASSUME Init PROVE IInv
  OBVIOUS
<1>0. USE ActorFacts
<1>1. NewStats \in StatType /\ NewStats.sum = Zero /\ Zero \in Sums
  BY HandlerAssumption DEF NewStats, StatType, Zero, Sums
<1>2. HandlerTypes
  <2>1. NoJob \in JobType BY DEF NoJob, JobType
  <2>2. "idle" \in Labels BY DEF Labels
  <2> QED BY <1>1, <2>1, <2>2 DEF Init, HandlerTypes
<1>3. IdInv BY DEF Init, IdInv
<1>4. MapInv BY DEF Init, MapInv, Has
<1>5. \A r \in Requests : ~Open(r) BY DEF Init, Open, NoContext
<1>6. ContextInv BY <1>5 DEF ContextInv
<1>7. JobInv BY DEF Init, JobInv, JobOK, InCallOf, NoJob
<1>8. \A t \in Threads, f \in Functions : stats[t][f].sum = Zero BY <1>1 DEF Init
<1>9. EmptyInv BY <1>8 DEF Init, EmptyInv, Nothing, Empty, Swept
<1>10. DestroyInv BY DEF Init, DestroyInv, DestroyOK, Destroys
<1>11. CallsConserved
  <2> SUFFICES ASSUME NEW f \in Functions, NEW k \in Kinds
               PROVE  logged[f][k] = exported[f][k] + (Held(f)[k] + lost[f][k])
    BY <1>2, BalanceIs
  <2>1. logged[f][k] = 0 /\ exported[f][k] = 0 /\ lost[f][k] = 0 BY DEF Init, Zero
  <2> DEFINE g == [t \in Threads |-> stats[t][f].sum[k]]
  <2>2. \A t \in Threads : g[t] = 0 BY <1>8 DEF Zero
  <2>3. Held(f)[k] = Total(g) BY DEF Held
  <2> HIDE DEF g
  <2>4. UNION {{t} \X (1..g[t]) : t \in Threads} = {}
    <3>1. \A t \in Threads : {t} \X (1..g[t]) = {} BY <2>2
    <3> QED BY <3>1
  <2>5. Total(g) = 0 BY <2>4, FS_EmptySet DEF Total
  <2> QED BY <2>1, <2>3, <2>5
<1> QED BY <1>2, <1>3, <1>4, <1>6, <1>7, <1>9, <1>10, <1>11 DEF IInv

\* Every step, and stuttering, keeps the invariant.
LEMMA NextIInv == IInv /\ [Next]_vars => IInv'
<1> SUFFICES ASSUME IInv, [Next]_vars PROVE IInv'
  OBVIOUS
<1>0. USE ActorFacts
<1>1. CASE UNCHANGED vars
  <2>1. /\ UNCHANGED <<handler, owned, running, lastId, id, listed, map, cached, statMutex>>
        /\ UNCHANGED <<nThreads, todo, active, stats, context, pc, job>>
        /\ UNCHANGED <<exported, logged, lost>>
    BY <1>1 DEF vars, lifeVars, hostVars, sweepVars, sumVars
  <2>2. HandlerTypes' BY <2>1 DEF IInv, HandlerTypes
  <2>3. IdInv' /\ MapInv' BY <2>1 DEF IInv, IdInv, MapInv, Has, InCallOf
  <2>4. ContextInv' /\ JobInv'
    BY <2>1 DEF IInv, ContextInv, JobInv, JobOK, InCallOf, Has, Open
  <2>5. EmptyInv' BY <2>1 DEF IInv, EmptyInv, Has, Nothing, Empty, Swept
  <2>6. DestroyInv'
    BY <2>1 DEF IInv, DestroyInv, DestroyOK, Destroys, Nothing, Empty, Swept, Open
  <2>7. CallsConserved' BY <2>1, SameBalance DEF sumVars
  <2> QED BY <2>2, <2>3, <2>4, <2>5, <2>6, <2>7 DEF IInv
<1>2. CASE Environment
  BY <1>2, StartThreadStep, ThreadExitStep, GetContextStep, FreeContextStep, TickStep,
     DropHandlerStep
  DEF Environment
<1>3. ASSUME NEW a \in Actors, Step(a) PROVE IInv'
  <2>1. CASE SweepStep(a)
    BY <2>1, EndConsolidateStep, ConsolidateStatsStep DEF SweepStep
  <2>2. CASE DestroyStep(a)
    <3>1. CASE Shutdown(a)
      BY <3>1, DestructorMoves DEF Shutdown, lifeVars
    <3>2. CASE Join(a)
      <4>1. a # Scheduler BY <3>2 DEF Join
      <4> QED BY <3>2, <4>1, DestructorMoves DEF Join, lifeVars
    <3>3. CASE DestroyHandler(a) BY <3>3, DestroyHandlerStep
    <3> QED BY <2>2, <3>1, <3>2, <3>3 DEF DestroyStep
  <2>3. CASE a \in Threads /\ CallStep(a)
    BY <2>3, NewAggregatorStep, FindStatsStep, AddStatsStep, MakeContextStep,
       LogContextDataStep
    DEF CallStep
  <2>4. CASE a \in Threads /\ ExitStep(a)
    BY <2>4, LockWeakStep, EndExitConsolidateStep, DeleteMapStep DEF ExitStep
  <2> QED BY <1>3, <2>1, <2>2, <2>3, <2>4 DEF Step
<1>4. ASSUME NEW a \in Actors, Acquire(a) PROVE IInv'
  BY <1>4, ConsolidateStep, ExitConsolidateStep DEF Acquire
<1> QED BY <1>1, <1>2, <1>3, <1>4 DEF Next

\* The inductive invariant holds in every reachable state.
THEOREM HandlerInvariant == Spec => []IInv
  BY InitIInv, NextIInv, PTL DEF Spec

\* Every call that was logged is exported, still held by a thread, or was
\* dropped with a thread that exited during the destructor.
THEOREM CallsAreConserved == Spec => []CallsConserved
<1>1. IInv => CallsConserved BY DEF IInv
<1> QED BY <1>1, HandlerInvariant, PTL

\* The stats that a call uses are in the map of its own thread and are the
\* function's, whether they came from the context, the cache or the map.
THEOREM StatsAlwaysOutliveUse == Spec => []StatsOutliveUse
<1>1. IInv => StatsOutliveUse
  <2> SUFFICES ASSUME IInv, NEW t \in Threads, pc[t] = "use"
               PROVE  Valid(job[t].target) /\ job[t].target.fn = job[t].fn
    BY DEF StatsOutliveUse
  <2>1. /\ job[t].target = [place |-> t, id |-> id[t], fn |-> job[t].fn]
        /\ Has(t, job[t].fn)
    BY DEF IInv, JobInv, JobOK
  <2>2. /\ job[t].target.place = t /\ job[t].target.id = id[t]
        /\ job[t].target.fn = job[t].fn
    BY <2>1
  <2> QED BY <2>1, <2>2 DEF Valid, Has
<1> QED BY <1>1, HandlerInvariant, PTL

\* In the destructor nobody else uses the handler, and what its maps still
\* hold when they are deleted has been exported: only the exit of a thread
\* loses calls then.
THEOREM DestructorIsExclusive == Spec => []DestroyInv
<1>1. IInv => DestroyInv BY DEF IInv
<1> QED BY <1>1, HandlerInvariant, PTL
=============================================================================
