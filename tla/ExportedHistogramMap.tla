------------------------ MODULE ExportedHistogramMap ------------------------
(***************************************************************************)
(* ExportedHistogramMap and HistogramExporter (fb303/ExportedHistogramMap  *)
(* .h, .cpp, HistogramExporter.cpp), with the thread-cached TLHistogram    *)
(* and HistogramWrapper that find their histograms in it.                  *)
(*                                                                         *)
(* A call is a list of pieces (call.todo), each a step or two.  Every      *)
(* piece looks the name up on its own, under the lock of the map, and uses *)
(* the histogram it found afterwards, when the map may hold another one or *)
(* none.  A histogram is the number of its values; a name's callbacks for  *)
(* buckets (strings) and percentiles (counters) are one each.              *)
(***************************************************************************)
EXTENDS Integers, FiniteSets, Sequences

CONSTANTS Threads,   \* threads that use the map
          Names,     \* names of histograms
          MaxCalls,  \* bound on the number of calls
          MaxHists,  \* bound on the histograms ever in the map
          None       \* no thread, no name

ASSUME HistogramAssumption == /\ MaxCalls \in Nat /\ MaxHists \in Nat
                              /\ None \notin Threads \cup Names /\ IsFiniteSet(Threads)

VARIABLES
    histMap,    \* histMap_: each name's histogram, Absent or Null
    mapLock,    \* the thread that has histMap_'s lock exclusively, or None
    made,       \* histograms made so far; they are numbered
    count,      \* each histogram: values in it
    strings,    \* each name: the histogram its bucket callback reads, or Absent
    counters,   \* each name: the one its percentile callback reads, or Absent
    cached,     \* each thread and name: its TLHistogram, [hist, n], or NoCache
    once,       \* each name: HistogramWrapper::once_
    call,       \* each thread: name, pieces left and the histogram found
    pc,         \* each thread: where in the piece it is
    calls,      \* calls begun
    accepted,   \* history: each name: values added to some histogram
    cleared,    \* history: each name: values cleared from one
    forgotten,  \* history: names forgotten since they were first added
    crashed     \* history: names whose wrapper dereferenced a null pointer

mapVars == <<histMap, mapLock, made, count>>
exportVars == <<strings, counters>>
tlVars == <<cached, once, crashed>>
sumVars == <<accepted, cleared, forgotten>>
vars == <<mapVars, exportVars, tlVars, sumVars, call, pc, calls>>

Absent == 0
Null == -1
NoCache == [hist |-> Absent, n |-> 0]
NoCall == [name |-> None, todo |-> <<>>, item |-> Absent]

Init ==
    /\ histMap = [n \in Names |-> Absent] /\ mapLock = None /\ made = 0
    /\ count = [h \in 1..MaxHists |-> 0]
    /\ strings = histMap /\ counters = histMap
    /\ cached = [t \in Threads |-> [n \in Names |-> NoCache]]
    /\ once = [n \in Names |-> "new"]
    /\ call = [t \in Threads |-> NoCall] /\ pc = [t \in Threads |-> "idle"] /\ calls = 0
    /\ accepted = [n \in Names |-> 0] /\ cleared = accepted
    /\ forgotten = {} /\ crashed = {}

(******************************* the calls *********************************)
\* The pieces of each call: addHistogram(prototype), addHistogram(width, ...),
\* addValues() with percentiles, exportStat() and unexportStat() with a type or
\* a percentile, addValue() or addValues(), clearHistogram(), TLHistogram's
\* constructor with a shape.
Pieces == [addHistogram |-> <<"getOrCreate">>,
           addHistogramShape |-> <<"emplace">>,
           addValuesExported |-> <<"getOrCreate", "exportIfMade", "addValue">>,
           export |-> <<"export">>, unexport |-> <<"unexport">>,
           addValue |-> <<"addValue">>, clear |-> <<"clear">>,
           tlHistogram |-> <<"getOrCreate", "attach">>]

Begin(t, n, todo) ==
    /\ pc[t] = "idle" /\ calls < MaxCalls
    /\ calls' = calls + 1
    /\ call' = [call EXCEPT ![t] = [name |-> n, todo |-> todo, item |-> Absent]]
    /\ pc' = [pc EXCEPT ![t] = "piece"]

CallMap(t, n, op) ==
    Begin(t, n, Pieces[op]) /\ UNCHANGED <<mapVars, exportVars, tlVars, sumVars>>

At(t, piece) == pc[t] = "piece" /\ call[t].todo # <<>> /\ Head(call[t].todo) = piece
Stay(t, where, item) ==
    /\ pc' = [pc EXCEPT ![t] = where]
    /\ call' = [call EXCEPT ![t].item = item]
    /\ UNCHANGED calls

\* The piece is done and `rest` are left.
Go(t, rest) ==
    /\ pc' = [pc EXCEPT ![t] = IF rest = <<>> THEN "idle" ELSE "piece"]
    /\ call' = [call EXCEPT ![t] = IF rest = <<>> THEN NoCall ELSE [@ EXCEPT !.todo = rest]]
    /\ UNCHANGED calls
Done(t) == Go(t, Tail(call[t].todo))

Name(t) == call[t].name
MapFree == mapLock = None

(************************ making a histogram *******************************)
\* wasCreated is false: addValues() exports no percentiles.
FoundOld(t) ==
    LET left == Tail(call[t].todo)
        rest == IF left # <<>> /\ Head(left) = "exportIfMade" THEN Tail(left) ELSE left
    IN /\ pc' = [pc EXCEPT ![t] = IF rest = <<>> THEN "idle" ELSE "piece"]
       /\ call' = [call EXCEPT ![t] = IF rest = <<>> THEN NoCall
                        ELSE [@ EXCEPT !.item = histMap[Name(t)], !.todo = rest]]
       /\ UNCHANGED calls

\* getOrCreateUnlocked(): a look with the shared lock.
LookUp(t) ==
    /\ At(t, "getOrCreate") /\ MapFree
    /\ IF histMap[Name(t)] # Absent
       THEN FoundOld(t)
       ELSE Stay(t, "insert", Absent)
    /\ UNCHANGED <<mapVars, exportVars, tlVars, sumVars>>

\* Mutant: the new one replaces what another thread inserted.
InsertOver(t) ==
    /\ pc[t] = "insert" /\ MapFree /\ made < MaxHists
    /\ made' = made + 1
    /\ histMap' = [histMap EXCEPT ![Name(t)] = made']
    /\ Stay(t, "buckets", made')
    /\ UNCHANGED <<mapLock, count, exportVars, tlVars, sumVars>>

\* The new one goes in under the exclusive lock, unless there is one by now.
Insert(t) ==
    /\ pc[t] = "insert" /\ MapFree
    /\ \/ /\ histMap[Name(t)] = Absent /\ made < MaxHists
          /\ made' = made + 1
          /\ histMap' = [histMap EXCEPT ![Name(t)] = made']
          /\ Stay(t, "buckets", made')
       \/ /\ histMap[Name(t)] # Absent
          /\ FoundOld(t)
          /\ UNCHANGED <<histMap, made>>
    /\ UNCHANGED <<mapLock, count, exportVars, tlVars, sumVars>>

\* addHistogram(width, min, max): a null pointer first, with the lock kept ...
EmplaceNull(t) ==
    /\ At(t, "emplace") /\ MapFree
    /\ IF histMap[Name(t)] # Absent THEN Done(t) /\ UNCHANGED <<histMap, mapLock>>
       ELSE /\ histMap' = [histMap EXCEPT ![Name(t)] = Null]
            /\ mapLock' = t
            /\ Stay(t, "make", Absent)
    /\ UNCHANGED <<made, count, exportVars, tlVars, sumVars>>

\* Mutant: its buckets are not exported.
MakeHistogramUnexported(t) ==
    /\ pc[t] = "make" /\ made < MaxHists
    /\ made' = made + 1
    /\ histMap' = [histMap EXCEPT ![Name(t)] = made']
    /\ mapLock' = None
    /\ Done(t)
    /\ UNCHANGED <<count, exportVars, tlVars, sumVars>>

\* ... until the histogram is made, ...
MakeHistogram(t) ==
    /\ pc[t] = "make" /\ made < MaxHists
    /\ made' = made + 1
    /\ histMap' = [histMap EXCEPT ![Name(t)] = made']
    /\ mapLock' = None
    /\ Stay(t, "buckets", made')
    /\ UNCHANGED <<count, exportVars, tlVars, sumVars>>

\* Mutant: the null pointer stays in the map.
MakeThrowsKept(t) ==
    /\ pc[t] = "make"
    /\ mapLock' = None
    /\ Go(t, <<>>)
    /\ UNCHANGED <<histMap, made, count, exportVars, tlVars, sumVars>>

\* ... or its constructor throws and SCOPE_FAIL takes the pointer out again.
MakeThrows(t) ==
    /\ pc[t] = "make"
    /\ histMap' = [histMap EXCEPT ![Name(t)] = Absent]
    /\ mapLock' = None
    /\ Go(t, <<>>)
    /\ UNCHANGED <<made, count, exportVars, tlVars, sumVars>>

\* exportBuckets(), without the lock: the callbacks of DynamicStrings.
ExportBuckets(t) ==
    /\ pc[t] = "buckets"
    /\ strings' = [strings EXCEPT ![Name(t)] = call[t].item]
    /\ Done(t)
    /\ UNCHANGED <<mapVars, counters, tlVars, sumVars>>

(************************* using a histogram *******************************)
Finders == {"export", "exportIfMade", "unexport", "addValue", "clear"}

\* getHistogramUnlocked(): nothing is done about a name that is not there.
Find(t) ==
    /\ \E p \in Finders : At(t, p)
    /\ MapFree
    /\ IF histMap[Name(t)] = Absent THEN Done(t) ELSE Stay(t, "use", histMap[Name(t)])
    /\ UNCHANGED <<mapVars, exportVars, tlVars, sumVars>>

\* What is done with it, under its own lock or that of the dynamic counters.
Use(t) ==
    LET n == Name(t)
        h == call[t].item
        piece == Head(call[t].todo)
    IN /\ pc[t] = "use"
       /\ \/ /\ piece \in {"export", "exportIfMade"}
             /\ counters' = [counters EXCEPT ![n] = h]
             /\ UNCHANGED <<count, accepted, cleared>>
          \/ /\ piece = "unexport"
             /\ counters' = [counters EXCEPT ![n] = Absent]
             /\ UNCHANGED <<count, accepted, cleared>>
          \/ /\ piece = "addValue"
             /\ count' = [count EXCEPT ![h] = @ + 1]
             /\ accepted' = [accepted EXCEPT ![n] = @ + 1]
             /\ UNCHANGED <<counters, cleared>>
          \/ /\ piece = "clear"
             /\ count' = [count EXCEPT ![h] = 0]
             /\ cleared' = [cleared EXCEPT ![n] = @ + count[h]]
             /\ UNCHANGED <<counters, accepted>>
       /\ Done(t)
       /\ UNCHANGED <<histMap, mapLock, made, strings, tlVars, forgotten>>

\* clearAllHistograms(): every histogram of the map, with the map locked.
ClearAllHistograms(t) ==
    /\ pc[t] = "idle" /\ calls < MaxCalls /\ calls' = calls + 1 /\ MapFree
    /\ count' = [h \in DOMAIN count |->
            IF \E n \in Names : histMap[n] = h THEN 0 ELSE count[h]]
    /\ cleared' = [n \in Names |->
            cleared[n] + IF histMap[n] = Absent THEN 0 ELSE count[histMap[n]]]
    /\ UNCHANGED <<histMap, mapLock, made, exportVars, tlVars, call, pc, accepted, forgotten>>

\* forgetHistogramsFor() and forgetAllHistograms(): from the map only.
Forget(t, ns) ==
    /\ pc[t] = "idle" /\ calls < MaxCalls /\ calls' = calls + 1 /\ MapFree
    /\ histMap' = [n \in Names |-> IF n \in ns THEN Absent ELSE histMap[n]]
    /\ forgotten' = forgotten \cup ns
    /\ UNCHANGED <<mapLock, made, count, exportVars, tlVars, call, pc, accepted, cleared>>

(*********************** thread-cached histograms **************************)
\* TLHistogramT(stats, name, width, min, max): on the histogram just found.
Attach(t) ==
    /\ At(t, "attach")
    /\ cached' = [cached EXCEPT ![t][Name(t)] =
            IF @.hist = Absent THEN [hist |-> call[t].item, n |-> 0] ELSE @]
    /\ Done(t)
    /\ UNCHANGED <<mapVars, exportVars, once, crashed, sumVars>>

AddCached(t, n, h) ==
    /\ cached' = [cached EXCEPT ![t][n] = [hist |-> h, n |-> @.n + 1]]
    /\ accepted' = [accepted EXCEPT ![n] = @ + 1]

\* ThreadLocalStatsMap::addHistogramValue(): ignored if nobody has added the
\* histogram, looked up again at the next call.
AddHistogramValue(t, n) ==
    /\ pc[t] = "idle" /\ calls < MaxCalls /\ calls' = calls + 1
    /\ \/ cached[t][n].hist # Absent /\ AddCached(t, n, cached[t][n].hist)
       \/ /\ cached[t][n].hist = Absent /\ MapFree
          /\ IF histMap[n] = Absent THEN UNCHANGED <<cached, accepted>>
             ELSE AddCached(t, n, histMap[n])
    /\ UNCHANGED <<mapVars, exportVars, once, crashed, call, pc, cleared, forgotten>>

\* TLHistogramT::aggregate(), by whoever publishes: nothing unless dirty_.
Aggregate(t, n) ==
    /\ cached[t][n].n > 0
    /\ count' = [count EXCEPT ![cached[t][n].hist] = @ + cached[t][n].n]
    /\ cached' = [cached EXCEPT ![t][n].n = 0]
    /\ UNCHANGED <<histMap, mapLock, made, exportVars, once, crashed, sumVars, call, pc, calls>>

\* HistogramSpec::apply(), which doApplySpecLocked() calls, and what comes after it
ApplySpec == <<"getOrCreate", "export", "applied", "get">>

\* Mutant: once_ is set before the spec is applied.
WrapperAddUnordered(t, n) ==
    /\ \/ /\ once[n] = "done"
          /\ Begin(t, n, <<"get">>) /\ UNCHANGED once
       \/ /\ once[n] = "new"
          /\ Begin(t, n, ApplySpec)
          /\ once' = [once EXCEPT ![n] = "done"]
    /\ UNCHANGED <<mapVars, exportVars, cached, crashed, sumVars>>

\* HistogramWrapper::add(): tcHistogramSlow(), where one thread applies the spec
\* and the others wait for it.  A thread that has tlHistogram_ has been there,
\* so once_ is done and it has the histogram in cached too.
WrapperAdd(t, n) ==
    /\ \/ /\ once[n] = "done"
          /\ Begin(t, n, <<"get">>) /\ UNCHANGED once
       \/ /\ once[n] = "new"
          /\ Begin(t, n, ApplySpec)
          /\ once' = [once EXCEPT ![n] = "running"]
    /\ UNCHANGED <<mapVars, exportVars, cached, crashed, sumVars>>

\* doApplySpecLocked() has returned.
Applied(t) ==
    /\ At(t, "applied")
    /\ once' = [once EXCEPT ![Name(t)] = "done"]
    /\ Done(t)
    /\ UNCHANGED <<mapVars, exportVars, cached, crashed, sumVars>>

\* getHistogramSafe(), and addValue() on what it returned: a null pointer if
\* the map no longer has the histogram.
GetHistogramSafe(t) ==
    LET n == Name(t)
        h == IF cached[t][n].hist # Absent THEN cached[t][n].hist ELSE histMap[n]
    IN /\ At(t, "get") /\ (cached[t][n].hist = Absent => MapFree)
       /\ IF h = Absent THEN crashed' = crashed \cup {n} /\ UNCHANGED <<cached, accepted>>
          ELSE AddCached(t, n, h) /\ UNCHANGED crashed
       /\ Done(t)
       /\ UNCHANGED <<mapVars, exportVars, once, cleared, forgotten>>

(***************************** specification *******************************)
Step(t) ==
    \/ LookUp(t) \/ Insert(t) \/ EmplaceNull(t) \/ MakeHistogram(t) \/ MakeThrows(t)
    \/ ExportBuckets(t) \/ Find(t) \/ Use(t)
    \/ Attach(t) \/ Applied(t) \/ GetHistogramSafe(t)
    \/ \E n \in Names : Aggregate(t, n)

Next ==
    \E t \in Threads :
        \/ Step(t)
        \/ \E n \in Names, op \in DOMAIN Pieces : CallMap(t, n, op)
        \/ \E n \in Names : AddHistogramValue(t, n) \/ WrapperAdd(t, n)
        \/ ClearAllHistograms(t)
        \/ \E ns \in {{n} : n \in Names} \cup {Names} : Forget(t, ns)

Spec == Init /\ [][Next]_vars

(****************************** properties *********************************)
\* The values the threads have cached, each a pair of its thread and its number.
Pending(n) == Cardinality(UNION {{t} \X (1 .. cached[t][n].n) : t \in Threads})

\* The null pointer addHistogram() reserves a name with is never in the map
\* when another thread can look, whether the histogram is made or its constructor
\* throws (cpp:110): addHistogram() would fail a CHECK at it (cpp:68) and
\* clearAllHistograms() would dereference it (cpp:205).
NullHidden == \A n \in Names : histMap[n] = Null => mapLock # None

\* As long as a histogram is not forgotten, all its values are in the one the
\* map has, or in a thread's cache on their way there: no thread is left with
\* a histogram of its own after several made one at the same time.
NoValueAside ==
    \A n \in Names \ forgotten :
        accepted[n] - cleared[n] =
            Pending(n) + IF histMap[n] > 0 THEN count[histMap[n]] ELSE 0

\* And what the exported names show is that histogram; its buckets are shown
\* as soon as whoever made it has returned.
ExportsFollowMap ==
    \A n \in Names \ forgotten :
        /\ counters[n] \in {Absent, histMap[n]}
        /\ strings[n] # histMap[n] =>
            histMap[n] = Null \/ \E t \in Threads : Name(t) = n /\ pc[t] = "buckets"

\* HistogramWrapper::add() has a histogram to add to, even where another
\* thread is still applying the spec, unless it was forgotten.
WrapperHasHistogram == crashed \subseteq forgotten
=============================================================================
