---------------------------- MODULE ServiceProofs ---------------------------
(***************************************************************************)
(* Proofs about BaseService and ServiceSettings, for any number of         *)
(* threads, of threads of the executor, of counters, options and exported  *)
(* values, and of calls: every request is answered once, the answer to one *)
(* for counters holds what was there all along, and what was set last has  *)
(* taken effect.                                                           *)
(***************************************************************************)
EXTENDS BaseService, FiniteSetTheorems, SequenceTheorems, TLAPS

-----------------------------------------------------------------------------
(***************************************************************************)
(* The invariant of the settings                                           *)
(***************************************************************************)
OptionSteps == {"findDynamic", "storeOption", "setFlag"}
FillSteps == {"tryFill", "insert", "fill"}
DeleteSteps == {"upgrade", "erase"}
Steps == {"idle", "resetExported"} \cup OptionSteps \cup FillSteps \cup DeleteSteps

SettingsTypes ==
    /\ call \in [Threads -> [pc : Steps, key : Settings \cup {None}, text : Texts \cup {None}]]
    /\ options \in [OptionNames -> Texts \cup {None}]
    /\ dynamicOptions \subseteq OptionNames
    /\ getters \subseteq dynamicOptions /\ setters \subseteq dynamicOptions
    /\ given \in [OptionNames -> Texts \cup {None}]
    /\ flags \in [OptionNames -> Texts \cup {DefaultText, None}]
    /\ vlogs \in BOOLEAN /\ useOptionsAsFlags \in BOOLEAN
    /\ exported \in [ExportedKeys -> Texts \cup {Empty, None}]
    /\ upgrader \in Threads \cup {None}
    /\ lastSet \in [Settings -> Texts \cup {None}]
    /\ overlapped \subseteq Threads

\* What a thread has in hand at each step
CallOK(t) ==
    /\ At(t, "idle") => call[t].key = None
    /\ At(t, "resetExported") => call[t].key = None
    /\ call[t].pc \in OptionSteps => call[t].key \in OptionNames /\ call[t].text \in Texts
    /\ call[t].pc \in FillSteps => call[t].key \in ExportedKeys /\ call[t].text \in Texts
    /\ call[t].pc \in DeleteSteps => call[t].key \in ExportedKeys

CallInv == \A t \in Threads : CallOK(t)

\* Two calls for one key know of each other.
OverlapInv ==
    \A t, u \in Threads :
        t # u /\ call[t].key = call[u].key /\ call[t].key # None => t \in overlapped

\* What setOptionWithResult() found under one lock is still so under the next,
\* unless another call for the option has come in between.
StoreOK(t) ==
    t \notin overlapped =>
        /\ call[t].pc \in {"storeOption", "setFlag"} => call[t].key \notin dynamicOptions
        /\ At(t, "setFlag") => options[call[t].key] = call[t].text

StoreInv == \A t \in Threads : StoreOK(t)

\* The parts of SettingsTakeEffect for one key
OptionOK(key) ==
    (lastSet[key] # None /\ Users(key) = {}) =>
        IF key \in dynamicOptions
        THEN key \in setters /\ given[key] = lastSet[key]
        ELSE /\ OptionTexts(key) = {lastSet[key]}
             /\ (key \in Whitelisted /\ lastSet[key] \notin Invalid) =>
                   flags[key] = lastSet[key] /\ vlogs

ExportedOK(key) ==
    /\ (lastSet[key] # None /\ Users(key) = {}) => exported[key] = lastSet[key]
    /\ exported[key] = Empty => \E t \in Filling : call[t].key = key
    /\ \A t \in Filling : call[t].key = key => exported[key] # None

SettingsInv ==
    /\ SettingsTypes /\ CallInv /\ OverlapInv /\ StoreInv
    /\ \A key \in OptionNames : OptionOK(key)
    /\ \A key \in ExportedKeys : ExportedOK(key)

-----------------------------------------------------------------------------
(***************************************************************************)
(* The invariant of the requests                                           *)
(***************************************************************************)
Counters == Maps \X Keys

Req == [id : Requests, op : {"all", "selected", "regex"}, pattern : SUBSET Keys,
        limit : Limits]

Check == <<"check", None>>
Last == <<"reply", None>>
LambdaSteps == {Check, Last} \cup {<<"keys", m>> : m \in Maps}
                   \cup {<<"read", m, ks>> : m \in Maps, ks \in SUBSET Keys}

Lambda == [req : Req \cup {None}, todo : Seq(LambdaSteps), keys : SUBSET Keys,
           res : SUBSET Counters, available : Nat \cup {None},
           outcome : {None, "timeout", "exception", "result"},
           steady : SUBSET Counters, seen : SUBSET Counters]

Busy(w) == worker[w].todo # <<>>

ServiceTypes ==
    /\ calls \in 0 .. MaxCalls
    /\ counters \subseteq Counters
    /\ queue \in Seq(Req)
    /\ worker \in [Workers -> Lambda]
    /\ expires \in BOOLEAN
    /\ replies \in [Requests -> {None, 0, 1}]
    /\ service \in {"up", "closing", "gone"}

\* A lambda is there until it has answered and is released.
WorkerOK(w) ==
    \/ worker[w] = Resting
    \/ worker[w].req \in Req /\ (Busy(w) <=> worker[w].outcome = None)

\* A request that waits or is worked on is there once, and has no answer yet.
RequestInv ==
    /\ \A r \in Requests : r > calls => replies[r] = None
    /\ \A i \in DOMAIN queue : replies[queue[i].id] = 0
    /\ \A i, j \in DOMAIN queue : queue[i].id = queue[j].id => i = j
    /\ \A w \in Workers : Busy(w) => replies[Running(w).id] = 0
    /\ \A w \in Workers : Busy(w) => \A i \in DOMAIN queue : queue[i].id # Running(w).id
    /\ \A v, w \in Workers : Busy(v) /\ Busy(w) /\ Running(v).id = Running(w).id => v = w

\* The steps left of a lambda: the keys are collected before the maps are read,
\* and the answer comes last.
TodoOK(todo) ==
    /\ todo[Len(todo)] = Last
    /\ \A i, j \in DOMAIN todo : i < j =>
          /\ todo[i] # Last
          /\ todo[i][1] = "read" => todo[j][1] # "keys"

\* The counters a lambda has in its output, or will look at
Names(pairs) == {p[2] : p \in pairs}

\* No name has two values in the output map.
OnePerName(pairs) == \A p, q \in pairs : p[2] = q[2] => p = q

WillRead(todo, c) ==
    \E i \in DOMAIN todo : \E ks \in SUBSET Keys : todo[i] = <<"read", c[1], ks>> /\ c[2] \in ks

WillCollect(todo, m) == \E i \in DOMAIN todo : todo[i] = <<"keys", m>>

LambdaOK(l) ==
    /\ TodoOK(l.todo)
    /\ l.res \subseteq l.seen /\ Names(l.res) \subseteq l.req.pattern /\ OnePerName(l.res)
    /\ l.req.op = "all" => l.req.pattern = Keys
    /\ l.req.op = "selected" => l.keys = l.req.pattern
    /\ l.keys \subseteq l.req.pattern
    /\ \A c \in l.steady : c[2] \in l.req.pattern =>
          /\ l.req.op = "regex" => c[2] \in l.keys \/ WillCollect(l.todo, c[1])
          /\ WillRead(l.todo, c) \/ c[2] \in Names(l.res)

\* What CountersReported says of a lambda that has answered
Reported(l) ==
    LET due     == Names(l.steady) \cap l.req.pattern
        got     == Names(l.res)
        missing == due \ got
    IN  /\ l.res \subseteq l.seen /\ got \subseteq l.req.pattern
        /\ Cardinality(got) = Cardinality(l.res)
        /\ l.req.limit = None => missing = {}
        /\ l.req.limit # None =>
              /\ Cardinality(got) <= l.req.limit
              /\ l.available \in Nat /\ l.available >= Cardinality(due \cup got)
              /\ missing # {} => Cardinality(got) = l.req.limit
              /\ \A m \in missing, g \in got : g < m

ReadInv ==
    \A w \in Workers :
        /\ Busy(w) => /\ worker[w].steady \subseteq counters
                      /\ counters \subseteq worker[w].seen
                      /\ LambdaOK(worker[w])
        /\ worker[w].outcome = "result" => Reported(worker[w])

\* A request for every counter has the pattern that matches all of them.
QueueInv == \A i \in DOMAIN queue : queue[i].op = "all" => queue[i].pattern = Keys

ServiceInv ==
    /\ ServiceTypes
    /\ \A w \in Workers : WorkerOK(w)
    /\ RequestInv /\ AnsweredOnce /\ QueueInv /\ ReadInv

IInv == SettingsInv /\ ServiceInv

-----------------------------------------------------------------------------
(***************************************************************************)
(* What was set last has taken effect                                      *)
(***************************************************************************)
CallType == [pc : Steps, key : Settings \cup {None}, text : Texts \cup {None}]

\* A step of t leaves every key but K as it was.
Around(t, K) ==
    /\ \A u \in Threads \ {t} : /\ call'[u] = call[u]
                                /\ u \in overlapped => u \in overlapped'
                                /\ call[u].key = K => u \in overlapped'
    /\ call[t].key \in {K, None} /\ call'[t].key \in {K, None}
    /\ \A k \in Settings \ {K} : lastSet'[k] = lastSet[k]
    /\ \A k \in OptionNames \ {K} : /\ options'[k] = options[k] /\ flags'[k] = flags[k]
                                    /\ given'[k] = given[k]
                                    /\ k \in dynamicOptions' <=> k \in dynamicOptions
                                    /\ k \in getters' <=> k \in getters
                                    /\ k \in setters' <=> k \in setters
    /\ \A k \in ExportedKeys \ {K} : exported'[k] = exported[k]
    /\ vlogs => vlogs'

\* A step at one key keeps the invariant, if it keeps its parts for that key and
\* for the thread that takes it.
LEMMA KeyStep ==
    ASSUME SettingsInv, NEW t \in Threads, NEW K \in Settings, Around(t, K),
           SettingsTypes', OverlapInv', CallOK(t)', StoreOK(t)',
           K \in OptionNames => OptionOK(K)', K \in ExportedKeys => ExportedOK(K)'
    PROVE  SettingsInv'
<1> USE SettingsAssumption DEF Around, Settings
<1>0. SettingsTypes /\ CallInv /\ StoreInv
  BY DEF SettingsInv
<1>1. CallInv'
  <2> SUFFICES ASSUME NEW u \in Threads, u # t PROVE CallOK(u)'
    BY DEF CallInv
  <2>1. CallOK(u) /\ call'[u] = call[u]
    BY <1>0 DEF CallInv
  <2> QED
    BY <2>1 DEF CallOK, At
<1>2. StoreInv'
  <2> SUFFICES ASSUME NEW u \in Threads, u # t, u \notin overlapped' PROVE StoreOK(u)'
    BY DEF StoreInv, StoreOK
  <2>1. StoreOK(u) /\ CallOK(u) /\ call'[u] = call[u] /\ call[u].key # K /\ u \notin overlapped
    BY <1>0 DEF StoreInv, CallInv
  <2>2. CASE call[u].pc \in {"storeOption", "setFlag"}
    <3>1. call[u].key \in OptionNames \ {K}
      BY <2>1, <2>2 DEF CallOK, OptionSteps
    <3> QED
      BY <2>1, <3>1 DEF StoreOK, At
  <2> QED
    BY <2>1, <2>2 DEF StoreOK, At
<1>3. \A k \in Settings \ {K} : Users(k)' = Users(k)
  <2> SUFFICES ASSUME NEW k \in Settings, k # K, NEW u \in Threads
               PROVE  call'[u].key = k <=> call[u].key = k
    BY DEF Users
  <2> QED
    OBVIOUS
<1>4. ASSUME NEW k \in OptionNames, k # K PROVE OptionOK(k)'
  <2>1. OptionOK(k)
    BY DEF SettingsInv
  <2> QED
    BY <2>1, <1>3, <1>4 DEF OptionOK, OptionTexts
<1>5. ASSUME NEW k \in ExportedKeys, k # K PROVE ExportedOK(k)'
  <2>1. ExportedOK(k)
    BY DEF SettingsInv
  <2>2. \A u \in Threads : u \in Filling' /\ call'[u].key = k <=> u \in Filling /\ call[u].key = k
    BY <1>5 DEF Filling, At
  <2>3. exported'[k] = exported[k] /\ lastSet'[k] = lastSet[k] /\ Users(k)' = Users(k)
    BY <1>3, <1>5
  <2>4. Filling \subseteq Threads /\ Filling' \subseteq Threads
    BY DEF Filling
  <2> QED
    BY <2>1, <2>2, <2>3, <2>4 DEF ExportedOK
<1> QED
  BY <1>1, <1>2, <1>4, <1>5 DEF SettingsInv

\* A call begins: it and the other calls for its key know of each other.
LEMMA BeginKeeps ==
    ASSUME SettingsInv, NEW t \in Threads, NEW label \in Steps, NEW K \in Settings,
           NEW text \in Texts \cup {None}, Begin(t, label, K, text),
           UNCHANGED <<optionVars, exportedVars>>
    PROVE  /\ SettingsTypes' /\ OverlapInv' /\ Around(t, K) /\ lastSet'[K] = None
           /\ call'[t] = [pc |-> label, key |-> K, text |-> text]
           /\ Users(K)' # {}
<1> USE SettingsAssumption DEF Settings
<1>0. /\ SettingsTypes /\ CallOK(t) /\ OverlapInv
  BY DEF SettingsInv, CallInv
<1> DEFINE c == [pc |-> label, key |-> K, text |-> text]
<1>1. c \in CallType /\ c.key = K
  BY DEF CallType
<1> HIDE DEF c
<1>2. call' = [call EXCEPT ![t] = c] /\ call[t].key = None /\ K # None
  BY <1>0 DEF Begin, CallOK, c
<1>3. call' \in [Threads -> CallType] /\ call'[t] = c
      /\ \A u \in Threads \ {t} : call'[u] = call[u]
  BY <1>0, <1>1, <1>2 DEF SettingsTypes, CallType
<1>4. Users(K) \subseteq Threads /\ t \notin Users(K)
  BY <1>2 DEF Users
<1>5. \A u \in Users(K) : u \in overlapped' /\ t \in overlapped'
  BY DEF Begin
<1>6. overlapped \subseteq overlapped' /\ overlapped' \subseteq Threads
  BY <1>0, <1>4 DEF Begin, SettingsTypes
<1>7. /\ lastSet' \in [Settings -> Texts \cup {None}]
      /\ lastSet'[K] = None /\ \A k \in Settings \ {K} : lastSet'[k] = lastSet[k]
  BY <1>0 DEF Begin, SettingsTypes
<1>8. SettingsTypes'
  BY <1>0, <1>3, <1>6, <1>7 DEF SettingsTypes, CallType, optionVars, dynamicVars, exportedVars
<1>9. OverlapInv'
  <2> SUFFICES ASSUME NEW u \in Threads, NEW x \in Threads, u # x, call'[u].key = call'[x].key,
                      call'[u].key # None
               PROVE  u \in overlapped'
    BY DEF OverlapInv
  <2>1. CASE u = t \/ x = t
    <3>1. PICK y \in {u, x} : y # t /\ call[y].key = K
      BY <1>1, <1>3, <2>1
    <3> QED
      BY <3>1, <1>5, <2>1 DEF Users
  <2>2. CASE u # t /\ x # t
    BY <2>2, <1>0, <1>3, <1>6 DEF OverlapInv
  <2> QED
    BY <2>1, <2>2
<1>10. Around(t, K)
  BY <1>1, <1>2, <1>3, <1>5, <1>6, <1>7 DEF Around, optionVars, dynamicVars, exportedVars, Users
<1> QED
  BY <1>1, <1>3, <1>7, <1>8, <1>9, <1>10 DEF Users, c

\* The next step of a call: nothing is known of it that was not before.
LEMMA GotoKeeps ==
    ASSUME SettingsInv, NEW t \in Threads, NEW label \in Steps, call[t].key \in Settings,
           Goto(t, label), UNCHANGED <<lastSet, overlapped>>
    PROVE  /\ call' \in [Threads -> CallType] /\ OverlapInv'
           /\ call'[t].pc = label /\ call'[t].key = call[t].key /\ call'[t].text = call[t].text
           /\ \A u \in Threads \ {t} : /\ call'[u] = call[u]
                                       /\ call[u].key = call[t].key => u \in overlapped
<1> USE SettingsAssumption DEF Settings
<1>0. SettingsTypes /\ OverlapInv
  BY DEF SettingsInv
<1>1. /\ call' \in [Threads -> CallType]
      /\ call'[t].pc = label /\ call'[t].key = call[t].key /\ call'[t].text = call[t].text
      /\ \A u \in Threads \ {t} : call'[u] = call[u]
  BY <1>0 DEF SettingsTypes, Goto, CallType
<1>2. \A u \in Threads : call'[u].key = call[u].key
  BY <1>1
<1> QED
  BY <1>0, <1>1, <1>2 DEF OverlapInv

\* A call returns: the other calls for its key still know that they overlapped.
LEMMA ReturnKeeps ==
    ASSUME SettingsInv, NEW t \in Threads, call[t].key \in Settings,
           NEW text \in Texts \cup {None}, Return(t, text)
    PROVE  /\ call' \in [Threads -> CallType] /\ OverlapInv' /\ call'[t] = Idle
           /\ overlapped' = overlapped \ {t} /\ overlapped' \subseteq Threads
           /\ \A u \in Threads \ {t} : /\ call'[u] = call[u]
                                       /\ call[u].key = call[t].key => u \in overlapped
           /\ lastSet' \in [Settings -> Texts \cup {None}]
           /\ lastSet'[call[t].key] = IF t \in overlapped THEN None ELSE text
           /\ \A k \in Settings \ {call[t].key} : lastSet'[k] = lastSet[k]
           /\ t \notin Filling' /\ Filling' \subseteq Filling
<1> USE SettingsAssumption DEF Settings
<1>0. SettingsTypes /\ OverlapInv
  BY DEF SettingsInv
<1>1. Idle \in CallType /\ Idle.key = None /\ Idle.pc = "idle"
  BY DEF Idle, CallType, Steps
<1> HIDE DEF Idle
<1>2. call' \in [Threads -> CallType] /\ call'[t] = Idle
      /\ \A u \in Threads \ {t} : call'[u] = call[u]
  BY <1>0, <1>1 DEF SettingsTypes, Return, CallType
<1>3. overlapped' = overlapped \ {t} /\ overlapped' \subseteq Threads
  BY <1>0 DEF SettingsTypes, Return
<1>4. /\ lastSet' \in [Settings -> Texts \cup {None}]
      /\ lastSet'[call[t].key] = IF t \in overlapped THEN None ELSE text
      /\ \A k \in Settings \ {call[t].key} : lastSet'[k] = lastSet[k]
  BY <1>0 DEF SettingsTypes, Return
<1>5. OverlapInv'
  BY <1>0, <1>1, <1>2, <1>3 DEF OverlapInv
<1>6. \A u \in Threads \ {t} : call[u].key = call[t].key => u \in overlapped
  BY <1>0 DEF OverlapInv
<1>7. t \notin Filling' /\ Filling' \subseteq Filling
  BY <1>1, <1>2 DEF Filling, At
<1> QED
  BY <1>2, <1>3, <1>4, <1>5, <1>6, <1>7

\* setOptionWithResult() begins.
LEMMA SetOptionKeeps ==
    ASSUME SettingsInv, NEW t \in Threads, NEW K \in OptionNames, NEW text \in Texts,
           SetOption(t, K, text)
    PROVE  SettingsInv'
<1> USE SettingsAssumption
<1>1. K \in Settings /\ "findDynamic" \in Steps /\ K \notin ExportedKeys
  BY DEF Settings, Steps, OptionSteps
<1>2. Begin(t, "findDynamic", K, text) /\ UNCHANGED <<optionVars, exportedVars>>
  BY DEF SetOption
<1>3. /\ SettingsTypes' /\ OverlapInv' /\ Around(t, K) /\ lastSet'[K] = None
      /\ call'[t] = [pc |-> "findDynamic", key |-> K, text |-> text]
  BY <1>1, <1>2, BeginKeeps
<1>4. CallOK(t)' /\ StoreOK(t)' /\ OptionOK(K)'
  BY <1>3 DEF CallOK, StoreOK, OptionOK, At, OptionSteps, FillSteps, DeleteSteps
<1> QED
  BY <1>1, <1>3, <1>4, KeyStep

\* The dynamic option is looked up, and its setter, if it has one, is called.
LEMMA FindDynamicKeeps ==
    ASSUME SettingsInv, NEW t \in Threads, FindDynamic(t)
    PROVE  SettingsInv'
<1> USE SettingsAssumption
<1>0. SettingsTypes /\ CallOK(t) /\ At(t, "findDynamic")
  BY DEF SettingsInv, CallInv, FindDynamic
<1>1. PICK K \in OptionNames : /\ K = call[t].key /\ K \in Settings /\ K \notin ExportedKeys
                               /\ call[t].text \in Texts
  BY <1>0 DEF CallOK, Settings, At, OptionSteps
<1>2. UNCHANGED <<options, dynamicOptions, getters, setters, flags, vlogs, useOptionsAsFlags,
                  exportedVars>>
  BY DEF FindDynamic
<1>3. CASE K \notin dynamicOptions /\ Goto(t, "storeOption")
           /\ UNCHANGED <<given, lastSet, overlapped>>
  <2>1. "storeOption" \in Steps
    BY DEF Steps, OptionSteps
  <2>2. /\ call' \in [Threads -> CallType] /\ OverlapInv'
        /\ call'[t].pc = "storeOption" /\ call'[t].key = K /\ call'[t].text = call[t].text
        /\ \A u \in Threads \ {t} : call'[u] = call[u] /\ (call[u].key = K => u \in overlapped)
    BY <1>1, <1>3, <2>1, GotoKeeps
  <2>3. SettingsTypes' /\ Around(t, K)
    BY <1>0, <1>1, <1>2, <1>3, <2>2 DEF SettingsTypes, Around, exportedVars, CallType
  <2>4. CallOK(t)' /\ StoreOK(t)'
    BY <1>1, <1>2, <1>3, <2>2 DEF CallOK, StoreOK, At, OptionSteps, FillSteps, DeleteSteps
  <2>5. OptionOK(K)'
    BY <1>1, <2>2 DEF OptionOK, Users
  <2> QED
    BY <1>1, <2>2, <2>3, <2>4, <2>5, KeyStep
<1>4. ASSUME NEW text \in Texts \cup {None}, Return(t, text),
             text # None => K \in setters /\ given'[K] = text,
             given' \in [OptionNames -> Texts \cup {None}],
             \A k \in OptionNames \ {K} : given'[k] = given[k]
      PROVE  SettingsInv'
  <2>1. /\ call' \in [Threads -> CallType] /\ OverlapInv' /\ call'[t] = Idle
        /\ overlapped' = overlapped \ {t} /\ overlapped' \subseteq Threads
        /\ \A u \in Threads \ {t} : call'[u] = call[u] /\ (call[u].key = K => u \in overlapped)
        /\ lastSet' \in [Settings -> Texts \cup {None}]
        /\ lastSet'[K] = IF t \in overlapped THEN None ELSE text
        /\ \A k \in Settings \ {K} : lastSet'[k] = lastSet[k]
    BY <1>1, <1>4, ReturnKeeps
  <2>2. call'[t].key = None /\ call'[t].pc = "idle"
    BY <2>1 DEF Idle
  <2>3. SettingsTypes'
    BY <1>0, <1>2, <1>4, <2>1 DEF SettingsTypes, exportedVars, CallType
  <2>4. Around(t, K)
    BY <1>1, <1>2, <1>4, <2>1, <2>2 DEF Around, exportedVars
  <2>5. CallOK(t)' /\ StoreOK(t)'
    BY <2>2 DEF CallOK, StoreOK, At, OptionSteps, FillSteps, DeleteSteps
  <2>6. OptionOK(K)'
    BY <1>0, <1>2, <1>4, <2>1 DEF OptionOK, SettingsTypes
  <2> QED
    BY <1>1, <2>1, <2>3, <2>4, <2>5, <2>6, KeyStep
<1>5. given \in [OptionNames -> Texts \cup {None}]
  BY <1>0 DEF SettingsTypes
<1>6. CASE Return(t, None) /\ UNCHANGED given
  BY <1>4, <1>5, <1>6
<1>7. CASE K \in setters /\ given' = [given EXCEPT ![K] = call[t].text] /\ Return(t, call[t].text)
  BY <1>1, <1>4, <1>5, <1>7
<1> QED
  BY <1>1, <1>3, <1>6, <1>7 DEF FindDynamic

\* options_ is written, and the flag comes next if there is one to set.
LEMMA StoreOptionKeeps ==
    ASSUME SettingsInv, NEW t \in Threads, StoreOption(t)
    PROVE  SettingsInv'
<1> USE SettingsAssumption
<1>0. SettingsTypes /\ CallOK(t) /\ StoreOK(t) /\ At(t, "storeOption")
  BY DEF SettingsInv, CallInv, StoreInv, StoreOption
<1>1. PICK K \in OptionNames : /\ K = call[t].key /\ K \in Settings /\ K \notin ExportedKeys
                               /\ call[t].text \in Texts
  BY <1>0 DEF CallOK, Settings, At, OptionSteps
<1>2. /\ options' \in [OptionNames -> Texts \cup {None}] /\ options'[K] = call[t].text
      /\ \A k \in OptionNames \ {K} : options'[k] = options[k]
  BY <1>0, <1>1 DEF SettingsTypes, StoreOption
<1>3. UNCHANGED <<dynamicVars, flags, vlogs, useOptionsAsFlags, exportedVars>>
  BY DEF StoreOption
<1>4. t \notin overlapped => K \notin dynamicOptions
  BY <1>0, <1>1 DEF StoreOK, At
<1>5. CASE Goto(t, "setFlag") /\ UNCHANGED <<lastSet, overlapped>>
  <2>1. "setFlag" \in Steps
    BY DEF Steps, OptionSteps
  <2>2. /\ call' \in [Threads -> CallType] /\ OverlapInv'
        /\ call'[t].pc = "setFlag" /\ call'[t].key = K /\ call'[t].text = call[t].text
        /\ \A u \in Threads \ {t} : call'[u] = call[u] /\ (call[u].key = K => u \in overlapped)
    BY <1>1, <1>5, <2>1, GotoKeeps
  <2>3. SettingsTypes' /\ Around(t, K)
    BY <1>0, <1>1, <1>2, <1>3, <1>5, <2>2
       DEF SettingsTypes, Around, dynamicVars, exportedVars, CallType
  <2>4. CallOK(t)' /\ StoreOK(t)'
    BY <1>1, <1>2, <1>3, <1>4, <1>5, <2>2
       DEF CallOK, StoreOK, At, OptionSteps, FillSteps, DeleteSteps, dynamicVars
  <2>5. OptionOK(K)'
    BY <1>1, <2>2 DEF OptionOK, Users
  <2> QED
    BY <1>1, <2>2, <2>3, <2>4, <2>5, KeyStep
<1>6. CASE ~ToFlag(K) /\ Return(t, call[t].text)
  <2>2. /\ call' \in [Threads -> CallType] /\ OverlapInv' /\ call'[t] = Idle
        /\ overlapped' = overlapped \ {t} /\ overlapped' \subseteq Threads
        /\ \A u \in Threads \ {t} : call'[u] = call[u] /\ (call[u].key = K => u \in overlapped)
        /\ lastSet' \in [Settings -> Texts \cup {None}]
        /\ lastSet'[K] = IF t \in overlapped THEN None ELSE call[t].text
        /\ \A k \in Settings \ {K} : lastSet'[k] = lastSet[k]
    BY <1>1, <1>6, ReturnKeeps
  <2>3. call'[t].key = None /\ call'[t].pc = "idle"
    BY <2>2 DEF Idle
  <2>4. SettingsTypes' /\ Around(t, K)
    BY <1>0, <1>1, <1>2, <1>3, <2>2, <2>3
       DEF SettingsTypes, Around, dynamicVars, exportedVars, CallType
  <2>5. CallOK(t)' /\ StoreOK(t)'
    BY <2>3 DEF CallOK, StoreOK, At, OptionSteps, FillSteps, DeleteSteps
  <2>6. K \notin Whitelisted
    BY <1>6, <1>1 DEF ToFlag
  <2>7. OptionOK(K)'
    BY <1>0, <1>1, <1>2, <1>3, <1>4, <2>2, <2>6
       DEF OptionOK, OptionTexts, SettingsTypes, dynamicVars
  <2> QED
    BY <1>1, <2>2, <2>4, <2>5, <2>7, KeyStep
<1> QED
  BY <1>1, <1>5, <1>6 DEF StoreOption

\* The flag is set, and a whitelisted one lowers minloglevel too.
LEMMA SetFlagKeeps ==
    ASSUME SettingsInv, NEW t \in Threads, SetFlag(t)
    PROVE  SettingsInv'
<1> USE SettingsAssumption
<1> DEFINE set == call[t].key \in FlagNames /\ call[t].text \notin Invalid
<1>0. SettingsTypes /\ CallOK(t) /\ StoreOK(t) /\ At(t, "setFlag")
  BY DEF SettingsInv, CallInv, StoreInv, SetFlag
<1>1. PICK K \in OptionNames : /\ K = call[t].key /\ K \in Settings /\ K \notin ExportedKeys
                               /\ call[t].text \in Texts
  BY <1>0 DEF CallOK, Settings, At, OptionSteps
<1>2. /\ flags' \in [OptionNames -> Texts \cup {DefaultText, None}]
      /\ set => flags'[K] = call[t].text
      /\ \A k \in OptionNames \ {K} : flags'[k] = flags[k]
  BY <1>0, <1>1 DEF SettingsTypes, SetFlag
<1>3. /\ UNCHANGED <<options, dynamicVars, useOptionsAsFlags, exportedVars>>
      /\ vlogs' \in BOOLEAN /\ (vlogs => vlogs') /\ (set /\ K \in Whitelisted => vlogs')
      /\ Return(t, call[t].text)
  BY <1>0, <1>1 DEF SetFlag, SettingsTypes
<1>4. t \notin overlapped => K \notin dynamicOptions /\ options[K] = call[t].text
  BY <1>0, <1>1 DEF StoreOK, At
<1>5. /\ call' \in [Threads -> CallType] /\ OverlapInv' /\ call'[t] = Idle
      /\ overlapped' = overlapped \ {t} /\ overlapped' \subseteq Threads
      /\ \A u \in Threads \ {t} : call'[u] = call[u] /\ (call[u].key = K => u \in overlapped)
      /\ lastSet' \in [Settings -> Texts \cup {None}]
      /\ lastSet'[K] = IF t \in overlapped THEN None ELSE call[t].text
      /\ \A k \in Settings \ {K} : lastSet'[k] = lastSet[k]
  BY <1>1, <1>3, ReturnKeeps
<1>6. call'[t].key = None /\ call'[t].pc = "idle"
  BY <1>5 DEF Idle
<1>7. SettingsTypes' /\ Around(t, K)
  BY <1>0, <1>1, <1>2, <1>3, <1>5, <1>6
     DEF SettingsTypes, Around, dynamicVars, exportedVars, CallType
<1>8. CallOK(t)' /\ StoreOK(t)'
  BY <1>6 DEF CallOK, StoreOK, At, OptionSteps, FillSteps, DeleteSteps
<1>9. OptionOK(K)'
  BY <1>0, <1>1, <1>2, <1>3, <1>4, <1>5 DEF OptionOK, OptionTexts, SettingsTypes, dynamicVars
<1> QED
  BY <1>1, <1>5, <1>7, <1>8, <1>9, KeyStep

\* registerDynamicOption(): calls for the option that are under way overlap it.
LEMMA RegisterKeeps ==
    ASSUME SettingsInv, NEW t \in Threads, NEW K \in OptionNames, NEW gettable \in BOOLEAN,
           NEW settable \in BOOLEAN, RegisterDynamicOption(t, K, gettable, settable)
    PROVE  SettingsInv'
<1> USE SettingsAssumption
<1>0. SettingsTypes /\ CallOK(t) /\ At(t, "idle") /\ OverlapInv
  BY DEF SettingsInv, CallInv, RegisterDynamicOption
<1>1. K \in Settings /\ K \notin ExportedKeys /\ call[t].key = None
  BY <1>0 DEF CallOK, Settings
<1>2. /\ given' \in [OptionNames -> Texts \cup {None}]
      /\ \A k \in OptionNames \ {K} : given'[k] = given[k]
  BY <1>0 DEF SettingsTypes, RegisterDynamicOption
<1>3. /\ lastSet' \in [Settings -> Texts \cup {None}]
      /\ lastSet'[K] = None /\ \A k \in Settings \ {K} : lastSet'[k] = lastSet[k]
  BY <1>0, <1>1 DEF SettingsTypes, RegisterDynamicOption
<1>4. overlapped' = overlapped \cup Users(K) /\ Users(K) \subseteq Threads
  BY DEF RegisterDynamicOption, Users
<1>5. /\ dynamicOptions' \subseteq OptionNames
      /\ getters' \subseteq dynamicOptions' /\ setters' \subseteq dynamicOptions'
      /\ \A k \in OptionNames \ {K} : /\ k \in dynamicOptions' <=> k \in dynamicOptions
                                      /\ k \in getters' <=> k \in getters
                                      /\ k \in setters' <=> k \in setters
  BY <1>0 DEF SettingsTypes, RegisterDynamicOption
<1>6. UNCHANGED <<call, options, flags, vlogs, useOptionsAsFlags, exportedVars>>
  BY DEF RegisterDynamicOption
<1>7. SettingsTypes'
  BY <1>0, <1>2, <1>3, <1>4, <1>5, <1>6 DEF SettingsTypes, exportedVars
<1>8. Around(t, K)
  BY <1>1, <1>2, <1>3, <1>4, <1>5, <1>6 DEF Around, Users, exportedVars
<1>9. OverlapInv'
  BY <1>0, <1>4, <1>6 DEF OverlapInv
<1>10. CallOK(t)' /\ StoreOK(t)'
  BY <1>0, <1>6 DEF CallOK, StoreOK, At
<1>11. OptionOK(K)'
  BY <1>3 DEF OptionOK
<1> QED
  BY <1>1, <1>7, <1>8, <1>9, <1>10, <1>11, KeyStep

\* setUseOptionsAsFlags() touches neither an option nor a call.
LEMMA UseOptionsKeeps ==
    ASSUME SettingsInv, NEW t \in Threads, SetUseOptionsAsFlags(t)
    PROVE  SettingsInv'
<1>1. SettingsTypes' /\ CallInv' /\ OverlapInv' /\ StoreInv'
  BY DEF SettingsInv, SetUseOptionsAsFlags, SettingsTypes, CallInv, CallOK, At, OverlapInv,
         StoreInv, StoreOK, dynamicVars, exportedVars
<1>2. \A key \in OptionNames : OptionOK(key)'
  BY DEF SettingsInv, SetUseOptionsAsFlags, OptionOK, Users, OptionTexts, dynamicVars
<1>3. \A key \in ExportedKeys : ExportedOK(key)'
  BY DEF SettingsInv, SetUseOptionsAsFlags, ExportedOK, Users, Filling, At, exportedVars
<1> QED
  BY <1>1, <1>2, <1>3 DEF SettingsInv

\* resetAllData() clears options_: the calls for any option overlap it.
LEMMA ResetOptionsKeeps ==
    ASSUME SettingsInv, NEW t \in Threads, ResetOptions(t)
    PROVE  SettingsInv'
<1> USE SettingsAssumption DEF Settings
<1>0. SettingsTypes /\ CallInv /\ CallOK(t) /\ At(t, "idle") /\ OverlapInv
  BY DEF SettingsInv, CallInv, ResetOptions
<1>1. /\ call' \in [Threads -> CallType]
      /\ call'[t].pc = "resetExported" /\ call'[t].key = None /\ call[t].key = None
      /\ \A u \in Threads \ {t} : call'[u] = call[u]
  BY <1>0 DEF ResetOptions, Goto, SettingsTypes, CallType, Steps, CallOK
<1>2. /\ options' \in [OptionNames -> Texts \cup {None}]
      /\ lastSet' \in [Settings -> Texts \cup {None}]
      /\ \A k \in OptionNames : lastSet'[k] = None
      /\ \A k \in ExportedKeys : lastSet'[k] = lastSet[k]
  BY <1>0 DEF SettingsTypes, ResetOptions
<1>3. /\ overlapped' = overlapped \cup {u \in Threads : call[u].key \in OptionNames}
      /\ UNCHANGED <<dynamicVars, flags, vlogs, useOptionsAsFlags, exportedVars>>
  BY DEF ResetOptions
<1>4. SettingsTypes'
  BY <1>0, <1>1, <1>2, <1>3 DEF SettingsTypes, CallType, dynamicVars, exportedVars
<1>5. CallInv'
  BY <1>0, <1>1 DEF CallInv, CallOK, At, OptionSteps, FillSteps, DeleteSteps
<1>6. OverlapInv'
  BY <1>0, <1>1, <1>3 DEF OverlapInv
<1>7. StoreInv'
  BY <1>0, <1>1, <1>3 DEF CallInv, CallOK, StoreInv, StoreOK, At, OptionSteps
<1>8. \A k \in OptionNames : OptionOK(k)'
  BY <1>2 DEF OptionOK
<1>9. ASSUME NEW k \in ExportedKeys PROVE ExportedOK(k)'
  <2>1. Users(k)' = Users(k) /\ Filling' = Filling
    BY <1>0, <1>1 DEF Users, Filling, At
  <2>2. \A u \in Filling : call'[u] = call[u]
    BY <1>0, <1>1 DEF Filling, At
  <2> QED
    BY <1>2, <1>3, <2>1, <2>2 DEF SettingsInv, ExportedOK, exportedVars
<1> QED
  BY <1>4, <1>5, <1>6, <1>7, <1>8, <1>9 DEF SettingsInv

\* resetAllData() clears exportedValues_, which no one is filling then.
LEMMA ResetExportedKeeps ==
    ASSUME SettingsInv, NEW t \in Threads, ResetExported(t)
    PROVE  SettingsInv'
<1> USE SettingsAssumption DEF Settings
<1>0. SettingsTypes /\ CallInv /\ CallOK(t) /\ At(t, "resetExported") /\ OverlapInv
  BY DEF SettingsInv, CallInv, ResetExported
<1>1. /\ call' \in [Threads -> CallType]
      /\ call'[t].pc = "idle" /\ call'[t].key = None /\ call[t].key = None
      /\ \A u \in Threads \ {t} : call'[u] = call[u]
  BY <1>0 DEF ResetExported, Idle, SettingsTypes, CallType, Steps, CallOK
<1>2. /\ exported' \in [ExportedKeys -> Texts \cup {Empty, None}]
      /\ lastSet' \in [Settings -> Texts \cup {None}]
      /\ \A k \in ExportedKeys : lastSet'[k] = None /\ exported'[k] = None
      /\ \A k \in OptionNames : lastSet'[k] = lastSet[k]
  BY <1>0 DEF SettingsTypes, ResetExported
<1>3. /\ overlapped' = overlapped \cup {u \in Threads : call[u].key \in ExportedKeys}
      /\ UNCHANGED <<upgrader, optionVars>> /\ Filling = {}
  BY DEF ResetExported
<1>4. SettingsTypes'
  BY <1>0, <1>1, <1>2, <1>3 DEF SettingsTypes, CallType, optionVars, dynamicVars
<1>5. CallInv'
  BY <1>0, <1>1 DEF CallInv, CallOK, At, OptionSteps, FillSteps, DeleteSteps
<1>6. OverlapInv'
  BY <1>0, <1>1, <1>3 DEF OverlapInv
<1>7. StoreInv'
  BY <1>1, <1>3 DEF SettingsInv, StoreInv, StoreOK, At, optionVars, dynamicVars
<1>8. ASSUME NEW k \in OptionNames PROVE OptionOK(k)'
  <2>1. Users(k)' = Users(k)
    BY <1>1 DEF Users
  <2> QED
    BY <1>2, <1>3, <2>1 DEF SettingsInv, OptionOK, OptionTexts, optionVars, dynamicVars
<1>9. Filling' = {}
  BY <1>1, <1>3 DEF Filling, At
<1>10. \A k \in ExportedKeys : ExportedOK(k)'
  BY <1>2, <1>9 DEF ExportedOK
<1> QED
  BY <1>4, <1>5, <1>6, <1>7, <1>8, <1>10 DEF SettingsInv

\* setExportedValue() and deleteExportedKey() begin.
LEMMA ExportedCallKeeps ==
    ASSUME SettingsInv, NEW t \in Threads, NEW K \in ExportedKeys,
           NEW label \in {"tryFill", "upgrade"}, NEW text \in Texts \cup {None},
           label = "tryFill" => text \in Texts,
           Begin(t, label, K, text), UNCHANGED <<optionVars, exportedVars>>
    PROVE  SettingsInv'
<1> USE SettingsAssumption
<1>1. K \in Settings /\ label \in Steps /\ K \notin OptionNames
  BY DEF Settings, Steps, FillSteps, DeleteSteps
<1>2. CallOK(t) /\ At(t, "idle") /\ ExportedOK(K)
  BY DEF SettingsInv, CallInv, Begin
<1>3. /\ SettingsTypes' /\ OverlapInv' /\ Around(t, K) /\ lastSet'[K] = None
      /\ call'[t] = [pc |-> label, key |-> K, text |-> text]
  BY <1>1, BeginKeeps
<1>4. call'[t].pc = label /\ call'[t].key = K /\ call'[t].text = text
  BY <1>3
<1>5. CallOK(t)' /\ StoreOK(t)'
  BY <1>4 DEF CallOK, StoreOK, At, OptionSteps, FillSteps, DeleteSteps
<1>6. Filling' = Filling /\ \A u \in Filling : call'[u] = call[u]
  BY <1>2, <1>3, <1>4 DEF Filling, At, Around
<1>7. ExportedOK(K)'
  BY <1>2, <1>3, <1>6 DEF ExportedOK, exportedVars
<1> QED
  BY <1>1, <1>3, <1>5, <1>7, KeyStep

\* An entry is filled: it is there, and not empty.
LEMMA FillEntryKeeps ==
    ASSUME SettingsInv, NEW t \in Threads, call[t].pc \in FillSteps, FillEntry(t)
    PROVE  SettingsInv'
<1> USE SettingsAssumption
<1>0. SettingsTypes /\ CallOK(t)
  BY DEF SettingsInv, CallInv
<1>1. PICK K \in ExportedKeys : /\ K = call[t].key /\ K \in Settings /\ K \notin OptionNames
                                /\ call[t].text \in Texts
  BY <1>0 DEF CallOK, Settings
<1>2. /\ exported' \in [ExportedKeys -> Texts \cup {Empty, None}] /\ exported'[K] = call[t].text
      /\ \A k \in ExportedKeys \ {K} : exported'[k] = exported[k]
  BY <1>0, <1>1 DEF SettingsTypes, FillEntry
<1>3. UNCHANGED <<upgrader, optionVars>> /\ Return(t, call[t].text)
  BY DEF FillEntry
<1>4. /\ call' \in [Threads -> CallType] /\ OverlapInv' /\ call'[t] = Idle
      /\ overlapped' = overlapped \ {t} /\ overlapped' \subseteq Threads
      /\ \A u \in Threads \ {t} : call'[u] = call[u] /\ (call[u].key = K => u \in overlapped)
      /\ lastSet' \in [Settings -> Texts \cup {None}]
      /\ lastSet'[K] = IF t \in overlapped THEN None ELSE call[t].text
      /\ \A k \in Settings \ {K} : lastSet'[k] = lastSet[k]
  BY <1>1, <1>3, ReturnKeeps
<1>5. call'[t].key = None /\ call'[t].pc = "idle"
  BY <1>4 DEF Idle
<1>6. SettingsTypes' /\ Around(t, K)
  BY <1>0, <1>1, <1>2, <1>3, <1>4, <1>5 DEF SettingsTypes, Around, optionVars, dynamicVars, CallType
<1>7. CallOK(t)' /\ StoreOK(t)'
  BY <1>5 DEF CallOK, StoreOK, At, OptionSteps, FillSteps, DeleteSteps
<1>8. ExportedOK(K)'
  BY <1>1, <1>2, <1>4 DEF ExportedOK
<1> QED
  BY <1>1, <1>4, <1>6, <1>7, <1>8, KeyStep

\* The entry was not there: the exclusive lock comes next.
LEMMA TryFillKeeps ==
    ASSUME SettingsInv, NEW t \in Threads, TryFill(t)
    PROVE  SettingsInv'
<1> USE SettingsAssumption
<1>0. SettingsTypes /\ CallOK(t) /\ At(t, "tryFill")
  BY DEF SettingsInv, CallInv, TryFill
<1>1. CASE FillEntry(t)
  BY <1>0, <1>1, FillEntryKeeps DEF At, FillSteps
<1>2. CASE /\ Goto(t, "insert")
           /\ UNCHANGED <<calls, exportedVars, optionVars, lastSet, overlapped>>
  <2>1. PICK K \in ExportedKeys : /\ K = call[t].key /\ K \in Settings /\ K \notin OptionNames
                                  /\ call[t].text \in Texts
    BY <1>0 DEF CallOK, Settings, At, FillSteps
  <2>2. "insert" \in Steps
    BY DEF Steps, FillSteps
  <2>3. /\ call' \in [Threads -> CallType] /\ OverlapInv'
        /\ call'[t].pc = "insert" /\ call'[t].key = K /\ call'[t].text = call[t].text
        /\ \A u \in Threads \ {t} : call'[u] = call[u] /\ (call[u].key = K => u \in overlapped)
    BY <2>1, <1>2, <2>2, GotoKeeps
  <2>4. SettingsTypes' /\ Around(t, K)
    BY <1>0, <1>2, <2>1, <2>3
       DEF SettingsTypes, Around, optionVars, dynamicVars, exportedVars, CallType
  <2>5. CallOK(t)' /\ StoreOK(t)'
    BY <2>1, <2>3 DEF CallOK, StoreOK, At, OptionSteps, FillSteps, DeleteSteps
  <2>6. Filling' = Filling /\ \A u \in Filling : call'[u] = call[u]
    BY <1>0, <2>3 DEF Filling, At
  <2>7. ExportedOK(K) /\ Users(K)' # {}
    BY <2>3 DEF SettingsInv, Users
  <2>8. ExportedOK(K)'
    BY <1>2, <2>6, <2>7 DEF ExportedOK, exportedVars
  <2> QED
    BY <2>1, <2>3, <2>4, <2>5, <2>8, KeyStep
<1> QED
  BY <1>1, <1>2 DEF TryFill

\* An empty entry is inserted, by the thread that fills it next.
LEMMA InsertEntryKeeps ==
    ASSUME SettingsInv, NEW t \in Threads, InsertEntry(t)
    PROVE  SettingsInv'
<1> USE SettingsAssumption
<1>0. SettingsTypes /\ CallOK(t) /\ At(t, "insert") /\ Filling = {}
  BY DEF SettingsInv, CallInv, InsertEntry
<1>1. PICK K \in ExportedKeys : /\ K = call[t].key /\ K \in Settings /\ K \notin OptionNames
                                /\ call[t].text \in Texts
  BY <1>0 DEF CallOK, Settings, At, FillSteps
<1>2. /\ Goto(t, "fill") /\ UNCHANGED <<upgrader, optionVars, lastSet, overlapped>>
      /\ exported' \in [ExportedKeys -> Texts \cup {Empty, None}] /\ exported'[K] # None
      /\ \A k \in ExportedKeys \ {K} : exported'[k] = exported[k]
  BY <1>0, <1>1 DEF InsertEntry, SettingsTypes
<1>3. "fill" \in Steps
  BY DEF Steps, FillSteps
<1>4. /\ call' \in [Threads -> CallType] /\ OverlapInv'
      /\ call'[t].pc = "fill" /\ call'[t].key = K /\ call'[t].text = call[t].text
      /\ \A u \in Threads \ {t} : call'[u] = call[u] /\ (call[u].key = K => u \in overlapped)
  BY <1>1, <1>2, <1>3, GotoKeeps
<1>5. SettingsTypes' /\ Around(t, K)
  BY <1>0, <1>1, <1>2, <1>4 DEF SettingsTypes, Around, optionVars, dynamicVars, CallType
<1>6. CallOK(t)' /\ StoreOK(t)'
  BY <1>1, <1>4 DEF CallOK, StoreOK, At, OptionSteps, FillSteps, DeleteSteps
<1>7. t \in Filling' /\ t \in Users(K)'
  BY <1>4 DEF Filling, At, Users
<1>8. ExportedOK(K)'
  BY <1>2, <1>4, <1>7 DEF ExportedOK
<1> QED
  BY <1>1, <1>4, <1>5, <1>6, <1>8, KeyStep

\* deleteExportedKey() looks the entry up under the upgrade lock.
LEMMA UpgradeLockKeeps ==
    ASSUME SettingsInv, NEW t \in Threads, UpgradeLock(t)
    PROVE  SettingsInv'
<1> USE SettingsAssumption
<1>0. SettingsTypes /\ CallOK(t) /\ At(t, "upgrade")
  BY DEF SettingsInv, CallInv, UpgradeLock
<1>1. PICK K \in ExportedKeys : K = call[t].key /\ K \in Settings /\ K \notin OptionNames
  BY <1>0 DEF CallOK, Settings, At, DeleteSteps
<1>2. UNCHANGED <<exported, optionVars>> /\ ExportedOK(K)
  BY DEF UpgradeLock, SettingsInv
<1>3. CASE Return(t, None) /\ UNCHANGED upgrader
  <2>1. /\ call' \in [Threads -> CallType] /\ OverlapInv' /\ call'[t] = Idle
        /\ overlapped' = overlapped \ {t} /\ overlapped' \subseteq Threads
        /\ \A u \in Threads \ {t} : call'[u] = call[u] /\ (call[u].key = K => u \in overlapped)
        /\ lastSet' \in [Settings -> Texts \cup {None}] /\ lastSet'[K] = None
        /\ \A k \in Settings \ {K} : lastSet'[k] = lastSet[k]
    BY <1>1, <1>3, ReturnKeeps
  <2>2. call'[t].key = None /\ call'[t].pc = "idle"
    BY <2>1 DEF Idle
  <2>3. SettingsTypes' /\ Around(t, K)
    BY <1>0, <1>1, <1>2, <1>3, <2>1, <2>2
       DEF SettingsTypes, Around, optionVars, dynamicVars, CallType
  <2>4. CallOK(t)' /\ StoreOK(t)'
    BY <2>2 DEF CallOK, StoreOK, At, OptionSteps, FillSteps, DeleteSteps
  <2>5. Filling' = Filling /\ \A u \in Filling : call'[u] = call[u]
    BY <1>0, <2>1, <2>2 DEF Filling, At
  <2>6. ExportedOK(K)'
    BY <1>2, <2>1, <2>5 DEF ExportedOK
  <2> QED
    BY <1>1, <2>1, <2>3, <2>4, <2>6, KeyStep
<1>4. CASE upgrader' = t /\ Goto(t, "erase") /\ UNCHANGED <<lastSet, overlapped>>
  <2>1. "erase" \in Steps
    BY DEF Steps, DeleteSteps
  <2>2. /\ call' \in [Threads -> CallType] /\ OverlapInv'
        /\ call'[t].pc = "erase" /\ call'[t].key = K
        /\ \A u \in Threads \ {t} : call'[u] = call[u] /\ (call[u].key = K => u \in overlapped)
    BY <1>1, <1>4, <2>1, GotoKeeps
  <2>3. SettingsTypes' /\ Around(t, K)
    BY <1>0, <1>1, <1>2, <1>4, <2>2 DEF SettingsTypes, Around, optionVars, dynamicVars, CallType
  <2>4. CallOK(t)' /\ StoreOK(t)'
    BY <1>1, <2>2 DEF CallOK, StoreOK, At, OptionSteps, FillSteps, DeleteSteps
  <2>5. Filling' = Filling /\ \A u \in Filling : call'[u] = call[u]
    BY <1>0, <2>2 DEF Filling, At
  <2>6. Users(K)' # {}
    BY <2>2 DEF Users
  <2>7. ExportedOK(K)'
    BY <1>2, <2>5, <2>6 DEF ExportedOK
  <2> QED
    BY <1>1, <2>2, <2>3, <2>4, <2>7, KeyStep
<1> QED
  BY <1>3, <1>4 DEF UpgradeLock

\* The entry is erased, and no one is filling it.
LEMMA EraseEntryKeeps ==
    ASSUME SettingsInv, NEW t \in Threads, EraseEntry(t)
    PROVE  SettingsInv'
<1> USE SettingsAssumption
<1>0. SettingsTypes /\ CallOK(t) /\ At(t, "erase") /\ Filling = {}
  BY DEF SettingsInv, CallInv, EraseEntry
<1>1. PICK K \in ExportedKeys : K = call[t].key /\ K \in Settings /\ K \notin OptionNames
  BY <1>0 DEF CallOK, Settings, At, DeleteSteps
<1>2. /\ Return(t, None) /\ upgrader' = None /\ UNCHANGED optionVars
      /\ exported' \in [ExportedKeys -> Texts \cup {Empty, None}] /\ exported'[K] = None
      /\ \A k \in ExportedKeys \ {K} : exported'[k] = exported[k]
  BY <1>0, <1>1 DEF EraseEntry, SettingsTypes
<1>3. /\ call' \in [Threads -> CallType] /\ OverlapInv' /\ call'[t] = Idle
      /\ overlapped' = overlapped \ {t} /\ overlapped' \subseteq Threads
      /\ \A u \in Threads \ {t} : call'[u] = call[u] /\ (call[u].key = K => u \in overlapped)
      /\ lastSet' \in [Settings -> Texts \cup {None}] /\ lastSet'[K] = None
      /\ \A k \in Settings \ {K} : lastSet'[k] = lastSet[k]
      /\ Filling' \subseteq Filling
  BY <1>1, <1>2, ReturnKeeps
<1>4. call'[t].key = None /\ call'[t].pc = "idle"
  BY <1>3 DEF Idle
<1>5. SettingsTypes' /\ Around(t, K)
  BY <1>0, <1>1, <1>2, <1>3, <1>4 DEF SettingsTypes, Around, optionVars, dynamicVars, CallType
<1>6. CallOK(t)' /\ StoreOK(t)'
  BY <1>4 DEF CallOK, StoreOK, At, OptionSteps, FillSteps, DeleteSteps
<1>7. ExportedOK(K)'
  BY <1>0, <1>2, <1>3 DEF ExportedOK
<1> QED
  BY <1>1, <1>3, <1>5, <1>6, <1>7, KeyStep

\* No call is under way at first, and nothing has been set.
LEMMA SettingsStart == Init => SettingsInv
<1> USE SettingsAssumption
<1> SUFFICES ASSUME Init PROVE SettingsInv
  OBVIOUS
<1>1. SettingsTypes
  BY DEF Init, SettingsInit, SettingsTypes, Idle, Steps, Settings
<1>2. \A t \in Threads : call[t].pc = "idle" /\ call[t].key = None
  BY DEF Init, SettingsInit, Idle
<1>3. CallInv /\ OverlapInv /\ StoreInv /\ Filling = {}
  BY <1>2 DEF CallInv, CallOK, OverlapInv, StoreInv, StoreOK, At, OptionSteps, FillSteps,
              DeleteSteps, Filling
<1>4. /\ \A key \in OptionNames : OptionOK(key)
      /\ \A key \in ExportedKeys : ExportedOK(key)
  BY <1>3 DEF Init, SettingsInit, OptionOK, ExportedOK, Settings
<1> QED
  BY <1>1, <1>3, <1>4 DEF SettingsInv

\* Every step keeps the settings' invariant; those of the service do not touch them.
LEMMA SettingsKept ==
    ASSUME SettingsInv, [Next]_vars
    PROVE  SettingsInv'
<1>1. ASSUME NEW t \in Threads, SettingsCall(t) PROVE SettingsInv'
  <2> USE <1>1, SettingsAssumption
  <2>1. ASSUME NEW key \in OptionNames, NEW text \in Texts, SetOption(t, key, text)
        PROVE  SettingsInv'
    BY <2>1, SetOptionKeeps
  <2>2. ASSUME NEW key \in OptionNames, NEW gettable \in BOOLEAN,
               NEW settable \in BOOLEAN, RegisterDynamicOption(t, key, gettable, settable)
        PROVE  SettingsInv'
    BY <2>2, RegisterKeeps
  <2>3. CASE SetUseOptionsAsFlags(t) \/ ResetOptions(t)
    BY <2>3, UseOptionsKeeps, ResetOptionsKeeps
  <2>4. ASSUME NEW key \in ExportedKeys, DeleteExportedKey(t, key)
        PROVE  SettingsInv'
    BY <2>4, ExportedCallKeeps DEF DeleteExportedKey
  <2>5. ASSUME NEW key \in ExportedKeys, NEW text \in Texts, SetExportedValue(t, key, text)
        PROVE  SettingsInv'
    BY <2>5, ExportedCallKeeps DEF SetExportedValue
  <2> QED
    BY <1>1, <2>1, <2>2, <2>3, <2>4, <2>5 DEF SettingsCall
<1>2. ASSUME NEW t \in Threads, SettingsStep(t) PROVE SettingsInv'
  <2>1. CASE Fill(t)
    BY <2>1, FillEntryKeeps DEF Fill, At, FillSteps
  <2> QED
    BY <1>2, <2>1, FindDynamicKeeps, StoreOptionKeeps, SetFlagKeeps, TryFillKeeps,
       InsertEntryKeeps, UpgradeLockKeeps, EraseEntryKeeps, ResetExportedKeeps DEF SettingsStep
<1>3. CASE UNCHANGED settingsVars
  <2>1. SettingsTypes' /\ CallInv' /\ OverlapInv' /\ StoreInv'
    BY <1>3 DEF SettingsInv, settingsVars, SettingsTypes, CallInv, CallOK, At, OverlapInv,
           StoreInv, StoreOK, exportedVars, optionVars, dynamicVars
  <2>2. \A key \in OptionNames : OptionOK(key)'
    BY <1>3 DEF SettingsInv, settingsVars, OptionOK, Users, OptionTexts, optionVars, dynamicVars
  <2>3. \A key \in ExportedKeys : ExportedOK(key)'
    BY <1>3 DEF SettingsInv, settingsVars, ExportedOK, Users, Filling, At, exportedVars
  <2> QED
    BY <2>1, <2>2, <2>3 DEF SettingsInv
<1>4. ASSUME NEW t \in Threads, ServiceCall(t) PROVE UNCHANGED settingsVars
  BY <1>4 DEF ServiceCall, AddCounter, RemoveCounter, Submit, SetGetCountersExpiration, Close
<1>5. ASSUME NEW w \in Workers, WorkerStep(w) PROVE UNCHANGED settingsVars
  BY <1>5 DEF WorkerStep, Dequeue, CheckExpiration, Throw, Reply, Release, SnapshotKeys, ReadMap
<1>6. Destroy => UNCHANGED settingsVars
  BY DEF Destroy
<1> QED
  BY <1>1, <1>2, <1>3, <1>4, <1>5, <1>6 DEF Next, vars

-----------------------------------------------------------------------------
(***************************************************************************)
(* The output map: its names, and its first entries                        *)
(***************************************************************************)
\* A set of natural numbers that is not empty has a least element.
LEMMA LeastOf ==
    ASSUME NEW S, S \subseteq Nat, S # {}
    PROVE  \E x \in S : \A y \in S : x <= y
<1> DEFINE R == OpToRel(<, Nat)
<1>1. IsWellFoundedOn(R, Nat)
  BY NatLessThanWellFounded
<1>2. \A x, y \in Nat : <<y, x>> \in R <=> y < x
  BY DEF OpToRel
<1> HIDE DEF R
<1>3. PICK x \in S : \A y \in S : ~(<<y, x>> \in R)
  BY <1>1, WFMin
<1>4. x \in Nat /\ \A y \in S : y \in Nat /\ ~(y < x)
  BY <1>2, <1>3, Zenon
<1> QED
  BY <1>4, SMT

\* A set of names has a least one and a greatest one.
LEMMA GreatestOf ==
    ASSUME NEW S, S \subseteq Keys, S # {}
    PROVE  \E x \in S : \A y \in S : y <= x
<1> DEFINE n == Cardinality(Keys)
           T == {n - x : x \in S}
<1>1. n \in Nat /\ Keys = 1 .. n
  BY ServiceAssumption, FS_CardinalityType
<1> HIDE DEF n
<1>2. T \subseteq Nat /\ T # {}
  <2>1. \A x \in S : n - x \in Nat
    BY <1>1
  <2> QED
    BY <2>1
<1> HIDE DEF T
<1>3. PICK z \in T : \A y \in T : z <= y
  BY <1>2, LeastOf
<1>4. PICK x \in S : z = n - x
  BY DEF T
<1>5. \A y \in S : n - y \in T
  BY DEF T
<1>6. \A y \in S : y \in Int /\ z <= n - y
  BY <1>1, <1>3, <1>5
<1> QED
  BY <1>1, <1>4, <1>6

\* The output map has as many entries as names.
LEMMA NamesCount ==
    ASSUME NEW P, P \subseteq Counters, OnePerName(P)
    PROVE  /\ IsFiniteSet(P) /\ Cardinality(Names(P)) = Cardinality(P)
           /\ Names(P) \subseteq Keys /\ IsFiniteSet(Names(P))
           /\ Cardinality(P) \in Nat
<1> DEFINE f == [p \in P |-> p[2]]
<1>1. Names(P) \subseteq Keys
  BY DEF Names, Counters
<1>2. IsFiniteSet(Names(P))
  BY <1>1, ServiceAssumption, FS_Subset
<1>3. f \in Injection(P, Names(P)) /\ f \in Surjection(P, Names(P))
  BY DEF Injection, Surjection, Names, OnePerName, IsInjective
<1>4. IsFiniteSet(P) /\ Cardinality(Names(P)) = Cardinality(P)
  BY <1>2, <1>3, FS_Injection
<1> QED
  BY <1>1, <1>2, <1>4, FS_CardinalityType

\* The entries of the output map before p
Before(P, p) == {q \in P : q[2] < p[2]}

\* The first entries of the output map: at most as many as the limit, fewer only
\* if that is all of them, and all of them before the ones left out.
LEMMA FirstEntries ==
    ASSUME NEW P, P \subseteq Counters, OnePerName(P), NEW limit \in Nat
    PROVE  /\ First(limit, P) \subseteq P
           /\ Cardinality(First(limit, P)) <= limit
           /\ First(limit, P) # P => Cardinality(First(limit, P)) = limit
           /\ \A p \in P \ First(limit, P), g \in First(limit, P) : g[2] < p[2]
<1> DEFINE F == First(limit, P)
<1>0. \A p \in Counters : p[2] \in Keys /\ p[2] \in Nat
  BY ServiceAssumption, FS_CardinalityType DEF Counters
<1>1. IsFiniteSet(P)
  BY NamesCount
<1>2. F \subseteq P /\ \A p \in P : p \in F <=> Cardinality(Before(P, p)) < limit
  BY DEF First, Before
<1>3. \A p \in P : /\ IsFiniteSet(Before(P, p)) /\ Cardinality(Before(P, p)) \in Nat
                   /\ Before(P, p) \subseteq P
  BY <1>1, FS_Subset, FS_CardinalityType DEF Before
<1>4. ASSUME NEW p \in P, NEW q \in P, p[2] <= q[2]
      PROVE  Cardinality(Before(P, p)) <= Cardinality(Before(P, q))
  <2>1. Before(P, p) \in SUBSET Before(P, q)
    BY <1>0, <1>4 DEF Before
  <2> HIDE DEF Before
  <2> QED
    BY <1>3, <2>1, FS_Subset
<1>5. \A p \in P \ F, g \in F : g[2] < p[2]
  <2> SUFFICES ASSUME NEW p \in P, p \notin F, NEW g \in F, ~(g[2] < p[2]) PROVE FALSE
    OBVIOUS
  <2>1. p[2] <= g[2] /\ g \in P
    BY <1>0, <1>2
  <2>2. Cardinality(Before(P, p)) <= Cardinality(Before(P, g))
    BY <1>4, <2>1
  <2>3. Cardinality(Before(P, g)) < limit /\ ~(Cardinality(Before(P, p)) < limit)
    BY <1>2
  <2> QED
    BY <1>3, <2>1, <2>2, <2>3
<1>6. IsFiniteSet(F) /\ Cardinality(F) \in Nat
  <2> HIDE DEF F
  <2> QED
    BY <1>1, <1>2, FS_Subset, FS_CardinalityType
<1>7. Cardinality(F) <= limit
  <2>1. CASE F = {}
    BY <2>1, FS_EmptySet
  <2>2. CASE F # {}
    <3>1. Names(F) \subseteq Keys /\ Names(F) # {}
      BY <1>0, <1>2, <2>2 DEF Names
    <3>2. PICK n \in Names(F) : \A y \in Names(F) : y <= n
      BY <3>1, GreatestOf
    <3>3. PICK g \in F : n = g[2]
      BY <3>2 DEF Names
    <3>4. g \in P /\ Cardinality(Before(P, g)) < limit
      BY <1>2
    <3>5. F \subseteq Before(P, g) \cup {g}
      <4> SUFFICES ASSUME NEW p \in F, p # g PROVE p[2] < g[2]
        BY <1>2 DEF Before
      <4>1. p[2] <= g[2]
        BY <3>2, <3>3 DEF Names
      <4>2. p[2] # g[2]
        BY <1>2 DEF OnePerName
      <4> QED
        BY <4>1, <4>2, <1>0, <1>2
    <3> HIDE DEF F
    <3> DEFINE B == Before(P, g)
    <3>6. IsFiniteSet(B) /\ Cardinality(B) \in Nat
      BY <1>3, <3>4
    <3> HIDE DEF B
    <3>7. /\ IsFiniteSet(B \cup {g})
          /\ Cardinality(B \cup {g}) = IF g \in B THEN Cardinality(B) ELSE Cardinality(B) + 1
      BY <3>6, FS_AddElement
    <3>8. /\ IsFiniteSet(B \cup {g}) /\ Cardinality(B \cup {g}) <= Cardinality(B) + 1
          /\ Cardinality(B \cup {g}) \in Nat /\ Cardinality(B) \in Nat
      BY <3>7, <3>6
    <3>9. Cardinality(F) <= Cardinality(B \cup {g})
      BY <3>5, <3>8, FS_Subset DEF B
    <3>10. Cardinality(B) < limit
      BY <3>4 DEF B
    <3> QED
      BY <1>6, <3>8, <3>9, <3>10
  <2> QED
    BY <2>1, <2>2
<1>8. ASSUME F # P PROVE Cardinality(F) = limit
  <2>1. Names(P \ F) \subseteq Nat /\ Names(P \ F) # {}
    BY <1>0, <1>2, <1>8 DEF Names
  <2>2. PICK n \in Names(P \ F) : \A y \in Names(P \ F) : n <= y
    BY <2>1, LeastOf
  <2>3. PICK p \in P \ F : n = p[2]
    BY <2>2 DEF Names
  <2>4. ~(Cardinality(Before(P, p)) < limit)
    BY <1>2, <2>3
  <2>5. Before(P, p) \subseteq F
    <3> SUFFICES ASSUME NEW q \in P, q[2] < p[2], q \notin F PROVE FALSE
      BY DEF Before
    <3>1. p[2] <= q[2]
      BY <2>2, <2>3 DEF Names
    <3> QED
      BY <1>0, <3>1
  <2> HIDE DEF F
  <2>6. Cardinality(Before(P, p)) <= Cardinality(F)
    BY <2>5, <1>6, FS_Subset
  <2> QED
    BY <1>3, <1>6, <1>7, <2>3, <2>4, <2>6
<1> QED
  BY <1>2, <1>5, <1>7, <1>8

-----------------------------------------------------------------------------
(***************************************************************************)
(* The steps of a lambda                                                   *)
(***************************************************************************)
\* Parts of a lambda: no step but the last is the answer, and no keys are
\* collected once a map has been read.
NoReads(s) == \A i \in DOMAIN s : s[i][1] # "read"
NoKeys(s) == \A i \in DOMAIN s : s[i][1] # "keys"
Part(s) ==
    /\ \A i \in DOMAIN s : s[i] # Last
    /\ \A i, j \in DOMAIN s : i < j /\ s[i][1] = "read" => s[j][1] # "keys"

\* Two parts make one, if the second collects no keys or the first reads no map.
LEMMA JoinParts ==
    ASSUME NEW a \in Seq(LambdaSteps), NEW b \in Seq(LambdaSteps), Part(a), Part(b),
           NoKeys(b) \/ NoReads(a)
    PROVE  /\ a \o b \in Seq(LambdaSteps) /\ Part(a \o b)
           /\ NoKeys(a) /\ NoKeys(b) => NoKeys(a \o b)
           /\ \A c : WillRead(a, c) \/ WillRead(b, c) => WillRead(a \o b, c)
           /\ \A m : WillCollect(a, m) \/ WillCollect(b, m) => WillCollect(a \o b, m)
<1> DEFINE s == a \o b
<1>1. /\ s \in Seq(LambdaSteps) /\ Len(s) = Len(a) + Len(b)
      /\ \A i \in 1 .. Len(a) + Len(b) : s[i] = IF i <= Len(a) THEN a[i] ELSE b[i - Len(a)]
  BY ConcatProperties
<1>2. /\ Len(a) \in Nat /\ Len(b) \in Nat /\ DOMAIN a = 1 .. Len(a) /\ DOMAIN b = 1 .. Len(b)
      /\ DOMAIN s = 1 .. Len(a) + Len(b)
  BY <1>1
<1> HIDE DEF s
<1>3. \A i \in DOMAIN s : \/ i \in DOMAIN a /\ s[i] = a[i]
                          \/ i > Len(a) /\ i - Len(a) \in DOMAIN b /\ s[i] = b[i - Len(a)]
  BY <1>1, <1>2
<1>4. /\ \A i \in DOMAIN a : i \in DOMAIN s /\ s[i] = a[i]
      /\ \A i \in DOMAIN b : i + Len(a) \in DOMAIN s /\ s[i + Len(a)] = b[i]
  BY <1>1, <1>2
<1>5. \A i \in DOMAIN s : s[i] # Last
  BY <1>3 DEF Part
<1>6. ASSUME NEW i \in DOMAIN s, NEW j \in DOMAIN s, i < j, s[i][1] = "read"
      PROVE  s[j][1] # "keys"
  <2>1. CASE i \in DOMAIN a /\ s[i] = a[i] /\ j \in DOMAIN a /\ s[j] = a[j]
    BY <1>6, <2>1 DEF Part
  <2>2. CASE /\ i \in DOMAIN a /\ s[i] = a[i]
             /\ j > Len(a) /\ j - Len(a) \in DOMAIN b /\ s[j] = b[j - Len(a)]
    BY <1>6, <2>2 DEF NoKeys, NoReads
  <2>3. CASE /\ i > Len(a) /\ i - Len(a) \in DOMAIN b /\ s[i] = b[i - Len(a)]
             /\ j - Len(a) \in DOMAIN b /\ s[j] = b[j - Len(a)]
    <3>1. i - Len(a) < j - Len(a)
      BY <1>2, <1>6
    <3> QED
      BY <1>6, <2>3, <3>1 DEF Part
  <2>4. i \in DOMAIN a \/ i > Len(a)
    BY <1>3
  <2>5. i > Len(a) => j > Len(a)
    BY <1>2, <1>6
  <2> QED
    BY <1>2, <1>3, <2>1, <2>2, <2>3, <2>5
<1>7. NoKeys(a) /\ NoKeys(b) => NoKeys(s)
  BY <1>3 DEF NoKeys
<1>8. ASSUME NEW c, WillRead(a, c) \/ WillRead(b, c) PROVE WillRead(s, c)
  BY <1>4, <1>8 DEF WillRead
<1>9. ASSUME NEW m, WillCollect(a, m) \/ WillCollect(b, m) PROVE WillCollect(s, m)
  BY <1>4, <1>9 DEF WillCollect
<1>10. Part(s)
  BY <1>5, <1>6 DEF Part
<1>11. s = a \o b
  BY DEF s
<1> QED
  BY <1>1, <1>7, <1>8, <1>9, <1>10, <1>11

\* One read of a whole map
LEMMA WholePart ==
    ASSUME NEW m \in Maps
    PROVE  /\ Whole(m) \in Seq(LambdaSteps) /\ Part(Whole(m)) /\ NoKeys(Whole(m))
           /\ \A k \in Keys : WillRead(Whole(m), <<m, k>>)
<1>1. <<"read", m, Keys>> \in LambdaSteps /\ <<"read", m, Keys>> # Last
  BY DEF LambdaSteps, Last
<1>2. Whole(m) \in Seq(LambdaSteps) /\ Part(Whole(m)) /\ NoKeys(Whole(m))
  BY <1>1 DEF Whole, Part, NoKeys
<1>3. ASSUME NEW k \in Keys PROVE WillRead(Whole(m), <<m, k>>)
  <2>1. 1 \in DOMAIN Whole(m) /\ Whole(m)[1] = <<"read", m, Keys>>
    BY DEF Whole
  <2> QED
    BY <2>1 DEF WillRead
<1> QED
  BY <1>2, <1>3

\* The dynamic counters, one after another
LEMMA OneByOnePart ==
    /\ OneByOne \in Seq(LambdaSteps) /\ Part(OneByOne) /\ NoKeys(OneByOne)
    /\ \A k \in Keys : WillRead(OneByOne, <<"dynamic", k>>)
<1>1. \A k \in Keys : /\ <<"read", "dynamic", {k}>> \in LambdaSteps
                      /\ <<"read", "dynamic", {k}>> # Last
  <2>1. \A m \in Maps, ks \in SUBSET Keys : /\ <<"read", m, ks>> \in LambdaSteps
                                            /\ <<"read", m, ks>> # Last
    BY DEF LambdaSteps, Last
  <2>2. "dynamic" \in Maps /\ \A k \in Keys : {k} \in SUBSET Keys
    BY DEF Maps
  <2> QED
    BY <2>1, <2>2
<1>2. PICK n \in Nat : Keys = 1 .. n
  BY ServiceAssumption, FS_CardinalityType
<1>3. OneByOne \in Seq(LambdaSteps)
  BY <1>1, <1>2 DEF OneByOne
<1>4. /\ DOMAIN OneByOne = Keys
      /\ \A k \in Keys : OneByOne[k] = <<"read", "dynamic", {k}>>
  BY DEF OneByOne
<1>5. Part(OneByOne) /\ NoKeys(OneByOne)
  BY <1>1, <1>4 DEF Part, NoKeys
<1>6. ASSUME NEW k \in Keys PROVE WillRead(OneByOne, <<"dynamic", k>>)
  BY <1>4 DEF WillRead
<1> QED
  BY <1>3, <1>5, <1>6

\* The keys that a regex matches are collected from each map.
Collect == <<<<"keys", "flat">>, <<"keys", "quantile">>, <<"keys", "dynamic">>>>

\* They are collected before any map is read.
LEMMA CollectPart ==
    /\ Collect \in Seq(LambdaSteps) /\ Part(Collect) /\ NoReads(Collect)
    /\ \A m \in Maps : WillCollect(Collect, m)
<1>1. \A m \in Maps : <<"keys", m>> \in LambdaSteps /\ <<"keys", m>> # Last
  BY DEF LambdaSteps, Last
<1>2. /\ DOMAIN Collect = 1 .. 3 /\ Collect[1] = <<"keys", "flat">>
      /\ Collect[2] = <<"keys", "quantile">> /\ Collect[3] = <<"keys", "dynamic">>
  BY DEF Collect
<1>3. Collect \in Seq(LambdaSteps)
  BY <1>1 DEF Collect, Maps
<1>4. \A i \in DOMAIN Collect : \E m \in Maps : Collect[i] = <<"keys", m>>
  BY <1>2 DEF Maps
<1>5. Part(Collect) /\ NoReads(Collect)
  BY <1>1, <1>4 DEF Part, NoReads
<1>6. \A m \in Maps : WillCollect(Collect, m)
  BY <1>2 DEF WillCollect, Maps
<1> QED
  BY <1>3, <1>5, <1>6

\* The steps before and after those of Plan(op)
LEMMA EmptyPart ==
    /\ <<>> \in Seq(LambdaSteps) /\ Part(<<>>) /\ NoReads(<<>>)
    /\ <<Check>> \in Seq(LambdaSteps) /\ Part(<<Check>>) /\ NoReads(<<Check>>)
    /\ <<Last>> \in Seq(LambdaSteps)
<1>1. Check # Last /\ Check \in LambdaSteps /\ Last \in LambdaSteps /\ Check[1] = "check"
  BY DEF Check, Last, LambdaSteps
<1> QED
  BY <1>1 DEF Part, NoReads

\* Every request looks for each of its counters in the map that has it, after it
\* has collected the keys of that map if it is one for a regex.
LEMMA PlanPart ==
    ASSUME NEW op \in {"all", "selected", "regex"}
    PROVE  /\ Plan(op) \in Seq(LambdaSteps) /\ Part(Plan(op))
           /\ \A c \in Counters : WillRead(Plan(op), c)
           /\ op = "regex" => \A m \in Maps : WillCollect(Plan(op), m)
<1> DEFINE F == Whole("flat")
           Q == Whole("quantile")
           D == OneByOne
<1>1. /\ F \in Seq(LambdaSteps) /\ Part(F) /\ NoKeys(F)
      /\ \A k \in Keys : WillRead(F, <<"flat", k>>)
  BY WholePart DEF Maps
<1>2. /\ Q \in Seq(LambdaSteps) /\ Part(Q) /\ NoKeys(Q)
      /\ \A k \in Keys : WillRead(Q, <<"quantile", k>>)
  BY WholePart DEF Maps
<1>3. /\ D \in Seq(LambdaSteps) /\ Part(D) /\ NoKeys(D)
      /\ \A k \in Keys : WillRead(D, <<"dynamic", k>>)
  BY OneByOnePart
<1> HIDE DEF F, Q, D
<1>4. ASSUME NEW s, \A k \in Keys, m \in Maps : WillRead(s, <<m, k>>)
      PROVE  \A c \in Counters : WillRead(s, c)
  BY <1>4 DEF Counters
<1>5. CASE op = "all"
  <2>1. /\ F \o Q \in Seq(LambdaSteps) /\ Part(F \o Q) /\ NoKeys(F \o Q)
        /\ \A k \in Keys : WillRead(F \o Q, <<"flat", k>>) /\ WillRead(F \o Q, <<"quantile", k>>)
    BY <1>1, <1>2, JoinParts
  <2>2. /\ (F \o Q) \o D \in Seq(LambdaSteps) /\ Part((F \o Q) \o D)
        /\ \A k \in Keys : /\ WillRead((F \o Q) \o D, <<"flat", k>>)
                           /\ WillRead((F \o Q) \o D, <<"quantile", k>>)
                           /\ WillRead((F \o Q) \o D, <<"dynamic", k>>)
    BY <1>3, <2>1, JoinParts
  <2>3. \A k \in Keys, m \in Maps : WillRead((F \o Q) \o D, <<m, k>>)
    BY <2>2 DEF Maps
  <2>4. Plan(op) = (F \o Q) \o D
    BY <1>5 DEF Plan, F, Q, D
  <2> QED
    BY <1>4, <1>5, <2>2, <2>3, <2>4
<1>6. CASE op # "all"
  <2> DEFINE C == IF op = "regex" THEN Collect ELSE <<>>
             A == C \o F
             B == A \o D
  <2>1. /\ C \in Seq(LambdaSteps) /\ Part(C) /\ NoReads(C)
        /\ op = "regex" => \A m \in Maps : WillCollect(C, m)
    BY CollectPart, EmptyPart
  <2> HIDE DEF C
  <2>2. /\ A \in Seq(LambdaSteps) /\ Part(A) /\ \A k \in Keys : WillRead(A, <<"flat", k>>)
        /\ op = "regex" => \A m \in Maps : WillCollect(A, m)
    BY <1>1, <2>1, JoinParts
  <2> HIDE DEF A
  <2>3. /\ B \in Seq(LambdaSteps) /\ Part(B)
        /\ \A k \in Keys : WillRead(B, <<"flat", k>>) /\ WillRead(B, <<"dynamic", k>>)
        /\ op = "regex" => \A m \in Maps : WillCollect(B, m)
    BY <1>3, <2>2, JoinParts
  <2> HIDE DEF B
  <2>4. /\ B \o Q \in Seq(LambdaSteps) /\ Part(B \o Q)
        /\ \A k \in Keys : /\ WillRead(B \o Q, <<"flat", k>>) /\ WillRead(B \o Q, <<"dynamic", k>>)
                           /\ WillRead(B \o Q, <<"quantile", k>>)
        /\ op = "regex" => \A m \in Maps : WillCollect(B \o Q, m)
    BY <1>2, <2>3, JoinParts
  <2>5. \A k \in Keys, m \in Maps : WillRead(B \o Q, <<m, k>>)
    BY <2>4 DEF Maps
  <2>6. Plan(op) = B \o Q
    BY <1>6 DEF Plan, F, Q, D, A, B, C, Collect
  <2> QED
    BY <1>4, <2>4, <2>5, <2>6
<1> QED
  BY <1>5, <1>6

\* The lambda of a request as it is taken from the queue
LEMMA FreshTodo ==
    ASSUME NEW op \in {"all", "selected", "regex"}
    PROVE  LET todo == <<<<"check", None>>>> \o Plan(op) \o <<<<"reply", None>>>>
           IN  /\ todo \in Seq(LambdaSteps) /\ todo # <<>> /\ TodoOK(todo)
               /\ \A c \in Counters : WillRead(todo, c)
               /\ op = "regex" => \A m \in Maps : WillCollect(todo, m)
<1> DEFINE P == Plan(op)
           a == <<Check>> \o P
           s == a \o <<Last>>
<1>1. /\ P \in Seq(LambdaSteps) /\ Part(P) /\ \A c \in Counters : WillRead(P, c)
      /\ op = "regex" => \A m \in Maps : WillCollect(P, m)
  BY PlanPart
<1> HIDE DEF P
<1>2. /\ a \in Seq(LambdaSteps) /\ Part(a) /\ \A c \in Counters : WillRead(a, c)
      /\ op = "regex" => \A m \in Maps : WillCollect(a, m)
  BY <1>1, EmptyPart, JoinParts
<1> HIDE DEF a
<1> DEFINE n == Len(a)
<1>3. /\ s \in Seq(LambdaSteps) /\ Len(s) = n + 1 /\ n \in Nat /\ DOMAIN a = 1 .. n
      /\ \A i \in 1 .. n : s[i] = a[i]
      /\ s[n + 1] = Last /\ DOMAIN s = 1 .. n + 1
  BY <1>2, EmptyPart
<1> HIDE DEF s, n
<1>4. s # <<>> /\ s[Len(s)] = Last
  BY <1>3
<1>5. ASSUME NEW i \in DOMAIN s, NEW j \in DOMAIN s, i < j
      PROVE  s[i] # Last /\ (s[i][1] = "read" => s[j][1] # "keys")
  <2>1. i \in DOMAIN a /\ s[i] = a[i] /\ ((j \in DOMAIN a /\ s[j] = a[j]) \/ s[j] = Last)
    BY <1>3, <1>5
  <2>2. Last[1] # "keys"
    BY DEF Last
  <2> QED
    BY <1>2, <1>5, <2>1, <2>2 DEF Part
<1>6. \A i \in DOMAIN a : i \in DOMAIN s /\ s[i] = a[i]
  BY <1>3
<1>7. \A c \in Counters : WillRead(s, c)
  BY <1>2, <1>6 DEF WillRead
<1>8. op = "regex" => \A m \in Maps : WillCollect(s, m)
  BY <1>2, <1>6 DEF WillCollect
<1>9. TodoOK(s)
  BY <1>4, <1>5 DEF TodoOK
<1>10. s = <<<<"check", None>>>> \o Plan(op) \o <<<<"reply", None>>>>
  BY DEF s, a, P, Check, Last
<1> QED
  BY <1>3, <1>4, <1>7, <1>8, <1>9, <1>10

\* A step that is not the answer leaves the others.
LEMMA RestOfTodo ==
    ASSUME NEW todo \in Seq(LambdaSteps), todo # <<>>, TodoOK(todo), Head(todo) # Last
    PROVE  /\ Tail(todo) \in Seq(LambdaSteps) /\ Tail(todo) # <<>> /\ TodoOK(Tail(todo))
           /\ \A c : WillRead(todo, c) =>
                 \/ WillRead(Tail(todo), c)
                 \/ \E ks \in SUBSET Keys : Head(todo) = <<"read", c[1], ks>> /\ c[2] \in ks
           /\ \A m : WillCollect(todo, m) =>
                 \/ WillCollect(Tail(todo), m)
                 \/ Head(todo) = <<"keys", m>>
           /\ Head(todo)[1] = "read" => \A m : ~WillCollect(todo, m)
<1> DEFINE s == Tail(todo)
           n == Len(todo)
<1>1. /\ n \in Nat /\ n > 0 /\ DOMAIN todo = 1 .. n /\ Head(todo) = todo[1]
      /\ s \in Seq(LambdaSteps) /\ Len(s) = n - 1 /\ DOMAIN s = 1 .. n - 1
      /\ \A i \in 1 .. n - 1 : s[i] = todo[i + 1]
  BY HeadTailProperties
<1>2. todo[n] = Last
  BY DEF TodoOK
<1> HIDE DEF s, n
<1>3. n > 1
  BY <1>1, <1>2
<1>4. s # <<>> /\ s[Len(s)] = Last
  BY <1>1, <1>2, <1>3
<1>5. ASSUME NEW i \in DOMAIN s, NEW j \in DOMAIN s, i < j
      PROVE  s[i] # Last /\ (s[i][1] = "read" => s[j][1] # "keys")
  <2>1. /\ i + 1 \in DOMAIN todo /\ j + 1 \in DOMAIN todo /\ i + 1 < j + 1
        /\ s[i] = todo[i + 1] /\ s[j] = todo[j + 1]
    BY <1>1, <1>5
  <2> QED
    BY <2>1 DEF TodoOK
<1>6. \A i \in DOMAIN todo : \/ todo[i] = Head(todo)
                             \/ i - 1 \in DOMAIN s /\ s[i - 1] = todo[i]
  BY <1>1
<1>7. ASSUME NEW c, WillRead(todo, c)
      PROVE  \/ WillRead(s, c)
             \/ \E ks \in SUBSET Keys : Head(todo) = <<"read", c[1], ks>> /\ c[2] \in ks
  BY <1>6, <1>7 DEF WillRead
<1>8. ASSUME NEW m, WillCollect(todo, m)
      PROVE  WillCollect(s, m) \/ Head(todo) = <<"keys", m>>
  BY <1>6, <1>8 DEF WillCollect
<1>9. ASSUME Head(todo)[1] = "read", NEW m PROVE ~WillCollect(todo, m)
  <2> SUFFICES ASSUME NEW i \in DOMAIN todo, todo[i] = <<"keys", m>> PROVE FALSE
    BY DEF WillCollect
  <2>1. i # 1 /\ todo[i][1] = "keys"
    BY <1>1, <1>9
  <2>2. 1 \in DOMAIN todo /\ 1 < i
    BY <1>1, <2>1
  <2> QED
    BY <1>1, <1>9, <2>1, <2>2 DEF TodoOK
<1>10. TodoOK(s)
  BY <1>4, <1>5 DEF TodoOK
<1> QED
  BY <1>1, <1>4, <1>7, <1>8, <1>9, <1>10 DEF s

\* When the answer is what is left to do, every map has been read.
LEMMA LastOfTodo ==
    ASSUME NEW todo \in Seq(LambdaSteps), todo # <<>>, TodoOK(todo), Head(todo) = Last
    PROVE  \A c : ~WillRead(todo, c)
<1>1. Len(todo) \in Nat /\ Len(todo) > 0 /\ DOMAIN todo = 1 .. Len(todo) /\ Head(todo) = todo[1]
  OBVIOUS
<1>2. \A j \in DOMAIN todo : ~(1 < j)
  BY <1>1 DEF TodoOK
<1>3. \A j \in DOMAIN todo : todo[j] = Last
  BY <1>1, <1>2
<1>4. \A m, ks : <<"read", m, ks>> # Last
  BY DEF Last
<1> QED
  BY <1>3, <1>4 DEF WillRead

-----------------------------------------------------------------------------
(***************************************************************************)
(* Every request is answered once                                          *)
(***************************************************************************)
\* A thread of the executor that has no lambda
LEMMA RestingFacts ==
    /\ Resting \in Lambda /\ Resting.req = None /\ Resting.todo = <<>> /\ Resting.outcome = None
    /\ Resting.steady = {} /\ Resting.seen = {}
<1>1. <<>> \in Seq(LambdaSteps)
  BY EmptyPart
<1> QED
  BY <1>1 DEF Resting, Lambda

\* What is known of a lambda that runs
LEMMA BusyFacts ==
    ASSUME ServiceInv, NEW w \in Workers, Busy(w)
    PROVE  /\ worker[w] \in Lambda /\ worker[w] # Resting /\ worker[w].req \in Req
           /\ worker[w].outcome = None /\ service # "gone"
           /\ worker[w].todo \in Seq(LambdaSteps)
           /\ worker[w].res \subseteq Counters /\ worker[w].keys \subseteq Keys
           /\ worker[w].steady \subseteq counters /\ counters \subseteq worker[w].seen
           /\ counters \subseteq Counters /\ LambdaOK(worker[w])
<1>1. worker[w] \in Lambda /\ counters \subseteq Counters
  BY DEF ServiceInv, ServiceTypes
<1>2. worker[w] # Resting
  BY RestingFacts DEF Busy
<1>3. worker[w].req \in Req /\ worker[w].outcome = None
  BY <1>2 DEF ServiceInv, WorkerOK
<1>4. service # "gone"
  BY <1>2 DEF ServiceInv, AnsweredOnce
<1>5. /\ worker[w].todo \in Seq(LambdaSteps)
      /\ worker[w].res \subseteq Counters /\ worker[w].keys \subseteq Keys
  BY <1>1 DEF Lambda
<1> QED
  BY <1>1, <1>2, <1>3, <1>4, <1>5 DEF ServiceInv, ReadInv

\* A step that neither takes a request nor answers one
LEMMA SameRequests ==
    ASSUME ServiceInv, UNCHANGED <<queue, replies>>, calls' \in 0 .. MaxCalls, calls <= calls',
           \A w \in Workers : (Busy(w)' <=> Busy(w)) /\ (Busy(w) => Running(w)' = Running(w)),
           service' = "gone" => queue = <<>> /\ \A w \in Workers : worker'[w] = Resting
    PROVE  RequestInv' /\ AnsweredOnce'
<1> USE SettingsAssumption
<1>1. RequestInv'
  <2>1. \A r \in Requests : r > calls' => r > calls
    BY DEF ServiceInv, ServiceTypes, Requests
  <2>2. \A w \in Workers : Busy(w)' => Busy(w) /\ worker'[w].req = worker[w].req
    BY DEF Running
  <2> QED
    BY <2>1, <2>2 DEF ServiceInv, RequestInv, Running
<1>2. ASSUME NEW r \in Requests, Asked(r)'
      PROVE  /\ replies'[r] <= 1
             /\ replies'[r] = 0 =>
                  \/ \E i \in DOMAIN queue' : queue'[i].id = r
                  \/ \E w \in Workers : worker'[w].todo # <<>> /\ worker'[w].req.id = r
  <2>1. Asked(r)
    BY <1>2 DEF Asked
  <2>2. \A w \in Workers : worker[w].todo # <<>> =>
                            worker'[w].todo # <<>> /\ worker'[w].req = worker[w].req
    BY DEF Busy, Running
  <2> QED
    BY <2>1, <2>2 DEF ServiceInv, AnsweredOnce, Running
<1> QED
  BY <1>1, <1>2 DEF AnsweredOnce, Running

\* Calls of other parts, and those that only turn a switch
LEMMA QuietKeeps ==
    ASSUME ServiceInv, UNCHANGED <<counters, queue, worker, replies>>,
           calls' \in 0 .. MaxCalls, calls <= calls', expires' \in BOOLEAN,
           service' \in {"up", "closing", "gone"},
           service' = "gone" => queue = <<>> /\ \A w \in Workers : worker[w] = Resting
    PROVE  ServiceInv'
<1>1. ServiceTypes'
  BY DEF ServiceInv, ServiceTypes
<1>2. \A w \in Workers : WorkerOK(w)'
  BY DEF ServiceInv, WorkerOK, Busy
<1>3. RequestInv' /\ AnsweredOnce'
  BY SameRequests DEF Busy, Running
<1>4. QueueInv' /\ ReadInv'
  BY DEF ServiceInv, QueueInv, ReadInv, Busy
<1> QED
  BY <1>1, <1>2, <1>3, <1>4 DEF ServiceInv

\* An answer is as good if fewer counters were there all along, and more at some time.
LEMMA ReportedKept ==
    ASSUME NEW l \in Lambda, NEW m \in Lambda, Reported(l), m.req = l.req, m.res = l.res,
           m.available = l.available, m.steady \subseteq l.steady, l.seen \subseteq m.seen
    PROVE  Reported(m)
<1> DEFINE due == Names(l.steady) \cap l.req.pattern
           got == Names(l.res)
           due2 == Names(m.steady) \cap l.req.pattern
<1>1. due2 \subseteq due /\ due \subseteq Keys /\ got \subseteq Keys
  BY DEF Names, Lambda, Counters
<1>2. IsFiniteSet(due \cup got) /\ due2 \cup got \in SUBSET (due \cup got)
  BY <1>1, ServiceAssumption, FS_Subset
<1> HIDE DEF due, got, due2
<1>3. /\ Cardinality(due2 \cup got) <= Cardinality(due \cup got)
      /\ Cardinality(due2 \cup got) \in Nat /\ Cardinality(due \cup got) \in Nat
  BY <1>2, FS_Subset, FS_CardinalityType
<1>4. l.available \in Nat /\ l.available >= Cardinality(due \cup got) =>
          l.available >= Cardinality(due2 \cup got)
  BY <1>3
<1>5. /\ l.res \subseteq l.seen /\ got \subseteq l.req.pattern
      /\ Cardinality(got) = Cardinality(l.res)
      /\ l.req.limit = None => due \ got = {}
      /\ l.req.limit # None =>
            /\ Cardinality(got) <= l.req.limit
            /\ l.available \in Nat /\ l.available >= Cardinality(due \cup got)
            /\ due \ got # {} => Cardinality(got) = l.req.limit
            /\ \A x \in due \ got, g \in got : g < x
  BY DEF Reported, due, got
<1>6. /\ m.res \subseteq m.seen /\ got \subseteq m.req.pattern
      /\ Cardinality(got) = Cardinality(m.res)
      /\ m.req.limit = None => due2 \ got = {}
      /\ m.req.limit # None =>
            /\ Cardinality(got) <= m.req.limit
            /\ m.available \in Nat /\ m.available >= Cardinality(due2 \cup got)
            /\ due2 \ got # {} => Cardinality(got) = m.req.limit
            /\ \A x \in due2 \ got, g \in got : g < x
  BY <1>1, <1>4, <1>5
<1>7. got = Names(m.res) /\ due2 = Names(m.steady) \cap m.req.pattern
  BY DEF got, due2
<1> QED
  BY <1>6, <1>7 DEF Reported

\* The counters change under the lambdas, and their histories with them.
LEMMA CountersKeep ==
    ASSUME ServiceInv, UNCHANGED <<queue, replies, expires, service>>,
           calls' \in 0 .. MaxCalls, calls <= calls', counters' \subseteq Counters,
           worker' \in [Workers -> Lambda],
           \A w \in Workers :
              /\ worker[w] = Resting => worker'[w] = Resting
              /\ worker'[w].req = worker[w].req /\ worker'[w].todo = worker[w].todo
              /\ worker'[w].keys = worker[w].keys /\ worker'[w].res = worker[w].res
              /\ worker'[w].available = worker[w].available
              /\ worker'[w].outcome = worker[w].outcome
              /\ worker'[w].steady \subseteq worker[w].steady
              /\ worker[w].seen \subseteq worker'[w].seen
              /\ Busy(w) => /\ worker'[w].steady \subseteq counters'
                            /\ counters' \subseteq worker'[w].seen
    PROVE  ServiceInv'
<1>1. ServiceTypes'
  BY DEF ServiceInv, ServiceTypes
<1>2. \A w \in Workers : WorkerOK(w)'
  BY DEF ServiceInv, WorkerOK, Busy
<1>3. RequestInv' /\ AnsweredOnce'
  <2>1. service' = "gone" => queue = <<>> /\ \A w \in Workers : worker'[w] = Resting
    BY DEF ServiceInv, AnsweredOnce
  <2> QED
    BY <2>1, SameRequests DEF Busy, Running
<1>4. QueueInv'
  BY DEF ServiceInv, QueueInv
<1>5. ASSUME NEW w \in Workers, Busy(w)' PROVE LambdaOK(worker'[w])
  <2>1. Busy(w)
    BY <1>5 DEF Busy
  <2>2. LambdaOK(worker[w])
    BY <2>1, BusyFacts
  <2> QED
    BY <2>2 DEF LambdaOK
<1>6. ASSUME NEW w \in Workers, worker'[w].outcome = "result" PROVE Reported(worker'[w])
  <2>1. Reported(worker[w]) /\ worker[w] \in Lambda /\ worker'[w] \in Lambda
    BY <1>6 DEF ServiceInv, ReadInv, ServiceTypes
  <2> QED
    BY <2>1, ReportedKept
<1>7. ReadInv'
  BY <1>5, <1>6 DEF ReadInv, Busy
<1> QED
  BY <1>1, <1>2, <1>3, <1>4, <1>7 DEF ServiceInv

\* A new counter has not been there all along for any lambda.
LEMMA AddCounterKeeps ==
    ASSUME ServiceInv, NEW t \in Threads, NEW c \in Counters, AddCounter(t, c)
    PROVE  ServiceInv'
<1> USE SettingsAssumption
<1>1. /\ UNCHANGED <<queue, replies, expires, service>> /\ counters' = counters \cup {c}
      /\ calls' \in 0 .. MaxCalls /\ calls <= calls'
  BY DEF AddCounter, OneCall, ServiceInv, ServiceTypes
<1>2. counters \subseteq Counters /\ worker \in [Workers -> Lambda]
  BY DEF ServiceInv, ServiceTypes
<1>3. ASSUME NEW w \in Workers
      PROVE  /\ worker'[w] \in Lambda
             /\ worker[w] = Resting => worker'[w] = Resting
             /\ worker'[w].req = worker[w].req /\ worker'[w].todo = worker[w].todo
             /\ worker'[w].keys = worker[w].keys /\ worker'[w].res = worker[w].res
             /\ worker'[w].available = worker[w].available
             /\ worker'[w].outcome = worker[w].outcome
             /\ worker'[w].steady = worker[w].steady
             /\ worker'[w].seen = IF worker[w] = Resting THEN worker[w].seen
                                  ELSE worker[w].seen \cup {c}
  <2>1. CASE worker[w] = Resting
    BY <2>1, RestingFacts DEF AddCounter
  <2>2. CASE worker[w] # Resting
    <3>1. worker'[w] = [worker[w] EXCEPT !.seen = @ \cup {c}]
      BY <2>2 DEF AddCounter
    <3>2. worker[w] \in Lambda /\ worker[w].seen \cup {c} \in SUBSET Counters
      BY <1>2 DEF Lambda
    <3> QED
      BY <2>2, <3>1, <3>2 DEF Lambda
  <2> QED
    BY <2>1, <2>2
<1>4. worker' \in [Workers -> Lambda]
  <2>1. worker' = [w \in Workers |-> worker'[w]]
    BY DEF AddCounter
  <2> QED
    BY <1>3, <2>1
<1>5. \A w \in Workers : Busy(w) => worker'[w].steady \subseteq counters'
                                    /\ counters' \subseteq worker'[w].seen
  <2> SUFFICES ASSUME NEW w \in Workers, Busy(w)
               PROVE  worker'[w].steady \subseteq counters' /\ counters' \subseteq worker'[w].seen
    OBVIOUS
  <2>1. /\ worker[w] # Resting /\ worker[w].steady \subseteq counters
        /\ counters \subseteq worker[w].seen
    BY BusyFacts
  <2>2. worker'[w].steady = worker[w].steady /\ worker'[w].seen = worker[w].seen \cup {c}
    BY <1>3, <2>1
  <2> QED BY <1>1, <2>1, <2>2
<1>6. \A w \in Workers : worker[w].seen \subseteq worker'[w].seen
                          /\ worker'[w].steady \subseteq worker[w].steady
  BY <1>3
<1>7. counters' \subseteq Counters
  BY <1>1, <1>2
<1> QED
  BY <1>1, <1>3, <1>4, <1>5, <1>6, <1>7, CountersKeep

\* A counter that is removed was not there all along either.
LEMMA RemoveCounterKeeps ==
    ASSUME ServiceInv, NEW t \in Threads, NEW c \in Counters, RemoveCounter(t, c)
    PROVE  ServiceInv'
<1> USE SettingsAssumption
<1>1. /\ UNCHANGED <<queue, replies, expires, service>> /\ counters' = counters \ {c}
      /\ calls' \in 0 .. MaxCalls /\ calls <= calls'
  BY DEF RemoveCounter, OneCall, ServiceInv, ServiceTypes
<1>2. counters \subseteq Counters /\ worker \in [Workers -> Lambda]
  BY DEF ServiceInv, ServiceTypes
<1>3. ASSUME NEW w \in Workers
      PROVE  /\ worker'[w] \in Lambda
             /\ worker[w] = Resting => worker'[w] = Resting
             /\ worker'[w].req = worker[w].req /\ worker'[w].todo = worker[w].todo
             /\ worker'[w].keys = worker[w].keys /\ worker'[w].res = worker[w].res
             /\ worker'[w].available = worker[w].available
             /\ worker'[w].outcome = worker[w].outcome
             /\ worker'[w].steady = worker[w].steady \ {c}
             /\ worker'[w].seen = worker[w].seen
  <2>1. worker'[w] = [worker[w] EXCEPT !.steady = @ \ {c}]
    BY DEF RemoveCounter
  <2>2. worker[w] \in Lambda /\ worker[w].steady \ {c} \in SUBSET Counters
    BY <1>2 DEF Lambda
  <2>3. worker[w] = Resting => worker'[w] = Resting
    <3> SUFFICES ASSUME worker[w] = Resting PROVE worker'[w] = Resting
      OBVIOUS
    <3>1. Resting.steady \ {c} = Resting.steady
      BY RestingFacts
    <3> QED
      BY <2>1, <3>1 DEF Resting
  <2> QED
    BY <2>1, <2>2, <2>3 DEF Lambda
<1>4. worker' \in [Workers -> Lambda]
  <2>1. worker' = [w \in Workers |-> worker'[w]]
    BY DEF RemoveCounter
  <2> QED
    BY <1>3, <2>1
<1>5. \A w \in Workers : Busy(w) => worker'[w].steady \subseteq counters'
                                    /\ counters' \subseteq worker'[w].seen
  BY <1>1, <1>3, BusyFacts
<1> QED
  BY <1>1, <1>2, <1>3, <1>4, <1>5, CountersKeep

\* A request is queued: its number is new.
LEMMA SubmitKeeps ==
    ASSUME ServiceInv, NEW t \in Threads, NEW op \in {"all", "selected", "regex"},
           NEW pattern \in SUBSET Keys, NEW limit \in Limits, op = "all" => pattern = Keys,
           Submit(t, op, pattern, limit)
    PROVE  ServiceInv'
<1> USE SettingsAssumption
<1> DEFINE r == [id |-> calls + 1, op |-> op, pattern |-> pattern, limit |-> limit]
<1>0. /\ ServiceTypes /\ RequestInv /\ AnsweredOnce /\ QueueInv
  BY DEF ServiceInv
<1>1. /\ calls \in Nat /\ calls < MaxCalls /\ calls' = calls + 1 /\ calls + 1 \in Requests
  BY <1>0 DEF ServiceTypes, Submit, OneCall, Requests
<1>2. r \in Req /\ r.id = calls + 1 /\ r.op = op /\ r.pattern = pattern
  BY <1>1 DEF Req
<1>3. /\ queue' = Append(queue, r) /\ replies' = [replies EXCEPT ![calls + 1] = 0]
      /\ UNCHANGED <<counters, worker, expires, service>> /\ service = "up"
  BY <1>1 DEF Submit
<1> HIDE DEF r
<1>4. /\ queue' \in Seq(Req) /\ Len(queue) \in Nat /\ DOMAIN queue = 1 .. Len(queue)
      /\ DOMAIN queue' = 1 .. Len(queue) + 1 /\ queue'[Len(queue) + 1] = r
      /\ \A i \in DOMAIN queue : queue'[i] = queue[i] /\ queue[i] \in Req
  BY <1>0, <1>2, <1>3 DEF ServiceTypes
<1>5. /\ replies' \in [Requests -> {None, 0, 1}] /\ replies'[calls + 1] = 0
      /\ \A x \in Requests \ {calls + 1} : replies'[x] = replies[x]
  BY <1>0, <1>1, <1>3 DEF ServiceTypes
<1>6. replies[calls + 1] = None /\ None # 0
  BY <1>0, <1>1, ServiceAssumption DEF RequestInv
<1>7. \A i \in DOMAIN queue : queue[i].id \in Requests \ {calls + 1}
  BY <1>0, <1>4, <1>6 DEF RequestInv, Req
<1>8. \A w \in Workers : Busy(w) => Running(w).id \in Requests \ {calls + 1}
  <2> SUFFICES ASSUME NEW w \in Workers, Busy(w) PROVE Running(w).id \in Requests \ {calls + 1}
    OBVIOUS
  <2>1. worker[w].req \in Req
    BY BusyFacts
  <2>2. worker[w].req.id \in Requests
    BY <2>1 DEF Req
  <2> QED
    BY <1>0, <1>6, <2>2 DEF RequestInv, Running
<1>9. ServiceTypes'
  BY <1>0, <1>1, <1>3, <1>4, <1>5 DEF ServiceTypes
<1>10. \A w \in Workers : WorkerOK(w)'
  BY <1>3 DEF ServiceInv, WorkerOK, Busy
<1>11. \A i \in DOMAIN queue' : i \in DOMAIN queue \/ i = Len(queue) + 1
  BY <1>4
<1>12. RequestInv'
  <2>1. \A x \in Requests : x > calls' => replies'[x] = None
    BY <1>0, <1>1, <1>5 DEF RequestInv, Requests
  <2>2. \A i \in DOMAIN queue' : replies'[queue'[i].id] = 0
    BY <1>0, <1>2, <1>4, <1>5, <1>7, <1>11 DEF RequestInv
  <2>3. \A i, j \in DOMAIN queue' : queue'[i].id = queue'[j].id => i = j
    BY <1>0, <1>2, <1>4, <1>7, <1>11 DEF RequestInv
  <2>4. \A w \in Workers : Busy(w)' => replies'[Running(w)'.id] = 0
    BY <1>0, <1>3, <1>5, <1>8 DEF RequestInv, Busy, Running
  <2>5. \A w \in Workers : Busy(w)' => \A i \in DOMAIN queue' : queue'[i].id # Running(w)'.id
    BY <1>0, <1>2, <1>3, <1>4, <1>8, <1>11 DEF RequestInv, Busy, Running
  <2>6. \A v, w \in Workers : Busy(v)' /\ Busy(w)' /\ Running(v)'.id = Running(w)'.id => v = w
    BY <1>0, <1>3 DEF RequestInv, Busy, Running
  <2> QED
    BY <2>1, <2>2, <2>3, <2>4, <2>5, <2>6 DEF RequestInv, Running
<1>13. AnsweredOnce'
  <2> SUFFICES ASSUME NEW x \in Requests, replies'[x] # None
               PROVE  /\ replies'[x] <= 1
                      /\ replies'[x] = 0 =>
                           \/ \E i \in DOMAIN queue' : queue'[i].id = x
                           \/ \E w \in Workers : worker'[w].todo # <<>> /\ worker'[w].req.id = x
    BY <1>3 DEF AnsweredOnce, Asked, Running
  <2>1. CASE x = calls + 1
    <3>1. Len(queue) + 1 \in DOMAIN queue'
      BY <1>4
    <3> QED
      BY <2>1, <1>2, <1>4, <1>5, <3>1
  <2>2. CASE x # calls + 1
    <3>1. replies'[x] = replies[x] /\ Asked(x)
      BY <1>5, <2>2 DEF Asked
    <3>2. \A i \in DOMAIN queue : i \in DOMAIN queue' /\ queue'[i] = queue[i]
      BY <1>4
    <3> QED
      BY <1>0, <1>3, <3>1, <3>2 DEF AnsweredOnce, Running
  <2> QED
    BY <2>1, <2>2
<1>14. QueueInv'
  BY <1>0, <1>2, <1>4, <1>11 DEF QueueInv
<1>15. ReadInv'
  BY <1>3 DEF ServiceInv, ReadInv, Busy
<1> QED
  BY <1>9, <1>10, <1>12, <1>13, <1>14, <1>15 DEF ServiceInv

\* The oldest request is taken, and its lambda starts.
LEMMA DequeueKeeps ==
    ASSUME ServiceInv, NEW w \in Workers, Dequeue(w)
    PROVE  ServiceInv'
<1> DEFINE r == Head(queue)
           todo == <<<<"check", None>>>> \o Plan(r.op) \o <<<<"reply", None>>>>
           keys == IF r.op = "selected" THEN r.pattern ELSE {}
           l == [Resting EXCEPT !.req = r, !.todo = todo, !.keys = keys,
                                !.steady = counters, !.seen = counters]
<1>0. /\ ServiceTypes /\ RequestInv /\ AnsweredOnce /\ QueueInv /\ ReadInv
      /\ worker[w] = Resting /\ queue # <<>> /\ queue \in Seq(Req)
  BY DEF ServiceInv, Dequeue, ServiceTypes
<1>1. /\ queue' = Tail(queue) /\ worker' = [worker EXCEPT ![w] = l]
      /\ UNCHANGED <<calls, counters, expires, replies, service>>
  BY DEF Dequeue, Set
<1>2. /\ Len(queue) \in Nat /\ Len(queue) > 0 /\ DOMAIN queue = 1 .. Len(queue)
      /\ r = queue[1] /\ r \in Req /\ 1 \in DOMAIN queue
      /\ queue' \in Seq(Req) /\ DOMAIN queue' = 1 .. Len(queue) - 1
      /\ \A i \in DOMAIN queue' : i + 1 \in DOMAIN queue /\ queue'[i] = queue[i + 1] /\ i + 1 # 1
  BY <1>0, <1>1, HeadTailProperties
<1>3. /\ todo \in Seq(LambdaSteps) /\ todo # <<>> /\ TodoOK(todo)
      /\ \A c \in Counters : WillRead(todo, c)
      /\ r.op = "regex" => \A m \in Maps : WillCollect(todo, m)
      /\ keys \in SUBSET Keys /\ r.pattern \in SUBSET Keys
  <2>1. r.op \in {"all", "selected", "regex"} /\ r.pattern \in SUBSET Keys
    BY <1>2 DEF Req
  <2> HIDE DEF r
  <2> QED
    BY <2>1, FreshTodo
<1>4. r.op = "all" => r.pattern = Keys
  BY <1>0, <1>2 DEF QueueInv
<1>5. keys \subseteq r.pattern /\ (r.op = "selected" => keys = r.pattern)
  OBVIOUS
<1> HIDE DEF r, todo, keys
<1>6. counters \in SUBSET Counters
  BY <1>0 DEF ServiceTypes
<1>7. /\ l \in Lambda /\ l.req = r /\ l.todo = todo /\ l.keys = keys /\ l.res = {}
      /\ l.available = None /\ l.outcome = None /\ l.steady = counters /\ l.seen = counters
  BY <1>2, <1>3, <1>6 DEF Resting, Lambda
<1> HIDE DEF l
<1>8. /\ worker' \in [Workers -> Lambda] /\ worker'[w] = l
      /\ \A v \in Workers \ {w} : worker'[v] = worker[v]
  BY <1>0, <1>1, <1>7 DEF ServiceTypes
<1>9. Busy(w)' /\ ~Busy(w) /\ \A v \in Workers \ {w} : Busy(v)' <=> Busy(v)
  BY <1>0, <1>3, <1>7, <1>8, RestingFacts DEF Busy
<1>10. ServiceTypes'
  BY <1>0, <1>1, <1>2, <1>8 DEF ServiceTypes
<1>11. \A v \in Workers : WorkerOK(v)'
  BY <1>2, <1>3, <1>7, <1>8 DEF ServiceInv, WorkerOK, Busy
<1>12. service # "gone"
  BY <1>0 DEF AnsweredOnce
<1>13. RequestInv'
  <2>1. \A x \in Requests : x > calls' => replies'[x] = None
    BY <1>0, <1>1 DEF RequestInv
  <2>2. \A i \in DOMAIN queue' : replies'[queue'[i].id] = 0 /\ queue'[i].id # r.id
    BY <1>0, <1>1, <1>2 DEF RequestInv
  <2>3. \A i, j \in DOMAIN queue' : queue'[i].id = queue'[j].id => i = j
    <3> SUFFICES ASSUME NEW i \in DOMAIN queue', NEW j \in DOMAIN queue',
                        queue'[i].id = queue'[j].id
                 PROVE  i = j
      OBVIOUS
    <3>1. i + 1 = j + 1
      BY <1>0, <1>2 DEF RequestInv
    <3> QED
      BY <1>2, <3>1
  <2>4. replies[r.id] = 0 /\ \A v \in Workers : Busy(v) => Running(v).id # r.id
    BY <1>0, <1>2 DEF RequestInv
  <2>5. \A v \in Workers : Busy(v)' => replies'[worker'[v].req.id] = 0
    BY <1>0, <1>1, <1>7, <1>8, <1>9, <2>4 DEF RequestInv, Running
  <2>6. \A v \in Workers : Busy(v)' => \A i \in DOMAIN queue' : queue'[i].id # worker'[v].req.id
    BY <1>0, <1>2, <1>7, <1>8, <1>9, <2>2 DEF RequestInv, Running
  <2>7. \A v, x \in Workers : Busy(v)' /\ Busy(x)' /\ worker'[v].req.id = worker'[x].req.id => v = x
    BY <1>0, <1>7, <1>8, <1>9, <2>4 DEF RequestInv, Running
  <2> QED
    BY <2>1, <2>2, <2>3, <2>5, <2>6, <2>7 DEF RequestInv, Running
<1>14. AnsweredOnce'
  <2> SUFFICES ASSUME NEW x \in Requests, replies'[x] # None
               PROVE  /\ replies'[x] <= 1
                      /\ replies'[x] = 0 =>
                           \/ \E i \in DOMAIN queue' : queue'[i].id = x
                           \/ \E v \in Workers : worker'[v].todo # <<>> /\ worker'[v].req.id = x
    BY <1>1, <1>12 DEF AnsweredOnce, Asked, Running
  <2>1. /\ replies[x] <= 1 /\ replies'[x] = replies[x]
        /\ replies[x] = 0 => \/ \E i \in DOMAIN queue : queue[i].id = x
                             \/ \E v \in Workers : Busy(v) /\ worker[v].req.id = x
    BY <1>0, <1>1 DEF AnsweredOnce, Asked, Busy, Running
  <2>2. CASE \E i \in DOMAIN queue : queue[i].id = x
    <3>1. PICK i \in DOMAIN queue : queue[i].id = x
      BY <2>2
    <3>2. CASE i = 1
      BY <1>2, <1>3, <1>7, <1>8, <2>1, <3>1, <3>2
    <3>3. CASE i # 1
      <4>1. i - 1 \in DOMAIN queue' /\ (i - 1) + 1 = i
        BY <1>2, <3>3
      <4>2. queue'[i - 1] = queue[i]
        BY <1>2, <4>1
      <4> QED
        BY <2>1, <3>1, <4>1, <4>2
    <3> QED
      BY <3>2, <3>3
  <2>3. CASE \E v \in Workers : Busy(v) /\ worker[v].req.id = x
    BY <1>8, <1>9, <2>1, <2>3 DEF Busy
  <2> QED
    BY <2>1, <2>2, <2>3
<1>15. QueueInv'
  BY <1>0, <1>2 DEF QueueInv
<1>16. LambdaOK(l)
  <2>1. Names(l.res) = {} /\ OnePerName(l.res)
    BY <1>7 DEF Names, OnePerName
  <2>2. \A c \in counters : c \in Counters /\ c[1] \in Maps
    BY <1>6 DEF Counters
  <2> QED
    BY <1>3, <1>4, <1>5, <1>7, <2>1, <2>2 DEF LambdaOK
<1>17. l.outcome # "result"
  BY <1>7, ServiceAssumption
<1>18. ReadInv'
  <2> SUFFICES ASSUME NEW v \in Workers
               PROVE  /\ Busy(v)' => /\ worker'[v].steady \subseteq counters'
                                     /\ counters' \subseteq worker'[v].seen
                                     /\ LambdaOK(worker'[v])
                      /\ worker'[v].outcome = "result" => Reported(worker'[v])
    BY DEF ReadInv
  <2>1. CASE v = w
    BY <2>1, <1>1, <1>7, <1>8, <1>16, <1>17
  <2>2. CASE v # w
    BY <2>2, <1>0, <1>1, <1>8, <1>9 DEF ReadInv
  <2> QED
    BY <2>1, <2>2
<1> QED
  BY <1>10, <1>11, <1>13, <1>14, <1>15, <1>18 DEF ServiceInv

\* A step of a lambda that is not its answer
LEMMA ProgressKeeps ==
    ASSUME ServiceInv, NEW w \in Workers, Busy(w), NEW l \in Lambda,
           worker' = [worker EXCEPT ![w] = l],
           l.req = worker[w].req, l.todo # <<>>, l.outcome = None,
           l.steady = worker[w].steady, l.seen = worker[w].seen, LambdaOK(l),
           UNCHANGED <<calls, counters, queue, expires, replies, service>>
    PROVE  ServiceInv'
<1>0. ServiceTypes /\ QueueInv /\ ReadInv
  BY DEF ServiceInv
<1>1. /\ worker[w].req \in Req /\ service # "gone"
      /\ worker[w].steady \subseteq counters /\ counters \subseteq worker[w].seen
  BY BusyFacts
<1>2. /\ worker' \in [Workers -> Lambda] /\ worker'[w] = l
      /\ \A v \in Workers \ {w} : worker'[v] = worker[v]
  BY <1>0 DEF ServiceTypes
<1>3. ServiceTypes'
  BY <1>0, <1>2 DEF ServiceTypes
<1>4. \A v \in Workers : WorkerOK(v)'
  BY <1>1, <1>2 DEF ServiceInv, WorkerOK, Busy
<1>5. RequestInv' /\ AnsweredOnce'
  <2>1. calls \in 0 .. MaxCalls /\ calls <= calls
    BY <1>0, SettingsAssumption DEF ServiceTypes
  <2>2. \A v \in Workers : (Busy(v)' <=> Busy(v)) /\ (Busy(v) => Running(v)' = Running(v))
    BY <1>2 DEF Busy, Running
  <2> QED
    BY <1>1, <2>1, <2>2, SameRequests
<1>6. QueueInv'
  BY <1>0 DEF QueueInv
<1>7. l.outcome # "result"
  BY ServiceAssumption
<1>8. ReadInv'
  <2> SUFFICES ASSUME NEW v \in Workers
               PROVE  /\ Busy(v)' => /\ worker'[v].steady \subseteq counters'
                                     /\ counters' \subseteq worker'[v].seen
                                     /\ LambdaOK(worker'[v])
                      /\ worker'[v].outcome = "result" => Reported(worker'[v])
    BY DEF ReadInv
  <2>1. CASE v = w
    BY <2>1, <1>1, <1>2, <1>7
  <2>2. CASE v # w
    BY <2>2, <1>0, <1>2 DEF ReadInv, Busy
  <2> QED
    BY <2>1, <2>2
<1> QED
  BY <1>3, <1>4, <1>5, <1>6, <1>8 DEF ServiceInv

\* The answer: it is the only one for its request.
LEMMA AnswerKeeps ==
    ASSUME ServiceInv, NEW w \in Workers, Busy(w),
           NEW outcome \in {"timeout", "exception", "result"},
           NEW kept \in SUBSET Counters, NEW available \in Nat \cup {None},
           Answer(w, outcome, kept, available),
           outcome = "result" =>
              Reported([worker[w] EXCEPT !.todo = <<>>, !.res = kept,
                                         !.available = available, !.outcome = outcome]),
           UNCHANGED <<calls, counters, queue, expires, service>>
    PROVE  ServiceInv'
<1> DEFINE l == [worker[w] EXCEPT !.todo = <<>>, !.res = kept,
                                  !.available = available, !.outcome = outcome]
<1>0. ServiceTypes /\ RequestInv /\ AnsweredOnce /\ QueueInv /\ ReadInv
  BY DEF ServiceInv
<1>1. worker[w] \in Lambda /\ worker[w].req \in Req /\ service # "gone"
  BY BusyFacts
<1>2. PICK r \in Requests : r = worker[w].req.id
  BY <1>1 DEF Req
<1>3. worker' = [worker EXCEPT ![w] = l] /\ replies' = [replies EXCEPT ![r] = replies[r] + 1]
  BY <1>2 DEF Answer, Set, Running
<1>4. replies[r] = 0
  BY <1>0, <1>2 DEF RequestInv, Running
<1>5. /\ l \in Lambda /\ l.req = worker[w].req /\ l.todo = <<>> /\ l.outcome = outcome
  <2>1. <<>> \in Seq(LambdaSteps)
    BY EmptyPart
  <2> QED
    BY <1>1, <2>1 DEF Lambda
<1>6. outcome = "result" => Reported(l)
  OBVIOUS
<1> HIDE DEF l
<1>7. /\ worker' \in [Workers -> Lambda] /\ worker'[w] = l
      /\ \A v \in Workers \ {w} : worker'[v] = worker[v]
  BY <1>0, <1>3, <1>5 DEF ServiceTypes
<1>8. /\ replies' \in [Requests -> {None, 0, 1}] /\ replies'[r] = 1
      /\ \A x \in Requests \ {r} : replies'[x] = replies[x]
  BY <1>0, <1>3, <1>4 DEF ServiceTypes
<1>9. ~Busy(w)' /\ \A v \in Workers \ {w} : Busy(v)' <=> Busy(v)
  BY <1>5, <1>7 DEF Busy
<1>10. ServiceTypes'
  BY <1>0, <1>7, <1>8 DEF ServiceTypes
<1>11. \A v \in Workers : WorkerOK(v)'
  <2>1. outcome # None
    BY ServiceAssumption
  <2> QED
    BY <1>1, <1>5, <1>7, <2>1 DEF ServiceInv, WorkerOK, Busy
<1>12. \A i \in DOMAIN queue : queue[i].id \in Requests \ {r}
  <2>1. \A i \in DOMAIN queue : queue[i] \in Req
    BY <1>0 DEF ServiceTypes
  <2>2. \A i \in DOMAIN queue : queue[i].id \in Requests
    BY <2>1 DEF Req
  <2> QED
    BY <1>0, <1>2, <2>2 DEF RequestInv, Running
<1>13. \A v \in Workers \ {w} : Busy(v) => worker[v].req.id \in Requests \ {r}
  <2>1. \A v \in Workers \ {w} : Busy(v) => worker[v].req.id \in Requests
    BY BusyFacts DEF Req
  <2> QED
    BY <1>0, <1>2, <2>1 DEF RequestInv, Running
<1>14. RequestInv'
  <2>1. \A x \in Requests : x > calls' => replies'[x] = None
    <3>1. None # 0
      BY ServiceAssumption
    <3> QED
      BY <1>0, <1>4, <1>8, <3>1 DEF RequestInv
  <2>2. \A i \in DOMAIN queue' : replies'[queue'[i].id] = 0
    BY <1>0, <1>8, <1>12 DEF RequestInv
  <2>3. \A i, j \in DOMAIN queue' : queue'[i].id = queue'[j].id => i = j
    BY <1>0 DEF RequestInv
  <2>4. \A v \in Workers : Busy(v)' => replies'[worker'[v].req.id] = 0
    BY <1>0, <1>7, <1>8, <1>9, <1>13 DEF RequestInv, Running
  <2>5. \A v \in Workers : Busy(v)' => \A i \in DOMAIN queue' : queue'[i].id # worker'[v].req.id
    BY <1>0, <1>7, <1>9 DEF RequestInv, Running
  <2>6. \A v, x \in Workers : Busy(v)' /\ Busy(x)' /\ worker'[v].req.id = worker'[x].req.id => v = x
    BY <1>0, <1>7, <1>9 DEF RequestInv, Running
  <2> QED
    BY <2>1, <2>2, <2>3, <2>4, <2>5, <2>6 DEF RequestInv, Running
<1>15. AnsweredOnce'
  <2> SUFFICES ASSUME NEW x \in Requests, replies'[x] # None
               PROVE  /\ replies'[x] <= 1
                      /\ replies'[x] = 0 =>
                           \/ \E i \in DOMAIN queue' : queue'[i].id = x
                           \/ \E v \in Workers : worker'[v].todo # <<>> /\ worker'[v].req.id = x
    BY <1>1 DEF AnsweredOnce, Asked, Running
  <2>1. CASE x = r
    BY <1>8, <2>1
  <2>2. CASE x # r
    <3>1. /\ replies[x] <= 1 /\ replies'[x] = replies[x]
          /\ replies[x] = 0 => \/ \E i \in DOMAIN queue : queue[i].id = x
                               \/ \E v \in Workers : Busy(v) /\ worker[v].req.id = x
      BY <1>0, <1>8, <2>2 DEF AnsweredOnce, Asked, Busy, Running
    <3>2. \A v \in Workers : Busy(v) /\ worker[v].req.id = x =>
                                worker'[v].todo # <<>> /\ worker'[v].req.id = x
      BY <1>2, <1>7, <2>2 DEF Busy
    <3> QED
      BY <3>1, <3>2
  <2> QED
    BY <2>1, <2>2
<1>16. QueueInv'
  BY <1>0 DEF QueueInv
<1>17. ReadInv'
  <2> SUFFICES ASSUME NEW v \in Workers
               PROVE  /\ Busy(v)' => /\ worker'[v].steady \subseteq counters'
                                     /\ counters' \subseteq worker'[v].seen
                                     /\ LambdaOK(worker'[v])
                      /\ worker'[v].outcome = "result" => Reported(worker'[v])
    BY DEF ReadInv
  <2>1. CASE v = w
    BY <2>1, <1>5, <1>6, <1>7, <1>9
  <2>2. CASE v # w
    BY <2>2, <1>0, <1>7, <1>9 DEF ReadInv
  <2> QED
    BY <2>1, <2>2
<1> QED
  BY <1>10, <1>11, <1>14, <1>15, <1>16, <1>17 DEF ServiceInv

\* A lambda that has answered is destroyed.
LEMMA ReleaseKeeps ==
    ASSUME ServiceInv, NEW w \in Workers, Release(w)
    PROVE  ServiceInv'
<1>0. ServiceTypes /\ QueueInv /\ ReadInv /\ WorkerOK(w) /\ worker[w].outcome # None
  BY DEF ServiceInv, Release
<1>1. worker' = [worker EXCEPT ![w] = Resting]
      /\ UNCHANGED <<calls, counters, queue, expires, replies, service>>
  BY DEF Release, Set
<1>2. ~Busy(w) /\ worker[w] # Resting
  BY <1>0, RestingFacts DEF WorkerOK
<1>3. /\ worker' \in [Workers -> Lambda] /\ worker'[w] = Resting
      /\ \A v \in Workers \ {w} : worker'[v] = worker[v]
  BY <1>0, <1>1, RestingFacts DEF ServiceTypes
<1>4. ServiceTypes'
  BY <1>0, <1>1, <1>3 DEF ServiceTypes
<1>5. \A v \in Workers : WorkerOK(v)'
  BY <1>3 DEF ServiceInv, WorkerOK, Busy
<1>6. RequestInv' /\ AnsweredOnce'
  <2>1. calls' \in 0 .. MaxCalls /\ calls <= calls' /\ UNCHANGED <<queue, replies>>
    BY <1>0, <1>1, SettingsAssumption DEF ServiceTypes
  <2>2. \A v \in Workers : (Busy(v)' <=> Busy(v)) /\ (Busy(v) => Running(v)' = Running(v))
    BY <1>2, <1>3, RestingFacts DEF Busy, Running
  <2>3. service' # "gone"
    BY <1>1, <1>2 DEF ServiceInv, AnsweredOnce
  <2> QED
    BY <2>1, <2>2, <2>3, SameRequests
<1>7. QueueInv'
  BY <1>0, <1>1 DEF QueueInv
<1>8. ReadInv'
  <2> SUFFICES ASSUME NEW v \in Workers
               PROVE  /\ Busy(v)' => /\ worker'[v].steady \subseteq counters'
                                     /\ counters' \subseteq worker'[v].seen
                                     /\ LambdaOK(worker'[v])
                      /\ worker'[v].outcome = "result" => Reported(worker'[v])
    BY DEF ReadInv
  <2>1. CASE v = w
    BY <2>1, <1>3, RestingFacts, ServiceAssumption DEF Busy
  <2>2. CASE v # w
    BY <2>2, <1>0, <1>1, <1>3 DEF ReadInv, Busy
  <2> QED
    BY <2>1, <2>2
<1> QED
  BY <1>4, <1>5, <1>6, <1>7, <1>8 DEF ServiceInv

-----------------------------------------------------------------------------
(***************************************************************************)
(* An answer holds the counters that were there all along                  *)
(***************************************************************************)
\* What is found in a map is merged: no name is lost, and none is there twice.
LEMMA MergeKeeps ==
    ASSUME NEW op, NEW map, NEW res, NEW new, OnePerName(res),
           res \subseteq Counters, new \subseteq Counters, \A c \in new : c[1] = map
    PROVE  LET merged == Merge(op, map, res, new)
           IN  /\ merged \subseteq res \cup new /\ OnePerName(merged)
               /\ Names(merged) = Names(res) \cup Names(new)
<1> DEFINE keeping == res \cup {p \in new : p[2] \notin Names(res)}
           replacing == new \cup {p \in res : p[2] \notin Names(new)}
<1>1. Merge(op, map, res, new) \in {keeping, replacing}
  BY DEF Merge, Names
<1>2. \A p, q \in new : p[2] = q[2] => p = q
  BY DEF Counters
<1>3. keeping \subseteq res \cup new /\ replacing \subseteq res \cup new
  OBVIOUS
<1>4. /\ \A p \in res : p[2] \in Names(res)
      /\ \A p \in new : p[2] \in Names(new)
      /\ \A k \in Names(res) : \E p \in res : p[2] = k
      /\ \A k \in Names(new) : \E p \in new : p[2] = k
  BY DEF Names
<1>5. OnePerName(keeping) /\ OnePerName(replacing)
  BY <1>2, <1>4 DEF OnePerName
<1>6. Names(keeping) = Names(res) \cup Names(new)
  <2>1. \A k \in Names(res) \cup Names(new) : \E p \in keeping : p[2] = k
    BY <1>4
  <2>2. \A p \in keeping : p[2] \in Names(res) \cup Names(new)
    BY <1>4
  <2> HIDE DEF keeping
  <2> QED
    BY <2>1, <2>2 DEF Names
<1>7. Names(replacing) = Names(res) \cup Names(new)
  <2>1. \A k \in Names(res) \cup Names(new) : \E p \in replacing : p[2] = k
    BY <1>4
  <2>2. \A p \in replacing : p[2] \in Names(res) \cup Names(new)
    BY <1>4
  <2> HIDE DEF replacing
  <2> QED
    BY <2>1, <2>2 DEF Names
<1> QED
  BY <1>1, <1>3, <1>5, <1>6, <1>7

\* A step that only goes on
LEMMA CheckKeeps ==
    ASSUME ServiceInv, NEW w \in Workers, CheckExpiration(w)
    PROVE  ServiceInv'
<1> DEFINE l == [worker[w] EXCEPT !.todo = Tail(worker[w].todo)]
<1>0. Busy(w) /\ Head(worker[w].todo) = Check
  BY DEF CheckExpiration, Doing, Busy, Check
<1>1. UNCHANGED <<calls, counters, queue, expires, service>>
  BY DEF CheckExpiration
<1>2. CASE Answer(w, "timeout", {}, None)
  BY <1>0, <1>1, <1>2, AnswerKeeps
<1>3. CASE worker' = [worker EXCEPT ![w] = l] /\ UNCHANGED replies
  <2>1. /\ worker[w] \in Lambda /\ worker[w].todo \in Seq(LambdaSteps)
        /\ LambdaOK(worker[w]) /\ worker[w].outcome = None
        /\ worker[w].todo # <<>> /\ TodoOK(worker[w].todo) /\ Check # Last
        /\ (\A m : Check # <<"keys", m>>) /\ \A m, ks : Check # <<"read", m, ks>>
    BY <1>0, BusyFacts DEF Busy, LambdaOK, Check, Last
  <2> DEFINE rest == Tail(worker[w].todo)
  <2>2. /\ rest \in Seq(LambdaSteps) /\ rest # <<>> /\ TodoOK(rest)
        /\ \A c : WillRead(worker[w].todo, c) => WillRead(rest, c)
        /\ \A m : WillCollect(worker[w].todo, m) => WillCollect(rest, m)
    BY <1>0, <2>1, RestOfTodo
  <2> HIDE DEF rest
  <2>3. /\ l \in Lambda /\ l.req = worker[w].req /\ l.todo = rest /\ l.keys = worker[w].keys
        /\ l.res = worker[w].res /\ l.outcome = worker[w].outcome
        /\ l.steady = worker[w].steady /\ l.seen = worker[w].seen
    BY <2>1, <2>2 DEF Lambda, rest
  <2> HIDE DEF l
  <2>4. LambdaOK(l)
    BY <2>1, <2>2, <2>3 DEF LambdaOK
  <2> QED
    BY <1>0, <1>1, <1>3, <2>1, <2>2, <2>3, <2>4, ProgressKeeps
<1> QED
  BY <1>2, <1>3 DEF CheckExpiration, Set

\* The keys of a map that the regex matches are collected.
LEMMA SnapshotKeeps ==
    ASSUME ServiceInv, NEW w \in Workers, NEW map \in Maps, SnapshotKeys(w, map)
    PROVE  ServiceInv'
<1> DEFINE found == {k \in worker[w].req.pattern : <<map, k>> \in counters}
           rest == Tail(worker[w].todo)
           l == [worker[w] EXCEPT !.todo = rest, !.keys = worker[w].keys \cup found]
<1>0. /\ Busy(w) /\ Head(worker[w].todo) = <<"keys", map>>
      /\ worker' = [worker EXCEPT ![w] = l]
      /\ UNCHANGED <<calls, counters, queue, expires, replies, service>>
  BY DEF SnapshotKeys, Doing, Busy, Set, Running
<1>1. /\ worker[w] \in Lambda /\ worker[w].req \in Req /\ worker[w].todo \in Seq(LambdaSteps)
      /\ worker[w].keys \subseteq Keys /\ counters \subseteq Counters
      /\ worker[w].steady \subseteq counters /\ worker[w].outcome = None
      /\ LambdaOK(worker[w])
  BY <1>0, BusyFacts
<1>2. /\ worker[w].todo # <<>> /\ TodoOK(worker[w].todo) /\ <<"keys", map>> # Last
      /\ \A m, ks : <<"keys", map>> # <<"read", m, ks>>
  BY <1>0, <1>1 DEF Busy, LambdaOK, Last
<1>3. /\ rest \in Seq(LambdaSteps) /\ rest # <<>> /\ TodoOK(rest)
      /\ \A c : WillRead(worker[w].todo, c) => WillRead(rest, c)
      /\ \A m : WillCollect(worker[w].todo, m) => WillCollect(rest, m) \/ m = map
  <2> DEFINE head == Head(worker[w].todo)
  <2>1. /\ head # Last /\ (\A m, ks : head # <<"read", m, ks>>)
        /\ \A m : head = <<"keys", m>> => m = map
    <3>1. head = <<"keys", map>> /\ head[1] = "keys" /\ head[2] = map
      BY <1>0
    <3>2. \A m, ks : <<"read", m, ks>>[1] = "read"
      OBVIOUS
    <3>3. \A m : <<"keys", m>>[2] = m
      OBVIOUS
    <3>4. Last[1] = "reply"
      BY DEF Last
    <3> HIDE DEF head
    <3> QED
      BY <3>1, <3>2, <3>3, <3>4
  <2> HIDE DEF head
  <2>2. /\ rest \in Seq(LambdaSteps) /\ rest # <<>> /\ TodoOK(rest)
        /\ \A c : WillRead(worker[w].todo, c) =>
              \/ WillRead(rest, c)
              \/ \E ks \in SUBSET Keys : head = <<"read", c[1], ks>> /\ c[2] \in ks
        /\ \A m : WillCollect(worker[w].todo, m) => WillCollect(rest, m) \/ head = <<"keys", m>>
    BY <1>1, <1>2, <2>1, RestOfTodo DEF head
  <2> QED
    BY <2>1, <2>2
<1>4. found \subseteq worker[w].req.pattern /\ worker[w].req.pattern \subseteq Keys
  BY <1>1 DEF Req
<1>5. \A c \in counters : c[1] = map /\ c[2] \in worker[w].req.pattern => c[2] \in found
  BY <1>1 DEF Counters
<1> HIDE DEF found, rest
<1>6. /\ l \in Lambda /\ l.req = worker[w].req /\ l.todo = rest
      /\ l.keys = worker[w].keys \cup found
      /\ l.res = worker[w].res /\ l.outcome = worker[w].outcome
      /\ l.steady = worker[w].steady /\ l.seen = worker[w].seen
  BY <1>1, <1>3, <1>4 DEF Lambda
<1> HIDE DEF l
<1>7. LambdaOK(l)
  BY <1>1, <1>3, <1>4, <1>5, <1>6 DEF LambdaOK
<1> QED
  BY <1>0, <1>1, <1>3, <1>6, <1>7, ProgressKeeps

\* A map is read: what it has all along is in the output from then on.
LEMMA ReadMapKeeps ==
    ASSUME ServiceInv, NEW w \in Workers, NEW map \in Maps, NEW keys \in SUBSET Keys,
           ReadMap(w, map, keys)
    PROVE  ServiceInv'
<1> DEFINE W == worker[w]
           rest == Tail(worker[w].todo)
           new == Sought(w, map, keys)
           merged == Merge(worker[w].req.op, map, worker[w].res, new)
           l == [worker[w] EXCEPT !.todo = rest, !.res = merged]
<1>0. /\ Busy(w) /\ Head(worker[w].todo) = <<"read", map, keys>>
      /\ worker' = [worker EXCEPT ![w] = l]
      /\ UNCHANGED <<calls, counters, queue, expires, replies, service>>
  BY DEF ReadMap, Doing, Busy, Set, Running
<1>1. /\ W \in Lambda /\ W.req \in Req /\ W.todo \in Seq(LambdaSteps)
      /\ W.keys \subseteq Keys /\ counters \subseteq Counters /\ W.res \subseteq Counters
      /\ W.steady \subseteq counters /\ counters \subseteq W.seen /\ W.outcome = None
      /\ LambdaOK(W)
  BY <1>0, BusyFacts
<1>2. /\ W.todo # <<>> /\ TodoOK(W.todo) /\ <<"read", map, keys>> # Last
      /\ OnePerName(W.res) /\ W.res \subseteq W.seen /\ Names(W.res) \subseteq W.req.pattern
  BY <1>0, <1>1 DEF Busy, LambdaOK, Last
<1>3. /\ rest \in Seq(LambdaSteps) /\ rest # <<>> /\ TodoOK(rest)
      /\ \A c : WillRead(W.todo, c) => WillRead(rest, c) \/ (c[1] = map /\ c[2] \in keys)
      /\ \A m : ~WillCollect(W.todo, m)
  <2>1. Head(W.todo)[1] = "read"
    BY <1>0
  <2>2. \A c, ks : <<"read", map, keys>> = <<"read", c[1], ks>> /\ c[2] \in ks =>
                      c[1] = map /\ c[2] \in keys
    OBVIOUS
  <2> QED
    BY <1>0, <1>1, <1>2, <2>1, <2>2, RestOfTodo
<1>4. /\ new \subseteq counters /\ \A c \in new : c[1] = map
      /\ \A c \in new : W.req.op = "all" \/ c[2] \in W.keys
      /\ \A c \in counters : c[1] = map /\ c[2] \in keys
                               /\ (W.req.op = "all" \/ c[2] \in W.keys) => c \in new
  BY DEF Sought, Running
<1>5. Names(new) \subseteq W.req.pattern
  <2> SUFFICES ASSUME NEW c \in new PROVE c[2] \in W.req.pattern
    BY DEF Names
  <2>1. c[2] \in Keys
    BY <1>1, <1>4 DEF Counters
  <2> QED
    BY <1>1, <1>4, <2>1 DEF LambdaOK
<1> HIDE DEF new, rest
<1>6. /\ merged \subseteq W.res \cup new /\ OnePerName(merged)
      /\ Names(merged) = Names(W.res) \cup Names(new)
  <2>1. new \subseteq Counters
    BY <1>1, <1>4
  <2> QED
    BY <1>1, <1>2, <1>4, <2>1, MergeKeeps
<1> HIDE DEF merged
<1>7. /\ l \in Lambda /\ l.req = W.req /\ l.todo = rest /\ l.keys = W.keys
      /\ l.res = merged /\ l.outcome = W.outcome
      /\ l.steady = W.steady /\ l.seen = W.seen
  <2>1. merged \in SUBSET Counters
    BY <1>1, <1>4, <1>6
  <2> QED
    BY <1>1, <1>3, <2>1 DEF Lambda
<1> HIDE DEF l
<1>8. ASSUME NEW c \in W.steady, c[2] \in W.req.pattern
      PROVE  /\ W.req.op = "regex" => c[2] \in W.keys
             /\ WillRead(rest, c) \/ c[2] \in Names(merged)
  <2>1. /\ W.req.op = "regex" => c[2] \in W.keys
        /\ WillRead(W.todo, c) \/ c[2] \in Names(W.res)
        /\ W.req.op = "selected" => c[2] \in W.keys
    BY <1>1, <1>3, <1>8 DEF LambdaOK
  <2>2. W.req.op \in {"all", "selected", "regex"}
    BY <1>1 DEF Req
  <2>3. CASE c[1] = map /\ c[2] \in keys
    <3>1. c \in new
      BY <1>1, <1>4, <2>1, <2>2, <2>3
    <3>2. c[2] \in Names(new)
      BY <3>1 DEF Names
    <3> QED
      BY <1>6, <2>1, <3>2
  <2>4. CASE ~(c[1] = map /\ c[2] \in keys)
    BY <1>3, <1>6, <2>1, <2>4
  <2> QED
    BY <2>3, <2>4
<1>9. merged \subseteq W.seen /\ Names(merged) \subseteq W.req.pattern
  BY <1>1, <1>2, <1>4, <1>5, <1>6
<1>10. /\ W.req.op = "all" => W.req.pattern = Keys
       /\ W.req.op = "selected" => W.keys = W.req.pattern
       /\ W.keys \subseteq W.req.pattern
  BY <1>1 DEF LambdaOK
<1>11. LambdaOK(l)
  BY <1>3, <1>6, <1>7, <1>8, <1>9, <1>10 DEF LambdaOK
<1> QED
  BY <1>0, <1>1, <1>3, <1>7, <1>11, ProgressKeeps

\* A callback has thrown: the answer is the exception.
LEMMA ThrowKeeps ==
    ASSUME ServiceInv, NEW w \in Workers, Throw(w)
    PROVE  ServiceInv'
<1>1. Busy(w) /\ Answer(w, "exception", {}, None)
      /\ UNCHANGED <<calls, counters, queue, expires, service>>
  BY DEF Throw, Doing, Busy
<1> QED
  BY <1>1, AnswerKeeps

\* The result, cut to the limit if there is one
LEMMA ReplyKeeps ==
    ASSUME ServiceInv, NEW w \in Workers, Reply(w)
    PROVE  ServiceInv'
<1> DEFINE W == worker[w]
           limit == W.req.limit
           due == Names(W.steady) \cap W.req.pattern
<1>0. /\ Busy(w) /\ Head(W.todo) = Last
      /\ UNCHANGED <<calls, counters, queue, expires, service>>
  BY DEF Reply, Doing, Busy, Last
<1>1. /\ W \in Lambda /\ W.req \in Req /\ W.todo \in Seq(LambdaSteps)
      /\ W.res \subseteq Counters /\ LambdaOK(W)
  BY <1>0, BusyFacts
<1>2. /\ W.todo # <<>> /\ TodoOK(W.todo)
      /\ OnePerName(W.res) /\ W.res \subseteq W.seen /\ Names(W.res) \subseteq W.req.pattern
  BY <1>0, <1>1 DEF Busy, LambdaOK
<1>3. due \subseteq Names(W.res)
  <2>1. \A c : ~WillRead(W.todo, c)
    BY <1>0, <1>1, <1>2, LastOfTodo
  <2> QED
    BY <1>1, <2>1 DEF LambdaOK, Names
<1>4. /\ IsFiniteSet(W.res) /\ Cardinality(Names(W.res)) = Cardinality(W.res)
      /\ Names(W.res) \subseteq Keys /\ IsFiniteSet(Names(W.res)) /\ Cardinality(W.res) \in Nat
  BY <1>1, <1>2, NamesCount
<1>5. limit \in Nat \cup {None}
  BY <1>1, ServiceAssumption DEF Req
<1>6. ASSUME NEW kept \in SUBSET Counters, NEW available \in Nat \cup {None}
      PROVE  LET l == [W EXCEPT !.todo = <<>>, !.res = kept,
                                !.available = available, !.outcome = "result"]
             IN  /\ l.req = W.req /\ l.steady = W.steady /\ l.seen = W.seen
                 /\ l.res = kept /\ l.available = available
  BY <1>1 DEF Lambda
<1> HIDE DEF W
<1>7. CASE limit = None /\ Answer(w, "result", W.res, None)
  <2> DEFINE l == [W EXCEPT !.todo = <<>>, !.res = W.res, !.available = None,
                            !.outcome = "result"]
  <2>1. /\ l.req = W.req /\ l.steady = W.steady /\ l.seen = W.seen /\ l.res = W.res
    BY <1>1, <1>6
  <2>2. l = [worker[w] EXCEPT !.todo = <<>>, !.res = W.res, !.available = None,
                              !.outcome = "result"]
    BY DEF W
  <2> HIDE DEF l
  <2>3. Reported(l)
    BY <1>2, <1>3, <1>4, <1>7, <2>1 DEF Reported
  <2> QED
    BY <1>0, <1>1, <1>7, <2>2, <2>3, AnswerKeeps
<1>8. CASE limit # None /\ Answer(w, "result", First(limit, W.res), Cardinality(W.res))
  <2> DEFINE F == First(limit, W.res)
             l == [W EXCEPT !.todo = <<>>, !.res = F, !.available = Cardinality(W.res),
                            !.outcome = "result"]
  <2>1. /\ F \subseteq W.res /\ Cardinality(F) <= limit
        /\ F # W.res => Cardinality(F) = limit
        /\ \A p \in W.res \ F, g \in F : g[2] < p[2]
    BY <1>1, <1>2, <1>5, <1>8, FirstEntries
  <2>2. F \in SUBSET Counters /\ OnePerName(F)
    BY <1>1, <1>2, <2>1 DEF OnePerName
  <2> HIDE DEF F
  <2>3. /\ l.req = W.req /\ l.steady = W.steady /\ l.seen = W.seen /\ l.res = F
        /\ l.available = Cardinality(W.res)
    BY <1>4, <1>6, <2>2
  <2>4. l = [worker[w] EXCEPT !.todo = <<>>, !.res = F, !.available = Cardinality(W.res),
                              !.outcome = "result"]
    BY DEF W
  <2> HIDE DEF l
  <2>5. Cardinality(Names(F)) = Cardinality(F)
    BY <2>2, NamesCount
  <2>6. Names(F) \subseteq Names(W.res) /\ due \cup Names(F) \in SUBSET Names(W.res)
    BY <1>3, <2>1 DEF Names
  <2>7. /\ Cardinality(due \cup Names(F)) <= Cardinality(Names(W.res))
        /\ Cardinality(due \cup Names(F)) \in Nat
    <3> DEFINE both == due \cup Names(F)
    <3>1. both \in SUBSET Names(W.res)
      BY <2>6
    <3> HIDE DEF both
    <3>2. Cardinality(both) <= Cardinality(Names(W.res)) /\ Cardinality(both) \in Nat
      BY <1>4, <3>1, FS_Subset, FS_CardinalityType
    <3> QED
      BY <3>2 DEF both
  <2>8. l.available \in Nat /\ l.available >= Cardinality(due \cup Names(F))
    BY <1>4, <2>3, <2>7
  <2>9. due \ Names(F) # {} => F # W.res
    BY <1>3
  <2>10. ASSUME NEW m \in due \ Names(F), NEW g \in Names(F) PROVE g < m
    <3>1. PICK p \in W.res : p[2] = m
      BY <1>3 DEF Names
    <3>2. p \notin F
      BY <3>1 DEF Names
    <3>3. PICK q \in F : q[2] = g
      BY DEF Names
    <3> QED
      BY <2>1, <3>1, <3>2, <3>3
  <2>11. F \subseteq W.seen /\ Names(F) \subseteq W.req.pattern
    BY <1>2, <2>1, <2>6
  <2>12. Reported(l)
    BY <1>8, <2>1, <2>3, <2>5, <2>8, <2>9, <2>10, <2>11 DEF Reported
  <2>13. Answer(w, "result", F, Cardinality(W.res))
    BY <1>8 DEF F
  <2> QED
    BY <1>0, <1>4, <2>2, <2>4, <2>12, <2>13, AnswerKeeps
<1> QED
  BY <1>7, <1>8 DEF Reply, Running, W

-----------------------------------------------------------------------------
(***************************************************************************)
(* The invariant, and what it says                                         *)
(***************************************************************************)
\* Nothing has been asked at first.
LEMMA ServiceStart == Init => ServiceInv
<1> USE SettingsAssumption, ServiceAssumption
<1> SUFFICES ASSUME Init PROVE ServiceInv
  OBVIOUS
<1>1. \A w \in Workers : worker[w] = Resting /\ ~Busy(w) /\ worker[w].outcome # "result"
  BY RestingFacts DEF Init, Busy
<1>2. queue = <<>> /\ DOMAIN queue = {} /\ queue \in Seq(Req)
  BY DEF Init
<1>3. ServiceTypes
  BY <1>2, RestingFacts DEF Init, ServiceTypes, Counters
<1>4. RequestInv /\ AnsweredOnce /\ QueueInv /\ ReadInv
  BY <1>1, <1>2 DEF Init, RequestInv, AnsweredOnce, Asked, QueueInv, ReadInv
<1> QED
  BY <1>1, <1>3, <1>4 DEF ServiceInv, WorkerOK

\* The service's invariant holds through every step.
LEMMA ServiceKept ==
    ASSUME ServiceInv, [Next]_vars
    PROVE  ServiceInv'
<1> USE SettingsAssumption
<1>0. /\ calls \in 0 .. MaxCalls /\ expires \in BOOLEAN /\ service \in {"up", "closing", "gone"}
      /\ service = "gone" => queue = <<>> /\ \A w \in Workers : worker[w] = Resting
  BY DEF ServiceInv, ServiceTypes, AnsweredOnce
<1>1. CASE calls' \in {calls, calls + 1} /\ (calls' = calls \/ calls < MaxCalls)
           /\ UNCHANGED serviceVars
  <2>1. calls' \in 0 .. MaxCalls /\ calls <= calls'
    BY <1>0, <1>1
  <2> QED
    BY <1>0, <1>1, <2>1, QuietKeeps DEF serviceVars
<1>2. ASSUME NEW t \in Threads, SettingsCall(t)
      PROVE  calls' = calls + 1 /\ calls < MaxCalls
  BY <1>2 DEF SettingsCall, SetOption, RegisterDynamicOption, SetUseOptionsAsFlags, ResetOptions,
              DeleteExportedKey, SetExportedValue, Begin
<1>3. ASSUME NEW t \in Threads, SettingsStep(t)
      PROVE  calls' = calls
  BY <1>3 DEF SettingsStep, FindDynamic, StoreOption, SetFlag, TryFill, FillEntry, InsertEntry,
              Fill, UpgradeLock, EraseEntry, ResetExported
<1>4. ASSUME NEW t \in Threads, ServiceCall(t)
      PROVE  ServiceInv'
  <2>1. ASSUME NEW c \in Maps \X Keys, AddCounter(t, c) \/ RemoveCounter(t, c)
        PROVE  ServiceInv'
    BY <2>1, AddCounterKeeps, RemoveCounterKeeps DEF Counters
  <2>2. ASSUME NEW limit \in Limits, Submit(t, "all", Keys, limit)
        PROVE  ServiceInv'
    BY <2>2, SubmitKeeps
  <2>3. ASSUME NEW limit \in Limits, NEW op \in {"selected", "regex"}, NEW pattern \in Patterns,
               Submit(t, op, pattern, limit)
        PROVE  ServiceInv'
    <3>1. pattern \in SUBSET Keys
      BY ServiceAssumption
    <3> QED
      BY <2>3, <3>1, SubmitKeeps
  <2>4. CASE SetGetCountersExpiration(t) \/ Close(t)
    <3>1. /\ calls' \in 0 .. MaxCalls /\ calls <= calls' /\ expires' \in BOOLEAN
          /\ service' \in {"up", "closing", "gone"} /\ (service' = "gone" => service = "gone")
          /\ UNCHANGED <<counters, queue, worker, replies>>
      <4>1. OneCall(t) /\ UNCHANGED <<counters, queue, worker, replies>>
        BY <2>4 DEF SetGetCountersExpiration, Close
      <4>2. calls' \in 0 .. MaxCalls /\ calls <= calls'
        BY <1>0, <4>1 DEF OneCall
      <4>3. expires' \in BOOLEAN
        BY <1>0, <2>4, Zenon DEF SetGetCountersExpiration, Close
      <4>4. service' \in {"up", "closing", "gone"} /\ (service' = "gone" => service = "gone")
        BY <1>0, <2>4 DEF SetGetCountersExpiration, Close
      <4> QED
        BY <4>1, <4>2, <4>3, <4>4
    <3> QED
      BY <1>0, <3>1, QuietKeeps
  <2> QED
    BY <1>4, <2>1, <2>2, <2>3, <2>4 DEF ServiceCall
<1>5. ASSUME NEW w \in Workers, WorkerStep(w)
      PROVE  ServiceInv'
  <2>1. ASSUME NEW map \in Maps, NEW keys \in SUBSET Keys, ReadMap(w, map, keys)
        PROVE  ServiceInv'
    BY <2>1, ReadMapKeeps
  <2>2. ASSUME NEW map \in Maps, SnapshotKeys(w, map)
        PROVE  ServiceInv'
    BY <2>2, SnapshotKeeps
  <2> QED
    BY <1>5, <2>1, <2>2, DequeueKeeps, CheckKeeps, ThrowKeeps, ReplyKeeps, ReleaseKeeps
       DEF WorkerStep
<1>6. CASE Destroy
  <2>1. /\ calls' \in 0 .. MaxCalls /\ calls <= calls' /\ expires' \in BOOLEAN
        /\ service' = "gone" /\ queue = <<>> /\ \A w \in Workers : worker[w] = Resting
        /\ UNCHANGED <<counters, queue, worker, replies>>
    BY <1>0, <1>6 DEF Destroy
  <2> QED
    BY <2>1, QuietKeeps
<1>7. CASE UNCHANGED vars
  BY <1>1, <1>7 DEF vars
<1> QED
  BY <1>1, <1>2, <1>3, <1>4, <1>5, <1>6, <1>7 DEF Next

\* The invariant of the service holds in every state: a lambda still has to read
\* the map of each counter that was there all along and is not yet in its output.
THEOREM ServiceInvariant == Spec => []IInv
<1>1. Init => IInv
  BY SettingsStart, ServiceStart DEF IInv
<1>2. IInv /\ [Next]_vars => IInv'
  BY SettingsKept, ServiceKept DEF IInv
<1> QED
  BY <1>1, <1>2, PTL DEF Spec

\* Each request of async_eb_getCounters() and its siblings has one answer, and the
\* executor is empty once the service is gone.
THEOREM RequestsAnsweredOnce == Spec => []AnsweredOnce
<1>1. IInv => AnsweredOnce
  BY DEF IInv, ServiceInv
<1> QED
  BY <1>1, ServiceInvariant, PTL

\* An answer holds every counter that was there all along, up to the limit, and no
\* other than those that were there at some time.
THEOREM AnswersComplete == Spec => []CountersReported
<1>1. IInv => CountersReported
  <2> SUFFICES ASSUME IInv, NEW w \in Workers, worker[w].outcome = "result"
               PROVE  LET res     == worker[w].res
                          limit   == Running(w).limit
                          due     == {c[2] : c \in worker[w].steady} \cap Running(w).pattern
                          got     == {p[2] : p \in res}
                          missing == due \ got
                      IN  /\ res \subseteq worker[w].seen /\ got \subseteq Running(w).pattern
                          /\ Cardinality(got) = Cardinality(res)
                          /\ limit = None => missing = {}
                          /\ limit # None =>
                                /\ Cardinality(got) <= limit
                                /\ worker[w].available >= Cardinality(due \cup got)
                                /\ missing # {} => Cardinality(got) = limit
                                /\ \A m \in missing, g \in got : g < m
    BY DEF CountersReported
  <2>1. Reported(worker[w])
    BY DEF IInv, ServiceInv, ReadInv
  <2> QED
    BY <2>1 DEF Reported, Names, Running
<1> QED
  BY <1>1, ServiceInvariant, PTL

\* A call of setOption() or setExportedValue() that overlapped no other for its
\* key has taken effect: in the static option and the flag, in the dynamic
\* option's setter or in the entry of exportedValues_, none of which is erased
\* while it is being filled.
THEOREM SettingsAreKept == Spec => []SettingsTakeEffect
<1>1. IInv => SettingsTakeEffect
  BY DEF IInv, SettingsInv, SettingsTakeEffect, OptionOK, ExportedOK
<1> QED
  BY <1>1, ServiceInvariant, PTL
=============================================================================
