----------------------------- MODULE BaseService ----------------------------
(***************************************************************************)
(* BaseService (fb303/BaseService.h), the Thrift handler in front of       *)
(* ServiceData.  getCounters(), getSelectedCounters() and                  *)
(* getRegexCounters() are queued on an executor of the service's own; the  *)
(* other requests run on the caller's thread (ServiceSettings).  The flat, *)
(* quantile and dynamic counters are three maps, read one after another    *)
(* while other threads add counters and remove them.  Of a value only the  *)
(* map it came from is kept; names are numbers, in the order of std::map.  *)
(***************************************************************************)
EXTENDS ServiceSettings, Sequences

CONSTANTS
    Workers,     \* threads of getCountersExecutor_
    Keys,        \* names of counters
    Patterns,    \* sets of keys: those asked for, or those a regex matches
    Limits,      \* values of the header fb303_counters_read_limit, or None
    Initially    \* counters that are there before the first request

Maps == {"flat", "quantile", "dynamic"}

ASSUME ServiceAssumption ==
    /\ IsFiniteSet(Keys) /\ Keys = 1 .. Cardinality(Keys)
    /\ Patterns \subseteq SUBSET Keys
    /\ Limits \subseteq Nat \cup {None}
    /\ None \notin Nat \cup {"timeout", "exception", "result"}
    /\ Initially \subseteq Maps \X Keys

\* A call is at most one request.
Requests == 1 .. MaxCalls

VARIABLES
    counters,   \* the counters that are there: <<map, key>>
    queue,      \* the executor's queue: lambdas, with the request they captured
    worker,     \* each thread of the executor: the lambda it runs, or Resting
    expires,    \* getCountersExpiration() is positive
    replies,    \* history: the number of answers that each request has had, or None
    service     \* "up", "closing" (the destructor has been called), "gone"

serviceVars == <<counters, queue, worker, expires, replies, service>>
vars == <<calls, settingsVars, serviceVars>>

Resting == [req |-> None,      \* the request: its id, op, pattern and limit
            todo |-> <<>>,     \* steps left of the lambda
            keys |-> {},       \* the keys to look for
            res |-> {},        \* the output map, as pairs <<map, key>>
            available |-> None,
            outcome |-> None,
            steady |-> {},     \* history: counters that were there all along
            seen |-> {}]       \* history: counters that were there at some time

Init ==
    /\ SettingsInit
    /\ calls = 0
    /\ counters = Initially
    /\ queue = <<>>
    /\ worker = [w \in Workers |-> Resting]
    /\ expires = TRUE
    /\ replies = [r \in Requests |-> None]
    /\ service = "up"

-----------------------------------------------------------------------------
(***************************************************************************)
(* The threads of the program                                              *)
(***************************************************************************)
OneCall(t) == At(t, "idle") /\ calls < MaxCalls /\ calls' = calls + 1

\* A counter comes up: registered, exported or set for the first time.
AddCounter(t, c) ==
    /\ OneCall(t) /\ c \notin counters
    /\ counters' = counters \cup {c}
    /\ worker' = [w \in Workers |-> IF worker[w] = Resting THEN Resting
                                    ELSE [worker[w] EXCEPT !.seen = @ \cup {c}]]
    /\ UNCHANGED <<queue, expires, replies, service, settingsVars>>

RemoveCounter(t, c) ==
    /\ OneCall(t) /\ c \in counters
    /\ counters' = counters \ {c}
    /\ worker' = [w \in Workers |-> [worker[w] EXCEPT !.steady = @ \ {c}]]
    /\ UNCHANGED <<queue, expires, replies, service, settingsVars>>

\* async_eb_getCounters(), async_eb_getSelectedCounters() and
\* async_eb_getRegexCounters(): getCountersExecutor_.add()
Submit(t, op, pattern, limit) ==
    /\ OneCall(t) /\ service = "up"
    /\ queue' = Append(queue, [id |-> calls', op |-> op, pattern |-> pattern, limit |-> limit])
    /\ replies' = [replies EXCEPT ![calls'] = 0]
    /\ UNCHANGED <<counters, worker, expires, service, settingsVars>>

SetGetCountersExpiration(t) ==
    /\ OneCall(t)
    /\ expires' = ~expires
    /\ UNCHANGED <<counters, queue, worker, replies, service, settingsVars>>

\* The server is stopped: no request arrives any more.
Close(t) ==
    /\ OneCall(t) /\ service = "up"
    /\ service' = "closing"
    /\ UNCHANGED <<counters, queue, worker, expires, replies, settingsVars>>

\* Mutant: no lambda holds a keep-alive token; the queue is thrown away.
DestroyNoToken ==
    /\ service = "closing"
    /\ service' = "gone" /\ queue' = <<>>
    /\ UNCHANGED <<calls, counters, worker, expires, replies, settingsVars>>

\* ~BaseService(): the executor waits for the keep-alive token of every lambda.
Destroy ==
    /\ service = "closing"
    /\ queue = <<>> /\ \A w \in Workers : worker[w] = Resting
    /\ service' = "gone"
    /\ UNCHANGED <<calls, counters, queue, worker, expires, replies, settingsVars>>

-----------------------------------------------------------------------------
(***************************************************************************)
(* The lambda of a request                                                 *)
(***************************************************************************)
\* Entries are looked up under one lock of counters_ or of the quantile map, but
\* dynamic counters one at a time: each shard, or each key, has its own lock.
Whole(map) == <<<<"read", map, Keys>>>>
OneByOne == [k \in Keys |-> <<"read", "dynamic", {k}>>]

\* Mutant: a lookup by regex takes the keys of the flat counters only.
PlanFlatKeys(op) ==
    IF op = "all" THEN Whole("flat") \o Whole("quantile") \o OneByOne
    ELSE (IF op = "regex" THEN <<<<"keys", "flat">>>> ELSE <<>>)
         \o Whole("flat") \o OneByOne \o Whole("quantile")

\* ServiceData::getCounters(), getSelectedCounters() and getRegexCounters(): the
\* order in which they go through the maps
Plan(op) ==
    IF op = "all" THEN Whole("flat") \o Whole("quantile") \o OneByOne
    ELSE (IF op = "regex"
          THEN <<<<"keys", "flat">>, <<"keys", "quantile">>, <<"keys", "dynamic">>>>
          ELSE <<>>)
         \o Whole("flat") \o OneByOne \o Whole("quantile")

Running(w) == worker[w].req

Set(w, lambda) == worker' = [worker EXCEPT ![w] = lambda]

\* A thread of the executor takes the oldest request.
Dequeue(w) ==
    LET r == Head(queue)
    IN  /\ worker[w] = Resting /\ queue # <<>>
        /\ queue' = Tail(queue)
        /\ Set(w, [Resting EXCEPT
                     !.req = r,
                     !.todo = <<<<"check", None>>>> \o Plan(r.op)
                              \o <<<<"reply", None>>>>,
                     !.keys = IF r.op = "selected" THEN r.pattern ELSE {},
                     !.steady = counters, !.seen = counters])
        /\ UNCHANGED <<calls, counters, expires, replies, service, settingsVars>>

Doing(w, step) == worker[w].todo # <<>> /\ Head(worker[w].todo) = step

\* callback_->result() or callback_->exception()
Answer(w, outcome, kept, available) ==
    /\ replies' = [replies EXCEPT ![Running(w).id] = @ + 1]
    /\ Set(w, [worker[w] EXCEPT !.todo = <<>>, !.res = kept,
                                !.available = available, !.outcome = outcome])

\* The request has waited for any length of time.
CheckExpiration(w) ==
    /\ Doing(w, <<"check", None>>)
    /\ \/ expires /\ Answer(w, "timeout", {}, None)
       \/ Set(w, [worker[w] EXCEPT !.todo = Tail(@)]) /\ UNCHANGED replies
    /\ UNCHANGED <<calls, counters, queue, expires, service, settingsVars>>

\* The matches of the regex in one of the maps (RegexUtil)
SnapshotKeys(w, map) ==
    /\ Doing(w, <<"keys", map>>)
    /\ Set(w, [worker[w] EXCEPT
                 !.todo = Tail(@),
                 !.keys = @ \cup {k \in Running(w).pattern : <<map, k>> \in counters}])
    /\ UNCHANGED <<calls, counters, queue, expires, replies, service, settingsVars>>

\* What map holds goes to the output.  In getCounters() flat and quantile
\* counters leave what is there; otherwise each map replaces it.
Merge(op, map, res, new) ==
    LET keeps == op = "all" /\ map # "dynamic"
        of(pairs) == {p[2] : p \in pairs}
    IN  IF keeps THEN res \cup {p \in new : p[2] \notin of(res)}
        ELSE new \cup {p \in res : p[2] \notin of(new)}

\* The entries of map for keys that are asked for
Sought(w, map, keys) ==
    {c \in counters : /\ c[1] = map /\ c[2] \in keys
                      /\ Running(w).op = "all" \/ c[2] \in worker[w].keys}

ReadMap(w, map, keys) ==
    LET op  == Running(w).op
        new == Sought(w, map, keys)
    IN  /\ Doing(w, <<"read", map, keys>>)
        /\ Set(w, [worker[w] EXCEPT !.todo = Tail(@), !.res = Merge(op, map, @, new)])
        /\ UNCHANGED <<calls, counters, queue, expires, replies, service, settingsVars>>

\* A callback throws, or the regex is not one: the answer is the exception.
Throw(w) ==
    /\ \/ \E k \in Keys : Doing(w, <<"read", "dynamic", {k}>>) /\ Sought(w, "dynamic", {k}) # {}
       \/ Doing(w, <<"keys", "flat">>)
    /\ Answer(w, "exception", {}, None)
    /\ UNCHANGED <<calls, counters, queue, expires, service, settingsVars>>

\* The first limit entries of the output map
First(limit, res) == {p \in res : Cardinality({q \in res : q[2] < p[2]}) < limit}

Reply(w) ==
    LET limit == Running(w).limit
        res   == worker[w].res
    IN  /\ Doing(w, <<"reply", None>>)
        /\ \/ limit = None /\ Answer(w, "result", res, None)
           \/ limit # None /\ Answer(w, "result", First(limit, res), Cardinality(res))
        /\ UNCHANGED <<calls, counters, queue, expires, service, settingsVars>>

\* The lambda and its keep-alive token are destroyed.
Release(w) ==
    /\ worker[w].outcome # None
    /\ Set(w, Resting)
    /\ UNCHANGED <<calls, counters, queue, expires, replies, service, settingsVars>>

WorkerStep(w) ==
    \/ Dequeue(w) \/ CheckExpiration(w) \/ Throw(w) \/ Reply(w) \/ Release(w)
    \/ \E map \in Maps :
          SnapshotKeys(w, map) \/ \E keys \in SUBSET Keys : ReadMap(w, map, keys)

ServiceCall(t) ==
    \/ \E c \in Maps \X Keys : AddCounter(t, c) \/ RemoveCounter(t, c)
    \/ \E limit \in Limits : \/ Submit(t, "all", Keys, limit)
                             \/ \E op \in {"selected", "regex"}, pattern \in Patterns :
                                   Submit(t, op, pattern, limit)
    \/ SetGetCountersExpiration(t)
    \/ Close(t)

Next ==
    \/ \E t \in Threads : \/ SettingsCall(t) /\ UNCHANGED serviceVars
                          \/ SettingsStep(t) /\ UNCHANGED serviceVars
                          \/ ServiceCall(t)
    \/ \E w \in Workers : WorkerStep(w)
    \/ Destroy

Spec == Init /\ [][Next]_vars

-----------------------------------------------------------------------------
(***************************************************************************)
(* Properties.                                                             *)
(***************************************************************************)
Asked(r) == replies[r] # None

(***************************************************************************)
(* Every request is answered exactly once, whether it expired, failed or   *)
(* succeeded: until then it is in the queue or a thread of the executor is *)
(* working on it; and when the service is gone neither a queued lambda nor *)
(* a running one, which would use the service, is left                     *)
(* (async_eb_getCounters() and its siblings; the keep-alive token).        *)
(***************************************************************************)
AnsweredOnce ==
    /\ \A r \in Requests : Asked(r) =>
          /\ replies[r] <= 1
          /\ replies[r] = 0 =>
                \/ \E i \in DOMAIN queue : queue[i].id = r
                \/ \E w \in Workers : worker[w].todo # <<>> /\ Running(w).id = r
    /\ service = "gone" => queue = <<>> /\ \A w \in Workers : worker[w] = Resting

(***************************************************************************)
(* A counter that was in one of the maps all the time that the request was *)
(* worked on, and that the request asks for, is in the answer, even while  *)
(* counters of other maps and of the same name come and go; if the answer  *)
(* was cut to the limit, every counter in it precedes the ones left out,   *)
(* and the header counts those too.  Nothing is in the answer that was not *)
(* there at some time, and no name is in it twice.                         *)
(***************************************************************************)
CountersReported ==
    \A w \in Workers : worker[w].outcome = "result" =>
        LET res     == worker[w].res
            limit   == Running(w).limit
            due     == {c[2] : c \in worker[w].steady} \cap Running(w).pattern
            got     == {p[2] : p \in res}
            missing == due \ got
        IN  /\ res \subseteq worker[w].seen /\ got \subseteq Running(w).pattern
            /\ Cardinality(got) = Cardinality(res)
            /\ limit = None => missing = {}
            /\ limit # None =>
                  /\ Cardinality(got) <= limit
                  /\ worker[w].available >= Cardinality(due \cup got)
                  /\ missing # {} => Cardinality(got) = limit
                  /\ \A m \in missing, g \in got : g < m
=============================================================================
