--------------------------- MODULE QuantileStatMap --------------------------
(***************************************************************************)
(* BasicQuantileStatMap (fb303/detail/QuantileStatMap.h, -inl.h) and       *)
(* ServiceData::getQuantileStat(), which makes the stat it offers before   *)
(* any lock is taken.  Under the lock of counters_, bases holds the stats  *)
(* and map one entry for each key of each stat; a key is the stat's name   *)
(* with an element of Defs, which stands for a StatDef and a window.       *)
(***************************************************************************)
EXTENDS ServiceCalls

CONSTANTS Defs   \* statistics of a quantile stat, per window

Keys == Names \X Defs

VARIABLES
    bases,      \* counters_.bases: each name's stat, or None
    keys,       \* counters_.map: the stat of each key's entry, or None
    offered,    \* number of quantile stats made; they are 1 .. offered
    defsOf,     \* each quantile stat: its statDefs
    forgotten   \* history: stats that were registered and then forgotten

quantileVars == <<bases, keys, offered, defsOf, forgotten>>

QuantileInit ==
    /\ bases = [n \in Names |-> None]
    /\ keys = [k \in Keys |-> None]
    /\ offered = 0
    /\ defsOf = [s \in Stats |-> {}]
    /\ forgotten = {}

HaveQuantile(t, s) == call' = [call EXCEPT ![t].item = s, ![t].pc = "addQuantile"]

GetQuantileStat(t, n, defs) ==
    Begin(t, "quantile", "getQuantile", n, defs) /\ UNCHANGED quantileVars

\* quantileMap_.get(name); if there is none, make_shared<QuantileStat>
MakeQuantile(t) ==
    LET n == call[t].name
    IN  /\ At(t, "getQuantile")
        /\ \/ /\ bases[n] # None
              /\ HaveQuantile(t, bases[n])
              /\ UNCHANGED <<offered, defsOf>>
           \/ /\ bases[n] = None
              /\ offered' = offered + 1
              /\ defsOf' = [defsOf EXCEPT ![offered'] = call[t].types]
              /\ call' = [call EXCEPT ![t].item = offered', ![t].pc = "checkQuantile"]
        /\ UNCHANGED <<bases, keys, forgotten, calls>>

\* registerQuantileStat(): the lookup under the shared lock
CheckQuantile(t) ==
    LET n == call[t].name
    IN  /\ At(t, "checkQuantile")
        /\ \/ bases[n] # None /\ HaveQuantile(t, bases[n])
           \/ bases[n] = None /\ Goto(t, "insertQuantile")
        /\ UNCHANGED <<quantileVars, calls>>

\* cachedAddString() and emplace() leave what is already there.
AddKeys(n, s) ==
    /\ bases' = [bases EXCEPT ![n] = IF @ = None THEN s ELSE @]
    /\ keys' = [k \in Keys |->
                  IF k \in {n} \X defsOf[s] /\ keys[k] = None THEN s ELSE keys[k]]

\* Mutant: the name is not looked up again under the exclusive lock.
InsertQuantileBlind(t) ==
    /\ At(t, "insertQuantile")
    /\ AddKeys(call[t].name, call[t].item)
    /\ HaveQuantile(t, call[t].item)
    /\ UNCHANGED <<offered, defsOf, forgotten, calls>>

\* registerQuantileStat(): under the exclusive lock, look again; then insert
InsertQuantile(t) ==
    LET n == call[t].name
    IN  /\ At(t, "insertQuantile")
        /\ \/ bases[n] # None /\ HaveQuantile(t, bases[n]) /\ UNCHANGED <<bases, keys>>
           \/ bases[n] = None /\ AddKeys(n, call[t].item) /\ HaveQuantile(t, call[t].item)
        /\ UNCHANGED <<offered, defsOf, forgotten, calls>>

\* The caller adds its value to the stat it was given.
AddQuantile(t) ==
    /\ At(t, "addQuantile")
    /\ Return(t)
    /\ UNCHANGED <<quantileVars, calls>>

\* The names leave bases, and the keys of their stats leave map.
ForgetNames(names) ==
    /\ bases' = [n \in Names |-> IF n \in names THEN None ELSE bases[n]]
    /\ keys' = [k \in Keys |->
                  IF /\ k[1] \in names /\ bases[k[1]] # None
                     /\ k[2] \in defsOf[bases[k[1]]]
                  THEN None ELSE keys[k]]
    /\ forgotten' = forgotten \cup ({bases[n] : n \in names} \ {None})

\* forgetStatsFor(name), under the exclusive lock
ForgetQuantile(t, n) ==
    /\ At(t, "idle") /\ calls < MaxCalls /\ bases[n] # None
    /\ calls' = calls + 1
    /\ ForgetNames({n})
    /\ UNCHANGED <<call, offered, defsOf>>

QuantileCall(t) ==
    \E n \in Names :
        \/ \E defs \in (SUBSET Defs) \ {{}} : GetQuantileStat(t, n, defs)
        \/ ForgetQuantile(t, n)

QuantileStep(t) ==
    \/ MakeQuantile(t) \/ CheckQuantile(t) \/ InsertQuantile(t) \/ AddQuantile(t)
=============================================================================
