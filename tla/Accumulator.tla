----------------------------- MODULE Accumulator -----------------------------
(***************************************************************************)
(* What a thread-safe timeseries stat promises (the class comment of       *)
(* TLStatsThreadSafe, "Timeseries aggregation"): one atomic accumulator of *)
(* an exact count and an exact sum.  A reset reports both for the same     *)
(* updates, limited once to the range of T, and takes exactly what it      *)
(* reports; a reset may also come back empty-handed and leave the window   *)
(* to the next one.                                                        *)
(***************************************************************************)
EXTENDS Integers

CONSTANTS HalfRaw,    \* -HalfRaw is the least value of T
          Values,     \* the values that are added
          Counts,     \* the counts they are added with
          Drainers    \* the threads that call reset()

VARIABLES pending,    \* [count, sum] of the updates no reset has reported
          report      \* per drainer, the [count, sum] of its latest reset()

accVars == <<pending, report>>

Nothing == [count |-> 0, sum |-> 0]

Limit(n) == IF n > HalfRaw - 1 THEN HalfRaw - 1
            ELSE IF n < - HalfRaw THEN - HalfRaw ELSE n

Init == /\ pending = Nothing
        /\ report = [d \in Drainers |-> Nothing]

\* An update counts for its count, or for one call if memory for the surplus
\* could not be had (makeSurplus()).
Add(value, count) ==
    /\ pending' = [count |-> pending.count + count, sum |-> pending.sum + value]
    /\ UNCHANGED report

Reset(d) ==
    /\ report' = [report EXCEPT ![d] = [count |-> Limit(pending.count),
                                        sum   |-> Limit(pending.sum)]]
    /\ pending' = Nothing

EmptyReset(d) ==
    /\ report' = [report EXCEPT ![d] = Nothing]
    /\ UNCHANGED pending

Next == \/ \E value \in Values, count \in Counts \cup {1} : Add(value, count)
        \/ \E d \in Drainers : Reset(d) \/ EmptyReset(d)

Spec == Init /\ [][Next]_accVars
=============================================================================
