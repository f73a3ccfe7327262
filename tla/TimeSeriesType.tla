--------------------------- MODULE TimeSeriesType ---------------------------
(***************************************************************************)
(* TLStatsThreadSafe::TimeSeriesType<T> (fb303/TLStatsLockTraits.h): one   *)
(* thread calls addValue(), any number of threads call reset().            *)
(*                                                                         *)
(* The adder brackets the words it writes with an odd seq_, a drainer      *)
(* rereads them until it sees the same even seq_ before and after, and bit *)
(* 0 of lastSeq_ is the claim that keeps drainers apart.  Every load and   *)
(* store of a word that the adder and a drainer share is a step of its     *)
(* own.  The baselines are only touched between claim and release, so the  *)
(* two words of one are moved together.                                    *)
(***************************************************************************)
EXTENDS TwoWord

CONSTANTS Values,      \* values the adder adds
          Counts,      \* counts it adds them with
          Drainers,    \* threads that call reset()
          MaxUpdates   \* bound on the number of addValue() calls

ASSUME TimeSeriesAssumption ==
    /\ Values \subseteq T
    /\ Counts \subseteq T
    /\ MaxUpdates \in Nat
    \* 2^64 calls, let alone 2^61 wraps of the low word, cannot happen
    /\ NarrowRaw \/ MaxUpdates < RawMod
    /\ HalfCarry > 5 * MaxUpdates + 2

VARIABLES
    seq,        \* seq_: twice the number of updates, odd during one
    lastSeq,    \* lastSeq_: seq_ at the latest drain, odd while claimed
    sum,        \* sumLo_, sumHi_
    baseSum,    \* baseSumLo_, baseSumHi_
    surplus,    \* surplus_ # nullptr
    extra,      \* lo, hi of *surplus_
    baseExtra,  \* baseLo, baseHi of *surplus_
    apc, call,  \* the adder: where it is, the arguments of its addValue()
    dpc,        \* each drainer: where it is in reset()
    last,       \*   ... the lastSeq_ it claimed
    before,     \*   ... the seq_ it read first
    block,      \*   ... whether it found a Surplus block
    rdBase,     \*   ... baseSum as loaded
    rdExtra,    \*   ... the words of the block as loaded
    rdSum,      \*   ... sum as loaded
    result,     \*   ... what its latest reset() returned
    added,      \* history: exact count and sum of the finished updates
    taken       \* history: exact count and sum of the drained updates

adderVars   == <<seq, sum, surplus, extra, apc, call, added>>
drainerVars == <<lastSeq, baseSum, baseExtra, dpc, last, before, block,
                 rdBase, rdExtra, rdSum, result, taken>>
vars        == <<adderVars, drainerVars>>

Even(n)   == n - (n % 2)     \* n & ~kInFlight
InFlight(n) == n % 2 = 1     \* n & kInFlight

NoPair == [count |-> 0, sum |-> 0]
NoCall == [value |-> 0, count |-> 1, block |-> FALSE]

Init ==
    /\ seq = 0 /\ lastSeq = 0
    /\ sum = ZeroSnapshot /\ baseSum = ZeroSnapshot
    /\ surplus = FALSE /\ extra = ZeroSnapshot /\ baseExtra = ZeroSnapshot
    /\ apc = "idle" /\ call = NoCall
    /\ dpc = [d \in Drainers |-> "idle"]
    /\ last = [d \in Drainers |-> 0]
    /\ before = [d \in Drainers |-> 0]
    /\ block = [d \in Drainers |-> FALSE]
    /\ rdBase = [d \in Drainers |-> ZeroSnapshot]
    /\ rdExtra = [d \in Drainers |-> ZeroSnapshot]
    /\ rdSum = [d \in Drainers |-> ZeroSnapshot]
    /\ result = [d \in Drainers |-> NoPair]
    /\ added = NoPair /\ taken = NoPair

-----------------------------------------------------------------------------
(***************************************************************************)
(* addValue(value, count).  A count other than 1 needs the Surplus block;  *)
(* makeSurplus() allocates it with nothrow new, which may fail.            *)
(***************************************************************************)
AddValue(value, count) ==
    /\ apc = "idle"
    /\ seq < 2 * MaxUpdates
    /\ \/ /\ count = 1
          /\ call' = [value |-> value, count |-> count, block |-> FALSE]
          /\ UNCHANGED surplus
       \/ /\ count # 1
          /\ \E got \in BOOLEAN :
                /\ surplus => got
                /\ call' = [value |-> value, count |-> count, block |-> got]
                /\ surplus' = got
    /\ apc' = "begin"
    /\ UNCHANGED <<drainerVars, seq, sum, extra, added>>

\* seq_.store(seq + 1)
BeginUpdate ==
    /\ apc = "begin"
    /\ seq' = seq + 1
    /\ apc' = IF call.block THEN "extraLo" ELSE "sumLo"
    /\ UNCHANGED <<drainerVars, sum, surplus, extra, call, added>>

\* addRaw() on the block: the rest of the count beside the one of the sequence.
AddExtraLo ==
    /\ apc = "extraLo"
    /\ LET after == AddLo(extra.lo, ToRaw(ToRaw(call.count) - 1))
       IN  /\ extra' = [extra EXCEPT !.lo = after]
           /\ apc' = IF Wrapped(extra.lo, after, call.count < 1)
                     THEN "extraHi" ELSE "sumLo"
    /\ UNCHANGED <<drainerVars, seq, sum, surplus, call, added>>

AddExtraHi ==
    /\ apc = "extraHi"
    /\ extra' = [extra EXCEPT !.hi = StepHi(extra.hi, call.count < 1)]
    /\ apc' = "sumLo"
    /\ UNCHANGED <<drainerVars, seq, sum, surplus, call, added>>

\* add(sumLo_, sumHi_, value)
AddSumLo ==
    /\ apc = "sumLo"
    /\ LET after == AddLo(sum.lo, ToRaw(call.value))
       IN  /\ sum' = [sum EXCEPT !.lo = after]
           /\ apc' = IF Wrapped(sum.lo, after, call.value < 0)
                     THEN "sumHi" ELSE "publish"
    /\ UNCHANGED <<drainerVars, seq, surplus, extra, call, added>>

AddSumHi ==
    /\ apc = "sumHi"
    /\ sum' = [sum EXCEPT !.hi = StepHi(sum.hi, call.value < 0)]
    /\ apc' = "publish"
    /\ UNCHANGED <<drainerVars, seq, surplus, extra, call, added>>

\* seq_.store(seq + 2).  Without a block the update counts as one call.
CountOf(c) == IF c.block THEN c.count ELSE 1

Publish ==
    /\ apc = "publish"
    /\ seq' = seq + 1
    /\ apc' = "idle"
    /\ added' = [count |-> added.count + CountOf(call),
                 sum   |-> added.sum + call.value]
    /\ UNCHANGED <<drainerVars, sum, surplus, extra, call>>

UpdateStep == \/ BeginUpdate \/ AddExtraLo \/ AddExtraHi
              \/ AddSumLo \/ AddSumHi \/ Publish

-----------------------------------------------------------------------------
(***************************************************************************)
(* reset(): the two loads of its early return, then drain().               *)
(***************************************************************************)
Reset(d) ==
    /\ dpc[d] = "idle"
    /\ before' = [before EXCEPT ![d] = seq]
    /\ dpc' = [dpc EXCEPT ![d] = "quick"]
    /\ UNCHANGED <<adderVars, lastSeq, baseSum, baseExtra, last, block,
                   rdBase, rdExtra, rdSum, result, taken>>

QuickReturn(d) ==
    /\ dpc[d] = "quick"
    /\ before[d] = Even(lastSeq)
    /\ result' = [result EXCEPT ![d] = NoPair]
    /\ dpc' = [dpc EXCEPT ![d] = "idle"]
    /\ UNCHANGED <<adderVars, lastSeq, baseSum, baseExtra, last, before, block,
                   rdBase, rdExtra, rdSum, taken>>

EnterDrain(d) ==
    /\ dpc[d] = "quick"
    /\ before[d] # Even(lastSeq)
    /\ dpc' = [dpc EXCEPT ![d] = "claim"]
    /\ UNCHANGED <<adderVars, lastSeq, baseSum, baseExtra, last, before, block,
                   rdBase, rdExtra, rdSum, result, taken>>

\* Mutant: the claim is stored without looking whether somebody holds it.
ClaimByStore(d) ==
    /\ dpc[d] = "claim"
    /\ last' = [last EXCEPT ![d] = Even(lastSeq)]
    /\ lastSeq' = Even(lastSeq) + 1
    /\ dpc' = [dpc EXCEPT ![d] = "base"]
    /\ UNCHANGED <<adderVars, baseSum, baseExtra, before, block,
                   rdBase, rdExtra, rdSum, result, taken>>

\* The compare-exchange that succeeds; failed attempts change nothing.
Claim(d) ==
    /\ dpc[d] = "claim"
    /\ ~InFlight(lastSeq)
    /\ last' = [last EXCEPT ![d] = lastSeq]
    /\ lastSeq' = lastSeq + 1
    /\ dpc' = [dpc EXCEPT ![d] = "base"]
    /\ UNCHANGED <<adderVars, baseSum, baseExtra, before, block,
                   rdBase, rdExtra, rdSum, result, taken>>

LoadBaseSum(d) ==
    /\ dpc[d] = "base"
    /\ rdBase' = [rdBase EXCEPT ![d] = baseSum]
    /\ dpc' = [dpc EXCEPT ![d] = "before"]
    /\ UNCHANGED <<adderVars, lastSeq, baseSum, baseExtra, last, before, block,
                   rdExtra, rdSum, result, taken>>

\* Mutant: the totals are read although an update is in flight.
ReadBeforeUnchecked(d) ==
    /\ dpc[d] = "before"
    /\ before' = [before EXCEPT ![d] = seq]
    /\ dpc' = [dpc EXCEPT ![d] = "block"]
    /\ UNCHANGED <<adderVars, lastSeq, baseSum, baseExtra, last, block,
                   rdBase, rdExtra, rdSum, result, taken>>

\* readTotals(): an odd sequence is waited out.
ReadBefore(d) ==
    /\ dpc[d] = "before"
    /\ ~InFlight(seq)
    /\ before' = [before EXCEPT ![d] = seq]
    /\ dpc' = [dpc EXCEPT ![d] = "block"]
    /\ UNCHANGED <<adderVars, lastSeq, baseSum, baseExtra, last, block,
                   rdBase, rdExtra, rdSum, result, taken>>

LoadBlock(d) ==
    /\ dpc[d] = "block"
    /\ block' = [block EXCEPT ![d] = surplus]
    /\ rdExtra' = [rdExtra EXCEPT ![d] = ZeroSnapshot]
    /\ dpc' = [dpc EXCEPT ![d] = IF surplus THEN "extraLo" ELSE "sumLo"]
    /\ UNCHANGED <<adderVars, lastSeq, baseSum, baseExtra, last, before,
                   rdBase, rdSum, result, taken>>

LoadExtraLo(d) ==
    /\ dpc[d] = "extraLo"
    /\ rdExtra' = [rdExtra EXCEPT ![d].lo = extra.lo]
    /\ dpc' = [dpc EXCEPT ![d] = "extraHi"]
    /\ UNCHANGED <<adderVars, lastSeq, baseSum, baseExtra, last, before, block,
                   rdBase, rdSum, result, taken>>

LoadExtraHi(d) ==
    /\ dpc[d] = "extraHi"
    /\ rdExtra' = [rdExtra EXCEPT ![d].hi = extra.hi]
    /\ dpc' = [dpc EXCEPT ![d] = "sumLo"]
    /\ UNCHANGED <<adderVars, lastSeq, baseSum, baseExtra, last, before, block,
                   rdBase, rdSum, result, taken>>

LoadSumLo(d) ==
    /\ dpc[d] = "sumLo"
    /\ rdSum' = [rdSum EXCEPT ![d].lo = sum.lo]
    /\ dpc' = [dpc EXCEPT ![d] = "sumHi"]
    /\ UNCHANGED <<adderVars, lastSeq, baseSum, baseExtra, last, before, block,
                   rdBase, rdExtra, result, taken>>

LoadSumHi(d) ==
    /\ dpc[d] = "sumHi"
    /\ rdSum' = [rdSum EXCEPT ![d].hi = sum.hi]
    /\ dpc' = [dpc EXCEPT ![d] = "recheck"]
    /\ UNCHANGED <<adderVars, lastSeq, baseSum, baseExtra, last, before, block,
                   rdBase, rdExtra, result, taken>>

\* The sequence did not move: the words read describe one moment.
Confirm(d) ==
    /\ dpc[d] = "recheck"
    /\ seq = before[d]
    /\ dpc' = [dpc EXCEPT ![d] = "store"]
    /\ taken' = added
    /\ UNCHANGED <<adderVars, lastSeq, baseSum, baseExtra, last, before, block,
                   rdBase, rdExtra, rdSum, result>>

Retry(d) ==
    /\ dpc[d] = "recheck"
    /\ seq # before[d]
    /\ dpc' = [dpc EXCEPT ![d] = "before"]
    /\ UNCHANGED <<adderVars, lastSeq, baseSum, baseExtra, last, before, block,
                   rdBase, rdExtra, rdSum, result, taken>>

\* The pair drain() returns.
DrainResult(d) ==
    LET base  == IF block[d] THEN baseExtra ELSE ZeroSnapshot
        calls == (before[d] - last[d]) \div 2
    IN  [count |-> Clamp(AddCalls(Difference(rdExtra[d], base), calls)),
         sum   |-> Clamp(Difference(rdSum[d], rdBase[d]))]

\* Mutant: the baseline of the surplus is not moved.
StoreSumBaseOnly(d) ==
    /\ dpc[d] = "store"
    /\ baseSum' = rdSum[d]
    /\ result' = [result EXCEPT ![d] = DrainResult(d)]
    /\ dpc' = [dpc EXCEPT ![d] = "release"]
    /\ UNCHANGED <<adderVars, lastSeq, baseExtra, last, before, block,
                   rdBase, rdExtra, rdSum, taken>>

StoreBases(d) ==
    /\ dpc[d] = "store"
    /\ baseExtra' = IF block[d] THEN rdExtra[d] ELSE baseExtra
    /\ baseSum' = rdSum[d]
    /\ result' = [result EXCEPT ![d] = DrainResult(d)]
    /\ dpc' = [dpc EXCEPT ![d] = "release"]
    /\ UNCHANGED <<adderVars, lastSeq, last, before, block,
                   rdBase, rdExtra, rdSum, taken>>

\* Mutant: the claim bit stays set.
ReleaseStillClaimed(d) ==
    /\ dpc[d] = "release"
    /\ lastSeq' = before[d] + 1
    /\ dpc' = [dpc EXCEPT ![d] = "idle"]
    /\ UNCHANGED <<adderVars, baseSum, baseExtra, last, before, block,
                   rdBase, rdExtra, rdSum, result, taken>>

\* lastSeq_.store(seq): even, so it gives the claim back.
Release(d) ==
    /\ dpc[d] = "release"
    /\ lastSeq' = before[d]
    /\ dpc' = [dpc EXCEPT ![d] = "idle"]
    /\ UNCHANGED <<adderVars, baseSum, baseExtra, last, before, block,
                   rdBase, rdExtra, rdSum, result, taken>>

ResetStep(d) ==
    \/ QuickReturn(d) \/ EnterDrain(d) \/ Claim(d) \/ LoadBaseSum(d)
    \/ ReadBefore(d) \/ LoadBlock(d) \/ LoadExtraLo(d) \/ LoadExtraHi(d)
    \/ LoadSumLo(d) \/ LoadSumHi(d) \/ Confirm(d) \/ Retry(d)
    \/ StoreBases(d) \/ Release(d)

Next ==
    \/ \E value \in Values, count \in Counts : AddValue(value, count)
    \/ UpdateStep
    \/ \E d \in Drainers : Reset(d) \/ ResetStep(d)

Spec == Init /\ [][Next]_vars

\* A thread inside addValue() or reset() is scheduled again; nobody has to
\* call either of them.
Fairness == WF_vars(UpdateStep) /\ \A d \in Drainers : WF_vars(ResetStep(d))

FairSpec == Spec /\ Fairness

-----------------------------------------------------------------------------
(***************************************************************************)
(* count() and sum(), which the adding thread may call when neither an     *)
(* update nor a drain is under way.                                        *)
(***************************************************************************)
CountNow ==
    LET calls == (seq - Even(lastSeq)) \div 2
        total == IF surplus THEN extra ELSE ZeroSnapshot
        base  == IF surplus THEN baseExtra ELSE ZeroSnapshot
    IN  Clamp(AddCalls(Difference(total, base), calls))

SumNow == Clamp(Difference(sum, baseSum))

-----------------------------------------------------------------------------
AdderPcs == {"idle", "begin", "extraLo", "extraHi", "sumLo", "sumHi", "publish"}
LoadPcs  == {"block", "extraLo", "extraHi", "sumLo", "sumHi", "recheck"}
ClaimPcs == {"base", "before", "store", "release"} \cup LoadPcs
DrainPcs == {"idle", "quick", "claim"} \cup ClaimPcs

Pair == [count : Int, sum : Int]

\* Every variable stays within the type the class gives it: words in their
\* width, results in T.
TypeOK ==
    /\ seq \in Nat /\ lastSeq \in Nat
    /\ sum \in Snapshot /\ baseSum \in Snapshot
    /\ surplus \in BOOLEAN
    /\ extra \in Snapshot /\ baseExtra \in Snapshot
    /\ apc \in AdderPcs
    /\ call \in [value : T, count : T, block : BOOLEAN]
    /\ dpc \in [Drainers -> DrainPcs]
    /\ last \in [Drainers -> Nat]
    /\ before \in [Drainers -> Nat]
    /\ block \in [Drainers -> BOOLEAN]
    /\ rdBase \in [Drainers -> Snapshot]
    /\ rdExtra \in [Drainers -> Snapshot]
    /\ rdSum \in [Drainers -> Snapshot]
    /\ result \in [Drainers -> [count : T, sum : T]]
    /\ added \in Pair /\ taken \in Pair

Claimed(d) == dpc[d] \in ClaimPcs

\* At most one drainer is between its claim of lastSeq_ and the store that
\* gives it back, and lastSeq_ is odd exactly then: drain()'s baselines have
\* one owner at a time although reset() takes no lock.
ClaimExclusive ==
    /\ \A d, e \in Drainers : Claimed(d) /\ Claimed(e) => d = e
    /\ InFlight(lastSeq) <=> \E d \in Drainers : Claimed(d)

\* With no update and no drain under way, count() and sum() are the exact
\* totals of what was added since the last drain, limited to T.
ViewExact ==
    (apc \in {"idle", "begin"} /\ \A d \in Drainers : ~Claimed(d)) =>
        /\ CountNow = Saturate(added.count - taken.count)
        /\ SumNow = Saturate(added.sum - taken.sum)

\* The drained position never moves back: an update that was reported once is
\* never in a later window.
DrainedForward == [][Even(lastSeq') >= Even(lastSeq)]_vars

\* Once the adder stops calling addValue(), every reset() returns: the claim is
\* always given back and the reread loop of readTotals() ends.
ResetReturns ==
    <>[](apc = "idle") =>
        \A d \in Drainers : dpc[d] # "idle" ~> dpc[d] = "idle"

-----------------------------------------------------------------------------
(***************************************************************************)
(* The class implements the atomic accumulator.  An update takes effect    *)
(* when it publishes its sequence, a drain when it confirms its sequence;  *)
(* the pair it will return is fixed from then on.                          *)
(***************************************************************************)
PendingView == [count |-> added.count - taken.count,
                sum   |-> added.sum - taken.sum]
ReportView  == [d \in Drainers |-> IF dpc[d] = "store" THEN DrainResult(d)
                                   ELSE result[d]]

Acc == INSTANCE Accumulator WITH pending <- PendingView, report <- ReportView

\* Nothing is lost, counted twice, or clamped more than once; count and sum of
\* a report always describe the same updates.
ImplementsAccumulator == Acc!Spec

-----------------------------------------------------------------------------
(***************************************************************************)
(* The inductive invariant.                                                *)
(***************************************************************************)
Published == Even(seq) \div 2                   \* the finished updates
OffByWrap(delta) == IF delta < 0 THEN RawMod ELSE - RawMod
Within(s, n) == - n <= s.hi /\ s.hi <= n
HiBound == 2 * MaxUpdates

\* seq_ is odd exactly while the adder writes words.
SeqInv ==
    /\ InFlight(seq) <=> apc \notin {"idle", "begin"}
    /\ seq <= HiBound
    /\ apc # "idle" => /\ seq < HiBound
                       /\ call.value \in Values /\ call.count \in Counts

\* The words, read together, are the exact totals of the finished updates plus
\* what the update in flight has written so far; between the two words of an
\* addition they are off by one wrap.
SumInv ==
    /\ apc \notin {"sumHi", "publish"} => Val(sum) = added.sum
    /\ apc = "sumHi" => Val(sum) = added.sum + call.value + OffByWrap(call.value)
    /\ apc = "publish" => Val(sum) = added.sum + call.value

ExtraInv ==
    /\ apc \in {"idle", "begin", "extraLo"} =>
          Val(extra) = added.count - Published
    /\ apc = "extraHi" =>
          Val(extra) = added.count - Published
                       + (call.count - 1) + OffByWrap(call.count - 1)
    /\ apc \in {"sumLo", "sumHi", "publish"} =>
          Val(extra) = added.count - Published + (CountOf(call) - 1)
    /\ apc \in {"extraLo", "extraHi"} => call.block
    /\ apc # "idle" /\ call.block => surplus
    /\ ~surplus => extra = ZeroSnapshot /\ baseExtra = ZeroSnapshot
    /\ \A d \in Drainers : block[d] => surplus

\* A carry moves by at most one per update, so it never reaches a limit.
CarryInv ==
    /\ Within(sum, seq) /\ Within(extra, seq)
    /\ apc \in {"extraLo", "extraHi"} => Within(extra, seq - 1)
    /\ apc \in {"extraLo", "extraHi", "sumLo", "sumHi"} => Within(sum, seq - 1)
    /\ Within(baseSum, HiBound) /\ Within(baseExtra, HiBound)
    /\ \A d \in Drainers : /\ Within(rdSum[d], HiBound)
                           /\ Within(rdExtra[d], HiBound)

\* A drainer's claim pins lastSeq_, the baselines and what it loaded of them.
ClaimInv ==
    /\ ClaimExclusive
    /\ Even(lastSeq) <= seq
    /\ \A d \in Drainers :
          /\ Claimed(d) => lastSeq = last[d] + 1 /\ ~InFlight(last[d])
          /\ dpc[d] \in LoadPcs \cup {"store", "release"} =>
                ~InFlight(before[d]) /\ last[d] <= before[d] /\ before[d] <= seq
          /\ dpc[d] \in ClaimPcs \ {"base", "release"} => rdBase[d] = baseSum
          /\ dpc[d] \in {"extraLo", "extraHi"} => block[d]
          /\ dpc[d] \in (LoadPcs \cup {"store"}) \ {"block"} /\ ~block[d] =>
                rdExtra[d] = ZeroSnapshot /\ baseExtra = ZeroSnapshot

\* The baselines are the totals that were drained.
BaseInv ==
    /\ (\A d \in Drainers : dpc[d] \notin {"store", "release"}) =>
          /\ Val(baseSum) = taken.sum
          /\ Val(baseExtra) = taken.count - (Even(lastSeq) \div 2)
    /\ \A d \in Drainers :
          /\ dpc[d] = "store" =>
                /\ Val(rdSum[d]) = taken.sum
                /\ Val(rdExtra[d]) = taken.count - (before[d] \div 2)
          /\ dpc[d] = "release" =>
                /\ Val(baseSum) = taken.sum
                /\ Val(baseExtra) = taken.count - (before[d] \div 2)

\* While seq_ is what it was, the words loaded so far are the current ones.
ReadInv ==
    \A d \in Drainers : seq = before[d] =>
        /\ dpc[d] = "extraHi" => rdExtra[d].lo = extra.lo
        /\ dpc[d] \in {"sumLo", "sumHi", "recheck"} => rdExtra[d] = extra
        /\ dpc[d] = "sumHi" => rdSum[d].lo = sum.lo
        /\ dpc[d] = "recheck" => rdSum[d] = sum

\* Everything the safety of drain() rests on, inductive under every step.
IInv == /\ TypeOK /\ SeqInv /\ SumInv /\ ExtraInv /\ CarryInv
        /\ ClaimInv /\ BaseInv /\ ReadInv
=============================================================================
