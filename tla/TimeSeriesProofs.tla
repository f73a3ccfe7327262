-------------------------- MODULE TimeSeriesProofs --------------------------
(***************************************************************************)
(* What the two-word arithmetic of TimeSeriesType computes, and that       *)
(* TimeSeriesType keeps IInv and implements Accumulator, for every width   *)
(* of T, every set of drainers and every bound on the updates.             *)
(***************************************************************************)
EXTENDS TimeSeriesType, TLAPS

\* static_cast<Carry> leaves a value of Carry alone.
LEMMA ToCarryId ==
    ASSUME NEW x \in Carry
    PROVE  ToCarry(x) = x
BY WordAssumption, SMT DEF ToCarry, Carry

\* static_cast<Raw> of a value at most one modulus away, case by case.
LEMMA ToRawCases ==
    ASSUME NEW x \in Int, - RawMod <= x, x < 2 * RawMod
    PROVE  ToRaw(x) = IF x < 0 THEN x + RawMod
                      ELSE IF x < RawMod THEN x ELSE x - RawMod
BY WordAssumption, SMT DEF ToRaw, RawMod

\* addRaw(): the wrap test finds exactly the additions that wrapped.
LEMMA AddLoExact ==
    ASSUME NEW lo \in Raw, NEW delta \in (1 - RawMod) .. (RawMod - 1)
    PROVE  LET after == AddLo(lo, ToRaw(delta))
               neg   == delta < 0
           IN  /\ after \in Raw
               /\ Wrapped(lo, after, neg) =>
                     after = lo + delta + (IF neg THEN RawMod ELSE - RawMod)
               /\ ~Wrapped(lo, after, neg) => after = lo + delta
<1> DEFINE addend == ToRaw(delta)
<1>1. RawMod \in Nat \ {0}
  BY WordAssumption DEF RawMod
<1>2. addend = IF delta < 0 THEN delta + RawMod ELSE delta
  BY <1>1, ToRawCases
<1>3. AddLo(lo, addend) = IF lo + addend < RawMod THEN lo + addend
                          ELSE lo + addend - RawMod
  BY <1>1, <1>2, ToRawCases DEF AddLo, Raw
<1>4. QED
  BY <1>1, <1>2, <1>3 DEF Wrapped, Raw

\* difference() subtracts the integers the two words stand for.
LEMMA DifferenceExact ==
    ASSUME NEW now \in Snapshot, NEW base \in Snapshot,
           now.hi - base.hi - 1 \in Carry, now.hi - base.hi \in Carry
    PROVE  /\ Difference(now, base) \in Snapshot
           /\ Val(Difference(now, base)) = Val(now) - Val(base)
           /\ Difference(now, base).hi \in {now.hi - base.hi, now.hi - base.hi - 1}
<1>1. RawMod \in Nat \ {0}
  BY WordAssumption DEF RawMod
<1>2. ToRaw(now.lo - base.lo) = IF now.lo < base.lo
                                THEN now.lo - base.lo + RawMod
                                ELSE now.lo - base.lo
  BY <1>1, ToRawCases DEF Snapshot, Raw
<1>3. CASE now.lo < base.lo
  BY <1>1, <1>2, <1>3, ToCarryId, WordAssumption
  DEF Difference, Val, Snapshot, Raw, Carry
<1>4. CASE ~(now.lo < base.lo)
  BY <1>1, <1>2, <1>4, ToCarryId, WordAssumption
  DEF Difference, Val, Snapshot, Raw, Carry
<1>5. QED
  BY <1>3, <1>4

\* Quotient and remainder of a natural number.
LEMMA DivMod ==
    ASSUME NEW n \in Nat, NEW m \in Nat \ {0}
    PROVE  /\ n \div m \in Nat
           /\ n % m \in 0 .. (m - 1)
           /\ n = (n \div m) * m + (n % m)
BY SMT

\* The carry of addCalls() exceeds the number of calls by at most one.
LEMMA QuotientBound ==
    ASSUME NEW q \in Nat, NEW r \in Nat, NEW m \in Nat \ {0},
           NEW a \in 0 .. (m - 1), NEW c \in Nat, a + c = q * m + r
    PROVE  q <= c + 1
<1>1. SUFFICES ASSUME q >= c + 2 PROVE FALSE
  BY SMT
<1>2. q * m >= (c + 2) * m
  BY <1>1, SMT
<1>3. (c + 2) * m = c * m + 2 * m
  BY SMT
<1>4. c * m >= c
  BY SMT
<1>5. q * m \in Nat /\ c * m \in Nat
  BY SMT
<1>6. QED
  BY <1>2, <1>3, <1>4, <1>5

\* addCalls(): both branches add the number of calls, exactly.
LEMMA AddCallsExact ==
    ASSUME NEW delta \in Snapshot, NEW calls \in Nat,
           NarrowRaw \/ calls < RawMod,
           delta.hi + calls + 1 \in Carry
    PROVE  /\ AddCalls(delta, calls) \in Snapshot
           /\ Val(AddCalls(delta, calls)) = Val(delta) + calls
<1> DEFINE n == delta.lo + calls
           lo == ToRaw(n)
<1>1. /\ RawMod \in Nat \ {0}
      /\ delta.lo \in Raw /\ delta.hi \in Carry /\ delta.hi \in Int
      /\ n \in Nat
  BY WordAssumption DEF RawMod, Snapshot, Raw, Carry
<1>2. lo \in Raw /\ n \div RawMod \in Nat /\ n = (n \div RawMod) * RawMod + lo
  BY <1>1, DivMod DEF ToRaw, Raw
<1>3. n \div RawMod <= calls + 1
  <2> HIDE DEF lo
  <2>1. lo \in Nat /\ delta.lo \in 0 .. (RawMod - 1)
    BY <1>1, <1>2 DEF Raw
  <2>2. delta.lo + calls = (n \div RawMod) * RawMod + lo
    BY <1>2
  <2>3. QED
    BY <1>1, <1>2, <2>1, <2>2, QuotientBound
<1> DEFINE carry == IF NarrowRaw THEN n \div RawMod
                    ELSE IF lo < delta.lo THEN 1 ELSE 0
<1>4. carry \in 0 .. (calls + 1) /\ n = carry * RawMod + lo
  <2>1. CASE NarrowRaw
    BY <2>1, <1>2, <1>3
  <2>2. CASE ~NarrowRaw
    <3>1. lo = IF n < RawMod THEN n ELSE n - RawMod
      BY <2>2, <1>1, ToRawCases DEF Raw
    <3>2. QED
      BY <2>2, <3>1, <1>1 DEF Raw
  <2>3. QED
    BY <2>1, <2>2, WordAssumption
<1>5. delta.hi + carry \in Carry
  BY <1>1, <1>4, WordAssumption DEF Carry
<1>6. AddCalls(delta, calls) = [lo |-> lo, hi |-> delta.hi + carry]
  BY <1>5, ToCarryId DEF AddCalls
<1> HIDE DEF carry, lo
<1>7. (delta.hi + carry) * RawMod = delta.hi * RawMod + carry * RawMod
  BY <1>1, <1>4, SMT
<1>8. AddCalls(delta, calls) \in Snapshot
  BY <1>2, <1>5, <1>6 DEF Snapshot
<1>9. Val(AddCalls(delta, calls)) = (delta.hi + carry) * RawMod + lo
  BY <1>6 DEF Val
<1>10. /\ delta.hi * RawMod \in Int /\ carry * RawMod \in Int
       /\ lo \in Int /\ delta.lo \in Int
  BY <1>1, <1>2, <1>4, SMT DEF Raw
<1>11. delta.lo + calls = carry * RawMod + lo
  BY <1>4
<1>12. Val(delta) = delta.hi * RawMod + delta.lo
  BY DEF Val
<1>13. QED
  BY <1>7, <1>8, <1>9, <1>10, <1>11, <1>12

\* clamp() reads two words as the nearest value of T.
LEMMA ClampIsSaturate ==
    ASSUME NEW s \in [lo : Raw, hi : Int]
    PROVE  Clamp(s) = Saturate(Val(s))
BY WordAssumption, SMT DEF Clamp, Saturate, Val, Raw, RawMod

-----------------------------------------------------------------------------
(***************************************************************************)
(* The invariant and the refinement.                                       *)
(***************************************************************************)
\* What the assumptions on the constants give to every step.
LEMMA ConstFacts ==
    /\ HalfRaw \in Nat \ {0, 1} /\ RawMod \in Nat \ {0} /\ RawMod = 2 * HalfRaw
    /\ HalfCarry \in Nat \ {0} /\ MaxUpdates \in Nat
    /\ HiBound \in Nat /\ HiBound = 2 * MaxUpdates
    /\ HalfCarry > 2 * HiBound + MaxUpdates + 2
    /\ \A v \in Values \cup Counts : v \in T
BY WordAssumption, TimeSeriesAssumption DEF RawMod, HiBound

\* Bit 0 of a sequence (kInFlight) and the sequence without it.
LEMMA Parity ==
    ASSUME NEW n \in Nat
    PROVE  /\ InFlight(n + 1) <=> ~InFlight(n)
           /\ ~InFlight(n) => Even(n) = n /\ Even(n + 1) = n
           /\ InFlight(n) => Even(n) = n - 1 /\ Even(n + 1) = n + 1
           /\ Even(n) \in Nat /\ Even(n) <= n
           /\ ~InFlight(n) => /\ n \div 2 \in Nat
                              /\ 2 * (n \div 2) = n
                              /\ (n + 2) \div 2 = (n \div 2) + 1
BY SMT DEF InFlight, Even

\* The number of updates between two published sequences.
LEMMA CallsBetween ==
    ASSUME NEW a \in Nat, NEW b \in Nat, NEW m \in Nat,
           ~InFlight(a), ~InFlight(b), a <= b, b <= 2 * m
    PROVE  /\ (b - a) \div 2 = (b \div 2) - (a \div 2)
           /\ (b - a) \div 2 \in Nat
           /\ (b - a) \div 2 <= m
BY SMT DEF InFlight

\* The carry moves by exactly one when it is not at a limit.
LEMMA StepHiExact ==
    ASSUME NEW s \in Snapshot, NEW n \in Nat, NEW x \in Int, NEW y \in Int,
           Within(s, n), n < HalfCarry - 1
    PROVE  /\ StepHi(s.hi, x < y) = IF x < y THEN s.hi - 1 ELSE s.hi + 1
           /\ StepHi(s.hi, x < y) \in Carry
<1>1. s.hi - 1 \in Carry /\ s.hi + 1 \in Carry
  BY ConstFacts DEF Within, Snapshot, Carry
<1>2. CASE x < y
  BY <1>1, <1>2, ToCarryId DEF StepHi
<1>3. CASE ~(x < y)
  BY <1>1, <1>3, ToCarryId DEF StepHi
<1>4. QED
  BY <1>2, <1>3

\* Changing one word of a two-word value.
LEMMA ValStep ==
    ASSUME NEW s \in Snapshot, NEW lo \in Raw, NEW hi \in Carry
    PROVE  /\ [s EXCEPT !.lo = lo] \in Snapshot
           /\ [s EXCEPT !.hi = hi] \in Snapshot
           /\ Val(s) \in Int
           /\ Val([s EXCEPT !.lo = lo]) = Val(s) + (lo - s.lo)
           /\ hi = s.hi + 1 => Val([s EXCEPT !.hi = hi]) = Val(s) + RawMod
           /\ hi = s.hi - 1 => Val([s EXCEPT !.hi = hi]) = Val(s) - RawMod
BY ConstFacts DEF Snapshot, Raw, Carry, Val

\* The pair of a drain, once its loads are as IInv says.
LEMMA DrainResultExact ==
    ASSUME NEW d \in Drainers, TypeOK,
           Within(rdSum[d], HiBound), Within(rdExtra[d], HiBound),
           Within(rdBase[d], HiBound), Within(baseExtra, HiBound),
           ~block[d] => baseExtra = ZeroSnapshot,
           ~InFlight(last[d]), ~InFlight(before[d]),
           last[d] <= before[d], before[d] <= HiBound
    PROVE  /\ DrainResult(d) \in [count : T, sum : T]
           /\ DrainResult(d) =
                [count |-> Saturate(Val(rdExtra[d]) - Val(baseExtra)
                                    + ((before[d] \div 2) - (last[d] \div 2))),
                 sum   |-> Saturate(Val(rdSum[d]) - Val(rdBase[d]))]
<1> DEFINE calls == (before[d] - last[d]) \div 2
           dSum  == Difference(rdSum[d], rdBase[d])
           dEx   == Difference(rdExtra[d], baseExtra)
<1>1. /\ rdSum[d] \in Snapshot /\ rdExtra[d] \in Snapshot
      /\ rdBase[d] \in Snapshot /\ baseExtra \in Snapshot
      /\ last[d] \in Nat /\ before[d] \in Nat /\ block[d] \in BOOLEAN
  BY DEF TypeOK
<1>2. calls = (before[d] \div 2) - (last[d] \div 2)
      /\ calls \in Nat /\ calls <= MaxUpdates
  BY <1>1, ConstFacts, CallsBetween
<1>3. /\ rdSum[d].hi - rdBase[d].hi \in Carry
      /\ rdSum[d].hi - rdBase[d].hi - 1 \in Carry
      /\ rdExtra[d].hi - baseExtra.hi \in Carry
      /\ rdExtra[d].hi - baseExtra.hi - 1 \in Carry
  BY <1>1, ConstFacts DEF Within, Snapshot, Carry
<1>4. dSum \in Snapshot /\ Val(dSum) = Val(rdSum[d]) - Val(rdBase[d])
  BY <1>1, <1>3, DifferenceExact
<1>5. dEx \in Snapshot /\ Val(dEx) = Val(rdExtra[d]) - Val(baseExtra)
  BY <1>1, <1>3, DifferenceExact
<1>6. dEx.hi + calls + 1 \in Carry
  <2>1. dEx.hi \in {rdExtra[d].hi - baseExtra.hi, rdExtra[d].hi - baseExtra.hi - 1}
    BY <1>1, <1>3, DifferenceExact
  <2>2. rdExtra[d].hi \in Int /\ baseExtra.hi \in Int
    BY <1>1 DEF Snapshot, Carry
  <2>3. QED
    BY <2>1, <2>2, <1>2, ConstFacts DEF Within, Carry
<1>7. NarrowRaw \/ calls < RawMod
  BY <1>2, ConstFacts, TimeSeriesAssumption
<1>8. /\ AddCalls(dEx, calls) \in Snapshot
      /\ Val(AddCalls(dEx, calls)) = Val(dEx) + calls
  <2> HIDE DEF dEx, calls
  <2> QED
    BY <1>2, <1>5, <1>6, <1>7, AddCallsExact
<1>9. DrainResult(d) = [count |-> Clamp(AddCalls(dEx, calls)), sum |-> Clamp(dSum)]
  BY <1>1 DEF DrainResult
<1>10. Snapshot \subseteq [lo : Raw, hi : Int]
  BY ConstFacts DEF Snapshot, Carry
<1>11. \A s \in Snapshot : Clamp(s) = Saturate(Val(s)) /\ Val(s) \in Int
  BY <1>10, ClampIsSaturate, ConstFacts DEF Val, Raw
<1>12. \A n \in Int : Saturate(n) \in T
  BY ConstFacts DEF Saturate, T
<1> HIDE DEF dEx, dSum, calls
<1>13. Clamp(AddCalls(dEx, calls)) =
          Saturate(Val(rdExtra[d]) - Val(baseExtra)
                   + ((before[d] \div 2) - (last[d] \div 2)))
  BY <1>2, <1>5, <1>8, <1>11
<1>14. Clamp(dSum) = Saturate(Val(rdSum[d]) - Val(rdBase[d]))
  BY <1>4, <1>11
<1>15. Clamp(AddCalls(dEx, calls)) \in T /\ Clamp(dSum) \in T
  BY <1>4, <1>8, <1>11, <1>12
<1>16. QED
  BY <1>9, <1>13, <1>14, <1>15

-----------------------------------------------------------------------------
(***************************************************************************)
(* Steps of the adder.  They leave the drainers' variables alone, and move *)
(* seq_ forward or write words while it is odd.                            *)
(***************************************************************************)
LEMMA AdderFrame ==
    ASSUME IInv, UNCHANGED drainerVars, seq' \in Nat, seq' >= seq,
           \/ seq' = seq /\ UNCHANGED <<sum, extra>>
           \/ InFlight(seq')
           \/ seq' > seq
    PROVE  ClaimInv' /\ BaseInv' /\ ReadInv'
<1> USE DEF drainerVars
<1>1. ClaimInv'
  BY DEF IInv, TypeOK, ClaimInv, ClaimExclusive, Claimed, Even
<1>2. BaseInv'
  BY DEF IInv, BaseInv
<1>3. ReadInv'
  <2> SUFFICES ASSUME NEW d \in Drainers, seq' = before[d], dpc[d] \in LoadPcs
               PROVE  ReadInv!(d)!2'
    BY DEF ReadInv, LoadPcs
  <2>1. ~InFlight(before[d]) /\ before[d] <= seq /\ before[d] \in Nat /\ seq \in Nat
    BY DEF IInv, ClaimInv, TypeOK
  <2>2. seq' = seq /\ UNCHANGED <<sum, extra>>
    BY <2>1
  <2>3. QED
    BY <2>2 DEF IInv, ReadInv
<1>4. QED
  BY <1>1, <1>2, <1>3

\* A call of addValue() begins: only its arguments change.
LEMMA AddValueIInv ==
    ASSUME IInv, NEW value \in Values, NEW count \in Counts,
           AddValue(value, count)
    PROVE  IInv'
<1> USE ConstFacts DEF AddValue
<1>1. TypeOK'
  <2>1. call' \in [value : T, count : T, block : BOOLEAN] /\ surplus' \in BOOLEAN
    <3>1. value \in T /\ count \in T /\ surplus \in BOOLEAN
      BY DEF IInv, TypeOK
    <3>2. \E got \in BOOLEAN :
             /\ call' = [value |-> value, count |-> count, block |-> got]
             /\ surplus' \in BOOLEAN
      BY <3>1, Zenon
    <3>3. PICK got \in BOOLEAN :
             /\ call' = [value |-> value, count |-> count, block |-> got]
             /\ surplus' \in BOOLEAN
      BY <3>2
    <3>4. QED
      BY <3>1, <3>3
  <2>2. QED
    BY <2>1 DEF IInv, TypeOK, AdderPcs, drainerVars
<1>2. SeqInv' /\ SumInv' /\ CarryInv'
  BY DEF IInv, TypeOK, SeqInv, InFlight, HiBound, SumInv, CarryInv, Within, drainerVars
<1>3. ExtraInv'
  BY DEF IInv, TypeOK, ExtraInv, Published, drainerVars
<1>4. ClaimInv' /\ BaseInv' /\ ReadInv'
  BY AdderFrame DEF IInv, TypeOK
<1>5. QED
  BY <1>1, <1>2, <1>3, <1>4 DEF IInv

\* The sequence turns odd: readers now know the words may be torn.
LEMMA BeginUpdateIInv ==
    ASSUME IInv, BeginUpdate
    PROVE  IInv'
<1> USE ConstFacts DEF BeginUpdate
<1>1. seq \in Nat /\ ~InFlight(seq) /\ InFlight(seq') /\ Published' = Published
  BY Parity DEF IInv, TypeOK, SeqInv, Published
<1>2. TypeOK'
  BY DEF IInv, TypeOK, AdderPcs, drainerVars
<1>2a. SeqInv'
  <2>1. /\ seq < HiBound /\ seq + 1 < HiBound
        /\ call.value \in Values /\ call.count \in Counts
    BY <1>1 DEF IInv, SeqInv, InFlight
  <2>2. apc' \in {"extraLo", "sumLo"}
    OBVIOUS
  <2>3. QED
    BY <1>1, <2>1, <2>2 DEF SeqInv
<1>3. SumInv'
  BY DEF IInv, SumInv
<1>3a. CarryInv'
  BY <1>1 DEF IInv, TypeOK, CarryInv, Within, drainerVars, Snapshot, Carry
<1>4. ExtraInv'
  <2>1. /\ Val(extra) = added.count - Published
        /\ added.count \in Int /\ Published \in Int
        /\ call.block => surplus
        /\ ~surplus => extra = ZeroSnapshot /\ baseExtra = ZeroSnapshot
        /\ \A d \in Drainers : block[d] => surplus
    BY <1>1, Parity DEF IInv, TypeOK, ExtraInv, Pair, Published
  <2>2. CASE call.block
    BY <1>1, <2>1, <2>2 DEF ExtraInv, drainerVars
  <2>3. CASE ~call.block
    BY <1>1, <2>1, <2>3 DEF ExtraInv, CountOf, drainerVars
  <2>4. QED
    BY <2>2, <2>3
<1>5. ClaimInv' /\ BaseInv' /\ ReadInv'
  BY <1>1, AdderFrame
<1>6. QED
  BY <1>2, <1>2a, <1>3, <1>3a, <1>4, <1>5 DEF IInv

\* The low word of the surplus, with the carry still owed if it wrapped.
LEMMA AddExtraLoIInv ==
    ASSUME IInv, AddExtraLo
    PROVE  IInv'
<1> USE ConstFacts DEF AddExtraLo
<1> DEFINE delta == call.count - 1
           after == AddLo(extra.lo, ToRaw(ToRaw(call.count) - 1))
<1>0. /\ extra \in Snapshot /\ call.count \in T /\ call.block
      /\ seq \in Nat /\ InFlight(seq)
  BY DEF IInv, TypeOK, SeqInv, ExtraInv
<1>1. /\ extra \in Snapshot /\ extra.lo \in Raw /\ call.count \in T
      /\ delta \in (1 - RawMod) .. (RawMod - 1) /\ (call.count < 1 <=> delta < 0)
      /\ seq \in Nat /\ InFlight(seq) /\ call.block
  BY <1>0 DEF Snapshot, T
<1>2. ToRaw(ToRaw(call.count) - 1) = ToRaw(delta)
  <2>1. /\ ToRaw(call.count) = IF call.count < 0 THEN call.count + RawMod
                               ELSE call.count
        /\ ToRaw(delta) = IF delta < 0 THEN delta + RawMod ELSE delta
    BY <1>1, ToRawCases DEF T
  <2>2. QED
    BY <1>1, <2>1, ToRawCases DEF T
<1>3. /\ after \in Raw
      /\ Wrapped(extra.lo, after, delta < 0) =>
            after = extra.lo + delta + OffByWrap(delta)
      /\ ~Wrapped(extra.lo, after, delta < 0) => after = extra.lo + delta
  BY <1>1, <1>2, AddLoExact DEF OffByWrap
<1>4. /\ extra' \in Snapshot /\ extra'.hi = extra.hi
      /\ Val(extra) \in Int /\ Val(extra') = Val(extra) + (after - extra.lo)
  BY <1>1, <1>3, ValStep DEF Snapshot
<1>5. TypeOK'
  BY <1>4 DEF IInv, TypeOK, AdderPcs, drainerVars
<1>6. SeqInv' /\ SumInv'
  BY DEF IInv, SeqInv, SumInv
<1>7. CarryInv'
  BY <1>4 DEF IInv, TypeOK, CarryInv, Within, drainerVars, Snapshot, Carry
<1>8. ExtraInv'
  <2>1. surplus' /\ call' = call /\ CountOf(call) - 1 = delta /\ Published' = Published
    BY <1>1 DEF IInv, ExtraInv, CountOf, Published
  <2>2. Val(extra) = added.count - Published /\ Published \in Int /\ added.count \in Int
    BY <1>1, Parity DEF IInv, ExtraInv, TypeOK, Pair, Published
  <2>3. OffByWrap(delta) \in Int /\ extra.lo \in Int /\ delta \in Int
    BY <1>1 DEF OffByWrap, Raw
  <2>4. CASE Wrapped(extra.lo, after, delta < 0)
    <3>1. apc' = "extraHi"
      BY <1>1, <2>4
    <3>2. Val(extra') = added.count - Published + delta + OffByWrap(delta)
      BY <1>3, <1>4, <2>2, <2>3, <2>4
    <3>3. QED
      BY <1>1, <2>1, <3>1, <3>2 DEF ExtraInv
  <2>5. CASE ~Wrapped(extra.lo, after, delta < 0)
    <3>1. apc' = "sumLo"
      BY <1>1, <2>5
    <3>2. Val(extra') = added.count - Published + delta
      BY <1>3, <1>4, <2>2, <2>3, <2>5
    <3>3. QED
      BY <1>1, <2>1, <3>1, <3>2 DEF ExtraInv, CountOf
  <2>6. QED
    BY <2>4, <2>5
<1>9. ClaimInv' /\ BaseInv' /\ ReadInv'
  BY <1>1, AdderFrame
<1>10. QED
  BY <1>5, <1>6, <1>7, <1>8, <1>9 DEF IInv

\* The carry of the surplus is paid.
LEMMA AddExtraHiIInv ==
    ASSUME IInv, AddExtraHi
    PROVE  IInv'
<1> USE ConstFacts DEF AddExtraHi
<1> DEFINE delta == call.count - 1
           hi    == StepHi(extra.hi, call.count < 1)
<1>1. /\ extra \in Snapshot /\ call.count \in T /\ delta \in Int
      /\ (call.count < 1 <=> delta < 0)
      /\ seq \in Nat /\ seq <= HiBound /\ InFlight(seq) /\ call.block
      /\ Within(extra, seq - 1) /\ seq >= 1
  BY Parity DEF IInv, TypeOK, SeqInv, ExtraInv, CarryInv, T, InFlight
<1>2. hi = (IF delta < 0 THEN extra.hi - 1 ELSE extra.hi + 1) /\ hi \in Carry
  BY <1>1, StepHiExact
<1>3. /\ extra' \in Snapshot /\ extra'.hi = hi /\ Val(extra) \in Int
      /\ Val(extra') = Val(extra) - OffByWrap(delta)
  BY <1>1, <1>2, ValStep DEF Snapshot, OffByWrap, Raw
<1>4. TypeOK'
  BY <1>3 DEF IInv, TypeOK, AdderPcs, drainerVars
<1>5. SeqInv' /\ SumInv'
  BY DEF IInv, SeqInv, SumInv
<1>6. CarryInv'
  BY <1>1, <1>2, <1>3 DEF IInv, TypeOK, CarryInv, Within, drainerVars, Snapshot, Carry
<1>7. ExtraInv'
  <2>1. surplus' /\ call' = call /\ CountOf(call) - 1 = delta /\ Published' = Published
    BY <1>1 DEF IInv, ExtraInv, CountOf, Published
  <2>2. /\ Val(extra) = added.count - Published + delta + OffByWrap(delta)
        /\ Published \in Int /\ added.count \in Int /\ OffByWrap(delta) \in Int
    BY <1>1, Parity DEF IInv, ExtraInv, TypeOK, Pair, Published, OffByWrap
  <2>3. Val(extra') = added.count - Published + delta
    BY <1>1, <1>3, <2>2
  <2>4. QED
    BY <1>1, <2>1, <2>3 DEF ExtraInv, CountOf
<1>8. ClaimInv' /\ BaseInv' /\ ReadInv'
  BY <1>1, AdderFrame
<1>9. QED
  BY <1>4, <1>5, <1>6, <1>7, <1>8 DEF IInv

\* The low word of the sum, with the carry still owed if it wrapped.
LEMMA AddSumLoIInv ==
    ASSUME IInv, AddSumLo
    PROVE  IInv'
<1> USE ConstFacts DEF AddSumLo
<1> DEFINE delta == call.value
           after == AddLo(sum.lo, ToRaw(delta))
<1>0. /\ sum \in Snapshot /\ delta \in T /\ added.sum \in Int
      /\ seq \in Nat /\ InFlight(seq) /\ Val(sum) = added.sum
  BY DEF IInv, TypeOK, SeqInv, SumInv, Pair
<1>1. sum.lo \in Raw /\ delta \in (1 - RawMod) .. (RawMod - 1)
  BY <1>0 DEF Snapshot, T
<1>2. /\ after \in Raw
      /\ Wrapped(sum.lo, after, delta < 0) =>
            after = sum.lo + delta + OffByWrap(delta)
      /\ ~Wrapped(sum.lo, after, delta < 0) => after = sum.lo + delta
  BY <1>1, AddLoExact DEF OffByWrap
<1>3. /\ sum' \in Snapshot /\ sum'.hi = sum.hi
      /\ Val(sum) \in Int /\ Val(sum') = Val(sum) + (after - sum.lo)
  BY <1>0, <1>2, ValStep DEF Snapshot
<1>4. TypeOK'
  BY <1>3 DEF IInv, TypeOK, AdderPcs, drainerVars
<1>5. SeqInv'
  BY DEF IInv, SeqInv
<1>6. CarryInv'
  BY <1>3 DEF IInv, TypeOK, CarryInv, Within, drainerVars, Snapshot, Carry
<1>7. SumInv'
  <2>1. OffByWrap(delta) \in Int /\ sum.lo \in Int /\ delta \in Int
    BY <1>1 DEF OffByWrap, Raw
  <2>2. CASE Wrapped(sum.lo, after, delta < 0)
    <3>1. apc' = "sumHi" /\ Val(sum') = added.sum + delta + OffByWrap(delta)
      BY <1>0, <1>2, <1>3, <2>1, <2>2
    <3>2. QED
      BY <3>1 DEF SumInv
  <2>3. CASE ~Wrapped(sum.lo, after, delta < 0)
    <3>1. apc' = "publish" /\ Val(sum') = added.sum + delta
      BY <1>0, <1>2, <1>3, <2>1, <2>3
    <3>2. QED
      BY <3>1 DEF SumInv
  <2>4. QED
    BY <2>2, <2>3
<1>8. ExtraInv'
  BY DEF IInv, ExtraInv, Published, drainerVars
<1>9. ClaimInv' /\ BaseInv' /\ ReadInv'
  BY <1>0, AdderFrame
<1>10. QED
  BY <1>4, <1>5, <1>6, <1>7, <1>8, <1>9 DEF IInv

\* The carry of the sum is paid.
LEMMA AddSumHiIInv ==
    ASSUME IInv, AddSumHi
    PROVE  IInv'
<1> USE ConstFacts DEF AddSumHi
<1> DEFINE delta == call.value
           hi    == StepHi(sum.hi, delta < 0)
<1>1. /\ sum \in Snapshot /\ delta \in Int /\ added.sum \in Int
      /\ seq \in Nat /\ seq <= HiBound /\ InFlight(seq)
      /\ Within(sum, seq - 1) /\ seq >= 1
      /\ Val(sum) = added.sum + delta + OffByWrap(delta)
  BY Parity DEF IInv, TypeOK, SeqInv, SumInv, CarryInv, T, InFlight, Pair
<1>2. hi = (IF delta < 0 THEN sum.hi - 1 ELSE sum.hi + 1) /\ hi \in Carry
  BY <1>1, StepHiExact
<1>3. /\ sum' \in Snapshot /\ sum'.hi = hi /\ Val(sum) \in Int
      /\ Val(sum') = Val(sum) - OffByWrap(delta)
  BY <1>1, <1>2, ValStep DEF Snapshot, OffByWrap, Raw
<1>4. TypeOK'
  BY <1>3 DEF IInv, TypeOK, AdderPcs, drainerVars
<1>5. SeqInv'
  BY DEF IInv, SeqInv
<1>6. CarryInv'
  BY <1>1, <1>2, <1>3 DEF IInv, TypeOK, CarryInv, Within, drainerVars, Snapshot, Carry
<1>7. SumInv'
  <2>1. OffByWrap(delta) \in Int
    BY DEF OffByWrap
  <2>2. Val(sum') = added.sum + delta
    BY <1>1, <1>3, <2>1
  <2>3. QED
    BY <2>2 DEF SumInv
<1>8. ExtraInv'
  BY DEF IInv, ExtraInv, Published, drainerVars
<1>9. ClaimInv' /\ BaseInv' /\ ReadInv'
  BY <1>1, AdderFrame
<1>10. QED
  BY <1>4, <1>5, <1>6, <1>7, <1>8, <1>9 DEF IInv

\* The sequence turns even: the totals are those of all updates.
LEMMA PublishIInv ==
    ASSUME IInv, Publish
    PROVE  IInv'
<1> USE ConstFacts DEF Publish
<1>1. /\ seq \in Nat /\ InFlight(seq) /\ ~InFlight(seq') /\ seq < HiBound
      /\ Published \in Int /\ Published' = Published + 1
  <2>1. seq \in Nat /\ InFlight(seq) /\ seq < HiBound
    BY DEF IInv, TypeOK, SeqInv
  <2>2. QED
    BY <2>1 DEF Published, Even, InFlight
<1>2. /\ added.count \in Int /\ added.sum \in Int
      /\ call.value \in Int /\ CountOf(call) \in Int
  BY DEF IInv, TypeOK, Pair, T, CountOf
<1>3. TypeOK'
  BY <1>1, <1>2 DEF IInv, TypeOK, AdderPcs, drainerVars, Pair
<1>4. SeqInv'
  BY <1>1 DEF SeqInv
<1>5. SumInv'
  BY <1>2 DEF IInv, SumInv
<1>6. ExtraInv'
  <2>1. /\ Val(extra) = added.count - Published + (CountOf(call) - 1)
        /\ ~surplus => extra = ZeroSnapshot /\ baseExtra = ZeroSnapshot
        /\ \A d \in Drainers : block[d] => surplus
    BY DEF IInv, ExtraInv
  <2>2. Val(extra') = added'.count - Published'
    BY <1>1, <1>2, <2>1
  <2>3. QED
    BY <2>1, <2>2 DEF ExtraInv, drainerVars
<1>7. CarryInv'
  BY <1>1 DEF IInv, TypeOK, CarryInv, Within, drainerVars, Snapshot, Carry
<1>8. ClaimInv' /\ BaseInv' /\ ReadInv'
  BY <1>1, AdderFrame
<1>9. QED
  BY <1>3, <1>4, <1>5, <1>6, <1>7, <1>8 DEF IInv

-----------------------------------------------------------------------------
(***************************************************************************)
(* Steps of a drainer.  They leave the adder's variables alone.            *)
(***************************************************************************)
LEMMA DrainerFrame ==
    ASSUME IInv, UNCHANGED adderVars
    PROVE  /\ SeqInv' /\ SumInv'
           /\ (UNCHANGED <<baseExtra, block>>) => ExtraInv'
           /\ (UNCHANGED <<baseSum, baseExtra, rdSum, rdExtra>>) => CarryInv'
BY DEF IInv, adderVars, SeqInv, SumInv, ExtraInv, Published, CarryInv, Within

\* Only one drainer holds the claim; the others are outside drain()'s body.
LEMMA OneClaim ==
    ASSUME IInv, NEW d \in Drainers, NEW e \in Drainers, Claimed(d), e # d
    PROVE  dpc[e] \notin ClaimPcs
BY DEF IInv, ClaimInv, ClaimExclusive, Claimed

\* A snapshot is the record of its two words.
LEMMA SnapshotEq ==
    ASSUME NEW s \in Snapshot, NEW t \in Snapshot, s.lo = t.lo, s.hi = t.hi
    PROVE  s = t
BY DEF Snapshot

\* A call of reset() begins.
LEMMA ResetIInv ==
    ASSUME IInv, NEW d \in Drainers, Reset(d)
    PROVE  IInv'
<1> USE DEF Reset
<1>1. SeqInv' /\ SumInv' /\ ExtraInv'
  BY DrainerFrame
<1>2. CarryInv'
  BY DrainerFrame
<1>3. TypeOK'
  BY DEF IInv, adderVars, TypeOK, AdderPcs, DrainPcs, ClaimPcs, LoadPcs
<1>4. ClaimInv'
  BY DEF IInv, adderVars, ClaimInv, ClaimExclusive, Claimed, LoadPcs, ClaimPcs, TypeOK
<1>5. BaseInv'
  BY DEF IInv, adderVars, BaseInv, TypeOK
<1>6. ReadInv'
  BY DEF IInv, adderVars, ReadInv, TypeOK
<1>7. QED
  BY <1>1, <1>2, <1>3, <1>4, <1>5, <1>6 DEF IInv

\* reset() finds nothing new and returns an empty pair.
LEMMA QuickReturnIInv ==
    ASSUME IInv, NEW d \in Drainers, QuickReturn(d)
    PROVE  IInv'
<1> USE DEF QuickReturn
<1>1. SeqInv' /\ SumInv' /\ ExtraInv'
  BY DrainerFrame
<1>2. CarryInv'
  BY DrainerFrame
<1>3. TypeOK'
  <2>1. NoPair \in [count : T, sum : T]
    BY ConstFacts DEF NoPair, T
  <2>2. QED
    BY <2>1 DEF IInv, adderVars, TypeOK, DrainPcs
<1>4. ClaimInv'
  BY DEF IInv, adderVars, ClaimInv, ClaimExclusive, Claimed, LoadPcs, ClaimPcs, TypeOK
<1>5. BaseInv'
  BY DEF IInv, adderVars, BaseInv, TypeOK
<1>6. ReadInv'
  BY DEF IInv, adderVars, ReadInv, TypeOK
<1>7. QED
  BY <1>1, <1>2, <1>3, <1>4, <1>5, <1>6 DEF IInv

\* reset() goes on to drain().
LEMMA EnterDrainIInv ==
    ASSUME IInv, NEW d \in Drainers, EnterDrain(d)
    PROVE  IInv'
<1> USE DEF EnterDrain
<1>1. SeqInv' /\ SumInv' /\ ExtraInv'
  BY DrainerFrame
<1>2. CarryInv'
  BY DrainerFrame
<1>3. TypeOK'
  BY DEF IInv, adderVars, TypeOK, AdderPcs, DrainPcs, ClaimPcs, LoadPcs
<1>4. ClaimInv'
  BY DEF IInv, adderVars, ClaimInv, ClaimExclusive, Claimed, LoadPcs, ClaimPcs, TypeOK
<1>5. BaseInv'
  BY DEF IInv, adderVars, BaseInv, TypeOK
<1>6. ReadInv'
  BY DEF IInv, adderVars, ReadInv, TypeOK
<1>7. QED
  BY <1>1, <1>2, <1>3, <1>4, <1>5, <1>6 DEF IInv

\* The compare-exchange gives the claim to one drainer or turns it away.
LEMMA ClaimIInv ==
    ASSUME IInv, NEW d \in Drainers, Claim(d)
    PROVE  IInv'
<1> USE DEF Claim
<1>1. SeqInv' /\ SumInv' /\ ExtraInv'
  BY DrainerFrame
<1>2. CarryInv'
  BY DrainerFrame
<1>3. TypeOK'
  BY DEF IInv, adderVars, TypeOK, AdderPcs, DrainPcs, ClaimPcs, LoadPcs
<1>4. ClaimInv'
  <2>1. /\ lastSeq \in Nat /\ InFlight(lastSeq') /\ Even(lastSeq') = lastSeq
        /\ Even(lastSeq) = lastSeq /\ lastSeq <= seq
    BY Parity DEF IInv, TypeOK, ClaimInv
  <2>2. \A e \in Drainers : dpc[e] \notin ClaimPcs
    BY DEF IInv, ClaimInv, ClaimExclusive, Claimed
  <2>3. \A e \in Drainers : dpc'[e] = IF e = d THEN "base" ELSE dpc[e]
    BY DEF IInv, TypeOK
  <2>4. last'[d] = lastSeq
    BY DEF IInv, TypeOK
  <2>5. ClaimExclusive'
    BY <2>1, <2>2, <2>3 DEF ClaimExclusive, Claimed, ClaimPcs
  <2>6. QED
    BY <2>1, <2>2, <2>3, <2>4, <2>5 DEF ClaimInv, Claimed, ClaimPcs, LoadPcs, adderVars
<1>5. BaseInv'
  <2>1. Even(lastSeq') = Even(lastSeq)
    BY Parity DEF IInv, TypeOK
  <2>2. \A e \in Drainers : dpc[e] \notin {"store", "release"}
    BY DEF IInv, ClaimInv, ClaimExclusive, Claimed, ClaimPcs
  <2>3. QED
    BY <2>1, <2>2 DEF IInv, BaseInv, TypeOK
<1>6. ReadInv'
  BY DEF IInv, adderVars, ReadInv, TypeOK
<1>7. QED
  BY <1>1, <1>2, <1>3, <1>4, <1>5, <1>6 DEF IInv

\* The owner of the claim reads a baseline that nobody else writes.
LEMMA LoadBaseSumIInv ==
    ASSUME IInv, NEW d \in Drainers, LoadBaseSum(d)
    PROVE  IInv'
<1> USE DEF LoadBaseSum
<1>1. SeqInv' /\ SumInv' /\ ExtraInv'
  BY DrainerFrame
<1>2. CarryInv'
  BY DrainerFrame
<1>3. TypeOK'
  BY DEF IInv, adderVars, TypeOK, AdderPcs, DrainPcs, ClaimPcs, LoadPcs
<1>4. ClaimInv'
  BY DEF IInv, adderVars, ClaimInv, ClaimExclusive, Claimed, LoadPcs, ClaimPcs, TypeOK
<1>5. BaseInv'
  BY DEF IInv, adderVars, BaseInv, TypeOK
<1>6. ReadInv'
  BY DEF IInv, adderVars, ReadInv, TypeOK
<1>7. QED
  BY <1>1, <1>2, <1>3, <1>4, <1>5, <1>6 DEF IInv

\* readTotals() starts from an even sequence.
LEMMA ReadBeforeIInv ==
    ASSUME IInv, NEW d \in Drainers, ReadBefore(d)
    PROVE  IInv'
<1> USE DEF ReadBefore
<1>1. SeqInv' /\ SumInv' /\ ExtraInv'
  BY DrainerFrame
<1>2. CarryInv'
  BY DrainerFrame
<1>3. TypeOK'
  BY DEF IInv, adderVars, TypeOK, AdderPcs, DrainPcs, ClaimPcs, LoadPcs
<1>4. ClaimInv'
  <2>1. last[d] <= seq
    BY Parity DEF IInv, TypeOK, ClaimInv, Claimed, ClaimPcs
  <2>2. \A e \in Drainers : dpc'[e] = IF e = d THEN "block" ELSE dpc[e]
    BY DEF IInv, TypeOK
  <2>3. ClaimExclusive'
    BY <2>2 DEF IInv, ClaimInv, ClaimExclusive, Claimed, ClaimPcs, LoadPcs
  <2>4. before'[d] = seq /\ \A e \in Drainers \ {d} : before'[e] = before[e]
    BY DEF IInv, TypeOK
  <2>5. QED
    BY <2>1, <2>2, <2>3, <2>4
    DEF IInv, TypeOK, ClaimInv, Claimed, ClaimPcs, LoadPcs, adderVars
<1>5. BaseInv'
  BY DEF IInv, adderVars, BaseInv, TypeOK
<1>6. ReadInv'
  BY DEF IInv, adderVars, ReadInv, TypeOK
<1>7. QED
  BY <1>1, <1>2, <1>3, <1>4, <1>5, <1>6 DEF IInv

\* The pointer to the surplus block is loaded.
LEMMA LoadBlockIInv ==
    ASSUME IInv, NEW d \in Drainers, LoadBlock(d)
    PROVE  IInv'
<1> USE DEF LoadBlock
<1>1. SeqInv' /\ SumInv' /\ ExtraInv'
  <2>1. SeqInv' /\ SumInv'
    BY DrainerFrame
  <2>2. block' = [block EXCEPT ![d] = surplus] /\ block \in [Drainers -> BOOLEAN]
    BY DEF IInv, TypeOK
  <2>3. QED
    BY <2>1, <2>2 DEF IInv, ExtraInv, Published, adderVars
<1>0. ZeroSnapshot \in Snapshot /\ Within(ZeroSnapshot, HiBound)
  BY ConstFacts DEF ZeroSnapshot, Snapshot, Raw, Carry, Within
<1>2. CarryInv'
  BY <1>0 DEF IInv, TypeOK, CarryInv, Within, adderVars
<1>3. TypeOK'
  BY <1>0 DEF IInv, adderVars, TypeOK, DrainPcs, ClaimPcs, LoadPcs
<1>3a. \A e \in Drainers :
           dpc'[e] = IF e = d THEN (IF surplus THEN "extraLo" ELSE "sumLo")
                     ELSE dpc[e]
  BY DEF IInv, TypeOK
<1>3b. /\ rdExtra'[d] = ZeroSnapshot /\ block'[d] = surplus
       /\ \A e \in Drainers \ {d} : rdExtra'[e] = rdExtra[e] /\ block'[e] = block[e]
  BY DEF IInv, TypeOK
<1>3c. ~surplus => extra = ZeroSnapshot /\ baseExtra = ZeroSnapshot
  BY DEF IInv, ExtraInv
<1>4. ClaimInv'
  <2>1. ClaimExclusive'
    BY <1>3a DEF IInv, ClaimInv, ClaimExclusive, Claimed, ClaimPcs, LoadPcs
  <2>2. QED
    BY <2>1, <1>3a, <1>3b, <1>3c DEF IInv, ClaimInv, Claimed, ClaimPcs, LoadPcs, adderVars
<1>5. BaseInv'
  BY DEF IInv, adderVars, BaseInv, TypeOK
<1>6. ReadInv'
  BY <1>3a, <1>3b, <1>3c DEF IInv, ReadInv, adderVars
<1>7. QED
  BY <1>1, <1>2, <1>3, <1>4, <1>5, <1>6 DEF IInv

\* A loaded word is right unless an update has begun since.
LEMMA LoadExtraLoIInv ==
    ASSUME IInv, NEW d \in Drainers, LoadExtraLo(d)
    PROVE  IInv'
<1> USE DEF LoadExtraLo
<1>1. SeqInv' /\ SumInv' /\ ExtraInv'
  BY DrainerFrame
<1>0. /\ rdExtra'[d] = [rdExtra[d] EXCEPT !.lo = extra.lo]
      /\ \A e \in Drainers \ {d} : rdExtra'[e] = rdExtra[e]
      /\ \A e \in Drainers : dpc'[e] = IF e = d THEN "extraHi" ELSE dpc[e]
  BY DEF IInv, TypeOK
<1>0a. /\ rdExtra'[d] \in Snapshot /\ Within(rdExtra'[d], HiBound)
       /\ rdExtra'[d].lo = extra.lo /\ rdExtra'[d].hi = rdExtra[d].hi
  <2>1. rdExtra[d] \in Snapshot /\ extra \in Snapshot
    BY DEF IInv, TypeOK
  <2>2. Within(rdExtra[d], HiBound) /\ Within(extra, HiBound)
    BY <2>1, ConstFacts DEF IInv, TypeOK, SeqInv, CarryInv, Within, Snapshot, Carry
  <2>3. QED
    BY <1>0, <2>1, <2>2 DEF Snapshot, Within
<1>2. CarryInv'
  BY <1>0, <1>0a DEF IInv, CarryInv, Within, adderVars
<1>3. TypeOK'
  <2>1. rdExtra' \in [Drainers -> Snapshot]
    BY <1>0, <1>0a DEF IInv, TypeOK
  <2>2. QED
    BY <2>1 DEF IInv, adderVars, TypeOK, DrainPcs, ClaimPcs, LoadPcs
<1>4. ClaimInv'
  <2>1. ClaimExclusive'
    BY <1>0 DEF IInv, ClaimInv, ClaimExclusive, Claimed, ClaimPcs, LoadPcs
  <2>2. block[d]
    BY DEF IInv, ClaimInv, ReadInv
  <2>3. QED
    BY <2>1, <2>2, <1>0 DEF IInv, ClaimInv, Claimed, ClaimPcs, LoadPcs, adderVars
<1>5. BaseInv'
  BY DEF IInv, adderVars, BaseInv, TypeOK
<1>6. ReadInv'
  <2> QED
    BY <1>0, <1>0a DEF IInv, ReadInv, adderVars
<1>7. QED
  BY <1>1, <1>2, <1>3, <1>4, <1>5, <1>6 DEF IInv

\* The same for the carry of the surplus.
LEMMA LoadExtraHiIInv ==
    ASSUME IInv, NEW d \in Drainers, LoadExtraHi(d)
    PROVE  IInv'
<1> USE DEF LoadExtraHi
<1>1. SeqInv' /\ SumInv' /\ ExtraInv'
  BY DrainerFrame
<1>0. /\ rdExtra'[d] = [rdExtra[d] EXCEPT !.hi = extra.hi]
      /\ \A e \in Drainers \ {d} : rdExtra'[e] = rdExtra[e]
      /\ \A e \in Drainers : dpc'[e] = IF e = d THEN "sumLo" ELSE dpc[e]
  BY DEF IInv, TypeOK
<1>0a. /\ rdExtra'[d] \in Snapshot /\ Within(rdExtra'[d], HiBound)
       /\ rdExtra'[d].hi = extra.hi /\ rdExtra'[d].lo = rdExtra[d].lo
  <2>1. rdExtra[d] \in Snapshot /\ extra \in Snapshot
    BY DEF IInv, TypeOK
  <2>2. Within(rdExtra[d], HiBound) /\ Within(extra, HiBound)
    BY <2>1, ConstFacts DEF IInv, TypeOK, SeqInv, CarryInv, Within, Snapshot, Carry
  <2>3. QED
    BY <1>0, <2>1, <2>2 DEF Snapshot, Within
<1>2. CarryInv'
  BY <1>0, <1>0a DEF IInv, CarryInv, Within, adderVars
<1>3. TypeOK'
  <2>1. rdExtra' \in [Drainers -> Snapshot]
    BY <1>0, <1>0a DEF IInv, TypeOK
  <2>2. QED
    BY <2>1 DEF IInv, adderVars, TypeOK, DrainPcs, ClaimPcs, LoadPcs
<1>4. ClaimInv'
  <2>1. ClaimExclusive'
    BY <1>0 DEF IInv, ClaimInv, ClaimExclusive, Claimed, ClaimPcs, LoadPcs
  <2>2. block[d]
    BY DEF IInv, ClaimInv, ReadInv
  <2>3. QED
    BY <2>1, <2>2, <1>0 DEF IInv, ClaimInv, Claimed, ClaimPcs, LoadPcs, adderVars
<1>5. BaseInv'
  BY DEF IInv, adderVars, BaseInv, TypeOK
<1>6. ReadInv'
  <2>1. rdExtra'[d] \in Snapshot /\ rdSum'[d] \in Snapshot /\ extra \in Snapshot /\ sum \in Snapshot
    BY <1>3 DEF TypeOK, adderVars
  <2>2. seq = before[d] => rdExtra'[d] = extra
    <3>1. seq = before[d] => rdExtra'[d].lo = extra.lo
      BY <1>0a DEF IInv, ReadInv
    <3>2. QED
      BY <1>0a, <2>1, <3>1, SnapshotEq
  <2>3. QED
    BY <1>0, <2>2 DEF IInv, ReadInv, adderVars
<1>7. QED
  BY <1>1, <1>2, <1>3, <1>4, <1>5, <1>6 DEF IInv

\* The same for the low word of the sum.
LEMMA LoadSumLoIInv ==
    ASSUME IInv, NEW d \in Drainers, LoadSumLo(d)
    PROVE  IInv'
<1> USE DEF LoadSumLo
<1>1. SeqInv' /\ SumInv' /\ ExtraInv'
  BY DrainerFrame
<1>0. /\ rdSum'[d] = [rdSum[d] EXCEPT !.lo = sum.lo]
      /\ \A e \in Drainers \ {d} : rdSum'[e] = rdSum[e]
      /\ \A e \in Drainers : dpc'[e] = IF e = d THEN "sumHi" ELSE dpc[e]
  BY DEF IInv, TypeOK
<1>0a. /\ rdSum'[d] \in Snapshot /\ Within(rdSum'[d], HiBound)
       /\ rdSum'[d].lo = sum.lo /\ rdSum'[d].hi = rdSum[d].hi
  <2>1. rdSum[d] \in Snapshot /\ sum \in Snapshot
    BY DEF IInv, TypeOK
  <2>2. Within(rdSum[d], HiBound) /\ Within(sum, HiBound)
    BY <2>1, ConstFacts DEF IInv, TypeOK, SeqInv, CarryInv, Within, Snapshot, Carry
  <2>3. QED
    BY <1>0, <2>1, <2>2 DEF Snapshot, Within
<1>2. CarryInv'
  BY <1>0, <1>0a DEF IInv, CarryInv, Within, adderVars
<1>3. TypeOK'
  <2>1. rdSum' \in [Drainers -> Snapshot]
    BY <1>0, <1>0a DEF IInv, TypeOK
  <2>2. QED
    BY <2>1 DEF IInv, adderVars, TypeOK, DrainPcs, ClaimPcs, LoadPcs
<1>4. ClaimInv'
  <2>1. ClaimExclusive'
    BY <1>0 DEF IInv, ClaimInv, ClaimExclusive, Claimed, ClaimPcs, LoadPcs
  <2>3. QED
    BY <2>1, <1>0 DEF IInv, ClaimInv, Claimed, ClaimPcs, LoadPcs, adderVars
<1>5. BaseInv'
  BY DEF IInv, adderVars, BaseInv, TypeOK
<1>6. ReadInv'
  <2> QED
    BY <1>0, <1>0a DEF IInv, ReadInv, adderVars
<1>7. QED
  BY <1>1, <1>2, <1>3, <1>4, <1>5, <1>6 DEF IInv

\* The same for the carry of the sum.
LEMMA LoadSumHiIInv ==
    ASSUME IInv, NEW d \in Drainers, LoadSumHi(d)
    PROVE  IInv'
<1> USE DEF LoadSumHi
<1>1. SeqInv' /\ SumInv' /\ ExtraInv'
  BY DrainerFrame
<1>0. /\ rdSum'[d] = [rdSum[d] EXCEPT !.hi = sum.hi]
      /\ \A e \in Drainers \ {d} : rdSum'[e] = rdSum[e]
      /\ \A e \in Drainers : dpc'[e] = IF e = d THEN "recheck" ELSE dpc[e]
  BY DEF IInv, TypeOK
<1>0a. /\ rdSum'[d] \in Snapshot /\ Within(rdSum'[d], HiBound)
       /\ rdSum'[d].hi = sum.hi /\ rdSum'[d].lo = rdSum[d].lo
  <2>1. rdSum[d] \in Snapshot /\ sum \in Snapshot
    BY DEF IInv, TypeOK
  <2>2. Within(rdSum[d], HiBound) /\ Within(sum, HiBound)
    BY <2>1, ConstFacts DEF IInv, TypeOK, SeqInv, CarryInv, Within, Snapshot, Carry
  <2>3. QED
    BY <1>0, <2>1, <2>2 DEF Snapshot, Within
<1>2. CarryInv'
  BY <1>0, <1>0a DEF IInv, CarryInv, Within, adderVars
<1>3. TypeOK'
  <2>1. rdSum' \in [Drainers -> Snapshot]
    BY <1>0, <1>0a DEF IInv, TypeOK
  <2>2. QED
    BY <2>1 DEF IInv, adderVars, TypeOK, DrainPcs, ClaimPcs, LoadPcs
<1>4. ClaimInv'
  <2>1. ClaimExclusive'
    BY <1>0 DEF IInv, ClaimInv, ClaimExclusive, Claimed, ClaimPcs, LoadPcs
  <2>3. QED
    BY <2>1, <1>0 DEF IInv, ClaimInv, Claimed, ClaimPcs, LoadPcs, adderVars
<1>5. BaseInv'
  BY DEF IInv, adderVars, BaseInv, TypeOK
<1>6. ReadInv'
  <2>1. rdExtra'[d] \in Snapshot /\ rdSum'[d] \in Snapshot /\ extra \in Snapshot /\ sum \in Snapshot
    BY <1>3 DEF TypeOK, adderVars
  <2>2. seq = before[d] => rdSum'[d] = sum
    <3>1. seq = before[d] => rdSum'[d].lo = sum.lo
      BY <1>0a DEF IInv, ReadInv
    <3>2. QED
      BY <1>0a, <2>1, <3>1, SnapshotEq
  <2>3. QED
    BY <1>0, <2>2 DEF IInv, ReadInv, adderVars
<1>7. QED
  BY <1>1, <1>2, <1>3, <1>4, <1>5, <1>6 DEF IInv

\* The sequence has not moved: all loaded words belong to it.
LEMMA ConfirmIInv ==
    ASSUME IInv, NEW d \in Drainers, Confirm(d)
    PROVE  IInv'
<1> USE DEF Confirm
<1>1. SeqInv' /\ SumInv' /\ ExtraInv'
  BY DrainerFrame
<1>2. CarryInv'
  BY DrainerFrame
<1>3. TypeOK'
  BY DEF IInv, adderVars, TypeOK, AdderPcs, DrainPcs, ClaimPcs, LoadPcs
<1>4. ClaimInv'
  BY DEF IInv, adderVars, ClaimInv, ClaimExclusive, Claimed, LoadPcs, ClaimPcs, TypeOK
<1>5. BaseInv'
  <2>1. \A e \in Drainers : dpc'[e] = IF e = d THEN "store" ELSE dpc[e]
    BY DEF IInv, TypeOK
  <2>2. \A e \in Drainers \ {d} : dpc[e] \notin {"store", "release"}
    BY OneClaim DEF Claimed, ClaimPcs, LoadPcs
  <2>3. rdSum[d] = sum /\ rdExtra[d] = extra
    BY DEF IInv, ReadInv
  <2>4. seq \in Nat /\ ~InFlight(seq) /\ apc \in {"idle", "begin"}
    BY DEF IInv, TypeOK, SeqInv, ClaimInv, LoadPcs
  <2>5. Val(sum) = added.sum /\ Val(extra) = added.count - (seq \div 2)
    BY <2>4, Parity DEF IInv, SumInv, ExtraInv, Published
  <2>6. QED
    BY <2>1, <2>2, <2>3, <2>5 DEF BaseInv
<1>6. ReadInv'
  BY DEF IInv, adderVars, ReadInv, TypeOK
<1>7. QED
  BY <1>1, <1>2, <1>3, <1>4, <1>5, <1>6 DEF IInv

\* The sequence has moved: the words are read again.
LEMMA RetryIInv ==
    ASSUME IInv, NEW d \in Drainers, Retry(d)
    PROVE  IInv'
<1> USE DEF Retry
<1>1. SeqInv' /\ SumInv' /\ ExtraInv'
  BY DrainerFrame
<1>2. CarryInv'
  BY DrainerFrame
<1>3. TypeOK'
  BY DEF IInv, adderVars, TypeOK, AdderPcs, DrainPcs, ClaimPcs, LoadPcs
<1>4. ClaimInv'
  BY DEF IInv, adderVars, ClaimInv, ClaimExclusive, Claimed, LoadPcs, ClaimPcs, TypeOK
<1>5. BaseInv'
  BY DEF IInv, adderVars, BaseInv, TypeOK
<1>6. ReadInv'
  BY DEF IInv, adderVars, ReadInv, TypeOK
<1>7. QED
  BY <1>1, <1>2, <1>3, <1>4, <1>5, <1>6 DEF IInv

\* The baselines move to the totals that were read.
LEMMA StoreBasesIInv ==
    ASSUME IInv, NEW d \in Drainers, StoreBases(d)
    PROVE  IInv'
<1> USE DEF StoreBases
<1>0. \A e \in Drainers : dpc'[e] = IF e = d THEN "release" ELSE dpc[e]
  BY DEF IInv, TypeOK
<1>0a. \A e \in Drainers \ {d} : dpc[e] \notin {"store", "release"}
  BY OneClaim DEF Claimed, ClaimPcs
<1>0b. /\ ~block[d] => rdExtra[d] = ZeroSnapshot /\ baseExtra = ZeroSnapshot
       /\ block[d] => surplus
       /\ baseExtra' = rdExtra[d] /\ baseSum' = rdSum[d]
  BY DEF IInv, ClaimInv, ExtraInv
<1>1. SeqInv' /\ SumInv' /\ ExtraInv'
  <2>1. SeqInv' /\ SumInv'
    BY DrainerFrame
  <2>2. QED
    BY <2>1, <1>0b DEF IInv, ExtraInv, Published, adderVars
<1>2. CarryInv'
  BY <1>0b DEF IInv, CarryInv, Within, adderVars
<1>3. TypeOK'
  <2>1. DrainResult(d) \in [count : T, sum : T]
    <3>1. /\ TypeOK /\ Within(rdSum[d], HiBound) /\ Within(rdExtra[d], HiBound)
          /\ Within(rdBase[d], HiBound) /\ Within(baseExtra, HiBound)
      BY DEF IInv, CarryInv, ClaimInv, ClaimPcs
    <3>2. /\ ~InFlight(last[d]) /\ ~InFlight(before[d])
          /\ last[d] <= before[d] /\ before[d] <= HiBound
      BY ConstFacts DEF IInv, TypeOK, ClaimInv, SeqInv, Claimed, ClaimPcs
    <3>3. QED
      BY <1>0b, <3>1, <3>2, DrainResultExact
  <2>2. rdExtra[d] \in Snapshot /\ rdSum[d] \in Snapshot
    BY DEF IInv, TypeOK
  <2>3. QED
    BY <1>0b, <2>1, <2>2 DEF IInv, TypeOK, DrainPcs, ClaimPcs, adderVars
<1>4. ClaimInv'
  BY DEF IInv, adderVars, ClaimInv, ClaimExclusive, Claimed, LoadPcs, ClaimPcs, TypeOK
<1>5. BaseInv'
  BY <1>0, <1>0a, <1>0b DEF IInv, BaseInv
<1>6. ReadInv'
  BY DEF IInv, adderVars, ReadInv, TypeOK
<1>7. QED
  BY <1>1, <1>2, <1>3, <1>4, <1>5, <1>6 DEF IInv

\* The claim is given back and the result returned.
LEMMA ReleaseIInv ==
    ASSUME IInv, NEW d \in Drainers, Release(d)
    PROVE  IInv'
<1> USE DEF Release
<1>1. SeqInv' /\ SumInv' /\ ExtraInv'
  BY DrainerFrame
<1>2. CarryInv'
  BY DrainerFrame
<1>3. TypeOK'
  BY DEF IInv, adderVars, TypeOK, AdderPcs, DrainPcs, ClaimPcs, LoadPcs
<1>0. \A e \in Drainers : dpc'[e] = IF e = d THEN "idle" ELSE dpc[e]
  BY DEF IInv, TypeOK
<1>0a. \A e \in Drainers : dpc'[e] \notin ClaimPcs
  BY <1>0, OneClaim DEF Claimed, ClaimPcs, LoadPcs
<1>0b. ~InFlight(before[d]) /\ before[d] <= seq /\ Even(before[d]) = before[d]
  BY Parity DEF IInv, TypeOK, ClaimInv
<1>4. ClaimInv'
  <2>1. ClaimExclusive'
    BY <1>0a, <1>0b DEF ClaimExclusive, Claimed
  <2>2. QED
    BY <2>1, <1>0a, <1>0b DEF ClaimInv, Claimed, ClaimPcs, LoadPcs, adderVars
<1>5. BaseInv'
  <2>1. /\ Val(baseSum) = taken.sum
        /\ Val(baseExtra) = taken.count - (before[d] \div 2)
    BY DEF IInv, BaseInv
  <2>2. QED
    BY <1>0a, <1>0b, <2>1 DEF BaseInv, ClaimPcs
<1>6. ReadInv'
  BY DEF IInv, adderVars, ReadInv, TypeOK
<1>7. QED
  BY <1>1, <1>2, <1>3, <1>4, <1>5, <1>6 DEF IInv

-----------------------------------------------------------------------------
\* Nothing was added, claimed or drained at the start.
LEMMA InitIInv == Init => IInv
<1> SUFFICES ASSUME Init PROVE IInv
  OBVIOUS
<1> USE ConstFacts DEF Init
<1>1. /\ ZeroSnapshot \in Snapshot /\ Val(ZeroSnapshot) = 0
      /\ NoPair \in [count : T, sum : T] /\ NoPair \in Pair
      /\ NoCall \in [value : T, count : T, block : BOOLEAN]
  BY DEF ZeroSnapshot, Snapshot, Raw, Carry, Val, NoPair, Pair, NoCall, T
<1>2. TypeOK
  BY <1>1 DEF TypeOK, AdderPcs, DrainPcs
<1>3. /\ ~InFlight(0) /\ Even(0) = 0 /\ Even(0) \div 2 = 0
  BY DEF InFlight, Even
<1>4. NoPair.count = 0 /\ NoPair.sum = 0 /\ ZeroSnapshot.hi = 0
  BY DEF NoPair, ZeroSnapshot
<1>5. SeqInv /\ SumInv /\ ExtraInv
  BY <1>1, <1>3, <1>4 DEF SeqInv, SumInv, ExtraInv, Published
<1>6. CarryInv
  BY <1>4 DEF CarryInv, Within
<1>7. ClaimInv /\ BaseInv /\ ReadInv
  BY <1>1, <1>3, <1>4 DEF ClaimInv, ClaimExclusive, Claimed, ClaimPcs, LoadPcs,
                          BaseInv, ReadInv
<1>8. QED
  BY <1>2, <1>5, <1>6, <1>7 DEF IInv

\* Every step of the adder and of a drainer keeps the invariant.
LEMMA NextIInv == IInv /\ [Next]_vars => IInv'
<1> SUFFICES ASSUME IInv, [Next]_vars PROVE IInv'
  OBVIOUS
<1>1. ASSUME NEW value \in Values, NEW count \in Counts, AddValue(value, count)
      PROVE  IInv'
  BY <1>1, AddValueIInv
<1>2. CASE UpdateStep
  BY <1>2, BeginUpdateIInv, AddExtraLoIInv, AddExtraHiIInv, AddSumLoIInv,
     AddSumHiIInv, PublishIInv DEF UpdateStep
<1>3. ASSUME NEW d \in Drainers, Reset(d) \/ ResetStep(d)
      PROVE  IInv'
  BY <1>3, ResetIInv, QuickReturnIInv, EnterDrainIInv, ClaimIInv, LoadBaseSumIInv,
     ReadBeforeIInv, LoadBlockIInv, LoadExtraLoIInv, LoadExtraHiIInv, LoadSumLoIInv,
     LoadSumHiIInv, ConfirmIInv, RetryIInv, StoreBasesIInv, ReleaseIInv
  DEF ResetStep
<1>4. CASE UNCHANGED vars
  <2>1. UNCHANGED <<adderVars, drainerVars>>
    BY <1>4 DEF vars
  <2>2. SeqInv' /\ SumInv' /\ ExtraInv' /\ CarryInv'
    BY <2>1, DrainerFrame DEF drainerVars
  <2>3. ClaimInv' /\ BaseInv' /\ ReadInv'
    BY <2>1, AdderFrame DEF adderVars, IInv, TypeOK
  <2>4. TypeOK'
    BY <2>1 DEF adderVars, drainerVars, IInv, TypeOK
  <2>5. QED
    BY <2>2, <2>3, <2>4 DEF IInv
<1>5. QED
  BY <1>1, <1>2, <1>3, <1>4 DEF Next

\* The inductive invariant of the sequence, the words and the claim holds in
\* every state, whatever the interleaving of addValue() and reset().
THEOREM SpecIInv == Spec => []IInv
<1>1. QED
  BY InitIInv, NextIInv, PTL DEF Spec

\* Words, sequences and results always have their types: no carry leaves its
\* range, and every reset() returns values of T.
THEOREM TypeCorrect == Spec => []TypeOK
<1>1. IInv => TypeOK
  BY DEF IInv
<1>2. QED
  BY <1>1, SpecIInv, PTL

\* Two drain() calls never hold the claim at the same time.
THEOREM DrainsExclude == Spec => []ClaimExclusive
<1>1. IInv => ClaimExclusive
  BY DEF IInv, ClaimInv
<1>2. QED
  BY <1>1, SpecIInv, PTL

\* The position up to which updates were drained only moves forward.
THEOREM DrainsForward == Spec => DrainedForward
<1>1. IInv /\ [Next]_vars => [Even(lastSeq') >= Even(lastSeq)]_vars
  <2> SUFFICES ASSUME IInv, Next PROVE Even(lastSeq') >= Even(lastSeq)
    OBVIOUS
  <2>0. lastSeq \in Nat /\ Even(lastSeq) \in Nat
    BY Parity DEF IInv, TypeOK
  <2>1. CASE UNCHANGED lastSeq
    BY <2>0, <2>1
  <2>2. ASSUME NEW d \in Drainers, Claim(d)
        PROVE  Even(lastSeq') >= Even(lastSeq)
    BY <2>0, <2>2, Parity DEF Claim
  <2>3. ASSUME NEW d \in Drainers, Release(d)
        PROVE  Even(lastSeq') >= Even(lastSeq)
    <3>1. /\ before[d] \in Nat /\ last[d] \in Nat
          /\ ~InFlight(before[d]) /\ last[d] <= before[d]
          /\ lastSeq = last[d] + 1 /\ ~InFlight(last[d]) /\ lastSeq' = before[d]
      BY <2>3 DEF Release, IInv, TypeOK, ClaimInv, Claimed, ClaimPcs
    <3>2. QED
      BY <3>1, Parity
  <2>4. QED
    BY <2>1, <2>2, <2>3
    DEF Next, AddValue, UpdateStep, BeginUpdate, AddExtraLo, AddExtraHi, AddSumLo,
        AddSumHi, Publish, Reset, ResetStep, QuickReturn, EnterDrain, LoadBaseSum,
        ReadBefore, LoadBlock, LoadExtraLo, LoadExtraHi, LoadSumLo, LoadSumHi,
        Confirm, Retry, StoreBases, drainerVars
<1>2. QED
  BY <1>1, SpecIInv, PTL DEF Spec, DrainedForward

-----------------------------------------------------------------------------
(***************************************************************************)
(* Refinement: each step is a step of the atomic accumulator or changes    *)
(* nothing that can be seen there.                                         *)
(***************************************************************************)
\* A step of d that neither confirms nor stores leaves every report alone.
LEMMA ReportFrame ==
    ASSUME IInv, UNCHANGED <<added, taken, result, baseExtra>>,
           NEW d \in Drainers, dpc[d] # "store", dpc'[d] # "store",
           \A e \in Drainers \ {d} :
              /\ dpc'[e] = dpc[e] /\ block'[e] = block[e] /\ before'[e] = before[e]
              /\ last'[e] = last[e] /\ rdBase'[e] = rdBase[e]
              /\ rdExtra'[e] = rdExtra[e] /\ rdSum'[e] = rdSum[e]
    PROVE  UNCHANGED Acc!accVars
<1>1. \A e \in Drainers : ReportView'[e] = ReportView[e]
  <2> SUFFICES ASSUME NEW e \in Drainers
               PROVE  ReportView'[e] = ReportView[e]
    OBVIOUS
  <2>1. CASE e = d
    BY <2>1 DEF ReportView
  <2>2. CASE e # d
    <3>1. DrainResult(e)' = DrainResult(e)
      BY <2>2 DEF DrainResult
    <3>2. QED
      BY <2>2, <3>1 DEF ReportView
  <2>3. QED
    BY <2>1, <2>2
<1>2. ReportView' = ReportView
  BY <1>1 DEF ReportView
<1>3. PendingView' = PendingView
  BY DEF PendingView
<1>4. QED
  BY <1>2, <1>3 DEF Acc!accVars

\* A step of the adder leaves every report of a drainer alone.
LEMMA AdderReports ==
    ASSUME UNCHANGED drainerVars
    PROVE  ReportView' = ReportView
BY DEF drainerVars, ReportView, DrainResult

\* Publication is the accumulator's Add.
LEMMA PublishRefines ==
    ASSUME IInv, Publish
    PROVE  Acc!Next
<1>1. ReportView' = ReportView
  BY AdderReports DEF Publish
<1>2. /\ call.value \in Values /\ CountOf(call) \in Counts \cup {1}
      /\ added.count \in Int /\ added.sum \in Int
      /\ taken.count \in Int /\ taken.sum \in Int
      /\ call.value \in Int /\ CountOf(call) \in Int
  BY DEF Publish, IInv, TypeOK, SeqInv, CountOf, Pair, T
<1>3. PendingView' = [count |-> PendingView.count + CountOf(call),
                      sum   |-> PendingView.sum + call.value]
  BY <1>2 DEF PendingView, Publish, drainerVars
<1>4. Acc!Add(call.value, CountOf(call))
  BY <1>1, <1>3 DEF Acc!Add
<1>5. QED
  BY <1>2, <1>4 DEF Acc!Next

\* The confirmed read is the accumulator's Reset of all that is pending.
LEMMA ConfirmRefines ==
    ASSUME IInv, NEW d \in Drainers, Confirm(d)
    PROVE  Acc!Reset(d)
<1>1. /\ rdSum[d] = sum /\ rdExtra[d] = extra
      /\ seq \in Nat /\ ~InFlight(seq) /\ apc \in {"idle", "begin"}
  BY DEF Confirm, IInv, TypeOK, ReadInv, SeqInv, ClaimInv, LoadPcs
<1>2. Val(sum) = added.sum /\ Val(extra) = added.count - (seq \div 2)
  BY <1>1, Parity DEF IInv, SumInv, ExtraInv, Published
<1>3. /\ before[d] = seq /\ lastSeq = last[d] + 1 /\ ~InFlight(last[d])
      /\ last[d] <= before[d] /\ last[d] \in Nat /\ before[d] <= HiBound
      /\ rdBase[d] = baseSum /\ (~block[d] => baseExtra = ZeroSnapshot)
  BY ConstFacts DEF Confirm, IInv, TypeOK, SeqInv, ClaimInv, Claimed, ClaimPcs, LoadPcs
<1>4. Val(baseSum) = taken.sum /\ Val(baseExtra) = taken.count - (last[d] \div 2)
  <2>1. \A e \in Drainers : dpc[e] \notin {"store", "release"}
    BY OneClaim DEF Confirm, Claimed, ClaimPcs, LoadPcs
  <2>2. Even(lastSeq) = last[d]
    BY <1>3, Parity
  <2>3. QED
    BY <2>1, <2>2 DEF IInv, BaseInv
<1>5. DrainResult(d) =
         [count |-> Saturate(Val(rdExtra[d]) - Val(baseExtra)
                             + ((before[d] \div 2) - (last[d] \div 2))),
          sum   |-> Saturate(Val(rdSum[d]) - Val(rdBase[d]))]
  <2>1. /\ TypeOK /\ Within(rdSum[d], HiBound) /\ Within(rdExtra[d], HiBound)
        /\ Within(rdBase[d], HiBound) /\ Within(baseExtra, HiBound)
    BY <1>3 DEF IInv, CarryInv
  <2>2. QED
    BY <1>1, <1>3, <2>1, DrainResultExact
<1>6. /\ added.count \in Int /\ added.sum \in Int
      /\ taken.count \in Int /\ taken.sum \in Int
      /\ seq \div 2 \in Int /\ last[d] \div 2 \in Int
  BY <1>1, <1>3, Parity DEF IInv, TypeOK, Pair
<1>7. DrainResult(d) = [count |-> Saturate(added.count - taken.count),
                        sum   |-> Saturate(added.sum - taken.sum)]
  <2>1. Val(rdExtra[d]) - Val(baseExtra) + ((before[d] \div 2) - (last[d] \div 2))
           = added.count - taken.count
    BY <1>1, <1>2, <1>3, <1>4, <1>6
  <2>2. Val(rdSum[d]) - Val(rdBase[d]) = added.sum - taken.sum
    BY <1>1, <1>2, <1>3, <1>4
  <2>3. QED
    BY <1>5, <2>1, <2>2
<1>8. ReportView' = [ReportView EXCEPT ![d] = DrainResult(d)]
  <2>1. \A e \in Drainers : dpc'[e] = IF e = d THEN "store" ELSE dpc[e]
    BY DEF Confirm, IInv, TypeOK
  <2>2. \A e \in Drainers : DrainResult(e)' = DrainResult(e)
    BY DEF Confirm, DrainResult
  <2>3. ReportView' = [e \in Drainers |->
                          IF dpc'[e] = "store" THEN DrainResult(e) ELSE result[e]]
    BY <2>2 DEF ReportView, Confirm
  <2>4. QED
    BY <2>1, <2>3 DEF ReportView
<1>9. /\ PendingView' = [count |-> 0, sum |-> 0]
      /\ PendingView.count = added.count - taken.count
      /\ PendingView.sum = added.sum - taken.sum
  BY <1>6 DEF PendingView, Confirm, adderVars
<1>10. QED
  BY <1>7, <1>8, <1>9 DEF Acc!Reset, Acc!Nothing, Acc!Limit, Saturate

\* The quick return is a Reset that finds nothing.
LEMMA QuickReturnRefines ==
    ASSUME IInv, NEW d \in Drainers, QuickReturn(d)
    PROVE  Acc!EmptyReset(d)
<1>1. PendingView' = PendingView
  BY DEF QuickReturn, PendingView, adderVars
<1>2. \A e \in Drainers : /\ dpc'[e] = IF e = d THEN "idle" ELSE dpc[e]
                          /\ result'[e] = IF e = d THEN NoPair ELSE result[e]
                          /\ DrainResult(e)' = DrainResult(e)
  BY DEF QuickReturn, IInv, TypeOK, DrainResult
<1>3. ReportView' = [ReportView EXCEPT ![d] = NoPair]
  <2>1. ReportView' = [e \in Drainers |->
                          IF dpc'[e] = "store" THEN DrainResult(e) ELSE result'[e]]
    BY <1>2 DEF ReportView
  <2>2. QED
    BY <1>2, <2>1 DEF ReportView
<1>4. QED
  BY <1>1, <1>3 DEF Acc!EmptyReset, Acc!Nothing, NoPair

\* Storing the baselines changes nothing the accumulator shows.
LEMMA StoreBasesRefines ==
    ASSUME IInv, NEW d \in Drainers, StoreBases(d)
    PROVE  UNCHANGED Acc!accVars
<1>1. PendingView' = PendingView
  BY DEF StoreBases, PendingView, adderVars
<1>2. \A e \in Drainers : /\ dpc'[e] = IF e = d THEN "release" ELSE dpc[e]
                          /\ result'[e] = IF e = d THEN DrainResult(d) ELSE result[e]
  BY DEF StoreBases, IInv, TypeOK
<1>3. \A e \in Drainers \ {d} : dpc[e] # "store"
  BY OneClaim DEF StoreBases, Claimed, ClaimPcs
<1>4. ReportView' = ReportView
  BY <1>2, <1>3 DEF ReportView, StoreBases
<1>5. QED
  BY <1>1, <1>4 DEF Acc!accVars

\* The lock-free timeseries implements the atomic accumulator: no update is lost
\* or reported twice, and count and sum of a report describe the same updates.
THEOREM Implements == Spec => ImplementsAccumulator
<1>1. Init => Acc!Init
  BY DEF Init, Acc!Init, Acc!Nothing, PendingView, ReportView, NoPair
<1>2. IInv /\ [Next]_vars => [Acc!Next]_(Acc!accVars)
  <2> SUFFICES ASSUME IInv, [Next]_vars PROVE [Acc!Next]_(Acc!accVars)
    OBVIOUS
  <2>1. CASE UNCHANGED drainerVars /\ UNCHANGED added
    BY <2>1, AdderReports DEF drainerVars, Acc!accVars, PendingView
  <2>2. CASE Publish
    BY <2>2, PublishRefines
  <2>3. ASSUME NEW d \in Drainers, Reset(d) \/ ResetStep(d)
        PROVE  [Acc!Next]_(Acc!accVars)
    <3>1. CASE Confirm(d)
      BY <3>1, ConfirmRefines DEF Acc!Next
    <3>2. CASE QuickReturn(d)
      BY <3>2, QuickReturnRefines DEF Acc!Next
    <3>3. CASE StoreBases(d)
      BY <3>3, StoreBasesRefines
    <3>4. CASE Reset(d) \/ EnterDrain(d) \/ Claim(d) \/ LoadBaseSum(d) \/ ReadBefore(d)
               \/ LoadBlock(d)
      <4>1. UNCHANGED Acc!accVars
        BY <3>4, ReportFrame
        DEF Reset, EnterDrain, Claim, LoadBaseSum, ReadBefore, LoadBlock,
            adderVars, IInv, TypeOK
      <4>2. QED
        BY <4>1
    <3>5. CASE LoadExtraLo(d) \/ LoadExtraHi(d) \/ LoadSumLo(d) \/ LoadSumHi(d)
               \/ Retry(d) \/ Release(d)
      <4>1. UNCHANGED Acc!accVars
        BY <3>5, ReportFrame
        DEF LoadExtraLo, LoadExtraHi, LoadSumLo, LoadSumHi, Retry, Release,
            adderVars, IInv, TypeOK
      <4>2. QED
        BY <4>1
    <3>6. QED
      BY <2>3, <3>1, <3>2, <3>3, <3>4, <3>5 DEF ResetStep
  <2>4. CASE UNCHANGED vars
    BY <2>1, <2>4 DEF vars, adderVars
  <2>5. QED
    BY <2>1, <2>2, <2>3, <2>4
    DEF Next, AddValue, UpdateStep, BeginUpdate, AddExtraLo, AddExtraHi, AddSumLo,
        AddSumHi
<1>3. QED
  BY <1>1, <1>2, SpecIInv, PTL DEF Spec, ImplementsAccumulator, Acc!Spec

\* count() and sum() report the exact pending window when nobody interferes.
THEOREM ViewsExact == Spec => []ViewExact
<1>1. IInv => ViewExact
  <2> SUFFICES ASSUME IInv, apc \in {"idle", "begin"},
                      \A d \in Drainers : ~Claimed(d)
               PROVE  /\ CountNow = Saturate(added.count - taken.count)
                      /\ SumNow = Saturate(added.sum - taken.sum)
    BY DEF ViewExact
  <2> DEFINE calls == (seq - Even(lastSeq)) \div 2
             dSum  == Difference(sum, baseSum)
             dEx   == Difference(extra, baseExtra)
  <2>1. /\ sum \in Snapshot /\ baseSum \in Snapshot
        /\ extra \in Snapshot /\ baseExtra \in Snapshot
        /\ seq \in Nat /\ lastSeq \in Nat /\ seq <= HiBound
        /\ ~InFlight(seq) /\ ~InFlight(lastSeq)
        /\ Even(lastSeq) <= seq /\ Even(lastSeq) = lastSeq
    BY Parity DEF IInv, TypeOK, SeqInv, ClaimInv, ClaimExclusive
  <2>2. /\ Within(sum, HiBound) /\ Within(extra, HiBound)
        /\ Within(baseSum, HiBound) /\ Within(baseExtra, HiBound)
    BY <2>1, ConstFacts DEF IInv, CarryInv, Within, Snapshot, Carry
  <2>3. /\ calls = (seq \div 2) - (lastSeq \div 2)
        /\ calls \in Nat /\ calls <= MaxUpdates
    BY <2>1, ConstFacts, CallsBetween
  <2>4. /\ sum.hi - baseSum.hi \in Carry /\ sum.hi - baseSum.hi - 1 \in Carry
        /\ extra.hi - baseExtra.hi \in Carry /\ extra.hi - baseExtra.hi - 1 \in Carry
        /\ extra.hi - baseExtra.hi + calls + 1 \in Carry
        /\ extra.hi - baseExtra.hi - 1 + calls + 1 \in Carry
    BY <2>1, <2>2, <2>3, ConstFacts DEF Within, Snapshot, Carry
  <2>5. dSum \in Snapshot /\ Val(dSum) = Val(sum) - Val(baseSum)
    BY <2>1, <2>4, DifferenceExact
  <2>6. /\ dEx \in Snapshot /\ Val(dEx) = Val(extra) - Val(baseExtra)
        /\ dEx.hi + calls + 1 \in Carry
    BY <2>1, <2>4, DifferenceExact
  <2>7. NarrowRaw \/ calls < RawMod
    BY <2>3, ConstFacts, TimeSeriesAssumption
  <2>8. /\ AddCalls(dEx, calls) \in Snapshot
        /\ Val(AddCalls(dEx, calls)) = Val(dEx) + calls
    <3> HIDE DEF dEx, calls
    <3> QED
      BY <2>3, <2>6, <2>7, AddCallsExact
  <2>9. /\ Val(sum) = added.sum /\ Val(extra) = added.count - (seq \div 2)
        /\ Val(baseSum) = taken.sum /\ Val(baseExtra) = taken.count - (lastSeq \div 2)
    <3>1. Published = seq \div 2
      BY <2>1, Parity DEF Published
    <3>2. \A d \in Drainers : dpc[d] \notin {"store", "release"}
      BY DEF Claimed, ClaimPcs
    <3>3. QED
      BY <2>1, <3>1, <3>2 DEF IInv, SumInv, ExtraInv, BaseInv
  <2>10. /\ added.count \in Int /\ added.sum \in Int
         /\ taken.count \in Int /\ taken.sum \in Int
         /\ seq \div 2 \in Int /\ lastSeq \div 2 \in Int
    BY <2>1, Parity DEF IInv, TypeOK, Pair
  <2>11. CountNow = Clamp(AddCalls(dEx, calls)) /\ SumNow = Clamp(dSum)
    <3>1. ~surplus => extra = ZeroSnapshot /\ baseExtra = ZeroSnapshot
      BY DEF IInv, ExtraInv
    <3>2. QED
      BY <3>1 DEF CountNow, SumNow
  <2>12. \A s \in Snapshot : Clamp(s) = Saturate(Val(s))
    <3>1. Snapshot \subseteq [lo : Raw, hi : Int]
      BY ConstFacts DEF Snapshot, Carry
    <3>2. QED
      BY <3>1, ClampIsSaturate
  <2> HIDE DEF dEx, dSum, calls
  <2>13. Val(dSum) = added.sum - taken.sum
    BY <2>5, <2>9
  <2>14. Val(AddCalls(dEx, calls)) = added.count - taken.count
    BY <2>3, <2>6, <2>8, <2>9, <2>10
  <2>15. QED
    BY <2>5, <2>8, <2>11, <2>12, <2>13, <2>14
<1>2. QED
  BY <1>1, SpecIInv, PTL
====
