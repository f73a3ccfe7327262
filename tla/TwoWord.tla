------------------------------- MODULE TwoWord -------------------------------
(***************************************************************************)
(* The two-word integers of TLStatsThreadSafe::TimeSeriesType              *)
(* (fb303/TLStatsLockTraits.h): an unsigned low word of type Raw and a     *)
(* signed count of its net wraps, of type Carry.  The code adds to a total *)
(* one word at a time, subtracts a baseline from it, adds the number of    *)
(* calls and clamps the outcome to the counter type T.                     *)
(*                                                                         *)
(* The word widths are parameters: in the code HalfRaw is 2^(w-1) for a    *)
(* w-bit T, and HalfCarry is 2^63.                                         *)
(***************************************************************************)
EXTENDS Integers

CONSTANTS HalfRaw,     \* -HalfRaw is the least value of T
          HalfCarry,   \* -HalfCarry is the least value of Carry
          NarrowRaw    \* sizeof(Raw) < sizeof(uint64_t)

ASSUME WordAssumption ==
    /\ HalfRaw \in Nat \ {0, 1}
    /\ HalfCarry \in Nat \ {0}
    /\ NarrowRaw \in BOOLEAN

RawMod == 2 * HalfRaw

T     == (- HalfRaw) .. (HalfRaw - 1)
Raw   == 0 .. (RawMod - 1)
Carry == (- HalfCarry) .. (HalfCarry - 1)

\* Snapshot: one two-word value.
Snapshot == [lo : Raw, hi : Carry]
ZeroSnapshot == [lo |-> 0, hi |-> 0]

\* static_cast<Raw> and static_cast<Carry>: reduction to the width of the type.
ToRaw(x)   == x % RawMod
ToCarry(x) == ((x + HalfCarry) % (2 * HalfCarry)) - HalfCarry

\* The integer a snapshot stands for.
Val(s) == s.hi * RawMod + s.lo

-----------------------------------------------------------------------------
(***************************************************************************)
(* addRaw(): the low word is stored first; the carry follows only if the   *)
(* low word wrapped, which is told from the sign of the addend.            *)
(***************************************************************************)
AddLo(lo, addend) == ToRaw(lo + addend)

Wrapped(before, after, negative) ==
    IF negative THEN after > before ELSE after < before

StepHi(hi, negative) == ToCarry(IF negative THEN hi - 1 ELSE hi + 1)

\* difference(now, base): subtraction with a borrow, modular in both words.
Difference(now, base) ==
    [lo |-> ToRaw(now.lo - base.lo),
     hi |-> ToCarry(now.hi - base.hi
                    - (IF now.lo < base.lo THEN 1 ELSE 0))]

\* addCalls(delta, calls): the two branches of its `if constexpr`.
AddCalls(delta, calls) ==
    LET lo    == ToRaw(delta.lo + calls)
        carry == IF NarrowRaw THEN (delta.lo + calls) \div RawMod
                 ELSE IF lo < delta.lo THEN 1 ELSE 0
    IN  [lo |-> lo, hi |-> ToCarry(delta.hi + carry)]

\* clamp(delta): (hi, lo) read as two's complement, limited to T.
Clamp(delta) ==
    LET high == delta.lo > HalfRaw - 1     \* past kMaxAsRaw
    IN  IF delta.hi > 0 \/ (delta.hi = 0 /\ high) THEN HalfRaw - 1
        ELSE IF delta.hi = 0 THEN delta.lo
        ELSE IF delta.hi = -1 /\ high THEN delta.lo - RawMod
        ELSE - HalfRaw

-----------------------------------------------------------------------------
\* What clamp() has to compute: the integer n limited to the range of T.
Saturate(n) ==
    IF n > HalfRaw - 1 THEN HalfRaw - 1
    ELSE IF n < - HalfRaw THEN - HalfRaw ELSE n
=============================================================================
