---------------------------- MODULE MCTimeSeries ----------------------------
(***************************************************************************)
(* TLC instances of TimeSeriesType: T has four values, so that the low     *)
(* word wraps within two updates.                                          *)
(***************************************************************************)
EXTENDS TimeSeriesType, TLC

\* The limits of T: a sum overflows and may come back.
ExtremeValues == {- HalfRaw, HalfRaw - 1}

\* A single call, and the limits of T (count - 1 overflows at the minimum).
EdgeCounts == {1, - HalfRaw, HalfRaw - 1}
=============================================================================
