----------------------- MODULE MCExportedHistogramMap -----------------------
(* Model values and bounds for ExportedHistogramMap. *)
EXTENDS ExportedHistogramMap, TLC

CONSTANTS t1, t2, t3, h1, h2

HistogramSymmetry == Permutations(Threads) \cup Permutations(Names)
=============================================================================
