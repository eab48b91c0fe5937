---------------------------- MODULE MCFileProcessor ----------------------------
(* Values for the constants of FileProcessorAgent.                            *)
EXTENDS FileProcessorAgent

CONSTANTS a, b, n

North == [region |-> "North", amount |-> 2]
South == [region |-> "South", amount |-> 3]
Nowhere == [region |-> "", amount |-> 1]
Unknown == [region |-> "Unknown", amount |-> 1]

MCFiles == {a, b, n}
MCJsonFiles == {a, b}

\* North and South may tie or not, a record without a region meets a region of that name.
MCDocument == [f \in MCFiles |-> IF f = a THEN <<North, Nowhere>> ELSE <<South, Unknown>>]

\* What is computed of every list of up to four of these records is their report.
ASSUME \A records \in SeqOf(Records, 4) : ReportOf(Aggregate(records), records)
================================================================================
