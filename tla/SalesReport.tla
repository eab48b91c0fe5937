------------------------------ MODULE SalesReport ------------------------------
(* What the file-processor demo computes (FileProcessorAgent.aggregateData,   *)
(* src/examples/file-processor-demo/src/file-processor-agent.ts): sales       *)
(* records are grouped by region, and the regions sorted by their totals.     *)
(* Of a region only the total and the count are kept here, not its products   *)
(* and dates.                                                                 *)
(******************************************************************************)
EXTENDS Integers, Sequences, SequencesExt

\* record.region || "Unknown"
Region(r) == IF r.region = "" THEN "Unknown" ELSE r.region

\* byRegion.get(region): a list of records is the set of their positions.
Of(records, g) == {i \in DOMAIN records : Region(records[i]) = g}

\* regionRecords.reduce: the sum of a field over the records at the given positions.
Total(records, field, positions) == MapThenSumSet(LAMBDA i : records[i][field], positions)

Summary(records, g) == [region      |-> g,
                        totalAmount |-> Total(records, "amount", Of(records, g)),
                        recordCount |-> Cardinality(Of(records, g))]

Summaries(records) == {Summary(records, Region(r)) : r \in ToSet(records)}

\* The sort is stable: regions with equal totals stay in the order in which they were first met.
Before(records, a, b) ==
  \/ a.totalAmount > b.totalAmount
  \/ a.totalAmount = b.totalAmount /\ Min(Of(records, a.region)) < Min(Of(records, b.region))

Aggregate(records) ==
  CHOOSE s \in SetToSeqs(Summaries(records)) : \A i, j \in DOMAIN s : i < j => Before(records, s[i], s[j])

--------------------------------------------------------------------------------
\* What a report of given records must say, whatever the order they were read in: the regions that occur, each
\* once, the larger total first, and every record and every amount counted exactly once.
ReportOf(aggregations, records) ==
  /\ {aggregations[i].region : i \in DOMAIN aggregations} = {Region(r) : r \in ToSet(records)}
  /\ \A i, j \in DOMAIN aggregations : i < j =>
       /\ aggregations[i].region # aggregations[j].region
       /\ aggregations[i].totalAmount >= aggregations[j].totalAmount
  /\ Total(aggregations, "recordCount", DOMAIN aggregations) = Len(records)
  /\ Total(aggregations, "totalAmount", DOMAIN aggregations) = Total(records, "amount", DOMAIN records)
================================================================================
