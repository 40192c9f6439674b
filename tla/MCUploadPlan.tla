---------------------------- MODULE MCUploadPlan ----------------------------
\* Small limits that keep the order and the ratios that matter of the real
\* ones: MinPart < MaxBuffered < MaxPart, a memory of two full buffers, and
\* MaxParts * MaxBuffered below MaxObject.
EXTENDS UploadPlan

MCTotals == 0..22
MCPartSizes == 1..7
MCWorkerCounts == 0..5
MCRetryCounts == {0, 1, 3}
=============================================================================
