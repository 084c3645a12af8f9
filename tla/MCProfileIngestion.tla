------------------------- MODULE MCProfileIngestion -------------------------
(* Instances of profile ingestion for TLC.                                 *)
EXTENDS ProfileIngestion

CONSTANTS empty, long

\* Nothing that parses, or a full batch and one that is not.
ChunkCounts == [d \in Doc |-> IF d = empty THEN 0 ELSE 3]

=============================================================================
