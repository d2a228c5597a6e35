-------------------------- MODULE MCCoverageReport --------------------------
EXTENDS CoverageReport

(* The proofs suppose that the readers tell the truth; here they do.       *)
ASSUME ReadersTellTheTruth == ReadersAreTrue
=============================================================================
