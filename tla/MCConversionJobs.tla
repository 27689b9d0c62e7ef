--------------------------- MODULE MCConversionJobs ---------------------------
(* Instances of ConversionJobs for TLC. *)
EXTENDS ConversionJobs, TLC

\* Workers are interchangeable; used by runs without a liveness property.
MCSymmetry == Permutations(Workers)

=============================================================================
