--------------------------- MODULE MCWriterFamily ---------------------------
(***************************************************************************)
(* The instances of MCWriterExclusion that meet the conditions under which *)
(* the exclusion theorem of WriterExclusionProofs holds.                   *)
(***************************************************************************)
EXTENDS MCWriterExclusion

ASSUME Meets == OneMechanism

=============================================================================
