-------------------------- MODULE MCPatientReview --------------------------
(* Small instances of PatientReview, and of its inductive invariant.       *)
EXTENDS PatientInductive
=============================================================================
