---------------------------- MODULE MCAdmission ----------------------------
(* Four requests against a ceiling of two, for TLC.                       *)
EXTENDS Admission, TLC

CONSTANTS s1, s2, s3, s4

SessionSymmetry == Permutations({s1, s2, s3, s4})
=============================================================================
