------------------------------- MODULE MCPool -------------------------------
(* Instances of Pool for TLC.                                              *)
EXTENDS Pool, TLC

\* Jobs are interchangeable where all of them can be pickled.
JobSymmetry == Permutations(Jobs)
=============================================================================
