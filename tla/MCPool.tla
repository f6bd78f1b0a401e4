------------------------------- MODULE MCPool -------------------------------
(* A small instance of Pool for TLC.                                       *)
EXTENDS Pool
CONSTANTS s1, s2, s3
=============================================================================
