------------------------------- MODULE MCJobs -------------------------------
(* Small instances of Jobs for TLC: Adam, a user's task and those it starts. *)
EXTENDS Jobs

CONSTANTS adam, user, t1, t2, t3, j1, j2, j3, j4, j5
=============================================================================
