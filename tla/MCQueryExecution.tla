-------------------------- MODULE MCQueryExecution --------------------------
(***************************************************************************)
(* Small queries for QueryExecution.                                       *)
(***************************************************************************)
EXTENDS QueryExecution

(* More targets than places in the semaphore, a target with operations of  *)
(* both shapes.                                                            *)
ThreeTargets == <<<<"get", "walk">>, <<"getnext">>, <<"getbulk">>>>
TwoTargets   == <<<<"walk", "get">>, <<"getnext">>>>
=============================================================================
