---------------------------- MODULE MCCrewBatches ----------------------------
(***************************************************************************)
(* The batches of one month of salaries for TLC: one vessel, one seafarer, *)
(* one request at a time.                                                  *)
(***************************************************************************)
EXTENDS CrewBatches, TLC

MCFiles == [c \in Cycles |-> 3]
MCVersions == [c \in Cycles |-> 3]
MCRows == [c \in Cycles |-> 3]
=============================================================================
