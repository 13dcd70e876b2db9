---------------------------- MODULE MCMigrateRun ----------------------------
(* Two source files, one construct in either, two object types.             *)
EXTENDS MigrateRun, TLC

MCName      == [o \in Objects |-> o]
MCBaseNames == [f \in Files |-> f]
MCSameName  == [f \in Files |-> "schema.sql"]
=============================================================================
