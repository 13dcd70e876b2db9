---------------------------- MODULE MCOracleExport ----------------------------
(* Packages LOGGER, "LOGGER!", LOGGER_2 and "Logger", in the order of the    *)
(* listing, and no triggers.  Three of them want logger.pkb.sql, and what the *)
(* second to come gets, logger_2.pkb.sql, is LOGGER_2's own.                  *)
EXTENDS OracleExport

CONSTANTS pkb, logger   \* the parts of the file names

MCTypeOf    == <<1, 1, 1, 1>>
MCUpperCase == <<1, 2, 3, 1>>
MCFileStem  == <<<<pkb, logger>>, <<pkb, logger>>, <<pkb, logger, 2>>, <<pkb, logger>>>>
=============================================================================
