------------------------------ MODULE Scanning ------------------------------
(***************************************************************************)
(* core.py: the detectors of each dialect by their names, and what one of  *)
(* them finds in a source.                                                 *)
(***************************************************************************)
EXTENDS MySqlDetectors, MsSqlDetectors, OracleDetectors, OracleClauses, OracleTypes
LOCAL INSTANCE TLC

Specs == MySqlSpecs @@ MsSqlSpecs @@ OracleSpecs
Built == DOMAIN Specs

DialectOf(name) ==
    CASE name \in DOMAIN MySqlSpecs \cup MySqlScans -> "mysql"
      [] name \in DOMAIN MsSqlSpecs \cup MsSqlScans -> "mssql"
      [] OTHER -> "oracle"

(* what the detector of that name makes of a source *)
Findings(name, source) ==
    CASE DialectOf(name) = "mysql" -> MySqlFindings(name, source)
      [] DialectOf(name) = "mssql" -> MsSqlFindings(name, source)
      [] name \in DOMAIN OracleSpecs -> OracleBuilt(name, source)
      [] name \in OracleClauseScans -> OracleClauseFindings(name, source)
      [] name \in OracleRoutineScans -> OracleRoutineFindings(name, source)
      [] name \in OracleTypeScans -> OracleTypeFindings(name, source)

=============================================================================
