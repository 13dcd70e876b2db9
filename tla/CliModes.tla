------------------------------ MODULE CliModes ------------------------------
(***************************************************************************)
(* The command line (cli.py): which mode a set of options asks for, in the *)
(* order _main looks for them, and what each mode refuses before it starts. *)
(* An option is given or not; of the values only those the checks tell      *)
(* apart are kept: one path or several, a format, an output file's suffix,   *)
(* a dialect other than the default, one file named twice.                   *)
(***************************************************************************)
EXTENDS Integers, Sequences, FiniteSetsExt

CONSTANT MaxOptions     \* bound of the model: options on a command line

ASSUME CliModesAssumption == MaxOptions \in Nat

VARIABLES given,        \* the options of the command line so far
          outcome       \* the mode that runs, or "refused": exit code 2

cliVars == <<given, outcome>>

Paths == {"path", "paths"}
Formats == {"format terminal", "format json", "format csv"}
Outputs == {"output .json", "output .csv", "output .log"}
(* how the tools that are called are called *)
Settings == {"pg_version", "ora2pg_bin", "keep_ora2pg_types"}

(* In the order _main asks for them *)
Modes == <<"set_lang", "tui", "explain", "migrate", "load_check", "verify", "prepare", "fix", "write">>
ModeOptions == {Modes[k] : k \in DOMAIN Modes}

Options ==
    ModeOptions \cup Paths \cup Formats \cup Outputs \cup Settings
        \cup {"save", "baseline", "baseline = save", "fail_on", "check_connect_by", "severity", "object", "dialect"}

(* one value for an option; the two files can be one only if both are named *)
Clash ==
    {{a, b} : a, b \in Paths} \cup {{a, b} : a, b \in Formats} \cup {{a, b} : a, b \in Outputs}
        \cup {{"baseline", "baseline = save"}}
Possible(options) ==
    /\ \A pair \in Clash : Cardinality(pair) = 2 => ~(pair \subseteq options)
    /\ "baseline = save" \in options => "save" \in options

CliInit == given = {} /\ outcome = "none"

Give(option) ==
    /\ outcome = "none" /\ Cardinality(given) < MaxOptions
    /\ option \notin given /\ Possible(given \cup {option})
    /\ given' = given \cup {option}
    /\ UNCHANGED outcome

-----------------------------------------------------------------------------
(* What each mode refuses: the tuples of its any(...) *)

Has(options) == given \cap options # {}
BaselineOptions == {"baseline", "baseline = save"}

\* Mutant of ScanShaping: --fail-on was left out of a tuple.
ScanShapingButTheGate == {"save", "check_connect_by", "severity", "object"}
ScanShaping == {"save", "check_connect_by", "severity", "object", "fail_on"}
Rewriting == {"fix", "prepare", "write"}
Reporting == Formats \cup Outputs

ExplainConflicts ==
    ScanShaping \cup BaselineOptions \cup Rewriting \cup Reporting
        \cup {"verify", "load_check", "migrate", "dialect"} \cup Paths
TuiConflicts == (ExplainConflicts \ {"path"}) \cup {"explain"}
MigrateConflicts == ScanShaping \cup BaselineOptions \cup Rewriting \cup Reporting \cup {"verify"}
LoadCheckConflicts == ScanShaping \cup BaselineOptions \cup Rewriting \cup {"verify"}
VerifyConflicts == ScanShaping \cup Rewriting
FixConflicts == ScanShaping \cup BaselineOptions \cup Reporting

NoPaths == ~Has(Paths)
(* --verify and --load-check report as text or JSON *)
Unsupported == Has(Formats \ {"format terminal", "format json"})

Refused(mode) ==
    CASE mode = "set_lang"   -> FALSE
      [] mode = "tui"        -> Has(TuiConflicts)
      [] mode = "explain"    -> Has(ExplainConflicts)
      [] mode = "migrate"    -> Has(MigrateConflicts) \/ NoPaths
      [] mode = "load_check" -> Has(LoadCheckConflicts) \/ NoPaths \/ Unsupported
      [] mode = "verify"     -> Has(VerifyConflicts) \/ ~Has(BaselineOptions) \/ NoPaths \/ Unsupported
      [] mode = "prepare"    -> Has({"fix"}) \/ Has(FixConflicts) \/ NoPaths
      [] mode = "fix"        -> Has(FixConflicts) \/ NoPaths
      [] mode = "write"      -> TRUE
      [] mode = "scan"       -> \/ NoPaths
                                \/ {"check_connect_by", "dialect"} \subseteq given
                                \/ "baseline = save" \in given

ModeAsked ==
    LET asked == {k \in DOMAIN Modes : Modes[k] \in given}
    IN  IF asked = {} THEN "scan" ELSE Modes[Min(asked)]

Run ==
    /\ outcome = "none"
    /\ outcome' = IF Refused(ModeAsked) THEN "refused" ELSE ModeAsked
    /\ UNCHANGED given

Decided == outcome # "none" /\ UNCHANGED cliVars

CliNext == (\E option \in Options : Give(option)) \/ Run \/ Decided

CliSpec == CliInit /\ [][CliNext]_cliVars

-----------------------------------------------------------------------------
(* The options the code of each mode reads *)

ActsOn ==
    [tui        |-> {"tui", "path"},
     explain    |-> {"explain"},
     migrate    |-> {"migrate", "load_check", "dialect"} \cup Paths,
     load_check |-> {"load_check", "dialect", "format terminal", "format json"} \cup Paths \cup Outputs,
     verify     |-> {"verify", "dialect", "format terminal", "format json"} \cup BaselineOptions \cup Paths \cup Outputs,
     prepare    |-> {"prepare", "write", "dialect"} \cup Paths,
     fix        |-> {"fix", "write", "dialect"} \cup Paths,
     scan       |-> ScanShaping \cup {"baseline", "dialect"} \cup Paths \cup Reporting]

Needs(mode) ==
    CASE mode \in {"tui", "explain"} -> {mode} \subseteq given
      [] mode = "verify" -> "verify" \in given /\ Has(BaselineOptions) /\ Has(Paths)
      [] mode = "scan" -> Has(Paths) /\ ~({"check_connect_by", "dialect"} \subseteq given)
      [] OTHER -> mode \in given /\ Has(Paths)

Weighty == given \ Settings

(* A mode runs exactly when it acts on every option of the command line: none is       *)
(* silently ignored, whatever the others are (README.md:459, "combining them is         *)
(* rejected outright rather than silently ignored"; cli.py:1213-1218, a --fail-on that   *)
(* is never looked at would mask "a real gate failure"), none a mode could act on is     *)
(* refused, and no set of options asks for two modes.  The settings of the tools that    *)
(* are called do not count, and --set-lang comes before everything.                      *)
RunsWhatIsAsked ==
    outcome \notin {"none", "set_lang"} /\ "set_lang" \notin given =>
        LET able == {mode \in DOMAIN ActsOn : Weighty \subseteq ActsOn[mode] /\ Needs(mode)}
        IN  IF outcome = "refused" THEN able = {} ELSE able = {outcome}

-----------------------------------------------------------------------------
(* Statements of the sources that do not hold of the code.                     *)

(* README.md:457-459, of --tui: "none of the scan-shaping flags"; --pg-version *)
(* leaves out findings (cli.py:314) and is ignored there.                      *)
SettingsAreUsed ==
    outcome = "tui" \/ outcome = "explain" => ~Has(Settings)

(* README.md:380, "--format can be omitted when --output's extension already  *)
(* says which", as resolve_format does; --verify and --load-check write text  *)
(* into report.json.                                                          *)
BySuffix == IF Has({"output .json"}) THEN "json" ELSE IF Has({"output .csv"}) THEN "csv" ELSE "text"
Written ==
    IF Has({"format json"}) THEN "json"
    ELSE IF Has({"format csv"}) THEN "csv"
    ELSE IF Has(Formats) \/ outcome # "scan" THEN "text"
    ELSE BySuffix
OutputIsWhatItsNameSays ==
    outcome \in {"scan", "verify", "load_check"} /\ Has(Outputs) /\ ~Has(Formats) => Written = BySuffix
=============================================================================
