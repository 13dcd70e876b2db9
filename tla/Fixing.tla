------------------------------- MODULE Fixing -------------------------------
(***************************************************************************)
(* --fix and --verify over the files ora2pg generated (cli.py _handle_fix, *)
(* _handle_verify, core.py expand_paths): run after run over the same      *)
(* directory, as a dry run or with --write, with files that are missing or *)
(* cannot be read or written, and runs that are killed.  What the repairs  *)
(* and the detectors make of a text, Autofix and Scanning, is a parameter. *)
(***************************************************************************)
EXTENDS Integers, Sequences, FiniteSetsExt

(* verification.py: what --verify says of a detector of the snapshot, from what *)
(* the detectors find in the generated files                                   *)

(* VERIFICATION_MODE: the constructs that are not in the output as they were in *)
(* the source, whether or not anyone rewrote them                               *)
NOT_VERIFIABLE ==
    {"authid_clause", "autonomous_tx", "bitmap_index", "call_result_member", "char_semantics",
     "collection_type", "compound_triggers", "connect_by_nocycle", "context_object",
     "cursor_rowtype", "date_arithmetic", "dbms_sleep", "external_table", "float_precision",
     "global_temp_table", "identity_on_null", "index_organized_table", "invisible_column",
     "invisible_index", "local_time_zone", "long_raw_type", "materialized_view_log",
     "mssql_charindex", "mssql_collation", "mssql_computed_column", "mssql_filtered_index",
     "mssql_foreign_key", "mssql_identity_column", "mssql_newid_default",
     "mssql_parameterless_procedure", "mssql_rowversion", "mssql_statement_terminator",
     "mssql_update_set", "mysql_auto_increment_start", "mysql_collate",
     "mysql_create_table_if_not_exists", "mysql_date_format", "mysql_declare_handler",
     "mysql_definer_procedure", "mysql_delimiter_routine", "mysql_delimiter_trigger",
     "mysql_enum_type", "mysql_foreign_key", "mysql_index_name_collision", "mysql_index_prefix",
     "mysql_set_type", "mysql_temporary_table", "mysql_versioned_comment", "mysql_zero_date",
     "nested_subprogram", "nlssort", "number_as_float", "number_without_precision", "object_table",
     "oracle_text", "package_constant_chain", "package_constant_default", "package_state",
     "package_type_anchor", "package_type_reference", "param_default_spacing",
     "pragma_exception_init", "public_synonym", "read_only_table", "read_only_view",
     "ref_cursor_type", "repeated_package_call", "rowid_type", "rownum_dml", "sdo_geometry",
     "sequence_cycle", "sql_macro", "statement_trigger", "subtype_range", "table_if_not_exists",
     "table_partitioning", "temporal_validity", "to_char_default_format", "to_char_operator",
     "trigger_follows", "trunc_number", "virtual_column", "with_function"}

(* found only in generated code, and in no snapshot *)
GENERATED_ONLY == {"connect_by"}

VERBATIM(detector) == detector \notin NOT_VERIFIABLE \cup GENERATED_ONLY

(* baseline: the detectors of the snapshot; found: those that find something now *)
verify_against_baseline(baseline, found) ==
    [d \in baseline |-> IF ~VERBATIM(d) THEN "not_verifiable"
                        ELSE IF d \in found THEN "still_present" ELSE "not_detected"]

new_in_output(baseline, found) == found \ baseline

-----------------------------------------------------------------------------
CONSTANTS
    Files,        \* the paths of the directory, in sorted order
    Generated,    \* dialect -> what ora2pg may have written: sets of [file -> text]
    Arguments,    \* what --fix and --verify may be given: sequences of paths and directories
    Directory,    \* of the two directories one holds the files,
    EmptyDir,     \* the other nothing
    Baselines,    \* dialect -> the detectors a snapshot of the source may name
    MaxRuns,      \* bounds of the model: runs of the tool,
    MaxChanges,   \* and files removed or made again beside it
    Detectors,    \* dialect -> the detectors
    ChainOf,      \* [dialect, text -> what is left of it, and the number of repairs]
    FindingsOf    \* [detector, text -> findings]

FileSet == {Files[k] : k \in DOMAIN Files}

ASSUME FixingAssumption ==
    /\ Files \in Seq(FileSet) /\ \A j, k \in DOMAIN Files : Files[j] = Files[k] => j = k
    /\ Directory \notin FileSet /\ EmptyDir \notin FileSet
    /\ \A args \in Arguments : args \in Seq(FileSet \cup {Directory, EmptyDir})
    /\ \A d \in DOMAIN Generated : \A g \in Generated[d] : g = [f \in FileSet |-> g[f]]
    /\ MaxRuns \in Nat /\ MaxChanges \in Nat

VARIABLES
    dialect,
    baseline,     \* the detectors of the snapshot --verify reads
    generated,    \* file -> what ora2pg wrote, or Missing
    disk,         \* file -> what is there now
    run,          \* the run of the tool
    runs,         \* how many there were
    changes       \* files removed or made again

fixVars == <<dialect, baseline, generated, disk, run, runs, changes>>

Missing == <<"missing">>

(* mode "none": no run yet, or one that was killed *)
Idle == [mode |-> "none", ended |-> FALSE, args |-> <<>>, todo |-> <<>>, holds |-> <<>>, hadError |-> FALSE,
         patch |-> <<>>, read |-> {}, report |-> [d \in {} |-> ""], introduced |-> {}, exit |-> 0]
Running == run.mode # "none" /\ ~run.ended

-----------------------------------------------------------------------------
(* expand_paths *)

(* a directory gives the files it holds; a path that is none is kept, to be reported *)
Gives(arg, f) == arg = f \/ (arg = Directory /\ disk[f] # Missing)

\* Mutant of expand_paths: a file is taken as often as it is named.
AsGiven(args) ==
    LET given(arg) == SelectSeq(Files, LAMBDA f : Gives(arg, f))
        upTo[k \in 0 .. Len(args)] == IF k = 0 THEN <<>> ELSE upTo[k - 1] \o given(args[k])
    IN  upTo[Len(args)]

(* each file once, where it is named first; those of a directory in sorted order *)
expand_paths(args) ==
    LET named == {f \in FileSet : \E k \in DOMAIN args : Gives(args[k], f)}
        first(f) == Min({k \in DOMAIN args : Gives(args[k], f)})
        place(f) == CHOOSE k \in DOMAIN Files : Files[k] = f
        upTo(f) == {g \in named : first(g) < first(f) \/ (first(g) = first(f) /\ place(g) <= place(f))}
    IN  [n \in 1 .. Cardinality(named) |-> CHOOSE f \in named : Cardinality(upTo(f)) = n]

HasEmptyDir(args) ==
    \E k \in DOMAIN args :
        \/ args[k] = EmptyDir
        \/ args[k] = Directory /\ \A f \in FileSet : disk[f] = Missing

-----------------------------------------------------------------------------
FixInit ==
    /\ dialect \in DOMAIN Generated
    /\ baseline \in Baselines[dialect]
    /\ generated \in Generated[dialect]
    /\ disk = generated
    /\ run = Idle /\ runs = 0 /\ changes = 0

Inputs == UNCHANGED <<dialect, baseline, generated>>
Steps == UNCHANGED <<runs, changes>> /\ Inputs

Begin ==
    /\ ~Running /\ runs < MaxRuns
    /\ \E mode \in {"dry", "write", "verify"}, args \in Arguments :
            run' = [Idle EXCEPT !.mode = mode, !.args = args, !.todo = expand_paths(args), !.hadError = HasEmptyDir(args)]
    /\ runs' = runs + 1
    /\ UNCHANGED <<disk, changes>> /\ Inputs

(* the fixers of the dialect, one after the other *)
Chained(text) == ChainOf[<<dialect, text>>]

Taking == Running /\ run.todo # <<>> /\ run.holds = <<>>
Path == Head(run.todo)
Leave(next) == run' = [next EXCEPT !.todo = Tail(@), !.holds = <<>>]

(* the path is no file, or cannot be read *)
SkipFile ==
    /\ Taking
    /\ Leave([run EXCEPT !.hadError = TRUE])
    /\ UNCHANGED disk /\ Steps

(* a file is read, for the detectors of the snapshot's dialect *)
VerifyFile ==
    /\ Taking /\ run.mode = "verify" /\ disk[Path] # Missing
    /\ Leave([run EXCEPT !.read = @ \cup {disk[Path]}])
    /\ UNCHANGED disk /\ Steps

(* a file is read and the fixers run over it; without a repair it is left *)
FixFile ==
    /\ Taking /\ run.mode # "verify" /\ disk[Path] # Missing
    /\ LET fixed == Chained(disk[Path])
           diff == [path |-> Path, from |-> disk[Path], to |-> fixed.text]
       IN  \/ fixed.count = 0 /\ Leave(run)
           \/ fixed.count # 0 /\ run.mode = "write" /\ run' = [run EXCEPT !.holds = <<fixed.text>>]
           \/ fixed.count # 0 /\ run.mode = "dry" /\ Leave([run EXCEPT !.patch = Append(@, diff)])
    /\ UNCHANGED disk /\ Steps

(* write_text_atomic, which replaces the file whole or not at all *)
WriteFile ==
    /\ Running /\ run.holds # <<>>
    /\ disk' = [disk EXCEPT ![Path] = Head(run.holds)]
    /\ Leave(run)
    /\ Steps

(* its OSError *)
WriteFails ==
    /\ Running /\ run.holds # <<>>
    /\ Leave([run EXCEPT !.hadError = TRUE])
    /\ UNCHANGED disk /\ Steps

Ended == [run EXCEPT !.ended = TRUE, !.exit = IF run.hadError THEN 2 ELSE 0]

Found(texts) == {d \in Detectors[dialect] : \E text \in texts : FindingsOf[d, text] # {}}

Finish ==
    /\ Running /\ run.todo = <<>>
    /\ run' = IF run.mode # "verify" THEN Ended
              ELSE [Ended EXCEPT !.report = verify_against_baseline(baseline, Found(run.read)),
                                 !.introduced = new_in_output(baseline, Found(run.read))]
    /\ UNCHANGED disk /\ Steps

(* kill, Ctrl-C, or the reader of the diff is gone *)
Kill ==
    /\ Running /\ run' = Idle
    /\ UNCHANGED disk /\ Steps

(* A file is removed, at any time *)
RemoveFile ==
    /\ changes < MaxChanges /\ changes' = changes + 1
    /\ \E f \in FileSet : disk[f] # Missing /\ disk' = [disk EXCEPT ![f] = Missing]
    /\ UNCHANGED <<run, runs>> /\ Inputs

(* ora2pg converts again, between two runs *)
Convert ==
    /\ changes < MaxChanges /\ changes' = changes + 1
    /\ ~Running /\ disk # generated /\ disk' = generated /\ run' = Idle
    /\ UNCHANGED runs /\ Inputs

Rest == ~Running /\ runs = MaxRuns /\ changes = MaxChanges /\ UNCHANGED fixVars

FixNext ==
    \/ Begin \/ SkipFile \/ VerifyFile \/ FixFile \/ WriteFile \/ WriteFails \/ Finish \/ Kill
    \/ RemoveFile \/ Convert \/ Rest

FixSpec == FixInit /\ [][FixNext]_fixVars

-----------------------------------------------------------------------------
Present == {f \in FileSet : disk[f] # Missing}
Named == {f \in Present : \E k \in DOMAIN run.args : run.args[k] \in {f, Directory}}

(* However often --fix is run, and wherever a run is killed or fails, a file is *)
(* what ora2pg wrote or what the fixers make of that, whole, and they find       *)
(* nothing more in it (cli.py:1013-1021 writes a file once its chain is through; *)
(* tests/test_autofix.py:80, "fixing is idempotent for the shape ora2pg actually *)
(* produces").                                                                   *)
FixedOnce ==
    \A f \in Present :
        \/ disk[f] = generated[f]
        \/ /\ disk[f] = Chained(generated[f]).text
           /\ Chained(disk[f]).count = 0

(* A run that exits with 0 has dealt with every file it was given, once: with    *)
(* --write nothing is left to repair, without it the diffs printed are one for    *)
(* each file that needs one, so that git apply takes them (cli.py:1034-1042).     *)
RunIsWhole ==
    run.ended /\ run.exit = 0 =>
        LET repairable == {f \in Named : Chained(disk[f]).count # 0}
        IN  /\ run.mode = "write" => repairable = {}
            /\ run.mode = "dry" =>
                    /\ \A f \in repairable : \E k \in DOMAIN run.patch : run.patch[k].path = f
                    /\ \A j, k \in DOMAIN run.patch : run.patch[j].path = run.patch[k].path => j = k
=============================================================================
