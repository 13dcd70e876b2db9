----------------------------- MODULE TuiScreens -----------------------------
(***************************************************************************)
(* The screens of --tui and their thread workers (tui_app.py): the scan     *)
(* screen, which may start any number of scans, the screens of their         *)
(* results, and the migrate screen with its run.  A worker does its work in  *)
(* a thread and has the event loop run what changes a screen                 *)
(* (call_from_thread, which waits for it and raises what it raises).         *)
(*                                                                           *)
(* Textual is external.  What is taken of it: a button posts a Pressed,      *)
(* which its screen handles later, after whatever the loop has to do before; *)
(* the user presses nothing more meanwhile (Textual ignores the button for   *)
(* 0.2 s); a popped screen is removed, and querying its widgets raises.      *)
(***************************************************************************)
EXTENDS Integers, Sequences, FiniteSets

CONSTANT MaxWorkers     \* bound of the model: scans, verifications and runs started

ASSUME TuiScreensAssumption == MaxWorkers \in Nat

VARIABLES
    app,          \* the application
    stack,        \* its screens, the one in front last
    picked,       \* something is selected in the tree
    spinner,      \* the scan screen shows that work is going on
    running,      \* the migrate screen does, and its buttons are disabled
    pressed,      \* a Pressed that was posted and is not handled yet
    workers,      \* the thread workers
    snapshot      \* the baseline file that was saved: whose findings it holds

vars == <<app, stack, picked, spinner, running, pressed, workers, snapshot>>

Workers == 1 .. MaxWorkers

(* by: the worker whose results are shown; for the migrate screen, a number of its own *)
Screen(kind, by) == [kind |-> kind, by |-> by]
ScanScreen == Screen("scan", 0)
Front == stack[Len(stack)]
Mounted(screen) == \E k \in DOMAIN stack : stack[k] = screen

(* A worker works, or waits for the loop to run what it calls *)
Unstarted == [kind |-> "none", on |-> ScanScreen, step |-> "none", calls |-> "", whole |-> FALSE]
Live == {w \in Workers : workers[w].step \in {"working", "calling"}}
Migrations == {w \in Live : workers[w].kind = "migrate"}
NextWorker == Cardinality({w \in Workers : workers[w].step # "none"}) + 1

Nothing == [button |-> "none", on |-> ScanScreen]

Init ==
    /\ app = "up" /\ stack = <<ScanScreen>>
    /\ picked = FALSE /\ spinner = FALSE /\ running = FALSE
    /\ pressed = Nothing
    /\ workers = [w \in Workers |-> Unstarted]
    /\ snapshot = 0

-----------------------------------------------------------------------------
(* The user *)

Buttons(screen) ==
    CASE screen.kind = "scan"    -> {"add", "clear", "scan", "verify", "migrate"}
      [] screen.kind = "results" -> {"back", "save"}
      [] screen.kind = "verify"  -> {"back"}
      [] screen.kind = "migrate" -> {"back"} \cup IF running THEN {} ELSE {"run"}

(* "verify" is the Scan button with the checkbox ticked, "back" the Escape key too, *)
(* which the disabled buttons of a run do not stop                                   *)
Press ==
    /\ app = "up" /\ pressed = Nothing
    /\ \E button \in Buttons(Front) :
            /\ button \in {"scan", "verify", "run"} => NextWorker \in Workers
            /\ pressed' = [button |-> button, on |-> Front]
    /\ UNCHANGED <<app, stack, picked, spinner, running, workers, snapshot>>

Pick ==
    /\ app = "up" /\ pressed = Nothing /\ Front = ScanScreen
    /\ picked' = TRUE
    /\ UNCHANGED <<app, stack, spinner, running, pressed, workers, snapshot>>

Quit ==
    /\ app = "up" /\ pressed = Nothing
    /\ app' = "quit"
    /\ UNCHANGED <<stack, picked, spinner, running, pressed, workers, snapshot>>

-----------------------------------------------------------------------------
(* The handlers of the buttons *)

Handle(button) == app = "up" /\ pressed.button = button /\ pressed' = Nothing

Start(kind, on) ==
    workers' = [workers EXCEPT ![NextWorker] = [Unstarted EXCEPT !.kind = kind, !.on = on, !.step = "working"]]

(* _show_status_error of the scan screen stops its spinner *)
ShowScanError == spinner' = FALSE

(* pop_screen, and on_screen_resume of the screen that is in front again *)
PopScreen ==
    /\ stack' = SubSeq(stack, 1, Len(stack) - 1)
    /\ spinner' = (spinner /\ stack'[Len(stack')] # ScanScreen)

AddOrClear ==
    /\ \/ Handle("add") /\ (IF picked THEN UNCHANGED spinner ELSE ShowScanError)
       \/ Handle("clear") /\ UNCHANGED spinner
    /\ UNCHANGED <<app, stack, picked, running, workers, snapshot>>

(* nothing is picked, or the settings contradict one another *)
RefuseScan ==
    /\ Handle("scan") \/ Handle("verify")
    /\ ShowScanError
    /\ UNCHANGED <<app, stack, picked, running, workers, snapshot>>

(* The Scan button stays enabled: several scans may be under way *)
StartScan ==
    /\ picked
    /\ \/ Handle("scan") /\ Start("scan", ScanScreen)
       \/ Handle("verify") /\ Start("verify", ScanScreen)
    /\ spinner' = TRUE
    /\ UNCHANGED <<app, stack, picked, running, snapshot>>

OpenMigrate ==
    /\ Handle("migrate")
    /\ IF picked
       THEN stack' = Append(stack, Screen("migrate", NextWorker)) /\ running' = FALSE /\ UNCHANGED spinner
       ELSE ShowScanError /\ UNCHANGED <<stack, running>>
    /\ UNCHANGED <<app, picked, workers, snapshot>>

(* without a directory to write to there is only a message *)
RunMigration ==
    /\ Handle("run")
    /\ \/ running' = FALSE /\ UNCHANGED workers
       \/ running' = TRUE /\ Start("migrate", pressed.on)
    /\ UNCHANGED <<app, stack, picked, spinner, snapshot>>

\* Mutant of Back: action_back does not ask whether a run is going.
BackAnyway ==
    /\ Handle("back") /\ PopScreen
    /\ UNCHANGED <<app, picked, running, workers, snapshot>>

(* action_back stays while a run is going; the others pop whatever is in front *)
Back ==
    /\ Handle("back")
    /\ IF pressed.on.kind = "migrate" /\ running THEN UNCHANGED <<stack, spinner>> ELSE PopScreen
    /\ UNCHANGED <<app, picked, running, workers, snapshot>>

(* without a path, or with one that cannot be written, there is only a message *)
SaveBaseline ==
    /\ Handle("save")
    /\ snapshot' \in {snapshot, pressed.on.by}
    /\ UNCHANGED <<app, stack, picked, spinner, running, workers>>

-----------------------------------------------------------------------------
(* The workers *)

Calls(w, callback) == [workers EXCEPT ![w].step = "calling", ![w].calls = callback]
Ends(w) == [workers EXCEPT ![w].step = "ended"]

(* run_migration says which step it is at *)
Progress(w) ==
    /\ app = "up" /\ workers[w].step = "working" /\ workers[w].kind = "migrate"
    /\ workers' = Calls(w, "progress")
    /\ UNCHANGED <<app, stack, picked, spinner, running, pressed, snapshot>>

(* The work is over, with a result, with an error that is foreseen, or by an exception, *)
(* which the boundary of the worker reports.  A scan that skipped a file or lost a       *)
(* detector has a result too.                                                            *)
WorkEnds(w) ==
    /\ app = "up" /\ workers[w].step = "working"
    /\ \E callback \in {"result", "error", "crash"}, whole \in BOOLEAN :
            /\ workers[w].kind # "scan" \/ callback # "result" => ~whole
            /\ workers' = [Calls(w, callback) EXCEPT ![w].whole = whole]
    /\ UNCHANGED <<app, stack, picked, spinner, running, pressed, snapshot>>

Called(w, callbacks) == app = "up" /\ workers[w].step = "calling" /\ workers[w].calls \in callbacks

(* _progress only keeps the message *)
ShowProgress(w) ==
    /\ Called(w, {"progress"})
    /\ workers' = [workers EXCEPT ![w].step = "working"]
    /\ UNCHANGED <<app, stack, picked, spinner, running, pressed, snapshot>>

(* push_screen of the results, over whatever is in front *)
ShowResults(w) ==
    /\ Called(w, {"result"}) /\ workers[w].kind \in {"scan", "verify"}
    /\ stack' = Append(stack, Screen(IF workers[w].kind = "scan" THEN "results" ELSE "verify", w))
    /\ workers' = Ends(w)
    /\ UNCHANGED <<app, picked, spinner, running, pressed, snapshot>>

ScanFails(w) ==
    /\ Called(w, {"error", "crash"}) /\ workers[w].kind \in {"scan", "verify"}
    /\ ShowScanError
    /\ workers' = Ends(w)
    /\ UNCHANGED <<app, stack, picked, running, pressed, snapshot>>

\* Mutant of ShowMigration: the migrate screen shows an error as the scan screen does.
ShowMigrationKept(w) ==
    /\ Called(w, {"result", "error", "crash"}) /\ workers[w].kind = "migrate" /\ Mounted(workers[w].on)
    /\ running' = (running /\ workers[w].calls # "result")
    /\ workers' = Ends(w)
    /\ UNCHANGED <<app, stack, picked, spinner, pressed, snapshot>>

(* _show_result, or _show_status_error of the migrate screen, which enables its buttons again; *)
(* both query its widgets                                                                       *)
ShowMigration(w) ==
    /\ Called(w, {"result", "error", "crash"}) /\ workers[w].kind = "migrate" /\ Mounted(workers[w].on)
    /\ running' = FALSE
    /\ workers' = Ends(w)
    /\ UNCHANGED <<app, stack, picked, spinner, pressed, snapshot>>

Over == app # "up" /\ UNCHANGED vars

Handlers == AddOrClear \/ RefuseScan \/ StartScan \/ OpenMigrate \/ RunMigration \/ Back \/ SaveBaseline
Callback(w) == ShowProgress(w) \/ ShowResults(w) \/ ScanFails(w) \/ ShowMigration(w)

Next ==
    \/ Press \/ Pick \/ Quit \/ Handlers
    \/ \E w \in Workers : Progress(w) \/ WorkEnds(w) \/ Callback(w)
    \/ Over

(* The loop runs what is put to it.  Nothing is assumed of the user, nor of the work: ora2pg *)
(* and docker may take for ever                                                              *)
Spec == Init /\ [][Next]_vars /\ WF_vars(Handlers) /\ \A w \in Workers : WF_vars(Callback(w))

-----------------------------------------------------------------------------
(* The migrate screen is held exactly as long as its run is going, there is one run at  *)
(* a time (MigrateRun is about one), and its worker finds the screen it reports to       *)
(* (tui_app.py:795, "Not while a run is going: its worker reports back to this screen"),  *)
(* whatever scans push over it meanwhile; without it the call would raise, in the worker   *)
(* and again in what reports that, and take the application down (tui_app.py:852-859).     *)
RunHasItsScreen ==
    /\ \A w \in Migrations : running /\ Mounted(workers[w].on)
    /\ Cardinality(Migrations) = IF running THEN 1 ELSE 0

(* Once a run's work is over, however it ended, the user gets the screen back. *)
RunIsReleased ==
    \A w \in Workers :
        workers[w].step = "calling" /\ workers[w].kind = "migrate" /\ workers[w].calls # "progress"
        ~> ~running \/ app = "quit"

-----------------------------------------------------------------------------
(* Statements of the sources that do not hold of the code.                    *)

(* tui_app.py:358-360, the spinner is "redrawn ten times a second until the worker     *)
(* hands over a result or an error": it is there while a scan is under way.             *)
SpinnerIsHonest ==
    app = "up" /\ Front = ScanScreen /\ (\E w \in Live : workers[w].on = ScanScreen /\ workers[w].step = "working")
        => spinner

(* cli.py:1457-1459, "A snapshot missing some of what was asked to be scanned [...] isn't *)
(* "ground truth for the schema"", so it is not saved.                                     *)
SavedIsWhole == snapshot # 0 => workers[snapshot].whole
=============================================================================
