--------------------------- MODULE FrontEndProofs ---------------------------
(***************************************************************************)
(* The theorems about what the user starts: from the screens of the        *)
(* terminal user interface (TuiScreens), on the command line (CliModes),   *)
(* and run after run over the files ora2pg generated (Fixing).             *)
(*                                                                         *)
(* A migration that is under way has its screen because a screen is only   *)
(* pushed over it, and the way back from it is shut while it runs: the     *)
(* invariant relates the stack, the button that was pressed and is not     *)
(* handled yet, and the workers (Stacked, Started, Pending, Held).         *)
(***************************************************************************)
EXTENDS TuiScreens, CliModes, Fixing, FiniteSetTheorems, WellFoundedInduction, TLAPS

-----------------------------------------------------------------------------
(* The screens: the invariant. *)

Screens == [kind : {"scan", "results", "verify", "migrate"}, by : Nat]
Kinds == {"none", "scan", "verify", "migrate"}
Callbacks == {"", "progress", "result", "error", "crash"}
ButtonNames == {"none", "add", "clear", "scan", "verify", "migrate", "back", "save", "run"}

ScreensTypeOK ==
    /\ app \in {"up", "quit"}
    /\ stack \in Seq(Screens)
    /\ picked \in BOOLEAN /\ spinner \in BOOLEAN /\ running \in BOOLEAN
    /\ pressed \in [button : ButtonNames, on : Screens]
    /\ workers \in [Workers -> [kind : Kinds, on : Screens, step : {"none", "working", "calling", "ended"},
                                calls : Callbacks, whole : BOOLEAN]]
    /\ snapshot \in Nat

(* The scan screen is at the bottom and nowhere else. *)
Stacked ==
    /\ Len(stack) > 0 /\ stack[1] = ScanScreen
    /\ \A k \in DOMAIN stack : k > 1 => stack[k].kind # "scan"

(* The workers have been started one after the other. *)
Started ==
    /\ NextWorker \in Nat
    /\ \A w \in Workers : workers[w].step # "none" <=> w < NextWorker
    /\ pressed.button \in {"scan", "verify", "run"} => NextWorker \in Workers

(* What a button that is not handled yet still finds: to run or open a migration, none that is *)
(* going; to go back, in front the screen it was pressed on, or results pushed over it since.  *)
Pending ==
    /\ pressed.button = "migrate" => ~running
    /\ pressed.button = "run" => ~running /\ pressed.on.kind = "migrate" /\ Mounted(pressed.on)
    /\ pressed.button = "back" =>
          /\ pressed.on.kind # "scan"
          /\ Front = pressed.on \/ Front.kind \in {"results", "verify"}

(* A run that is going is the only one, and on a migrate screen that is there. *)
Held ==
    /\ \A w \in Migrations : workers[w].on.kind = "migrate" /\ Mounted(workers[w].on)
    /\ IF running THEN \E w \in Workers : Migrations = {w} ELSE Migrations = {}

ScreensInv == ScreensTypeOK /\ Stacked /\ Started /\ Pending /\ Held

-----------------------------------------------------------------------------
(* What the steps are made of. *)

LEMMA FrontType ==
    ASSUME ScreensTypeOK, Stacked
    PROVE  /\ Len(stack) \in Nat \ {0} /\ DOMAIN stack = 1 .. Len(stack)
           /\ Front \in Screens
           /\ ScanScreen \in Screens
           /\ \A k \in DOMAIN stack : stack[k] \in Screens
  <1>1. stack \in Seq(Screens)
    BY DEF ScreensTypeOK
  <1>2. Len(stack) \in Nat \ {0} /\ DOMAIN stack = 1 .. Len(stack)
    BY <1>1 DEF Stacked
  <1>3. \A k \in DOMAIN stack : stack[k] \in Screens
    BY <1>1
  <1>4. ScanScreen \in Screens
    BY DEF ScanScreen, Screen, Screens
  <1> QED BY <1>2, <1>3, <1>4 DEF Front

\* A screen is pushed over the others.
LEMMA Push ==
    ASSUME ScreensTypeOK, Stacked, NEW s \in Screens, s.kind # "scan", stack' = Append(stack, s)
    PROVE  /\ stack' \in Seq(Screens)
           /\ Stacked'
           /\ Front' = s
           /\ \A t \in Screens : Mounted(t) => Mounted(t)'
  <1>1. Len(stack) \in Nat \ {0} /\ DOMAIN stack = 1 .. Len(stack) /\ stack \in Seq(Screens)
    BY FrontType DEF ScreensTypeOK
  <1>2. /\ stack' \in Seq(Screens) /\ Len(stack') = Len(stack) + 1
        /\ \A k \in 1 .. Len(stack) : stack'[k] = stack[k]
        /\ stack'[Len(stack) + 1] = s
    BY <1>1
  <1>3. DOMAIN stack' = 1 .. Len(stack) + 1
    BY <1>2
  <1>4. \A k \in DOMAIN stack' : k \in DOMAIN stack \/ k = Len(stack) + 1
    BY <1>1, <1>3
  <1>5. Stacked'
    BY <1>1, <1>2, <1>3, <1>4 DEF Stacked, ScanScreen
  <1>6. Front' = s
    BY <1>2 DEF Front
  <1>7. \A t \in Screens : Mounted(t) => Mounted(t)'
    BY <1>1, <1>2, <1>3 DEF Mounted
  <1> QED BY <1>2, <1>5, <1>6, <1>7

\* The screen in front is removed, and no other.
LEMMA Pop ==
    ASSUME ScreensTypeOK, Stacked, Front.kind # "scan", PopScreen
    PROVE  /\ stack' \in Seq(Screens)
           /\ Stacked'
           /\ spinner' \in BOOLEAN
           /\ \A t \in Screens : Mounted(t) /\ t # Front => Mounted(t)'
  <1>1. Len(stack) \in Nat \ {0} /\ DOMAIN stack = 1 .. Len(stack) /\ stack \in Seq(Screens)
    BY FrontType DEF ScreensTypeOK
  <1>2. Len(stack) > 1
    BY <1>1 DEF Stacked, Front, ScanScreen, Screen
  <1>3. stack' = SubSeq(stack, 1, Len(stack) - 1)
    BY DEF PopScreen
  <1>4. /\ stack' \in Seq(Screens) /\ Len(stack') = Len(stack) - 1
        /\ \A k \in 1 .. Len(stack) - 1 : stack'[k] = stack[k]
    BY <1>1, <1>2, <1>3
  <1>5. DOMAIN stack' = 1 .. Len(stack) - 1
    BY <1>4
  <1>6. Stacked'
    BY <1>1, <1>2, <1>4, <1>5 DEF Stacked, ScanScreen
  <1>7. \A k \in DOMAIN stack : k # Len(stack) => k \in DOMAIN stack' /\ stack'[k] = stack[k]
    BY <1>1, <1>4, <1>5
  <1>8. \A t \in Screens : Mounted(t) /\ t # Front => Mounted(t)'
    BY <1>7 DEF Mounted, Front
  <1>9. spinner' \in BOOLEAN
    BY DEF PopScreen
  <1> QED BY <1>4, <1>6, <1>8, <1>9

LEMMA StartedFinite == IsFiniteSet({w \in Workers : workers[w].step # "none"})
  <1>1. IsFiniteSet(Workers)
    BY FS_Interval, TuiScreensAssumption DEF Workers
  <1> QED BY <1>1, FS_Subset

LEMMA NextWorkerType == NextWorker \in Nat
  BY StartedFinite, FS_CardinalityType DEF NextWorker

\* Once a button is handled, the workers are started in order if they are so below the next one.
LEMMA StartedAfter ==
    ASSUME NextWorker \in Nat, NextWorker' = NextWorker + 1, pressed' = Nothing,
           \A w \in Workers : workers'[w].step # "none" <=> w < NextWorker'
    PROVE  Started'
  <1>1. NextWorker' \in Nat
    OBVIOUS
  <1>2. pressed'.button = "none"
    BY DEF Nothing
  <1> QED BY <1>1, <1>2 DEF Started

\* The next worker is started, and the others are left alone.
LEMMA StartOne ==
    ASSUME ScreensTypeOK, Started, NextWorker \in Workers,
           NEW kind \in {"scan", "verify", "migrate"}, NEW on \in Screens, Start(kind, on)
    PROVE  /\ workers' \in [Workers -> [kind : Kinds, on : Screens,
                                         step : {"none", "working", "calling", "ended"},
                                         calls : Callbacks, whole : BOOLEAN]]
           /\ \A w \in Workers : w # NextWorker => workers'[w] = workers[w]
           /\ workers'[NextWorker].kind = kind /\ workers'[NextWorker].on = on
           /\ workers'[NextWorker].step = "working"
           /\ workers[NextWorker].step = "none"
           /\ NextWorker' = NextWorker + 1
           /\ \A w \in Workers : workers'[w].step # "none" <=> w < NextWorker'
  <1> DEFINE n == NextWorker
             S == {w \in Workers : workers[w].step # "none"}
             new == [Unstarted EXCEPT !.kind = kind, !.on = on, !.step = "working"]
  <1>1. workers[n].step = "none" /\ n \in Workers /\ n \in Nat
    BY NextWorkerType DEF Started, Workers
  <1>2. workers' = [workers EXCEPT ![n] = new]
    BY DEF Start
  <1>3. /\ new \in [kind : Kinds, on : Screens, step : {"none", "working", "calling", "ended"},
                     calls : Callbacks, whole : BOOLEAN]
        /\ new.kind = kind /\ new.on = on /\ new.step = "working"
    <2>1. Unstarted \in [kind : Kinds, on : Screens, step : {"none", "working", "calling", "ended"},
                          calls : Callbacks, whole : BOOLEAN]
      BY DEF Unstarted, Kinds, Callbacks, ScanScreen, Screen, Screens
    <2> QED BY <2>1 DEF Kinds
  <1> HIDE DEF n, new
  <1>4. /\ workers' \in [Workers -> [kind : Kinds, on : Screens,
                                      step : {"none", "working", "calling", "ended"},
                                      calls : Callbacks, whole : BOOLEAN]]
        /\ \A w \in Workers : w # n => workers'[w] = workers[w]
        /\ workers'[n].kind = kind /\ workers'[n].on = on /\ workers'[n].step = "working"
    BY <1>1, <1>2, <1>3 DEF ScreensTypeOK
  <1>5. {w \in Workers : workers'[w].step # "none"} = S \union {n}
    BY <1>1, <1>4
  <1>6. n \notin S
    BY <1>1
  <1>7. Cardinality(S \union {n}) = Cardinality(S) + 1
    BY <1>6, StartedFinite, FS_AddElement
  <1>8. NextWorker' = n + 1
    <2>1. NextWorker' = Cardinality(S \union {n}) + 1
      BY <1>5 DEF NextWorker
    <2>2. n = Cardinality(S) + 1
      BY DEF n, NextWorker
    <2> QED BY <1>7, <2>1, <2>2
  <1>9. \A w \in Workers : workers'[w].step # "none" <=> w < n + 1
    <2>1. \A w \in Workers : workers[w].step # "none" <=> w < n
      BY DEF Started, n
    <2>2. \A w \in Workers : w \in Nat
      BY DEF Workers
    <2> SUFFICES ASSUME NEW w \in Workers PROVE workers'[w].step # "none" <=> w < n + 1
      OBVIOUS
    <2>3. CASE w = n
      BY <1>1, <1>4, <2>3
    <2>4. CASE w # n
      BY <1>1, <1>4, <2>1, <2>2, <2>4
    <2> QED BY <2>3, <2>4
  <1> QED BY <1>1, <1>4, <1>8, <1>9 DEF n

\* A worker goes on: what it is and where it belongs stay.
LEMMA GoesOn ==
    ASSUME ScreensTypeOK, NEW w \in Workers, workers[w].step # "none",
           NEW step \in {"working", "calling", "ended"}, NEW calls \in Callbacks, NEW whole \in BOOLEAN,
           workers' = [workers EXCEPT ![w] = [@ EXCEPT !.step = step, !.calls = calls, !.whole = whole]]
    PROVE  /\ workers' \in [Workers -> [kind : Kinds, on : Screens,
                                         step : {"none", "working", "calling", "ended"},
                                         calls : Callbacks, whole : BOOLEAN]]
           /\ \A v \in Workers : v # w => workers'[v] = workers[v]
           /\ workers'[w].kind = workers[w].kind /\ workers'[w].on = workers[w].on
           /\ workers'[w].step = step
           /\ NextWorker' = NextWorker
           /\ \A v \in Workers : workers'[v].step # "none" <=> workers[v].step # "none"
  <1>1. /\ workers' \in [Workers -> [kind : Kinds, on : Screens,
                                      step : {"none", "working", "calling", "ended"},
                                      calls : Callbacks, whole : BOOLEAN]]
        /\ \A v \in Workers : v # w => workers'[v] = workers[v]
        /\ workers'[w].kind = workers[w].kind /\ workers'[w].on = workers[w].on
        /\ workers'[w].step = step
    BY DEF ScreensTypeOK
  <1>2. \A v \in Workers : workers'[v].step # "none" <=> workers[v].step # "none"
    BY <1>1
  <1>3. NextWorker' = NextWorker
    BY <1>2 DEF NextWorker
  <1> QED BY <1>1, <1>2, <1>3

LEMMA ButtonsOf ==
    ASSUME NEW s \in Screens, NEW b \in Buttons(s)
    PROVE  /\ b \in ButtonNames
           /\ b = "migrate" => s.kind = "scan"
           /\ b = "run" => s.kind = "migrate" /\ ~running
           /\ b = "back" => s.kind # "scan"
  <1>1. s.kind \in {"scan", "results", "verify", "migrate"}
    BY DEF Screens
  <1>2. CASE s.kind = "scan"
    BY <1>2 DEF Buttons, ButtonNames
  <1>3. CASE s.kind = "results"
    BY <1>3 DEF Buttons, ButtonNames
  <1>4. CASE s.kind = "verify"
    BY <1>4 DEF Buttons, ButtonNames
  <1>5. CASE s.kind = "migrate"
    BY <1>5 DEF Buttons, ButtonNames
  <1> QED BY <1>1, <1>2, <1>3, <1>4, <1>5

\* The migrations that are under way do not change, nor does what they report to.
LEMMA HeldAsBefore ==
    ASSUME ScreensTypeOK, Held, running' = running, Migrations' = Migrations,
           \A w \in Migrations : workers'[w].on = workers[w].on,
           \A t \in Screens :
              (\E w \in Migrations : workers[w].on = t) /\ t.kind = "migrate" /\ Mounted(t) => Mounted(t)'
    PROVE  Held'
  <1>1. ASSUME NEW w \in Migrations
        PROVE  (workers[w].on.kind = "migrate" /\ Mounted(workers[w].on))'
    <2>1. w \in Workers /\ workers[w].on \in Screens
      BY DEF Migrations, Live, ScreensTypeOK
    <2>2. PICK t \in Screens : t = workers[w].on
      BY <2>1
    <2>3. Mounted(t) /\ t.kind = "migrate"
      BY <2>2 DEF Held
    <2>4. Mounted(t)' /\ workers'[w].on = t
      BY <2>2, <2>3
    <2> QED BY <2>3, <2>4 DEF Mounted
  <1>2. (IF running THEN \E w \in Workers : Migrations = {w} ELSE Migrations = {})'
    BY DEF Held
  <1> QED BY <1>1, <1>2 DEF Held

\* Nothing but a button or the look of a screen changes.
LEMMA SameStack ==
    ASSUME stack' = stack
    PROVE  Front' = Front /\ (Stacked => Stacked') /\ \A s \in Screens : Mounted(s)' <=> Mounted(s)
  BY DEF Front, Stacked, Mounted

LEMMA SameWorkers ==
    ASSUME workers' = workers
    PROVE  NextWorker' = NextWorker /\ Migrations' = Migrations
  BY DEF NextWorker, Migrations, Live

\* A press that is handled leaves nothing pending.
LEMMA Handled ==
    ASSUME pressed' = Nothing
    PROVE  Pending' /\ pressed'.button = "none" /\ pressed' \in [button : ButtonNames, on : Screens]
  <1>1. pressed' = [button |-> "none", on |-> ScanScreen]
    BY DEF Nothing
  <1>2. ScanScreen \in Screens
    BY DEF ScanScreen, Screen, Screens
  <1> QED BY <1>1, <1>2 DEF Pending, ButtonNames

-----------------------------------------------------------------------------
(* The invariant holds. *)

LEMMA ScreensInit == Init => ScreensInv
  <1> SUFFICES ASSUME Init PROVE ScreensInv
    OBVIOUS
  <1>1. ScanScreen \in Screens /\ Unstarted \in [kind : Kinds, on : Screens,
            step : {"none", "working", "calling", "ended"}, calls : Callbacks, whole : BOOLEAN]
        /\ Nothing \in [button : ButtonNames, on : Screens] /\ Nothing.button = "none"
        /\ Unstarted.step = "none"
    BY DEF ScanScreen, Screen, Screens, Unstarted, Kinds, Callbacks, Nothing, ButtonNames
  <1>2. ScreensTypeOK
    <2>1. stack \in Seq(Screens)
      BY <1>1 DEF Init
    <2>2. workers \in [Workers -> [kind : Kinds, on : Screens,
            step : {"none", "working", "calling", "ended"}, calls : Callbacks, whole : BOOLEAN]]
      BY <1>1 DEF Init
    <2> QED BY <1>1, <2>1, <2>2 DEF Init, ScreensTypeOK
  <1>3. Stacked
    BY DEF Init, Stacked
  <1>4. \A w \in Workers : workers[w].step = "none"
    BY <1>1 DEF Init
  <1>5. Cardinality({w \in Workers : workers[w].step # "none"}) = 0
    <2>1. {w \in Workers : workers[w].step # "none"} = {}
      BY <1>4
    <2> QED BY <2>1, FS_EmptySet
  <1>6. NextWorker = 1
    BY <1>5 DEF NextWorker
  <1>7. \A w \in Workers : ~ (w < 1)
    BY DEF Workers
  <1>8. Started
    BY <1>1, <1>4, <1>6, <1>7 DEF Init, Started
  <1>9. Pending
    BY <1>1 DEF Init, Pending
  <1>10. Held
    BY <1>4 DEF Init, Held, Migrations, Live
  <1> QED BY <1>2, <1>3, <1>8, <1>9, <1>10 DEF ScreensInv

\* The user and the handlers.
LEMMA UserStep ==
    ASSUME ScreensInv, Press \/ Pick \/ Quit \/ Handlers \/ Over \/ UNCHANGED vars
    PROVE  ScreensInv'
  <1> USE DEF ScreensInv
  <1>0. ScreensTypeOK /\ Stacked /\ Started /\ Pending /\ Held
    OBVIOUS
  <1>1. CASE Press
    <2>1. PICK button \in Buttons(Front) :
            /\ button \in {"scan", "verify", "run"} => NextWorker \in Workers
            /\ pressed' = [button |-> button, on |-> Front]
      BY <1>1 DEF Press
    <2>2. UNCHANGED <<app, stack, picked, spinner, running, workers, snapshot>>
      BY <1>1 DEF Press
    <2>3. Front \in Screens
      BY FrontType
    <2>4. /\ button \in ButtonNames
          /\ button = "migrate" => Front.kind = "scan"
          /\ button = "run" => Front.kind = "migrate" /\ ~running
          /\ button = "back" => Front.kind # "scan"
      BY <2>3, ButtonsOf
    <2>5. ScreensTypeOK'
      BY <2>1, <2>2, <2>3, <2>4 DEF ScreensTypeOK
    <2>6. Stacked' /\ Front' = Front /\ NextWorker' = NextWorker /\ Migrations' = Migrations
      BY <2>2, SameStack, SameWorkers
    <2>7. Started'
      BY <2>1, <2>2, <2>6 DEF Started
    <2>8. Front.kind = "scan" => ~running
      <3> SUFFICES ASSUME Front.kind = "scan", running PROVE FALSE
        OBVIOUS
      <3>1. PICK w \in Workers : Migrations = {w}
        BY DEF Held
      <3>2. PICK k \in DOMAIN stack : stack[k].kind = "migrate"
        BY <3>1 DEF Held, Mounted
      <3>3. Len(stack) \in Nat \ {0} /\ DOMAIN stack = 1 .. Len(stack)
        BY FrontType
      <3>4. Len(stack) = 1
        BY <3>3 DEF Stacked, Front
      <3> QED BY <3>2, <3>3, <3>4 DEF Front
    <2>9. Mounted(Front)
      BY FrontType DEF Mounted, Front
    <2>10. Pending'
      BY <2>1, <2>2, <2>4, <2>6, <2>8, <2>9 DEF Pending, Mounted
    <2>11. Held'
      BY <2>2, <2>6, HeldAsBefore, SameStack
    <2> QED BY <2>5, <2>6, <2>7, <2>10, <2>11
  <1>2. CASE Pick \/ Quit \/ Over \/ UNCHANGED vars
    <2>1. UNCHANGED <<stack, spinner, running, workers, snapshot, pressed>> /\ app' \in {"up", "quit"}
          /\ picked' \in BOOLEAN
      BY <1>2 DEF Pick, Quit, Over, vars, ScreensTypeOK
    <2>2. Stacked' /\ Front' = Front /\ NextWorker' = NextWorker /\ Migrations' = Migrations
      BY <2>1, SameStack, SameWorkers
    <2>3. ScreensTypeOK'
      BY <2>1 DEF ScreensTypeOK
    <2>4. Started'
      BY <2>1, <2>2 DEF Started
    <2>5. Pending'
      BY <2>1, <2>2 DEF Pending, Mounted
    <2>6. Held'
      BY <2>1, <2>2, HeldAsBefore, SameStack
    <2> QED BY <2>2, <2>3, <2>4, <2>5, <2>6
  <1>3. CASE AddOrClear \/ RefuseScan \/ SaveBaseline
    <2>1. UNCHANGED <<app, stack, picked, running, workers>> /\ pressed' = Nothing
          /\ spinner' \in BOOLEAN
      BY <1>3 DEF AddOrClear, RefuseScan, SaveBaseline, Handle, ShowScanError, ScreensTypeOK
    <2>2. snapshot' \in Nat
      BY <1>3 DEF AddOrClear, RefuseScan, SaveBaseline, ScreensTypeOK, Screens
    <2>3. Stacked' /\ NextWorker' = NextWorker /\ Migrations' = Migrations
      BY <2>1, SameStack, SameWorkers
    <2>4. ScreensTypeOK'
      BY <2>1, <2>2, Handled DEF ScreensTypeOK
    <2>5. Started'
      BY <2>1, <2>3, Handled DEF Started
    <2>6. Held'
      BY <2>1, <2>3, HeldAsBefore, SameStack
    <2> QED BY <2>1, <2>3, <2>4, <2>5, <2>6, Handled
  <1>4. CASE StartScan
    <2>1. UNCHANGED <<app, stack, picked, running, snapshot>> /\ pressed' = Nothing /\ spinner' = TRUE
      BY <1>4 DEF StartScan, Handle
    <2>2. PICK kind \in {"scan", "verify"} : Start(kind, ScanScreen) /\ pressed.button = kind
      BY <1>4 DEF StartScan, Handle
    <2>3. NextWorker \in Workers
      BY <2>2 DEF Pending, Started
    <2>4. ScanScreen \in Screens
      BY FrontType
    <2>5. /\ workers' \in [Workers -> [kind : Kinds, on : Screens,
                                         step : {"none", "working", "calling", "ended"},
                                         calls : Callbacks, whole : BOOLEAN]]
          /\ \A w \in Workers : w # NextWorker => workers'[w] = workers[w]
          /\ workers'[NextWorker].kind = kind
          /\ workers[NextWorker].step = "none"
          /\ NextWorker' = NextWorker + 1
          /\ \A w \in Workers : workers'[w].step # "none" <=> w < NextWorker'
      BY <2>2, <2>3, <2>4, StartOne
    <2>6. ScreensTypeOK'
      BY <2>1, <2>5, Handled DEF ScreensTypeOK
    <2>7. Started'
      BY <2>1, <2>5, StartedAfter, NextWorkerType
    <2>8. \A w \in Workers : w \in Migrations' <=> w \in Migrations
      <3> SUFFICES ASSUME NEW w \in Workers PROVE w \in Migrations' <=> w \in Migrations
        OBVIOUS
      <3>1. CASE w = NextWorker
        BY <2>2, <2>5, <3>1 DEF Migrations, Live
      <3>2. CASE w # NextWorker
        BY <2>5, <3>2 DEF Migrations, Live
      <3> QED BY <3>1, <3>2
    <2>9. Migrations' = Migrations /\ \A w \in Migrations : workers'[w].on = workers[w].on
      <3>1. NextWorker \notin Migrations
        BY <2>5 DEF Migrations, Live
      <3> QED BY <2>5, <2>8, <3>1 DEF Migrations, Live
    <2>10. Held'
      BY <2>1, <2>9, HeldAsBefore, SameStack
    <2> QED BY <2>1, <2>6, <2>7, <2>10, Handled, SameStack
  <1>5. CASE OpenMigrate
    <2>1. UNCHANGED <<app, picked, workers, snapshot>> /\ pressed' = Nothing /\ ~running
          /\ spinner' \in BOOLEAN
      BY <1>5 DEF OpenMigrate, Handle, Pending, ShowScanError, ScreensTypeOK
    <2>2. CASE ~picked
      <3>1. UNCHANGED <<stack, running>>
        BY <1>5, <2>2 DEF OpenMigrate
      <3>2. Stacked' /\ NextWorker' = NextWorker /\ Migrations' = Migrations
        BY <2>1, <3>1, SameStack, SameWorkers
      <3>3. ScreensTypeOK'
        BY <2>1, <3>1, Handled DEF ScreensTypeOK
      <3>4. Started'
        BY <2>1, <3>2, Handled DEF Started
      <3>5. Held'
        BY <2>1, <3>1, <3>2, HeldAsBefore, SameStack
      <3> QED BY <2>1, <3>2, <3>3, <3>4, <3>5, Handled
    <2>3. CASE picked
      <3> DEFINE s == Screen("migrate", NextWorker)
      <3>1. stack' = Append(stack, s) /\ running' = FALSE
        BY <1>5, <2>3 DEF OpenMigrate
      <3>2. s \in Screens /\ s.kind # "scan"
        BY NextWorkerType DEF Screen, Screens
      <3> HIDE DEF s
      <3>3. stack' \in Seq(Screens) /\ Stacked'
        BY <3>1, <3>2, Push
      <3>4. NextWorker' = NextWorker /\ Migrations' = Migrations
        BY <2>1, SameWorkers
      <3>5. ScreensTypeOK'
        BY <2>1, <3>1, <3>3, Handled DEF ScreensTypeOK
      <3>6. Started'
        BY <2>1, <3>4, Handled DEF Started
      <3>7. Held'
        BY <2>1, <3>1, <3>4 DEF Held
      <3> QED BY <2>1, <3>3, <3>5, <3>6, <3>7, Handled
    <2> QED BY <2>2, <2>3
  <1>6. CASE RunMigration
    <2>1. /\ UNCHANGED <<app, stack, picked, spinner, snapshot>> /\ pressed' = Nothing /\ ~running
          /\ pressed.on.kind = "migrate" /\ Mounted(pressed.on) /\ pressed.on \in Screens
          /\ NextWorker \in Workers
      BY <1>6 DEF RunMigration, Handle, Pending, Started, ScreensTypeOK
    <2>2. Migrations = {}
      BY <2>1 DEF Held
    <2>3. CASE running' = FALSE /\ UNCHANGED workers
      <3>1. Stacked' /\ NextWorker' = NextWorker /\ Migrations' = Migrations
        BY <2>1, <2>3, SameStack, SameWorkers
      <3>2. ScreensTypeOK'
        BY <2>1, <2>3, Handled DEF ScreensTypeOK
      <3>3. Started'
        BY <2>1, <2>3, <3>1, Handled DEF Started
      <3>4. Held'
        BY <2>2, <2>3, <3>1 DEF Held
      <3> QED BY <2>1, <3>1, <3>2, <3>3, <3>4, Handled
    <2>4. CASE running' = TRUE /\ Start("migrate", pressed.on)
      <3>1. PICK on \in Screens : on = pressed.on
        BY <2>1
      <3>2. /\ workers' \in [Workers -> [kind : Kinds, on : Screens,
                                         step : {"none", "working", "calling", "ended"},
                                         calls : Callbacks, whole : BOOLEAN]]
            /\ \A w \in Workers : w # NextWorker => workers'[w] = workers[w]
            /\ workers'[NextWorker].kind = "migrate" /\ workers'[NextWorker].on = on
            /\ workers'[NextWorker].step = "working"
            /\ NextWorker' = NextWorker + 1
            /\ \A w \in Workers : workers'[w].step # "none" <=> w < NextWorker'
        BY <2>1, <2>4, <3>1, StartOne
      <3>3. ScreensTypeOK'
        BY <2>1, <2>4, <3>2, Handled DEF ScreensTypeOK
      <3>4. Started'
        BY <2>1, <3>2, StartedAfter, NextWorkerType
      <3>5. PICK n \in Workers : n = NextWorker
        BY <2>1
      <3>6. Migrations' = {n}
        BY <2>2, <3>2, <3>5 DEF Migrations, Live
      <3>7. workers'[n].on = on /\ on.kind = "migrate" /\ Mounted(on)'
        BY <2>1, <3>1, <3>2, <3>5, SameStack
      <3>8. (\A w \in Migrations : workers[w].on.kind = "migrate" /\ Mounted(workers[w].on))'
        BY <3>6, <3>7 DEF Mounted
      <3>9. Held'
        BY <2>4, <3>6, <3>8 DEF Held, Workers
      <3> QED BY <2>1, <3>3, <3>4, <3>9, Handled, SameStack
    <2> QED BY <1>6, <2>3, <2>4 DEF RunMigration
  <1>7. CASE Back
    <2>1. /\ UNCHANGED <<app, picked, running, workers, snapshot>> /\ pressed' = Nothing
          /\ pressed.on.kind # "scan" /\ (Front = pressed.on \/ Front.kind \in {"results", "verify"})
      BY <1>7 DEF Back, Handle, Pending
    <2>2. NextWorker' = NextWorker /\ Migrations' = Migrations
      BY <2>1, SameWorkers
    <2>3. CASE pressed.on.kind = "migrate" /\ running
      <3>1. UNCHANGED <<stack, spinner>>
        BY <1>7, <2>3 DEF Back
      <3>2. ScreensTypeOK'
        BY <2>1, <3>1, Handled DEF ScreensTypeOK
      <3>3. Started'
        BY <2>1, <2>2, Handled DEF Started
      <3>4. Held'
        BY <2>1, <2>2, <3>1, HeldAsBefore, SameStack
      <3> QED BY <2>1, <3>1, <3>2, <3>3, <3>4, Handled, SameStack
    <2>4. CASE ~ (pressed.on.kind = "migrate" /\ running)
      <3>1. PopScreen
        BY <1>7, <2>4 DEF Back
      <3>2. Front.kind # "scan"
        BY <2>1
      <3>3. /\ stack' \in Seq(Screens) /\ Stacked' /\ spinner' \in BOOLEAN
            /\ \A t \in Screens : Mounted(t) /\ t # Front => Mounted(t)'
        BY <3>1, <3>2, Pop
      <3>4. ScreensTypeOK'
        BY <2>1, <3>3, Handled DEF ScreensTypeOK
      <3>5. Started'
        BY <2>1, <2>2, Handled DEF Started
      <3>6. running => Front.kind # "migrate"
        BY <2>1, <2>4
      <3>7. ~running => Migrations = {}
        BY DEF Held
      <3>8. Held'
        BY <2>1, <2>2, <3>3, <3>6, <3>7, HeldAsBefore
      <3> QED BY <2>1, <3>3, <3>4, <3>5, <3>8, Handled
    <2> QED BY <2>3, <2>4
  <1> QED BY <1>1, <1>2, <1>3, <1>4, <1>5, <1>6, <1>7 DEF Handlers

\* The workers and the calls they make.
LEMMA WorkerStep ==
    ASSUME ScreensInv, NEW w \in Workers, Progress(w) \/ WorkEnds(w) \/ Callback(w)
    PROVE  ScreensInv'
  <1> USE DEF ScreensInv
  <1>0. ScreensTypeOK /\ Stacked /\ Started /\ Pending /\ Held
    OBVIOUS
  <1>a. /\ workers[w].step \in {"working", "calling"} /\ workers[w].kind \in Kinds
        /\ workers[w].calls \in Callbacks /\ workers[w].whole \in BOOLEAN
    BY DEF Progress, WorkEnds, Callback, ShowProgress, ShowResults, ScanFails, ShowMigration, Called,
           ScreensTypeOK
  <1>b. w \in Migrations <=> workers[w].kind = "migrate"
    BY <1>a DEF Migrations, Live
  \* The worker goes on, and the screens stay.
  <1>1. CASE Progress(w) \/ WorkEnds(w) \/ ShowProgress(w)
    <2>1. UNCHANGED <<app, stack, picked, spinner, running, pressed, snapshot>>
      BY <1>1 DEF Progress, WorkEnds, ShowProgress
    <2>2. PICK step \in {"working", "calling"}, calls \in Callbacks, whole \in BOOLEAN :
            workers' = [workers EXCEPT ![w] = [@ EXCEPT !.step = step, !.calls = calls, !.whole = whole]]
      <3>1. CASE Progress(w)
        <4>1. workers' = [workers EXCEPT ![w] =
                            [@ EXCEPT !.step = "calling", !.calls = "progress", !.whole = workers[w].whole]]
          BY <3>1 DEF Progress, Calls, ScreensTypeOK
        <4> QED BY <1>a, <4>1 DEF Callbacks
      <3>2. CASE WorkEnds(w)
        <4>1. PICK calls \in {"result", "error", "crash"}, whole \in BOOLEAN :
                workers' = [Calls(w, calls) EXCEPT ![w].whole = whole]
          BY <3>2 DEF WorkEnds
        <4>2. workers' = [workers EXCEPT ![w] =
                            [@ EXCEPT !.step = "calling", !.calls = calls, !.whole = whole]]
          BY <4>1 DEF Calls, ScreensTypeOK
        <4> QED BY <4>2 DEF Callbacks
      <3>3. CASE ShowProgress(w)
        <4>1. workers' = [workers EXCEPT ![w] =
                            [@ EXCEPT !.step = "working", !.calls = workers[w].calls, !.whole = workers[w].whole]]
          BY <3>3 DEF ShowProgress, ScreensTypeOK
        <4> QED BY <1>a, <4>1
      <3> QED BY <1>1, <3>1, <3>2, <3>3
    <2>3. /\ workers' \in [Workers -> [kind : Kinds, on : Screens,
                                         step : {"none", "working", "calling", "ended"},
                                         calls : Callbacks, whole : BOOLEAN]]
          /\ \A v \in Workers : v # w => workers'[v] = workers[v]
          /\ workers'[w].kind = workers[w].kind /\ workers'[w].on = workers[w].on
          /\ workers'[w].step = step
          /\ NextWorker' = NextWorker
          /\ \A v \in Workers : workers'[v].step # "none" <=> workers[v].step # "none"
      BY <1>a, <2>2, GoesOn
    <2>4. Migrations' = Migrations /\ \A v \in Migrations : workers'[v].on = workers[v].on
      <3>1. ASSUME NEW v \in Workers PROVE v \in Migrations' <=> v \in Migrations
        <4>1. CASE v = w
          BY <1>a, <2>3, <4>1 DEF Migrations, Live
        <4>2. CASE v # w
          BY <2>3, <4>2 DEF Migrations, Live
        <4> QED BY <4>1, <4>2
      <3>2. ASSUME NEW v \in Workers PROVE workers'[v].on = workers[v].on
        BY <2>3
      <3> QED BY <3>1, <3>2 DEF Migrations, Live
    <2>5. ScreensTypeOK'
      BY <2>1, <2>3 DEF ScreensTypeOK
    <2>6. Started'
      BY <2>1, <2>3 DEF Started
    <2>7. Stacked' /\ Pending'
      BY <2>1, SameStack DEF Pending, Mounted
    <2>8. Held'
      BY <2>1, <2>4, HeldAsBefore, SameStack
    <2> QED BY <2>5, <2>6, <2>7, <2>8
  \* The worker ends.
  <1>2. CASE ShowResults(w) \/ ScanFails(w) \/ ShowMigration(w)
    <2>1. UNCHANGED <<app, picked, pressed, snapshot>> /\ workers' = Ends(w)
          /\ spinner' \in BOOLEAN
      BY <1>2 DEF ShowResults, ScanFails, ShowMigration, ShowScanError, ScreensTypeOK
    <2>2. workers' = [workers EXCEPT ![w] =
                        [@ EXCEPT !.step = "ended", !.calls = workers[w].calls, !.whole = workers[w].whole]]
      BY <2>1 DEF Ends, ScreensTypeOK
    <2>3. /\ workers' \in [Workers -> [kind : Kinds, on : Screens,
                                         step : {"none", "working", "calling", "ended"},
                                         calls : Callbacks, whole : BOOLEAN]]
          /\ \A v \in Workers : v # w => workers'[v] = workers[v]
          /\ workers'[w].step = "ended"
          /\ NextWorker' = NextWorker
          /\ \A v \in Workers : workers'[v].step # "none" <=> workers[v].step # "none"
      BY <1>a, <2>2, GoesOn
    <2>4. Started'
      BY <2>1, <2>3 DEF Started
    <2>5. \A v \in Workers : v \in Migrations' <=> v \in Migrations /\ v # w
      <3> SUFFICES ASSUME NEW v \in Workers PROVE v \in Migrations' <=> v \in Migrations /\ v # w
        OBVIOUS
      <3>1. CASE v = w
        BY <2>3, <3>1 DEF Migrations, Live
      <3>2. CASE v # w
        BY <2>3, <3>2 DEF Migrations, Live
      <3> QED BY <3>1, <3>2
    <2>6. Migrations' = Migrations \ {w}
      BY <2>5 DEF Migrations, Live
    <2>7. CASE ShowMigration(w)
      <3>1. running' = FALSE /\ UNCHANGED stack /\ w \in Migrations
        BY <1>b, <2>7 DEF ShowMigration
      <3>2. Migrations' = {}
        BY <2>6, <3>1 DEF Held
      <3>3. Held'
        BY <3>1, <3>2 DEF Held
      <3>4. ScreensTypeOK'
        BY <2>1, <2>3, <3>1 DEF ScreensTypeOK
      <3>5. Stacked' /\ Pending'
        BY <2>1, <3>1, SameStack DEF Pending, Mounted
      <3> QED BY <2>4, <3>3, <3>4, <3>5
    <2>8. CASE ScanFails(w)
      <3>1. UNCHANGED <<stack, running>> /\ w \notin Migrations
        BY <1>b, <2>8 DEF ScanFails
      <3>2. Migrations' = Migrations /\ \A v \in Migrations : workers'[v].on = workers[v].on
        BY <2>3, <2>6, <3>1 DEF Migrations, Live
      <3>3. Held'
        BY <3>1, <3>2, HeldAsBefore, SameStack
      <3>4. ScreensTypeOK'
        BY <2>1, <2>3, <3>1 DEF ScreensTypeOK
      <3>5. Stacked' /\ Pending'
        BY <2>1, <3>1, SameStack DEF Pending, Mounted
      <3> QED BY <2>4, <3>3, <3>4, <3>5
    <2>9. CASE ShowResults(w)
      <3>1. UNCHANGED <<spinner, running>> /\ w \notin Migrations
        BY <1>b, <2>9 DEF ShowResults
      <3>2. PICK s \in Screens : stack' = Append(stack, s) /\ s.kind \in {"results", "verify"}
        <4>1. \A kind \in {"results", "verify"} :
                 Screen(kind, w) \in Screens /\ Screen(kind, w).kind = kind
          BY DEF Screen, Screens, Workers
        <4> QED BY <2>9, <4>1 DEF ShowResults
      <3>3. /\ stack' \in Seq(Screens) /\ Stacked' /\ Front' = s
            /\ \A t \in Screens : Mounted(t) => Mounted(t)'
        BY <3>2, Push
      <3>4. Migrations' = Migrations /\ \A v \in Migrations : workers'[v].on = workers[v].on
        BY <2>3, <2>6, <3>1 DEF Migrations, Live
      <3>5. Held'
        BY <3>1, <3>3, <3>4, HeldAsBefore
      <3>6. ScreensTypeOK'
        BY <2>1, <2>3, <3>1, <3>3 DEF ScreensTypeOK
      <3>7. pressed.on \in Screens
        BY DEF ScreensTypeOK
      <3>8. PICK t \in Screens : t = pressed.on /\ (pressed.button = "run" => Mounted(t)')
        BY <3>3, <3>7 DEF Pending
      <3>9. Pending'
        <4>1. pressed' = pressed /\ running' = running
          BY <2>1, <3>1
        <4>2. pressed.button = "run" => Mounted(pressed.on)'
          BY <3>8, <4>1 DEF Mounted
        <4>3. Front'.kind \in {"results", "verify"}
          BY <3>2, <3>3
        <4> QED BY <4>1, <4>2, <4>3 DEF Pending
      <3> QED BY <2>4, <3>3, <3>5, <3>6, <3>9
    <2> QED BY <1>2, <2>7, <2>8, <2>9
  <1> QED BY <1>1, <1>2 DEF Callback

LEMMA ScreensAlways == Spec => []ScreensInv
  <1>1. ScreensInv /\ [Next]_vars => ScreensInv'
    BY UserStep, WorkerStep DEF Next
  <1> QED BY <1>1, ScreensInit, PTL DEF Spec

\* One migration runs at a time, its screen holds the user until it is over, and is there for it
\* to report to, whatever else is pressed, scanned and pushed over it meanwhile (action_back,
\* _run_migration, call_from_thread), with any number of workers.
THEOREM MigrationHasItsScreen == Spec => []RunHasItsScreen
  <1>1. ScreensInv => RunHasItsScreen
    <2> SUFFICES ASSUME ScreensInv PROVE RunHasItsScreen
      OBVIOUS
    <2>1. Held
      BY DEF ScreensInv
    <2>2. CASE running
      <3>1. PICK w \in Workers : Migrations = {w}
        BY <2>1, <2>2 DEF Held
      <3>2. Cardinality({w}) = 1
        BY FS_Singleton
      <3> QED BY <2>1, <2>2, <3>1, <3>2 DEF Held, RunHasItsScreen
    <2>3. CASE ~running
      <3>1. Migrations = {}
        BY <2>1, <2>3 DEF Held
      <3> QED BY <2>3, <3>1, FS_EmptySet DEF RunHasItsScreen
    <2> QED BY <2>2, <2>3
  <1> QED BY <1>1, ScreensAlways, PTL
-----------------------------------------------------------------------------
(* The command line.  For each mode, the options its checks refuse are those *)
(* it would not act on, given that no mode before it was asked for; and no   *)
(* mode after it, nor the scan, acts on the option that asks for it.         *)

\* The modes in the order they are asked for, by name.
LEMMA ModesByName ==
    /\ DOMAIN Modes = 1 .. 9
    /\ Modes[1] = "set_lang" /\ Modes[2] = "tui" /\ Modes[3] = "explain" /\ Modes[4] = "migrate"
    /\ Modes[5] = "load_check" /\ Modes[6] = "verify" /\ Modes[7] = "prepare" /\ Modes[8] = "fix"
    /\ Modes[9] = "write"
  BY DEF Modes

LEMMA SmallestOf == ASSUME NEW S \in SUBSET Nat, S # {} PROVE \E n \in S : \A m \in S : n <= m
<1> DEFINE Less == OpToRel(<, Nat)
<1>1. Less = {ss \in Nat \X Nat : ss[1] < ss[2]}
  BY Zenon DEF OpToRel
<1>2. IsWellFoundedOn(Less, Nat)
  BY NatLessThanWellFounded, Zenon
<1> HIDE DEF Less
<1>3. PICK n \in S : \A m \in S : ~ (<<m, n>> \in Less)
  BY <1>2, WFMin, Zenon
<1>4. \A m, k \in Nat : m < k => <<m, k>> \in Less
  BY <1>1
<1>5. \A m \in S : ~ (m < n)
  BY <1>3, <1>4
<1> QED BY <1>5

\* ModeAsked is the first mode that is asked for, or the scan.
LEMMA FirstAsked ==
    \/ ModeAsked = "scan" /\ \A k \in 1 .. 9 : Modes[k] \notin given
    \/ \E k \in 1 .. 9 : /\ Modes[k] \in given /\ ModeAsked = Modes[k]
                         /\ \A j \in 1 .. k - 1 : Modes[j] \notin given
  <1> DEFINE asked == {k \in DOMAIN Modes : Modes[k] \in given}
  <1>1. asked = {k \in 1 .. 9 : Modes[k] \in given}
    BY ModesByName
  <1>2. CASE asked = {}
    BY <1>1, <1>2 DEF ModeAsked
  <1>3. CASE asked # {}
    <2> HIDE DEF asked
    <2>1. asked \in SUBSET Nat
      BY <1>1
    <2>2. \E k \in asked : \A j \in asked : k <= j
      BY <1>3, <2>1, SmallestOf
    <2>3. PICK k \in asked : k = Min(asked) /\ \A j \in asked : k <= j
      BY <2>2, Zenon DEF Min
    <2>4. ModeAsked = Modes[k]
      BY <1>3, <2>3 DEF ModeAsked, asked
    <2>5. k \in 1 .. 9 /\ Modes[k] \in given
      BY <1>1
    <2>6. \A j \in 1 .. k - 1 : j \in 1 .. 9 /\ j \notin asked
      BY <2>1, <2>3, <2>5
    <2> QED BY <1>1, <2>4, <2>5, <2>6
  <1> QED BY <1>2, <1>3

-----------------------------------------------------------------------------

Acting == {"tui", "explain", "migrate", "load_check", "verify", "prepare", "fix", "scan"}
Able(m) == Weighty \subseteq ActsOn[m] /\ Needs(m)

LEMMA OptionsByName ==
    Options = {"set_lang", "tui", "explain", "migrate", "load_check", "verify", "prepare", "fix", "write",
               "path", "paths", "format terminal", "format json", "format csv",
               "output .json", "output .csv", "output .log",
               "pg_version", "ora2pg_bin", "keep_ora2pg_types",
               "save", "baseline", "baseline = save", "fail_on", "check_connect_by", "severity", "object",
               "dialect"}
  <1>1. ModeOptions = {"set_lang", "tui", "explain", "migrate", "load_check", "verify", "prepare", "fix", "write"}
    <2>1. ASSUME NEW k \in 1 .. 9 PROVE k \in {1, 2, 3, 4, 5, 6, 7, 8, 9}
      OBVIOUS
    <2> QED BY <2>1, ModesByName DEF ModeOptions
  <1> QED BY <1>1 DEF Options, Paths, Formats, Outputs, Settings

LEMMA ActsOnByName ==
    /\ DOMAIN ActsOn = Acting
    /\ ActsOn["tui"] = {"tui", "path"}
    /\ ActsOn["explain"] = {"explain"}
    /\ ActsOn["migrate"] = {"migrate", "load_check", "dialect", "path", "paths"}
    /\ ActsOn["load_check"] = {"load_check", "dialect", "format terminal", "format json", "path", "paths",
                               "output .json", "output .csv", "output .log"}
    /\ ActsOn["verify"] = {"verify", "dialect", "format terminal", "format json", "baseline",
                           "baseline = save", "path", "paths", "output .json", "output .csv", "output .log"}
    /\ ActsOn["prepare"] = {"prepare", "write", "dialect", "path", "paths"}
    /\ ActsOn["fix"] = {"fix", "write", "dialect", "path", "paths"}
    /\ ActsOn["scan"] = {"save", "check_connect_by", "severity", "object", "fail_on", "baseline", "dialect",
                         "path", "paths", "format terminal", "format json", "format csv",
                         "output .json", "output .csv", "output .log"}
  BY DEF ActsOn, Acting, Paths, Outputs, BaselineOptions, ScanShaping, Reporting, Formats

(* A mode that is the first to be asked for is refused exactly when it could not act on all of *)
(* the command line.                                                                           *)

LEMMA ExactTui ==
    ASSUME given \subseteq Options, "tui" \in given, given \cap {"set_lang"} = {}
    PROVE  Refused("tui") <=> ~Able("tui")
  <1> USE DEF TuiConflicts, ExplainConflicts, ScanShaping, BaselineOptions, Rewriting, Reporting, Formats, Outputs, Paths
  <1>1. Refused("tui") <=> (\E o \in TuiConflicts : o \in given)
    BY DEF Refused, Has
  <1>2. Needs("tui") <=> TRUE
    BY DEF Needs, NoPaths
  <1>4. ASSUME \A o \in TuiConflicts : o \notin given, NEW o \in Weighty
        PROVE  o \in ActsOn["tui"]
    BY <1>4, OptionsByName, ActsOnByName DEF Weighty, Settings
  <1>5. ASSUME NEW o \in TuiConflicts, o \in given
        PROVE  o \in Weighty /\ o \notin ActsOn["tui"]
    BY <1>5, ActsOnByName DEF Weighty, Settings
  <1> HIDE DEF TuiConflicts, ExplainConflicts, ScanShaping, BaselineOptions, Rewriting, Reporting, Formats, Outputs, Paths
  <1> QED BY <1>1, <1>2, <1>4, <1>5 DEF Able

LEMMA ExactExplain ==
    ASSUME given \subseteq Options, "explain" \in given, given \cap {"set_lang", "tui"} = {}
    PROVE  Refused("explain") <=> ~Able("explain")
  <1> USE DEF ExplainConflicts, ScanShaping, BaselineOptions, Rewriting, Reporting, Formats, Outputs, Paths
  <1>1. Refused("explain") <=> (\E o \in ExplainConflicts : o \in given)
    BY DEF Refused, Has
  <1>2. Needs("explain") <=> TRUE
    BY DEF Needs, NoPaths
  <1>4. ASSUME \A o \in ExplainConflicts : o \notin given, NEW o \in Weighty
        PROVE  o \in ActsOn["explain"]
    BY <1>4, OptionsByName, ActsOnByName DEF Weighty, Settings
  <1>5. ASSUME NEW o \in ExplainConflicts, o \in given
        PROVE  o \in Weighty /\ o \notin ActsOn["explain"]
    BY <1>5, ActsOnByName DEF Weighty, Settings
  <1> HIDE DEF ExplainConflicts, ScanShaping, BaselineOptions, Rewriting, Reporting, Formats, Outputs, Paths
  <1> QED BY <1>1, <1>2, <1>4, <1>5 DEF Able

LEMMA ExactMigrate ==
    ASSUME given \subseteq Options, "migrate" \in given, given \cap {"set_lang", "tui", "explain"} = {}
    PROVE  Refused("migrate") <=> ~Able("migrate")
  <1> USE DEF MigrateConflicts, ScanShaping, BaselineOptions, Rewriting, Reporting, Formats, Outputs
  <1>1. Refused("migrate") <=> (\E o \in MigrateConflicts : o \in given) \/ NoPaths
    BY DEF Refused, Has
  <1>2. Needs("migrate") <=> ~NoPaths
    BY DEF Needs, NoPaths
  <1>4. ASSUME \A o \in MigrateConflicts : o \notin given, NEW o \in Weighty
        PROVE  o \in ActsOn["migrate"]
    BY <1>4, OptionsByName, ActsOnByName DEF Weighty, Settings
  <1>5. ASSUME NEW o \in MigrateConflicts, o \in given
        PROVE  o \in Weighty /\ o \notin ActsOn["migrate"]
    BY <1>5, ActsOnByName DEF Weighty, Settings
  <1> HIDE DEF MigrateConflicts, ScanShaping, BaselineOptions, Rewriting, Reporting, Formats, Outputs
  <1> QED BY <1>1, <1>2, <1>4, <1>5 DEF Able

LEMMA ExactLoadCheck ==
    ASSUME given \subseteq Options, "load_check" \in given, given \cap {"set_lang", "tui", "explain", "migrate"} = {}
    PROVE  Refused("load_check") <=> ~Able("load_check")
  <1> USE DEF LoadCheckConflicts, ScanShaping, BaselineOptions, Rewriting, Formats
  <1>1. Refused("load_check") <=> (\E o \in LoadCheckConflicts : o \in given) \/ NoPaths \/ Unsupported
    BY DEF Refused, Has
  <1>2. Needs("load_check") <=> ~NoPaths
    BY DEF Needs, NoPaths
  <1>3. Unsupported <=> "format csv" \in given
    BY DEF Unsupported, Has
  <1>4. ASSUME \A o \in LoadCheckConflicts : o \notin given, "format csv" \notin given, NEW o \in Weighty
        PROVE  o \in ActsOn["load_check"]
    BY <1>4, OptionsByName, ActsOnByName DEF Weighty, Settings
  <1>5. ASSUME NEW o \in (LoadCheckConflicts \cup {"format csv"}), o \in given
        PROVE  o \in Weighty /\ o \notin ActsOn["load_check"]
    BY <1>5, ActsOnByName DEF Weighty, Settings
  <1> HIDE DEF LoadCheckConflicts, ScanShaping, BaselineOptions, Rewriting, Formats
  <1> QED BY <1>1, <1>2, <1>3, <1>4, <1>5 DEF Able

LEMMA ExactVerify ==
    ASSUME given \subseteq Options, "verify" \in given, given \cap {"set_lang", "tui", "explain", "migrate", "load_check"} = {}
    PROVE  Refused("verify") <=> ~Able("verify")
  <1> USE DEF VerifyConflicts, ScanShaping, Rewriting, Formats
  <1>1. Refused("verify") <=> (\E o \in VerifyConflicts : o \in given) \/ ~Has(BaselineOptions) \/ NoPaths \/ Unsupported
    BY DEF Refused, Has
  <1>2. Needs("verify") <=> Has(BaselineOptions) /\ ~NoPaths
    BY DEF Needs, NoPaths
  <1>3. Unsupported <=> "format csv" \in given
    BY DEF Unsupported, Has
  <1>4. ASSUME \A o \in VerifyConflicts : o \notin given, "format csv" \notin given, NEW o \in Weighty
        PROVE  o \in ActsOn["verify"]
    BY <1>4, OptionsByName, ActsOnByName DEF Weighty, Settings
  <1>5. ASSUME NEW o \in (VerifyConflicts \cup {"format csv"}), o \in given
        PROVE  o \in Weighty /\ o \notin ActsOn["verify"]
    BY <1>5, ActsOnByName DEF Weighty, Settings
  <1> HIDE DEF VerifyConflicts, ScanShaping, Rewriting, Formats
  <1> QED BY <1>1, <1>2, <1>3, <1>4, <1>5 DEF Able

LEMMA ExactPrepare ==
    ASSUME given \subseteq Options, "prepare" \in given, given \cap {"set_lang", "tui", "explain", "migrate", "load_check", "verify"} = {}
    PROVE  Refused("prepare") <=> ~Able("prepare")
  <1> USE DEF FixConflicts, ScanShaping, BaselineOptions, Reporting, Formats, Outputs
  <1>1. Refused("prepare") <=> (\E o \in ({"fix"} \cup FixConflicts) : o \in given) \/ NoPaths
    BY DEF Refused, Has
  <1>2. Needs("prepare") <=> ~NoPaths
    BY DEF Needs, NoPaths
  <1>4. ASSUME \A o \in ({"fix"} \cup FixConflicts) : o \notin given, NEW o \in Weighty
        PROVE  o \in ActsOn["prepare"]
    BY <1>4, OptionsByName, ActsOnByName DEF Weighty, Settings
  <1>5. ASSUME NEW o \in ({"fix"} \cup FixConflicts), o \in given
        PROVE  o \in Weighty /\ o \notin ActsOn["prepare"]
    BY <1>5, ActsOnByName DEF Weighty, Settings
  <1> HIDE DEF FixConflicts, ScanShaping, BaselineOptions, Reporting, Formats, Outputs
  <1> QED BY <1>1, <1>2, <1>4, <1>5 DEF Able

LEMMA ExactFix ==
    ASSUME given \subseteq Options, "fix" \in given, given \cap {"set_lang", "tui", "explain", "migrate", "load_check", "verify", "prepare"} = {}
    PROVE  Refused("fix") <=> ~Able("fix")
  <1> USE DEF FixConflicts, ScanShaping, BaselineOptions, Reporting, Formats, Outputs
  <1>1. Refused("fix") <=> (\E o \in FixConflicts : o \in given) \/ NoPaths
    BY DEF Refused, Has
  <1>2. Needs("fix") <=> ~NoPaths
    BY DEF Needs, NoPaths
  <1>4. ASSUME \A o \in FixConflicts : o \notin given, NEW o \in Weighty
        PROVE  o \in ActsOn["fix"]
    <2>1. o \in given /\ o \notin FixConflicts
      BY <1>4 DEF Weighty
    <2>2. o \notin {"set_lang", "tui", "explain", "migrate", "load_check", "verify", "prepare"}
      BY <2>1
    <2>3. o \notin Settings /\ o \in Options
      BY <2>1 DEF Weighty
    <2>4. o \in {"fix", "write", "dialect", "path", "paths"}
      BY <2>1, <2>2, <2>3, OptionsByName DEF Settings
    <2> QED BY <2>4, ActsOnByName
  <1>5. ASSUME NEW o \in FixConflicts, o \in given
        PROVE  o \in Weighty /\ o \notin ActsOn["fix"]
    BY <1>5, ActsOnByName DEF Weighty, Settings
  <1> HIDE DEF FixConflicts, ScanShaping, BaselineOptions, Reporting, Formats, Outputs
  <1> QED BY <1>1, <1>2, <1>4, <1>5 DEF Able

LEMMA ExactScan ==
    ASSUME given \subseteq Options, \A k \in 1 .. 9 : Modes[k] \notin given
    PROVE  Refused("scan") <=> ~Able("scan")
  <1>1. \A o \in given : o \notin {"set_lang", "tui", "explain", "migrate", "load_check", "verify", "prepare",
                                  "fix", "write"}
    BY ModesByName
  <1>2. Refused("scan") <=> \/ NoPaths
                            \/ {"check_connect_by", "dialect"} \subseteq given
                            \/ "baseline = save" \in given
    BY DEF Refused
  <1>3. Needs("scan") <=> ~NoPaths /\ ~({"check_connect_by", "dialect"} \subseteq given)
    BY DEF Needs, NoPaths
  <1>4. ASSUME "baseline = save" \notin given, NEW o \in Weighty
        PROVE  o \in ActsOn["scan"]
    BY <1>1, <1>4, OptionsByName, ActsOnByName DEF Weighty, Settings
  <1>5. "baseline = save" \in given => "baseline = save" \in Weighty /\ "baseline = save" \notin ActsOn["scan"]
    BY ActsOnByName DEF Weighty, Settings
  <1> QED BY <1>2, <1>3, <1>4, <1>5 DEF Able

LEMMA Places == \A k \in 1 .. 9 : k \in {1, 2, 3, 4, 5, 6, 7, 8, 9}
  OBVIOUS

LEMMA ModesDiffer ==
    /\ \A k \in 1 .. 9 : Modes[k] \in ModeOptions /\ Modes[k] \notin {"scan", "refused", "none"}
    /\ \A j, k \in 1 .. 9 : Modes[j] = Modes[k] => j = k
  <1>1. \A k \in 1 .. 9 : Modes[k] \in ModeOptions
    BY ModesByName, Zenon DEF ModeOptions
  <1>2. \A k \in {1, 2, 3, 4, 5, 6, 7, 8, 9} : Modes[k] \notin {"scan", "refused", "none"}
    BY ModesByName
  <1>3. \A j, k \in {1, 2, 3, 4, 5, 6, 7, 8, 9} : Modes[j] = Modes[k] => j = k
    BY ModesByName
  <1> QED BY <1>1, <1>2, <1>3, Places

\* No other mode could act on it: it is not asked for, or does not act on the one that is.
LEMMA NoOther ==
    ASSUME "set_lang" \notin given, NEW k \in 1 .. 9, Modes[k] \in given,
           \A j \in 1 .. k - 1 : Modes[j] \notin given,
           NEW n \in Acting, n # Modes[k]
    PROVE  ~Able(n)
  <1>1. n # "scan" /\ n \notin given => ~Needs(n)
    BY DEF Needs, Acting, Has
  <1>2. Modes[k] \in Weighty
    <2>1. \A i \in {1, 2, 3, 4, 5, 6, 7, 8, 9} : Modes[i] \notin Settings
      BY ModesByName DEF Settings
    <2> QED BY <2>1, Places DEF Weighty
  <1>3. CASE n = "scan"
    <2>1. \A i \in {1, 2, 3, 4, 5, 6, 7, 8, 9} : Modes[i] \notin ActsOn["scan"]
      BY ModesByName, ActsOnByName
    <2> QED BY <1>2, <1>3, <2>1, Places DEF Able
  <1>4. ASSUME NEW i \in 1 .. 9, n = Modes[i], i < k PROVE ~Able(n)
    <2>1. n \notin given /\ n # "scan"
      BY <1>4, ModesDiffer
    <2> QED BY <1>1, <2>1 DEF Able
  <1>5. ASSUME NEW i \in 1 .. 9, n = Modes[i], k < i PROVE ~Able(n)
    <2>1. Modes[k] \notin ActsOn[n]
      <3>2. CASE i \in {1, 2, 3}
        <4>1. k = 2 /\ i = 3
          BY <1>5, <3>2, ModesByName
        <4> QED BY <1>5, <4>1, ModesByName, ActsOnByName
      <3>3. CASE i = 4
        <4>1. k \in {1, 2, 3}
          BY <1>5, <3>3
        <4> QED BY <1>5, <3>3, <4>1, ModesByName, ActsOnByName
      <3>4. CASE i = 5
        <4>1. k \in {1, 2, 3, 4}
          BY <1>5, <3>4
        <4> QED BY <1>5, <3>4, <4>1, ModesByName, ActsOnByName
      <3>5. CASE i = 6
        <4>1. k \in {1, 2, 3, 4, 5}
          BY <1>5, <3>5
        <4> QED BY <1>5, <3>5, <4>1, ModesByName, ActsOnByName
      <3>6. CASE i = 7
        <4>1. k \in {1, 2, 3, 4, 5, 6}
          BY <1>5, <3>6
        <4> QED BY <1>5, <3>6, <4>1, ModesByName, ActsOnByName
      <3>7. CASE i = 8
        <4>1. k \in {1, 2, 3, 4, 5, 6, 7}
          BY <1>5, <3>7
        <4> QED BY <1>5, <3>7, <4>1, ModesByName, ActsOnByName
      <3>8. CASE i = 9
        BY <1>5, <3>8, ModesByName DEF Acting
      <3> QED BY <3>2, <3>3, <3>4, <3>5, <3>6, <3>7, <3>8, Places
    <2> QED BY <1>2, <2>1 DEF Able
  <1>6. n = "scan" \/ \E i \in 1 .. 9 : n = Modes[i]
    BY ModesByName DEF Acting
  <1> QED BY <1>3, <1>4, <1>5, <1>6

LEMMA OneMode ==
    ASSUME given \subseteq Options, "set_lang" \notin given
    PROVE  LET able == {mode \in DOMAIN ActsOn : Weighty \subseteq ActsOn[mode] /\ Needs(mode)}
           IN  IF Refused(ModeAsked) THEN able = {} ELSE able = {ModeAsked}
  <1> DEFINE able == {mode \in DOMAIN ActsOn : Weighty \subseteq ActsOn[mode] /\ Needs(mode)}
  <1> SUFFICES IF Refused(ModeAsked) THEN able = {} ELSE able = {ModeAsked}
    OBVIOUS
  <1>1. \A n : n \in able <=> n \in Acting /\ Able(n)
    BY ActsOnByName DEF Able
  <1>2. CASE ModeAsked = "scan" /\ \A k \in 1 .. 9 : Modes[k] \notin given
    <2>1. Refused("scan") <=> ~Able("scan")
      BY <1>2, ExactScan
    <2>2. \A n \in Acting \ {"scan"} : n \notin given
      BY <1>2, ModesByName DEF Acting
    <2>4. \A n \in Acting \ {"scan"} : ~Able(n)
      BY <2>2 DEF Able, Needs, Acting
    <2>3. "scan" \in Acting
      BY DEF Acting
    <2> HIDE DEF able
    <2> QED BY <1>1, <1>2, <2>1, <2>3, <2>4
  <1>3. ASSUME NEW k \in 1 .. 9, Modes[k] \in given, ModeAsked = Modes[k],
               \A j \in 1 .. k - 1 : Modes[j] \notin given
        PROVE  IF Refused(ModeAsked) THEN able = {} ELSE able = {ModeAsked}
    <2> DEFINE m == Modes[k]
    <2>1. \A n \in Acting : n # m => ~Able(n)
      BY <1>3, NoOther
    <2>2. k # 1
      BY <1>3, ModesByName
    <2>3. \A j \in {1, 2, 3, 4, 5, 6, 7, 8, 9} : j < k => Modes[j] \notin given
      BY <1>3
    <2>4. CASE k = 9
      <3>1. m = "write"
        BY <2>4, ModesByName
      <3>2. Refused("write") /\ "write" \notin Acting
        BY DEF Refused, Acting
      <3> HIDE DEF able
      <3> QED BY <1>1, <1>3, <2>1, <3>1, <3>2
    <2>5. CASE k # 9
      <3>1. Refused(m) <=> ~Able(m)
        <4>2. CASE k = 2
          BY <1>3, <2>3, <4>2, ModesByName, ExactTui
        <4>3. CASE k = 3
          BY <1>3, <2>3, <4>3, ModesByName, ExactExplain
        <4>4. CASE k = 4
          BY <1>3, <2>3, <4>4, ModesByName, ExactMigrate
        <4>5. CASE k = 5
          BY <1>3, <2>3, <4>5, ModesByName, ExactLoadCheck
        <4>6. CASE k = 6
          BY <1>3, <2>3, <4>6, ModesByName, ExactVerify
        <4>7. CASE k = 7
          BY <1>3, <2>3, <4>7, ModesByName, ExactPrepare
        <4>8. CASE k = 8
          BY <1>3, <2>3, <4>8, ModesByName, ExactFix
        <4> QED BY <2>2, <2>5, <4>2, <4>3, <4>4, <4>5, <4>6, <4>7, <4>8
      <3>2. m \in Acting
        BY <2>2, <2>5, ModesByName DEF Acting
      <3> HIDE DEF able, m
      <3>3. ModeAsked = m
        BY <1>3 DEF m
      <3> QED BY <1>1, <2>1, <3>1, <3>2, <3>3
    <2> QED BY <2>4, <2>5
  <1> QED BY <1>2, <1>3, FirstAsked

\* Whatever options are given, a mode runs exactly when it acts on all of them.
THEOREM NothingIgnored == CliSpec => []RunsWhatIsAsked
  <1> DEFINE CliInv == /\ given \subseteq Options
                       /\ outcome # "none" => outcome = IF Refused(ModeAsked) THEN "refused" ELSE ModeAsked
  <1>1. CliInit => CliInv
    BY DEF CliInit
  <1>2. CliInv /\ [CliNext]_cliVars => CliInv'
    <2> SUFFICES ASSUME CliInv, [CliNext]_cliVars PROVE CliInv'
      OBVIOUS
    <2>1. CASE \E option \in Options : Give(option)
      BY <2>1 DEF Give
    <2>2. CASE Run
      <3>1. given' = given /\ ModeAsked' = ModeAsked /\ Refused(ModeAsked)' = Refused(ModeAsked)
        BY <2>2 DEF Run, ModeAsked, Refused, Has, NoPaths, Unsupported
      <3> QED BY <2>2, <3>1 DEF Run
    <2>3. CASE Decided \/ UNCHANGED cliVars
      <3>1. given' = given /\ outcome' = outcome
        BY <2>3 DEF Decided, cliVars
      <3>2. ModeAsked' = ModeAsked /\ Refused(ModeAsked)' = Refused(ModeAsked)
        BY <3>1 DEF ModeAsked, Refused, Has, NoPaths, Unsupported
      <3> QED BY <3>1, <3>2
    <2> QED BY <2>1, <2>2, <2>3 DEF CliNext
  <1>3. CliInv => RunsWhatIsAsked
    <2> SUFFICES ASSUME CliInv, outcome \notin {"none", "set_lang"}, "set_lang" \notin given
                 PROVE  LET able == {mode \in DOMAIN ActsOn : Weighty \subseteq ActsOn[mode] /\ Needs(mode)}
                        IN  IF outcome = "refused" THEN able = {} ELSE able = {outcome}
      BY DEF RunsWhatIsAsked
    <2>1. outcome = IF Refused(ModeAsked) THEN "refused" ELSE ModeAsked
      OBVIOUS
    <2>2. ModeAsked # "refused"
      BY FirstAsked, ModesDiffer
    <2> QED BY <2>1, <2>2, OneMode
  <1> QED BY <1>1, <1>2, <1>3, PTL DEF CliSpec

-----------------------------------------------------------------------------
(* Runs of --fix.  What is known of a run is what has become of each file:   *)
(* still to be taken, without need of a repair, or with its diff printed     *)
(* (Dealt); what is known of a file is that it is as generated, or that       *)
(* repaired (Unmixed).  The texts and the fixers are parameters: that the     *)
(* fixers find nothing more in what they have made is what the theorems       *)
(* assume of them, and what TLC finds of the texts it is given.               *)

(* The fixers find nothing more in what they make of a generated text. *)
ChainSettles ==
    \A d \in DOMAIN Generated : \A g \in Generated[d] : \A f \in FileSet :
        g[f] # Missing => ChainOf[<<d, ChainOf[<<d, g[f]>>].text>>].count = 0

RunFields == {"mode", "ended", "args", "todo", "holds", "hadError", "patch", "read", "report", "introduced", "exit"}
FixedText(f) == Chained(generated[f]).text
Settled(f) == Chained(disk[f]).count = 0
ToDo(f) == \E k \in DOMAIN run.todo : run.todo[k] = f
Patched(f) == \E k \in DOMAIN run.patch : run.patch[k].path = f

FixTypeOK ==
    /\ dialect \in DOMAIN Generated /\ generated \in Generated[dialect]
    /\ DOMAIN generated = FileSet /\ DOMAIN disk = FileSet /\ DOMAIN run = RunFields
    /\ run.mode \in {"none", "dry", "write", "verify"}
    /\ run.ended \in BOOLEAN /\ run.hadError \in BOOLEAN
    /\ run.todo \in Seq(FileSet)
    /\ run.patch \in Seq(Range(run.patch))

(* A file is what was generated, or that repaired. *)
Unmixed ==
    \A f \in FileSet :
        /\ generated[f] = Missing => disk[f] = Missing
        /\ disk[f] \in {Missing, generated[f], FixedText(f)}

(* What is about to be written is the file repaired once. *)
Holding ==
    run.holds # <<>> =>
        /\ run.mode = "write" /\ ~run.ended /\ run.todo # <<>>
        /\ generated[Path] # Missing /\ run.holds = <<FixedText(Path)>>

(* No file is taken twice, nor one that has its diff. *)
TakenOnce ==
    /\ \A j, k \in DOMAIN run.todo : run.todo[j] = run.todo[k] => j = k
    /\ \A j, k \in DOMAIN run.patch : run.patch[j].path = run.patch[k].path => j = k
    /\ \A f \in FileSet : ToDo(f) => ~Patched(f)

(* A file a run was given is still to be taken, or was dealt with. *)
Dealt ==
    run.mode \in {"dry", "write"} /\ ~run.hadError =>
        \A f \in Named : ToDo(f) \/ Settled(f) \/ (run.mode = "dry" /\ Patched(f))

AtTheEnd == run.ended => run.todo = <<>> /\ run.exit = IF run.hadError THEN 2 ELSE 0

FixInv == FixTypeOK /\ Unmixed /\ Holding /\ TakenOnce /\ Dealt /\ AtTheEnd

-----------------------------------------------------------------------------
(* expand_paths *)

\* A rank without ties in a finite set is taken from the first to the last.
LEMMA EveryRank ==
    ASSUME NEW S, IsFiniteSet(S), NEW rank \in [S -> 1 .. Cardinality(S)],
           \A f, g \in S : rank[f] = rank[g] => f = g
    PROVE  \A n \in 1 .. Cardinality(S) : \E f \in S : rank[f] = n
  <1> DEFINE size == Cardinality(S)
  <1>1. size \in Nat
    BY FS_CardinalityType
  <1>2. IsFiniteSet(1 .. size) /\ Cardinality(1 .. size) = size
    BY <1>1, FS_Interval
  <1>3. rank \in Injection(S, 1 .. size)
    BY DEF Injection, IsInjective
  <1>4. rank \in Surjection(S, 1 .. size)
    BY <1>2, <1>3, FS_Injection
  <1> QED BY <1>4 DEF Surjection

\* Where a file is in the sorted order of the directory.
LEMMA PlaceOf ==
    LET place(f) == CHOOSE k \in DOMAIN Files : Files[k] = f
    IN  \A f \in FileSet : place(f) \in Nat /\ Files[place(f)] = f
  <1>1. Files \in Seq(FileSet)
    BY FixingAssumption
  <1>2. DOMAIN Files = 1 .. Len(Files) /\ Len(Files) \in Nat
    BY <1>1
  <1>3. \A f \in FileSet : \E k \in DOMAIN Files : Files[k] = f
    BY DEF FileSet
  <1> QED BY <1>2, <1>3

LEMMA FilesFinite == IsFiniteSet(FileSet)
  <1>1. Files \in Seq(FileSet)
    BY FixingAssumption
  <1>2. IsFiniteSet(1 .. Len(Files)) /\ DOMAIN Files = 1 .. Len(Files)
    BY <1>1, FS_Interval
  <1>3. Files \in Surjection(1 .. Len(Files), FileSet)
    BY <1>1, <1>2 DEF Surjection, FileSet
  <1> QED BY <1>2, <1>3, FS_Surjection

\* A path's files are each taken once, and all of them.
LEMMA Expanded ==
    ASSUME NEW args \in Seq(FileSet \cup {Directory, EmptyDir})
    PROVE  /\ expand_paths(args) \in Seq(FileSet)
           /\ \A f \in FileSet, k \in DOMAIN args :
                  Gives(args[k], f) => \E n \in DOMAIN expand_paths(args) : expand_paths(args)[n] = f
           /\ \A j, k \in DOMAIN expand_paths(args) : expand_paths(args)[j] = expand_paths(args)[k] => j = k
  <1> DEFINE named == {f \in FileSet : \E k \in DOMAIN args : Gives(args[k], f)}
             first(f) == Min({k \in DOMAIN args : Gives(args[k], f)})
             place(f) == CHOOSE k \in DOMAIN Files : Files[k] = f
             upTo(f) == {g \in named : first(g) < first(f) \/ (first(g) = first(f) /\ place(g) <= place(f))}
             rank == [f \in named |-> Cardinality(upTo(f))]
  <1>1. IsFiniteSet(named)
    BY FilesFinite, FS_Subset
  <1>2. \A f \in named : first(f) \in Nat
    <2> SUFFICES ASSUME NEW f \in named PROVE first(f) \in Nat
      OBVIOUS
    <2> DEFINE at == {k \in DOMAIN args : Gives(args[k], f)}
    <2>1. at \in SUBSET Nat /\ at # {}
      OBVIOUS
    <2> HIDE DEF at
    <2>2. \E n \in at : \A m \in at : n <= m
      BY <2>1, SmallestOf
    <2>3. Min(at) \in at
      BY <2>2, Zenon DEF Min
    <2> QED BY <2>1, <2>3 DEF at
  <1>3. \A f \in named : place(f) \in Nat
    BY PlaceOf
  <1>4. \A f, g \in named : place(f) = place(g) => f = g
    BY PlaceOf
  <1> HIDE DEF first, place
  <1>5. \A f \in named : upTo(f) \subseteq named /\ f \in upTo(f)
    BY <1>2, <1>3
  <1>6. \A f, g \in named : upTo(f) \subseteq upTo(g) \/ upTo(g) \subseteq upTo(f)
    BY <1>2, <1>3
  <1>7. \A f, g \in named : f \in upTo(g) /\ g \in upTo(f) => f = g
    BY <1>2, <1>3, <1>4
  <1> HIDE DEF upTo, named
  <1>8. \A f \in named : Cardinality(upTo(f)) \in 1 .. Cardinality(named)
    <2> SUFFICES ASSUME NEW f \in named PROVE Cardinality(upTo(f)) \in 1 .. Cardinality(named)
      OBVIOUS
    <2>1. IsFiniteSet(upTo(f)) /\ Cardinality(upTo(f)) <= Cardinality(named)
      BY <1>1, <1>5, FS_Subset
    <2>2. Cardinality(upTo(f)) # 0
      BY <1>5, <2>1, FS_EmptySet
    <2>3. Cardinality(upTo(f)) \in Nat /\ Cardinality(named) \in Nat
      BY <1>1, <2>1, FS_CardinalityType
    <2> QED BY <2>1, <2>2, <2>3
  <1>9. \A f, g \in named : Cardinality(upTo(f)) = Cardinality(upTo(g)) => f = g
    <2> SUFFICES ASSUME NEW f \in named, NEW g \in named, Cardinality(upTo(f)) = Cardinality(upTo(g))
                 PROVE  f = g
      OBVIOUS
    <2>1. IsFiniteSet(upTo(f)) /\ IsFiniteSet(upTo(g))
      BY <1>1, <1>5, FS_Subset
    <2>2. upTo(f) = upTo(g)
      BY <1>6, <2>1, FS_Subset
    <2> QED BY <1>5, <1>7, <2>2
  <1> DEFINE s == [n \in 1 .. Cardinality(named) |-> CHOOSE f \in named : Cardinality(upTo(f)) = n]
  <1>10. /\ s \in Seq(named)
         /\ \A f \in named : \E k \in DOMAIN s : s[k] = f
         /\ \A j, k \in DOMAIN s : s[j] = s[k] => j = k
    <2>1. rank \in [named -> 1 .. Cardinality(named)]
      BY <1>8
    <2>2. \A f, g \in named : rank[f] = rank[g] => f = g
      BY <1>9
    <2>3. \A f \in named : rank[f] = Cardinality(upTo(f))
      OBVIOUS
    <2> HIDE DEF rank
    <2>4. \A n \in 1 .. Cardinality(named) : \E f \in named : rank[f] = n
      BY <1>1, <2>1, <2>2, EveryRank
    <2>5. \A n \in 1 .. Cardinality(named) : \E f \in named : Cardinality(upTo(f)) = n
      BY <2>3, <2>4
    <2>6. \A n \in 1 .. Cardinality(named) : s[n] \in named /\ Cardinality(upTo(s[n])) = n
      BY <2>5
    <2>7. DOMAIN s = 1 .. Cardinality(named) /\ Cardinality(named) \in Nat
      BY <1>1, FS_CardinalityType
    <2>8. s = [n \in 1 .. Cardinality(named) |-> s[n]]
      OBVIOUS
    <2> HIDE DEF s
    <2>9. s \in Seq(named)
      BY <2>6, <2>7, <2>8
    <2>10. \A f \in named : \E k \in DOMAIN s : s[k] = f
      BY <1>8, <1>9, <2>6, <2>7
    <2>11. \A j, k \in DOMAIN s : s[j] = s[k] => j = k
      BY <2>6, <2>7
    <2> QED BY <2>9, <2>10, <2>11
  <1>11. expand_paths(args) = s
    BY Zenon DEF expand_paths, named, upTo, first, place
  <1>12. named \subseteq FileSet
    BY DEF named
  <1>13. s \in Seq(FileSet)
    BY <1>10, <1>12
  <1>14. \A f \in FileSet, k \in DOMAIN args : Gives(args[k], f) => f \in named
    BY DEF named
  <1> HIDE DEF s
  <1> QED BY <1>10, <1>11, <1>13, <1>14

-----------------------------------------------------------------------------
(* A step at a time. *)

LEMMA FixStart == FixInit => FixInv
  <1> SUFFICES ASSUME FixInit PROVE FixInv
    OBVIOUS
  <1>1. run = Idle /\ disk = generated /\ dialect \in DOMAIN Generated /\ generated \in Generated[dialect]
    BY DEF FixInit
  <1>2. generated = [f \in FileSet |-> generated[f]]
    BY <1>1, FixingAssumption
  <1>3. DOMAIN generated = FileSet
    BY <1>2
  <1>4. /\ run.mode = "none" /\ run.ended = FALSE /\ run.hadError = FALSE
        /\ run.todo = <<>> /\ run.holds = <<>> /\ run.patch = <<>> /\ DOMAIN run = RunFields
    BY <1>1 DEF Idle, RunFields
  <1>5. FixTypeOK
    <2>1. run.patch \in Seq(Range(run.patch)) /\ run.todo \in Seq(FileSet)
      BY <1>4 DEF Range
    <2> QED BY <1>1, <1>3, <1>4, <2>1 DEF FixTypeOK
  <1>6. Unmixed
    BY <1>1 DEF Unmixed
  <1>7. TakenOnce
    BY <1>4 DEF TakenOnce, ToDo
  <1> QED BY <1>4, <1>5, <1>6, <1>7 DEF FixInv, Holding, Dealt, AtTheEnd

\* Nothing that is fixed once the tool has started changes with a step of it.
LEMMA SameTexts ==
    ASSUME Inputs
    PROVE  /\ dialect' = dialect /\ generated' = generated 
           /\ \A f : FixedText(f)' = FixedText(f)
  BY DEF Inputs, FixedText, Chained

\* The file in hand is dealt with: the next one is in front, each still once.
LEMMA Left ==
    ASSUME FixInv, run.todo # <<>>, NEW next, DOMAIN next = RunFields, next.todo = run.todo, Leave(next)
    PROVE  /\ DOMAIN run' = RunFields /\ run'.todo = Tail(run.todo) /\ run'.holds = <<>>
           /\ \A x \in RunFields \ {"todo", "holds"} : run'[x] = next[x]
           /\ Path \in FileSet /\ run'.todo \in Seq(FileSet)
           /\ \A j, k \in DOMAIN run'.todo : run'.todo[j] = run'.todo[k] => j = k
           /\ ToDo(Path) /\ \A f : ToDo(f)' <=> ToDo(f) /\ f # Path
  <1>1. run' = [next EXCEPT !.todo = Tail(@), !.holds = <<>>]
    BY DEF Leave
  <1>2. /\ DOMAIN run' = RunFields /\ run'.todo = Tail(run.todo) /\ run'.holds = <<>>
        /\ \A x \in RunFields \ {"todo", "holds"} : run'[x] = next[x]
    BY <1>1 DEF RunFields
  <1> DEFINE todo == run.todo
  <1>3. todo \in Seq(FileSet) /\ todo # <<>> /\ \A j, k \in DOMAIN todo : todo[j] = todo[k] => j = k
    BY DEF FixInv, FixTypeOK, TakenOnce
  <1> HIDE DEF todo
  <1>4. /\ Head(todo) \in FileSet /\ Head(todo) = todo[1] /\ Tail(todo) \in Seq(FileSet)
        /\ Len(todo) \in Nat /\ Len(todo) > 0 /\ Len(Tail(todo)) = Len(todo) - 1
        /\ DOMAIN todo = 1 .. Len(todo) /\ DOMAIN Tail(todo) = 1 .. Len(todo) - 1
        /\ \A k \in 1 .. Len(todo) - 1 : Tail(todo)[k] = todo[k + 1]
    BY <1>3
  <1>5. \A j, k \in DOMAIN Tail(todo) : Tail(todo)[j] = Tail(todo)[k] => j = k
    BY <1>3, <1>4
  <1>6. \A f : (\E k \in DOMAIN Tail(todo) : Tail(todo)[k] = f) <=> (\E k \in DOMAIN todo : todo[k] = f) /\ f # todo[1]
    <2> SUFFICES ASSUME NEW f
                 PROVE  (\E k \in DOMAIN Tail(todo) : Tail(todo)[k] = f)
                          <=> (\E k \in DOMAIN todo : todo[k] = f) /\ f # todo[1]
      OBVIOUS
    <2>1. ASSUME NEW k \in DOMAIN Tail(todo), Tail(todo)[k] = f
          PROVE  k + 1 \in DOMAIN todo /\ todo[k + 1] = f /\ f # todo[1]
      BY <1>3, <1>4, <2>1
    <2>2. ASSUME NEW k \in DOMAIN todo, todo[k] = f, f # todo[1]
          PROVE  k - 1 \in DOMAIN Tail(todo) /\ Tail(todo)[k - 1] = f
      BY <1>4, <2>2
    <2> QED BY <2>1, <2>2
  <1>7. 1 \in DOMAIN todo
    BY <1>4
  <1>8. run'.todo = Tail(todo)
    BY <1>2 DEF todo
  <1>9. ToDo(Path) /\ \A f : ToDo(f)' <=> ToDo(f) /\ f # Path
    BY <1>4, <1>6, <1>7, <1>8, Zenon DEF todo, ToDo, Path
  <1> QED BY <1>2, <1>4, <1>5, <1>8, <1>9 DEF todo, Path

\* What a step that leaves the files alone keeps.
LEMMA FilesKept ==
    ASSUME FixInv, Inputs, disk' = disk
    PROVE  Unmixed' /\ \A f : Settled(f)' = Settled(f)
  BY SameTexts DEF FixInv, Unmixed, Settled, FixedText, Chained

LEMMA BeginStep == FixInv /\ Begin => FixInv'
  <1> SUFFICES ASSUME FixInv, Begin PROVE FixInv'
    OBVIOUS
  <1>1. PICK mode \in {"dry", "write", "verify"}, args \in Arguments :
            run' = [Idle EXCEPT !.mode = mode, !.args = args, !.todo = expand_paths(args), !.hadError = HasEmptyDir(args)]
    BY DEF Begin
  <1>2. disk' = disk /\ Inputs
    BY DEF Begin
  <1>3. args \in Seq(FileSet \cup {Directory, EmptyDir})
    BY FixingAssumption
  <1>4. /\ DOMAIN run' = RunFields /\ run'.mode = mode /\ run'.args = args /\ run'.todo = expand_paths(args)
        /\ run'.hadError = HasEmptyDir(args) /\ run'.ended = FALSE /\ run'.holds = <<>> /\ run'.patch = <<>>
    BY <1>1 DEF Idle, RunFields
  <1>5. HasEmptyDir(args) \in BOOLEAN
    BY DEF HasEmptyDir
  <1>6. FixTypeOK'
    <2>1. run'.patch \in Seq(Range(run'.patch))
      BY <1>4 DEF Range
    <2>2. run'.todo \in Seq(FileSet)
      BY <1>3, <1>4, Expanded
    <2> QED BY <1>2, <1>4, <1>5, <2>1, <2>2, SameTexts DEF FixInv, FixTypeOK
  <1>7. Unmixed'
    BY <1>2, FilesKept
  <1>8. TakenOnce'
    BY <1>3, <1>4, Expanded DEF TakenOnce, ToDo, Patched
  <1>9. \A f \in Named' : ToDo(f)'
    <2> SUFFICES ASSUME NEW f \in Named' PROVE ToDo(f)'
      OBVIOUS
    <2>1. f \in FileSet /\ disk[f] # Missing /\ \E k \in DOMAIN args : args[k] \in {f, Directory}
      BY <1>2, <1>4 DEF Named, Present
    <2>2. \E k \in DOMAIN args : Gives(args[k], f)
      BY <2>1 DEF Gives
    <2> QED BY <1>3, <1>4, <2>1, <2>2, Expanded DEF ToDo
  <1> QED BY <1>4, <1>6, <1>7, <1>8, <1>9 DEF FixInv, Holding, Dealt, AtTheEnd

\* A file is left that has an error, needs no repair or is only verified.
LEMMA LeaveStep ==
    ASSUME FixInv, Inputs, disk' = disk, run.todo # <<>>, ~run.ended,
           NEW next, DOMAIN next = RunFields, Leave(next),
           \A x \in {"todo", "mode", "args", "ended", "patch"} : next[x] = run[x],
           next.hadError \in BOOLEAN, run.hadError => next.hadError,
           next.hadError \/ run.mode = "verify" \/ Settled(Path)
    PROVE  FixInv'
  <1>1. /\ next.todo = run.todo /\ next.mode = run.mode /\ next.args = run.args
        /\ next.ended = run.ended /\ next.patch = run.patch
    OBVIOUS
  <1>2. /\ DOMAIN run' = RunFields /\ run'.todo = Tail(run.todo) /\ run'.holds = <<>>
        /\ \A x \in RunFields \ {"todo", "holds"} : run'[x] = next[x]
        /\ Path \in FileSet /\ run'.todo \in Seq(FileSet)
        /\ \A j, k \in DOMAIN run'.todo : run'.todo[j] = run'.todo[k] => j = k
        /\ ToDo(Path) /\ \A f : ToDo(f)' <=> ToDo(f) /\ f # Path
    BY <1>1, Left
  <1>3. /\ run'.mode = run.mode /\ run'.args = run.args /\ run'.ended = run.ended
        /\ run'.patch = run.patch /\ run'.hadError = next.hadError
    BY <1>1, <1>2 DEF RunFields
  <1>4. FixTypeOK'
    BY <1>2, <1>3, SameTexts DEF FixInv, FixTypeOK
  <1>5. Unmixed' /\ \A f : Settled(f)' = Settled(f)
    BY FilesKept
  <1>6. \A f : Patched(f)' = Patched(f)
    BY <1>3 DEF Patched
  <1>7. TakenOnce'
    BY <1>2, <1>3, <1>6 DEF FixInv, TakenOnce
  <1>8. Named' = Named
    BY <1>3 DEF Named, Present
  <1>9. Dealt'
    <2> SUFFICES ASSUME run.mode \in {"dry", "write"}, ~next.hadError, NEW f \in Named
                 PROVE  ToDo(f)' \/ Settled(f) \/ (run.mode = "dry" /\ Patched(f))
      BY <1>3, <1>5, <1>6, <1>8 DEF Dealt
    <2>1. ToDo(f) \/ Settled(f) \/ (run.mode = "dry" /\ Patched(f))
      BY DEF FixInv, Dealt
    <2>2. Settled(Path)
      OBVIOUS
    <2> QED BY <1>2, <2>1, <2>2
  <1> QED BY <1>2, <1>3, <1>4, <1>5, <1>7, <1>9 DEF FixInv, Holding, AtTheEnd

LEMMA SkipStep == FixInv /\ SkipFile => FixInv'
  <1> SUFFICES ASSUME FixInv, SkipFile PROVE FixInv'
    OBVIOUS
  <1> DEFINE next == [run EXCEPT !.hadError = TRUE]
  <1>1. Inputs /\ disk' = disk /\ run.todo # <<>> /\ ~run.ended /\ Leave(next)
    BY DEF SkipFile, Taking, Running, Steps
  <1>2. DOMAIN run = RunFields
    BY DEF FixInv, FixTypeOK
  <1>3. /\ DOMAIN next = RunFields /\ next.hadError = TRUE
        /\ \A x \in {"todo", "mode", "args", "ended", "patch"} : next[x] = run[x]
    BY <1>2 DEF RunFields
  <1> HIDE DEF next
  <1> QED BY <1>1, <1>3, LeaveStep

LEMMA VerifyStep == FixInv /\ VerifyFile => FixInv'
  <1> SUFFICES ASSUME FixInv, VerifyFile PROVE FixInv'
    OBVIOUS
  <1> DEFINE next == [run EXCEPT !.read = @ \cup {disk[Path]}]
  <1>1. Inputs /\ disk' = disk /\ run.todo # <<>> /\ ~run.ended /\ Leave(next) /\ run.mode = "verify"
    BY DEF VerifyFile, Taking, Running, Steps
  <1>2. DOMAIN run = RunFields /\ run.hadError \in BOOLEAN
    BY DEF FixInv, FixTypeOK
  <1>3. /\ DOMAIN next = RunFields /\ next.hadError = run.hadError
        /\ \A x \in {"todo", "mode", "args", "ended", "patch"} : next[x] = run[x]
    BY <1>2 DEF RunFields
  <1> HIDE DEF next
  <1> QED BY <1>1, <1>2, <1>3, LeaveStep

LEMMA FailStep == FixInv /\ WriteFails => FixInv'
  <1> SUFFICES ASSUME FixInv, WriteFails PROVE FixInv'
    OBVIOUS
  <1> DEFINE next == [run EXCEPT !.hadError = TRUE]
  <1>1. Inputs /\ disk' = disk /\ ~run.ended /\ Leave(next) /\ run.holds # <<>>
    BY DEF WriteFails, Running, Steps
  <1>2. DOMAIN run = RunFields /\ run.todo # <<>>
    BY <1>1 DEF FixInv, FixTypeOK, Holding
  <1>3. /\ DOMAIN next = RunFields /\ next.hadError = TRUE
        /\ \A x \in {"todo", "mode", "args", "ended", "patch"} : next[x] = run[x]
    BY <1>2 DEF RunFields
  <1> HIDE DEF next
  <1> QED BY <1>1, <1>2, <1>3, LeaveStep

\* Repaired, a file is not repaired again.
LEMMA Settles ==
    ASSUME ChainSettles, FixTypeOK, NEW f \in FileSet, generated[f] # Missing, disk[f] = FixedText(f)
    PROVE  Settled(f)
  <1>1. ChainOf[<<dialect, ChainOf[<<dialect, generated[f]>>].text>>].count = 0
    BY DEF ChainSettles, FixTypeOK
  <1> QED BY <1>1 DEF Settled, FixedText, Chained

\* One diff more.
LEMMA OneMore ==
    ASSUME NEW s, s \in Seq(Range(s)), NEW e
    PROVE  LET t == Append(s, e)
           IN  /\ t \in Seq(Range(t)) /\ DOMAIN t = DOMAIN s \cup {Len(t)}
               /\ \A k \in DOMAIN s : t[k] = s[k] /\ k # Len(t)
               /\ t[Len(t)] = e
  <1> DEFINE t == Append(s, e)
             old == Range(s)
  <1> HIDE DEF old
  <1>1. s \in Seq(old \cup {e}) /\ Len(s) \in Nat /\ DOMAIN s = 1 .. Len(s)
    BY DEF old
  <1>2. /\ t \in Seq(old \cup {e}) /\ Len(t) = Len(s) + 1 /\ DOMAIN t = 1 .. Len(s) + 1
        /\ \A k \in 1 .. Len(s) : t[k] = s[k] 
        /\ t[Len(s) + 1] = e
    BY <1>1
  <1> HIDE DEF t
  <1>3. t \in Seq(Range(t))
    BY <1>2 DEF Range
  <1>4. /\ t \in Seq(Range(t)) /\ DOMAIN t = DOMAIN s \cup {Len(t)}
        /\ \A k \in DOMAIN s : t[k] = s[k] /\ k # Len(t)
        /\ t[Len(t)] = e
    BY <1>1, <1>2, <1>3
  <1> QED BY <1>4 DEF t

LEMMA DiffStep ==
    ASSUME FixInv, Inputs, disk' = disk, run.todo # <<>>, ~run.ended, run.mode = "dry", NEW diff, diff.path = Path,
           Leave([run EXCEPT !.patch = Append(@, diff)])
    PROVE  FixInv'
  <1> DEFINE next == [run EXCEPT !.patch = Append(@, diff)]
  <1>1. DOMAIN run = RunFields /\ run.patch \in Seq(Range(run.patch))
    BY DEF FixInv, FixTypeOK
  <1>2. /\ DOMAIN next = RunFields /\ next.patch = Append(run.patch, diff) /\ next.todo = run.todo
        /\ \A x \in {"mode", "args", "ended", "hadError"} : next[x] = run[x]
    BY <1>1 DEF RunFields
  <1>3. Leave(next)
    OBVIOUS
  <1> HIDE DEF next
  <1>4. /\ DOMAIN run' = RunFields /\ run'.todo = Tail(run.todo) /\ run'.holds = <<>>
        /\ \A x \in RunFields \ {"todo", "holds"} : run'[x] = next[x]
        /\ Path \in FileSet /\ run'.todo \in Seq(FileSet)
        /\ \A j, k \in DOMAIN run'.todo : run'.todo[j] = run'.todo[k] => j = k
        /\ ToDo(Path) /\ \A f : ToDo(f)' <=> ToDo(f) /\ f # Path
    BY <1>2, <1>3, Left
  <1>5. /\ run'.mode = "dry" /\ run'.args = run.args /\ run'.ended = FALSE
        /\ run'.patch = Append(run.patch, diff) /\ run'.hadError = run.hadError
    <2>1. run.ended = FALSE
      BY DEF FixInv, FixTypeOK
    <2> QED BY <1>2, <1>4, <2>1 DEF RunFields
  <1> DEFINE new == run'.patch
             last == Len(new)
  <1>6. /\ new \in Seq(Range(new)) /\ DOMAIN new = DOMAIN run.patch \cup {last}
        /\ \A k \in DOMAIN run.patch : new[k] = run.patch[k] /\ k # last
        /\ new[last] = diff
    BY <1>1, <1>5, OneMore
  <1>7. \A f : Patched(f)' <=> Patched(f) \/ f = Path
    <2> SUFFICES ASSUME NEW f
                 PROVE  (\E k \in DOMAIN new : new[k].path = f)
                          <=> (\E k \in DOMAIN run.patch : run.patch[k].path = f) \/ f = Path
      BY DEF Patched
    <2> HIDE DEF new, last
    <2> QED BY <1>6
  <1>8. FixTypeOK'
    BY <1>4, <1>5, <1>6, SameTexts DEF FixInv, FixTypeOK
  <1>9. Unmixed' /\ \A f : Settled(f)' = Settled(f)
    BY FilesKept
  <1>10. TakenOnce'
    <2>1. ~Patched(Path)
      BY <1>4 DEF FixInv, TakenOnce
    <2>2. \A j, k \in DOMAIN new : new[j].path = new[k].path => j = k
      <3>1. \A j, k \in DOMAIN run.patch : run.patch[j].path = run.patch[k].path => j = k
        BY DEF FixInv, TakenOnce
      <3>2. \A j \in DOMAIN run.patch : run.patch[j].path # Path
        BY <2>1 DEF Patched
      <3> HIDE DEF new, last
      <3> QED BY <1>6, <3>1, <3>2
    <2>3. \A f \in FileSet : ToDo(f)' => ~Patched(f)'
      BY <1>4, <1>7 DEF FixInv, TakenOnce
    <2> QED BY <1>4, <2>2, <2>3 DEF TakenOnce
  <1>11. Named' = Named
    BY <1>5 DEF Named, Present
  <1>12. Dealt'
    <2> SUFFICES ASSUME ~run.hadError, NEW f \in Named
                 PROVE  ToDo(f)' \/ Settled(f) \/ Patched(f)'
      BY <1>5, <1>9, <1>11 DEF Dealt
    <2>1. ToDo(f) \/ Settled(f) \/ Patched(f)
      BY DEF FixInv, Dealt
    <2> QED BY <1>4, <1>7, <2>1
  <1> QED BY <1>4, <1>5, <1>8, <1>9, <1>10, <1>12 DEF FixInv, Holding, AtTheEnd

\* What a run without a repair to write keeps, whatever else it changes.
LEMMA RunKept ==
    ASSUME FixInv, Inputs, disk' = disk, DOMAIN run' = RunFields,
           \A x \in {"mode", "args", "todo", "patch", "hadError"} : run'[x] = run[x]
    PROVE  /\ Unmixed' /\ TakenOnce' /\ Dealt'
           /\ run'.ended \in BOOLEAN => FixTypeOK'
  <1>1. /\ run'.mode = run.mode /\ run'.args = run.args /\ run'.todo = run.todo
        /\ run'.patch = run.patch /\ run'.hadError = run.hadError
    OBVIOUS
  <1>2. Unmixed' /\ \A f : Settled(f)' = Settled(f)
    BY FilesKept
  <1>3. \A f : ToDo(f)' = ToDo(f) /\ Patched(f)' = Patched(f)
    BY <1>1 DEF ToDo, Patched
  <1>4. TakenOnce'
    BY <1>1, <1>3 DEF FixInv, TakenOnce
  <1>5. Named' = Named
    BY <1>1 DEF Named, Present
  <1>6. Dealt'
    BY <1>1, <1>2, <1>3, <1>5 DEF FixInv, Dealt
  <1>7. run'.ended \in BOOLEAN => FixTypeOK'
    BY <1>1, SameTexts DEF FixInv, FixTypeOK
  <1> QED BY <1>2, <1>4, <1>6, <1>7

LEMMA FixStep == ChainSettles /\ FixInv /\ FixFile => FixInv'
  <1> SUFFICES ASSUME ChainSettles, FixInv, FixFile PROVE FixInv'
    OBVIOUS
  <1> DEFINE fixed == Chained(disk[Path])
             diff == [path |-> Path, from |-> disk[Path], to |-> fixed.text]
  <1>1. /\ Inputs /\ disk' = disk /\ run.todo # <<>> /\ ~run.ended /\ run.mode \in {"dry", "write"}
        /\ disk[Path] # Missing
    BY DEF FixFile, Taking, Running, Steps, FixInv, FixTypeOK
  <1>2. \/ fixed.count = 0 /\ Leave(run)
        \/ fixed.count # 0 /\ run.mode = "write" /\ run' = [run EXCEPT !.holds = <<fixed.text>>]
        \/ run.mode = "dry" /\ Leave([run EXCEPT !.patch = Append(@, diff)])
    BY Zenon DEF FixFile
  <1>3. DOMAIN run = RunFields /\ run.hadError \in BOOLEAN
    BY DEF FixInv, FixTypeOK
  <1>4. CASE fixed.count = 0 /\ Leave(run)
    <2>1. Settled(Path)
      BY <1>4 DEF Settled
    <2> QED BY <1>1, <1>3, <1>4, <2>1, LeaveStep
  <1>5. CASE fixed.count # 0 /\ run.mode = "write" /\ run' = [run EXCEPT !.holds = <<fixed.text>>]
    <2>1. /\ DOMAIN run' = RunFields /\ run'.holds = <<fixed.text>> /\ run'.ended = run.ended
          /\ \A x \in {"mode", "args", "todo", "patch", "hadError"} : run'[x] = run[x]
      BY <1>3, <1>5 DEF RunFields
    <2>2. run'.todo = run.todo /\ run'.mode = run.mode
      BY <2>1
    <2>3. Path' = Path /\ Path \in FileSet
      <3>1. run.todo \in Seq(FileSet)
        BY DEF FixInv, FixTypeOK
      <3> QED BY <1>1, <2>2, <3>1 DEF Path
    <2>4. /\ generated[Path] # Missing /\ disk[Path] \in {generated[Path], FixedText(Path)}
      BY <1>1, <2>3 DEF FixInv, Unmixed
    <2>5. disk[Path] = generated[Path]
      BY <1>5, <2>3, <2>4, Settles DEF Settled, FixInv
    <2>6. fixed.text = FixedText(Path)
      BY <2>5 DEF FixedText
    <2>7. Unmixed' /\ TakenOnce' /\ Dealt' /\ FixTypeOK'
      <3>1. run'.ended \in BOOLEAN
        BY <2>1 DEF FixInv, FixTypeOK
      <3> QED BY <1>1, <2>1, <3>1, RunKept
    <2>8. Holding'
      BY <1>1, <1>5, <2>1, <2>2, <2>3, <2>4, <2>6, SameTexts DEF Holding
    <2> QED BY <1>1, <2>1, <2>7, <2>8 DEF FixInv, AtTheEnd
  <1>6. CASE run.mode = "dry" /\ Leave([run EXCEPT !.patch = Append(@, diff)])
    <2>1. diff.path = Path
      OBVIOUS
    <2> HIDE DEF diff
    <2> QED BY <1>1, <1>6, <2>1, DiffStep
  <1> QED BY <1>2, <1>4, <1>5, <1>6

LEMMA WriteStep == ChainSettles /\ FixInv /\ WriteFile => FixInv'
  <1> SUFFICES ASSUME ChainSettles, FixInv, WriteFile PROVE FixInv'
    OBVIOUS
  <1>1. /\ Inputs /\ run.holds # <<>> /\ Leave(run) /\ disk' = [disk EXCEPT ![Path] = Head(run.holds)]
    BY DEF WriteFile, Steps
  <1>2. /\ run.mode = "write" /\ ~run.ended /\ run.todo # <<>> /\ generated[Path] # Missing
        /\ run.holds = <<FixedText(Path)>>
    BY <1>1 DEF FixInv, Holding
  <1>3. DOMAIN run = RunFields /\ DOMAIN disk = FileSet
    BY DEF FixInv, FixTypeOK
  <1>4. /\ DOMAIN run' = RunFields /\ run'.todo = Tail(run.todo) /\ run'.holds = <<>>
        /\ \A x \in RunFields \ {"todo", "holds"} : run'[x] = run[x]
        /\ Path \in FileSet /\ run'.todo \in Seq(FileSet)
        /\ \A j, k \in DOMAIN run'.todo : run'.todo[j] = run'.todo[k] => j = k
        /\ ToDo(Path) /\ \A f : ToDo(f)' <=> ToDo(f) /\ f # Path
    BY <1>1, <1>2, <1>3, Left
  <1>5. /\ run'.mode = run.mode /\ run'.args = run.args /\ run'.ended = run.ended
        /\ run'.patch = run.patch /\ run'.hadError = run.hadError
    BY <1>4 DEF RunFields
  <1>6. /\ DOMAIN disk' = FileSet /\ disk'[Path] = FixedText(Path)
        /\ \A f \in FileSet \ {Path} : disk'[f] = disk[f]
    BY <1>1, <1>2, <1>3, <1>4
  <1>7. FixTypeOK'
    <2>1. DOMAIN run' = RunFields /\ run'.todo \in Seq(FileSet) /\ DOMAIN disk' = FileSet
      BY <1>4, <1>6
    <2>2. /\ dialect \in DOMAIN Generated /\ generated \in Generated[dialect] /\ DOMAIN generated = FileSet
          /\ run.mode \in {"none", "dry", "write", "verify"} /\ run.ended \in BOOLEAN
          /\ run.hadError \in BOOLEAN /\ run.patch \in Seq(Range(run.patch))
      BY DEF FixInv, FixTypeOK
    <2>3. dialect' = dialect /\ generated' = generated
      BY <1>1, SameTexts
    <2> QED BY <1>5, <2>1, <2>2, <2>3 DEF FixTypeOK
  <1>8. Unmixed'
    BY <1>1, <1>2, <1>6, SameTexts DEF FixInv, Unmixed
  <1>9. \A f : Patched(f)' = Patched(f)
    BY <1>5 DEF Patched
  <1>10. TakenOnce'
    BY <1>4, <1>5, <1>9 DEF FixInv, TakenOnce
  <1>11. \A f \in FileSet \ {Path} : Settled(f)' = Settled(f)
    BY <1>1, <1>6 DEF Settled, Chained, Inputs
  <1>12. Chained(disk'[Path]).count = 0
    <2>1. ChainOf[<<dialect, ChainOf[<<dialect, generated[Path]>>].text>>].count = 0
      BY <1>2, <1>4 DEF ChainSettles, FixInv, FixTypeOK
    <2> QED BY <1>6, <2>1 DEF FixedText, Chained
  <1>13. \A f \in Named' : f \in FileSet /\ (f = Path \/ f \in Named)
    BY <1>5, <1>6 DEF Named, Present
  <1>14. Dealt'
    <2> SUFFICES ASSUME ~run.hadError, NEW f \in Named'
                 PROVE  ToDo(f)' \/ Settled(f)'
      BY <1>5 DEF Dealt
    <2>1. CASE f = Path
      BY <1>1, <1>12, <2>1 DEF Settled, Chained, Inputs
    <2>2. CASE f # Path
      <3>1. ToDo(f) \/ Settled(f)
        BY <1>2, <1>13, <2>2 DEF FixInv, Dealt
      <3> QED BY <1>4, <1>11, <1>13, <2>2, <3>1
    <2> QED BY <2>1, <2>2
  <1> QED BY <1>2, <1>4, <1>5, <1>7, <1>8, <1>10, <1>14 DEF FixInv, Holding, AtTheEnd

LEMMA FinishStep == FixInv /\ Finish => FixInv'
  <1> SUFFICES ASSUME FixInv, Finish PROVE FixInv'
    OBVIOUS
  <1>1. Inputs /\ disk' = disk /\ run.todo = <<>>
    BY DEF Finish, Steps
  <1>2. DOMAIN run = RunFields /\ run.hadError \in BOOLEAN
    BY DEF FixInv, FixTypeOK
  <1>3. /\ DOMAIN run' = RunFields /\ run'.ended = TRUE /\ run'.exit = IF run.hadError THEN 2 ELSE 0
        /\ run'.holds = run.holds
        /\ \A x \in {"mode", "args", "todo", "patch", "hadError"} : run'[x] = run[x]
    BY <1>2 DEF Finish, Ended, RunFields
  <1>4. Unmixed' /\ TakenOnce' /\ Dealt' /\ FixTypeOK'
    BY <1>1, <1>3, RunKept
  <1>5. run.holds = <<>>
    BY <1>1 DEF FixInv, Holding
  <1>6. run'.todo = run.todo /\ run'.hadError = run.hadError
    BY <1>3
  <1> QED BY <1>1, <1>3, <1>4, <1>5, <1>6 DEF FixInv, Holding, AtTheEnd

\* A run that is killed leaves nothing but the files.
LEMMA NoRun ==
    ASSUME FixInv, Inputs, run' = Idle, DOMAIN disk' = FileSet, Unmixed'
    PROVE  FixInv'
  <1>1. /\ run'.mode = "none" /\ run'.ended = FALSE /\ run'.hadError = FALSE
        /\ run'.todo = <<>> /\ run'.holds = <<>> /\ run'.patch = <<>> /\ DOMAIN run' = RunFields
    BY DEF Idle, RunFields
  <1>2. FixTypeOK'
    <2>1. run'.patch \in Seq(Range(run'.patch)) /\ run'.todo \in Seq(FileSet)
      BY <1>1 DEF Range
    <2> QED BY <1>1, <2>1, SameTexts DEF FixInv, FixTypeOK
  <1>3. TakenOnce'
    BY <1>1 DEF TakenOnce, ToDo
  <1> QED BY <1>1, <1>2, <1>3 DEF FixInv, Holding, Dealt, AtTheEnd

LEMMA KillStep == FixInv /\ Kill => FixInv'
  <1> SUFFICES ASSUME FixInv, Kill PROVE FixInv'
    OBVIOUS
  <1>1. Inputs /\ disk' = disk /\ run' = Idle
    BY DEF Kill, Steps
  <1>2. Unmixed' /\ DOMAIN disk' = FileSet
    BY <1>1, FilesKept DEF FixInv, FixTypeOK
  <1> QED BY <1>1, <1>2, NoRun

LEMMA ConvertStep == FixInv /\ Convert => FixInv'
  <1> SUFFICES ASSUME FixInv, Convert PROVE FixInv'
    OBVIOUS
  <1>1. Inputs /\ disk' = generated /\ run' = Idle
    BY DEF Convert
  <1>2. Unmixed' /\ DOMAIN disk' = FileSet
    BY <1>1, SameTexts DEF FixInv, FixTypeOK, Unmixed
  <1> QED BY <1>1, <1>2, NoRun

LEMMA RemoveStep == FixInv /\ RemoveFile => FixInv'
  <1> SUFFICES ASSUME FixInv, RemoveFile PROVE FixInv'
    OBVIOUS
  <1>1. PICK r \in FileSet : disk' = [disk EXCEPT ![r] = Missing]
    BY DEF RemoveFile
  <1>2. run' = run /\ Inputs
    BY DEF RemoveFile
  <1>3. DOMAIN disk = FileSet
    BY DEF FixInv, FixTypeOK
  <1>4. DOMAIN disk' = FileSet /\ \A f \in FileSet : disk'[f] = IF f = r THEN Missing ELSE disk[f]
    BY <1>1, <1>3
  <1>5. FixTypeOK'
    BY <1>2, <1>4, SameTexts DEF FixInv, FixTypeOK
  <1>6. Unmixed'
    BY <1>4, <1>2, SameTexts DEF FixInv, Unmixed
  <1>7. \A f : ToDo(f)' = ToDo(f) /\ Patched(f)' = Patched(f)
    BY <1>2 DEF ToDo, Patched
  <1>8. TakenOnce'
    BY <1>2, <1>7 DEF FixInv, TakenOnce
  <1>9. \A f \in Named' : f \in Named /\ disk'[f] = disk[f]
    BY <1>2, <1>4 DEF Named, Present
  <1>10. \A f \in Named' : Settled(f)' = Settled(f)
    BY <1>2, <1>9 DEF Settled, Chained, Inputs
  <1>11. Dealt'
    BY <1>2, <1>7, <1>9, <1>10 DEF FixInv, Dealt
  <1>12. Holding' /\ AtTheEnd'
    BY <1>2, SameTexts DEF FixInv, Holding, AtTheEnd, Path
  <1> QED BY <1>5, <1>6, <1>8, <1>11, <1>12 DEF FixInv

LEMMA FixNothing == FixInv /\ UNCHANGED fixVars => FixInv'
  <1> SUFFICES ASSUME FixInv, UNCHANGED fixVars PROVE FixInv'
    OBVIOUS
  <1>1. Inputs /\ disk' = disk /\ run' = run
    BY DEF fixVars, Inputs
  <1>2. DOMAIN run' = RunFields /\ run'.ended \in BOOLEAN
    BY <1>1 DEF FixInv, FixTypeOK
  <1>3. Unmixed' /\ TakenOnce' /\ Dealt' /\ FixTypeOK'
    BY <1>1, <1>2, RunKept
  <1>4. Holding' /\ AtTheEnd'
    BY <1>1, SameTexts DEF FixInv, Holding, AtTheEnd, Path
  <1> QED BY <1>3, <1>4 DEF FixInv

LEMMA FixAlways == ASSUME ChainSettles PROVE FixSpec => []FixInv
  <1>1. FixInv /\ [FixNext]_fixVars => FixInv'
    <2> SUFFICES ASSUME FixInv, [FixNext]_fixVars PROVE FixInv'
      OBVIOUS
    <2>1. Rest => UNCHANGED fixVars
      BY DEF Rest
    <2> QED BY <2>1, BeginStep, SkipStep, VerifyStep, FixStep, WriteStep, FailStep, FinishStep, KillStep,
               RemoveStep, ConvertStep, FixNothing DEF FixNext
  <1> QED BY <1>1, FixStart, PTL DEF FixSpec

\* Given that, on any of the texts ora2pg may write, the fixers find nothing more in what they
\* have repaired, no number of runs, killed or failed anywhere, repairs a file twice or in part
\* (_handle_fix, which writes a file once its chain is through).
THEOREM RepairedOnce == ASSUME ChainSettles PROVE FixSpec => []FixedOnce
  <1>1. FixInv => FixedOnce
    <2> SUFFICES ASSUME FixInv, NEW f \in Present, disk[f] # generated[f]
                 PROVE  disk[f] = Chained(generated[f]).text /\ Chained(disk[f]).count = 0
      BY DEF FixedOnce
    <2>1. f \in FileSet /\ disk[f] # Missing
      BY DEF Present
    <2>2. disk[f] = FixedText(f) /\ generated[f] # Missing
      BY <2>1 DEF FixInv, Unmixed
    <2> QED BY <2>1, <2>2, Settles DEF FixInv, Settled, FixedText
  <1> QED BY <1>1, FixAlways, PTL

\* Under the same condition, whatever paths a run is given, named twice or through a directory,
\* and whatever vanishes meanwhile: when it exits with 0 it has dealt with every file, once
\* (_handle_fix, expand_paths).
THEOREM EveryFileDealtWith == ASSUME ChainSettles PROVE FixSpec => []RunIsWhole
  <1>1. FixInv => RunIsWhole
    <2> SUFFICES ASSUME FixInv, run.ended, run.exit = 0
                 PROVE  LET repairable == {f \in Named : Chained(disk[f]).count # 0}
                        IN  /\ run.mode = "write" => repairable = {}
                            /\ run.mode = "dry" =>
                                /\ \A f \in repairable : \E k \in DOMAIN run.patch : run.patch[k].path = f
                                /\ \A j, k \in DOMAIN run.patch : run.patch[j].path = run.patch[k].path => j = k
      BY DEF RunIsWhole
    <2>1. run.todo = <<>> /\ ~run.hadError
      BY DEF FixInv, AtTheEnd
    <2>2. \A f : ~ToDo(f)
      BY <2>1 DEF ToDo
    <2>3. run.mode \in {"dry", "write"} => \A f \in Named : Settled(f) \/ (run.mode = "dry" /\ Patched(f))
      BY <2>1, <2>2 DEF FixInv, Dealt
    <2> QED BY <2>3 DEF FixInv, TakenOnce, Settled, Patched
  <1> QED BY <1>1, FixAlways, PTL
=============================================================================
