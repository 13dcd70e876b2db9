----------------------------- MODULE DockerCheck -----------------------------
(***************************************************************************)
(* `--load-check docker`: a PostgreSQL container is started, polled until  *)
(* it answers, given the files, asked to load them, and removed            *)
(* (_run_docker).  What psql does in it is LoadCheck's subject.            *)
(*                                                                         *)
(* The tool, the docker daemon and the container move on their own: the    *)
(* image's entrypoint first runs a temporary server for its set-up, then   *)
(* the real one; the container may exit at any time, a call may hang, the  *)
(* user may press Ctrl-C and the tool may be killed.                       *)
(***************************************************************************)
VARIABLES
    pc,         \* the docker call in progress, or "check", or "end"
    container,  \* "none", "asked" for, "created" only, its "temporary" server, the "real" one
    late,       \* the 120 s of the readiness wait are over
    files,      \* the files are in the container
    served,     \* the server ran the whole script, to the done mark
    tried,      \* what the try block ended with, as the finally carries it on
    answer,     \* how the check ended
    ours,       \* observability: docker run said that the container was started
    asked       \* observability: the daemon was asked to remove the container

dockerVars == <<pc, container, late, files, served, tried, answer, ours, asked>>

\* Calls inside the try block with a timeout; without one; and the last call.
Timed       == {"poll", "logs", "copy"}
Untimed     == {"psql"}
InTry       == Timed \union Untimed \union {"check"}
TryOutcomes == {"none", "output", "error", "timeout", "interrupted"}
Exits       == {"none", "result", "error", "timeout", "interrupted", "killed"}

DockerTypeOK ==
    /\ pc \in {"idle", "run", "remove", "end"} \union InTry
    /\ container \in {"none", "asked", "created", "temporary", "real"}
    /\ late \in BOOLEAN
    /\ files \in BOOLEAN
    /\ served \in BOOLEAN
    /\ tried \in TryOutcomes
    /\ answer \in Exits
    /\ ours \in BOOLEAN
    /\ asked \in BOOLEAN

DockerInit ==
    /\ pc = "idle"
    /\ container = "none"
    /\ late = FALSE
    /\ files = FALSE
    /\ served = FALSE
    /\ tried = "none"
    /\ answer = "none"
    /\ ours = FALSE
    /\ asked = FALSE

-----------------------------------------------------------------------------
(* The daemon and the container. *)

Create ==
    /\ container = "asked"
    /\ container' = "temporary"
    /\ UNCHANGED <<pc, late, files, served, tried, answer, ours, asked>>

StartServer ==
    /\ container = "temporary"
    /\ container' = "real"
    /\ UNCHANGED <<pc, late, files, served, tried, answer, ours, asked>>

\* Mutant of Crash: docker run without --rm.
CrashStays ==
    /\ container \in {"temporary", "real"}
    /\ container' = "exited"
    /\ files' = FALSE
    /\ UNCHANGED <<pc, late, served, tried, answer, ours, asked>>

\* Started with --rm, a container that exits is gone, its files with it.
Crash ==
    /\ container \in {"temporary", "real"}
    /\ container' = "none"
    /\ files' = FALSE
    /\ UNCHANGED <<pc, late, served, tried, answer, ours, asked>>

\* The deadline passes while the tool waits.
Deadline ==
    /\ pc \in {"poll", "check"}
    /\ ~late
    /\ late' = TRUE
    /\ UNCHANGED <<pc, container, files, served, tried, answer, ours, asked>>

-----------------------------------------------------------------------------
(* The tool. *)

Goto(from, to) == pc = from /\ pc' = to

\* The try block is left: the finally comes next.
Leave(with) == pc' = "remove" /\ tried' = with

End(with) == pc' = "end" /\ answer' = with

RunContainer ==
    /\ Goto("idle", "run")
    /\ container' = "asked"
    /\ UNCHANGED <<late, files, served, tried, answer, ours, asked>>

\* docker run fails: there is no docker or no image, the container was created
\* and could not be started, or the client lost the daemon, which goes on.
RunFails ==
    /\ pc = "run"
    /\ \/ UNCHANGED container
       \/ container = "asked" /\ container' \in {"none", "created"}
    /\ End("error")
    /\ UNCHANGED <<late, files, served, tried, ours, asked>>

Started ==
    /\ Goto("run", "poll")
    /\ container # "asked"
    /\ ours' = TRUE
    /\ UNCHANGED <<container, late, files, served, tried, answer, asked>>

\* Mutant of Ready: asked over the socket, the temporary server answers too.
ReadyOverSocket ==
    /\ Goto("poll", "copy")
    /\ container \in {"temporary", "real"}
    /\ UNCHANGED <<container, late, files, served, tried, answer, ours, asked>>

\* pg_isready over TCP.
Ready ==
    /\ Goto("poll", "copy")
    /\ container = "real"
    /\ UNCHANGED <<container, late, files, served, tried, answer, ours, asked>>

NotReady ==
    /\ Goto("poll", "check")
    /\ UNCHANGED <<container, late, files, served, tried, answer, ours, asked>>

\* Mutant of PollAgain: the clock is not looked at.
PollForever ==
    /\ Goto("check", "poll")
    /\ UNCHANGED <<container, late, files, served, tried, answer, ours, asked>>

PollAgain ==
    /\ ~late
    /\ Goto("check", "poll")
    /\ UNCHANGED <<container, late, files, served, tried, answer, ours, asked>>

TooLate ==
    /\ late
    /\ Goto("check", "logs")
    /\ UNCHANGED <<container, late, files, served, tried, answer, ours, asked>>

\* Mutant of Fail: an error is raised past the finally.
FailAtOnce ==
    /\ pc \in {"logs", "copy", "psql"}
    /\ pc' = "end" /\ answer' = "error" /\ tried' = "error"
    /\ UNCHANGED <<container, late, files, served, ours, asked>>

\* LoadCheckError: not ready in time, a copy that fails, a psql that does not
\* reach the server.
Fail ==
    /\ pc \in {"logs", "copy", "psql"}
    /\ Leave("error")
    /\ UNCHANGED <<container, late, files, served, answer, ours, asked>>

Copied ==
    /\ Goto("copy", "psql")
    /\ container # "none"
    /\ files' = TRUE
    /\ UNCHANGED <<container, late, served, tried, answer, ours, asked>>

\* psql runs the driver script to its end.
Serve ==
    /\ pc = "psql"
    /\ container = "real" /\ files
    /\ served' = TRUE
    /\ UNCHANGED <<pc, container, late, files, tried, answer, ours, asked>>

\* psql ends, having reached the server, which may have gone meanwhile.
PsqlEnds ==
    /\ pc = "psql"
    /\ Leave("output")
    /\ UNCHANGED <<container, late, files, served, answer, ours, asked>>

\* subprocess.TimeoutExpired after 30 s or 300 s, in a call that hangs.
TimeOut ==
    /\ pc \in Timed
    /\ Leave("timeout")
    /\ UNCHANGED <<container, late, files, served, answer, ours, asked>>

\* Back in run_load_check(): a result is an output that ends with the done mark.
Verdict ==
    IF tried # "output" THEN tried ELSE IF served THEN "result" ELSE "error"

\* docker rm -f; whether it failed is not looked at.
Remove ==
    /\ pc = "remove"
    /\ container' \in {"none", container}
    /\ asked' = TRUE
    /\ End(Verdict)
    /\ UNCHANGED <<late, files, served, tried, ours>>

\* The removal hangs: after 60 s its TimeoutExpired takes the place of
\* whatever the try block ended with.
RemoveTimesOut ==
    /\ pc = "remove"
    /\ container' \in {"none", container}
    /\ asked' = TRUE
    /\ End("timeout")
    /\ UNCHANGED <<late, files, served, tried, ours>>

\* Ctrl-C inside the try block.
Interrupt ==
    /\ pc \in InTry
    /\ Leave("interrupted")
    /\ UNCHANGED <<container, late, files, served, answer, ours, asked>>

\* A Ctrl-C outside it: docker run comes before the try, and a second Ctrl-C
\* ends the finally.  The daemon goes on with what it was told.
InterruptOutside ==
    /\ \/ pc = "run" /\ UNCHANGED container
       \/ pc = "remove" /\ container' \in {"none", container}
    /\ End("interrupted")
    /\ UNCHANGED <<late, files, served, tried, ours, asked>>

Kill ==
    /\ pc \notin {"idle", "end"}
    /\ End("killed")
    /\ UNCHANGED <<container, late, files, served, tried, ours, asked>>

Ended == pc = "end" /\ UNCHANGED dockerVars

\* What the tool does without waiting for a call that may last for ever.
Bounded ==
    \/ Ready \/ NotReady \/ PollAgain \/ TooLate \/ Copied
    \/ TimeOut \/ Remove \/ RemoveTimesOut
    \/ pc \in Timed /\ Fail

DockerNext ==
    \/ Create \/ StartServer \/ Crash \/ Deadline
    \/ RunContainer \/ RunFails \/ Started
    \/ Ready \/ NotReady \/ PollAgain \/ TooLate
    \/ Fail \/ Copied \/ Serve \/ PsqlEnds \/ TimeOut
    \/ Remove \/ RemoveTimesOut
    \/ Interrupt \/ InterruptOutside \/ Kill \/ Ended

\* Time passes, and a call that has a timeout answers or times out.  The
\* calls without one (run, psql), the daemon and the container owe nothing.
DockerSpec == DockerInit /\ [][DockerNext]_dockerVars /\ WF_dockerVars(Deadline) /\ WF_dockerVars(Bounded)

-----------------------------------------------------------------------------
(* Properties. *)

\* The readiness poll is never answered by the temporary server, which the
\* entrypoint is about to stop: whatever the container does meanwhile, no file
\* is copied and no script run before the real one has started (_run_docker).
NeverTemporary == pc \in {"copy", "psql"} => container # "temporary"

\* Once docker run has said that the container was started, and whichever step
\* fails or hangs then, a check that ends by itself has asked for its removal
\* (the finally of _run_docker).
NoOrphan == answer \in {"result", "error", "timeout"} /\ ours => asked

\* A check that polls, copies or cleans up gets to psql or to its end,
\* however long the server takes (the deadline and the calls' timeouts).
WaitsEnd == pc \in Timed \union {"check", "remove"} ~> pc \in {"psql", "end"}

\* load_check.py, of the container: "removed afterwards"; unless the tool was
\* killed, which no program outlives.
RemovedAfterwards == answer \notin {"none", "killed"} => container \in {"none", "asked"}

\* README.md: "Exit codes: `0` everything loaded, `1` something didn't": a
\* check whose script ran to its end ends with that result, unless the user or
\* the system ended it.
ResultIsReported ==
    tried = "output" /\ served => answer \in {"none", "result", "interrupted", "killed"}
=============================================================================
