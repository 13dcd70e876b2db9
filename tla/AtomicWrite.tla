----------------------------- MODULE AtomicWrite -----------------------------
(***************************************************************************)
(* open_text_atomic(): a text is written to a temporary file beside its    *)
(* destination, forced to disk, given the destination's permissions and    *)
(* renamed into place.                                                     *)
(*                                                                         *)
(* Writers are calls of open_text_atomic() on one path, in any number of   *)
(* processes; every call has a temporary file, and so an inode, of its     *)
(* own.  Any call may fail, be interrupted (Ctrl-C) or be killed at any    *)
(* step, and the machine may lose power.  Readers open the path whenever   *)
(* they like and see the inode it names.                                   *)
(***************************************************************************)
CONSTANTS Writers, Original, None

Inodes == Writers \union {Original}

ASSUME InodeAssumption ==
    /\ Original \notin Writers
    /\ None \notin Inodes

VARIABLES
    dest,      \* the inode the path names, or None
    diskDest,  \* the one it names on disk: a rename reaches the disk later
    temps,     \* the writers whose temporary file is in the directory
    file,      \* the inodes: text, text on disk, permissions
    pc,        \* where each call is
    mode,      \* the permissions _mode_for() returned to each call
    errored,   \* observability: calls that met an OSError
    landed,    \* observability: calls whose rename took place
    stray      \* observability: calls whose temporary file nothing removed

writeVars == <<dest, diskDest, temps, file, pc, mode, errored, landed, stray>>

\* How much of an inode's text there is.
Extent == {"empty", "part", "whole"}

\* Permissions: a temporary file's 0600, what the umask leaves of 0666, and
\* what a user gave the file with chmod.
Modes == {"private", "umask", "user"}

InBlock == {"open", "flushed", "synced", "chmodded"}
Ended   == {"returned", "raised", "dead"}
Steps   == {"start", "named", "created", "replaced", "cleanup"} \union InBlock \union Ended

WriteTypeOK ==
    /\ dest \in Inodes \union {None}
    /\ diskDest \in Inodes \union {None}
    /\ temps \subseteq Writers
    /\ file \in [Inodes -> [data : Extent, disk : Extent, mode : Modes]]
    /\ pc \in [Writers -> Steps]
    /\ mode \in [Writers -> Modes]
    /\ errored \subseteq Writers
    /\ landed \subseteq Writers
    /\ stray \subseteq Writers

WriteInit ==
    /\ dest \in {Original, None}
    /\ diskDest = dest
    /\ temps = {}
    /\ file = [i \in Inodes |-> IF i = Original
                 THEN [data |-> "whole", disk |-> "whole", mode |-> "umask"]
                 ELSE [data |-> "empty", disk |-> "empty", mode |-> "private"]]
    /\ pc = [w \in Writers |-> "start"]
    /\ mode = [w \in Writers |-> "umask"]
    /\ errored = {}
    /\ landed = {}
    /\ stray = {}

-----------------------------------------------------------------------------
(* The call. *)

Goto(w, from, to) == pc[w] = from /\ pc' = [pc EXCEPT ![w] = to]

\* Mutant of ModeFor: a missing destination leaves no permissions to give.
ModeForMissing(w) ==
    /\ Goto(w, "start", "named")
    /\ mode' = [mode EXCEPT ![w] = IF dest = None THEN None ELSE file[dest].mode]
    /\ UNCHANGED <<dest, diskDest, temps, file, errored, landed, stray>>

\* The parent directories are there; _mode_for() looks at the destination.
ModeFor(w) ==
    /\ Goto(w, "start", "named")
    /\ mode' = [mode EXCEPT ![w] = IF dest = None THEN "umask" ELSE file[dest].mode]
    /\ UNCHANGED <<dest, diskDest, temps, file, errored, landed, stray>>

CreateTemp(w) ==
    /\ Goto(w, "named", "created")
    /\ temps' = temps \union {w}
    /\ UNCHANGED <<dest, diskDest, file, mode, errored, landed, stray>>

\* The try block is entered and the handle handed to the caller.
EnterBlock(w) ==
    /\ Goto(w, "created", "open")
    /\ UNCHANGED <<dest, diskDest, temps, file, mode, errored, landed, stray>>

\* The caller writes; its buffer reaches the file a piece at a time.
WriteSome(w) ==
    /\ pc[w] = "open"
    /\ file' = [file EXCEPT ![w].data = "part"]
    /\ UNCHANGED <<dest, diskDest, temps, pc, mode, errored, landed, stray>>

Flush(w) ==
    /\ Goto(w, "open", "flushed")
    /\ file' = [file EXCEPT ![w].data = "whole"]
    /\ UNCHANGED <<dest, diskDest, temps, mode, errored, landed, stray>>

\* Mutant of Fsync: the text is left to the operating system.
FsyncSkipped(w) ==
    /\ Goto(w, "flushed", "synced")
    /\ UNCHANGED <<dest, diskDest, temps, file, mode, errored, landed, stray>>

Fsync(w) ==
    /\ Goto(w, "flushed", "synced")
    /\ file' = [file EXCEPT ![w].disk = "whole"]
    /\ UNCHANGED <<dest, diskDest, temps, mode, errored, landed, stray>>

\* Mutant of Chmod: the temporary file's permissions stay.
ChmodSkipped(w) ==
    /\ Goto(w, "synced", "chmodded")
    /\ UNCHANGED <<dest, diskDest, temps, file, mode, errored, landed, stray>>

Chmod(w) ==
    /\ Goto(w, "synced", "chmodded")
    /\ file' = [file EXCEPT ![w].mode = mode[w]]
    /\ UNCHANGED <<dest, diskDest, temps, mode, errored, landed, stray>>

\* Mutant of Replace: the rename leaves the `with` block too early.
ReplaceEarly(w) ==
    /\ pc[w] \in {"open", "chmodded"}
    /\ pc' = [pc EXCEPT ![w] = "replaced"]
    /\ dest' = w
    /\ temps' = temps \ {w}
    /\ landed' = landed \union {w}
    /\ UNCHANGED <<diskDest, file, mode, errored, stray>>

Replace(w) ==
    /\ Goto(w, "chmodded", "replaced")
    /\ dest' = w
    /\ temps' = temps \ {w}
    /\ landed' = landed \union {w}
    /\ UNCHANGED <<diskDest, file, mode, errored, stray>>

Return(w) ==
    /\ Goto(w, "replaced", "returned")
    /\ UNCHANGED <<dest, diskDest, temps, file, mode, errored, landed, stray>>

\* Mutant of Error: an error in the block is raised with no cleanup.
ErrorUncaught(w) ==
    /\ pc[w] \in {"start", "named"} \union InBlock
    /\ pc' = [pc EXCEPT ![w] = "raised"]
    /\ errored' = errored \union {w}
    /\ UNCHANGED <<dest, diskDest, temps, file, mode, landed, stray>>

\* An OSError: from mkdir, stat or the creation of the temporary file, with
\* nothing to clean up yet, or from any step of the block.
Error(w) ==
    /\ \/ Goto(w, "start", "raised")
       \/ Goto(w, "named", "raised")
       \/ \E here \in InBlock : Goto(w, here, "cleanup")
    /\ errored' = errored \union {w}
    /\ UNCHANGED <<dest, diskDest, temps, file, mode, landed, stray>>

\* A KeyboardInterrupt, which reaches the cleanup only from inside the try
\* block: not between the file's creation and the `try`, but even after the
\* rename.
Interrupt(w) ==
    /\ \/ \E here \in {"start", "named", "created"} : Goto(w, here, "raised")
       \/ \E here \in InBlock \union {"replaced"} : Goto(w, here, "cleanup")
    /\ stray' = stray \union {v \in {w} : pc[v] = "created"}
    /\ UNCHANGED <<dest, diskDest, temps, file, mode, errored, landed>>

\* unlink: it finds nothing after a rename, which is an OSError too.
Cleanup(w) ==
    /\ Goto(w, "cleanup", "raised")
    /\ temps' = temps \ {w}
    /\ UNCHANGED <<dest, diskDest, file, mode, errored, landed, stray>>

\* unlink fails and its OSError is passed over, or Ctrl-C is pressed again
\* before it: the call ends by an exception and the file stays.
CleanupFails(w) ==
    /\ Goto(w, "cleanup", "raised")
    /\ stray' = stray \union {w}
    /\ UNCHANGED <<dest, diskDest, temps, file, mode, errored, landed>>

Kill(w) ==
    /\ pc[w] \notin Ended
    /\ pc' = [pc EXCEPT ![w] = "dead"]
    /\ UNCHANGED <<dest, diskDest, temps, file, mode, errored, landed, stray>>

-----------------------------------------------------------------------------
(* The operating system and the user. *)

\* What was written reaches the disk whenever the system likes.
WriteBack(w) ==
    /\ file' = [file EXCEPT ![w].disk = file[w].data]
    /\ UNCHANGED <<dest, diskDest, temps, pc, mode, errored, landed, stray>>

SyncDirectory ==
    /\ diskDest' = dest
    /\ UNCHANGED <<dest, temps, file, pc, mode, errored, landed, stray>>

PowerLoss ==
    /\ dest' = diskDest
    /\ file' = [i \in Inodes |-> [file[i] EXCEPT !.data = file[i].disk]]
    /\ pc' = [w \in Writers |-> IF pc[w] \in Ended \union {"start"} THEN pc[w] ELSE "dead"]
    /\ UNCHANGED <<diskDest, temps, mode, errored, landed, stray>>

UserChmods ==
    /\ dest # None
    /\ file' = [file EXCEPT ![dest].mode = "user"]
    /\ UNCHANGED <<dest, diskDest, temps, pc, mode, errored, landed, stray>>

UserRemoves ==
    /\ dest' = None
    /\ UNCHANGED <<diskDest, temps, file, pc, mode, errored, landed, stray>>

Step(w) ==
    \/ ModeFor(w) \/ CreateTemp(w) \/ EnterBlock(w) \/ WriteSome(w) \/ Flush(w)
    \/ Fsync(w) \/ Chmod(w) \/ Replace(w) \/ Return(w) \/ Cleanup(w)

WriteNext ==
    \/ \E w \in Writers : Step(w) \/ Error(w) \/ Interrupt(w) \/ CleanupFails(w) \/ Kill(w) \/ WriteBack(w)
    \/ SyncDirectory
    \/ PowerLoss
    \/ UserChmods
    \/ UserRemoves

WriteSpec == WriteInit /\ [][WriteNext]_writeVars

-----------------------------------------------------------------------------
(* Properties. *)

\* "A reader sees either the old contents or the new ones, never a partial
\* write" (module docstring), however the calls interleave or die.
DestWhole == dest # None => file[dest].data = "whole"

\* The fsync before the rename "keeps the guarantee across a power loss":
\* what the disk has at the path is whole at every moment.
PowerLossSafe == diskDest # None => file[diskDest].disk = "whole"

\* A call that met an error left the path alone ("or not at all"); and a
\* temporary file beside the path belongs to a call that goes on, to one that
\* was killed, or to one that had no chance to remove it: the unlink failed,
\* or Ctrl-C struck outside the `try` (open_text_atomic, "best-effort").
ErrorLeavesNothing ==
    /\ errored \intersect landed = {}
    /\ \A w \in temps : pc[w] \in {"returned", "raised"} => w \in stray

\* No writer, and no chain of writers taking their permissions from one
\* another's result, leaves the path with a temporary file's 0600 (_mode_for).
ModeKept == dest # None => file[dest].mode # "private"

\* The path is an atomic register.
Shown(i, extent) == IF i = None \/ extent[i] = "whole" THEN i ELSE "torn"

StatusOf(w) ==
    IF w \in landed THEN "landed"
    ELSE IF pc[w] \in {"cleanup"} \union Ended THEN "given up" ELSE "pending"

Register == INSTANCE AtomicRegister WITH
    value   <- Shown(dest, [i \in Inodes |-> file[i].data]),
    durable <- Shown(diskDest, [i \in Inodes |-> file[i].disk]),
    status  <- [w \in Writers |-> StatusOf(w)]

\* Every behaviour of the calls is one of the register: a text lands whole,
\* once, at one step, or never.
ImplementsRegister == Register!Spec

-----------------------------------------------------------------------------
(* Statements of the source that the code does not keep. *)

\* "cleanup on any failure" (atomic_write.py:60).
CleansUp == \A w \in Writers : pc[w] = "raised" => w \notin temps

\* "The permission bits the finished file should have: the file's own if it
\* already exists" (atomic_write.py:32-33): a chmod since _mode_for() is lost.
ModeIsTheFiles ==
    [][\A w \in Writers : Replace(w) /\ dest # None => mode[w] = file[dest].mode]_writeVars
=============================================================================
