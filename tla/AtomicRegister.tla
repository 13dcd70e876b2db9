--------------------------- MODULE AtomicRegister ---------------------------
(***************************************************************************)
(* What atomic_write.py promises about one path: it holds the whole text   *)
(* of one write, or nothing, and a write lands there once or not at all.   *)
(* After a power loss the path may hold an older write, a whole one still. *)
(***************************************************************************)
CONSTANTS
    Writers,    \* the calls of open_text_atomic(); each writes a text of its own
    Original,   \* the text that was there before any of them
    None        \* nothing at the path

VARIABLES
    value,    \* the text a reader finds at the path
    durable,  \* the text a power loss would leave there
    status    \* what has become of each write

vars == <<value, durable, status>>

Statuses == {"pending", "landed", "given up"}

Init ==
    /\ value \in {Original, None}
    /\ durable = value
    /\ status = [w \in Writers |-> "pending"]

Land(w) ==
    /\ status[w] = "pending"
    /\ status' = [status EXCEPT ![w] = "landed"]
    /\ value' = w
    /\ UNCHANGED durable

GiveUp(w) ==
    /\ status[w] = "pending"
    /\ status' = [status EXCEPT ![w] = "given up"]
    /\ UNCHANGED <<value, durable>>

\* Somebody deletes the file.
Remove == value' = None /\ UNCHANGED <<durable, status>>

Persist == durable' = value /\ UNCHANGED <<value, status>>

PowerLoss ==
    /\ value' = durable
    /\ status' \in [Writers -> Statuses]
    /\ \A w \in Writers : status'[w] # status[w] =>
          status[w] = "pending" /\ status'[w] = "given up"
    /\ UNCHANGED durable

Next ==
    \/ \E w \in Writers : Land(w) \/ GiveUp(w)
    \/ Remove
    \/ Persist
    \/ PowerLoss

Spec == Init /\ [][Next]_vars
=============================================================================
