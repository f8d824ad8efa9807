---------------------------- MODULE EditDelivery ----------------------------
(***************************************************************************)
(* What pushing the edits of a note promises, whatever happens between the *)
(* note and the relay (src/sync/mod.rs, the comments of DocBusy and        *)
(* DocIdle): an engine owes the relay every edit it has taken, pays with   *)
(* edits it owes, writes off only what the relay has stored, and says that *)
(* it is idle exactly when it owes nothing.  An engine that ends takes its *)
(* debt with it; the relay's log is never touched by that.                 *)
(*                                                                         *)
(* PushPipeline implements this with a debounce buffer, numbered frames,   *)
(* an outbox, resending and acknowledgements.                              *)
(***************************************************************************)
EXTENDS Naturals

CONSTANT Edits \* what a user can write

VARIABLES
    held,  \* edits the note has
    owed,  \* edits the engine has taken and not written off
    log,   \* edits the relay has stored
    busy,  \* what the engine last said of the note
    ended  \* engines that have ended

vars == <<held, owed, log, busy, ended>>

Init ==
    /\ held = {}
    /\ owed = {}
    /\ log = {}
    /\ busy = FALSE
    /\ ended = 0

\* The user writes something new.
Write ==
    /\ \E e \in Edits : held' = held \cup {e}
    /\ UNCHANGED <<owed, log, busy, ended>>

\* The note learns what is in the log.
Learn ==
    /\ \E known \in SUBSET log : held' = held \cup known
    /\ UNCHANGED <<owed, log, busy, ended>>

\* The engine takes edits of the note.
Take ==
    /\ \E taken \in (SUBSET held) \ {{}} : owed' = owed \cup taken
    /\ busy' = TRUE
    /\ UNCHANGED <<held, log, ended>>

\* The relay stores edits it is owed.
Pay ==
    /\ \E paid \in SUBSET owed : log' = log \cup paid
    /\ UNCHANGED <<held, owed, busy, ended>>

\* The engine writes off edits that are stored; with the last one it says that it is idle.
WriteOff ==
    /\ \E settled \in SUBSET (owed \cap log) : owed' = owed \ settled
    /\ busy' = (owed' # {})
    /\ UNCHANGED <<held, log, ended>>

\* The engine ends, possibly with the process, and with it what the note had not saved.
End ==
    /\ ended' = ended + 1
    /\ owed' = {}
    /\ busy' = FALSE
    /\ held' \in SUBSET held
    /\ UNCHANGED log

Next == Write \/ Learn \/ Take \/ Pay \/ WriteOff \/ End

Spec == Init /\ [][Next]_vars
=============================================================================
