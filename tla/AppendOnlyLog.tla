--------------------------- MODULE AppendOnlyLog ---------------------------
(***************************************************************************)
(* What the audit trail of a plan promises (README: "the append-only audit *)
(* trail"; prompts/m7.md: each record carries the hash of the one before   *)
(* it): entries are only ever added, one at a time, on top of the newest.  *)
(***************************************************************************)
CONSTANTS Entries, Bottom

VARIABLES
    entries,  \* the entries in the log
    below,    \* <<e, f>>: e was put on top of f
    top       \* the newest entry

Init == entries = {} /\ below = {} /\ top = Bottom

Append(e) ==
    /\ e \in Entries \ entries
    /\ entries' = entries \union {e}
    /\ below' = below \union {<<e, top>>}
    /\ top' = e

Spec == Init /\ [][\E e \in Entries : Append(e)]_<<entries, below, top>>
=============================================================================
