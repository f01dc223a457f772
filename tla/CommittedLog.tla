---------------------------- MODULE CommittedLog ----------------------------
(***************************************************************************)
(* What the Raft group promises its application (spec.md 8, properties 5  *)
(* and 6): a single log of committed entries that only ever grows at its  *)
(* end.                                                                   *)
(***************************************************************************)
EXTENDS Naturals, Sequences

CONSTANT Entries   \* the entries a log may hold

VARIABLE clog

Init == clog = <<>>

\* Commit: one or more entries are added after the committed ones; nothing
\* committed is ever rewritten or removed.
Extend ==
    /\ Len(clog') > Len(clog)
    /\ SubSeq(clog', 1, Len(clog)) = clog
    /\ \A n \in 1..Len(clog') : clog'[n] \in Entries

Spec == Init /\ [][Extend]_clog

=============================================================================
