--------------------------- MODULE MigrationContract ---------------------------
(***************************************************************************)
(* What a run of the tool promises of its output, wherever it goes:        *)
(*                                                                         *)
(*   - nothing is written before it is settled what will be;               *)
(*   - a resource is written after everything it refers to, so whatever a  *)
(*     failed run leaves behind can be applied as it is;                   *)
(*   - the report appears once at most, last, and only after everything    *)
(*     has been written; a run may end without it.                         *)
(***************************************************************************)
VARIABLES
  settled,    \* the resources are known
  target,     \* the resources that are to be written
  written,    \* the resources that have been
  reported,   \* the report has been printed whole
  over        \* the run has ended

contractVars == <<settled, target, written, reported, over>>

Key(r) == [kind |-> r.kind, ns |-> r.ns, name |-> r.name]

Init ==
  /\ ~settled
  /\ target = {}
  /\ written = {}
  /\ ~reported
  /\ ~over

Settle ==
  /\ ~over /\ ~settled
  /\ settled'
  /\ UNCHANGED <<written, reported, over>>

Write ==
  /\ ~over /\ settled
  /\ \E r \in target \ written :
       /\ \A key \in r.refs : \E q \in written : Key(q) = key
       /\ written' = written \union {r}
  /\ UNCHANGED <<settled, target, reported, over>>

Report ==
  /\ ~over /\ settled
  /\ target \subseteq written
  /\ reported'
  /\ over'
  /\ UNCHANGED <<settled, target, written>>

(* The run fails, or it cannot print the report.                             *)
EndUnreported ==
  /\ ~over
  /\ over'
  /\ UNCHANGED <<settled, target, written, reported>>

Spec == Init /\ [][Settle \/ Write \/ Report \/ EndUnreported]_contractVars
=============================================================================
