------------------------------- MODULE RaftLog -------------------------------
(***************************************************************************)
(* The log of one server as the rest of Raft sees it: a sequence of terms, *)
(* of which a prefix is committed and a prefix of that applied.  It grows  *)
(* at its end, one entry at a time; what is removed is a suffix without a  *)
(* committed entry.                                                        *)
(***************************************************************************)
EXTENDS Naturals, Sequences

VARIABLES log, committed, applied
vars == <<log, committed, applied>>

Init == log = <<>> /\ committed = 0 /\ applied = 0

\* One more entry, of whatever term.
Grow == /\ log' # <<>>
        /\ log' = Append(log, log'[Len(log')])
        /\ UNCHANGED <<committed, applied>>

Remove == /\ \E n \in committed..Len(log) : log' = SubSeq(log, 1, n)
          /\ UNCHANGED <<committed, applied>>

Commit == /\ committed' \in committed..Len(log)
          /\ UNCHANGED <<log, applied>>

Apply == /\ applied' \in applied..committed
         /\ UNCHANGED <<log, committed>>

Next == Grow \/ Remove \/ Commit \/ Apply
Spec == Init /\ [][Next]_vars
==============================================================================
