-------------------------- MODULE MCTerminalSessions --------------------------
(* Small instances of TerminalSessions for TLC. *)
EXTENDS TerminalSessions, TLC

CONSTANTS k1, k2, i1, i2, i3, p1, p2, t1, t2

\* i3 was closed before.  Either two more sessions are opened and start one
\* process, or one more, and it starts two.
TwoShapes ==
    /\ InitAfter({i3}, {p2}) \/ InitAfter({i2, i3}, {})
    /\ [][Next]_vars
    /\ \A t \in Threads : WF_vars(Proceed(t))

Symmetric == Permutations(Keys) \cup Permutations(Insts) \cup Permutations(Procs)
               \cup Permutations(Threads)
===============================================================================
