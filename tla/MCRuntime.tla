-------------------------------- MODULE MCRuntime --------------------------------
(***************************************************************************)
(* A small instance for TLC of an agent runtime and the files of its guest *)
(***************************************************************************)
EXTENDS RuntimeWithFiles, TLC

CONSTANTS t1, t2, k1, a, b

Member1(name, kind, large) == [name |-> name, kind |-> kind, large |-> large]
Plain(name) == Member1(name, "file", FALSE)
Held(tar, members) == [tar |-> tar, members |-> members]
\* Good, bad, with a link on the way of the next member, too large, with what only
\* a zip counts, with a link out, and too many.
Holding(x, y) ==
    {Held(TRUE, <<Plain(x), Plain(y)>>), Held(TRUE, <<Plain(x), Member1(y, "bad", FALSE)>>),
     Held(TRUE, <<Member1(x, "link", FALSE), Plain(x)>>),
     Held(TRUE, <<Member1(x, "link", FALSE), Member1(x, "dir", FALSE)>>),
     Held(TRUE, <<Member1(x, "file", TRUE)>>), Held(FALSE, <<Plain(y), Member1(x, "dir", TRUE)>>),
     Held(TRUE, <<Member1(x, "dir", TRUE)>>), Held(TRUE, <<Member1(x, "skipped", FALSE)>>),
     Held(TRUE, <<Plain(x), Plain(y), Plain(x)>>)}
AllArchives == Holding(a, b) \cup Holding(b, a)

Start ==
    /\ Init /\ Files!Init
    /\ \/ part = "runtime" /\ tree[<<a>>].node = 1 /\ tree[<<b, a>>].node = 2
       \/ /\ part = "files" /\ host = [backend |-> "proot", missing |-> {}]
          /\ runtime.state = "created"

RuntimeAndFiles == Start /\ [][RuntimeOrFiles]_<<part, vars, files>>

Symmetry == Permutations({t1, t2}) \cup Permutations(Names)
===============================================================================
