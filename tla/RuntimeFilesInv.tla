-------------------------- MODULE RuntimeFilesInv ---------------------------
(***************************************************************************)
(* The inductive invariants of RuntimeFiles, which the proofs about the    *)
(* files of a guest rest on.  FilesInv is what every request has in hand   *)
(* and where the contents of an inode come from; CalmInv is what keeps a   *)
(* request that met no other from being disturbed, and how far such a      *)
(* request has got with what it is to do.                                  *)
(***************************************************************************)
EXTENDS RuntimeWithFiles

-------------------------------------------------------------------------------
(* What requests and inodes are, and where contents come from.               *)

Contents == [from : SUBSET (0..MaxFileRequests), whole : BOOLEAN]
Entries == [is : {"none", "dir", "file", "link"}, node : Nat]
Items == [from : Files!Paths \cup {Files!Root}, to : Files!Paths,
          kind : {"own", "staged", "path", "large"} \cup Files!MemberKinds]
FilePlaces == {"new", "stage", "staged", "unpack", "check", "open", "write", "rename",
           "unlink", "link", "read", "done", "failed"}
RequestType ==
    [pc : FilePlaces, kind : Files!Kinds \cup {None}, name : Names \cup {None}, path : Files!Paths \cup {Files!Root},
     to : Files!Paths \cup {Files!Root}, flag : BOOLEAN, left : Seq(Items),
     src : Nat, dst : Nat, got : SUBSET (0..MaxFileRequests), clean : BOOLEAN]

Checked == archive # None /\ ~Files!Refused(archive)
\* Directories and stagings whose files are among the first n inodes; links come
\* from an archive.
Trees(n) == {t \in [Files!Paths -> Entries] :
               \A p \in Files!Paths : /\ t[p].is = "file" => t[p].node \in 1..n
                                      /\ t[p].is = "link" => Checked}
Stagings(n) == {u \in [Names -> Entries] : \A x \in Names : u[x].is = "file" => u[x].node \in 1..n}

\* What a request that was made has in hand, with n inodes.
InHand(q, n, checked) ==
    q.pc # "new" =>
      /\ q.pc \in {"stage", "staged"} => q.kind = "upload"
      /\ q.pc = "unlink" => q.kind = "remove"
      /\ q.pc = "rename" => q.kind = "move"
      /\ q.pc = "read" => q.kind = "read"
      /\ q.kind \in {"upload", "import"} => q.name \in Names
      /\ q.kind = "write" => q.to \in Files!Paths
      /\ q.kind = "extract" => q.to \in Files!Tops \cup {Files!Root}
      /\ q.kind \in {"copy", "move", "remove", "read", "extract"} => q.path \in Files!Paths
      /\ \A k \in 1..Len(q.left) : /\ q.left[k].kind = "path" => q.left[k].from \in Files!Paths
                                   /\ q.left[k].kind = "staged" => q.name \in Names
                                   /\ q.left[k].kind \in {"own", "staged", "path"} <=> q.kind # "extract"
      /\ q.pc = "write" => q.left # << >> /\ (Head(q.left).kind # "own" => q.src \in 1..n)
      /\ q.pc = "link" => q.kind = "extract" /\ q.left # << >>
      /\ q.kind = "extract" /\ q.pc \in {"open", "write", "link", "done"} => checked
      /\ q.kind = "extract" /\ q.pc \in {"open", "write", "link"} => q.src \in 1..n
SameHand(q, p) ==
    /\ q.kind = p.kind /\ q.pc = p.pc /\ q.name = p.name /\ q.left = p.left
    /\ q.src = p.src /\ q.path = p.path /\ q.to = p.to
Wrote(r) == req[r].pc # "new" /\ (req[r].kind = "extract" => Checked)

FilesInv ==
    /\ node \in Seq(Contents) /\ tree \in Trees(Len(node)) /\ uploads \in Stagings(Len(node))
    /\ archive \in Archives \cup {None} /\ req \in [Files!Reqs -> RequestType]
    /\ \A r \in Files!Reqs : InHand(req[r], Len(node), Checked)
    /\ \A n \in 1..Len(node) : \A r \in node[n].from \ {0} : Wrote(r)

-------------------------------------------------------------------------------
(* Where a request works, and what no other of a calm one has in hand.       *)

\* The paths a request works on, and those whose change it could notice or cause.
Below(q) == {o \in Files!Paths : \E u \in Files!Touched(q) : Files!IsPrefix(u, o)}
Around(q) == {o \in Files!Paths : \E u \in Files!Touched(q) : Files!Near(u, o)}

IsFile(p, n) == tree[p].is = "file" /\ tree[p].node = n
IsStaged(name, n) == uploads[name].is = "file" /\ uploads[name].node = n

\* What a request that was made has in hand, besides InHand.
Sane(q) ==
    q.pc # "new" =>
      /\ q.name # None => q.kind \in {"upload", "import"}
      /\ q.kind \in {"upload", "import", "write", "copy", "move"} => q.to \in Files!Paths
      /\ q.kind = "mkdir" => q.path \in Files!Tops
      /\ q.pc \in {"open", "write"} => q.kind \in {"upload", "import", "write", "copy", "extract"}
      /\ q.pc = "write" => Head(q.left).kind \in Files!Opens
      /\ q.pc = "link" => Head(q.left).kind = "link"
      /\ q.kind = "move" => q.left = << >>
      /\ \A k \in 1..Len(q.left) : q.left[k].to \in Below(q) /\ (q.kind = "remove" => Len(q.left[k].to) = 2)

\* What is in a directory has one, and an inode has one name.
Formed(t) == \A p \in Files!Paths : Len(p) = 2 /\ t[p].is # "none" => t[Files!Front(p)].is = "dir"
WellFormed == Formed(tree)
OneName ==
    /\ \A p, o \in Files!Paths :
         tree[p].is = "file" /\ tree[o].is = "file" /\ tree[p].node = tree[o].node => p = o
    /\ \A p \in Files!Paths, x \in Names : tree[p].is = "file" /\ uploads[x].is = "file" => tree[p].node # uploads[x].node
    /\ \A x, y \in Names :
         uploads[x].is = "file" /\ uploads[y].is = "file" /\ uploads[x].node = uploads[y].node => x = y
\* The inode a request has open for writing.
OpenInode(q) ==
    /\ q.pc = "staged" => IsStaged(q.name, q.dst)
    /\ q.pc = "write" => q.dst \in 1..Len(node) /\ \A x \in Names : ~IsStaged(x, q.dst)

Calm(r) == Files!Active(r) /\ req[r].clean
\* Nobody works where a calm request does, or has a file of its open.
AloneInv == \A r, s \in Files!Reqs : r # s /\ Calm(r) /\ Files!Active(s) => ~Files!Conflict(req[r], req[s])
HeldInv ==
    \A r, s \in Files!Reqs : r # s /\ Calm(r) /\ req[s].pc = "write" =>
      \A o \in Below(req[r]) : ~IsFile(o, req[s].dst)

-------------------------------------------------------------------------------
(* How far a calm request has got.                                           *)

Writing(q) == q.pc = "write" => IsFile(Head(q.left).to, q.dst)

StagedItem(q) == [from |-> Files!Root, to |-> q.to, kind |-> "staged"]
UploadSound(r, q) ==
    q.kind \in {"upload", "import"} =>
      /\ q.kind = "upload" /\ q.pc \in {"check", "open", "write"} =>
           uploads[q.name].is = "file" /\ node[uploads[q.name].node] = Files!Own(r)
      /\ q.pc \in {"open", "write"} => q.left = << >> \/ q.left = <<StagedItem(q)>>
      /\ q.pc = "write" => IsStaged(q.name, q.src)
      /\ q.pc = "open" /\ q.left = << >> => IsStaged(q.name, q.src) /\ Files!Holds(q.to, node[q.src])

OwnItem(q) == [from |-> Files!Root, to |-> q.to, kind |-> "own"]
WriteSound(r, q) ==
    q.kind = "write" =>
      /\ q.pc \in {"open", "write"} => q.left = << >> \/ q.left = <<OwnItem(q)>>
      /\ q.pc = "open" /\ q.left = << >> => Files!Holds(q.to, Files!Own(r))

\* A file, and what is in a directory, as far as it is not left to be copied.
FileItem(q) == [from |-> q.path, to |-> q.to, kind |-> "path"]
FileCopied(q) ==
    /\ tree[q.path].is = "file"
    /\ \/ q.left = <<FileItem(q)>> /\ (q.pc = "write" => IsFile(q.path, q.src))
       \/ q.left = << >> /\ IsFile(q.path, q.src) /\ Files!Holds(q.to, node[q.src])
Inside(p) == {c \in Files!Paths : Len(c) = Len(p) + 1 /\ Files!IsPrefix(p, c)}
Counterpart(q, c) == Files!Under(q.to, Files!Last(c))
ChildItem(q, c) == [from |-> c, to |-> Counterpart(q, c), kind |-> "path"]
ChildCopied(q, c) ==
    tree[c].is # "none" =>
      \/ \E k \in 1..Len(q.left) : q.left[k].from = c
      \/ tree[c].is = "file" /\ Files!Holds(Counterpart(q, c), node[tree[c].node])
DirectoryCopied(q) ==
    /\ tree[q.path].is = "dir" /\ q.to \in Files!Tops
    /\ \A k \in 1..Len(q.left) : \E c \in Inside(q.path) : q.left[k] = ChildItem(q, c)
    /\ \A c \in Inside(q.path) : ChildCopied(q, c)
    /\ q.pc = "write" => IsFile(Head(q.left).from, q.src)
CopySound(q) ==
    q.kind = "copy" /\ q.pc \in {"open", "write"} /\ ~q.flag => FileCopied(q) \/ DirectoryCopied(q)

\* The members up to the n-th are there, unless a later one has the same name.
OneOfItsName(held, k) == \A j \in 1..Len(held.members) : j # k => held.members[j].name # held.members[k].name
Extracted(r, q, held, n) ==
    /\ Len(q.left) = Len(held.members) - n
    /\ \A k \in 1..Len(q.left) : q.left[k] = Files!Item(held, held.members[n + k], q.to)
    /\ \A k \in 1..n : held.members[k].kind = "file" /\ OneOfItsName(held, k) =>
         Files!Holds(Files!Under(q.to, held.members[k].name), Files!Own(r))
ExtractSound(r, q) ==
    q.kind = "extract" /\ q.pc \in {"open", "write", "link"} =>
      archive # None /\ \E n \in 0..Len(archive.members) : Extracted(r, q, archive, n)

MoveSound(q) == q.pc = "rename" => tree[q.path].is # "none" /\ tree[q.path].node = q.src

Sound(r, q) ==
    Writing(q) /\ UploadSound(r, q) /\ WriteSound(r, q) /\ CopySound(q) /\ ExtractSound(r, q) /\ MoveSound(q)

CalmInv ==
    /\ WellFormed /\ OneName /\ AloneInv /\ HeldInv
    /\ \A r \in Files!Reqs : Sane(req[r]) /\ OpenInode(req[r])
    /\ \A r \in Files!Reqs : Calm(r) => Sound(r, req[r])

-------------------------------------------------------------------------------
(* What a step of one request may change, and when another does not notice.  *)

Reaches(q, n) ==
    \/ \E o \in Around(q) : IsFile(o, n)
    \/ q.name \in Names /\ IsStaged(q.name, n)
    \/ q.pc = "write" /\ n = q.dst
Effect(q) ==
    /\ \A o \in Files!Paths : o \notin Around(q) => tree'[o] = tree[o]
    /\ \A n \in 1..Len(node) : node'[n] = node[n] \/ Reaches(q, n)
    /\ \A x \in Names : x # q.name => uploads'[x] = uploads[x]
    /\ archive # None => archive' = archive
\* What a step over a link may do to the tree, and what it leaves a request with.
Remade ==
    \/ tree' = tree
    \/ \E o \in Files!Paths, e \in Entries :
         /\ tree[o].is = "none" /\ Files!HasParent(o) /\ tree' = [tree EXCEPT ![o] = e]
         /\ e.is # "none" /\ (e.is = "file" => e.node = Len(node) + 1)
    \/ \E o \in Files!Paths : Files!Children(o) = {} /\ tree' = [tree EXCEPT ![o] = Files!Missing]
    \/ \E o \in Files!Paths : \E t \in Files!Targets(o) : tree' = Files!Moved(o, t)
StraysTo(r, q) ==
    /\ Files!Goes(r, q) /\ q.kind = req[r].kind /\ q.pc \notin {"new", "staged"}
    /\ InHand(q, Len(node'), Checked) /\ (Sane(req[r]) => Sane(q))
    /\ q.pc = "write" => q.dst \in 1..Len(node') /\ \A x \in Names : ~IsStaged(x, q.dst)
    /\ tree' \in Trees(Len(node')) /\ Remade /\ UNCHANGED <<uploads, archive>>
    /\ node' = node \/ \E e \in Entries : (e.is = "file" => e.node \in 1..Len(node)) /\ node' = Files!Emptied(e)
Undisturbed(q) ==
    /\ \A o \in Below(q) : tree'[o] = tree[o] /\ (tree[o].is = "file" => node'[tree[o].node] = node[tree[o].node])
    /\ q.name \in Names => /\ uploads'[q.name] = uploads[q.name]
                           /\ uploads[q.name].is = "file" => node'[uploads[q.name].node] = node[uploads[q.name].node]
    /\ archive # None => archive' = archive
=============================================================================
