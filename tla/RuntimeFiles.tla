----------------------------- MODULE RuntimeFiles -----------------------------
(***************************************************************************)
(* The files of an Agent Runtime: uploads that are staged and imported,    *)
(* and the requests of the workspace sidebar and of the runtime tools that *)
(* read, write, copy, move, remove and extract them.  Each request runs in *)
(* a thread of its own and takes no lock, so the system calls of two of    *)
(* them interleave.  A file is an inode: it can be open while its name is  *)
(* moved, removed or truncated.                                            *)
(***************************************************************************)
EXTENDS Naturals, Sequences, FiniteSets, SequencesExt, FiniteSetsExt

CONSTANTS
    Names,          \* of files and directories; those of members and uploads
    Archives,       \* what the archive may hold: [tar, members], see ArchiveType
    MaxRequests, MaxMembers,    \* bounds: requests; max_members of an archive
    None

VARIABLES
    tree,       \* the workspace: every path's entry
    uploads,    \* the staging directory
    node,       \* the inodes: whose bytes are in them, and whether all of them
    archive,    \* what the archive of the workspace holds, None until it is read
    req         \* the requests

vars == <<tree, uploads, node, archive, req>>

\* Directories are one level deep (a bound of the model).
Tops == {<<x>> : x \in Names}
Paths == Tops \cup {<<x, y>> : x, y \in Names}
Root == << >>
Reqs == 1..MaxRequests
Kinds == {"upload", "import", "write", "copy", "move", "remove", "mkdir", "read", "extract"}
Missing == [is |-> "none", node |-> 0]
Directory == [is |-> "dir", node |-> 0]
File(n) == [is |-> "file", node |-> n]
Link == [is |-> "link", node |-> 0]
Children(p) == {q \in Paths : Len(q) = Len(p) + 1 /\ IsPrefix(p, q) /\ tree[q].is # "none"}
Under(p, name) == Append(p, name)
\* What scandir finds in a directory, in any order.
Listings(p) == SetToSeqs({Last(c) : c \in Children(p)})

\* "bad": a name that leaves the destination; "skipped": a link, symbolic or hard,
\* whose target does by its text, "link": one whose target does not; large: with
\* it the archive is larger than max_extract_bytes.
MemberKinds == {"file", "dir", "link", "skipped", "bad"}
ArchiveType == [tar : BOOLEAN,
                members : Seq([name : Names, kind : MemberKinds, large : BOOLEAN])]

Fresh == [pc |-> "new", kind |-> None, name |-> None, path |-> Root, to |-> Root, flag |-> FALSE,
          left |-> << >>, src |-> 0, dst |-> 0, got |-> {}, clean |-> TRUE]

TypeOK ==
    /\ tree \in [Paths -> [is : {"none", "dir", "file", "link"}, node : Nat]]
    /\ uploads \in [Names -> [is : {"none", "file"}, node : Nat]]
    /\ node \in Seq([from : SUBSET (0..MaxRequests), whole : BOOLEAN])
    /\ archive \in Archives \cup {None} /\ Archives \subseteq ArchiveType
    /\ req \in [Reqs ->
         [pc : {"new", "stage", "staged", "unpack", "check", "open", "write", "rename",
                "unlink", "link", "read", "done", "failed"},
          kind : Kinds \cup {None}, name : Names \cup {None}, path : Paths \cup {Root},
          to : Paths \cup {Root}, flag : BOOLEAN,
          left : Seq([from : Paths \cup {Root}, to : Paths, kind : {"own", "staged", "path", "large"} \cup MemberKinds]),
          src : Nat, dst : Nat, got : SUBSET (0..MaxRequests), clean : BOOLEAN]]
    /\ \A p \in Paths : tree[p].is = "file" => tree[p].node \in 1..Len(node)

\* Left by earlier requests: an archive at the top, and maybe a directory with a file.
Init ==
    /\ \E x, d \in Names : \E y \in Names :
         /\ x # d
         /\ tree = [p \in Paths |-> IF p = <<x>> THEN File(1)
                                    ELSE IF p = <<d>> THEN Directory
                                    ELSE IF p = <<d, y>> THEN File(2) ELSE Missing]
    /\ uploads = [n \in Names |-> Missing]
    /\ node = <<[from |-> {0}, whole |-> TRUE], [from |-> {0}, whole |-> TRUE]>>
    /\ archive = None
    /\ req = [r \in Reqs |-> Fresh]

-------------------------------------------------------------------------------
(* Reqs that overlap: both unfinished at some moment.                    *)

Active(r) == req[r].pc \notin {"new", "done", "failed"}
Near(p, q) == IsPrefix(p, q) \/ IsPrefix(q, p)
Touched(q) == {q.path, q.to} \ (IF q.kind \in {"copy", "move", "extract"} THEN {} ELSE {Root})
Conflict(q, s) ==
    \/ \E p \in Touched(q), o \in Touched(s) : Near(p, o)
    \/ q.name # None /\ q.name = s.name

\* What each kind of request names, and which of them have a choice to make.
Arguments(kind, name, path, to, flag) ==
    /\ name # None <=> kind \in {"upload", "import"}
    /\ path # Root <=> kind \in {"copy", "move", "remove", "mkdir", "read", "extract"}
    /\ kind # "extract" => (to # Root <=> kind \in {"upload", "import", "write", "copy", "move"})
    /\ kind = "extract" => to \in Tops \cup {Root}
    /\ kind \in {"mkdir", "extract"} => path \in Tops
    /\ flag => kind \in {"upload", "import", "write", "remove"}

FirstStep(kind, extracts) ==
    IF kind = "upload" THEN "stage" ELSE IF kind = "import" /\ extracts THEN "unpack" ELSE "check"

\* A call of the web sidebar or of a tool; nobody numbers requests, so the next
\* free number stands for it.
Request ==
    \E r \in Reqs :
      /\ req[r].pc = "new" /\ \A s \in 1..(r - 1) : req[s].pc # "new"
      /\ \E kind \in Kinds, name \in Names \cup {None},
            path \in Paths \cup {Root}, to \in Paths \cup {Root}, flag \in BOOLEAN :
           /\ Arguments(kind, name, path, to, flag)
           /\ LET made == [Fresh EXCEPT !.kind = kind, !.pc = FirstStep(kind, flag), !.name = name,
                                        !.path = path, !.to = to, !.flag = flag]
                  met == {s \in Reqs : Active(s) /\ Conflict(made, req[s])}
                  alone == met = {} /\ \A s \in Reqs : Active(s) => req[s].clean
              IN req' = [s \in Reqs |-> IF s = r THEN [made EXCEPT !.clean = alone]
                                        ELSE IF s \in met THEN [req[s] EXCEPT !.clean = FALSE]
                                        ELSE req[s]]
      /\ UNCHANGED <<tree, uploads, node, archive>>

At(r, pc) == req[r].pc = pc
Go(r, pc) == req' = [req EXCEPT ![r].pc = pc]
Fail(r) == Go(r, "failed") /\ UNCHANGED <<tree, uploads, node, archive>>

-------------------------------------------------------------------------------
(* Open files.                                                               *)

\* open(path, "wb"): the inode behind the name is emptied, or there is a new one.
Emptied(entry) ==
    IF entry.is = "file" THEN [node EXCEPT ![entry.node] = [from |-> {}, whole |-> FALSE]]
    ELSE Append(node, [from |-> {}, whole |-> FALSE])
Opened(entry) == IF entry.is = "file" THEN entry.node ELSE Len(node) + 1

\* A file can be made where its directory is.
HasParent(p) == Len(p) = 2 => tree[Front(p)].is = "dir"
\* os.makedirs(dirname, exist_ok=True)
ParentMade(p) == IF Len(p) = 2 /\ tree[Front(p)].is = "none"
                 THEN [tree EXCEPT ![Front(p)] = Directory] ELSE tree
CanHaveParent(p) == Len(p) = 2 => tree[Front(p)].is \in {"none", "dir"}

-------------------------------------------------------------------------------
(* Uploads: the bytes are staged under the name of the file and imported; an *)
(* import takes what an earlier upload has staged.                           *)

\* Mutant: every upload is staged under one name.
StagedAsOne(name) == CHOOSE n \in Names : TRUE
StagedAs(name) == name

Stage(r) ==
    /\ At(r, "stage")
    /\ LET place == StagedAs(req[r].name)
       IN /\ node' = Emptied(uploads[place])
          /\ req' = [req EXCEPT ![r].pc = "staged", ![r].dst = Opened(uploads[place])]
          /\ uploads' = [uploads EXCEPT ![place] = File(Opened(@))]
    /\ UNCHANGED <<tree, archive>>
Staged(r) ==
    /\ At(r, "staged")
    /\ node' = [node EXCEPT ![req[r].dst] = [from |-> {r}, whole |-> TRUE]]
    /\ Go(r, IF req[r].flag THEN "unpack" ELSE "check")
    /\ UNCHANGED <<tree, uploads, archive>>

\* import_and_extract, of an upload or of one staged before, copies the file to where it has just been staged, which
\* shutil.copyfile refuses; what follows in it is never reached.
Unpack(r) == At(r, "unpack") /\ Fail(r)

\* import_file, up to the copy: a directory is imported into.
Import(r) ==
    /\ At(r, "check") /\ req[r].kind \in {"upload", "import"}
    /\ LET p == req[r].to
           target == IF tree[p].is = "dir" THEN Under(p, req[r].name) ELSE p
       IN \/ uploads[StagedAs(req[r].name)].is = "none" /\ Fail(r)
          \/ ~CanHaveParent(target) /\ Fail(r)
          \/ /\ uploads[StagedAs(req[r].name)].is = "file" /\ target \in Paths /\ CanHaveParent(target)
             /\ tree' = ParentMade(target)
             /\ req' = [req EXCEPT ![r].pc = "open", ![r].to = target,
                                   ![r].left = <<[from |-> Root, to |-> target, kind |-> "staged"]>>]
             /\ UNCHANGED <<uploads, node, archive>>

-------------------------------------------------------------------------------
(* Copies: what is left to be copied is opened and written one by one.       *)

Source(r, item) ==
    CASE item.kind = "staged" -> uploads[StagedAs(req[r].name)]
      [] item.kind = "path" -> tree[item.from]
      [] OTHER -> Missing

\* shutil.copyfile and open(): the source is opened, the target is emptied.
\* copytree goes on after an entry it cannot copy and fails at the end; a member
\* of an archive makes its directory again, and is read from the archive that
\* has been open since it was looked at.
Opens == {"own", "staged", "path", "file"}
CanOpen(r, item) ==
    /\ item.kind \in {"staged", "path"} => Source(r, item).is = "file" /\ Source(r, item) # tree[item.to]
    /\ tree[item.to].is \in {"none", "file"}
    /\ IF item.kind = "file" THEN CanHaveParent(item.to) ELSE HasParent(item.to)
Open(r) ==
    /\ At(r, "open") /\ req[r].left # << >> /\ Head(req[r].left).kind \in Opens
    /\ LET item == Head(req[r].left)
       IN \/ ~CanOpen(r, item) /\ req[r].kind # "copy" /\ Fail(r)
          \/ /\ ~CanOpen(r, item) /\ req[r].kind = "copy"
             /\ req' = [req EXCEPT ![r].left = Tail(@), ![r].flag = TRUE]
             /\ UNCHANGED <<tree, uploads, node, archive>>
          \/ /\ CanOpen(r, item)
             /\ node' = Emptied(tree[item.to])
             /\ tree' = [ParentMade(item.to) EXCEPT ![item.to] = File(Opened(@))]
             /\ req' = [req EXCEPT ![r].pc = "write", ![r].dst = Opened(tree[item.to]),
                                   ![r].src = IF item.kind = "file" THEN @ ELSE Source(r, item).node]
             /\ UNCHANGED <<uploads, archive>>

\* What is there to read now is what is written; a member of an archive that has
\* been emptied meanwhile cannot be read.
Bytes(r) == IF Head(req[r].left).kind \in {"own", "file"} THEN [from |-> {r}, whole |-> TRUE]
            ELSE node[req[r].src]
Copy(r) ==
    /\ At(r, "write")
    /\ \/ Head(req[r].left).kind = "file" /\ node[req[r].src] # [from |-> {0}, whole |-> TRUE] /\ Fail(r)
       \/ /\ Head(req[r].left).kind = "file" => node[req[r].src] = [from |-> {0}, whole |-> TRUE]
          /\ node' = [node EXCEPT ![req[r].dst] = Bytes(r)]
          /\ req' = [req EXCEPT ![r].pc = "open", ![r].left = Tail(@)]
          /\ UNCHANGED <<tree, uploads, archive>>
Finish(r) ==
    /\ At(r, "open") /\ req[r].left = << >>
    /\ Go(r, IF req[r].kind = "copy" /\ req[r].flag THEN "failed" ELSE "done")
    /\ UNCHANGED <<tree, uploads, node, archive>>

\* write_text: an existing file is refused when it must not be overwritten.
WriteText(r) ==
    /\ At(r, "check") /\ req[r].kind = "write"
    /\ LET p == req[r].to
       IN \/ tree[p].is # "none" /\ ~req[r].flag /\ Fail(r)
          \/ ~CanHaveParent(p) /\ Fail(r)
          \/ /\ tree[p].is = "none" \/ req[r].flag
             /\ CanHaveParent(p) /\ tree' = ParentMade(p)
             /\ req' = [req EXCEPT ![r].pc = "open",
                                   ![r].left = <<[from |-> Root, to |-> p, kind |-> "own"]>>]
             /\ UNCHANGED <<uploads, node, archive>>

\* copy_path: copy2 for a file (into a directory when the target is one), and
\* copytree, which reads the directory once and then copies entry by entry.
CopyPath(r) ==
    /\ At(r, "check") /\ req[r].kind = "copy"
    /\ LET p == req[r].path
           q == req[r].to
           target == IF tree[p].is = "file" /\ tree[q].is = "dir" THEN Under(q, Last(p)) ELSE q
           items(names) ==
             IF tree[p].is = "file" THEN <<[from |-> p, to |-> target, kind |-> "path"]>>
             ELSE [k \in 1..Len(names) |->
                     [from |-> Under(p, names[k]), to |-> Under(q, names[k]), kind |-> "path"]]
       IN \/ (tree[p].is = "none" \/ ~CanHaveParent(target)) /\ Fail(r)
          \/ tree[p].is = "dir" /\ tree[q].is = "file" /\ Fail(r)
          \/ /\ tree[p].is # "none" /\ CanHaveParent(target) /\ target \in Paths
             /\ tree[p].is = "dir" => tree[q].is # "file" /\ q \in Tops
             /\ tree' = IF tree[p].is = "dir" THEN [tree EXCEPT ![q] = Directory] ELSE ParentMade(target)
             /\ \E names \in Listings(p) :
                  req' = [req EXCEPT ![r].pc = "open", ![r].left = items(names), ![r].to = target,
                                     ![r].src = tree[p].node]
             /\ UNCHANGED <<uploads, node, archive>>

-------------------------------------------------------------------------------
(* Archives.                                                                 *)

\* Every name is looked at before anything is written.
\* Mutant: names are looked at when their turn comes.
TooMany(held) == Len(held.members) > MaxMembers
RefusedLate(held) == TooMany(held)
Refused(held) == TooMany(held) \/ \E k \in 1..Len(held.members) : held.members[k].kind = "bad"

\* A zip counts the size of every member, a tar that of files.
ZipMember(m) == IF m.large THEN "large" ELSE m.kind
TarMember(m) == IF m.large /\ m.kind = "file" THEN "large" ELSE m.kind
Item(held, m, dest) ==
    [from |-> Root, to |-> Under(dest, m.name),
     kind |-> IF held.tar THEN TarMember(m) ELSE ZipMember(m)]

\* extract_archive, up to the first member: the destination is made first.
Extract(r) ==
    /\ At(r, "check") /\ req[r].kind = "extract"
    /\ archive' \in IF archive = None THEN Archives ELSE {archive}
    /\ LET p == req[r].path
           q == req[r].to
       IN IF tree[p].is # "file" \/ (q # Root /\ tree[q].is \notin {"none", "dir"})
          THEN Go(r, "failed") /\ UNCHANGED tree
          ELSE /\ tree' = IF q = Root THEN tree ELSE [tree EXCEPT ![q] = Directory]
               /\ IF node[tree[p].node] # [from |-> {0}, whole |-> TRUE] \/ Refused(archive')
                  THEN Go(r, "failed")
                  ELSE req' = [req EXCEPT ![r].pc = "open", ![r].src = tree[p].node,
                                 ![r].left = [k \in 1..Len(archive'.members) |->
                                                Item(archive', archive'.members[k], q)]]
    /\ UNCHANGED <<uploads, node>>

\* _write_member of what is not a file.  What makes the archive too large ends the
\* extraction where it is.  A link takes the place of what stood there, in two
\* system calls; its target is judged by its text only.
Blocked(item) ==
    \/ ~CanHaveParent(item.to)
    \/ item.kind = "dir" /\ tree[item.to].is = "file"
    \/ item.kind = "link" /\ tree[item.to].is = "dir"
Member(r) ==
    /\ At(r, "open") /\ req[r].left # << >> /\ Head(req[r].left).kind \notin Opens
    /\ LET item == Head(req[r].left)
           next == [req EXCEPT ![r].left = Tail(@)]
       IN \/ (item.kind \in {"large", "bad"} \/ Blocked(item)) /\ Fail(r)
          \/ item.kind = "skipped" /\ ~Blocked(item) /\ tree' = ParentMade(item.to) /\ req' = next
          \/ /\ item.kind = "dir" /\ ~Blocked(item)
             /\ tree' = [ParentMade(item.to) EXCEPT ![item.to] = Directory] /\ req' = next
          \/ /\ item.kind = "link" /\ ~Blocked(item)
             /\ tree' = [ParentMade(item.to) EXCEPT ![item.to] = Missing]
             /\ Go(r, "link")
    /\ UNCHANGED <<uploads, node, archive>>
MakeLink(r) ==
    /\ At(r, "link")
    /\ LET p == Head(req[r].left).to
       IN \/ (tree[p].is # "none" \/ ~HasParent(p)) /\ Fail(r)
          \/ /\ tree[p].is = "none" /\ HasParent(p)
             /\ tree' = [tree EXCEPT ![p] = Link]
             /\ req' = [req EXCEPT ![r].pc = "open", ![r].left = Tail(@)]
             /\ UNCHANGED <<uploads, node, archive>>

-------------------------------------------------------------------------------
(* The rest of the requests.                                                 *)

\* move_path: the directory of the target is made; a directory is moved into.
MovePath(r) ==
    /\ At(r, "check") /\ req[r].kind = "move"
    /\ LET p == req[r].path
           q == req[r].to
       IN \/ (tree[p].is = "none" \/ ~CanHaveParent(q)) /\ Fail(r)
          \/ /\ tree[p].is # "none" /\ CanHaveParent(q) /\ (tree[p].is = "dir" => q \in Tops)
             /\ tree' = ParentMade(q)
             /\ req' = [req EXCEPT ![r].pc = "rename", ![r].src = tree[p].node]
             /\ UNCHANGED <<uploads, node, archive>>

\* shutil.move: a rename, which replaces a file.
Moved(p, q) ==
    [o \in Paths |-> IF IsPrefix(q, o) THEN LET was == p \o SubSeq(o, Len(q) + 1, Len(o))
                                           IN IF was \in Paths THEN tree[was] ELSE Missing
                     ELSE IF IsPrefix(p, o) THEN Missing ELSE tree[o]]
Rename(r) ==
    /\ At(r, "rename")
    /\ LET p == req[r].path
           q == req[r].to
           target == IF tree[q].is = "dir" /\ p # q THEN Under(q, Last(p)) ELSE q
           fails == \/ tree[p].is = "none" \/ ~HasParent(target)
                    \/ tree[q].is = "dir" /\ (p = q \/ tree[target].is # "none")
                    \/ tree[p].is = "dir" /\ (tree[q].is = "file" \/ IsPrefix(p, target))
       IN target \in Paths /\
          \/ fails /\ Fail(r)
          \/ /\ ~fails /\ (tree[p].is = "dir" => target \in Tops)
             /\ tree' = IF p = target THEN tree ELSE Moved(p, target)
             /\ req' = [req EXCEPT ![r].pc = "done", ![r].to = target]
             /\ UNCHANGED <<uploads, node, archive>>

\* remove_path: a file is unlinked; rmtree reads the directory once, unlinks
\* what it found and then removes the directory, if it is empty.
RemovePath(r) ==
    /\ At(r, "check") /\ req[r].kind = "remove"
    /\ LET p == req[r].path
       IN \/ (tree[p].is = "none" \/ (tree[p].is = "dir" /\ ~req[r].flag)) /\ Fail(r)
          \/ /\ tree[p].is = "file" /\ tree' = [tree EXCEPT ![p] = Missing]
             /\ Go(r, "done") /\ UNCHANGED <<uploads, node, archive>>
          \/ /\ tree[p].is = "dir" /\ req[r].flag
             /\ \E names \in Listings(p) :
                  req' = [req EXCEPT ![r].pc = "unlink",
                          ![r].left = [k \in 1..Len(names) |->
                                         [from |-> Root, to |-> Under(p, names[k]), kind |-> "own"]]]
             /\ UNCHANGED <<tree, uploads, node, archive>>
Unlink(r) ==
    /\ At(r, "unlink")
    /\ IF req[r].left = << >>
       THEN \/ (tree[req[r].path].is # "dir" \/ Children(req[r].path) # {}) /\ Fail(r)
            \/ /\ tree[req[r].path].is = "dir" /\ Children(req[r].path) = {} /\ tree' = [tree EXCEPT ![req[r].path] = Missing]
               /\ Go(r, "done") /\ UNCHANGED <<uploads, node, archive>>
       ELSE LET p == Head(req[r].left).to
            IN \/ tree[p].is = "none" /\ Fail(r)
               \/ /\ tree[p].is # "none" /\ tree' = [tree EXCEPT ![p] = Missing]
                  /\ req' = [req EXCEPT ![r].left = Tail(@)] /\ UNCHANGED <<uploads, node, archive>>

MakeDirectory(r) ==
    /\ At(r, "check") /\ req[r].kind = "mkdir"
    /\ \/ tree[req[r].path].is = "file" /\ Fail(r)
       \/ /\ tree[req[r].path].is # "file" /\ tree' = [tree EXCEPT ![req[r].path] = Directory]
          /\ Go(r, "done") /\ UNCHANGED <<uploads, node, archive>>

\* read_text: what kind of thing it is and how large, then its bytes.
ReadText(r) ==
    /\ At(r, "check") /\ req[r].kind = "read"
    /\ IF tree[req[r].path].is = "file" THEN Go(r, "read") ELSE Go(r, "failed")
    /\ UNCHANGED <<tree, uploads, node, archive>>
ReadBytes(r) ==
    /\ At(r, "read")
    /\ LET entry == tree[req[r].path]
       IN req' = IF entry.is = "file"
                 THEN [req EXCEPT ![r].pc = "done", ![r].got = node[entry.node].from]
                 ELSE [req EXCEPT ![r].pc = "failed"]
    /\ UNCHANGED <<tree, uploads, node, archive>>

-------------------------------------------------------------------------------
(* Paths that lead over a link.  A target that stays inside by its text may    *)
(* leave with the help of other links, so where such a path leads, in the      *)
(* workspace or out of it, is left open; what stands outside has no name here, *)
(* and nothing is moved in from there.                                         *)

OnLink(p) == \E o \in Paths : IsPrefix(o, p) /\ tree[o].is = "link"

\* What the next system calls of a request name.
NextPaths(q) ==
    CASE q.pc \in {"check", "read"} -> {q.path, q.to}
      [] q.pc = "rename" -> {q.path, q.to, Under(q.to, Last(q.path))}
      [] q.pc = "open" /\ q.left # << >> ->
           LET item == Head(q.left)
           IN {item.from, IF item.kind \in {"link", "skipped"} THEN Front(item.to) ELSE item.to}
      [] q.pc = "link" -> {Front(Head(q.left).to)}
      [] OTHER -> {}
Astray(r) == \E p \in NextPaths(req[r]) : OnLink(p)

\* What may stand where it leads, and what may be made and removed there.
Standing == {Missing} \cup {File(n) : n \in {m \in 1..Len(node) : \A x \in Names : uploads[x] # File(m)}}
Made(entry) ==
    {tree} \cup {[tree EXCEPT ![o] = entry] : o \in {p \in Paths : tree[p].is = "none" /\ HasParent(p)}}
Unmade == {tree} \cup {[tree EXCEPT ![o] = Missing] : o \in {p \in Paths : Children(p) = {}}}
Targets(o) == {t \in Paths :
                 /\ tree[o].is # "none" /\ HasParent(t) /\ ~IsPrefix(o, t) /\ tree[t].is # "dir"
                 /\ tree[o].is = "dir" => t \in Tops /\ tree[t].is = "none"}

\* Whoever is at work then may be met there.
Goes(r, q) ==
    req' = [s \in Reqs |-> IF s = r THEN [q EXCEPT !.clean = FALSE]
                           ELSE IF Active(s) THEN [req[s] EXCEPT !.clean = FALSE] ELSE req[s]]

Copied(from, to, kind) == [from |-> from, to |-> to, kind |-> kind]
\* What a request goes on with when it has looked for what it works on.
Found(q) ==
    LET opens(items) == [q EXCEPT !.pc = "open", !.left = items]
        targets(name) == Paths \cap {q.to, Under(q.to, name)}
    IN CASE q.kind = "write" -> {opens(<<Copied(Root, q.to, "own")>>)}
         [] q.kind \in {"upload", "import"} ->
              {[opens(<<Copied(Root, t, "staged")>>) EXCEPT !.to = t] : t \in targets(q.name)}
         [] q.kind = "copy" ->
              {[opens(<<Copied(q.path, t, "path")>>) EXCEPT !.to = t] : t \in targets(Last(q.path))}
              \cup {opens([k \in 1..Len(names) |-> Copied(Under(q.path, names[k]), Under(q.to, names[k]), "path")]) :
                      names \in IF q.path \in Tops /\ q.to \in Tops
                                THEN UNION {SetToSeqs(some) : some \in SUBSET Names} ELSE {}}
         [] q.kind = "move" -> {[q EXCEPT !.pc = "rename"]}
         [] q.kind = "read" -> {[q EXCEPT !.pc = "read"]}
         [] q.kind = "mkdir" -> {[q EXCEPT !.pc = "done"]}
         [] q.kind = "remove" ->
              {[q EXCEPT !.pc = "done"]}
              \cup UNION {{[q EXCEPT !.pc = "unlink", !.path = d,
                             !.left = [k \in 1..Len(names) |-> Copied(Root, Under(d, names[k]), "own")]] :
                             names \in Listings(d)} : d \in {t \in Tops : q.flag /\ tree[t].is = "dir"}}
         \* With a link on the way to the destination every name is outside of it.
         [] q.kind = "extract" ->
              {[opens([k \in 1..Len(archive.members) |-> Item(archive, archive.members[k], q.to)]) EXCEPT !.src = n] :
                 n \in {m \in 1..Len(node) : /\ node[m] = [from |-> {0}, whole |-> TRUE]
                                             /\ ~Refused(archive)
                                             /\ OnLink(q.to) => archive.members = << >>}}
         [] OTHER -> {}
StrayLook(r) ==
    /\ At(r, "check")
    /\ \E q \in {[req[r] EXCEPT !.pc = "failed"]} \cup Found(req[r]) : Goes(r, q)
    /\ tree' \in IF req[r].kind = "remove" THEN Unmade ELSE Made(Directory)
    /\ UNCHANGED <<uploads, node, archive>>

StrayOpen(r) ==
    /\ At(r, "open") /\ Head(req[r].left).kind \in Opens
    /\ \E entry \in Standing, n \in 1..Len(node) :
         /\ node' = Emptied(entry)
         /\ tree' \in IF entry = Missing THEN Made(File(Opened(entry))) ELSE {tree}
         /\ Goes(r, [req[r] EXCEPT !.pc = "write", !.dst = Opened(entry),
                                   !.src = IF Head(req[r].left).kind \in {"own", "file"} THEN @ ELSE n])
    /\ UNCHANGED <<uploads, archive>>
StraySkips(r) ==
    /\ At(r, "open") /\ req[r].kind = "copy"
    /\ Goes(r, [req[r] EXCEPT !.left = Tail(@), !.flag = TRUE])
    /\ UNCHANGED <<tree, uploads, node, archive>>
StrayMember(r) ==
    /\ req[r].pc \in {"open", "link"} /\ Head(req[r].left).kind \in {"dir", "skipped", "link"}
    /\ LET kind == Head(req[r].left).kind
           removes == kind = "link" /\ At(r, "open")
       IN /\ tree' \in IF removes THEN Unmade ELSE Made(IF kind = "link" THEN Link ELSE Directory)
          /\ Goes(r, IF removes THEN [req[r] EXCEPT !.pc = "link"]
                     ELSE [req[r] EXCEPT !.pc = "open", !.left = Tail(@)])
    /\ UNCHANGED <<uploads, node, archive>>
StrayRename(r) ==
    /\ At(r, "rename")
    /\ tree' \in Unmade \cup UNION {{Moved(o, t) : t \in Targets(o)} : o \in Paths}
    /\ Goes(r, [req[r] EXCEPT !.pc = "done"])
    /\ UNCHANGED <<uploads, node, archive>>
StrayRead(r) ==
    /\ At(r, "read")
    /\ \E n \in 1..Len(node) : Goes(r, [req[r] EXCEPT !.pc = "done", !.got = node[n].from])
    /\ UNCHANGED <<tree, uploads, node, archive>>

-------------------------------------------------------------------------------
Upload(r) == Stage(r) \/ Staged(r) \/ Unpack(r) \/ Import(r)
Copies(r) == WriteText(r) \/ CopyPath(r) \/ Open(r) \/ Copy(r) \/ Finish(r)
Unpacks(r) == Extract(r) \/ Member(r) \/ MakeLink(r)
Changes(r) == MovePath(r) \/ Rename(r) \/ RemovePath(r) \/ Unlink(r) \/ MakeDirectory(r)
Reads(r) == ReadText(r) \/ ReadBytes(r)
Strays(r) == Fail(r) \/ StrayLook(r) \/ StrayOpen(r) \/ StraySkips(r) \/ StrayMember(r) \/ StrayRename(r) \/ StrayRead(r)

Next ==
    \/ Request
    \/ \E r \in Reqs : ~Astray(r) /\ (Upload(r) \/ Copies(r) \/ Unpacks(r) \/ Changes(r) \/ Reads(r))
    \/ \E r \in Reqs : Astray(r) /\ Strays(r)

Spec == Init /\ [][Next]_vars

-------------------------------------------------------------------------------
(* Properties.                                                               *)

Holds(p, content) == tree[p].is = "file" /\ node[tree[p].node] = content
Own(r) == [from |-> {r}, whole |-> TRUE]

\* What a request that answered ok says it did.
Did(r) ==
    LET q == req[r]
    IN CASE q.kind \in {"upload", "write"} -> Holds(q.to, Own(r))
         [] q.kind = "import" -> Holds(q.to, node[q.src])
         [] q.kind = "copy" -> IF tree[q.path].is = "file"
                               THEN Holds(q.to, node[q.src]) /\ Holds(q.path, node[q.src])
                               ELSE \A c \in Children(q.path) :
                                      Holds(Under(q.to, Last(c)), node[tree[c].node])
         [] q.kind = "move" -> /\ tree[q.to].is # "none" /\ tree[q.to].node = q.src
                               /\ q.path # q.to => tree[q.path].is = "none"
         [] q.kind = "remove" -> \A p \in Paths : IsPrefix(q.path, p) => tree[p].is = "none"
         [] q.kind = "mkdir" -> tree[q.path].is = "dir"
         [] q.kind = "read" -> /\ Holds(q.path, node[tree[q.path].node])
                               /\ q.got = node[tree[q.path].node].from
                               /\ \A s \in Reqs : At(s, "write") => req[s].dst # tree[q.path].node
         [] q.kind = "extract" -> \A k \in 1..Len(archive.members) :
              LET m == archive.members[k]
              IN m.kind = "file" /\ (\A j \in 1..Len(archive.members) : j # k => archive.members[j].name # m.name)
                   => Holds(Under(q.to, m.name), Own(r))

\* No request holds a lock, and still a request that answers ok has done what it
\* says whenever no other that names the same path, or stages the same name,
\* was under way, no path of a request at work led over a link that an archive
\* had brought, and those at work when it began had met no other either: uploads,
\* copies and extractions of different things do not get into each other's
\* files.  (Over a link, different paths may be one file.)
DoesWhatItAnswers ==
    [][\A r \in Reqs : ~At(r, "done") /\ At(r, "done")' /\ req'[r].clean => Did(r)']_vars

\* files.py extract_archive: members are validated "BEFORE anything is written,
\* so an archive that tries to escape leaves nothing behind": of an archive with
\* a member that is named out of the destination there is nothing, not what comes
\* before that member either, no bytes in any file and no link, and no member is
\* ever at its turn, whoever else is at work.  (What gets out through links is
\* named inside, and is not kept in.)
EscapeLeavesNothing ==
    archive # None /\ (\E k \in 1..Len(archive.members) : archive.members[k].kind = "bad") =>
      /\ \A r \in Reqs : req[r].kind = "extract" =>
           /\ \A n \in 1..Len(node) : r \notin node[n].from
           /\ req[r].pc \notin {"open", "write", "link", "done"}
      /\ \A p \in Paths : tree[p].is # "link"

\* The claims of the code that it does not keep.
\* manager.py import_and_extract: "Upload a file and, when it is an archive,
\* extract it in place".
ArchivesAreExtracted == \A r \in Reqs : At(r, "failed") => ~(req[r].kind \in {"upload", "import"} /\ req[r].flag)
===============================================================================
