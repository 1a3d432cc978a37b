-------------------------- MODULE RuntimeFiles_proof --------------------------
(***************************************************************************)
(* Proofs about RuntimeFiles, as the instance Files of RuntimeWithFiles,   *)
(* for any names and archives and any number of requests: an archive that  *)
(* was refused leaves nothing, and a request that met no other, and whose  *)
(* paths led over no link of an archive, has done what it answered.        *)
(* The invariants are those of RuntimeFilesInv; what takes a step over a   *)
(* link (Strays) leaves open where the link leads.                         *)
(***************************************************************************)
EXTENDS RuntimeFilesInv, TLAPS, WellFoundedInduction, SequenceTheorems, FiniteSetTheorems

-------------------------------------------------------------------------------
(* Files.  What is written into an inode comes from requests that were made,  *)
(* and from an extraction only when every member had been looked at.          *)

\* What one request changes.
LEMMA KeepsAll ==
    ASSUME FilesInv, NEW r \in Files!Reqs, req[r].pc # "new",
           NEW q \in RequestType, req' \in [Files!Reqs -> RequestType], req'[r] = q,
           \A s \in Files!Reqs \ {r} : SameHand(req'[s], req[s]),
           q.kind = req[r].kind, q.pc # "new", InHand(q, Len(node'), Checked'),
           node' \in Seq(Contents), Len(node) <= Len(node'),
           tree' \in Trees(Len(node')), uploads' \in Stagings(Len(node')),
           archive' \in Archives \cup {None}, archive # None => archive' = archive,
           \A n \in 1..Len(node') : \A s \in node'[n].from \ {0} :
               \/ s = r /\ (q.kind = "extract" => Checked')
               \/ \E m \in 1..Len(node) : s \in node[m].from
    PROVE  FilesInv'
<1>1. \A s \in Files!Reqs : s # r => SameHand(req'[s], req[s])
  OBVIOUS
<1>2. Checked => Checked'
  BY DEF Checked, Files!Refused, Files!TooMany
<1>3. /\ tree' \in [Files!Paths -> Entries]
      /\ \A p \in Files!Paths : /\ tree'[p].is = "file" => tree'[p].node \in 1..Len(node')
                                /\ tree'[p].is = "link" => Checked'
  BY <1>2 DEF Trees
<1>10. tree' \in Trees(Len(node))'
  BY <1>3 DEF Trees
<1>11. uploads' \in Stagings(Len(node))'
  BY DEF Stagings
<1>4. Len(node) \in Nat /\ Len(node') \in Nat
  BY DEF FilesInv
<1>5. \A s \in Files!Reqs : InHand(req'[s], Len(node'), Checked')
  <2>1. \A s \in Files!Reqs : InHand(req[s], Len(node), Checked)
    BY DEF FilesInv
  <2>2. \A s \in Files!Reqs : InHand(req[s], Len(node'), Checked')
    BY <1>2, <1>4, <2>1 DEF InHand
  <2>3. ASSUME NEW s \in Files!Reqs, s # r PROVE InHand(req'[s], Len(node'), Checked')
    <3>1. SameHand(req'[s], req[s]) /\ InHand(req[s], Len(node'), Checked')
      BY <1>1, <2>2, <2>3
    <3> QED BY <3>1 DEF SameHand, InHand
  <2> QED BY <2>3
<1>6. \A s : (\E m \in 1..Len(node) : s \in node[m].from) /\ s # 0 => s \in Files!Reqs /\ Wrote(s)
  <2>1. \A m \in 1..Len(node) : node[m].from \subseteq 0..MaxFileRequests
    <3>1. \A m \in 1..Len(node) : node[m] \in Contents
      BY DEF FilesInv
    <3>2. \A c \in Contents : c.from \subseteq 0..MaxFileRequests
      BY DEF Contents
    <3> QED BY <3>1, <3>2
  <2>2. \A m \in 1..Len(node) : \A s \in node[m].from \ {0} : s \in Files!Reqs
    BY <2>1, FilesAssumption DEF Files!Reqs
  <2>3. \A m \in 1..Len(node) : \A s \in node[m].from \ {0} : Wrote(s)
    BY DEF FilesInv
  <2> QED BY <2>2, <2>3
<1>7. \A s \in Files!Reqs : Wrote(s) => Wrote(s)'
  BY <1>1, <1>2 DEF Wrote, SameHand
<1>8. (q.kind = "extract" => Checked') => Wrote(r)'
  BY <1>1 DEF Wrote
<1>9. \A n \in 1..Len(node') : \A s \in node'[n].from \ {0} : Wrote(s)'
  BY <1>6, <1>7, <1>8
<1> HIDE DEF Wrote
<1> QED BY <1>5, <1>9, <1>10, <1>11 DEF FilesInv

LEMMA Keeps ==
    ASSUME FilesInv, NEW r \in Files!Reqs, req[r].pc # "new",
           NEW q \in RequestType, req' = [req EXCEPT ![r] = q],
           q.kind = req[r].kind, q.pc # "new", InHand(q, Len(node'), Checked'),
           node' \in Seq(Contents), Len(node) <= Len(node'),
           tree' \in Trees(Len(node')), uploads' \in Stagings(Len(node')),
           archive' \in Archives \cup {None}, archive # None => archive' = archive,
           \A n \in 1..Len(node') : \A s \in node'[n].from \ {0} :
               \/ s = r /\ (q.kind = "extract" => Checked')
               \/ \E m \in 1..Len(node) : s \in node[m].from
    PROVE  FilesInv'
<1>1. req' \in [Files!Reqs -> RequestType] /\ req'[r] = q
  BY DEF FilesInv
<1>2. \A s \in Files!Reqs \ {r} : SameHand(req'[s], req[s])
  BY DEF SameHand, FilesInv
<1> QED BY <1>1, <1>2, KeepsAll

\* A request goes on without touching inodes or stagings.
LEMMA KeepsOn ==
    ASSUME FilesInv, NEW r \in Files!Reqs, req[r].pc # "new",
           NEW q \in RequestType, req' = [req EXCEPT ![r] = q],
           q.kind = req[r].kind, q.pc # "new", InHand(q, Len(node), Checked),
           tree' \in Trees(Len(node)), UNCHANGED <<node, uploads, archive>>
    PROVE  FilesInv'
<1>1. \A n \in 1..Len(node') : \A s \in node'[n].from \ {0} : \E m \in 1..Len(node) : s \in node[m].from
  OBVIOUS
<1>2. Checked' = Checked /\ Len(node) <= Len(node')
  BY DEF FilesInv, Checked, Files!Refused, Files!TooMany
<1>3. InHand(q, Len(node'), Checked')
  BY <1>2
<1> QED BY <1>1, <1>2, <1>3, Keeps DEF FilesInv

LEMMA KeepsGoing ==
    ASSUME FilesInv, NEW r \in Files!Reqs, req[r].pc # "new",
           NEW pc \in {"failed", "done", "unpack", "check", "read"}, Files!Go(r, pc),
           pc = "done" => req[r].kind # "extract" \/ Checked, pc = "read" => req[r].kind = "read",
           tree' \in Trees(Len(node)), UNCHANGED <<node, uploads, archive>>
    PROVE  FilesInv'
<1>1. req[r] \in RequestType
  BY DEF FilesInv
<1>2. PICK q : q = [req[r] EXCEPT !.pc = pc]
  OBVIOUS
<1>3. /\ q \in RequestType /\ q.kind = req[r].kind /\ q.pc = pc
      /\ q.name = req[r].name /\ q.left = req[r].left /\ q.path = req[r].path /\ q.to = req[r].to
  BY <1>1, <1>2, Zenon DEF RequestType, FilePlaces
<1>4. req' = [req EXCEPT ![r] = q]
  BY <1>2, Zenon DEF Files!Go
<1>5. InHand(req[r], Len(node), Checked)
  BY DEF FilesInv
<1>6. InHand(q, Len(node), Checked)
  BY <1>3, <1>5 DEF InHand
<1> QED BY <1>3, <1>4, <1>6, KeepsOn

LEMMA KeepsFailing ==
    ASSUME FilesInv, NEW r \in Files!Reqs, req[r].pc # "new", Files!Fail(r)
    PROVE  FilesInv'
<1>1. Files!Go(r, "failed") /\ UNCHANGED <<tree, uploads, node, archive>>
  BY DEF Files!Fail
<1> QED BY <1>1, KeepsGoing DEF FilesInv

-------------------------------------------------------------------------------
(* Paths, inodes and trees.                                                  *)

LEMMA Lengths ==
    \A p \in Files!Paths : (Len(p) = 1 /\ p \in Files!Tops) \/ (Len(p) = 2 /\ p \notin Files!Tops)
<1>1. ASSUME NEW p \in Files!Tops PROVE Len(p) = 1
  BY DEF Files!Tops
<1>2. ASSUME NEW x \in Names, NEW y \in Names PROVE Len(<<x, y>>) = 2 /\ <<x, y>> \notin Files!Tops
  BY <1>1
<1> QED BY <1>1, <1>2 DEF Files!Paths

LEMMA PathFacts ==
    /\ \A x \in Names : <<x>> \in Files!Paths
    /\ \A p \in Files!Tops \cup {Files!Root}, x \in Names : Files!Under(p, x) \in Files!Paths
<1>1. \A x \in Names : <<x>> \in Files!Paths
  BY DEF Files!Paths, Files!Tops
<1>2. ASSUME NEW x \in Names PROVE Files!Under(Files!Root, x) = <<x>>
  BY DEF Files!Under, Files!Root
<1>3. ASSUME NEW p \in Files!Tops, NEW x \in Names PROVE Files!Under(p, x) \in Files!Paths
  <2>1. PICK y \in Names : p = <<y>>
    BY DEF Files!Tops
  <2>2. Append(<<y>>, x) = <<y, x>>
    <3> DEFINE s == Append(<<y>>, x)
    <3>1. <<y>> \in Seq(Names) /\ Len(<<y>>) = 1 /\ <<y>>[1] = y
      OBVIOUS
    <3>2. s \in Seq(Names) /\ Len(s) = 2 /\ s[2] = x /\ s[1] = y
      BY <3>1, AppendProperties
    <3> HIDE DEF s
    <3>3. s = <<s[1], s[2]>>
      BY <3>2
    <3> QED BY <3>2, <3>3 DEF s
  <2>3. <<y, x>> \in Files!Paths
    BY DEF Files!Paths
  <2>4. Files!Under(p, x) = Append(<<y>>, x)
    BY <2>1, Zenon DEF Files!Under
  <2> HIDE DEF Files!Under
  <2> QED BY <2>2, <2>3, <2>4
<1> QED BY <1>1, <1>2, <1>3

LEMMA TreeFacts ==
    ASSUME NEW n \in Nat, NEW t \in Trees(n), NEW p, NEW e \in Entries, e.is = "file" => e.node \in 1..n,
           e.is = "link" => Checked
    PROVE  [t EXCEPT ![p] = e] \in Trees(n)
BY DEF Trees

LEMMA DirectoryFacts ==
    FilesInv => /\ Len(node) \in Nat
                /\ Files!Directory \in Entries /\ Files!Directory.is = "dir"
                /\ Files!Missing \in Entries /\ Files!Missing.is = "none"
                /\ \A t \in Trees(Len(node)) : \A p : /\ [t EXCEPT ![p] = Files!Directory] \in Trees(Len(node))
                                                      /\ [t EXCEPT ![p] = Files!Missing] \in Trees(Len(node))
<1>1. /\ Files!Directory \in Entries /\ Files!Directory.is = "dir" /\ Files!Missing \in Entries
      /\ Files!Missing.is = "none"
  BY DEF Files!Directory, Files!Missing, Entries
<1>2. FilesInv => Len(node) \in Nat
  BY DEF FilesInv
<1> QED BY <1>1, <1>2, TreeFacts

LEMMA ParentFacts ==
    ASSUME FilesInv, NEW p PROVE Files!ParentMade(p) \in Trees(Len(node))
BY DirectoryFacts DEF Files!ParentMade, FilesInv

\* Opening for writing: one inode is empty, and it is there.
LEMMA OpenFacts ==
    ASSUME FilesInv, NEW e \in Entries, e.is = "file" => e.node \in 1..Len(node)
    PROVE  /\ Files!Emptied(e) \in Seq(Contents) /\ Len(node) <= Len(Files!Emptied(e))
           /\ Files!Opened(e) \in 1..Len(Files!Emptied(e)) /\ Files!Opened(e) \in Nat
           /\ Files!File(Files!Opened(e)) \in Entries
           /\ Files!File(Files!Opened(e)).is = "file" /\ Files!File(Files!Opened(e)).node = Files!Opened(e)
           /\ \A n \in 1..Len(Files!Emptied(e)) : \A s \in Files!Emptied(e)[n].from :
                  \E m \in 1..Len(node) : s \in node[m].from
<1> DEFINE none == [from |-> {}, whole |-> FALSE]
<1>1. none \in Contents /\ none.from = {}
  BY DEF Contents
<1> HIDE DEF none
<1>2. node \in Seq(Contents) /\ Len(node) \in Nat
  BY DEF FilesInv
<1>3. CASE e.is = "file"
  <2>1. Files!Emptied(e) = [node EXCEPT ![e.node] = none] /\ Files!Opened(e) = e.node
    BY <1>3 DEF Files!Emptied, Files!Opened, none
  <2>2. Files!Emptied(e) \in Seq(Contents) /\ Len(Files!Emptied(e)) = Len(node)
    BY <1>1, <1>2, <1>3, <2>1
  <2>3. \A n \in 1..Len(node) : Files!Emptied(e)[n] = node[n] \/ Files!Emptied(e)[n] = none
    BY <1>2, <2>1
  <2> QED BY <1>1, <1>2, <1>3, <2>1, <2>2, <2>3 DEF Files!File, Entries
<1>4. CASE e.is # "file"
  <2>1. Files!Emptied(e) = Append(node, none) /\ Files!Opened(e) = Len(node) + 1
    BY <1>4 DEF Files!Emptied, Files!Opened, none
  <2>2. Files!Emptied(e) \in Seq(Contents) /\ Len(Files!Emptied(e)) = Len(node) + 1
    BY <1>1, <1>2, <2>1
  <2>3. \A n \in 1..(Len(node) + 1) : (n \in 1..Len(node) /\ Files!Emptied(e)[n] = node[n]) \/ Files!Emptied(e)[n] = none
    BY <1>1, <1>2, <2>1
  <2> QED BY <1>1, <1>2, <2>1, <2>2, <2>3 DEF Files!File, Entries
<1> QED BY <1>3, <1>4

LEMMA SameNumber == \A S : Files!Cardinality(S) = Cardinality(S)
BY DEF Files!Cardinality, Cardinality

LEMMA SomeListed ==
    ASSUME NEW S \in SUBSET Names, NEW names \in Files!SetToSeqs(S)
    PROVE  names \in Seq(S)
<1>1. Cardinality(S) \in Nat
  BY FilesAssumption, FS_Subset, FS_CardinalityType
<1>2. names \in [1..Cardinality(S) -> S]
  BY SameNumber DEF Files!SetToSeqs
<1> QED BY <1>1, <1>2

\* What a directory holds, in the order scandir found it.
LEMMA ListingFacts ==
    ASSUME NEW p \in Files!Paths, NEW names \in Files!Listings(p)
    PROVE  names \in Seq(Names) /\ \A k \in 1..Len(names) : Files!Under(p, names[k]) \in Files!Paths
<1> DEFINE S == {Files!Last(c) : c \in Files!Children(p)}
<1>1. S \subseteq Names /\ (S # {} => p \in Files!Tops)
  <2>1. ASSUME NEW c \in Files!Children(p) PROVE Files!Last(c) \in Names /\ p \in Files!Tops
    <3>1. c \in Files!Paths /\ Len(c) = Len(p) + 1
      BY DEF Files!Children
    <3>2. Len(p) = 1 /\ p \in Files!Tops /\ Len(c) = 2
      <4>1. (Len(c) = 1 \/ Len(c) = 2) /\ ((Len(p) = 1 /\ p \in Files!Tops) \/ Len(p) = 2)
        BY <3>1, Lengths, Zenon
      <4>2. CASE Len(p) = 1
        BY <3>1, <4>1, <4>2
      <4>3. CASE Len(p) = 2
        <5>1. Len(c) = 3
          BY <3>1, <4>3
        <5> QED BY <4>1, <5>1
      <4> QED BY <4>1, <4>2, <4>3
    <3>3. PICK x \in Names, y \in Names : c = <<x, y>>
      BY <3>1, <3>2 DEF Files!Paths, Files!Tops
    <3> QED BY <3>2, <3>3 DEF Files!Last
  <2> QED BY <2>1
<1> HIDE DEF S
<1>4. names \in Seq(S)
  BY <1>1, SomeListed DEF Files!Listings, S
<1>5. names \in Seq(Names) /\ \A k \in 1..Len(names) : names[k] \in S
  BY <1>1, <1>4
<1> QED BY <1>1, <1>5, PathFacts

-------------------------------------------------------------------------------
(* Prefixes of paths, member by member.                                      *)

Spots == Files!Paths \cup {Files!Root}

LEMMA PathShape ==
    /\ \A p \in Files!Paths : p \in Seq(Names) /\ (Len(p) = 1 \/ Len(p) = 2) /\ (Len(p) = 1 <=> p \in Files!Tops)
    /\ Files!Root \in Seq(Names) /\ Len(Files!Root) = 0
    /\ \A p \in Seq(Names) : (Len(p) = 1 => p \in Files!Tops) /\ (Len(p) = 2 => p \in Files!Paths)
    /\ Files!Tops \subseteq Files!Paths
<1>1. ASSUME NEW x \in Names PROVE <<x>> \in Seq(Names)
  OBVIOUS
<1>2. ASSUME NEW x \in Names, NEW y \in Names PROVE <<x, y>> \in Seq(Names)
  OBVIOUS
<1>3. \A p \in Files!Paths : p \in Seq(Names)
  <2>1. ASSUME NEW p \in Files!Paths PROVE p \in Seq(Names)
    <3>1. CASE p \in Files!Tops
      BY <1>1, <3>1 DEF Files!Tops
    <3>2. CASE p \notin Files!Tops
      <4>1. PICK x \in Names, y \in Names : p = <<x, y>>
        BY <3>2 DEF Files!Paths
      <4> QED BY <1>2, <4>1
    <3> QED BY <3>1, <3>2
  <2> QED BY <2>1
<1>4. \A p \in Files!Paths : (Len(p) = 1 \/ Len(p) = 2) /\ (Len(p) = 1 <=> p \in Files!Tops)
  BY Lengths
<1>5. Files!Root \in Seq(Names) /\ Len(Files!Root) = 0
  BY DEF Files!Root
<1>6. ASSUME NEW p \in Seq(Names), Len(p) = 1 PROVE p \in Files!Tops
  <2>1. PICK x \in Names : x = p[1]
    BY <1>6
  <2>2. p = <<x>>
    BY <1>6, <2>1
  <2> QED BY <2>2 DEF Files!Tops
<1>7. ASSUME NEW p \in Seq(Names), Len(p) = 2 PROVE p \in Files!Paths
  <2>1. p = <<p[1], p[2]>> /\ p[1] \in Names /\ p[2] \in Names
    BY <1>7
  <2> QED BY <2>1 DEF Files!Paths
<1> QED BY <1>3, <1>4, <1>5, <1>6, <1>7 DEF Files!Paths

LEMMA ByMember ==
    ASSUME NEW p \in Seq(Names), NEW q \in Seq(Names)
    PROVE  /\ Files!IsPrefix(p, q) <=> Len(p) <= Len(q) /\ \A i \in 1..Len(p) : p[i] = q[i]
           /\ p = q <=> Len(p) = Len(q) /\ \A i \in 1..Len(p) : p[i] = q[i]
<1>1. p = q <=> Len(p) = Len(q) /\ \A i \in 1..Len(p) : p[i] = q[i]
  OBVIOUS
<1>2. SubSeq(p, 1, Len(p)) = p
  OBVIOUS
<1>3. ASSUME Len(p) <= Len(q)
      PROVE  p = SubSeq(q, 1, Len(p)) <=> \A i \in 1..Len(p) : p[i] = q[i]
  <2>1. PICK s : s = SubSeq(q, 1, Len(p))
    OBVIOUS
  <2>2. s \in Seq(Names) /\ Len(s) = Len(p) /\ \A i \in 1..Len(p) : s[i] = q[i]
    BY <1>3, <2>1
  <2>3. p = s <=> \A i \in 1..Len(p) : p[i] = s[i]
    BY <2>2
  <2> QED BY <2>1, <2>2, <2>3
<1> QED BY <1>1, <1>2, <1>3 DEF Files!IsPrefix

LEMMA PlaceShape == \A p \in Spots : p \in Seq(Names) /\ Len(p) \in 0..2 /\ (p # Files!Root => p \in Files!Paths)
<1>1. ASSUME NEW p \in Files!Paths PROVE p \in Seq(Names) /\ Len(p) \in 0..2
  BY PathShape
<1>2. Files!Root \in Seq(Names) /\ Len(Files!Root) \in 0..2
  BY PathShape
<1> QED BY <1>1, <1>2 DEF Spots

LEMMA PrefixOrder ==
    /\ \A p \in Spots : Files!IsPrefix(p, p) /\ Files!IsPrefix(Files!Root, p)
    /\ \A p, q, o \in Spots : Files!IsPrefix(p, q) /\ Files!IsPrefix(q, o) => Files!IsPrefix(p, o)
    /\ \A p, q, o \in Spots : Files!IsPrefix(p, o) /\ Files!IsPrefix(q, o) => Files!Near(p, q)
    /\ \A p, q \in Spots : Files!IsPrefix(p, q) /\ Len(p) = Len(q) => p = q
    /\ \A p, q \in Spots : Files!IsPrefix(p, q) => Len(p) <= Len(q)
<1>1. ASSUME NEW p \in Spots, NEW q \in Spots
      PROVE  /\ Files!IsPrefix(p, q) <=> Len(p) <= Len(q) /\ \A i \in 1..Len(p) : p[i] = q[i]
             /\ p = q <=> Len(p) = Len(q) /\ \A i \in 1..Len(p) : p[i] = q[i]
  BY PlaceShape, ByMember
<1>2. \A p \in Spots : Len(p) \in Nat
  BY PlaceShape
<1>3. Files!Root \in Spots /\ Len(Files!Root) = 0
  BY PathShape DEF Spots
<1> QED BY <1>1, <1>2, <1>3 DEF Files!Near

LEMMA UnderFacts ==
    ASSUME NEW p \in Files!Tops \cup {Files!Root}, NEW x \in Names
    PROVE  /\ Files!Under(p, x) \in Files!Paths /\ Len(Files!Under(p, x)) = Len(p) + 1
           /\ Files!IsPrefix(p, Files!Under(p, x)) /\ Files!Last(Files!Under(p, x)) = x
           /\ Files!Front(Files!Under(p, x)) = p
           /\ \A y \in Names : Files!Under(p, x) = Files!Under(p, y) => x = y
<1>1. p \in Seq(Names) /\ p \in Spots
  BY PathShape DEF Spots
<1>2. ASSUME NEW y \in Names
      PROVE  /\ Append(p, y) \in Seq(Names) /\ Len(Append(p, y)) = Len(p) + 1
             /\ \A i \in 1..Len(p) : Append(p, y)[i] = p[i]
             /\ Append(p, y)[Len(p) + 1] = y
  BY <1>1
<1>3. Files!IsPrefix(p, Append(p, x))
  <2>1. PICK w : w = Append(p, x)
    OBVIOUS
  <2>2. w \in Seq(Names) /\ Len(p) <= Len(w) /\ \A i \in 1..Len(p) : p[i] = w[i]
    BY <1>1, <1>2, <2>1
  <2>3. Files!IsPrefix(p, w)
    BY <1>1, <2>2, ByMember
  <2> QED BY <2>1, <2>3
<1>4. SubSeq(Append(p, x), 1, Len(p)) = p
  BY <1>1
<1>5. Files!Under(p, x) \in Files!Paths
  BY PathFacts
<1> QED BY <1>1, <1>2, <1>3, <1>4, <1>5 DEF Files!Under, Files!Last, Files!Front

LEMMA FrontFacts ==
    ASSUME NEW p \in Files!Paths, Len(p) = 2
    PROVE  /\ Files!Front(p) \in Files!Tops /\ Files!Front(p) \in Files!Paths /\ Files!IsPrefix(Files!Front(p), p)
           /\ Files!Last(p) \in Names /\ p = Files!Under(Files!Front(p), Files!Last(p))
           /\ Files!Front(p) # p
           /\ \A u \in Files!Paths : Files!IsPrefix(u, p) => u = p \/ u = Files!Front(p)
<1>1. p \in Seq(Names)
  BY PathShape
<1>2. PICK f : f = SubSeq(p, 1, 1)
  OBVIOUS
<1>3. f \in Seq(Names) /\ Len(f) = 1 /\ f[1] = p[1]
  BY <1>1, <1>2
<1>4. Files!Front(p) = f /\ Files!Last(p) = p[2]
  BY <1>2 DEF Files!Front, Files!Last
<1>5. f \in Files!Tops /\ f \in Files!Paths /\ Files!IsPrefix(f, p)
  BY <1>1, <1>3, PathShape, ByMember
<1>6. p[2] \in Names /\ Append(f, p[2]) = p
  <2>1. p[2] \in Names
    BY <1>1
  <2>2. PICK x \in Names : x = p[2]
    BY <2>1
  <2>3. PICK w : w = Append(f, x)
    OBVIOUS
  <2>4. w \in Seq(Names) /\ Len(w) = 2 /\ w[1] = f[1] /\ w[2] = x
    BY <1>3, <2>2, <2>3
  <2>5. w = p
    BY <1>1, <1>3, <2>2, <2>4
  <2> QED BY <2>1, <2>2, <2>3, <2>5
<1>7. ASSUME NEW u \in Files!Paths, Files!IsPrefix(u, p) PROVE u = p \/ u = f
  <2>1. u \in Seq(Names) /\ (Len(u) = 1 \/ Len(u) = 2)
    BY PathShape
  <2>2. \A i \in 1..Len(u) : u[i] = p[i]
    BY <1>1, <1>7, <2>1, ByMember
  <2>3. CASE Len(u) = 1
    BY <1>3, <2>1, <2>2, <2>3, ByMember
  <2>4. CASE Len(u) = 2
    BY <1>1, <2>1, <2>2, <2>4, ByMember
  <2> QED BY <2>1, <2>3, <2>4
<1>8. f # p
  <2>1. f = p => Len(p) = 1
    BY <1>3, Zenon
  <2>2. 1 # 2
    OBVIOUS
  <2> QED BY <2>1, <2>2, Zenon
<1> QED BY <1>4, <1>5, <1>6, <1>7, <1>8, Zenon DEF Files!Under

-------------------------------------------------------------------------------
(* A request is made.                                                        *)

LEMMA KeepsRequest ==
    ASSUME FilesInv, Files!Request
    PROVE  FilesInv'
<1> DEFINE AskedFor(kind, name, path, to, flag) ==
        [Files!Fresh EXCEPT !.kind = kind, !.pc = Files!FirstStep(kind, flag), !.name = name,
                      !.path = path, !.to = to, !.flag = flag]
           AskedBy(r, m) ==
        LET met == {s \in Files!Reqs : Files!Active(s) /\ Files!Conflict(m, req[s])}
            alone == met = {} /\ \A s \in Files!Reqs : Files!Active(s) => req[s].clean
        IN req' = [s \in Files!Reqs |-> IF s = r THEN [m EXCEPT !.clean = alone]
                                  ELSE IF s \in met THEN [req[s] EXCEPT !.clean = FALSE]
                                  ELSE req[s]]
<1>0. UNCHANGED <<tree, uploads, node, archive>>
  BY DEF Files!Request
<1>a. PICK r \in Files!Reqs :
        /\ req[r].pc = "new"
        /\ \E kind \in Files!Kinds, name \in Names \cup {None},
              path \in Files!Paths \cup {Files!Root}, to \in Files!Paths \cup {Files!Root}, flag \in BOOLEAN :
             /\ Files!Arguments(kind, name, path, to, flag)
             /\ AskedBy(r, AskedFor(kind, name, path, to, flag))
  BY Zenon DEF Files!Request
<1>b. PICK kind \in Files!Kinds, name \in Names \cup {None},
           path \in Files!Paths \cup {Files!Root}, to \in Files!Paths \cup {Files!Root}, flag \in BOOLEAN :
        /\ Files!Arguments(kind, name, path, to, flag)
        /\ AskedBy(r, AskedFor(kind, name, path, to, flag))
  BY <1>a, Zenon
<1>1. PICK m : m = AskedFor(kind, name, path, to, flag)
  OBVIOUS
<1>c. PICK met : met = {s \in Files!Reqs : Files!Active(s) /\ Files!Conflict(m, req[s])}
  OBVIOUS
<1>5. PICK b \in BOOLEAN : b = (met = {} /\ \A s \in Files!Reqs : Files!Active(s) => req[s].clean)
  OBVIOUS
<1>2. req' = [s \in Files!Reqs |-> IF s = r THEN [m EXCEPT !.clean = b]
                             ELSE IF s \in met THEN [req[s] EXCEPT !.clean = FALSE]
                             ELSE req[s]]
  BY <1>1, <1>5, <1>b, <1>c, Zenon
<1>3. /\ Files!FirstStep(kind, flag) \in {"stage", "unpack", "check"}
      /\ (Files!FirstStep(kind, flag) = "stage" => kind = "upload")
  BY DEF Files!FirstStep
<1>4. /\ m \in RequestType /\ m.kind = kind /\ m.pc = Files!FirstStep(kind, flag) /\ m.name = name
      /\ m.left = << >> /\ m.path = path /\ m.to = to
  <2>1. << >> \in Seq(Items) /\ 0 \in Nat /\ {} \in SUBSET (0..MaxFileRequests)
    OBVIOUS
  <2>2. /\ Files!Root \in Files!Paths \cup {Files!Root}
        /\ None \in Files!Kinds \cup {None} /\ None \in Names \cup {None}
        /\ kind \in Files!Kinds \cup {None}
    OBVIOUS
  <2>3. Files!Fresh \in RequestType /\ Files!Fresh.left = << >>
    BY <2>1, <2>2, Zenon DEF Files!Fresh, RequestType, FilePlaces, Files!Root
  <2>4. Files!FirstStep(kind, flag) \in FilePlaces
    BY <1>3 DEF FilePlaces
  <2> HIDE DEF Files!FirstStep, Files!Fresh
  <2> QED BY <1>1, <2>2, <2>3, <2>4, Zenon DEF RequestType
<1>6. PICK n : n = [m EXCEPT !.clean = b]
  OBVIOUS
<1>7. /\ n \in RequestType /\ n.kind = kind /\ n.pc = Files!FirstStep(kind, flag) /\ n.name = name
      /\ n.left = << >> /\ n.path = path /\ n.to = to
  BY <1>4, <1>6, Zenon DEF RequestType
<1>8. req'[r] = n
  BY <1>2, <1>5, <1>6
<1>9. ASSUME NEW s \in Files!Reqs, s # r
      PROVE  /\ req'[s] \in RequestType /\ req'[s].kind = req[s].kind /\ req'[s].pc = req[s].pc
             /\ req'[s].name = req[s].name /\ req'[s].left = req[s].left /\ req'[s].src = req[s].src
             /\ req'[s].path = req[s].path /\ req'[s].to = req[s].to
  <2>1. req[s] \in RequestType
    BY DEF FilesInv
  <2>2. PICK c : c = [req[s] EXCEPT !.clean = FALSE]
    OBVIOUS
  <2>3. /\ c \in RequestType /\ c.kind = req[s].kind /\ c.pc = req[s].pc
        /\ c.name = req[s].name /\ c.left = req[s].left /\ c.src = req[s].src
        /\ c.path = req[s].path /\ c.to = req[s].to
    BY <2>1, <2>2, Zenon DEF RequestType
  <2>4. req'[s] = c \/ req'[s] = req[s]
    BY <1>2, <1>9, <2>2
  <2> QED BY <2>1, <2>3, <2>4
<1>10. req' \in [Files!Reqs -> RequestType]
  <2>1. \A s \in Files!Reqs : req'[s] \in RequestType
    BY <1>7, <1>8, <1>9
  <2> QED BY <1>2, <2>1
<1>11. Checked' = Checked /\ Len(node') = Len(node)
  BY <1>0 DEF Checked, Files!Refused, Files!TooMany
<1>12. \A s \in Files!Reqs : InHand(req'[s], Len(node), Checked)
  <2>1. ASSUME NEW s \in Files!Reqs, s # r PROVE InHand(req'[s], Len(node), Checked)
    <3>1. InHand(req[s], Len(node), Checked)
      BY DEF FilesInv
    <3> QED BY <1>9, <2>1, <3>1 DEF InHand
  <2>2. InHand(n, Len(node), Checked)
    <3>1. /\ kind \in {"upload", "import"} => name \in Names
          /\ kind = "write" => to \in Files!Paths
          /\ kind = "extract" => to \in Files!Tops \cup {Files!Root}
          /\ kind \in {"copy", "move", "remove", "read", "extract"} => path \in Files!Paths
      BY <1>b DEF Files!Arguments
    <3>2. /\ n.pc \in {"stage", "unpack", "check"} /\ (n.pc = "stage" => n.kind = "upload")
          /\ n.kind = kind
      BY <1>3, <1>7
    <3> QED BY <1>7, <3>1, <3>2 DEF InHand
  <2> QED BY <1>8, <2>1, <2>2
<1>13. ASSUME NEW s \in Files!Reqs, Wrote(s) PROVE Wrote(s)'
  BY <1>a, <1>9, <1>11, <1>13 DEF Wrote
<1>14. ASSUME NEW i \in 1..Len(node), NEW s \in node[i].from \ {0} PROVE s \in Files!Reqs /\ Wrote(s)
  <2>1. node[i] \in Contents /\ Wrote(s)
    BY DEF FilesInv
  <2>2. node[i].from \subseteq 0..MaxFileRequests
    BY <2>1 DEF Contents
  <2> QED BY <2>1, <2>2, FilesAssumption DEF Files!Reqs
<1>15. \A i \in 1..Len(node') : \A s \in node'[i].from \ {0} : Wrote(s)'
  BY <1>0, <1>13, <1>14
<1>16. (tree \in Trees(Len(node)))'
  BY <1>0, <1>11 DEF FilesInv, Trees
<1> HIDE DEF Wrote
<1> QED BY <1>0, <1>10, <1>11, <1>12, <1>15, <1>16 DEF FilesInv

-------------------------------------------------------------------------------
(* Uploads, and what writes one file.                                        *)

LEMMA MoreNodes ==
    ASSUME NEW n \in Nat, NEW m \in Nat, n <= m
    PROVE  Trees(n) \subseteq Trees(m) /\ Stagings(n) \subseteq Stagings(m)
BY DEF Trees, Stagings

LEMMA OwnContent ==
    ASSUME NEW r \in Files!Reqs PROVE [from |-> {r}, whole |-> TRUE] \in Contents
BY FilesAssumption DEF Contents, Files!Reqs

LEMMA KeepsStage ==
    ASSUME FilesInv, NEW r \in Files!Reqs, Files!Stage(r)
    PROVE  FilesInv'
<1>1. req[r] \in RequestType /\ InHand(req[r], Len(node), Checked) /\ req[r].pc = "stage"
  BY DEF FilesInv, Files!Stage, Files!At
<1>2. req[r].kind = "upload" /\ req[r].name \in Names
  BY <1>1 DEF InHand
<1>3. PICK e \in Entries : e = uploads[req[r].name] /\ (e.is = "file" => e.node \in 1..Len(node))
  BY <1>2 DEF FilesInv, Stagings
<1>4. /\ node' = Files!Emptied(e) /\ req' = [req EXCEPT ![r].pc = "staged", ![r].dst = Files!Opened(e)]
      /\ uploads' = [uploads EXCEPT ![req[r].name] = Files!File(Files!Opened(e))]
      /\ UNCHANGED <<tree, archive>>
  BY <1>3 DEF Files!Stage, Files!StagedAs
<1>5. PICK q : q = [req[r] EXCEPT !.pc = "staged", !.dst = Files!Opened(e)]
  OBVIOUS
<1>6. Files!Opened(e) \in Nat
  BY <1>3, OpenFacts
<1>7. /\ q \in RequestType /\ q.pc = "staged" /\ q.kind = req[r].kind /\ q.name = req[r].name
      /\ q.left = req[r].left /\ q.path = req[r].path /\ q.to = req[r].to
  BY <1>1, <1>5, <1>6, Zenon DEF RequestType, FilePlaces
<1>8. req' = [req EXCEPT ![r] = q]
  BY <1>4, <1>5, Zenon
<1>9. Checked' = Checked
  BY <1>4 DEF Checked, Files!Refused, Files!TooMany
<1>10. Len(node) \in Nat /\ Len(node') \in Nat /\ Len(node) <= Len(node') /\ node' \in Seq(Contents)
  <2>1. node \in Seq(Contents)
    BY DEF FilesInv
  <2> QED BY <1>3, <1>4, <2>1, OpenFacts
<1>11. tree' \in Trees(Len(node')) /\ uploads' \in Stagings(Len(node'))
  <2>1. tree \in Trees(Len(node')) /\ uploads \in Stagings(Len(node'))
    BY <1>10, MoreNodes DEF FilesInv
  <2>2. Files!File(Files!Opened(e)) \in Entries /\ Files!File(Files!Opened(e)).node \in 1..Len(node')
    BY <1>3, <1>4, OpenFacts
  <2>3. [uploads EXCEPT ![req[r].name] = Files!File(Files!Opened(e))] \in Stagings(Len(node'))
    BY <2>1, <2>2 DEF Stagings
  <2> QED BY <1>4, <2>1, <2>3
<1>12. InHand(q, Len(node'), Checked')
  BY <1>1, <1>2, <1>7 DEF InHand
<1>13. \A n \in 1..Len(node') : \A s \in node'[n].from : \E m \in 1..Len(node) : s \in node[m].from
  BY <1>3, <1>4, OpenFacts
<1>14. req[r].pc # "new" /\ q.pc # "new" /\ archive' \in Archives \cup {None} /\ archive' = archive
  BY <1>1, <1>4, <1>7 DEF FilesInv
<1> QED BY <1>7, <1>8, <1>10, <1>11, <1>12, <1>13, <1>14, Keeps

\* An inode is written: with bytes of r, or with what another inode holds.
LEMMA KeepsWrite ==
    ASSUME FilesInv, NEW r \in Files!Reqs, req[r].pc # "new",
           NEW q \in RequestType, req' = [req EXCEPT ![r] = q],
           q.kind = req[r].kind, q.pc # "new", InHand(q, Len(node), Checked),
           NEW d \in Nat, NEW c, node' = [node EXCEPT ![d] = c], UNCHANGED <<tree, uploads, archive>>,
           \/ c = [from |-> {r}, whole |-> TRUE] /\ (q.kind = "extract" => Checked)
           \/ \E m \in 1..Len(node) : c = node[m]
    PROVE  FilesInv'
<1>1. node \in Seq(Contents) /\ Len(node) \in Nat
  BY DEF FilesInv
<1>2. c \in Contents
  <2>1. \A m \in 1..Len(node) : node[m] \in Contents
    BY <1>1
  <2>2. CASE c = [from |-> {r}, whole |-> TRUE]
    BY <2>2, OwnContent
  <2>3. CASE \E m \in 1..Len(node) : c = node[m]
    BY <2>1, <2>3
  <2> QED BY <2>2, <2>3
<1>3. node' \in Seq(Contents) /\ Len(node') = Len(node)
  <2>1. CASE d \in 1..Len(node)
    BY <1>1, <1>2, <2>1
  <2>2. CASE d \notin 1..Len(node)
    <3>1. node' = node
      BY <1>1, <2>2
    <3> QED BY <1>1, <3>1
  <2> QED BY <2>1, <2>2
<1>4. \A n \in 1..Len(node) : node'[n] = c \/ node'[n] = node[n]
  BY <1>1
<1>5. Checked' = Checked
  BY DEF Checked, Files!Refused, Files!TooMany
<1>6. \A n \in 1..Len(node') : \A s \in node'[n].from \ {0} :
               \/ s = r /\ (q.kind = "extract" => Checked')
               \/ \E m \in 1..Len(node) : s \in node[m].from
  <2>1. CASE c = [from |-> {r}, whole |-> TRUE] /\ (q.kind = "extract" => Checked)
    <3>1. \A s \in c.from : s = r
      BY <2>1
    <3> QED BY <1>3, <1>4, <1>5, <2>1, <3>1
  <2>2. CASE \E m \in 1..Len(node) : c = node[m]
    BY <1>3, <1>4, <2>2
  <2> QED BY <2>1, <2>2
<1>7. /\ tree' \in Trees(Len(node'))
      /\ uploads' \in Stagings(Len(node')) /\ archive' \in Archives \cup {None}
      /\ InHand(q, Len(node'), Checked') /\ Len(node) <= Len(node')
  BY <1>1, <1>3, <1>5 DEF FilesInv
<1> QED BY <1>3, <1>6, <1>7, Keeps

LEMMA KeepsStaged ==
    ASSUME FilesInv, NEW r \in Files!Reqs, Files!Staged(r)
    PROVE  FilesInv'
<1>1. req[r] \in RequestType /\ InHand(req[r], Len(node), Checked) /\ req[r].pc = "staged"
  BY DEF FilesInv, Files!Staged, Files!At
<1>2. req[r].kind = "upload"
  BY <1>1 DEF InHand
<1>3. PICK pc \in {"unpack", "check"} : req' = [req EXCEPT ![r].pc = pc]
  BY DEF Files!Staged, Files!Go
<1>4. PICK q : q = [req[r] EXCEPT !.pc = pc]
  OBVIOUS
<1>5. /\ q \in RequestType /\ q.pc = pc /\ q.kind = req[r].kind /\ q.name = req[r].name
      /\ q.left = req[r].left /\ q.path = req[r].path /\ q.to = req[r].to
  BY <1>1, <1>4, Zenon DEF RequestType, FilePlaces
<1>6. req' = [req EXCEPT ![r] = q]
  BY <1>3, <1>4, Zenon
<1>7. InHand(q, Len(node), Checked)
  BY <1>1, <1>2, <1>5 DEF InHand
<1>8. /\ node' = [node EXCEPT ![req[r].dst] = [from |-> {r}, whole |-> TRUE]]
      /\ UNCHANGED <<tree, uploads, archive>>
  BY DEF Files!Staged
<1>9. q.kind # "extract" /\ q.pc # "new" /\ req[r].pc # "new" /\ req[r].dst \in Nat
  <2>1. req[r].dst \in Nat
    BY <1>1, Zenon DEF RequestType
  <2> QED BY <1>1, <1>2, <1>5, <2>1
<1> QED BY <1>5, <1>6, <1>7, <1>8, <1>9, KeepsWrite

LEMMA KeepsUnpack ==
    ASSUME FilesInv, NEW r \in Files!Reqs, Files!Unpack(r)
    PROVE  FilesInv'
BY KeepsFailing DEF Files!Unpack, Files!At

\* One thing is to be copied.
LEMMA OneItem ==
    ASSUME NEW q, NEW i \in Items, q.left = <<i>>
    PROVE  /\ q.left \in Seq(Items) /\ \A k \in 1..Len(q.left) : q.left[k] = i
OBVIOUS

LEMMA KeepsImport ==
    ASSUME FilesInv, NEW r \in Files!Reqs, Files!Import(r)
    PROVE  FilesInv'
<1>1. req[r] \in RequestType /\ InHand(req[r], Len(node), Checked) /\ req[r].pc = "check"
  BY DEF FilesInv, Files!Import, Files!At
<1>2. req[r].kind \in {"upload", "import"} /\ req[r].name \in Names
  BY <1>1 DEF InHand, Files!Import
<1>3. CASE Files!Fail(r)
  BY <1>1, <1>3, KeepsFailing
<1>4. ASSUME ~Files!Fail(r) PROVE FilesInv'
  <2>1. PICK to \in Files!Paths :
          /\ tree' = Files!ParentMade(to)
          /\ req' = [req EXCEPT ![r].pc = "open", ![r].to = to,
                                ![r].left = <<[from |-> Files!Root, to |-> to, kind |-> "staged"]>>]
          /\ UNCHANGED <<uploads, node, archive>>
    BY <1>4 DEF Files!Import
  <2>2. PICK i : i = [from |-> Files!Root, to |-> to, kind |-> "staged"]
    OBVIOUS
  <2>3. i \in Items /\ i.kind = "staged"
    BY <2>2 DEF Items
  <2>4. PICK q : q = [req[r] EXCEPT !.pc = "open", !.to = to, !.left = <<i>>]
    OBVIOUS
  <2>5. <<i>> \in Seq(Items)
    BY <2>3
  <2>6. /\ q \in RequestType /\ q.pc = "open" /\ q.kind = req[r].kind /\ q.name = req[r].name
        /\ q.left = <<i>>
    BY <1>1, <2>4, <2>5, Zenon DEF RequestType, FilePlaces
  <2>7. req' = [req EXCEPT ![r] = q]
    BY <2>1, <2>2, <2>4, Zenon
  <2>8. InHand(q, Len(node), Checked)
    BY <1>2, <2>3, <2>6, OneItem DEF InHand
  <2>9. tree' \in Trees(Len(node)) /\ req[r].pc # "new" /\ q.pc # "new"
    BY <1>1, <2>1, <2>6, ParentFacts
  <2> QED BY <2>1, <2>6, <2>7, <2>8, <2>9, KeepsOn
<1> QED BY <1>3, <1>4

LEMMA KeepsWriteText ==
    ASSUME FilesInv, NEW r \in Files!Reqs, Files!WriteText(r)
    PROVE  FilesInv'
<1>1. /\ req[r] \in RequestType /\ InHand(req[r], Len(node), Checked) /\ req[r].pc = "check"
      /\ req[r].kind = "write"
  BY DEF FilesInv, Files!WriteText, Files!At
<1>3. CASE Files!Fail(r)
  BY <1>1, <1>3, KeepsFailing
<1>4. ASSUME ~Files!Fail(r) PROVE FilesInv'
  <2>1. /\ tree' = Files!ParentMade(req[r].to)
        /\ req' = [req EXCEPT ![r].pc = "open",
                              ![r].left = <<[from |-> Files!Root, to |-> req[r].to, kind |-> "own"]>>]
        /\ UNCHANGED <<uploads, node, archive>>
    BY <1>4 DEF Files!WriteText
  <2>2. PICK i : i = [from |-> Files!Root, to |-> req[r].to, kind |-> "own"]
    OBVIOUS
  <2>3. i \in Items /\ i.kind = "own"
    BY <1>1, <2>2 DEF Items, InHand
  <2>4. PICK q : q = [req[r] EXCEPT !.pc = "open", !.left = <<i>>]
    OBVIOUS
  <2>5. <<i>> \in Seq(Items)
    BY <2>3
  <2>6. /\ q \in RequestType /\ q.pc = "open" /\ q.kind = req[r].kind /\ q.name = req[r].name
        /\ q.left = <<i>> /\ q.to = req[r].to
    BY <1>1, <2>4, <2>5, Zenon DEF RequestType, FilePlaces
  <2>7. req' = [req EXCEPT ![r] = q]
    BY <2>1, <2>2, <2>4, Zenon
  <2>8. InHand(q, Len(node), Checked)
    BY <1>1, <2>3, <2>6, OneItem DEF InHand
  <2>9. tree' \in Trees(Len(node)) /\ req[r].pc # "new" /\ q.pc # "new"
    BY <1>1, <2>1, <2>6, ParentFacts
  <2> QED BY <2>1, <2>6, <2>7, <2>8, <2>9, KeepsOn
<1> QED BY <1>3, <1>4

-------------------------------------------------------------------------------
(* Copies, extractions and removals of what a directory holds.               *)

\* Off links, what a request is about to work on is not one.
LEMMA NotAstray ==
    ASSUME NEW r \in Files!Reqs, ~Files!Astray(r)
    PROVE  req[r].pc \in {"check", "read", "rename"} =>
             /\ (req[r].path \in Files!Paths => tree[req[r].path].is # "link")
             /\ (req[r].to \in Files!Paths => tree[req[r].to].is # "link")
<1>1. ASSUME NEW p \in Files!Paths, p \in Files!NextPaths(req[r]) PROVE tree[p].is # "link"
  <2>1. ~Files!OnLink(p)
    BY <1>1 DEF Files!Astray
  <2>2. Files!IsPrefix(p, p)
    BY PrefixOrder DEF Spots
  <2> QED BY <1>1, <2>1, <2>2 DEF Files!OnLink
<1>2. req[r].pc \in {"check", "read", "rename"} => req[r].path \in Files!NextPaths(req[r]) /\ req[r].to \in Files!NextPaths(req[r])
  BY DEF Files!NextPaths
<1> QED BY <1>1, <1>2

LEMMA KeepsCopyPath ==
    ASSUME FilesInv, NEW r \in Files!Reqs, Files!CopyPath(r), ~Files!Astray(r)
    PROVE  FilesInv'
<1>1. /\ req[r] \in RequestType /\ InHand(req[r], Len(node), Checked) /\ req[r].pc = "check"
      /\ req[r].kind = "copy"
  BY Zenon DEF FilesInv, Files!CopyPath, Files!At
<1>2. CASE Files!Fail(r)
  BY <1>1, <1>2, KeepsFailing
<1>3. ASSUME ~Files!Fail(r) PROVE FilesInv'
  <2> DEFINE p == req[r].path
             to == req[r].to
             items(names, target) ==
               IF tree[p].is = "file" THEN <<[from |-> p, to |-> target, kind |-> "path"]>>
               ELSE [k \in 1..Len(names) |->
                       [from |-> Files!Under(p, names[k]), to |-> Files!Under(to, names[k]), kind |-> "path"]]
  <2>0. PICK target : target = IF tree[p].is = "file" /\ tree[to].is = "dir" THEN Files!Under(to, Files!Last(p)) ELSE to
    OBVIOUS
  <2>1.   /\ target \in Files!Paths
          /\ tree[p].is # "none" /\ (tree[p].is = "dir" => to \in Files!Tops)
          /\ tree' = IF tree[p].is = "dir" THEN [tree EXCEPT ![to] = Files!Directory] ELSE Files!ParentMade(target)
          /\ \E names \in Files!Listings(p) :
               req' = [req EXCEPT ![r].pc = "open", ![r].left = items(names, target), ![r].to = target,
                                  ![r].src = tree[p].node]
          /\ UNCHANGED <<uploads, node, archive>>
    BY <1>3, <2>0, Zenon DEF Files!CopyPath
  <2>2. PICK names \in Files!Listings(p) :
          req' = [req EXCEPT ![r].pc = "open", ![r].left = items(names, target), ![r].to = target,
                             ![r].src = tree[p].node]
    BY <2>1
  <2>3. PICK left : left = items(names, target)
    OBVIOUS
  <2>4. p \in Files!Paths /\ tree[p] \in Entries
    BY <1>1 DEF InHand, FilesInv, Trees
  <2>5. left \in Seq(Items) /\ \A k \in 1..Len(left) : left[k].kind = "path" /\ left[k].from \in Files!Paths
    <3>1. CASE tree[p].is = "file"
      <4>1. PICK i : i = [from |-> p, to |-> target, kind |-> "path"]
        OBVIOUS
      <4>2. i \in Items /\ i.kind = "path" /\ i.from = p
        BY <2>1, <2>4, <4>1 DEF Items
      <4>3. left = <<i>>
        BY <2>3, <3>1, <4>1
      <4> QED BY <2>4, <4>2, <4>3
    <3>2. CASE tree[p].is # "file"
      <4>1. tree[p].is = "dir"
        <5>1. tree[p].is # "link"
          BY <1>1, <2>4, NotAstray
        <5> QED BY <2>1, <2>4, <3>2, <5>1 DEF Entries
      <4>2. names \in Seq(Names) /\ \A k \in 1..Len(names) : Files!Under(p, names[k]) \in Files!Paths
        BY <2>4, ListingFacts
      <4>3. \A k \in 1..Len(names) : Files!Under(to, names[k]) \in Files!Paths
        <5>0. to \in Files!Tops
          BY <2>1, <4>1
        <5>1. to \in Files!Tops /\ \A k \in 1..Len(names) : names[k] \in Names
          BY <5>0, <4>2
        <5>2. ASSUME NEW k \in 1..Len(names) PROVE Files!Under(to, names[k]) \in Files!Paths
          BY <5>1, PathFacts, Zenon
        <5> QED BY <5>2
      <4>4. \A k \in 1..Len(names) :
              [from |-> Files!Under(p, names[k]), to |-> Files!Under(to, names[k]), kind |-> "path"] \in Items
        BY <4>2, <4>3 DEF Items
      <4>5. left = [k \in 1..Len(names) |->
                      [from |-> Files!Under(p, names[k]), to |-> Files!Under(to, names[k]), kind |-> "path"]]
        BY <2>3, <3>2
      <4> QED BY <4>2, <4>4, <4>5
    <3> QED BY <3>1, <3>2
  <2> HIDE DEF items
  <2>6. PICK q : q = [req[r] EXCEPT !.pc = "open", !.left = left, !.to = target, !.src = tree[p].node]
    OBVIOUS
  <2>7. tree[p].node \in Nat /\ target \in Files!Paths \cup {Files!Root}
    BY <2>1, <2>4 DEF Entries
  <2>8. /\ q \in RequestType /\ q.pc = "open" /\ q.kind = req[r].kind /\ q.name = req[r].name
        /\ q.left = left /\ q.path = req[r].path
    BY <1>1, <2>5, <2>6, <2>7, Zenon DEF RequestType, FilePlaces
  <2>9. req' = [req EXCEPT ![r] = q]
    BY <2>2, <2>3, <2>6, Zenon
  <2>10. InHand(q, Len(node), Checked)
    BY <1>1, <2>4, <2>5, <2>8 DEF InHand
  <2>11. tree' \in Trees(Len(node))
    <3>1. [tree EXCEPT ![to] = Files!Directory] \in Trees(Len(node))
      BY DirectoryFacts DEF FilesInv
    <3> QED BY <2>1, <3>1, ParentFacts
  <2>12. req[r].pc # "new" /\ q.pc # "new"
    BY <1>1, <2>8
  <2> QED BY <2>1, <2>8, <2>9, <2>10, <2>11, <2>12, KeepsOn
<1> QED BY <1>2, <1>3

\* The rest of what is left is fit when all of it was.
LEMMA TailFits ==
    ASSUME NEW s \in Seq(Items), s # << >>
    PROVE  /\ Tail(s) \in Seq(Items) /\ Head(s) \in Items /\ Head(s) = s[1] /\ 1 \in 1..Len(s)
           /\ \A k \in 1..Len(Tail(s)) : k + 1 \in 1..Len(s) /\ Tail(s)[k] = s[k + 1]
OBVIOUS

LEMMA FitsTail ==
    ASSUME FilesInv, NEW r \in Files!Reqs, req[r].pc # "new", req[r].left # << >>, NEW q,
           q.left = Tail(req[r].left), q.kind = req[r].kind, q.name = req[r].name, q.path = req[r].path,
           q.to = req[r].to, q.pc \in {"open", "unlink"},
           q.pc = "unlink" => q.kind = "remove",
           q.kind = "extract" /\ q.pc = "open" => Checked /\ q.src \in 1..Len(node)
    PROVE  InHand(q, Len(node), Checked)
<1>1. InHand(req[r], Len(node), Checked) /\ req[r].left \in Seq(Items)
  <2>1. req[r] \in RequestType
    BY DEF FilesInv
  <2>2. req[r].left \in Seq(Items)
    BY <2>1, Zenon DEF RequestType
  <2> QED BY <2>2 DEF FilesInv
<1>2. \A k \in 1..Len(q.left) : k + 1 \in 1..Len(req[r].left) /\ q.left[k] = req[r].left[k + 1]
  BY <1>1, TailFits
<1>3. \A k \in 1..Len(q.left) : /\ q.left[k].kind = "path" => q.left[k].from \in Files!Paths
                                /\ q.left[k].kind = "staged" => q.name \in Names
                                /\ q.left[k].kind \in {"own", "staged", "path"} <=> q.kind # "extract"
  BY <1>1, <1>2 DEF InHand
<1> QED BY <1>1, <1>3 DEF InHand

LEMMA KeepsRemovePath ==
    ASSUME FilesInv, NEW r \in Files!Reqs, Files!RemovePath(r)
    PROVE  FilesInv'
<1>1. /\ req[r] \in RequestType /\ InHand(req[r], Len(node), Checked) /\ req[r].pc = "check"
      /\ req[r].kind = "remove"
  BY DEF FilesInv, Files!RemovePath, Files!At
<1>2. CASE Files!Fail(r)
  BY <1>1, <1>2, KeepsFailing
<1>3. CASE /\ tree' = [tree EXCEPT ![req[r].path] = Files!Missing]
           /\ Files!Go(r, "done") /\ UNCHANGED <<uploads, node, archive>>
  <2>1. tree' \in Trees(Len(node))
    BY <1>3, DirectoryFacts DEF FilesInv
  <2> QED BY <1>1, <1>3, <2>1, KeepsGoing
<1>4. ASSUME NEW names \in Files!Listings(req[r].path),
             req' = [req EXCEPT ![r].pc = "unlink",
                          ![r].left = [k \in 1..Len(names) |->
                                         [from |-> Files!Root, to |-> Files!Under(req[r].path, names[k]), kind |-> "own"]]],
             UNCHANGED <<tree, uploads, node, archive>>
      PROVE  FilesInv'
  <2>1. req[r].path \in Files!Paths
    BY <1>1 DEF InHand
  <2>2. names \in Seq(Names) /\ \A k \in 1..Len(names) : Files!Under(req[r].path, names[k]) \in Files!Paths
    BY <2>1, ListingFacts
  <2>3. PICK left : left = [k \in 1..Len(names) |->
                              [from |-> Files!Root, to |-> Files!Under(req[r].path, names[k]), kind |-> "own"]]
    OBVIOUS
  <2>4. \A k \in 1..Len(names) : [from |-> Files!Root, to |-> Files!Under(req[r].path, names[k]), kind |-> "own"] \in Items
    BY <2>2 DEF Items
  <2>5. left \in Seq(Items) /\ \A k \in 1..Len(left) : left[k].kind = "own"
    BY <2>2, <2>3, <2>4
  <2>6. PICK q : q = [req[r] EXCEPT !.pc = "unlink", !.left = left]
    OBVIOUS
  <2>7. /\ q \in RequestType /\ q.pc = "unlink" /\ q.kind = req[r].kind /\ q.name = req[r].name
        /\ q.left = left /\ q.path = req[r].path /\ q.to = req[r].to
    BY <1>1, <2>5, <2>6, Zenon DEF RequestType, FilePlaces
  <2>8. req' = [req EXCEPT ![r] = q]
    BY <1>4, <2>3, <2>6, Zenon
  <2>9. InHand(q, Len(node), Checked)
    BY <1>1, <2>1, <2>5, <2>7 DEF InHand
  <2>10. tree' \in Trees(Len(node)) /\ req[r].pc # "new" /\ q.pc # "new"
    BY <1>1, <1>4, <2>7 DEF FilesInv
  <2> QED BY <1>4, <2>7, <2>8, <2>9, <2>10, KeepsOn
<1> QED BY <1>2, <1>3, <1>4, Zenon DEF Files!RemovePath

LEMMA KeepsUnlink ==
    ASSUME FilesInv, NEW r \in Files!Reqs, Files!Unlink(r)
    PROVE  FilesInv'
<1>1. req[r] \in RequestType /\ InHand(req[r], Len(node), Checked) /\ req[r].pc = "unlink"
  BY DEF FilesInv, Files!Unlink, Files!At
<1>2. CASE Files!Fail(r)
  BY <1>1, <1>2, KeepsFailing
<1>3. ASSUME ~Files!Fail(r) PROVE FilesInv'
  <2>1. CASE req[r].left = << >>
    <3>1. /\ tree' = [tree EXCEPT ![req[r].path] = Files!Missing]
          /\ Files!Go(r, "done") /\ UNCHANGED <<uploads, node, archive>>
      BY <1>3, <2>1 DEF Files!Unlink
    <3>2. tree' \in Trees(Len(node))
      BY <3>1, DirectoryFacts DEF FilesInv
    <3>3. req[r].kind = "remove"
      BY <1>1 DEF InHand
    <3> QED BY <1>1, <3>1, <3>2, <3>3, KeepsGoing
  <2>2. CASE req[r].left # << >>
    <3>1. PICK p : tree' = [tree EXCEPT ![p] = Files!Missing]
      BY <1>3, <2>2, Zenon DEF Files!Unlink
    <3>2. req' = [req EXCEPT ![r].left = Tail(@)] /\ UNCHANGED <<uploads, node, archive>>
      BY <1>3, <2>2, Zenon DEF Files!Unlink
    <3>3. PICK q : q = [req[r] EXCEPT !.left = Tail(@)]
      OBVIOUS
    <3>4. req[r].left \in Seq(Items)
      BY <1>1, Zenon DEF RequestType
    <3>5. Tail(req[r].left) \in Seq(Items)
      BY <2>2, <3>4, TailFits
    <3>6. /\ q \in RequestType /\ q.pc = req[r].pc /\ q.kind = req[r].kind /\ q.name = req[r].name
          /\ q.left = Tail(req[r].left) /\ q.path = req[r].path /\ q.to = req[r].to
      BY <1>1, <3>3, <3>5, Zenon DEF RequestType, FilePlaces
    <3>7. req' = [req EXCEPT ![r] = q]
      BY <3>2, <3>3, Zenon
    <3>8. InHand(q, Len(node), Checked)
      <4>1. req[r].kind = "remove"
        BY <1>1 DEF InHand
      <4> QED BY <1>1, <2>2, <3>6, <4>1, FitsTail
    <3>9. tree' \in Trees(Len(node)) /\ req[r].pc # "new" /\ q.pc # "new"
      BY <1>1, <3>1, <3>6, DirectoryFacts DEF FilesInv
    <3> QED BY <3>2, <3>6, <3>7, <3>8, <3>9, KeepsOn
  <2> QED BY <2>1, <2>2
<1> QED BY <1>2, <1>3

-------------------------------------------------------------------------------
(* Open, copy and finish.                                                    *)

LEMMA NotItsFront ==
    \A p \in Files!Paths : Len(p) = 2 => Files!Front(p) # p
<1>1. ASSUME NEW p \in Files!Paths, Len(p) = 2 PROVE Files!Front(p) # p
  <2>0. p \notin Files!Tops
    BY <1>1, Lengths
  <2>1. p \in Seq(Names)
    <3>1. PICK x \in Names, y \in Names : p = <<x, y>>
      BY <2>0 DEF Files!Paths
    <3> QED BY <3>1
  <2>2. Files!Front(p) = SubSeq(p, 1, 1)
    BY <1>1 DEF Files!Front
  <2>3. Len(SubSeq(p, 1, 1)) = 1
    BY <1>1, <2>1, SubSeqProperties
  <2> QED BY <1>1, <2>2, <2>3
<1> QED BY <1>1

LEMMA KeepsOpen ==
    ASSUME FilesInv, NEW r \in Files!Reqs, Files!Open(r)
    PROVE  FilesInv'
<1>1. /\ req[r] \in RequestType /\ InHand(req[r], Len(node), Checked)
      /\ req[r].pc = "open" /\ req[r].left # << >>
      /\ req[r].left \in Seq(Items) /\ req[r].path \in Files!Paths \cup {Files!Root}
  <2>1. /\ req[r] \in RequestType /\ InHand(req[r], Len(node), Checked) /\ req[r].pc = "open"
        /\ req[r].left # << >>
    BY DEF FilesInv, Files!Open, Files!At
  <2> QED BY <2>1, Zenon DEF RequestType
<1>2. PICK item \in Items : item = Head(req[r].left) /\ item = req[r].left[1] /\ 1 \in 1..Len(req[r].left)
  BY <1>1, TailFits
<1>3. item.to \in Files!Paths /\ item.kind \in Files!Opens
  BY <1>2 DEF Items, Files!Open
<1>4. CASE Files!Fail(r)
  BY <1>1, <1>4, KeepsFailing
<1>5. CASE /\ req[r].kind = "copy"
           /\ req' = [req EXCEPT ![r].left = Tail(@), ![r].flag = TRUE]
           /\ UNCHANGED <<tree, uploads, node, archive>>
  <2>1. PICK q : q = [req[r] EXCEPT !.left = Tail(@), !.flag = TRUE]
    OBVIOUS
  <2>2. Tail(req[r].left) \in Seq(Items)
    BY <1>1, TailFits
  <2>3. /\ q \in RequestType /\ q.pc = req[r].pc /\ q.kind = req[r].kind /\ q.name = req[r].name
        /\ q.left = Tail(req[r].left) /\ q.path = req[r].path /\ q.to = req[r].to
    BY <1>1, <2>1, <2>2, Zenon DEF RequestType, FilePlaces
  <2>4. req' = [req EXCEPT ![r] = q]
    BY <1>5, <2>1, Zenon
  <2>5. InHand(q, Len(node), Checked)
    BY <1>1, <1>5, <2>3, FitsTail
  <2>6. tree' \in Trees(Len(node)) /\ req[r].pc # "new" /\ q.pc # "new"
    BY <1>1, <1>5, <2>3 DEF FilesInv
  <2> QED BY <1>5, <2>3, <2>4, <2>5, <2>6, KeepsOn
<1>6. CASE /\ Files!CanOpen(r, item)
           /\ node' = Files!Emptied(tree[item.to])
           /\ tree' = [Files!ParentMade(item.to) EXCEPT ![item.to] = Files!File(Files!Opened(@))]
           /\ req' = [req EXCEPT ![r].pc = "write", ![r].dst = Files!Opened(tree[item.to]),
                                 ![r].src = IF item.kind = "file" THEN @ ELSE Files!Source(r, item).node]
           /\ UNCHANGED <<uploads, archive>>
  <2>0. PICK src : src = IF item.kind = "file" THEN req[r].src ELSE Files!Source(r, item).node
    OBVIOUS
  <2>1. PICK e \in Entries : e = tree[item.to] /\ (e.is = "file" => e.node \in 1..Len(node))
    BY <1>3 DEF FilesInv, Trees
  <2>2. src \in Nat /\ (item.kind # "own" => src \in 1..Len(node))
    <3>1. CASE item.kind = "own"
      BY <2>0, <3>1 DEF Files!Source, Files!Missing
    <3>2. CASE item.kind = "staged"
      <4>1. uploads[req[r].name] \in Entries
            /\ (uploads[req[r].name].is = "file" => uploads[req[r].name].node \in 1..Len(node))
        BY <1>1, <1>2, <3>2 DEF InHand, FilesInv, Stagings
      <4>2. Files!Source(r, item) = uploads[req[r].name]
        BY <3>2 DEF Files!Source, Files!StagedAs
      <4> QED BY <1>6, <2>0, <3>2, <4>1, <4>2 DEF Files!CanOpen
    <3>3. CASE item.kind = "path"
      <4>1. /\ tree[item.from] \in Entries
            /\ (tree[item.from].is = "file" => tree[item.from].node \in 1..Len(node))
        BY <1>1, <1>2, <3>3 DEF InHand, FilesInv, Trees
      <4>2. Files!Source(r, item) = tree[item.from]
        BY <3>3 DEF Files!Source
      <4> QED BY <1>6, <2>0, <3>3, <4>1, <4>2 DEF Files!CanOpen
    <3>4. CASE item.kind = "file"
      <4>1. req[r].src \in 1..Len(node)
        BY <1>1, <1>2, <3>4 DEF InHand
      <4> QED BY <2>0, <3>4, <4>1
    <3> QED BY <1>3, <3>1, <3>2, <3>3, <3>4 DEF Files!Opens
  <2>3. PICK q : q = [req[r] EXCEPT !.pc = "write", !.dst = Files!Opened(e), !.src = src]
    OBVIOUS
  <2>4. Files!Opened(e) \in Nat
    BY <2>1, OpenFacts
  <2>5. /\ q \in RequestType /\ q.pc = "write" /\ q.kind = req[r].kind /\ q.name = req[r].name
        /\ q.left = req[r].left /\ q.path = req[r].path
        /\ q.to = req[r].to /\ q.src = src
    BY <1>1, <2>2, <2>3, <2>4, Zenon DEF RequestType, FilePlaces
  <2>6. req' = [req EXCEPT ![r] = q]
    BY <1>6, <2>0, <2>1, <2>3, Zenon
  <2>7. Checked' = Checked
    BY <1>6 DEF Checked, Files!Refused, Files!TooMany
  <2>8. Len(node) \in Nat /\ Len(node') \in Nat /\ Len(node) <= Len(node') /\ node' \in Seq(Contents)
    <3>1. node \in Seq(Contents)
      BY DEF FilesInv
    <3> QED BY <1>6, <2>1, <3>1, OpenFacts
  <2>9. tree' \in Trees(Len(node')) /\ uploads' \in Stagings(Len(node'))
    <3>1. uploads \in Stagings(Len(node')) /\ Files!ParentMade(item.to) \in Trees(Len(node'))
      BY <2>8, MoreNodes, ParentFacts DEF FilesInv
    <3>2. /\ Files!File(Files!Opened(e)) \in Entries
          /\ Files!File(Files!Opened(e)).node \in 1..Len(node') /\ Files!File(Files!Opened(e)).is = "file"
      BY <1>6, <2>1, OpenFacts DEF Files!File
    <3>3. Files!ParentMade(item.to)[item.to] = e
      BY <1>3, <2>1, NotItsFront DEF Files!ParentMade, FilesInv, Trees
    <3>4. [Files!ParentMade(item.to) EXCEPT ![item.to] = Files!File(Files!Opened(e))] \in Trees(Len(node'))
      BY <2>8, <3>1, <3>2, TreeFacts
    <3>5. tree' = [Files!ParentMade(item.to) EXCEPT ![item.to] = Files!File(Files!Opened(e))]
      BY <1>6, <3>3
    <3> QED BY <1>6, <3>1, <3>4, <3>5
  <2>10. InHand(q, Len(node'), Checked')
    <3>1. Head(q.left) = item /\ q.left # << >>
      BY <1>1, <1>2, <2>5
    <3>2. item.kind # "own" => q.src \in 1..Len(node')
      BY <2>2, <2>5, <2>8
    <3>3. q.kind = "extract" => Checked /\ q.src \in 1..Len(node')
      <4>1. q.kind = "extract" => Checked /\ req[r].src \in 1..Len(node)
        BY <1>1, <2>5 DEF InHand
      <4>2. item.kind # "own" \/ q.kind # "extract"
        BY <1>1, <1>2, <2>5 DEF InHand
      <4> QED BY <3>2, <4>1, <4>2
    <3> QED BY <1>1, <2>5, <2>7, <3>1, <3>2, <3>3 DEF InHand
  <2>11. \A n \in 1..Len(node') : \A s \in node'[n].from : \E m \in 1..Len(node) : s \in node[m].from
    BY <1>6, <2>1, OpenFacts
  <2>12. req[r].pc # "new" /\ q.pc # "new" /\ archive' \in Archives \cup {None} /\ archive' = archive
    BY <1>1, <1>6, <2>5 DEF FilesInv
  <2> QED BY <2>5, <2>6, <2>8, <2>9, <2>10, <2>11, <2>12, Keeps
<1> QED BY <1>2, <1>4, <1>5, <1>6, Zenon DEF Files!Open

LEMMA KeepsCopy ==
    ASSUME FilesInv, NEW r \in Files!Reqs, Files!Copy(r)
    PROVE  FilesInv'
<1>1. /\ req[r] \in RequestType /\ InHand(req[r], Len(node), Checked) /\ req[r].pc = "write"
      /\ req[r].left \in Seq(Items) /\ req[r].dst \in Nat
  <2>1. req[r] \in RequestType /\ InHand(req[r], Len(node), Checked) /\ req[r].pc = "write"
    BY DEF FilesInv, Files!Copy, Files!At
  <2> QED BY <2>1, Zenon DEF RequestType
<1>2. /\ req[r].left # << >> /\ (req[r].kind = "extract" => Checked)
      /\ Head(req[r].left).kind \notin {"own", "file"} => req[r].src \in 1..Len(node)
      /\ req[r].kind = "extract" => req[r].src \in 1..Len(node)
  BY <1>1 DEF InHand
<1>3. CASE Files!Fail(r)
  BY <1>1, <1>3, KeepsFailing
<1>4. CASE /\ node' = [node EXCEPT ![req[r].dst] = Files!Bytes(r)]
           /\ req' = [req EXCEPT ![r].pc = "open", ![r].left = Tail(@)]
           /\ UNCHANGED <<tree, uploads, archive>>
  <2>1. PICK q : q = [req[r] EXCEPT !.pc = "open", !.left = Tail(@)]
    OBVIOUS
  <2>2. Tail(req[r].left) \in Seq(Items)
    BY <1>1, <1>2, TailFits
  <2>3. /\ q \in RequestType /\ q.pc = "open" /\ q.kind = req[r].kind /\ q.name = req[r].name
        /\ q.left = Tail(req[r].left) /\ q.path = req[r].path /\ q.to = req[r].to /\ q.src = req[r].src
    BY <1>1, <2>1, <2>2, Zenon DEF RequestType, FilePlaces
  <2>4. req' = [req EXCEPT ![r] = q]
    BY <1>4, <2>1, Zenon
  <2>5. InHand(q, Len(node), Checked)
    BY <1>1, <1>2, <2>3, FitsTail
  <2>6. \/ Files!Bytes(r) = [from |-> {r}, whole |-> TRUE]
        \/ \E m \in 1..Len(node) : Files!Bytes(r) = node[m]
    BY <1>2 DEF Files!Bytes
  <2>7. req[r].pc # "new" /\ q.pc # "new" /\ (q.kind = "extract" => Checked)
    BY <1>1, <1>2, <2>3
  <2> QED BY <1>1, <1>4, <2>3, <2>4, <2>5, <2>6, <2>7, KeepsWrite
<1> QED BY <1>3, <1>4, Zenon DEF Files!Copy

LEMMA KeepsFinish ==
    ASSUME FilesInv, NEW r \in Files!Reqs, Files!Finish(r)
    PROVE  FilesInv'
<1>1. InHand(req[r], Len(node), Checked) /\ req[r].pc = "open" /\ tree \in Trees(Len(node))
  BY DEF FilesInv, Files!Finish, Files!At
<1>2. req[r].kind = "extract" => Checked
  BY <1>1 DEF InHand
<1>3. PICK pc \in {"failed", "done"} : Files!Go(r, pc)
  BY DEF Files!Finish
<1>4. UNCHANGED <<tree, uploads, node, archive>>
  BY DEF Files!Finish
<1> QED BY <1>1, <1>2, <1>3, <1>4, KeepsGoing

-------------------------------------------------------------------------------
(* Archives.                                                                 *)

LEMMA ItemFacts ==
    ASSUME NEW a \in Archives, NEW to \in Files!Tops \cup {Files!Root}, NEW k \in 1..Len(a.members)
    PROVE  Files!Item(a, a.members[k], to) \in Items /\ Files!Item(a, a.members[k], to).kind \notin {"own", "path", "staged"}
<1>1. PICK m : m = a.members[k]
  OBVIOUS
<1>2. m.name \in Names /\ m.kind \in Files!MemberKinds
  <2>1. a \in Files!ArchiveType
    BY FilesAssumption
  <2> DEFINE MemberType == [name : Names, kind : Files!MemberKinds, large : BOOLEAN]
  <2>2. a.members \in Seq(MemberType)
    BY <2>1, Zenon DEF Files!ArchiveType
  <2>3. m \in MemberType
    <3> HIDE DEF MemberType
    <3> QED BY <1>1, <2>2
  <2> QED BY <2>3
<1>3. Files!Under(to, m.name) \in Files!Paths
  BY <1>2, PathFacts
<1>4. PICK kind : kind = IF a.tar THEN Files!TarMember(m) ELSE Files!ZipMember(m)
  OBVIOUS
<1>5. kind \in {"large"} \cup Files!MemberKinds /\ kind \notin {"own", "path", "staged"}
  BY <1>2, <1>4 DEF Files!TarMember, Files!ZipMember, Files!MemberKinds
<1>6. Files!Item(a, m, to) = [from |-> Files!Root, to |-> Files!Under(to, m.name), kind |-> kind]
  BY <1>4 DEF Files!Item
<1>7. [from |-> Files!Root, to |-> Files!Under(to, m.name), kind |-> kind] \in Items
  BY <1>3, <1>5 DEF Items
<1> QED BY <1>1, <1>5, <1>6, <1>7

LEMMA KeepsExtract ==
    ASSUME FilesInv, NEW r \in Files!Reqs, Files!Extract(r)
    PROVE  FilesInv'
<1>1. /\ req[r] \in RequestType /\ InHand(req[r], Len(node), Checked) /\ req[r].pc = "check"
      /\ req[r].kind = "extract"
  BY DEF FilesInv, Files!Extract, Files!At
<1>2. /\ req[r].to \in Files!Tops \cup {Files!Root} /\ req[r].path \in Files!Paths
      /\ tree[req[r].path] \in Entries
  BY <1>1 DEF InHand, FilesInv, Trees
<1>3. archive' \in Archives /\ (archive # None => archive' = archive)
  BY DEF Files!Extract, FilesInv
<1>4. UNCHANGED <<uploads, node>>
  BY DEF Files!Extract
<1>5. tree' \in Trees(Len(node))
  <2>1. tree' = tree \/ tree' = [tree EXCEPT ![req[r].to] = Files!Directory]
    BY Zenon DEF Files!Extract
  <2>2. tree \in Trees(Len(node))
    BY DEF FilesInv
  <2>3. [tree EXCEPT ![req[r].to] = Files!Directory] \in Trees(Len(node))
    BY <2>2, DirectoryFacts
  <2> QED BY <2>1, <2>2, <2>3
<1>6. Checked => Checked'
  BY <1>3 DEF Checked, Files!Refused, Files!TooMany
<1>7. PICK left : left = [k \in 1..Len(archive'.members) |-> Files!Item(archive', archive'.members[k], req[r].to)]
  OBVIOUS
<1>8. \/ Files!Go(r, "failed")
      \/ /\ ~Files!Refused(archive')
         /\ req' = [req EXCEPT ![r].pc = "open", ![r].src = tree[req[r].path].node, ![r].left = left]
         /\ tree[req[r].path].is = "file"
  BY <1>7, Zenon DEF Files!Extract
<1>9. PICK q \in RequestType :
        /\ q.kind = "extract" /\ q.pc # "new"
        /\ req' = [req EXCEPT ![r] = q] /\ InHand(q, Len(node), Checked')
  <2>1. CASE Files!Go(r, "failed")
    <3>1. PICK q : q = [req[r] EXCEPT !.pc = "failed"]
      OBVIOUS
    <3>2. /\ q \in RequestType /\ q.kind = req[r].kind /\ q.pc = "failed"
          /\ q.name = req[r].name /\ q.left = req[r].left
          /\ q.path = req[r].path /\ q.to = req[r].to
      BY <1>1, <3>1, Zenon DEF RequestType, FilePlaces
    <3>3. req' = [req EXCEPT ![r] = q]
      BY <2>1, <3>1, Zenon DEF Files!Go
    <3>4. InHand(q, Len(node), Checked')
      BY <1>1, <3>2 DEF InHand
    <3> QED BY <1>1, <3>2, <3>3, <3>4
  <2>2. CASE /\ ~Files!Refused(archive')
             /\ req' = [req EXCEPT ![r].pc = "open", ![r].src = tree[req[r].path].node, ![r].left = left]
             /\ tree[req[r].path].is = "file"
    <3>1. PICK q : q = [req[r] EXCEPT !.pc = "open", !.src = tree[req[r].path].node, !.left = left]
      OBVIOUS
    <3>2. left \in Seq(Items) /\ \A k \in 1..Len(left) : left[k].kind \notin {"own", "path", "staged"}
      <4>1. Len(archive'.members) \in Nat
        <5>1. archive' \in Files!ArchiveType
          BY <1>3, FilesAssumption
        <5>2. archive'.members \in Seq([name : Names, kind : Files!MemberKinds, large : BOOLEAN])
          BY <5>1, Zenon DEF Files!ArchiveType
        <5> QED BY <5>2
      <4>2. \A k \in 1..Len(archive'.members) :
              /\ Files!Item(archive', archive'.members[k], req[r].to) \in Items
              /\ Files!Item(archive', archive'.members[k], req[r].to).kind \notin {"own", "path", "staged"}
        BY <1>2, <1>3, ItemFacts
      <4> QED BY <1>7, <4>1, <4>2
    <3>3. tree[req[r].path].node \in 1..Len(node) /\ tree[req[r].path].node \in Nat
      BY <1>2, <2>2 DEF FilesInv, Trees
    <3>4. /\ q \in RequestType /\ q.kind = req[r].kind /\ q.pc = "open" /\ q.left = left
          /\ q.src = tree[req[r].path].node
          /\ q.name = req[r].name /\ q.path = req[r].path /\ q.to = req[r].to
      BY <1>1, <3>1, <3>2, <3>3, Zenon DEF RequestType, FilePlaces
    <3>5. req' = [req EXCEPT ![r] = q]
      BY <2>2, <3>1, Zenon
    <3>6. Checked'
      BY <1>3, <2>2, FilesAssumption DEF Checked, Files!Refused, Files!TooMany
    <3>7. InHand(q, Len(node), Checked')
      BY <1>1, <1>2, <3>2, <3>3, <3>4, <3>6 DEF InHand
    <3> QED BY <1>1, <3>4, <3>5, <3>7
  <2> QED BY <1>8, <2>1, <2>2
<1>10. /\ node' \in Seq(Contents) /\ Len(node') = Len(node) /\ Len(node) <= Len(node')
       /\ uploads' \in Stagings(Len(node'))
  BY <1>4 DEF FilesInv
<1>11. \A n \in 1..Len(node') : \A s \in node'[n].from \ {0} : \E m \in 1..Len(node) : s \in node[m].from
  BY <1>4
<1>12. /\ tree' \in Trees(Len(node')) /\ archive' \in Archives \cup {None}
       /\ InHand(q, Len(node'), Checked')
  BY <1>3, <1>5, <1>9, <1>10
<1> QED BY <1>1, <1>3, <1>9, <1>10, <1>11, <1>12, Keeps

LEMMA KeepsMember ==
    ASSUME FilesInv, NEW r \in Files!Reqs, Files!Member(r)
    PROVE  FilesInv'
<1>1. /\ req[r] \in RequestType /\ InHand(req[r], Len(node), Checked)
      /\ req[r].pc = "open" /\ req[r].left # << >>
      /\ req[r].left \in Seq(Items)
  <2>1. /\ req[r] \in RequestType /\ InHand(req[r], Len(node), Checked) /\ req[r].pc = "open"
        /\ req[r].left # << >>
    BY DEF FilesInv, Files!Member, Files!At
  <2> QED BY <2>1, Zenon DEF RequestType
<1>2. CASE Files!Fail(r)
  BY <1>1, <1>2, KeepsFailing
<1>3. ASSUME ~Files!Fail(r) PROVE FilesInv'
  <2>0. PICK p : p = Head(req[r].left).to
    OBVIOUS
  <2>1. /\ UNCHANGED <<uploads, node, archive>>
        /\ \/ tree' = Files!ParentMade(p) \/ tree' = [Files!ParentMade(p) EXCEPT ![p] = Files!Directory]
           \/ tree' = [Files!ParentMade(p) EXCEPT ![p] = Files!Missing]
        /\ \/ req' = [req EXCEPT ![r].left = Tail(@)]
           \/ Head(req[r].left).kind = "link" /\ Files!Go(r, "link")
    BY <1>3, <2>0, Zenon DEF Files!Member
  <2>2. tree' \in Trees(Len(node))
    <3>1. Files!ParentMade(p) \in Trees(Len(node))
      BY ParentFacts
    <3>2. /\ [Files!ParentMade(p) EXCEPT ![p] = Files!Directory] \in Trees(Len(node))
          /\ [Files!ParentMade(p) EXCEPT ![p] = Files!Missing] \in Trees(Len(node))
      BY <3>1, DirectoryFacts
    <3> QED BY <2>1, <3>1, <3>2
  <2>3. req[r].kind = "extract" => Checked /\ req[r].src \in 1..Len(node)
    BY <1>1 DEF InHand
  <2>4. CASE req' = [req EXCEPT ![r].left = Tail(@)]
    <3>1. PICK q : q = [req[r] EXCEPT !.left = Tail(@)]
      OBVIOUS
    <3>2. Tail(req[r].left) \in Seq(Items)
      BY <1>1, TailFits
    <3>3. /\ q \in RequestType /\ q.pc = req[r].pc /\ q.kind = req[r].kind /\ q.name = req[r].name
          /\ q.left = Tail(req[r].left) /\ q.path = req[r].path /\ q.to = req[r].to /\ q.src = req[r].src
      BY <1>1, <3>1, <3>2, Zenon DEF RequestType, FilePlaces
    <3>4. req' = [req EXCEPT ![r] = q]
      BY <2>4, <3>1, Zenon
    <3>5. InHand(q, Len(node), Checked)
      BY <1>1, <2>3, <3>3, FitsTail
    <3> QED BY <1>1, <2>1, <2>2, <3>3, <3>4, <3>5, KeepsOn
  <2>5. CASE Head(req[r].left).kind = "link" /\ Files!Go(r, "link")
    <3>1. PICK q : q = [req[r] EXCEPT !.pc = "link"]
      OBVIOUS
    <3>2. /\ q \in RequestType /\ q.pc = "link" /\ q.kind = req[r].kind /\ q.name = req[r].name
          /\ q.left = req[r].left /\ q.path = req[r].path /\ q.to = req[r].to /\ q.src = req[r].src
      BY <1>1, <3>1, Zenon DEF RequestType, FilePlaces
    <3>3. req' = [req EXCEPT ![r] = q]
      BY <2>5, <3>1, Zenon DEF Files!Go
    <3>4. req[r].kind = "extract"
      <4>1. 1 \in 1..Len(req[r].left) /\ req[r].left[1].kind = "link"
        BY <1>1, <2>5, TailFits
      <4> QED BY <1>1, <4>1 DEF InHand
    <3>5. InHand(q, Len(node), Checked)
      BY <1>1, <2>3, <3>2, <3>4 DEF InHand
    <3> QED BY <1>1, <2>1, <2>2, <3>2, <3>3, <3>5, KeepsOn
  <2> QED BY <2>1, <2>4, <2>5
<1> QED BY <1>2, <1>3

LEMMA KeepsMakeLink ==
    ASSUME FilesInv, NEW r \in Files!Reqs, Files!MakeLink(r)
    PROVE  FilesInv'
<1>1. /\ req[r] \in RequestType /\ InHand(req[r], Len(node), Checked) /\ req[r].pc = "link"
      /\ req[r].left \in Seq(Items)
  <2>1. req[r] \in RequestType /\ InHand(req[r], Len(node), Checked) /\ req[r].pc = "link"
    BY DEF FilesInv, Files!MakeLink, Files!At
  <2> QED BY <2>1, Zenon DEF RequestType
<1>2. req[r].left # << >> /\ req[r].kind = "extract" /\ Checked /\ req[r].src \in 1..Len(node)
  BY <1>1 DEF InHand
<1>3. CASE Files!Fail(r)
  BY <1>1, <1>3, KeepsFailing
<1>4. ASSUME NEW p, tree' = [tree EXCEPT ![p] = Files!Link],
             req' = [req EXCEPT ![r].pc = "open", ![r].left = Tail(@)], UNCHANGED <<uploads, node, archive>>
      PROVE  FilesInv'
  <2>1. PICK q : q = [req[r] EXCEPT !.pc = "open", !.left = Tail(@)]
    OBVIOUS
  <2>2. Tail(req[r].left) \in Seq(Items)
    BY <1>1, <1>2, TailFits
  <2>3. /\ q \in RequestType /\ q.pc = "open" /\ q.kind = req[r].kind /\ q.name = req[r].name
        /\ q.left = Tail(req[r].left) /\ q.path = req[r].path /\ q.to = req[r].to /\ q.src = req[r].src
    BY <1>1, <2>1, <2>2, Zenon DEF RequestType, FilePlaces
  <2>4. req' = [req EXCEPT ![r] = q]
    BY <1>4, <2>1, Zenon
  <2>5. InHand(q, Len(node), Checked)
    BY <1>1, <1>2, <2>3, FitsTail
  <2>6. Files!Link \in Entries /\ Files!Link.is = "link"
    BY DEF Files!Link, Entries
  <2>7. tree' \in Trees(Len(node))
    BY <1>2, <1>4, <2>6, DirectoryFacts, TreeFacts DEF FilesInv
  <2> QED BY <1>1, <1>4, <2>3, <2>4, <2>5, <2>7, KeepsOn
<1> QED BY <1>3, <1>4, Zenon DEF Files!MakeLink

-------------------------------------------------------------------------------
(* The rest of the requests.                                                 *)

LEMMA KeepsMovePath ==
    ASSUME FilesInv, NEW r \in Files!Reqs, Files!MovePath(r)
    PROVE  FilesInv'
<1>1. /\ req[r] \in RequestType /\ InHand(req[r], Len(node), Checked) /\ req[r].pc = "check"
      /\ req[r].kind = "move"
  BY DEF FilesInv, Files!MovePath, Files!At
<1>2. CASE Files!Fail(r)
  BY <1>1, <1>2, KeepsFailing
<1>3. ASSUME ~Files!Fail(r) PROVE FilesInv'
  <2>1. /\ tree' = Files!ParentMade(req[r].to) /\ UNCHANGED <<uploads, node, archive>>
        /\ req' = [req EXCEPT ![r].pc = "rename", ![r].src = tree[req[r].path].node]
    BY <1>3, Zenon DEF Files!MovePath
  <2>2. tree[req[r].path] \in Entries
    BY <1>1 DEF InHand, FilesInv, Trees
  <2>3. tree[req[r].path].node \in Nat
    BY <2>2 DEF Entries
  <2>4. PICK q : q = [req[r] EXCEPT !.pc = "rename", !.src = tree[req[r].path].node]
    OBVIOUS
  <2>5. /\ q \in RequestType /\ q.pc = "rename" /\ q.kind = req[r].kind /\ q.name = req[r].name
        /\ q.left = req[r].left /\ q.path = req[r].path /\ q.to = req[r].to
    BY <1>1, <2>3, <2>4, Zenon DEF RequestType, FilePlaces
  <2>6. req' = [req EXCEPT ![r] = q]
    BY <2>1, <2>4, Zenon
  <2>7. InHand(q, Len(node), Checked)
    BY <1>1, <2>5 DEF InHand
  <2>8. tree' \in Trees(Len(node)) /\ req[r].pc # "new" /\ q.pc # "new"
    BY <1>1, <2>1, <2>5, ParentFacts
  <2> QED BY <2>1, <2>5, <2>6, <2>7, <2>8, KeepsOn
<1> QED BY <1>2, <1>3

LEMMA MovedFacts ==
    ASSUME FilesInv, NEW p, NEW q
    PROVE  Files!Moved(p, q) \in Trees(Len(node))
<1>1. /\ tree \in [Files!Paths -> Entries]
      /\ \A o \in Files!Paths : /\ tree[o].is = "file" => tree[o].node \in 1..Len(node)
                                /\ tree[o].is = "link" => Checked
  BY DEF FilesInv, Trees
<1>2. Files!Missing \in Entries /\ Files!Missing.is = "none"
  BY DirectoryFacts
<1>3. \A o \in Files!Paths : Files!Moved(p, q)[o] = Files!Missing \/ \E w \in Files!Paths : Files!Moved(p, q)[o] = tree[w]
  BY Zenon DEF Files!Moved
<1>4. \A o \in Files!Paths : /\ Files!Moved(p, q)[o] \in Entries
                             /\ Files!Moved(p, q)[o].is = "file" => Files!Moved(p, q)[o].node \in 1..Len(node)
                             /\ Files!Moved(p, q)[o].is = "link" => Checked
  BY <1>1, <1>2, <1>3
<1>5. Files!Moved(p, q) = [o \in Files!Paths |-> Files!Moved(p, q)[o]]
  BY Zenon DEF Files!Moved
<1> HIDE DEF Files!Moved
<1>6. Files!Moved(p, q) \in [Files!Paths -> Entries]
  BY <1>4, <1>5
<1> QED BY <1>4, <1>6 DEF Trees

LEMMA KeepsRename ==
    ASSUME FilesInv, NEW r \in Files!Reqs, Files!Rename(r)
    PROVE  FilesInv'
<1>1. req[r] \in RequestType /\ InHand(req[r], Len(node), Checked) /\ req[r].pc = "rename"
  BY DEF FilesInv, Files!Rename, Files!At
<1>2. CASE Files!Fail(r)
  BY <1>1, <1>2, KeepsFailing
<1>3. ASSUME ~Files!Fail(r) PROVE FilesInv'
  <2>1. PICK target \in Files!Paths :
          /\ tree' = tree \/ tree' = Files!Moved(req[r].path, target)
          /\ req' = [req EXCEPT ![r].pc = "done", ![r].to = target]
          /\ UNCHANGED <<uploads, node, archive>>
    BY <1>3, Zenon DEF Files!Rename
  <2>2. PICK q : q = [req[r] EXCEPT !.pc = "done", !.to = target]
    OBVIOUS
  <2>3. /\ q \in RequestType /\ q.pc = "done" /\ q.kind = req[r].kind /\ q.name = req[r].name
        /\ q.left = req[r].left /\ q.path = req[r].path
    BY <1>1, <2>2, Zenon DEF RequestType, FilePlaces
  <2>4. req' = [req EXCEPT ![r] = q]
    BY <2>1, <2>2, Zenon
  <2>5. InHand(q, Len(node), Checked)
    BY <1>1, <2>3 DEF InHand
  <2>6. tree' \in Trees(Len(node)) /\ req[r].pc # "new" /\ q.pc # "new"
    BY <1>1, <2>1, <2>3, MovedFacts DEF FilesInv
  <2> QED BY <2>1, <2>3, <2>4, <2>5, <2>6, KeepsOn
<1> QED BY <1>2, <1>3

LEMMA KeepsMakeDirectory ==
    ASSUME FilesInv, NEW r \in Files!Reqs, Files!MakeDirectory(r)
    PROVE  FilesInv'
<1>1. req[r].pc = "check" /\ req[r].kind = "mkdir"
  BY DEF Files!MakeDirectory, Files!At
<1>2. CASE Files!Fail(r)
  BY <1>1, <1>2, KeepsFailing
<1>3. ASSUME ~Files!Fail(r) PROVE FilesInv'
  <2>1. /\ tree' = [tree EXCEPT ![req[r].path] = Files!Directory] /\ Files!Go(r, "done")
        /\ UNCHANGED <<uploads, node, archive>>
    BY <1>3 DEF Files!MakeDirectory
  <2>2. tree' \in Trees(Len(node))
    BY <2>1, DirectoryFacts DEF FilesInv
  <2> QED BY <1>1, <2>1, <2>2, KeepsGoing
<1> QED BY <1>2, <1>3

LEMMA KeepsReadText ==
    ASSUME FilesInv, NEW r \in Files!Reqs, Files!ReadText(r)
    PROVE  FilesInv'
<1>1. req[r].pc = "check" /\ req[r].kind = "read" /\ tree \in Trees(Len(node))
  BY DEF Files!ReadText, Files!At, FilesInv
<1>2. PICK pc \in {"read", "failed"} : Files!Go(r, pc)
  BY DEF Files!ReadText
<1>3. UNCHANGED <<tree, uploads, node, archive>>
  BY DEF Files!ReadText
<1> QED BY <1>1, <1>2, <1>3, KeepsGoing

LEMMA KeepsReadBytes ==
    ASSUME FilesInv, NEW r \in Files!Reqs, Files!ReadBytes(r)
    PROVE  FilesInv'
<1>1. req[r] \in RequestType /\ InHand(req[r], Len(node), Checked) /\ req[r].pc = "read"
  BY DEF FilesInv, Files!ReadBytes, Files!At
<1>2. PICK e : e = tree[req[r].path]
  OBVIOUS
<1>3. e \in Entries /\ (e.is = "file" => e.node \in 1..Len(node)) /\ req[r].kind = "read"
  BY <1>1, <1>2 DEF InHand, FilesInv, Trees
<1>4. UNCHANGED <<tree, uploads, node, archive>> /\ tree \in Trees(Len(node))
  BY DEF Files!ReadBytes, FilesInv
<1>5. CASE e.is = "file"
  <2>1. req' = [req EXCEPT ![r].pc = "done", ![r].got = node[e.node].from]
    BY <1>2, <1>5, Zenon DEF Files!ReadBytes
  <2>2. node[e.node] \in Contents
    BY <1>3, <1>5 DEF FilesInv
  <2>3. node[e.node].from \in SUBSET (0..MaxFileRequests)
    BY <2>2 DEF Contents
  <2>4. PICK q : q = [req[r] EXCEPT !.pc = "done", !.got = node[e.node].from]
    OBVIOUS
  <2>5. /\ q \in RequestType /\ q.pc = "done" /\ q.kind = req[r].kind /\ q.name = req[r].name
        /\ q.left = req[r].left /\ q.path = req[r].path /\ q.to = req[r].to
    BY <1>1, <2>3, <2>4, Zenon DEF RequestType, FilePlaces
  <2>6. req' = [req EXCEPT ![r] = q]
    BY <2>1, <2>4, Zenon
  <2>7. InHand(q, Len(node), Checked)
    BY <1>1, <1>3, <2>5 DEF InHand
  <2> QED BY <1>1, <1>4, <2>5, <2>6, <2>7, KeepsOn
<1>6. CASE e.is # "file"
  <2>1. Files!Go(r, "failed")
    BY <1>2, <1>6 DEF Files!ReadBytes, Files!Go
  <2> QED BY <1>1, <1>4, <2>1, KeepsGoing
<1> QED BY <1>5, <1>6

-------------------------------------------------------------------------------
(* What keeps a request that no other meets from being disturbed.            *)

LEMMA SaneStays ==
    ASSUME NEW q, Sane(q) PROVE Sane(q)'
BY DEF Sane, Below, Files!Touched, Files!Root, Files!Opens

LEMMA SoundSame ==
    ASSUME NEW r, NEW q, UNCHANGED <<tree, uploads, node, archive>>, Sound(r, q) PROVE Sound(r, q)'
<1>1. UNCHANGED tree /\ UNCHANGED uploads /\ UNCHANGED node /\ UNCHANGED archive
  OBVIOUS
<1>2. Writing(q)' /\ MoveSound(q)'
  BY <1>1 DEF Sound, Writing, MoveSound, IsFile
<1>3. UploadSound(r, q)'
  BY <1>1 DEF Sound, UploadSound, IsStaged, Files!Holds, Files!Own, StagedItem, Files!Root
<1>4. WriteSound(r, q)'
  BY <1>1 DEF Sound, WriteSound, Files!Holds, Files!Own, OwnItem, Files!Root
<1>5. FileCopied(q) => FileCopied(q)'
  BY <1>1 DEF FileCopied, FileItem, IsFile, Files!Holds
<1>6. DirectoryCopied(q) => DirectoryCopied(q)'
  <2>1. Inside(q.path)' = Inside(q.path)
    BY DEF Inside
  <2>2. \A c : ChildCopied(q, c) => ChildCopied(q, c)'
    BY <1>1, Zenon DEF ChildCopied, Counterpart, Files!Holds
  <2> QED BY <1>1, <2>1, <2>2, Zenon DEF DirectoryCopied, ChildItem, Counterpart, IsFile
<1>7. CopySound(q)'
  BY <1>5, <1>6 DEF Sound, CopySound
<1>8. ExtractSound(r, q)'
  <2>1. \A held, n : Extracted(r, q, held, n) => Extracted(r, q, held, n)'
    BY <1>1, Zenon DEF Extracted, OneOfItsName, Files!Holds, Files!Own
  <2> QED BY <1>1, <2>1, Zenon DEF Sound, ExtractSound
<1> QED BY <1>2, <1>3, <1>4, <1>7, <1>8 DEF Sound

-------------------------------------------------------------------------------
(* What a step of one request may change, and why another does not notice.   *)

LEMMA RequestFacts ==
    ASSUME NEW q \in RequestType
    PROVE  /\ q.path \in Spots /\ q.to \in Spots /\ q.name \in Names \cup {None} /\ q.left \in Seq(Items)
           /\ Files!Touched(q) \subseteq Spots /\ q.dst \in Nat /\ q.src \in Nat /\ q.clean \in BOOLEAN /\ q.flag \in BOOLEAN
<1>1. /\ q.path \in Spots /\ q.to \in Spots /\ q.name \in Names \cup {None} /\ q.left \in Seq(Items)
      /\ q.dst \in Nat /\ q.src \in Nat /\ q.clean \in BOOLEAN /\ q.flag \in BOOLEAN
  BY Zenon DEF RequestType, Spots
<1> QED BY <1>1 DEF Files!Touched

LEMMA ApartPaths ==
    ASSUME NEW q \in RequestType, NEW s \in RequestType, ~Files!Conflict(q, s)
    PROVE  \A o \in Below(q) : o \notin Around(s)
<1> SUFFICES ASSUME NEW o \in Below(q), o \in Around(s) PROVE FALSE
  OBVIOUS
<1>1. o \in Files!Paths /\ o \in Spots
  BY DEF Below, Spots
<1>2. PICK u \in Files!Touched(q) : Files!IsPrefix(u, o)
  BY DEF Below
<1>3. PICK v \in Files!Touched(s) : Files!Near(v, o)
  BY DEF Around
<1>4. u \in Spots /\ v \in Spots
  BY <1>2, <1>3, RequestFacts
<1>5. Files!Near(u, v)
  <2>1. CASE Files!IsPrefix(v, o)
    BY <1>1, <1>2, <1>4, <2>1, PrefixOrder
  <2>2. CASE Files!IsPrefix(o, v)
    <3>1. Files!IsPrefix(u, v)
      BY <1>1, <1>2, <1>4, <2>2, PrefixOrder
    <3> QED BY <3>1 DEF Files!Near
  <2> QED BY <1>3, <2>1, <2>2 DEF Files!Near
<1> QED BY <1>2, <1>3, <1>5 DEF Files!Conflict

\* A request that goes on works on nothing new.
Narrower(q, p) ==
    /\ q.name = p.name
    /\ \A u \in Files!Touched(q) : \E v \in Files!Touched(p) : Files!IsPrefix(v, u)
LEMMA NarrowerFacts ==
    ASSUME NEW q \in RequestType, NEW p \in RequestType, Narrower(q, p)
    PROVE  /\ Below(q) \subseteq Below(p)
           /\ \A w \in RequestType : Files!Conflict(q, w) => Files!Conflict(p, w)
<1>1. Files!Touched(q) \subseteq Spots /\ Files!Touched(p) \subseteq Spots
  BY RequestFacts
<1>2. ASSUME NEW o \in Below(q) PROVE o \in Below(p)
  <2>1. o \in Files!Paths /\ o \in Spots
    BY DEF Below, Spots
  <2>2. PICK u \in Files!Touched(q) : Files!IsPrefix(u, o)
    BY DEF Below
  <2>3. PICK v \in Files!Touched(p) : Files!IsPrefix(v, u)
    BY <2>2 DEF Narrower
  <2>4. Files!IsPrefix(v, o)
    BY <1>1, <2>1, <2>2, <2>3, PrefixOrder
  <2> QED BY <2>1, <2>3, <2>4 DEF Below
<1>3. ASSUME NEW w \in RequestType, Files!Conflict(q, w) PROVE Files!Conflict(p, w)
  <2>1. CASE q.name # None /\ q.name = w.name
    BY <2>1 DEF Files!Conflict, Narrower
  <2>2. ASSUME NEW u \in Files!Touched(q), NEW o \in Files!Touched(w), Files!Near(u, o) PROVE Files!Conflict(p, w)
    <3>1. PICK v \in Files!Touched(p) : Files!IsPrefix(v, u)
      BY DEF Narrower
    <3>2. u \in Spots /\ o \in Spots /\ v \in Spots
      BY <1>1, <3>1, RequestFacts
    <3>3. CASE Files!IsPrefix(u, o)
      <4>1. Files!IsPrefix(v, o)
        BY <3>1, <3>2, <3>3, PrefixOrder
      <4> QED BY <3>1, <4>1 DEF Files!Conflict, Files!Near
    <3>4. CASE Files!IsPrefix(o, u)
      <4>1. Files!Near(v, o)
        BY <3>1, <3>2, <3>4, PrefixOrder
      <4> QED BY <3>1, <4>1 DEF Files!Conflict
    <3> QED BY <2>2, <3>3, <3>4 DEF Files!Near
  <2> QED BY <1>3, <2>1, <2>2 DEF Files!Conflict
<1> QED BY <1>2, <1>3

LEMMA ConflictIsMutual ==
    ASSUME NEW q \in RequestType, NEW w \in RequestType PROVE Files!Conflict(q, w) => Files!Conflict(w, q)
BY DEF Files!Conflict, Files!Near

LEMMA StaysSame ==
    ASSUME NEW q \in RequestType, NEW p \in RequestType,
           q.name = p.name, q.path = p.path, q.to = p.to, q.kind = p.kind
    PROVE  Narrower(q, p) /\ Below(q) = Below(p)
<1>1. Files!Touched(q) = Files!Touched(p)
  BY DEF Files!Touched
<1>2. \A u \in Files!Touched(q) : Files!IsPrefix(u, u)
  BY RequestFacts, PrefixOrder
<1> QED BY <1>1, <1>2 DEF Narrower, Below

LEMMA NotDisturbed ==
    ASSUME FilesInv, CalmInv, NEW r \in Files!Reqs, NEW s \in Files!Reqs, r # s,
           Calm(r), Files!Active(s), Effect(req[s])
    PROVE  Undisturbed(req[r])
<1>1. PICK q \in RequestType, p \in RequestType : q = req[r] /\ p = req[s]
  BY DEF FilesInv
<1>2. ~Files!Conflict(q, p)
  BY <1>1, Zenon DEF CalmInv, AloneInv
<1>3. \A o \in Below(q) : o \notin Around(p)
  BY <1>1, <1>2, ApartPaths
<1>4. Effect(p)
  BY <1>1
<1>5. p.pc = "write" => \A o \in Below(q) : ~IsFile(o, p.dst)
  BY <1>1, Zenon DEF CalmInv, HeldInv
<1>6. p.pc = "write" => \A x \in Names : ~IsStaged(x, p.dst)
  BY <1>1, Zenon DEF CalmInv, OpenInode
<1>7. OneName /\ tree \in Trees(Len(node)) /\ uploads \in Stagings(Len(node))
  BY DEF CalmInv, FilesInv
<1>8. Around(p) \subseteq Files!Paths /\ Below(q) \subseteq Files!Paths
  BY DEF Around, Below
<1>9. ASSUME NEW o \in Below(q) PROVE tree'[o] = tree[o] /\ (tree[o].is = "file" => node'[tree[o].node] = node[tree[o].node])
  <2>1. tree'[o] = tree[o]
    BY <1>3, <1>4, <1>8 DEF Effect
  <2>2. ASSUME tree[o].is = "file" PROVE node'[tree[o].node] = node[tree[o].node]
    <3>1. PICK n \in 1..Len(node) : n = tree[o].node
      BY <1>7, <1>8, <2>2 DEF Trees
    <3>2. ~Reaches(p, n)
      <4>1. \A w \in Around(p) : ~IsFile(w, n)
        BY <1>3, <1>7, <1>8, <2>2, <3>1 DEF OneName, IsFile
      <4>2. p.name \in Names => ~IsStaged(p.name, n)
        BY <1>7, <1>8, <2>2, <3>1 DEF OneName, IsStaged
      <4>3. ~(p.pc = "write" /\ n = p.dst)
        BY <1>5, <2>2, <3>1 DEF IsFile
      <4> QED BY <4>1, <4>2, <4>3 DEF Reaches
    <3> QED BY <1>4, <3>1, <3>2 DEF Effect
  <2> QED BY <2>1, <2>2
<1>10. ASSUME q.name \in Names
       PROVE  /\ uploads'[q.name] = uploads[q.name]
              /\ uploads[q.name].is = "file" => node'[uploads[q.name].node] = node[uploads[q.name].node]
  <2>0. q.name # p.name
    BY <1>2, <1>10, FilesAssumption DEF Files!Conflict
  <2>1. uploads'[q.name] = uploads[q.name]
    BY <1>4, <1>10, <2>0 DEF Effect
  <2>2. ASSUME uploads[q.name].is = "file" PROVE node'[uploads[q.name].node] = node[uploads[q.name].node]
    <3>1. PICK n \in 1..Len(node) : n = uploads[q.name].node
      BY <1>7, <1>10, <2>2 DEF Stagings
    <3>2. ~Reaches(p, n)
      <4>1. \A w \in Around(p) : ~IsFile(w, n)
        BY <1>7, <1>8, <1>10, <2>2, <3>1 DEF OneName, IsFile
      <4>2. p.name \in Names => ~IsStaged(p.name, n)
        BY <1>7, <1>10, <2>0, <2>2, <3>1 DEF OneName, IsStaged
      <4>3. ~(p.pc = "write" /\ n = p.dst)
        BY <1>6, <1>10, <2>2, <3>1 DEF IsStaged
      <4> QED BY <4>1, <4>2, <4>3 DEF Reaches
    <3> QED BY <1>4, <3>1, <3>2 DEF Effect
  <2> QED BY <2>1, <2>2
<1>11. Undisturbed(q)
  BY <1>4, <1>9, <1>10 DEF Undisturbed, Effect
<1> QED BY <1>1, <1>11

LEMMA BelowFacts ==
    ASSUME NEW q \in RequestType
    PROVE  /\ Below(q) \subseteq Files!Paths
           /\ q.to \in Files!Paths => q.to \in Below(q)
           /\ q.path \in Files!Paths => q.path \in Below(q) /\ Inside(q.path) \subseteq Below(q)
           /\ q.to \in Files!Tops => \A x \in Names : Files!Under(q.to, x) \in Below(q)
           /\ q.kind = "extract" /\ q.to = Files!Root => Below(q) = Files!Paths
<1>1. \A p \in Files!Paths : p \in Spots /\ p # Files!Root
  <2>1. ASSUME NEW p \in Files!Paths PROVE p # Files!Root
    <3>1. (Len(p) = 1 \/ Len(p) = 2) /\ Len(Files!Root) = 0
      BY PathShape
    <3> QED BY <3>1
  <2> QED BY <2>1 DEF Spots
<1>2. \A p \in Files!Paths \cap {q.path, q.to} : p \in Files!Touched(q)
  BY <1>1 DEF Files!Touched
<1>3. \A p \in Files!Paths : p \in Files!Touched(q) => p \in Below(q) /\ Inside(p) \subseteq Below(q)
  BY <1>1, PrefixOrder DEF Below, Inside
<1>4. ASSUME q.to \in Files!Tops, NEW x \in Names PROVE Files!Under(q.to, x) \in Below(q)
  <2>1. q.to \in Files!Touched(q)
    BY <1>2, <1>4, PathShape
  <2>2. Files!Under(q.to, x) \in Files!Paths /\ Files!IsPrefix(q.to, Files!Under(q.to, x))
    BY <1>4, UnderFacts
  <2> HIDE DEF Files!Under
  <2> QED BY <2>1, <2>2 DEF Below
<1>5. ASSUME q.kind = "extract", q.to = Files!Root PROVE Below(q) = Files!Paths
  <2>1. Files!Root \in Files!Touched(q)
    BY <1>5 DEF Files!Touched
  <2>2. \A p \in Files!Paths : Files!IsPrefix(Files!Root, p)
    BY <1>1, PrefixOrder
  <2> QED BY <2>1, <2>2 DEF Below
<1> QED BY <1>2, <1>3, <1>4, <1>5 DEF Below

LEMMA UndisturbedFacts ==
    ASSUME NEW q, Undisturbed(q)
    PROVE  /\ \A o \in Below(q) : tree'[o] = tree[o]
           /\ \A o \in Below(q) : \A n : IsFile(o, n) => IsFile(o, n)' /\ node'[n] = node[n]
           /\ \A o \in Below(q) : \A c : Files!Holds(o, c) => Files!Holds(o, c)'
           /\ q.name \in Names => \A n : IsStaged(q.name, n) => IsStaged(q.name, n)' /\ node'[n] = node[n]
<1>1. \A o \in Below(q) : tree'[o] = tree[o] /\ (tree[o].is = "file" => node'[tree[o].node] = node[tree[o].node])
  BY DEF Undisturbed
<1>2. q.name \in Names => /\ uploads'[q.name] = uploads[q.name]
                          /\ uploads[q.name].is = "file" => node'[uploads[q.name].node] = node[uploads[q.name].node]
  BY DEF Undisturbed
<1>3. ASSUME NEW o \in Below(q), NEW n, IsFile(o, n) PROVE IsFile(o, n)' /\ node'[n] = node[n]
  BY <1>1, <1>3 DEF IsFile
<1>4. ASSUME NEW o \in Below(q), NEW c, Files!Holds(o, c) PROVE Files!Holds(o, c)'
  BY <1>1, <1>4 DEF Files!Holds
<1>5. ASSUME q.name \in Names, NEW n, IsStaged(q.name, n) PROVE IsStaged(q.name, n)' /\ node'[n] = node[n]
  BY <1>2, <1>5 DEF IsStaged
<1> QED BY <1>1, <1>3, <1>4, <1>5

LEMMA UploadStays ==
    ASSUME NEW q \in RequestType, NEW r, Undisturbed(q), Sane(q), q.pc # "new", q.kind \in {"upload", "import"} => q.name \in Names,
           UploadSound(r, q)
    PROVE  UploadSound(r, q)'
<1> SUFFICES ASSUME q.kind \in {"upload", "import"} PROVE UploadSound(r, q)'
  BY DEF UploadSound
<1>1. q.name \in Names /\ q.to \in Below(q)
  BY BelowFacts DEF Sane
<1>2. \A n : IsStaged(q.name, n) => IsStaged(q.name, n)' /\ node'[n] = node[n]
  BY <1>1, UndisturbedFacts
<1>3. q.kind = "upload" /\ q.pc \in {"check", "open", "write"} =>
           uploads'[q.name].is = "file" /\ node'[uploads'[q.name].node] = Files!Own(r)
  BY <1>1 DEF UploadSound, Undisturbed
<1>4. q.pc = "write" => IsStaged(q.name, q.src)'
  BY <1>2 DEF UploadSound
<1>5. ASSUME q.pc = "open", q.left = << >> PROVE IsStaged(q.name, q.src)' /\ Files!Holds(q.to, node[q.src])'
  <2>1. IsStaged(q.name, q.src) /\ Files!Holds(q.to, node[q.src])
    BY <1>5 DEF UploadSound
  <2>2. PICK c : c = node[q.src]
    OBVIOUS
  <2>3. Files!Holds(q.to, c)' /\ node'[q.src] = c /\ IsStaged(q.name, q.src)'
    BY <1>1, <1>2, <2>1, <2>2, UndisturbedFacts
  <2> QED BY <2>3 DEF Files!Holds
<1>6. q.pc \in {"open", "write"} => q.left = << >> \/ q.left = <<StagedItem(q)>>
  BY DEF UploadSound
<1> QED BY <1>3, <1>4, <1>5, <1>6 DEF UploadSound, Files!Own, StagedItem, Files!Root

LEMMA WriteStays ==
    ASSUME NEW q \in RequestType, NEW r, Undisturbed(q), Sane(q), q.pc # "new", WriteSound(r, q)
    PROVE  WriteSound(r, q)'
<1> SUFFICES ASSUME q.kind = "write" PROVE WriteSound(r, q)'
  BY DEF WriteSound
<1>1. q.to \in Below(q)
  BY BelowFacts DEF Sane
<1>2. q.pc = "open" /\ q.left = << >> => Files!Holds(q.to, Files!Own(r))'
  BY <1>1, UndisturbedFacts DEF WriteSound
<1> QED BY <1>2 DEF WriteSound, OwnItem, Files!Own, Files!Root

LEMMA CopyStays ==
    ASSUME FilesInv, NEW q \in RequestType, Undisturbed(q), Sane(q), q.pc # "new",
           q.kind = "copy" => q.path \in Files!Paths, q.pc = "write" => q.left # << >>, CopySound(q)
    PROVE  CopySound(q)'
<1> SUFFICES ASSUME q.kind = "copy", q.pc \in {"open", "write"}, ~q.flag PROVE CopySound(q)'
  BY DEF CopySound
<1>1. q.to \in Below(q) /\ q.path \in Below(q) /\ Inside(q.path) \subseteq Below(q) /\ q.path \in Files!Paths
  BY BelowFacts DEF Sane
<1>2. /\ \A o \in Below(q) : tree'[o] = tree[o]
      /\ \A o \in Below(q) : \A n : IsFile(o, n) => IsFile(o, n)' /\ node'[n] = node[n]
      /\ \A o \in Below(q) : \A c : Files!Holds(o, c) => Files!Holds(o, c)'
  BY UndisturbedFacts
<1>3. ASSUME FileCopied(q) PROVE FileCopied(q)'
  <2>1. tree'[q.path].is = "file"
    BY <1>1, <1>2, <1>3 DEF FileCopied
  <2>2. CASE q.left = <<FileItem(q)>> /\ (q.pc = "write" => IsFile(q.path, q.src))
    <3>1. q.pc = "write" => IsFile(q.path, q.src)'
      BY <1>1, <1>2, <2>2
    <3> QED BY <2>1, <2>2, <3>1 DEF FileCopied, FileItem
  <2>3. CASE q.left = << >> /\ IsFile(q.path, q.src) /\ Files!Holds(q.to, node[q.src])
    <3>1. PICK c : c = node[q.src]
      OBVIOUS
    <3>2. IsFile(q.path, q.src)' /\ node'[q.src] = c /\ Files!Holds(q.to, c)'
      BY <1>1, <1>2, <2>3, <3>1
    <3>3. Files!Holds(q.to, node[q.src])'
      BY <3>2 DEF Files!Holds
    <3> QED BY <2>1, <2>3, <3>2, <3>3 DEF FileCopied
  <2> QED BY <1>3, <2>2, <2>3 DEF FileCopied
<1>4. ASSUME DirectoryCopied(q) PROVE DirectoryCopied(q)'
  <2>1. tree'[q.path].is = "dir" /\ q.to \in Files!Tops
    BY <1>1, <1>2, <1>4 DEF DirectoryCopied
  <2>2. \A k \in 1..Len(q.left) : \E c \in Inside(q.path) : q.left[k] = ChildItem(q, c)
    BY <1>4 DEF DirectoryCopied
  <2>3. ASSUME NEW c \in Inside(q.path) PROVE ChildCopied(q, c)'
    <3>1. ChildCopied(q, c) /\ tree'[c] = tree[c]
      BY <1>1, <1>2, <1>4 DEF DirectoryCopied
    <3>2. Counterpart(q, c) \in Below(q)
      <4>1. Files!Last(c) \in Names
        <5>1. c \in Files!Paths /\ Len(c) = 2
          BY <1>1, PathShape DEF Inside
        <5> QED BY <5>1, FrontFacts
      <4> QED BY <2>1, <4>1, BelowFacts DEF Counterpart
    <3>3. ASSUME tree[c].is = "file", Files!Holds(Counterpart(q, c), node[tree[c].node])
          PROVE  Files!Holds(Counterpart(q, c), node[tree[c].node])'
      <4>1. PICK n : n = tree[c].node
        OBVIOUS
      <4>2. PICK w : w = node[n]
        OBVIOUS
      <4>3. PICK o \in Below(q) : o = Counterpart(q, c)
        BY <3>2
      <4>4. node'[n] = w /\ tree'[c].node = n
        BY <1>1, <1>2, <3>1, <3>3, <4>1, <4>2 DEF IsFile
      <4>5. Files!Holds(o, w)'
        BY <1>2, <3>3, <4>1, <4>2, <4>3
      <4>6. Files!Holds(o, node[tree[c].node])'
        BY <4>4, <4>5 DEF Files!Holds
      <4>7. o = Counterpart(q, c)'
        BY <4>3 DEF Counterpart, Files!Under, Files!Last
      <4> QED BY <4>6, <4>7
    <3> QED BY <3>1, <3>3 DEF ChildCopied
  <2>4. q.pc = "write" => IsFile(Head(q.left).from, q.src)'
    <3>1. ASSUME q.pc = "write" PROVE IsFile(Head(q.left).from, q.src)'
      <4>1. IsFile(Head(q.left).from, q.src)
        BY <1>4, <3>1 DEF DirectoryCopied
      <4>2. PICK o : o = Head(q.left).from
        OBVIOUS
      <4>3. o \in Below(q)
        <5>1. q.left \in Seq(Items) /\ q.left # << >>
          BY <3>1, RequestFacts
        <5>2. Head(q.left) = q.left[1] /\ 1 \in 1..Len(q.left)
          BY <5>1, TailFits
        <5>3. PICK c \in Inside(q.path) : q.left[1] = ChildItem(q, c)
          BY <2>2, <5>2
        <5>4. ChildItem(q, c).from = c
          BY DEF ChildItem
        <5> QED BY <1>1, <4>2, <5>2, <5>3, <5>4
      <4>4. IsFile(o, q.src)'
        BY <1>2, <4>1, <4>2, <4>3
      <4> QED BY <4>2, <4>4
    <3> QED BY <3>1
  <2> QED BY <2>1, <2>2, <2>3, <2>4 DEF DirectoryCopied, ChildItem, Counterpart, Inside
<1> QED BY <1>3, <1>4 DEF CopySound

\* Where a member goes.
LEMMA MemberPlaces ==
    ASSUME NEW held \in Archives, NEW k \in 1..Len(held.members)
    PROVE  /\ held.members[k].name \in Names /\ held.members[k].kind \in Files!MemberKinds
           /\ Len(held.members) \in Nat
           /\ \A q \in RequestType : q.kind = "extract" /\ q.to \in Files!Tops \cup {Files!Root} =>
                Files!Under(q.to, held.members[k].name) \in Below(q)
<1>1. held \in Files!ArchiveType
  BY FilesAssumption
<1>2. held.members \in Seq([name : Names, kind : Files!MemberKinds, large : BOOLEAN])
  BY <1>1, Zenon DEF Files!ArchiveType
<1>3. PICK S : S = [name : Names, kind : Files!MemberKinds, large : BOOLEAN]
  OBVIOUS
<1>4. Len(held.members) \in Nat /\ held.members[k].name \in Names /\ held.members[k].kind \in Files!MemberKinds
  <2>1. PICK ms : ms = held.members
    OBVIOUS
  <2>2. ms \in Seq(S) /\ k \in 1..Len(ms)
    BY <1>2, <1>3, <2>1
  <2>3. Len(ms) \in Nat /\ ms[k] \in S
    BY <2>2
  <2>4. \A m \in S : m.name \in Names /\ m.kind \in Files!MemberKinds
    BY <1>3
  <2> QED BY <2>1, <2>3, <2>4
<1>5. PICK x \in Names : x = held.members[k].name
  BY <1>4
<1>6. ASSUME NEW q \in RequestType, q.kind = "extract", q.to \in Files!Tops \cup {Files!Root}
      PROVE  Files!Under(q.to, x) \in Below(q)
  <2>1. Files!Under(q.to, x) \in Files!Paths
    BY <1>5, <1>6, UnderFacts
  <2>2. CASE q.to \in Files!Tops
    BY <1>5, <2>2, BelowFacts
  <2>3. CASE q.to = Files!Root
    BY <1>6, <2>1, <2>3, BelowFacts
  <2> QED BY <1>6, <2>2, <2>3
<1> QED BY <1>4, <1>5, <1>6

LEMMA ExtractStays ==
    ASSUME FilesInv, NEW q \in RequestType, NEW r, Undisturbed(q),
           q.kind = "extract" => q.to \in Files!Tops \cup {Files!Root}, ExtractSound(r, q)
    PROVE  ExtractSound(r, q)'
<1> SUFFICES ASSUME q.kind = "extract", q.pc \in {"open", "write", "link"} PROVE ExtractSound(r, q)'
  BY DEF ExtractSound
<1>1. PICK n \in 0..Len(archive.members) : archive # None /\ Extracted(r, q, archive, n)
  BY DEF ExtractSound
<1>2. archive' = archive
  BY <1>1 DEF Undisturbed
<1>3. PICK held \in Archives : held = archive
  BY <1>1 DEF FilesInv
<1>4. Extracted(r, q, held, n)'
  <2>1. ASSUME NEW k \in 1..n, held.members[k].kind = "file", OneOfItsName(held, k)
        PROVE  Files!Holds(Files!Under(q.to, held.members[k].name), Files!Own(r))'
    <3>1. k \in 1..Len(archive.members)
      <4>1. 1 \in 1..n => Len(archive.members) \in Nat
        BY <1>1
      <4> QED BY <1>1
    <3>2. Files!Under(q.to, held.members[k].name) \in Below(q)
      BY <1>1, <1>3, <3>1, MemberPlaces
    <3>3. Files!Holds(Files!Under(q.to, held.members[k].name), Files!Own(r))
      BY <1>1, <1>3, <2>1 DEF Extracted
    <3> QED BY <3>2, <3>3, UndisturbedFacts
  <2> QED BY <1>1, <1>3, <2>1 DEF Extracted
<1> QED BY <1>1, <1>2, <1>3, <1>4 DEF ExtractSound

LEMMA SoundStays ==
    ASSUME FilesInv, NEW q \in RequestType, NEW r, Undisturbed(q), Sane(q), InHand(q, Len(node), Checked), q.pc # "new",
           Sound(r, q)
    PROVE  Sound(r, q)'
<1>1. UploadSound(r, q)' /\ WriteSound(r, q)' /\ CopySound(q)' /\ ExtractSound(r, q)'
  BY UploadStays, WriteStays, CopyStays, ExtractStays DEF Sound, InHand
<1>2. Writing(q)'
  <2>1. ASSUME q.pc = "write" PROVE IsFile(Head(q.left).to, q.dst)'
    <3>1. q.left \in Seq(Items) /\ q.left # << >>
      BY <2>1, RequestFacts DEF InHand
    <3>2. Head(q.left) = q.left[1] /\ 1 \in 1..Len(q.left)
      BY <3>1, TailFits
    <3>3. PICK o \in Below(q) : o = Head(q.left).to
      BY <3>2 DEF Sane
    <3>4. IsFile(o, q.dst)
      BY <2>1, <3>3 DEF Sound, Writing
    <3>5. IsFile(o, q.dst)'
      BY <3>3, <3>4, UndisturbedFacts
    <3> QED BY <3>3, <3>5
  <2> QED BY <2>1 DEF Writing
<1>3. MoveSound(q)'
  <2>1. q.pc = "rename" => q.path \in Below(q)
    BY BelowFacts DEF InHand
  <2> QED BY <2>1, UndisturbedFacts DEF Sound, MoveSound
<1> QED BY <1>1, <1>2, <1>3 DEF Sound

-------------------------------------------------------------------------------
(* One request goes on.                                                      *)

LEMMA KeepsCalm ==
    ASSUME FilesInv, FilesInv', CalmInv, NEW r \in Files!Reqs, Files!Active(r),
           NEW q \in RequestType, req' = [req EXCEPT ![r] = q], q.clean = req[r].clean,
           Narrower(q, req[r]), Effect(req[r]), Sane(q), OpenInode(q)', Writing(q)',
           WellFormed', OneName', Len(node) <= Len(node'),
           \A x \in Names : \A n \in 1..Len(node) : IsStaged(x, n)' <=> IsStaged(x, n),
           q.pc \notin {"new", "done", "failed"} =>
               \A o \in Files!Paths : \A n \in 1..Len(node) : IsFile(o, n)' => IsFile(o, n),
           q.clean /\ q.pc \notin {"new", "done", "failed"} => Sound(r, q)'
    PROVE  CalmInv'
<1> DEFINE Going(p) == p.pc \notin {"new", "done", "failed"}
<1>1. /\ \A s \in Files!Reqs : req[s] \in RequestType /\ req'[s] \in RequestType
      /\ \A s \in Files!Reqs : req'[s] = IF s = r THEN q ELSE req[s]
      /\ \A s \in Files!Reqs : Sane(req[s]) /\ OpenInode(req[s]) /\ InHand(req[s], Len(node), Checked)
  BY DEF FilesInv, CalmInv
<1>2. /\ \A s \in Files!Reqs : Files!Active(s) <=> Going(req[s])
      /\ \A s \in Files!Reqs : Files!Active(s)' <=> Going(req'[s])
      /\ \A s \in Files!Reqs : Calm(s) <=> Going(req[s]) /\ req[s].clean
      /\ \A s \in Files!Reqs : Calm(s)' <=> Going(req'[s]) /\ req'[s].clean
  BY DEF Files!Active, Calm
<1> HIDE DEF Going
<1>3. /\ Below(q) \subseteq Below(req[r])
      /\ \A w \in RequestType : Files!Conflict(q, w) => Files!Conflict(req[r], w)
  BY <1>1, NarrowerFacts
<1>4. \A s, u \in Files!Reqs : s # u /\ Calm(s) /\ Files!Active(u) => ~Files!Conflict(req[s], req[u])
  BY Zenon DEF CalmInv, AloneInv
<1>5. \A s \in Files!Reqs : s # r /\ Calm(s) => Undisturbed(req[s])
  BY NotDisturbed
<1>6. AloneInv'
  <2>1. ASSUME NEW s \in Files!Reqs, NEW u \in Files!Reqs, s # u, Calm(s)', Files!Active(u)'
        PROVE  ~Files!Conflict(req'[s], req'[u])
    <3>1. CASE s # r /\ u # r
      BY <1>1, <1>2, <1>4, <2>1, <3>1
    <3>2. CASE s = r
      <4>1. Calm(r) /\ Files!Active(u) /\ req'[u] = req[u] /\ req'[s] = q /\ req[u] \in RequestType
        BY <1>1, <1>2, <2>1, <3>2
      <4>2. ~Files!Conflict(req[r], req[u])
        BY <1>4, <2>1, <3>2, <4>1
      <4> QED BY <1>3, <4>1, <4>2
    <3>3. CASE u = r
      <4>1. Calm(s) /\ req'[s] = req[s] /\ req'[u] = q /\ req[s] \in RequestType /\ req[r] \in RequestType
        BY <1>1, <1>2, <2>1, <3>3
      <4>2. ~Files!Conflict(req[s], req[r])
        BY <1>4, <2>1, <3>3, <4>1
      <4>3. ~Files!Conflict(req[r], req[s])
        BY <4>1, <4>2, ConflictIsMutual
      <4>4. ~Files!Conflict(q, req[s])
        BY <1>3, <4>1, <4>3
      <4> QED BY <4>1, <4>4, ConflictIsMutual
    <3> QED BY <3>1, <3>2, <3>3
  <2> QED BY <2>1, Zenon DEF AloneInv
<1>7. HeldInv'
  <2>1. ASSUME NEW s \in Files!Reqs, NEW u \in Files!Reqs, s # u, Calm(s)', req'[u].pc = "write",
               NEW o \in Below(req'[s])
        PROVE  ~IsFile(o, req[u].dst)'
    <3>0. o \in Files!Paths
      BY DEF Below
    <3>1. CASE u # r
      <4>1. req'[u] = req[u] /\ req[u].pc = "write" /\ req[u].dst \in 1..Len(node)
        <5>1. req'[u] = req[u] /\ OpenInode(req[u])
          BY <1>1, <3>1
        <5> QED BY <2>1, <5>1 DEF OpenInode
      <4>2. Calm(s) /\ o \in Below(req[s])
        BY <1>1, <1>2, <1>3, <2>1
      <4>3. ~IsFile(o, req[u].dst)
        BY <2>1, <4>1, <4>2 DEF CalmInv, HeldInv
      <4>4. IsFile(o, req[u].dst)' => IsFile(o, req[u].dst)
        <5>1. CASE s = r
          <6>1. q.pc \notin {"new", "done", "failed"}
            BY <1>1, <1>2, <2>1, <5>1 DEF Going
          <6>2. PICK n \in 1..Len(node) : n = req[u].dst
            BY <4>1
          <6>3. IsFile(o, n)' => IsFile(o, n)
            BY <3>0, <6>1, <6>2
          <6>4. req'[u].dst = n
            BY <4>1, <6>2
          <6> QED BY <6>2, <6>3, <6>4 DEF IsFile
        <5>2. CASE s # r
          <6>1. tree'[o] = tree[o]
            BY <1>5, <4>2, <5>2 DEF Undisturbed
          <6> QED BY <4>1, <6>1 DEF IsFile
        <5> QED BY <5>1, <5>2
      <4> QED BY <4>1, <4>3, <4>4 DEF IsFile
    <3>2. CASE u = r
      <4>1. req'[u] = q /\ q.pc = "write" /\ Calm(s) /\ req'[s] = req[s] /\ s # r
        BY <1>1, <1>2, <2>1, <3>2
      <4>2. PICK p : p = Head(q.left).to
        OBVIOUS
      <4>3. p \in Below(q)
        <5>1. q.left \in Seq(Items) /\ q.left # << >>
          <6>1. InHand(q, Len(node'), Checked')
            BY <1>1, <3>2, <4>1 DEF FilesInv
          <6> QED BY <4>1, <6>1, RequestFacts DEF InHand
        <5>2. Head(q.left) = q.left[1] /\ 1 \in 1..Len(q.left)
          BY <5>1, TailFits
        <5> QED BY <4>1, <4>2, <5>2 DEF Sane
      <4>4. p \in Around(req[r])
        <5>1. p \in Below(req[r])
          BY <1>3, <4>3
        <5> QED BY <5>1 DEF Below, Around, Files!Near
      <4>5. o \notin Around(req[r])
        <5>1. ~Files!Conflict(req[s], req[r]) /\ req[s] \in RequestType /\ req[r] \in RequestType
          BY <1>1, <1>4, <4>1
        <5> QED BY <2>1, <4>1, <5>1, ApartPaths
      <4>6. IsFile(p, q.dst)'
        BY <4>1, <4>2 DEF Writing
      <4>7. p \in Files!Paths
        BY <4>3 DEF Below
      <4>8. ASSUME IsFile(o, q.dst)' PROVE FALSE
        <5>1. o = p
          BY <3>0, <4>6, <4>7, <4>8 DEF OneName, IsFile
        <5> QED BY <4>4, <4>5, <5>1
      <4> QED BY <4>1, <4>8 DEF IsFile
    <3> QED BY <3>1, <3>2
  <2> QED BY <2>1 DEF HeldInv, Below
<1>8. ASSUME NEW s \in Files!Reqs PROVE (Sane(req[s]) /\ OpenInode(req[s]))'
  <2>1. CASE s = r
    <3>1. req'[s] = q
      BY <1>1, <2>1
    <3> QED BY <3>1 DEF OpenInode, IsStaged, Sane, Below, Files!Touched, Files!Root, Files!Opens
  <2>2. CASE s # r
    <3>1. PICK w \in RequestType : w = req[s] /\ w = req'[s] /\ Sane(w) /\ OpenInode(w) /\ InHand(w, Len(node), Checked)
      BY <1>1, <2>2
    <3>2. ASSUME w.pc = "staged" PROVE IsStaged(w.name, w.dst)'
      <4>1. IsStaged(w.name, w.dst) /\ w.name \in Names
        BY <3>1, <3>2 DEF OpenInode, InHand
      <4>2. w.dst \in 1..Len(node)
        BY <4>1 DEF IsStaged, FilesInv, Stagings
      <4> QED BY <4>1, <4>2
    <3>3. ASSUME w.pc = "write" PROVE w.dst \in 1..Len(node') /\ \A x \in Names : ~IsStaged(x, w.dst)'
      <4>1. w.dst \in 1..Len(node) /\ \A x \in Names : ~IsStaged(x, w.dst)
        BY <3>1, <3>3 DEF OpenInode
      <4>2. Len(node) \in Nat /\ Len(node') \in Nat
        BY DEF FilesInv
      <4> QED BY <4>1, <4>2
    <3>4. OpenInode(w)'
      BY <3>2, <3>3 DEF OpenInode
    <3>5. Sane(w)'
      BY <3>1, SaneStays
    <3>6. w = req'[s]
      BY <3>1
    <3> QED BY <3>4, <3>5, <3>6
  <2> QED BY <2>1, <2>2
<1>9. ASSUME NEW s \in Files!Reqs, Calm(s)' PROVE Sound(s, req[s])'
  <2>1. CASE s = r
    <3>1. req'[s] = q /\ Sound(r, q)'
      BY <1>1, <1>2, <1>9, <2>1 DEF Going
    <3> QED BY <2>1, <3>1
  <2>2. CASE s # r
    <3>1. PICK w \in RequestType : w = req[s] /\ w = req'[s] /\ Sane(w) /\ InHand(w, Len(node), Checked)
      BY <1>1, <2>2
    <3>2. Calm(s) /\ w.pc # "new" /\ Undisturbed(w)
      <4>1. Going(w) /\ w.clean
        BY <1>2, <1>9, <3>1
      <4> QED BY <1>2, <1>5, <2>2, <3>1, <4>1 DEF Going
    <3>3. Sound(s, w)
      BY <3>1, <3>2 DEF CalmInv
    <3>4. Sound(s, w)'
      BY <3>1, <3>2, <3>3, SoundStays
    <3> QED BY <3>1, <3>4
  <2> QED BY <2>1, <2>2
<1> QED BY <1>6, <1>7, <1>8, <1>9 DEF CalmInv

-------------------------------------------------------------------------------
(* Trees.                                                                    *)

LEMMA FormedExcept ==
    ASSUME NEW n, NEW t \in Trees(n), Formed(t), NEW p \in Files!Paths, NEW e \in Entries,
           Len(p) = 2 /\ e.is # "none" => t[Files!Front(p)].is = "dir",
           e.is # "dir" => \A c \in Files!Paths : Len(c) = 2 /\ Files!Front(c) = p => t[c].is = "none"
    PROVE  Formed([t EXCEPT ![p] = e])
<1> DEFINE w == [t EXCEPT ![p] = e]
<1>1. \A o \in Files!Paths : w[o] = IF o = p THEN e ELSE t[o]
  BY DEF Trees
<1> HIDE DEF w
<1>2. ASSUME NEW o \in Files!Paths, Len(o) = 2, w[o].is # "none" PROVE w[Files!Front(o)].is = "dir"
  <2>1. Files!Front(o) \in Files!Paths /\ Files!Front(o) # o
    BY <1>2, FrontFacts
  <2>2. CASE o = p
    <3>1. t[Files!Front(p)].is = "dir"
      BY <1>1, <1>2, <2>2
    <3> QED BY <1>1, <2>1, <2>2, <3>1
  <2>3. CASE o # p
    <3>1. t[o].is # "none"
      BY <1>1, <1>2, <2>3
    <3>2. t[Files!Front(o)].is = "dir"
      BY <1>2, <3>1 DEF Formed
    <3>3. Files!Front(o) = p => e.is = "dir"
      BY <1>2, <3>1
    <3> QED BY <1>1, <2>1, <3>2, <3>3
  <2> QED BY <2>2, <2>3
<1>3. Formed(w)
  BY <1>2 DEF Formed
<1> QED BY <1>3 DEF w

LEMMA ParentMadeFacts ==
    ASSUME FilesInv, WellFormed, NEW p \in Files!Paths, Files!CanHaveParent(p)
    PROVE  /\ Files!ParentMade(p) \in Trees(Len(node)) /\ Formed(Files!ParentMade(p))
           /\ Len(p) = 2 => Files!ParentMade(p)[Files!Front(p)].is = "dir"
           /\ \A o \in Files!Paths :
                \/ Files!ParentMade(p)[o] = tree[o]
                \/ Len(p) = 2 /\ o = Files!Front(p) /\ tree[o].is = "none" /\ Files!ParentMade(p)[o].is = "dir"
           /\ Files!ParentMade(p)[p] = tree[p]
<1>0. tree \in Trees(Len(node)) /\ Formed(tree) /\ Files!Directory \in Entries /\ Files!Directory.is = "dir"
  BY DirectoryFacts DEF FilesInv, WellFormed, Files!Directory
<1>1. CASE Len(p) = 2 /\ tree[Files!Front(p)].is = "none"
  <2>1. PICK f \in Files!Tops : f = Files!Front(p) /\ f \in Files!Paths /\ f # p
    BY <1>1, FrontFacts
  <2>2. Files!ParentMade(p) = [tree EXCEPT ![f] = Files!Directory]
    BY <1>1, <2>1 DEF Files!ParentMade
  <2>3. Len(f) = 1
    BY <2>1, PathShape
  <2>4. [tree EXCEPT ![f] = Files!Directory] \in Trees(Len(node))
    BY <1>0, DirectoryFacts
  <2>5. Formed([tree EXCEPT ![f] = Files!Directory])
    BY <1>0, <2>1, <2>3, FormedExcept
  <2>6. \A o \in Files!Paths : [tree EXCEPT ![f] = Files!Directory][o] = IF o = f THEN Files!Directory ELSE tree[o]
    BY <1>0 DEF Trees
  <2>7. PICK d : d = Files!Directory
    OBVIOUS
  <2>8. PICK t : t = [tree EXCEPT ![f] = Files!Directory]
    OBVIOUS
  <2>9. d.is = "dir" /\ Files!ParentMade(p) = t /\ \A o \in Files!Paths : t[o] = IF o = f THEN d ELSE tree[o]
    BY <1>0, <2>2, <2>6, <2>7, <2>8
  <2>10. t \in Trees(Len(node)) /\ Formed(t)
    BY <2>4, <2>5, <2>8
  <2> QED BY <1>1, <2>1, <2>9, <2>10
<1>2. CASE ~(Len(p) = 2 /\ tree[Files!Front(p)].is = "none")
  <2>1. Files!ParentMade(p) = tree
    BY <1>2 DEF Files!ParentMade
  <2>2. Len(p) = 2 => tree[Files!Front(p)] \in Entries
    BY <1>0, FrontFacts DEF Trees
  <2>3. Len(p) = 2 => tree[Files!Front(p)].is = "dir"
    BY <1>2, <2>2 DEF Files!CanHaveParent, Entries
  <2> QED BY <1>0, <2>1, <2>3
<1> QED BY <1>1, <1>2

LEMMA AroundFacts ==
    ASSUME NEW q \in RequestType, NEW p \in Below(q)
    PROVE  p \in Around(q) /\ (Len(p) = 2 => Files!Front(p) \in Around(q))
<1>1. p \in Files!Paths
  BY DEF Below
<1>2. PICK u \in Files!Touched(q) : Files!IsPrefix(u, p)
  BY DEF Below
<1>3. p \in Around(q)
  BY <1>1, <1>2 DEF Around, Files!Near
<1>4. ASSUME Len(p) = 2 PROVE Files!Front(p) \in Around(q)
  <2>1. Files!Front(p) \in Files!Paths /\ Files!IsPrefix(Files!Front(p), p)
    BY <1>1, <1>4, FrontFacts
  <2>2. u \in Spots /\ p \in Spots /\ Files!Front(p) \in Spots
    BY <1>1, <1>2, <2>1, RequestFacts DEF Spots
  <2>3. Files!Near(u, Files!Front(p))
    BY <1>2, <2>1, <2>2, PrefixOrder
  <2> QED BY <1>2, <2>1, <2>3 DEF Around
<1> QED BY <1>3, <1>4

-------------------------------------------------------------------------------
(* Steps that open and write no file.                                        *)

LEMMA KeepsTree ==
    ASSUME FilesInv, FilesInv', CalmInv, NEW r \in Files!Reqs, Files!Active(r),
           NEW q \in RequestType, req' = [req EXCEPT ![r] = q], q.clean = req[r].clean,
           Narrower(q, req[r]), Sane(q), q.pc \notin {"staged", "write"},
           UNCHANGED <<uploads, node>>, archive # None => archive' = archive,
           \A o \in Files!Paths : o \notin Around(req[r]) => tree'[o] = tree[o],
           \A o \in Files!Paths : tree'[o].is = "file" => tree'[o] = tree[o],
           WellFormed', q.clean /\ q.pc \notin {"new", "done", "failed"} => Sound(r, q)'
    PROVE  CalmInv'
<1>1. Effect(req[r])
  BY DEF Effect
<1>2. OpenInode(q)' /\ Writing(q)'
  BY DEF OpenInode, Writing
<1>3. OneName'
  <2>1. OneName
    BY DEF CalmInv
  <2> QED BY <2>1 DEF OneName
<1>4. Len(node) <= Len(node')
  BY DEF FilesInv
<1>5. \A x \in Names : \A n \in 1..Len(node) : IsStaged(x, n)' <=> IsStaged(x, n)
  BY DEF IsStaged
<1>6. \A o \in Files!Paths : \A n \in 1..Len(node) : IsFile(o, n)' => IsFile(o, n)
  BY DEF IsFile
<1> QED BY <1>1, <1>2, <1>3, <1>4, <1>5, <1>6, KeepsCalm

\* A request that has made progress without turning elsewhere.
LEMMA SaneOn ==
    ASSUME NEW q \in RequestType, NEW p \in RequestType, Sane(p), p.pc # "new",
           q.name = p.name, q.path = p.path, q.to = p.to, q.kind = p.kind,
           q.left = p.left \/ (p.left # << >> /\ q.left = Tail(p.left)),
           q.pc \notin {"write", "link"}, q.pc = "open" => q.kind \in {"upload", "import", "write", "copy", "extract"}
    PROVE  Sane(q) /\ Narrower(q, p)
<1>1. Narrower(q, p) /\ Below(q) = Below(p)
  BY StaysSame
<1>2. p.left \in Seq(Items)
  BY RequestFacts
<1>3. \A k \in 1..Len(q.left) : \E j \in 1..Len(p.left) : q.left[k] = p.left[j]
  <2>1. CASE q.left = p.left
    BY <2>1
  <2>2. CASE p.left # << >> /\ q.left = Tail(p.left)
    BY <1>2, <2>2, TailFits
  <2> QED BY <2>1, <2>2
<1>4. \A k \in 1..Len(q.left) : q.left[k].to \in Below(q) /\ (q.kind = "remove" => Len(q.left[k].to) = 2)
  BY <1>1, <1>3 DEF Sane
<1> QED BY <1>1, <1>4 DEF Sane

\* Nothing has been done by then.
LEMMA SoundSoFar ==
    ASSUME NEW r, NEW q, q.pc \notin {"write", "rename", "link"},
           q.kind = "upload" => q.pc \notin {"check", "open"},
           q.kind \in {"import", "write", "copy", "extract"} => q.pc # "open"
    PROVE  Sound(r, q) /\ Sound(r, q)'
BY DEF Sound, Writing, UploadSound, WriteSound, CopySound, ExtractSound, MoveSound

LEMMA CalmGoing ==
    ASSUME FilesInv, FilesInv', CalmInv, NEW r \in Files!Reqs, Files!Active(r),
           NEW pc \in {"failed", "done", "read"}, Files!Go(r, pc), UNCHANGED <<uploads, node, archive>>,
           \A o \in Files!Paths : o \notin Around(req[r]) => tree'[o] = tree[o],
           \A o \in Files!Paths : tree'[o].is = "file" => tree'[o] = tree[o],
           WellFormed', pc = "read" => req[r].kind = "read"
    PROVE  CalmInv'
<1>1. req[r] \in RequestType /\ Sane(req[r]) /\ req[r].pc # "new"
  BY DEF FilesInv, CalmInv, Files!Active
<1>2. PICK q : q = [req[r] EXCEPT !.pc = pc]
  OBVIOUS
<1>3. /\ q \in RequestType /\ q.kind = req[r].kind /\ q.pc = pc /\ q.clean = req[r].clean
      /\ q.name = req[r].name /\ q.left = req[r].left /\ q.path = req[r].path /\ q.to = req[r].to
  BY <1>1, <1>2, Zenon DEF RequestType, FilePlaces
<1>4. req' = [req EXCEPT ![r] = q]
  BY <1>2, Zenon DEF Files!Go
<1>5. Sane(q) /\ Narrower(q, req[r])
  BY <1>1, <1>3, SaneOn
<1>6. q.clean /\ q.pc \notin {"new", "done", "failed"} => Sound(r, q)'
  BY <1>3, SoundSoFar
<1> QED BY <1>3, <1>4, <1>5, <1>6, KeepsTree

LEMMA CalmFailing ==
    ASSUME FilesInv, FilesInv', CalmInv, NEW r \in Files!Reqs, Files!Active(r), Files!Fail(r)
    PROVE  CalmInv'
<1>1. Files!Go(r, "failed") /\ UNCHANGED <<tree, uploads, node, archive>>
  BY DEF Files!Fail
<1>2. WellFormed'
  BY <1>1 DEF CalmInv, WellFormed, Formed
<1> QED BY <1>1, <1>2, CalmGoing

\* A listing of a directory names everything in it.
LEMMA ListingMore ==
    ASSUME FilesInv, NEW p \in Files!Paths, NEW names \in Files!Listings(p)
    PROVE  /\ \A k \in 1..Len(names) : names[k] \in Names /\ p \in Files!Tops /\ Files!Under(p, names[k]) \in Inside(p)
           /\ \A c \in Inside(p) : tree[c].is # "none" => \E k \in 1..Len(names) : c = Files!Under(p, names[k])
<1> DEFINE S == {Files!Last(c) : c \in Files!Children(p)}
<1>1. names \in Seq(Names) /\ \A k \in 1..Len(names) : Files!Under(p, names[k]) \in Files!Paths
  BY ListingFacts
<1>2. ASSUME NEW k \in 1..Len(names)
      PROVE  names[k] \in Names /\ p \in Files!Tops /\ Files!Under(p, names[k]) \in Inside(p)
  <2>1. names[k] \in Names
    BY <1>1
  <2>2. PICK x \in Names : x = names[k]
    BY <2>1
  <2>3. p \in Seq(Names) /\ (Len(p) = 1 \/ Len(p) = 2) /\ (Len(p) = 1 => p \in Files!Tops)
    BY PathShape
  <2>4. Len(Append(p, x)) = Len(p) + 1
    BY <2>2, <2>3
  <2>5. Append(p, x) \in Files!Paths
    BY <1>1, <2>2 DEF Files!Under
  <2>6. Len(Append(p, x)) = 1 \/ Len(Append(p, x)) = 2
    BY <2>5, PathShape
  <2>7. p \in Files!Tops
    <3>1. ASSUME Len(p) = 2 PROVE FALSE
      BY <2>4, <2>6, <3>1
    <3> QED BY <2>3, <3>1, Zenon
  <2>8. Files!Under(p, x) \in Files!Paths /\ Len(Files!Under(p, x)) = Len(p) + 1 /\ Files!IsPrefix(p, Files!Under(p, x))
    BY <2>2, <2>7, UnderFacts, Zenon
  <2> QED BY <2>1, <2>2, <2>7, <2>8 DEF Inside
<1>3. ASSUME NEW c \in Inside(p), tree[c].is # "none" PROVE \E k \in 1..Len(names) : c = Files!Under(p, names[k])
  <2>1. c \in Files!Paths /\ Len(c) = Len(p) + 1 /\ Files!IsPrefix(p, c)
    BY DEF Inside
  <2>2. Len(c) = 2 /\ Len(p) = 1
    <3>1. (Len(c) = 1 \/ Len(c) = 2) /\ (Len(p) = 1 \/ Len(p) = 2)
      BY <2>1, PathShape
    <3> QED BY <2>1, <3>1
  <2>3. /\ Files!Last(c) \in Names /\ c = Files!Under(Files!Front(c), Files!Last(c))
        /\ p = c \/ p = Files!Front(c)
    BY <2>1, <2>2, FrontFacts
  <2>4. c = Files!Under(p, Files!Last(c))
    BY <2>2, <2>3
  <2>5. Files!Last(c) \in S
    BY <1>3, <2>1 DEF Files!Children
  <2>6. S \subseteq Names
    <3>1. ASSUME NEW d \in Files!Children(p) PROVE Files!Last(d) \in Names
      <4>1. d \in Files!Paths /\ Len(d) = 2
        BY <2>2 DEF Files!Children
      <4> QED BY <4>1, FrontFacts
    <3> QED BY <3>1
  <2> HIDE DEF S
  <2>7. IsFiniteSet(S) /\ Cardinality(S) \in Nat
    BY <2>6, FilesAssumption, FS_Subset, FS_CardinalityType
  <2>8. /\ names \in [1..Cardinality(S) -> S]
        /\ \A i, j \in 1..Cardinality(S) : i # j => names[i] # names[j]
    BY SameNumber DEF Files!Listings, Files!SetToSeqs, S
  <2>9. names \in Injection(1..Cardinality(S), S)
    BY <2>8 DEF Injection, IsInjective
  <2>10. Cardinality(1..Cardinality(S)) = Cardinality(S)
    BY <2>7, FS_Interval
  <2>11. names \in Surjection(1..Cardinality(S), S)
    BY <2>7, <2>9, <2>10, FS_Injection
  <2>12. PICK k \in 1..Cardinality(S) : names[k] = Files!Last(c)
    BY <2>5, <2>11 DEF Surjection
  <2>13. Len(names) = Cardinality(S)
    BY <2>7, <2>8
  <2> QED BY <2>4, <2>12, <2>13
<1> QED BY <1>2, <1>3

LEMMA CalmUnpack ==
    ASSUME FilesInv, FilesInv', CalmInv, NEW r \in Files!Reqs, Files!Unpack(r)
    PROVE  CalmInv'
BY CalmFailing DEF Files!Unpack, Files!At, Files!Active

LEMMA CalmFinish ==
    ASSUME FilesInv, FilesInv', CalmInv, NEW r \in Files!Reqs, Files!Finish(r)
    PROVE  CalmInv'
<1>1. PICK pc \in {"failed", "done"} : Files!Go(r, pc)
  BY DEF Files!Finish
<1>2. UNCHANGED <<tree, uploads, node, archive>> /\ Files!Active(r)
  BY DEF Files!Finish, Files!At, Files!Active
<1>3. WellFormed'
  BY <1>2 DEF CalmInv, WellFormed, Formed
<1> QED BY <1>1, <1>2, <1>3, CalmGoing

LEMMA CalmReadText ==
    ASSUME FilesInv, FilesInv', CalmInv, NEW r \in Files!Reqs, Files!ReadText(r)
    PROVE  CalmInv'
<1>1. PICK pc \in {"read", "failed"} : Files!Go(r, pc)
  BY DEF Files!ReadText
<1>2. UNCHANGED <<tree, uploads, node, archive>> /\ Files!Active(r) /\ req[r].kind = "read"
  BY DEF Files!ReadText, Files!At, Files!Active
<1>3. WellFormed'
  BY <1>2 DEF CalmInv, WellFormed, Formed
<1> QED BY <1>1, <1>2, <1>3, CalmGoing

LEMMA CalmReadBytes ==
    ASSUME FilesInv, FilesInv', CalmInv, NEW r \in Files!Reqs, Files!ReadBytes(r)
    PROVE  CalmInv'
<1>1. UNCHANGED <<tree, uploads, node, archive>> /\ Files!Active(r)
  BY DEF Files!ReadBytes, Files!At, Files!Active
<1>2. WellFormed'
  BY <1>1 DEF CalmInv, WellFormed, Formed
<1>3. req[r] \in RequestType /\ Sane(req[r]) /\ req[r].pc # "new"
  BY <1>1 DEF FilesInv, CalmInv, Files!Active
<1>4. CASE tree[req[r].path].is # "file"
  <2>1. Files!Go(r, "failed")
    BY <1>4 DEF Files!ReadBytes, Files!Go
  <2> QED BY <1>1, <1>2, <2>1, CalmGoing
<1>5. CASE tree[req[r].path].is = "file"
  <2>1. PICK got : req' = [req EXCEPT ![r].pc = "done", ![r].got = got]
    BY <1>5, Zenon DEF Files!ReadBytes
  <2>2. PICK q : q = [req[r] EXCEPT !.pc = "done", !.got = got]
    OBVIOUS
  <2>3. req' = [req EXCEPT ![r] = q]
    BY <2>1, <2>2, Zenon
  <2>4. q \in RequestType
    <3>1. req'[r] = q /\ req' \in [Files!Reqs -> RequestType]
      BY <2>3 DEF FilesInv
    <3> QED BY <3>1
  <2>5. /\ q.kind = req[r].kind /\ q.pc = "done" /\ q.clean = req[r].clean
        /\ q.name = req[r].name /\ q.left = req[r].left /\ q.path = req[r].path /\ q.to = req[r].to
    BY <1>3, <2>2, Zenon DEF RequestType, FilePlaces
  <2>6. Sane(q) /\ Narrower(q, req[r])
    BY <1>3, <2>4, <2>5, SaneOn
  <2> QED BY <1>1, <1>2, <2>3, <2>4, <2>5, <2>6, KeepsTree
<1> QED BY <1>4, <1>5

\* One thing of the tree that is not a file is replaced by another.
LEMMA CalmExcept ==
    ASSUME FilesInv, CalmInv, NEW p \in Files!Paths, NEW e \in Entries,
           e.is # "file", tree' = [tree EXCEPT ![p] = e], NEW q \in RequestType, p \in Below(q)
    PROVE  /\ \A o \in Files!Paths : o \notin Around(q) => tree'[o] = tree[o]
           /\ \A o \in Files!Paths : tree'[o].is = "file" => tree'[o] = tree[o]
<1>1. \A o \in Files!Paths : tree'[o] = IF o = p THEN e ELSE tree[o]
  BY DEF FilesInv, Trees
<1> QED BY <1>1, AroundFacts

LEMMA CalmMakeDirectory ==
    ASSUME FilesInv, FilesInv', CalmInv, NEW r \in Files!Reqs, Files!MakeDirectory(r)
    PROVE  CalmInv'
<1>1. Files!Active(r) /\ req[r].kind = "mkdir" /\ req[r] \in RequestType /\ Sane(req[r]) /\ req[r].pc # "new"
  BY DEF Files!MakeDirectory, Files!At, Files!Active, FilesInv, CalmInv
<1>2. CASE Files!Fail(r)
  BY <1>1, <1>2, CalmFailing
<1>3. ASSUME ~Files!Fail(r) PROVE CalmInv'
  <2>1. /\ tree' = [tree EXCEPT ![req[r].path] = Files!Directory] /\ Files!Go(r, "done")
        /\ UNCHANGED <<uploads, node, archive>> /\ tree[req[r].path].is # "file"
    BY <1>3 DEF Files!MakeDirectory
  <2>2. PICK p \in Files!Tops : p = req[r].path
    BY <1>1 DEF Sane
  <2>3. p \in Files!Paths /\ Len(p) = 1 /\ p \in Below(req[r])
    BY <1>1, <2>2, PathShape, BelowFacts
  <2>4. Files!Directory \in Entries /\ Files!Directory.is = "dir"
    BY DirectoryFacts DEF Files!Directory
  <2>5. WellFormed'
    <3>1. tree \in Trees(Len(node)) /\ Formed(tree)
      BY DEF FilesInv, CalmInv, WellFormed
    <3>2. Formed([tree EXCEPT ![p] = Files!Directory])
      BY <2>3, <2>4, <3>1, FormedExcept
    <3> QED BY <2>1, <2>2, <3>2 DEF WellFormed
  <2>6. /\ \A o \in Files!Paths : o \notin Around(req[r]) => tree'[o] = tree[o]
        /\ \A o \in Files!Paths : tree'[o].is = "file" => tree'[o] = tree[o]
    BY <1>1, <2>1, <2>2, <2>3, <2>4, CalmExcept
  <2> QED BY <1>1, <2>1, <2>5, <2>6, CalmGoing
<1> QED BY <1>2, <1>3

-------------------------------------------------------------------------------
(* What moves, makes or removes directories.                                 *)

LEMMA LastFacts ==
    /\ \A p \in Files!Paths : Files!Last(p) \in Names
    /\ \A p \in Files!Paths, x \in Names : Files!Under(p, x) \in Files!Paths => p \in Files!Tops
<1>1. ASSUME NEW p \in Files!Paths PROVE Files!Last(p) \in Names
  <2>1. p \in Seq(Names) /\ (Len(p) = 1 \/ Len(p) = 2)
    BY PathShape
  <2> QED BY <2>1 DEF Files!Last
<1>2. ASSUME NEW p \in Files!Paths, NEW x \in Names, Append(p, x) \in Files!Paths PROVE p \in Files!Tops
  <2>1. p \in Seq(Names) /\ (Len(p) = 1 \/ Len(p) = 2) /\ (Len(p) = 1 => p \in Files!Tops)
    BY PathShape
  <2>2. Len(Append(p, x)) = Len(p) + 1
    BY <2>1
  <2>3. Len(Append(p, x)) = 1 \/ Len(Append(p, x)) = 2
    BY <1>2, PathShape
  <2> QED BY <2>1, <2>2, <2>3
<1> QED BY <1>1, <1>2 DEF Files!Under

LEMMA ParentEffect ==
    ASSUME FilesInv, CalmInv, NEW q \in RequestType, NEW p \in Below(q), Files!CanHaveParent(p),
           tree' = Files!ParentMade(p)
    PROVE  /\ \A o \in Files!Paths : o \notin Around(q) => tree'[o] = tree[o]
           /\ \A o \in Files!Paths : tree'[o].is = "file" => tree'[o] = tree[o]
           /\ \A o \in Files!Paths : tree[o].is # "none" => tree'[o] = tree[o]
           /\ WellFormed'
<1>1. p \in Files!Paths /\ WellFormed
  BY DEF Below, CalmInv
<1>2. /\ Formed(tree')
      /\ \A o \in Files!Paths :
                \/ tree'[o] = tree[o]
                \/ Len(p) = 2 /\ o = Files!Front(p) /\ tree[o].is = "none" /\ tree'[o].is = "dir"
  BY <1>1, ParentMadeFacts
<1>3. \A o \in Files!Paths : o \notin Around(q) => tree'[o] = tree[o]
  BY <1>2, AroundFacts
<1> QED BY <1>2, <1>3 DEF WellFormed

LEMMA CalmMovePath ==
    ASSUME FilesInv, FilesInv', CalmInv, NEW r \in Files!Reqs, Files!MovePath(r)
    PROVE  CalmInv'
<1>1. Files!Active(r) /\ req[r].kind = "move" /\ req[r] \in RequestType /\ Sane(req[r]) /\ req[r].pc = "check"
  BY DEF Files!MovePath, Files!At, Files!Active, FilesInv, CalmInv
<1>2. CASE Files!Fail(r)
  BY <1>1, <1>2, CalmFailing
<1>3. ASSUME ~Files!Fail(r) PROVE CalmInv'
  <2>1. /\ tree' = Files!ParentMade(req[r].to) /\ UNCHANGED <<uploads, node, archive>>
        /\ req' = [req EXCEPT ![r].pc = "rename", ![r].src = tree[req[r].path].node]
        /\ tree[req[r].path].is # "none" /\ Files!CanHaveParent(req[r].to)
    BY <1>3, Zenon DEF Files!MovePath
  <2>2. PICK q : q = [req[r] EXCEPT !.pc = "rename", !.src = tree[req[r].path].node]
    OBVIOUS
  <2>3. req' = [req EXCEPT ![r] = q]
    BY <2>1, <2>2, Zenon
  <2>4. q \in RequestType
    <3>1. req'[r] = q /\ req' \in [Files!Reqs -> RequestType]
      BY <2>3 DEF FilesInv
    <3> QED BY <3>1
  <2>5. /\ q.pc = "rename" /\ q.kind = req[r].kind /\ q.name = req[r].name /\ q.clean = req[r].clean
        /\ q.left = req[r].left /\ q.path = req[r].path /\ q.to = req[r].to /\ q.src = tree[req[r].path].node
    BY <1>1, <2>2, Zenon DEF RequestType, FilePlaces
  <2>6. Sane(q) /\ Narrower(q, req[r])
    BY <1>1, <2>4, <2>5, SaneOn
  <2>7. req[r].to \in Below(req[r]) /\ req[r].path \in Files!Paths
    <3>1. InHand(req[r], Len(node), Checked)
      BY DEF FilesInv
    <3> QED BY <1>1, <3>1, BelowFacts DEF Sane, InHand
  <2>8. /\ \A o \in Files!Paths : o \notin Around(req[r]) => tree'[o] = tree[o]
        /\ \A o \in Files!Paths : tree'[o].is = "file" => tree'[o] = tree[o]
        /\ \A o \in Files!Paths : tree[o].is # "none" => tree'[o] = tree[o]
        /\ WellFormed'
    BY <1>1, <2>1, <2>7, ParentEffect
  <2>9. Sound(r, q)'
    <3>1. tree'[q.path].is # "none" /\ tree'[q.path].node = q.src
      BY <2>1, <2>5, <2>7, <2>8
    <3> QED BY <1>1, <2>5, <3>1
        DEF Sound, Writing, UploadSound, WriteSound, CopySound, ExtractSound, MoveSound
  <2> QED BY <1>1, <2>1, <2>3, <2>4, <2>5, <2>6, <2>8, <2>9, KeepsTree
<1> QED BY <1>2, <1>3

LEMMA CalmRemovePath ==
    ASSUME FilesInv, FilesInv', CalmInv, NEW r \in Files!Reqs, Files!RemovePath(r)
    PROVE  CalmInv'
<1>1. /\ Files!Active(r) /\ req[r].kind = "remove" /\ req[r] \in RequestType /\ Sane(req[r]) /\ req[r].pc = "check"
      /\ WellFormed /\ tree \in Trees(Len(node)) /\ req[r].path \in Files!Paths
  <2>1. InHand(req[r], Len(node), Checked) /\ Files!Active(r) /\ req[r].kind = "remove" /\ req[r].pc = "check"
    BY DEF Files!RemovePath, Files!At, Files!Active, FilesInv
  <2>2. req[r].path \in Files!Paths
    BY <2>1 DEF InHand
  <2> QED BY <2>1, <2>2 DEF FilesInv, CalmInv
<1>2. CASE Files!Fail(r)
  BY <1>1, <1>2, CalmFailing
<1>3. PICK p \in Files!Paths : p = req[r].path /\ p \in Below(req[r])
  BY <1>1, BelowFacts
<1>4. CASE /\ tree[req[r].path].is = "file" /\ tree' = [tree EXCEPT ![req[r].path] = Files!Missing]
           /\ Files!Go(r, "done") /\ UNCHANGED <<uploads, node, archive>>
  <2>1. Files!Missing \in Entries /\ Files!Missing.is = "none"
    BY DirectoryFacts DEF Files!Missing
  <2>2. \A c \in Files!Paths : Len(c) = 2 /\ Files!Front(c) = p => tree[c].is = "none"
    BY <1>1, <1>3, <1>4 DEF WellFormed, Formed
  <2>3. Formed([tree EXCEPT ![p] = Files!Missing])
    BY <1>1, <2>1, <2>2, FormedExcept DEF WellFormed
  <2>4. WellFormed'
    BY <1>3, <1>4, <2>3 DEF WellFormed
  <2>5. /\ \A o \in Files!Paths : o \notin Around(req[r]) => tree'[o] = tree[o]
        /\ \A o \in Files!Paths : tree'[o].is = "file" => tree'[o] = tree[o]
    BY <1>1, <1>3, <1>4, <2>1, CalmExcept
  <2> QED BY <1>1, <1>4, <2>4, <2>5, CalmGoing
<1>5. ASSUME NEW names \in Files!Listings(req[r].path),
             req' = [req EXCEPT ![r].pc = "unlink",
                          ![r].left = [k \in 1..Len(names) |->
                                         [from |-> Files!Root, to |-> Files!Under(req[r].path, names[k]), kind |-> "own"]]],
             UNCHANGED <<tree, uploads, node, archive>>
      PROVE  CalmInv'
  <2>1. PICK left : left = [k \in 1..Len(names) |->
                              [from |-> Files!Root, to |-> Files!Under(req[r].path, names[k]), kind |-> "own"]]
    OBVIOUS
  <2>2. PICK q : q = [req[r] EXCEPT !.pc = "unlink", !.left = left]
    OBVIOUS
  <2>3. req' = [req EXCEPT ![r] = q]
    BY <1>5, <2>1, <2>2, Zenon
  <2>4. q \in RequestType
    <3>1. req'[r] = q /\ req' \in [Files!Reqs -> RequestType]
      BY <2>3 DEF FilesInv
    <3> QED BY <3>1
  <2>5. /\ q.pc = "unlink" /\ q.kind = req[r].kind /\ q.name = req[r].name /\ q.clean = req[r].clean
        /\ q.left = left /\ q.path = req[r].path /\ q.to = req[r].to
    BY <1>1, <2>2, Zenon DEF RequestType, FilePlaces
  <2>6. Narrower(q, req[r]) /\ Below(q) = Below(req[r])
    BY <1>1, <2>4, <2>5, StaysSame
  <2>7. \A k \in 1..Len(left) : left[k].to \in Below(q) /\ Len(left[k].to) = 2
    <3>1. Len(left) = Len(names) /\ \A k \in 1..Len(names) : left[k].to = Files!Under(p, names[k])
      <4>1. names \in Seq(Names)
        BY <1>3, ListingFacts
      <4> QED BY <1>3, <2>1, <4>1
    <3>2. \A k \in 1..Len(names) : Files!Under(p, names[k]) \in Inside(p)
      BY <1>3, <1>5, ListingMore
    <3>3. Inside(p) \subseteq Below(q)
      BY <1>1, <1>3, <2>6, BelowFacts
    <3>4. \A c \in Inside(p) : Len(c) = 2
      BY <1>3, PathShape DEF Inside
    <3> QED BY <3>1, <3>2, <3>3, <3>4
  <2>8. Sane(q)
    BY <1>1, <2>5, <2>7 DEF Sane
  <2>9. Sound(r, q)'
    BY <1>1, <2>5, SoundSoFar
  <2>10. WellFormed'
    BY <1>1, <1>5 DEF WellFormed, Formed
  <2> QED BY <1>1, <1>5, <2>3, <2>4, <2>5, <2>6, <2>8, <2>9, <2>10, KeepsTree
<1> QED BY <1>2, <1>4, <1>5, Zenon DEF Files!RemovePath

LEMMA CalmUnlink ==
    ASSUME FilesInv, FilesInv', CalmInv, NEW r \in Files!Reqs, Files!Unlink(r)
    PROVE  CalmInv'
<1>1. /\ Files!Active(r) /\ req[r].kind = "remove" /\ req[r] \in RequestType /\ Sane(req[r]) /\ req[r].pc = "unlink"
      /\ WellFormed /\ tree \in Trees(Len(node)) /\ req[r].path \in Files!Paths /\ req[r].left \in Seq(Items)
  <2>1. InHand(req[r], Len(node), Checked) /\ Files!Active(r) /\ req[r].pc = "unlink"
    BY DEF Files!Unlink, Files!At, Files!Active, FilesInv
  <2>2. req[r].path \in Files!Paths /\ req[r].kind = "remove"
    BY <2>1 DEF InHand
  <2>3. req[r] \in RequestType
    BY DEF FilesInv
  <2> QED BY <2>1, <2>2, <2>3, RequestFacts DEF FilesInv, CalmInv
<1>2. CASE Files!Fail(r)
  BY <1>1, <1>2, CalmFailing
<1>3. Files!Missing \in Entries /\ Files!Missing.is = "none"
  BY DirectoryFacts DEF Files!Missing
<1>4. ASSUME ~Files!Fail(r), req[r].left = << >> PROVE CalmInv'
  <2>1. /\ Files!Children(req[r].path) = {} /\ tree' = [tree EXCEPT ![req[r].path] = Files!Missing]
        /\ Files!Go(r, "done") /\ UNCHANGED <<uploads, node, archive>>
    BY <1>4 DEF Files!Unlink
  <2>2. PICK p \in Files!Paths : p = req[r].path /\ p \in Below(req[r])
    BY <1>1, BelowFacts
  <2>3. ASSUME NEW c \in Files!Paths, Len(c) = 2, Files!Front(c) = p PROVE tree[c].is = "none"
    <3>1. Files!IsPrefix(p, c) /\ p \in Files!Tops
      BY <2>3, FrontFacts
    <3>2. Len(p) = 1
      BY <3>1, PathShape
    <3>3. c \notin Files!Children(p)
      BY <2>1, <2>2
    <3> QED BY <2>3, <3>1, <3>2, <3>3 DEF Files!Children
  <2>4. Formed([tree EXCEPT ![p] = Files!Missing])
    BY <1>1, <1>3, <2>3, FormedExcept DEF WellFormed
  <2>5. WellFormed'
    BY <2>1, <2>2, <2>4 DEF WellFormed
  <2>6. /\ \A o \in Files!Paths : o \notin Around(req[r]) => tree'[o] = tree[o]
        /\ \A o \in Files!Paths : tree'[o].is = "file" => tree'[o] = tree[o]
    BY <1>1, <1>3, <2>1, <2>2, CalmExcept
  <2> QED BY <1>1, <2>1, <2>5, <2>6, CalmGoing
<1>5. ASSUME ~Files!Fail(r), req[r].left # << >> PROVE CalmInv'
  <2>1. PICK p : p = Head(req[r].left).to
    OBVIOUS
  <2>2. /\ tree' = [tree EXCEPT ![p] = Files!Missing] /\ req' = [req EXCEPT ![r].left = Tail(@)]
        /\ UNCHANGED <<uploads, node, archive>>
    BY <1>5, <2>1, Zenon DEF Files!Unlink
  <2>3. p \in Below(req[r]) /\ p \in Files!Paths /\ Len(p) = 2
    <3>1. Head(req[r].left) = req[r].left[1] /\ 1 \in 1..Len(req[r].left)
      BY <1>1, <1>5, TailFits
    <3>2. p \in Below(req[r]) /\ Len(p) = 2
      BY <1>1, <2>1, <3>1 DEF Sane
    <3> QED BY <3>2 DEF Below
  <2>4. PICK q : q = [req[r] EXCEPT !.left = Tail(@)]
    OBVIOUS
  <2>5. req' = [req EXCEPT ![r] = q]
    BY <2>2, <2>4, Zenon
  <2>6. q \in RequestType
    <3>1. req'[r] = q /\ req' \in [Files!Reqs -> RequestType]
      BY <2>5 DEF FilesInv
    <3> QED BY <3>1
  <2>7. /\ q.pc = "unlink" /\ q.kind = req[r].kind /\ q.name = req[r].name /\ q.clean = req[r].clean
        /\ q.left = Tail(req[r].left) /\ q.path = req[r].path /\ q.to = req[r].to
    BY <1>1, <2>4, Zenon DEF RequestType, FilePlaces
  <2>8. Sane(q) /\ Narrower(q, req[r])
    BY <1>1, <1>5, <2>6, <2>7, SaneOn
  <2>9. Sound(r, q)'
    BY <1>1, <2>7, SoundSoFar
  <2>10. ASSUME NEW c \in Files!Paths, Len(c) = 2, Files!Front(c) = p PROVE FALSE
    <3>1. p \in Files!Tops
      BY <2>10, FrontFacts
    <3> QED BY <2>3, <3>1, PathShape
  <2>11. Formed([tree EXCEPT ![p] = Files!Missing])
    BY <1>1, <1>3, <2>3, <2>10, FormedExcept DEF WellFormed
  <2>12. WellFormed'
    BY <2>2, <2>11 DEF WellFormed
  <2>13. /\ \A o \in Files!Paths : o \notin Around(req[r]) => tree'[o] = tree[o]
         /\ \A o \in Files!Paths : tree'[o].is = "file" => tree'[o] = tree[o]
    BY <1>1, <1>3, <2>2, <2>3, CalmExcept
  <2> QED BY <1>1, <2>2, <2>5, <2>6, <2>7, <2>8, <2>9, <2>12, <2>13, KeepsTree
<1> QED BY <1>2, <1>4, <1>5

-------------------------------------------------------------------------------
(* Steps that decide what is to be copied.                                   *)

\* A request turns to something below where it was sent.
LEMMA NarrowerTo ==
    ASSUME NEW q \in RequestType, NEW p \in RequestType, q.name = p.name, q.path = p.path, q.kind = p.kind,
           p.to \in Files!Paths, q.to \in Files!Paths, Files!IsPrefix(p.to, q.to)
    PROVE  Narrower(q, p) /\ q.to \in Below(p) /\ q.to \in Below(q)
<1>1. p.to \in Files!Touched(p)
  <2>1. p.to # Files!Root
    <3>1. (Len(p.to) = 1 \/ Len(p.to) = 2) /\ Len(Files!Root) = 0
      BY PathShape
    <3> QED BY <3>1
  <2> QED BY <2>1 DEF Files!Touched
<1>2. q.to \in Below(p) /\ q.to \in Below(q)
  BY <1>1, BelowFacts DEF Below
<1>3. \A u \in Files!Touched(q) : u = q.to \/ u \in Files!Touched(p)
  BY DEF Files!Touched
<1>4. \A u \in Files!Touched(p) : Files!IsPrefix(u, u)
  BY RequestFacts, PrefixOrder
<1> QED BY <1>1, <1>2, <1>3, <1>4 DEF Narrower

LEMMA CalmImport ==
    ASSUME FilesInv, FilesInv', CalmInv, NEW r \in Files!Reqs, Files!Import(r)
    PROVE  CalmInv'
<1>1. /\ Files!Active(r) /\ req[r].kind \in {"upload", "import"} /\ req[r] \in RequestType
      /\ Sane(req[r]) /\ req[r].pc = "check" /\ req[r].name \in Names /\ req[r].to \in Files!Paths
  <2>1. /\ Files!Active(r) /\ req[r].kind \in {"upload", "import"} /\ req[r] \in RequestType
        /\ Sane(req[r]) /\ req[r].pc = "check" /\ InHand(req[r], Len(node), Checked)
    BY DEF Files!Import, Files!At, Files!Active, FilesInv, CalmInv
  <2> QED BY <2>1 DEF Sane, InHand
<1>2. CASE Files!Fail(r)
  BY <1>1, <1>2, CalmFailing
<1>3. ASSUME ~Files!Fail(r) PROVE CalmInv'
  <2>1. PICK target : target = IF tree[req[r].to].is = "dir" THEN Files!Under(req[r].to, req[r].name) ELSE req[r].to
    OBVIOUS
  <2>2. /\ target \in Files!Paths /\ Files!CanHaveParent(target) /\ tree' = Files!ParentMade(target)
        /\ req' = [req EXCEPT ![r].pc = "open", ![r].to = target,
                              ![r].left = <<[from |-> Files!Root, to |-> target, kind |-> "staged"]>>]
        /\ UNCHANGED <<uploads, node, archive>>
    BY <1>3, <2>1, Zenon DEF Files!Import
  <2>3. Files!IsPrefix(req[r].to, target)
    <3>1. CASE tree[req[r].to].is = "dir"
      <4>1. target = Files!Under(req[r].to, req[r].name)
        BY <2>1, <3>1
      <4>2. req[r].to \in Files!Tops
        BY <1>1, <2>2, <4>1, LastFacts, Zenon
      <4>3. Files!IsPrefix(req[r].to, Files!Under(req[r].to, req[r].name))
        BY <1>1, <4>2, UnderFacts
      <4> QED BY <4>1, <4>3
    <3>2. CASE tree[req[r].to].is # "dir"
      BY <1>1, <2>1, <3>2, PrefixOrder DEF Spots
    <3> QED BY <3>1, <3>2
  <2>4. PICK left : left = <<[from |-> Files!Root, to |-> target, kind |-> "staged"]>>
    OBVIOUS
  <2>5. PICK q : q = [req[r] EXCEPT !.pc = "open", !.to = target, !.left = left]
    OBVIOUS
  <2>6. req' = [req EXCEPT ![r] = q]
    BY <2>2, <2>4, <2>5, Zenon
  <2>7. q \in RequestType
    <3>1. req'[r] = q /\ req' \in [Files!Reqs -> RequestType]
      BY <2>6 DEF FilesInv
    <3> QED BY <3>1
  <2>8. /\ q.pc = "open" /\ q.kind = req[r].kind /\ q.name = req[r].name /\ q.clean = req[r].clean
        /\ q.left = left /\ q.path = req[r].path /\ q.to = target
    BY <1>1, <2>5, Zenon DEF RequestType, FilePlaces
  <2>9. Narrower(q, req[r]) /\ target \in Below(req[r]) /\ target \in Below(q)
    BY <1>1, <2>2, <2>3, <2>7, <2>8, NarrowerTo
  <2>10. Sane(q)
    <3>1. Len(left) = 1 /\ left[1].to = target
      BY <2>4
    <3> QED BY <1>1, <2>2, <2>8, <2>9, <3>1 DEF Sane
  <2>11. /\ \A o \in Files!Paths : o \notin Around(req[r]) => tree'[o] = tree[o]
         /\ \A o \in Files!Paths : tree'[o].is = "file" => tree'[o] = tree[o]
         /\ WellFormed'
    BY <1>1, <2>2, <2>9, ParentEffect
  <2>12. ASSUME q.clean PROVE Sound(r, q)'
    <3>1. UploadSound(r, req[r])
      BY <1>1, <2>8, <2>12 DEF CalmInv, Calm, Sound
    <3>2. q.kind = "upload" => uploads[q.name].is = "file" /\ node[uploads[q.name].node] = Files!Own(r)
      BY <1>1, <2>8, <3>1 DEF UploadSound
    <3>3. q.left = <<StagedItem(q)>> /\ q.left # << >>
      BY <2>4, <2>8 DEF StagedItem
    <3>4. UploadSound(r, q)'
      BY <2>2, <2>8, <3>2, <3>3 DEF UploadSound, StagedItem, Files!Own, Files!Root
    <3> QED BY <1>1, <2>8, <3>4 DEF Sound, Writing, WriteSound, CopySound, ExtractSound, MoveSound
  <2> QED BY <1>1, <2>2, <2>6, <2>7, <2>8, <2>9, <2>10, <2>11, <2>12, KeepsTree
<1> QED BY <1>2, <1>3

LEMMA CalmWriteText ==
    ASSUME FilesInv, FilesInv', CalmInv, NEW r \in Files!Reqs, Files!WriteText(r)
    PROVE  CalmInv'
<1>1. /\ Files!Active(r) /\ req[r].kind = "write" /\ req[r] \in RequestType
      /\ Sane(req[r]) /\ req[r].pc = "check" /\ req[r].to \in Files!Paths
  <2>1. /\ Files!Active(r) /\ req[r].kind = "write" /\ req[r] \in RequestType
        /\ Sane(req[r]) /\ req[r].pc = "check"
    BY DEF Files!WriteText, Files!At, Files!Active, FilesInv, CalmInv
  <2> QED BY <2>1 DEF Sane
<1>2. CASE Files!Fail(r)
  BY <1>1, <1>2, CalmFailing
<1>3. ASSUME ~Files!Fail(r) PROVE CalmInv'
  <2>1. PICK target \in Files!Paths : target = req[r].to
    BY <1>1
  <2>2. /\ Files!CanHaveParent(target) /\ tree' = Files!ParentMade(target)
        /\ req' = [req EXCEPT ![r].pc = "open",
                              ![r].left = <<[from |-> Files!Root, to |-> target, kind |-> "own"]>>]
        /\ UNCHANGED <<uploads, node, archive>>
    BY <1>3, <2>1, Zenon DEF Files!WriteText
  <2>4. PICK left : left = <<[from |-> Files!Root, to |-> target, kind |-> "own"]>>
    OBVIOUS
  <2>5. PICK q : q = [req[r] EXCEPT !.pc = "open", !.left = left]
    OBVIOUS
  <2>6. req' = [req EXCEPT ![r] = q]
    BY <2>2, <2>4, <2>5, Zenon
  <2>7. q \in RequestType
    <3>1. req'[r] = q /\ req' \in [Files!Reqs -> RequestType]
      BY <2>6 DEF FilesInv
    <3> QED BY <3>1
  <2>8. /\ q.pc = "open" /\ q.kind = req[r].kind /\ q.name = req[r].name /\ q.clean = req[r].clean
        /\ q.left = left /\ q.path = req[r].path /\ q.to = req[r].to
    BY <1>1, <2>5, Zenon DEF RequestType, FilePlaces
  <2>9. Narrower(q, req[r]) /\ target \in Below(req[r]) /\ target \in Below(q)
    BY <1>1, <2>1, <2>7, <2>8, StaysSame, BelowFacts
  <2>10. Sane(q)
    <3>1. Len(left) = 1 /\ left[1].to = target
      BY <2>4
    <3> QED BY <1>1, <2>1, <2>8, <2>9, <3>1 DEF Sane
  <2>11. /\ \A o \in Files!Paths : o \notin Around(req[r]) => tree'[o] = tree[o]
         /\ \A o \in Files!Paths : tree'[o].is = "file" => tree'[o] = tree[o]
         /\ WellFormed'
    BY <1>1, <2>2, <2>9, ParentEffect
  <2>12. Sound(r, q)'
    <3>1. q.left = <<OwnItem(q)>> /\ q.left # << >>
      BY <2>1, <2>4, <2>8 DEF OwnItem
    <3>2. WriteSound(r, q)'
      BY <2>8, <3>1 DEF WriteSound, OwnItem, Files!Root
    <3> QED BY <1>1, <2>8, <3>2 DEF Sound, Writing, UploadSound, CopySound, ExtractSound, MoveSound
  <2> QED BY <1>1, <2>2, <2>6, <2>7, <2>8, <2>9, <2>10, <2>11, <2>12, KeepsTree
<1> QED BY <1>2, <1>3

LEMMA CalmCopyPath ==
    ASSUME FilesInv, FilesInv', CalmInv, NEW r \in Files!Reqs, ~Files!Astray(r), Files!CopyPath(r)
    PROVE  CalmInv'
<1>1. /\ Files!Active(r) /\ req[r].kind = "copy" /\ req[r] \in RequestType
      /\ Sane(req[r]) /\ req[r].pc = "check" /\ req[r].to \in Files!Paths /\ req[r].path \in Files!Paths
      /\ WellFormed /\ tree \in Trees(Len(node)) /\ tree[req[r].path] \in Entries
      /\ tree[req[r].path].is # "link"
  <2>1. /\ Files!Active(r) /\ req[r].kind = "copy" /\ req[r] \in RequestType
        /\ Sane(req[r]) /\ req[r].pc = "check" /\ InHand(req[r], Len(node), Checked)
    BY Zenon DEF Files!CopyPath, Files!At, Files!Active, FilesInv, CalmInv
  <2>2. tree \in Trees(Len(node)) /\ WellFormed
    BY DEF FilesInv, CalmInv
  <2>3. req[r].path \in Files!Paths
    BY <2>1 DEF InHand
  <2>4. tree[req[r].path].is # "link"
    BY <2>1, <2>3, NotAstray
  <2> QED BY <2>1, <2>2, <2>3, <2>4 DEF Sane, Trees
<1>2. CASE Files!Fail(r)
  BY <1>1, <1>2, CalmFailing
<1>3. ASSUME ~Files!Fail(r) PROVE CalmInv'
  <2> DEFINE items(names, target) ==
               IF tree[req[r].path].is = "file" THEN <<[from |-> req[r].path, to |-> target, kind |-> "path"]>>
               ELSE [k \in 1..Len(names) |->
                       [from |-> Files!Under(req[r].path, names[k]), to |-> Files!Under(req[r].to, names[k]), kind |-> "path"]]
  <2>1. PICK target : target = IF tree[req[r].path].is = "file" /\ tree[req[r].to].is = "dir"
                               THEN Files!Under(req[r].to, Files!Last(req[r].path)) ELSE req[r].to
    OBVIOUS
  <2>2. /\ target \in Files!Paths /\ Files!CanHaveParent(target) /\ tree[req[r].path].is # "none"
        /\ tree[req[r].path].is = "dir" => tree[req[r].to].is # "file" /\ req[r].to \in Files!Tops
        /\ tree' = IF tree[req[r].path].is = "dir" THEN [tree EXCEPT ![req[r].to] = Files!Directory] ELSE Files!ParentMade(target)
        /\ \E names \in Files!Listings(req[r].path) :
               req' = [req EXCEPT ![r].pc = "open", ![r].left = items(names, target), ![r].to = target,
                                  ![r].src = tree[req[r].path].node]
        /\ UNCHANGED <<uploads, node, archive>>
    BY <1>3, <2>1, Zenon DEF Files!CopyPath
  <2>3. PICK names \in Files!Listings(req[r].path) :
               req' = [req EXCEPT ![r].pc = "open", ![r].left = items(names, target), ![r].to = target,
                                  ![r].src = tree[req[r].path].node]
    BY <2>2
  <2>4. PICK left : left = items(names, target)
    OBVIOUS
  <2>5. PICK q : q = [req[r] EXCEPT !.pc = "open", !.left = left, !.to = target, !.src = tree[req[r].path].node]
    OBVIOUS
  <2>6. req' = [req EXCEPT ![r] = q]
    BY <2>3, <2>4, <2>5, Zenon
  <2>7. q \in RequestType
    <3>1. req'[r] = q /\ req' \in [Files!Reqs -> RequestType]
      BY <2>6 DEF FilesInv
    <3> QED BY <3>1
  <2>8. /\ q.pc = "open" /\ q.kind = "copy" /\ q.name = req[r].name /\ q.clean = req[r].clean
        /\ q.left = left /\ q.path = req[r].path /\ q.to = target
    BY <1>1, <2>5, Zenon DEF RequestType, FilePlaces
  <2>13. tree[req[r].path].is = "file" => left = <<[from |-> req[r].path, to |-> target, kind |-> "path"]>>
    BY <2>4
  <2>14. tree[req[r].path].is = "dir" =>
            left = [k \in 1..Len(names) |-> [from |-> Files!Under(req[r].path, names[k]),
                                              to |-> Files!Under(req[r].to, names[k]), kind |-> "path"]]
    BY <2>4
  <2> HIDE DEF items
  <2>9. Files!IsPrefix(req[r].to, target)
    <3>1. CASE tree[req[r].path].is = "file" /\ tree[req[r].to].is = "dir"
      <4>1. target = Files!Under(req[r].to, Files!Last(req[r].path)) /\ Files!Last(req[r].path) \in Names
        BY <1>1, <2>1, <3>1, LastFacts
      <4>2. req[r].to \in Files!Tops
        BY <1>1, <2>2, <4>1, LastFacts, Zenon
      <4>3. Files!IsPrefix(req[r].to, Files!Under(req[r].to, Files!Last(req[r].path)))
        BY <4>1, <4>2, UnderFacts
      <4> QED BY <4>1, <4>3
    <3>2. CASE ~(tree[req[r].path].is = "file" /\ tree[req[r].to].is = "dir")
      BY <1>1, <2>1, <3>2, PrefixOrder DEF Spots
    <3> QED BY <3>1, <3>2
  <2>10. Narrower(q, req[r]) /\ target \in Below(req[r]) /\ target \in Below(q)
    BY <1>1, <2>2, <2>7, <2>8, <2>9, NarrowerTo
  <2>11. CASE tree[req[r].path].is = "file"
    <3>1. tree' = Files!ParentMade(target)
      BY <2>2, <2>11
    <3>2. /\ \A o \in Files!Paths : o \notin Around(req[r]) => tree'[o] = tree[o]
          /\ \A o \in Files!Paths : tree'[o].is = "file" => tree'[o] = tree[o]
          /\ \A o \in Files!Paths : tree[o].is # "none" => tree'[o] = tree[o]
          /\ WellFormed'
      BY <1>1, <2>2, <2>10, <3>1, ParentEffect
    <3>3. left = <<[from |-> req[r].path, to |-> target, kind |-> "path"]>>
      BY <2>11, <2>13
    <3>4. Sane(q)
      <4>1. Len(left) = 1 /\ left[1].to = target
        BY <3>3
      <4>2. q.name = None \/ q.kind \in {"upload", "import"}
        BY <1>1, <2>8 DEF Sane
      <4> QED BY <2>2, <2>8, <2>10, <4>1, <4>2 DEF Sane
    <3>5. Sound(r, q)'
      <4>1. tree'[q.path].is = "file"
        <5>1. tree'[req[r].path] = tree[req[r].path]
          BY <1>1, <2>11, <3>2
        <5> QED BY <2>8, <2>11, <5>1
      <4>2. FileCopied(q)'
        BY <2>8, <3>3, <4>1 DEF FileCopied, FileItem
      <4>3. CopySound(q)'
        BY <4>2 DEF CopySound
      <4> QED BY <2>8, <4>3 DEF Sound, Writing, UploadSound, WriteSound, ExtractSound, MoveSound
    <3> QED BY <1>1, <2>2, <2>6, <2>7, <2>8, <2>10, <3>2, <3>4, <3>5, KeepsTree
  <2>12. CASE tree[req[r].path].is = "dir"
    <3>1. PICK to \in Files!Tops : to = req[r].to
      BY <2>2, <2>12
    <3>2. target = to /\ tree' = [tree EXCEPT ![to] = Files!Directory] /\ tree[to].is # "file"
      BY <2>1, <2>2, <2>12, <3>1
    <3>3. Files!Directory \in Entries /\ Files!Directory.is = "dir" /\ to \in Files!Paths /\ Len(to) = 1
      BY <3>1, DirectoryFacts, PathShape DEF Files!Directory
    <3>4. Formed([tree EXCEPT ![to] = Files!Directory])
      BY <1>1, <3>3, FormedExcept DEF WellFormed
    <3>5. WellFormed'
      BY <3>2, <3>4 DEF WellFormed
    <3>6. /\ \A o \in Files!Paths : o \notin Around(req[r]) => tree'[o] = tree[o]
          /\ \A o \in Files!Paths : tree'[o].is = "file" => tree'[o] = tree[o]
      BY <1>1, <2>10, <3>2, <3>3, CalmExcept
    <3>7. /\ Len(left) = Len(names)
          /\ \A k \in 1..Len(left) : left[k] = [from |-> Files!Under(q.path, names[k]), to |-> Files!Under(to, names[k]), kind |-> "path"]
      <4>1. names \in Seq(Names)
        BY <1>1, ListingFacts
      <4> QED BY <2>8, <2>12, <2>14, <3>1, <4>1
    <3>11. \A k \in 1..Len(left) : left[k].from = Files!Under(q.path, names[k]) /\ left[k].to = Files!Under(to, names[k])
      <4>1. ASSUME NEW k \in 1..Len(left) PROVE left[k].from = Files!Under(q.path, names[k]) /\ left[k].to = Files!Under(to, names[k])
        <5>1. left[k] = [from |-> Files!Under(q.path, names[k]), to |-> Files!Under(to, names[k]), kind |-> "path"]
          BY <3>7
        <5> HIDE DEF Files!Under
        <5> QED BY <5>1
      <4> QED BY <4>1
    <3>8. \A k \in 1..Len(left) : Files!Under(q.path, names[k]) \in Inside(q.path) /\ left[k] = ChildItem(q, Files!Under(q.path, names[k]))
      <4>1. ASSUME NEW k \in 1..Len(left)
            PROVE  Files!Under(q.path, names[k]) \in Inside(q.path) /\ left[k] = ChildItem(q, Files!Under(q.path, names[k]))
        <5>1. k \in 1..Len(names)
          BY <3>7
        <5>2. names[k] \in Names /\ q.path \in Files!Tops /\ Files!Under(q.path, names[k]) \in Inside(q.path)
          BY <1>1, <2>8, <5>1, ListingMore
        <5>3. Files!Last(Files!Under(q.path, names[k])) = names[k]
          BY <5>2, UnderFacts
        <5> QED BY <2>8, <3>2, <3>7, <5>2, <5>3, Zenon DEF ChildItem, Counterpart
      <4> QED BY <4>1
    <3>9. Sane(q)
      <4>1. ASSUME NEW k \in 1..Len(left) PROVE left[k].to \in Below(q)
        <5>1. k \in 1..Len(names)
          BY <3>7
        <5>2. names[k] \in Names
          BY <1>1, <5>1, ListingMore
        <5>3. Files!Under(to, names[k]) \in Below(q)
          BY <2>7, <2>8, <3>1, <3>2, <5>2, BelowFacts
        <5> QED BY <3>11, <5>3
      <4>2. q.name = None \/ q.kind \in {"upload", "import"}
        BY <1>1, <2>8 DEF Sane
      <4> QED BY <2>2, <2>8, <4>1, <4>2 DEF Sane
    <3>10. Sound(r, q)'
      <4>1. \A o \in Files!Paths : tree'[o] = IF o = to THEN Files!Directory ELSE tree[o]
        BY <1>1, <3>2 DEF Trees
      <4>2. tree'[q.path].is = "dir" /\ q.to \in Files!Tops
        BY <1>1, <2>8, <2>12, <3>2, <3>3, <4>1
      <4>3. ASSUME NEW c \in Inside(q.path) PROVE ChildCopied(q, c)'
        <5>1. c \in Files!Paths /\ Len(c) = 2
          BY <1>1, <2>8, PathShape DEF Inside
        <5>2. tree'[c] = tree[c]
          BY <3>3, <4>1, <5>1
        <5>3. ASSUME tree[c].is # "none" PROVE \E k \in 1..Len(q.left) : q.left[k].from = c
          <6>1. PICK k \in 1..Len(names) : c = Files!Under(q.path, names[k])
            BY <1>1, <2>8, <5>3, ListingMore
          <6> QED BY <2>8, <3>7, <3>11, <6>1
        <5> QED BY <5>2, <5>3 DEF ChildCopied
      <4>4. DirectoryCopied(q)'
        BY <2>8, <3>8, <4>2, <4>3 DEF DirectoryCopied, Inside, ChildItem, Counterpart
      <4>5. CopySound(q)'
        BY <4>4 DEF CopySound
      <4> QED BY <2>8, <4>5 DEF Sound, Writing, UploadSound, WriteSound, ExtractSound, MoveSound
    <3> QED BY <1>1, <2>2, <2>6, <2>7, <2>8, <2>10, <3>5, <3>6, <3>9, <3>10, KeepsTree
  <2> QED BY <1>1, <2>2, <2>11, <2>12 DEF Entries
<1> QED BY <1>2, <1>3

\* Something is made in the tree, and the directory it is in.
LEMMA MadeFacts ==
    ASSUME FilesInv, CalmInv, NEW q \in RequestType, NEW p \in Below(q), Files!CanHaveParent(p),
           NEW e \in Entries, e.is # "dir" => tree[p].is # "dir",
           tree' = [Files!ParentMade(p) EXCEPT ![p] = e]
    PROVE  /\ \A o \in Files!Paths : o \notin Around(q) => tree'[o] = tree[o]
           /\ tree'[p] = e
           /\ \A o \in Files!Paths : o # p =>
                tree'[o] = tree[o] \/ (Len(p) = 2 /\ o = Files!Front(p) /\ tree[o].is = "none" /\ tree'[o].is = "dir")
           /\ WellFormed'
<1>1. p \in Files!Paths /\ WellFormed
  BY DEF Below, CalmInv
<1>2. PICK t : t = Files!ParentMade(p)
  OBVIOUS
<1>3. /\ t \in Trees(Len(node)) /\ Formed(t) /\ t[p] = tree[p]
      /\ Len(p) = 2 => t[Files!Front(p)].is = "dir"
      /\ \A o \in Files!Paths :
                \/ t[o] = tree[o]
                \/ Len(p) = 2 /\ o = Files!Front(p) /\ tree[o].is = "none" /\ t[o].is = "dir"
  <2>1. /\ Files!ParentMade(p) \in Trees(Len(node)) /\ Formed(Files!ParentMade(p))
        /\ Files!ParentMade(p)[p] = tree[p]
        /\ Len(p) = 2 => Files!ParentMade(p)[Files!Front(p)].is = "dir"
        /\ \A o \in Files!Paths :
              \/ Files!ParentMade(p)[o] = tree[o]
              \/ Len(p) = 2 /\ o = Files!Front(p) /\ tree[o].is = "none" /\ Files!ParentMade(p)[o].is = "dir"
    BY <1>1, ParentMadeFacts, Zenon
  <2> QED BY <1>2, <2>1, Zenon
<1>4. \A o \in Files!Paths : tree'[o] = IF o = p THEN e ELSE t[o]
  <2>1. t \in [Files!Paths -> Entries]
    BY <1>3, Zenon DEF Trees
  <2>2. tree' = [t EXCEPT ![p] = e]
    BY <1>2, Zenon
  <2> QED BY <2>1, <2>2
<1>5. ASSUME e.is # "dir", NEW c \in Files!Paths, Len(c) = 2, Files!Front(c) = p PROVE t[c].is = "none"
  BY <1>3, <1>5 DEF Formed
<1>6. Formed([t EXCEPT ![p] = e])
  BY <1>1, <1>3, <1>5, FormedExcept
<1>7. WellFormed'
  BY <1>2, <1>6 DEF WellFormed
<1>8. p \in Around(q) /\ (Len(p) = 2 => Files!Front(p) \in Around(q))
  BY AroundFacts
<1> QED BY <1>1, <1>3, <1>4, <1>7, <1>8

\* The next of the members.
LEMMA NextMember ==
    ASSUME NEW held \in Archives, NEW r, NEW q \in RequestType, NEW n \in 0..Len(held.members),
           Extracted(r, q, held, n), q.left # << >>
    PROVE  /\ n + 1 \in 1..Len(held.members) /\ Head(q.left) = Files!Item(held, held.members[n + 1], q.to)
           /\ Len(Tail(q.left)) = Len(held.members) - (n + 1)
           /\ \A k \in 1..Len(Tail(q.left)) : Tail(q.left)[k] = Files!Item(held, held.members[(n + 1) + k], q.to)
           /\ \A k \in 1..(n + 1) : k \in 1..n \/ k = n + 1
<1>1. PICK left \in Seq(Items) : left = q.left
  BY RequestFacts
<1>2. Len(held.members) \in Nat
  <2>1. held.members \in Seq([name : Names, kind : Files!MemberKinds, large : BOOLEAN])
    BY FilesAssumption, Zenon DEF Files!ArchiveType
  <2> QED BY <2>1
<1>3. Len(left) = Len(held.members) - n /\ \A k \in 1..Len(left) : left[k] = Files!Item(held, held.members[n + k], q.to)
  BY <1>1 DEF Extracted
<1>4. Len(left) \in Nat \ {0} /\ Head(left) = left[1] /\ Len(Tail(left)) = Len(left) - 1
      /\ \A k \in 1..Len(Tail(left)) : k + 1 \in 1..Len(left) /\ Tail(left)[k] = left[k + 1]
  BY <1>1
<1>5. \A k \in 1..Len(Tail(left)) : n + (k + 1) = (n + 1) + k
  OBVIOUS
<1>6. ASSUME NEW k \in 1..Len(Tail(left)) PROVE Tail(left)[k] = Files!Item(held, held.members[(n + 1) + k], q.to)
  <2>1. Tail(left)[k] = Files!Item(held, held.members[n + (k + 1)], q.to)
    BY <1>3, <1>4
  <2> QED BY <1>5, <2>1
<1>7. Head(left) = Files!Item(held, held.members[n + 1], q.to)
  <2>1. 1 \in 1..Len(left)
    BY <1>4
  <2> QED BY <1>3, <1>4, <2>1
<1> QED BY <1>1, <1>2, <1>3, <1>4, <1>6, <1>7

\* What a member is, as it is extracted.
LEMMA ItemMember ==
    ASSUME NEW held, NEW m, NEW to
    PROVE  /\ Files!Item(held, m, to).to = Files!Under(to, m.name) /\ Files!Item(held, m, to).from = Files!Root
           /\ Files!Item(held, m, to).kind = m.kind \/ Files!Item(held, m, to).kind = "large"
<1> HIDE DEF Files!Under
<1> QED BY DEF Files!Item, Files!TarMember, Files!ZipMember

LEMMA CalmExtract ==
    ASSUME FilesInv, FilesInv', CalmInv, NEW r \in Files!Reqs, Files!Extract(r)
    PROVE  CalmInv'
<1>1. /\ Files!Active(r) /\ req[r].kind = "extract" /\ req[r] \in RequestType
      /\ Sane(req[r]) /\ req[r].pc = "check" /\ req[r].to \in Files!Tops \cup {Files!Root}
      /\ WellFormed /\ tree \in Trees(Len(node))
  <2>1. /\ Files!Active(r) /\ req[r].kind = "extract" /\ req[r] \in RequestType
        /\ Sane(req[r]) /\ req[r].pc = "check" /\ InHand(req[r], Len(node), Checked)
    BY DEF Files!Extract, Files!At, Files!Active, FilesInv, CalmInv
  <2>2. tree \in Trees(Len(node)) /\ WellFormed
    BY DEF FilesInv, CalmInv
  <2> QED BY <2>1, <2>2 DEF InHand
<1>2. PICK held \in Archives : held = archive'
  BY DEF Files!Extract, FilesInv
<1>3. (archive # None => archive' = archive) /\ UNCHANGED <<uploads, node>> /\ archive' # None
  BY <1>2, FilesAssumption DEF Files!Extract
<1>4. PICK left : left = [k \in 1..Len(held.members) |-> Files!Item(held, held.members[k], req[r].to)]
  OBVIOUS
<1>5. \/ Files!Go(r, "failed")
      \/ req' = [req EXCEPT ![r].pc = "open", ![r].src = tree[req[r].path].node, ![r].left = left]
  BY <1>2, <1>4, Zenon DEF Files!Extract
<1>6. \/ tree' = tree
      \/ req[r].to # Files!Root /\ tree[req[r].to].is # "file" /\ tree' = [tree EXCEPT ![req[r].to] = Files!Directory]
  BY DEF Files!Extract
<1>7. /\ \A o \in Files!Paths : o \notin Around(req[r]) => tree'[o] = tree[o]
      /\ \A o \in Files!Paths : tree'[o].is = "file" => tree'[o] = tree[o]
      /\ WellFormed'
  <2>1. CASE tree' = tree
    BY <1>1, <2>1 DEF WellFormed, Formed
  <2>2. ASSUME tree' # tree PROVE <1>7!:
    <3>1. PICK to \in Files!Tops : to = req[r].to /\ tree' = [tree EXCEPT ![to] = Files!Directory]
      BY <1>1, <1>6, <2>2
    <3>2. Files!Directory \in Entries /\ Files!Directory.is = "dir" /\ to \in Files!Paths /\ Len(to) = 1
      BY DirectoryFacts, PathShape DEF Files!Directory
    <3>3. Formed([tree EXCEPT ![to] = Files!Directory])
      BY <1>1, <3>2, FormedExcept DEF WellFormed
    <3>4. to \in Below(req[r])
      BY <1>1, <3>1, <3>2, BelowFacts
    <3>5. WellFormed'
      BY <3>1, <3>3 DEF WellFormed
    <3> QED BY <1>1, <3>1, <3>2, <3>4, <3>5, CalmExcept
  <2> QED BY <2>1, <2>2
<1>8. CASE Files!Go(r, "failed")
  <2>1. PICK q : q = [req[r] EXCEPT !.pc = "failed"]
    OBVIOUS
  <2>2. /\ q \in RequestType /\ q.kind = req[r].kind /\ q.pc = "failed" /\ q.clean = req[r].clean
        /\ q.name = req[r].name /\ q.left = req[r].left /\ q.path = req[r].path /\ q.to = req[r].to
    BY <1>1, <2>1, Zenon DEF RequestType, FilePlaces
  <2>3. req' = [req EXCEPT ![r] = q]
    BY <1>8, <2>1, Zenon DEF Files!Go
  <2>4. Sane(q) /\ Narrower(q, req[r])
    BY <1>1, <2>2, SaneOn
  <2> QED BY <1>1, <1>3, <1>7, <2>2, <2>3, <2>4, KeepsTree
<1>9. CASE req' = [req EXCEPT ![r].pc = "open", ![r].src = tree[req[r].path].node, ![r].left = left]
  <2>1. PICK q : q = [req[r] EXCEPT !.pc = "open", !.src = tree[req[r].path].node, !.left = left]
    OBVIOUS
  <2>2. req' = [req EXCEPT ![r] = q]
    BY <1>9, <2>1, Zenon
  <2>3. q \in RequestType
    <3>1. req'[r] = q /\ req' \in [Files!Reqs -> RequestType]
      BY <2>2 DEF FilesInv
    <3> QED BY <3>1
  <2>4. /\ q.kind = "extract" /\ q.pc = "open" /\ q.clean = req[r].clean
        /\ q.name = req[r].name /\ q.left = left /\ q.path = req[r].path /\ q.to = req[r].to
    BY <1>1, <2>1, Zenon DEF RequestType, FilePlaces
  <2>5. Narrower(q, req[r])
    BY <1>1, <2>3, <2>4, StaysSame
  <2>6. Len(held.members) \in Nat
    <3>1. held.members \in Seq([name : Names, kind : Files!MemberKinds, large : BOOLEAN])
      BY FilesAssumption, Zenon DEF Files!ArchiveType
    <3> QED BY <3>1
  <2>7. Len(left) = Len(held.members) /\ \A k \in 1..Len(left) : left[k] = Files!Item(held, held.members[k], q.to)
    BY <1>4, <2>4, <2>6
  <2>8. Sane(q)
    <3>1. ASSUME NEW k \in 1..Len(left) PROVE left[k].to \in Below(q)
      <4>1. k \in 1..Len(held.members)
        BY <2>7
      <4>2. Files!Under(q.to, held.members[k].name) \in Below(q)
        BY <1>1, <2>3, <2>4, <4>1, MemberPlaces
      <4>3. left[k].to = Files!Under(q.to, held.members[k].name)
        BY <2>7, ItemMember
      <4> QED BY <4>2, <4>3
    <3>2. q.name = None
      BY <1>1, <2>3, <2>4, RequestFacts DEF Sane
    <3> QED BY <2>4, <3>1, <3>2 DEF Sane
  <2>9. Sound(r, q)'
    <3>1. 0 \in 0..Len(held.members) /\ \A k \in 1..Len(left) : 0 + k = k
      BY <2>6
    <3>2. \A k \in 1..0 : FALSE
      OBVIOUS
    <3>3. Extracted(r, q, held, 0)'
      BY <2>4, <2>6, <2>7, <3>1, <3>2 DEF Extracted
    <3>4. ExtractSound(r, q)'
      BY <1>2, <1>3, <2>4, <3>1, <3>3 DEF ExtractSound
    <3> QED BY <2>4, <3>4 DEF Sound, Writing, UploadSound, WriteSound, CopySound, MoveSound
  <2> QED BY <1>1, <1>3, <1>7, <2>2, <2>3, <2>4, <2>5, <2>8, <2>9, KeepsTree
<1> QED BY <1>5, <1>8, <1>9

\* What a calm request that extracts nothing has left is for opening.
LEMMA OnlyMembers ==
    ASSUME NEW r, NEW q \in RequestType, Sound(r, q), Sane(q), q.pc = "open", q.left # << >>,
           Head(q.left).kind \notin Files!Opens
    PROVE  q.kind = "extract" \/ (q.kind = "copy" /\ q.flag)
<1>1. q.kind \in {"upload", "import", "write", "copy", "extract"} /\ q.left \in Seq(Items)
  BY RequestFacts DEF Sane
<1>2. Head(q.left).kind \notin {"staged", "own", "path"}
  BY DEF Files!Opens
<1>3. CASE q.kind \in {"upload", "import"}
  <2>1. q.left = <<StagedItem(q)>>
    BY <1>3 DEF Sound, UploadSound
  <2> QED BY <1>2, <2>1 DEF StagedItem
<1>4. CASE q.kind = "write"
  <2>1. q.left = <<OwnItem(q)>>
    BY <1>4 DEF Sound, WriteSound
  <2> QED BY <1>2, <2>1 DEF OwnItem
<1>5. CASE q.kind = "copy" /\ ~q.flag
  <2>1. FileCopied(q) \/ DirectoryCopied(q)
    BY <1>5 DEF Sound, CopySound
  <2>2. CASE FileCopied(q)
    <3>1. q.left = <<FileItem(q)>>
      BY <2>2 DEF FileCopied
    <3> QED BY <1>2, <3>1 DEF FileItem
  <2>3. CASE DirectoryCopied(q)
    <3>1. Head(q.left) = q.left[1] /\ 1 \in 1..Len(q.left)
      BY <1>1, TailFits
    <3>2. PICK c : q.left[1] = ChildItem(q, c)
      BY <2>3, <3>1 DEF DirectoryCopied
    <3> QED BY <1>2, <3>1, <3>2 DEF ChildItem
  <2> QED BY <2>1, <2>2, <2>3
<1>6. q.flag \in BOOLEAN
  BY RequestFacts
<1> QED BY <1>1, <1>3, <1>4, <1>5, <1>6

LEMMA CalmMember ==
    ASSUME FilesInv, FilesInv', CalmInv, NEW r \in Files!Reqs, Files!Member(r)
    PROVE  CalmInv'
<1>1. /\ Files!Active(r) /\ req[r] \in RequestType /\ Sane(req[r]) /\ req[r].pc = "open" /\ req[r].left # << >>
      /\ req[r].left \in Seq(Items) /\ Head(req[r].left).kind \notin Files!Opens /\ WellFormed
      /\ InHand(req[r], Len(node), Checked)
  <2>1. /\ Files!Active(r) /\ req[r] \in RequestType /\ Sane(req[r]) /\ req[r].pc = "open" /\ req[r].left # << >>
        /\ Head(req[r].left).kind \notin Files!Opens /\ WellFormed /\ InHand(req[r], Len(node), Checked)
    BY DEF Files!Member, Files!At, Files!Active, FilesInv, CalmInv
  <2> QED BY <2>1, RequestFacts
<1>2. CASE Files!Fail(r)
  BY <1>1, <1>2, CalmFailing
<1>3. ASSUME ~Files!Fail(r) PROVE CalmInv'
  <2>1. PICK item \in Items : item = Head(req[r].left) /\ item = req[r].left[1] /\ 1 \in 1..Len(req[r].left)
    BY <1>1, TailFits
  <2>2. /\ UNCHANGED <<uploads, node, archive>> /\ Files!CanHaveParent(item.to)
        /\ \/ item.kind = "skipped" /\ tree' = Files!ParentMade(item.to) /\ req' = [req EXCEPT ![r].left = Tail(@)]
           \/ /\ item.kind = "dir" /\ tree[item.to].is # "file"
              /\ tree' = [Files!ParentMade(item.to) EXCEPT ![item.to] = Files!Directory]
              /\ req' = [req EXCEPT ![r].left = Tail(@)]
           \/ /\ item.kind = "link" /\ tree[item.to].is # "dir"
              /\ tree' = [Files!ParentMade(item.to) EXCEPT ![item.to] = Files!Missing]
              /\ req' = [req EXCEPT ![r].pc = "link"]
    BY <1>3, <2>1, Zenon DEF Files!Member, Files!Blocked, Files!Go
  <2>3. PICK q : q = IF item.kind = "link" THEN [req[r] EXCEPT !.pc = "link"] ELSE [req[r] EXCEPT !.left = Tail(@)]
    OBVIOUS
  <2>4. req' = [req EXCEPT ![r] = q]
    <3>1. CASE item.kind = "link"
      <4>1. req' = [req EXCEPT ![r].pc = "link"] /\ q = [req[r] EXCEPT !.pc = "link"]
        BY <2>2, <2>3, <3>1
      <4> QED BY <4>1, Zenon
    <3>2. CASE item.kind # "link"
      <4>1. req' = [req EXCEPT ![r].left = Tail(@)] /\ q = [req[r] EXCEPT !.left = Tail(@)]
        BY <2>2, <2>3, <3>2
      <4> QED BY <4>1, Zenon
    <3> QED BY <3>1, <3>2
  <2>5. q \in RequestType
    <3>1. req'[r] = q /\ req' \in [Files!Reqs -> RequestType]
      BY <2>4 DEF FilesInv
    <3> QED BY <3>1
  <2>6. /\ q.pc = (IF item.kind = "link" THEN "link" ELSE "open")
        /\ q.left = (IF item.kind = "link" THEN req[r].left ELSE Tail(req[r].left))
        /\ q.kind = req[r].kind /\ q.name = req[r].name /\ q.clean = req[r].clean
        /\ q.path = req[r].path /\ q.to = req[r].to /\ q.flag = req[r].flag
    <3>1. CASE item.kind = "link"
      <4>1. q = [req[r] EXCEPT !.pc = "link"]
        BY <2>3, <3>1
      <4>2. /\ q.pc = "link" /\ q.left = req[r].left /\ q.kind = req[r].kind /\ q.name = req[r].name
            /\ q.clean = req[r].clean /\ q.path = req[r].path /\ q.to = req[r].to /\ q.flag = req[r].flag
        BY <1>1, <4>1, Zenon DEF RequestType, FilePlaces
      <4> QED BY <3>1, <4>2
    <3>2. CASE item.kind # "link"
      <4>1. q = [req[r] EXCEPT !.left = Tail(@)]
        BY <2>3, <3>2
      <4>2. /\ q.pc = "open" /\ q.left = Tail(req[r].left) /\ q.kind = req[r].kind /\ q.name = req[r].name
            /\ q.clean = req[r].clean /\ q.path = req[r].path /\ q.to = req[r].to /\ q.flag = req[r].flag
        BY <1>1, <4>1, Zenon DEF RequestType, FilePlaces
      <4> QED BY <3>2, <4>2
    <3> QED BY <3>1, <3>2
  <2>7. Sane(q) /\ Narrower(q, req[r])
    <3>1. req[r].kind \in {"upload", "import", "write", "copy", "extract"}
      BY <1>1 DEF Sane
    <3>2. CASE item.kind # "link"
      BY <1>1, <2>5, <2>6, <3>1, <3>2, SaneOn
    <3>3. CASE item.kind = "link"
      <4>1. Narrower(q, req[r]) /\ Below(q) = Below(req[r])
        BY <1>1, <2>5, <2>6, StaysSame
      <4> HIDE DEF Below
      <4> QED BY <1>1, <2>1, <2>6, <3>3, <4>1 DEF Sane
    <3> QED BY <3>2, <3>3
  <2>8. item.to \in Below(req[r]) /\ item.to \in Files!Paths
    BY <1>1, <2>1 DEF Sane, Below
  <2>9. /\ \A o \in Files!Paths : o \notin Around(req[r]) => tree'[o] = tree[o]
        /\ \A o \in Files!Paths : tree'[o].is = "file" => tree'[o] = tree[o]
        /\ \A o \in Files!Paths : o # item.to /\ tree[o].is = "file" => tree'[o] = tree[o]
        /\ WellFormed'
    <3>1. CASE tree' = Files!ParentMade(item.to)
      <4>1. /\ Formed(Files!ParentMade(item.to))
            /\ \A o \in Files!Paths :
                \/ Files!ParentMade(item.to)[o] = tree[o]
                \/ /\ Len(item.to) = 2 /\ o = Files!Front(item.to) /\ tree[o].is = "none"
                   /\ Files!ParentMade(item.to)[o].is = "dir"
        BY <1>1, <2>2, <2>8, ParentMadeFacts
      <4>2. Len(item.to) = 2 => Files!Front(item.to) \in Around(req[r])
        BY <1>1, <2>8, AroundFacts
      <4>3. WellFormed'
        BY <3>1, <4>1 DEF WellFormed
      <4> HIDE DEF Around
      <4> QED BY <3>1, <4>1, <4>2, <4>3
    <3>2. ASSUME NEW e \in {Files!Directory, Files!Missing},
                 IF e = Files!Directory THEN tree[item.to].is # "file" ELSE tree[item.to].is # "dir",
                 tree' = [Files!ParentMade(item.to) EXCEPT ![item.to] = e]
          PROVE <2>9!:
      <4>1. e \in Entries /\ e.is # "file" /\ (e.is # "dir" => tree[item.to].is # "dir")
        BY <3>2, DirectoryFacts
      <4>2. /\ \A o \in Files!Paths : o \notin Around(req[r]) => tree'[o] = tree[o]
            /\ tree'[item.to] = e
            /\ \A o \in Files!Paths : o # item.to =>
                 \/ tree'[o] = tree[o]
                 \/ Len(item.to) = 2 /\ o = Files!Front(item.to) /\ tree[o].is = "none" /\ tree'[o].is = "dir"
            /\ WellFormed'
        BY <1>1, <2>2, <2>8, <3>2, <4>1, MadeFacts
      <4> HIDE DEF Around
      <4> QED BY <4>1, <4>2
    <3>3. Files!Directory # Files!Missing
      BY DEF Files!Directory, Files!Missing
    <3> QED BY <2>2, <3>1, <3>2, <3>3
  <2>10. ASSUME q.clean PROVE Sound(r, q)'
    <3>1. Sound(r, req[r])
      BY <1>1, <2>6, <2>10 DEF CalmInv, Calm
    <3>2. req[r].kind = "extract" \/ (req[r].kind = "copy" /\ req[r].flag)
      BY <1>1, <3>1, OnlyMembers
    <3>3. CASE req[r].kind = "extract"
      <4>1. archive # None /\ archive' = archive
        BY <1>1, <2>2, <3>1, <3>3 DEF Sound, ExtractSound
      <4>2. PICK held \in Archives : held = archive
        BY <4>1 DEF FilesInv
      <4>3. PICK n \in 0..Len(held.members) : Extracted(r, req[r], held, n)
        BY <1>1, <3>1, <3>3, <4>2 DEF Sound, ExtractSound
      <4>10. PICK m : m = IF item.kind = "link" THEN n ELSE n + 1
        OBVIOUS
      <4>4. /\ n + 1 \in 1..Len(held.members) /\ item = Files!Item(held, held.members[n + 1], q.to)
            /\ Len(q.left) = Len(held.members) - m
            /\ \A k \in 1..Len(q.left) : q.left[k] = Files!Item(held, held.members[m + k], q.to)
            /\ \A k \in 1..m : k \in 1..n \/ k = n + 1
        <5>0. PICK w \in RequestType : w = req[r]
          BY <1>1
        <5>1. Extracted(r, w, held, n) /\ w.left # << >>
          BY <1>1, <4>3, <5>0
        <5>2. /\ n + 1 \in 1..Len(held.members)
              /\ Head(w.left) = Files!Item(held, held.members[n + 1], w.to)
              /\ Len(Tail(w.left)) = Len(held.members) - (n + 1)
              /\ \A k \in 1..Len(Tail(w.left)) :
                   Tail(w.left)[k] = Files!Item(held, held.members[(n + 1) + k], w.to)
              /\ \A k \in 1..(n + 1) : k \in 1..n \/ k = n + 1
          BY <5>1, NextMember, ZenonT(30)
        <5>3. item = Head(w.left) /\ q.to = w.to
          BY <2>1, <2>6, <5>0
        <5>4. CASE item.kind # "link"
          <6>1. q.left = Tail(w.left) /\ m = n + 1
            BY <2>6, <4>10, <5>0, <5>4
          <6> QED BY <5>2, <5>3, <6>1, Zenon
        <5>5. CASE item.kind = "link"
          <6>1. q.left = w.left /\ m = n
            BY <2>6, <4>10, <5>0, <5>5
          <6>2. /\ Len(w.left) = Len(held.members) - n
                /\ \A k \in 1..Len(w.left) : w.left[k] = Files!Item(held, held.members[n + k], w.to)
            BY <5>1, Zenon DEF Extracted
          <6> QED BY <5>2, <5>3, <6>1, <6>2, Zenon
        <5> QED BY <5>4, <5>5
      <4>5. /\ item.to = Files!Under(q.to, held.members[n + 1].name)
            /\ item.kind = held.members[n + 1].kind \/ item.kind = "large"
        BY <4>4, ItemMember
      <4>6. ASSUME NEW k \in 1..m, held.members[k].kind = "file", OneOfItsName(held, k)
            PROVE  Files!Holds(Files!Under(q.to, held.members[k].name), Files!Own(r))'
        <5>1. k # n + 1
          BY <2>2, <4>5, <4>6
        <5>2. k \in 1..n /\ k \in 1..Len(held.members) /\ n + 1 \in 1..Len(held.members)
          BY <4>4, <5>1
        <5>3. PICK p : p = Files!Under(q.to, held.members[k].name)
          OBVIOUS
        <5>4. Files!Holds(p, Files!Own(r))
          BY <2>6, <4>3, <4>6, <5>2, <5>3 DEF Extracted
        <5>5. p \in Files!Paths
          BY <1>1, <2>6, <3>3, <5>2, <5>3, MemberPlaces, UnderFacts DEF InHand
        <5>6. p # item.to
          <6>1. held.members[n + 1].name # held.members[k].name
            BY <4>6, <5>1, <5>2 DEF OneOfItsName
          <6>2. held.members[n + 1].name \in Names /\ held.members[k].name \in Names
            BY <5>2, MemberPlaces
          <6>3. q.to \in Files!Tops \cup {Files!Root}
            BY <1>1, <2>6, <3>3 DEF InHand
          <6> QED BY <4>5, <5>3, <6>1, <6>2, <6>3, UnderFacts
        <5>7. tree'[p] = tree[p] /\ node' = node
          BY <2>2, <2>9, <5>4, <5>5, <5>6 DEF Files!Holds
        <5> QED BY <5>3, <5>4, <5>7 DEF Files!Holds, Files!Own
      <4>7. Extracted(r, q, held, m)'
        BY <4>4, <4>6 DEF Extracted
      <4>8. m \in 0..Len(held.members)
        BY <4>4, <4>10
      <4>9. ExtractSound(r, q)'
        BY <4>1, <4>2, <4>7, <4>8 DEF ExtractSound
      <4> QED BY <2>6, <3>3, <4>9 DEF Sound, Writing, UploadSound, WriteSound, CopySound, MoveSound
    <3>4. CASE req[r].kind = "copy" /\ req[r].flag
      BY <2>6, <3>4 DEF Sound, Writing, UploadSound, WriteSound, CopySound, ExtractSound, MoveSound
    <3> QED BY <3>2, <3>3, <3>4
  <2> QED BY <1>1, <2>2, <2>4, <2>5, <2>6, <2>7, <2>9, <2>10, KeepsTree
<1> QED BY <1>2, <1>3

LEMMA CalmMakeLink ==
    ASSUME FilesInv, FilesInv', CalmInv, NEW r \in Files!Reqs, Files!MakeLink(r)
    PROVE  CalmInv'
<1>1. /\ Files!Active(r) /\ req[r] \in RequestType /\ Sane(req[r]) /\ req[r].pc = "link" /\ req[r].left # << >>
      /\ req[r].left \in Seq(Items) /\ req[r].kind = "extract" /\ WellFormed
      /\ req[r].to \in Files!Tops \cup {Files!Root} /\ tree \in Trees(Len(node))
  <2>1. /\ Files!Active(r) /\ req[r] \in RequestType /\ Sane(req[r]) /\ req[r].pc = "link"
        /\ WellFormed /\ InHand(req[r], Len(node), Checked) /\ tree \in Trees(Len(node))
    BY DEF Files!MakeLink, Files!At, Files!Active, FilesInv, CalmInv
  <2> QED BY <2>1, RequestFacts DEF InHand
<1>2. CASE Files!Fail(r)
  BY <1>1, <1>2, CalmFailing
<1>3. ASSUME ~Files!Fail(r) PROVE CalmInv'
  <2>1. PICK item \in Items : item = Head(req[r].left) /\ item = req[r].left[1] /\ 1 \in 1..Len(req[r].left)
    BY <1>1, TailFits
  <2>2. /\ UNCHANGED <<uploads, node, archive>> /\ tree[item.to].is = "none" /\ Files!HasParent(item.to)
        /\ tree' = [tree EXCEPT ![item.to] = Files!Link]
        /\ req' = [req EXCEPT ![r].pc = "open", ![r].left = Tail(@)]
    BY <1>3, <2>1, Zenon DEF Files!MakeLink
  <2>3. PICK q : q = [req[r] EXCEPT !.pc = "open", !.left = Tail(@)]
    OBVIOUS
  <2>4. req' = [req EXCEPT ![r] = q]
    BY <2>2, <2>3, Zenon
  <2>5. q \in RequestType
    <3>1. req'[r] = q /\ req' \in [Files!Reqs -> RequestType]
      BY <2>4 DEF FilesInv
    <3> QED BY <3>1
  <2>6. /\ q.pc = "open" /\ q.kind = "extract" /\ q.kind = req[r].kind /\ q.name = req[r].name
        /\ q.clean = req[r].clean /\ q.left = Tail(req[r].left) /\ q.path = req[r].path /\ q.to = req[r].to
    BY <1>1, <2>3, Zenon DEF RequestType, FilePlaces
  <2>7. Sane(q) /\ Narrower(q, req[r])
    BY <1>1, <2>5, <2>6, SaneOn
  <2>8. item.to \in Below(req[r]) /\ item.to \in Files!Paths /\ item.kind = "link"
    BY <1>1, <2>1 DEF Sane, Below
  <2>9. /\ \A o \in Files!Paths : o \notin Around(req[r]) => tree'[o] = tree[o]
        /\ \A o \in Files!Paths : tree'[o].is = "file" => tree'[o] = tree[o]
        /\ \A o \in Files!Paths : o # item.to => tree'[o] = tree[o]
        /\ WellFormed'
    <3>1. Files!Link \in Entries /\ Files!Link.is = "link"
      BY DEF Files!Link, Entries
    <3>2. \A o \in Files!Paths : tree'[o] = IF o = item.to THEN Files!Link ELSE tree[o]
      BY <1>1, <2>2 DEF Trees
    <3>3. item.to \in Around(req[r])
      BY <1>1, <2>8, AroundFacts
    <3>4. \A c \in Files!Paths : Len(c) = 2 /\ Files!Front(c) = item.to => tree[c].is = "none"
      BY <1>1, <2>2 DEF WellFormed, Formed
    <3>5. Formed([tree EXCEPT ![item.to] = Files!Link])
      BY <1>1, <2>2, <2>8, <3>1, <3>4, FormedExcept DEF WellFormed, Files!HasParent
    <3>6. WellFormed'
      BY <2>2, <3>5 DEF WellFormed
    <3> HIDE DEF Around
    <3> QED BY <3>1, <3>2, <3>3, <3>6
  <2>10. ASSUME q.clean PROVE Sound(r, q)'
    <3>1. Sound(r, req[r])
      BY <1>1, <2>6, <2>10 DEF CalmInv, Calm
    <3>2. archive # None /\ archive' = archive
      BY <1>1, <2>2, <3>1 DEF Sound, ExtractSound
    <3>3. PICK held \in Archives : held = archive
      BY <3>2 DEF FilesInv
    <3>4. PICK n \in 0..Len(held.members) : Extracted(r, req[r], held, n)
      BY <1>1, <3>1, <3>3 DEF Sound, ExtractSound
    <3>5. PICK w \in RequestType : w = req[r]
      BY <1>1
    <3>6. Extracted(r, w, held, n) /\ w.left # << >>
      BY <1>1, <3>4, <3>5
    <3>7. /\ n + 1 \in 1..Len(held.members) /\ Head(w.left) = Files!Item(held, held.members[n + 1], w.to)
          /\ Len(Tail(w.left)) = Len(held.members) - (n + 1)
          /\ \A k \in 1..Len(Tail(w.left)) : Tail(w.left)[k] = Files!Item(held, held.members[(n + 1) + k], w.to)
          /\ \A k \in 1..(n + 1) : k \in 1..n \/ k = n + 1
      BY <3>6, NextMember, ZenonT(30)
    <3>8. item = Head(w.left) /\ q.left = Tail(w.left) /\ q.to = w.to
      BY <2>1, <2>6, <3>5
    <3>9. /\ item.to = Files!Under(q.to, held.members[n + 1].name)
          /\ item.kind = held.members[n + 1].kind \/ item.kind = "large"
      BY <3>7, <3>8, ItemMember
    <3>10. ASSUME NEW k \in 1..(n + 1), held.members[k].kind = "file", OneOfItsName(held, k)
           PROVE  Files!Holds(Files!Under(q.to, held.members[k].name), Files!Own(r))'
      <4>1. k # n + 1
        BY <2>8, <3>9, <3>10
      <4>2. k \in 1..n /\ k \in 1..Len(held.members) /\ n + 1 \in 1..Len(held.members)
        BY <3>7, <4>1
      <4>3. PICK p : p = Files!Under(q.to, held.members[k].name)
        OBVIOUS
      <4>4. Files!Holds(p, Files!Own(r))
        BY <2>6, <3>4, <3>10, <4>2, <4>3 DEF Extracted
      <4>5. p \in Files!Paths /\ q.to \in Files!Tops \cup {Files!Root}
        BY <1>1, <2>6, <4>2, <4>3, MemberPlaces, UnderFacts
      <4>6. p # item.to
        <5>1. held.members[n + 1].name # held.members[k].name
          BY <3>10, <4>1, <4>2 DEF OneOfItsName
        <5>2. held.members[n + 1].name \in Names /\ held.members[k].name \in Names
          BY <4>2, MemberPlaces
        <5>3. item.to = Files!Under(q.to, held.members[n + 1].name) /\ q.to \in Files!Tops \cup {Files!Root}
          BY <3>9, <4>5
        <5>4. Files!Under(q.to, held.members[n + 1].name) # Files!Under(q.to, held.members[k].name)
          BY <5>1, <5>2, <5>3, UnderFacts
        <5> QED BY <4>3, <5>3, <5>4
      <4>7. tree'[p] = tree[p] /\ node' = node
        BY <2>2, <2>9, <4>5, <4>6
      <4> QED BY <4>3, <4>4, <4>7 DEF Files!Holds, Files!Own
    <3>11. Extracted(r, q, held, n + 1)'
      BY <3>7, <3>8, <3>10 DEF Extracted
    <3>12. n + 1 \in 0..Len(held.members)
      BY <3>7
    <3>13. ExtractSound(r, q)'
      BY <3>2, <3>3, <3>11, <3>12 DEF ExtractSound
    <3> QED BY <2>6, <3>13 DEF Sound, Writing, UploadSound, WriteSound, CopySound, MoveSound
  <2> QED BY <1>1, <2>2, <2>4, <2>5, <2>6, <2>7, <2>9, <2>10, KeepsTree
<1> QED BY <1>2, <1>3

-------------------------------------------------------------------------------
(* Steps that open or write an inode.                                        *)

LEMMA EmptiedFacts ==
    ASSUME FilesInv, NEW e \in Entries, e.is = "file" => e.node \in 1..Len(node)
    PROVE  /\ \A n \in 1..Len(node) : Files!Emptied(e)[n] = node[n] \/ (e.is = "file" /\ n = e.node)
           /\ Files!Opened(e) = IF e.is = "file" THEN e.node ELSE Len(node) + 1
           /\ Files!File(Files!Opened(e)).is = "file" /\ Files!File(Files!Opened(e)).node = Files!Opened(e)
           /\ Files!File(Files!Opened(e)) \in Entries
           /\ Files!Opened(e) \in 1..Len(Files!Emptied(e)) /\ Len(node) <= Len(Files!Emptied(e)) /\ Len(node) \in Nat
<1>1. node \in Seq(Contents) /\ Len(node) \in Nat
  BY DEF FilesInv
<1>2. \A n \in 1..Len(node) : Files!Emptied(e)[n] = node[n] \/ (e.is = "file" /\ n = e.node)
  BY <1>1 DEF Files!Emptied
<1>3. Files!Opened(e) = IF e.is = "file" THEN e.node ELSE Len(node) + 1
  BY DEF Files!Opened
<1> QED BY <1>1, <1>2, <1>3, OpenFacts

LEMMA CalmStage ==
    ASSUME FilesInv, FilesInv', CalmInv, NEW r \in Files!Reqs, Files!Stage(r)
    PROVE  CalmInv'
<1>1. /\ Files!Active(r) /\ req[r] \in RequestType /\ Sane(req[r]) /\ req[r].pc = "stage"
      /\ req[r].name \in Names /\ req[r].kind = "upload" /\ WellFormed /\ OneName
  <2>1. /\ Files!Active(r) /\ req[r] \in RequestType /\ Sane(req[r]) /\ req[r].pc = "stage"
        /\ InHand(req[r], Len(node), Checked)
    BY DEF Files!Stage, Files!At, Files!Active, FilesInv, CalmInv
  <2> QED BY <2>1 DEF InHand, CalmInv
<1>2. PICK x \in Names : x = req[r].name
  BY <1>1
<1>3. PICK e \in Entries : e = uploads[x] /\ (e.is = "file" => e.node \in 1..Len(node))
  BY <1>2 DEF FilesInv, Stagings
<1>4. PICK n : n = Files!Opened(e)
  OBVIOUS
<1>5. /\ node' = Files!Emptied(e) /\ req' = [req EXCEPT ![r].pc = "staged", ![r].dst = n]
      /\ uploads' = [uploads EXCEPT ![x] = Files!File(n)]
      /\ UNCHANGED <<tree, archive>>
  BY <1>2, <1>3, <1>4 DEF Files!Stage, Files!StagedAs
<1>6. /\ \A m \in 1..Len(node) : node'[m] = node[m] \/ (e.is = "file" /\ m = e.node)
      /\ n = IF e.is = "file" THEN e.node ELSE Len(node) + 1
      /\ Files!File(n).is = "file" /\ Files!File(n).node = n
      /\ n \in 1..Len(node') /\ Len(node) <= Len(node') /\ Len(node) \in Nat
  BY <1>3, <1>4, <1>5, EmptiedFacts
<1>7. PICK q : q = [req[r] EXCEPT !.pc = "staged", !.dst = n]
  OBVIOUS
<1>8. req' = [req EXCEPT ![r] = q]
  BY <1>5, <1>7, Zenon
<1>9. q \in RequestType
  <2>1. req'[r] = q /\ req' \in [Files!Reqs -> RequestType]
    BY <1>8 DEF FilesInv
  <2> QED BY <2>1
<1>10. /\ q.pc = "staged" /\ q.kind = req[r].kind /\ q.name = x /\ q.clean = req[r].clean
       /\ q.left = req[r].left /\ q.path = req[r].path /\ q.to = req[r].to /\ q.dst = n
  BY <1>1, <1>2, <1>7, Zenon DEF RequestType, FilePlaces
<1>11. Sane(q) /\ Narrower(q, req[r])
  BY <1>1, <1>2, <1>9, <1>10, SaneOn
<1>12. \A y \in Names : uploads'[y] = IF y = x THEN Files!File(n) ELSE uploads[y]
  BY <1>5 DEF FilesInv, Stagings
<1>13. Effect(req[r])
  <2>1. ASSUME NEW m \in 1..Len(node), node'[m] # node[m] PROVE Reaches(req[r], m)
    BY <1>2, <1>3, <1>6, <2>1 DEF Reaches, IsStaged
  <2>2. \A y \in Names : y # req[r].name => uploads'[y] = uploads[y]
    BY <1>2, <1>12
  <2> QED BY <1>5, <2>1, <2>2 DEF Effect
<1>14. OpenInode(q)' /\ Writing(q)'
  BY <1>6, <1>10, <1>12 DEF OpenInode, Writing, IsStaged
<1>15. WellFormed'
  BY <1>1, <1>5 DEF WellFormed, Formed
<1>16. /\ \A p \in Files!Paths : tree[p].is = "file" => tree[p].node \in 1..Len(node)
       /\ \A y \in Names : uploads[y].is = "file" => uploads[y].node \in 1..Len(node)
  BY DEF FilesInv, Trees, Stagings
<1>17. \A y \in Names : \A m \in 1..Len(node) : IsStaged(y, m)' <=> IsStaged(y, m)
  BY <1>3, <1>6, <1>12 DEF IsStaged
<1>18. OneName'
  <2>1. ASSUME NEW p \in Files!Paths, NEW y \in Names, tree[p].is = "file", uploads'[y].is = "file"
        PROVE  tree[p].node # uploads'[y].node
    BY <1>1, <1>3, <1>6, <1>12, <1>16, <2>1 DEF OneName
  <2>2. ASSUME NEW z \in Names, NEW y \in Names, uploads'[z].is = "file", uploads'[y].is = "file",
               uploads'[z].node = uploads'[y].node
        PROVE  z = y
    BY <1>1, <1>3, <1>6, <1>12, <1>16, <2>2 DEF OneName
  <2> QED BY <1>1, <1>5, <2>1, <2>2 DEF OneName
<1>19. \A o \in Files!Paths : \A m \in 1..Len(node) : IsFile(o, m)' => IsFile(o, m)
  BY <1>5 DEF IsFile
<1>20. Sound(r, q)'
  BY <1>1, <1>10, SoundSoFar
<1> QED BY <1>1, <1>6, <1>8, <1>9, <1>10, <1>11, <1>13, <1>14, <1>15, <1>17, <1>18, <1>19, <1>20, KeepsCalm

\* An inode is written that has the name n among the files, or the stagings.
LEMMA Written ==
    ASSUME FilesInv, NEW d \in 1..Len(node), NEW c, node' = [node EXCEPT ![d] = c], UNCHANGED <<tree, uploads, archive>>, CalmInv
    PROVE  /\ node'[d] = c /\ \A n \in 1..Len(node) : n # d => node'[n] = node[n]
           /\ Len(node) <= Len(node') /\ WellFormed' /\ OneName'
           /\ \A x \in Names : \A n : IsStaged(x, n)' <=> IsStaged(x, n)
           /\ \A o \in Files!Paths : \A n : IsFile(o, n)' <=> IsFile(o, n)
<1>1. node'[d] = c /\ \A n \in 1..Len(node) : n # d => node'[n] = node[n]
  BY DEF FilesInv
<1>2. Len(node) <= Len(node')
  BY DEF FilesInv
<1>3. WellFormed' /\ OneName'
  BY DEF CalmInv, WellFormed, Formed, OneName
<1> QED BY <1>1, <1>2, <1>3 DEF IsStaged, IsFile

LEMMA CalmStaged ==
    ASSUME FilesInv, FilesInv', CalmInv, NEW r \in Files!Reqs, Files!Staged(r)
    PROVE  CalmInv'
<1>1. /\ Files!Active(r) /\ req[r] \in RequestType /\ Sane(req[r]) /\ req[r].pc = "staged" /\ req[r].name \in Names
      /\ req[r].kind = "upload" /\ IsStaged(req[r].name, req[r].dst) /\ req[r].dst \in 1..Len(node)
  <2>1. /\ Files!Active(r) /\ req[r] \in RequestType /\ Sane(req[r]) /\ req[r].pc = "staged"
        /\ InHand(req[r], Len(node), Checked) /\ OpenInode(req[r])
    BY DEF Files!Staged, Files!At, Files!Active, FilesInv, CalmInv
  <2>2. req[r].kind = "upload" /\ req[r].name \in Names /\ IsStaged(req[r].name, req[r].dst)
    BY <2>1 DEF InHand, OpenInode
  <2>3. req[r].dst \in 1..Len(node)
    BY <2>2 DEF IsStaged, FilesInv, Stagings
  <2> QED BY <2>1, <2>2, <2>3
<1>2. PICK d \in 1..Len(node) : d = req[r].dst
  BY <1>1
<1>3. PICK pc \in {"unpack", "check"} : req' = [req EXCEPT ![r].pc = pc]
  BY DEF Files!Staged, Files!Go
<1>4. node' = [node EXCEPT ![d] = Files!Own(r)] /\ UNCHANGED <<tree, uploads, archive>>
  BY <1>2 DEF Files!Staged, Files!Own
<1>5. PICK c : c = Files!Own(r)
  OBVIOUS
<1>6. /\ node'[d] = c /\ \A n \in 1..Len(node) : n # d => node'[n] = node[n]
      /\ Len(node) <= Len(node') /\ WellFormed' /\ OneName'
      /\ \A x \in Names : \A n : IsStaged(x, n)' <=> IsStaged(x, n)
      /\ \A o \in Files!Paths : \A n : IsFile(o, n)' <=> IsFile(o, n)
  <2>1. node' = [node EXCEPT ![d] = c]
    BY <1>4, <1>5
  <2> QED BY <1>4, <2>1, Written
<1>7. PICK q : q = [req[r] EXCEPT !.pc = pc]
  OBVIOUS
<1>8. req' = [req EXCEPT ![r] = q]
  BY <1>3, <1>7, Zenon
<1>9. /\ q \in RequestType /\ q.pc = pc /\ q.kind = req[r].kind /\ q.name = req[r].name /\ q.clean = req[r].clean
      /\ q.left = req[r].left /\ q.path = req[r].path /\ q.to = req[r].to
  BY <1>1, <1>7, Zenon DEF RequestType, FilePlaces
<1>10. Sane(q) /\ Narrower(q, req[r])
  BY <1>1, <1>9, SaneOn
<1>11. Effect(req[r])
  <2>1. Reaches(req[r], d)
    BY <1>1, <1>2 DEF Reaches
  <2> QED BY <1>4, <1>6, <2>1 DEF Effect
<1>12. OpenInode(q)' /\ Writing(q)'
  BY <1>9 DEF OpenInode, Writing
<1>13. Sound(r, q)'
  <2>1. uploads'[q.name].is = "file" /\ node'[uploads'[q.name].node] = Files!Own(r)
    BY <1>1, <1>2, <1>4, <1>5, <1>6, <1>9 DEF IsStaged
  <2>2. UploadSound(r, q)'
    BY <1>9, <2>1 DEF UploadSound, Files!Own
  <2> QED BY <1>1, <1>9, <2>2 DEF Sound, Writing, WriteSound, CopySound, ExtractSound, MoveSound
<1> QED BY <1>1, <1>6, <1>8, <1>9, <1>10, <1>11, <1>12, <1>13, KeepsCalm

\* A step that no file but the one of a path can notice.
OnlyAt(p) ==
    /\ \A o \in Files!Paths : o # p /\ (tree[o].is # "none" \/ Len(o) = 2) => tree'[o] = tree[o]
    /\ \A o \in Files!Paths : o # p /\ tree[o].is = "file" => node'[tree[o].node] = node[tree[o].node]
    /\ \A x \in Names : /\ uploads'[x] = uploads[x]
                        /\ uploads[x].is = "file" => node'[uploads[x].node] = node[uploads[x].node]
    /\ archive' = archive

LEMMA OnlyAtFacts ==
    ASSUME NEW p, OnlyAt(p)
    PROVE  /\ \A o \in Files!Paths : o # p => \A c : Files!Holds(o, c) => Files!Holds(o, c)'
           /\ \A o \in Files!Paths : o # p => \A n : IsFile(o, n) => IsFile(o, n)' /\ node'[n] = node[n]
           /\ \A x \in Names : \A n : IsStaged(x, n) => IsStaged(x, n)' /\ node'[n] = node[n]
BY DEF OnlyAt, Files!Holds, IsFile, IsStaged

LEMMA MembersStay ==
    ASSUME NEW held \in Archives, NEW r, NEW q \in RequestType, q.to \in Files!Tops \cup {Files!Root},
           NEW n \in 0..Len(held.members), Extracted(r, q, held, n), NEW m \in 1..Len(held.members), m > n,
           OnlyAt(Files!Under(q.to, held.members[m].name))
    PROVE  \A k \in 1..n : held.members[k].kind = "file" /\ OneOfItsName(held, k) =>
             Files!Holds(Files!Under(q.to, held.members[k].name), Files!Own(r))'
<1> SUFFICES ASSUME NEW k \in 1..n, held.members[k].kind = "file", OneOfItsName(held, k)
             PROVE  Files!Holds(Files!Under(q.to, held.members[k].name), Files!Own(r))'
  OBVIOUS
<1>1. Len(held.members) \in Nat
  BY MemberPlaces
<1>2. k \in 1..Len(held.members) /\ k # m
  BY <1>1
<1>3. held.members[k].name # held.members[m].name
  BY <1>2 DEF OneOfItsName
<1>4. PICK p : p = Files!Under(q.to, held.members[k].name)
  OBVIOUS
<1>5. p \in Files!Paths /\ p # Files!Under(q.to, held.members[m].name)
  BY <1>2, <1>3, <1>4, MemberPlaces, UnderFacts
<1>6. Files!Holds(p, Files!Own(r))
  BY <1>4 DEF Extracted
<1>7. PICK c : c = Files!Own(r)
  OBVIOUS
<1>8. Files!Holds(p, c)'
  BY <1>5, <1>6, <1>7, OnlyAtFacts
<1>9. c = Files!Own(r)'
  BY <1>7 DEF Files!Own
<1> QED BY <1>4, <1>8, <1>9

\* Where what is in a directory is copied to.
LEMMA Counterparts ==
    ASSUME NEW q \in RequestType, q.path \in Files!Paths, q.to \in Files!Tops, NEW c \in Inside(q.path)
    PROVE  /\ c \in Files!Paths /\ Len(c) = 2 /\ Counterpart(q, c) \in Files!Paths /\ Len(Counterpart(q, c)) = 2
           /\ q.path \in Files!Tops /\ q.path # Counterpart(q, c) /\ (q.path = q.to => Counterpart(q, c) = c)
           /\ \A d \in Inside(q.path) : /\ Counterpart(q, d) = Counterpart(q, c) => d = c
                                        /\ d = Counterpart(q, c) => d = c
<1>1. \A d \in Inside(q.path) :
        /\ d \in Files!Paths /\ Len(d) = 2 /\ Files!Last(d) \in Names /\ q.path \in Files!Tops
        /\ Files!Front(d) = q.path /\ d = Files!Under(q.path, Files!Last(d))
  <2>1. ASSUME NEW d \in Inside(q.path)
        PROVE  /\ d \in Files!Paths /\ Len(d) = 2 /\ Files!Last(d) \in Names /\ q.path \in Files!Tops
               /\ Files!Front(d) = q.path /\ d = Files!Under(q.path, Files!Last(d))
    <3>1. d \in Files!Paths /\ Len(d) = 2 /\ Len(q.path) = 1 /\ Files!IsPrefix(q.path, d)
      BY PathShape DEF Inside
    <3>2. q.path # d
      BY <3>1
    <3> QED BY <3>1, <3>2, FrontFacts
  <2> QED BY <2>1
<1>2. \A d \in Inside(q.path) :
        /\ Counterpart(q, d) \in Files!Paths /\ Len(Counterpart(q, d)) = 2
        /\ Files!Front(Counterpart(q, d)) = q.to /\ Files!Last(Counterpart(q, d)) = Files!Last(d)
  <2>1. Len(q.to) = 1
    BY PathShape
  <2>2. ASSUME NEW d \in Inside(q.path)
        PROVE  /\ Counterpart(q, d) \in Files!Paths /\ Len(Counterpart(q, d)) = 2
               /\ Files!Front(Counterpart(q, d)) = q.to /\ Files!Last(Counterpart(q, d)) = Files!Last(d)
    <3>1. PICK x \in Names : x = Files!Last(d)
      BY <1>1
    <3>2. Counterpart(q, d) = Files!Under(q.to, x)
      BY <3>1 DEF Counterpart
    <3>3. /\ Files!Under(q.to, x) \in Files!Paths /\ Len(Files!Under(q.to, x)) = 2
          /\ Files!Front(Files!Under(q.to, x)) = q.to /\ Files!Last(Files!Under(q.to, x)) = x
      <4>1. PICK w \in Files!Tops : w = q.to
        OBVIOUS
      <4>2. /\ Files!Under(w, x) \in Files!Paths /\ Len(Files!Under(w, x)) = Len(w) + 1
            /\ Files!Front(Files!Under(w, x)) = w /\ Files!Last(Files!Under(w, x)) = x
        BY UnderFacts, Zenon
      <4> HIDE DEF Files!Under
      <4> QED BY <2>1, <4>1, <4>2
    <3> QED BY <3>1, <3>2, <3>3
  <2> QED BY <2>2
<1>3. q.path # Counterpart(q, c)
  <2>1. Len(q.path) = 1
    BY <1>1, PathShape
  <2> QED BY <1>2, <2>1
<1>4. q.path = q.to => Counterpart(q, c) = c
  BY <1>1, Zenon DEF Counterpart
<1>5. ASSUME NEW d \in Inside(q.path), Counterpart(q, d) = Counterpart(q, c) PROVE d = c
  <2>1. Files!Last(d) = Files!Last(c)
    BY <1>2, <1>5
  <2> QED BY <1>1, <2>1, Zenon
<1>6. ASSUME NEW d \in Inside(q.path), d = Counterpart(q, c) PROVE d = c
  <2>1. Files!Last(d) = Files!Last(c)
    BY <1>2, <1>6
  <2> QED BY <1>1, <2>1, Zenon
<1> QED BY <1>1, <1>2, <1>3, <1>4, <1>5, <1>6

LEMMA ChildStays ==
    ASSUME NEW q \in RequestType, q.path \in Files!Paths, q.to \in Files!Tops, NEW c \in Inside(q.path),
           OnlyAt(Counterpart(q, c)), NEW d \in Inside(q.path), d # c,
           tree[d].is = "file", Files!Holds(Counterpart(q, d), node[tree[d].node])
    PROVE  tree'[d].is = "file" /\ Files!Holds(Counterpart(q, d), node[tree[d].node])'
<1>1. PICK o \in Files!Paths : o = Counterpart(q, d) /\ o # Counterpart(q, c)
  BY Counterparts
<1>2. d \in Files!Paths /\ d # Counterpart(q, c)
  BY Counterparts
<1>3. PICK n : n = tree[d].node
  OBVIOUS
<1>4. PICK w : w = node[n]
  OBVIOUS
<1>5. IsFile(d, n)' /\ node'[n] = w
  <2>1. IsFile(d, n)
    BY <1>3 DEF IsFile
  <2> QED BY <1>2, <1>4, <2>1, OnlyAtFacts
<1>6. Files!Holds(o, w)'
  BY <1>1, <1>3, <1>4, OnlyAtFacts
<1>7. Files!Holds(o, node[tree[d].node])'
  BY <1>5, <1>6 DEF Files!Holds, IsFile
<1>8. o = Counterpart(q, d)'
  BY <1>1 DEF Counterpart, Files!Under, Files!Last
<1> QED BY <1>5, <1>7, <1>8 DEF IsFile

\* What is next has been opened.
LEMMA SoundOpened ==
    ASSUME FilesInv, NEW r \in Files!Reqs, NEW p \in RequestType, NEW q \in RequestType,
           Sound(r, p), Sane(p), InHand(p, Len(node), Checked), p.pc = "open", p.left # << >>,
           q.pc = "write", q.kind = p.kind, q.name = p.name, q.left = p.left, q.path = p.path, q.to = p.to, q.flag = p.flag,
           NEW item \in Items, item = Head(p.left), item.kind \in Files!Opens,
           OnlyAt(item.to), IsFile(item.to, q.dst)',
           item.kind = "staged" => IsStaged(p.name, q.src),
           item.kind = "path" => IsFile(item.from, q.src) /\ item.from # item.to
    PROVE  Sound(r, q)'
<1>1. Writing(q)' /\ MoveSound(q)'
  BY DEF Writing, MoveSound
<1>2. UploadSound(r, q)'
  <2>1. ASSUME q.kind \in {"upload", "import"} PROVE UploadSound(r, q)'
    <3>1. q.name \in Names
      BY <2>1 DEF InHand
    <3>2. p.left = <<StagedItem(p)>>
      BY <2>1 DEF Sound, UploadSound
    <3>3. item.kind = "staged"
      BY <3>2 DEF StagedItem
    <3>4. IsStaged(q.name, q.src)'
      BY <3>1, <3>3, OnlyAtFacts
    <3>5. q.kind = "upload" => uploads[q.name].is = "file" /\ node[uploads[q.name].node] = Files!Own(r)
      BY <2>1 DEF Sound, UploadSound
    <3>6. q.kind = "upload" => uploads'[q.name].is = "file" /\ node'[uploads'[q.name].node] = Files!Own(r)
      BY <3>1, <3>5 DEF OnlyAt
    <3>7. q.left = <<StagedItem(q)>>
      BY <3>2 DEF StagedItem
    <3> QED BY <3>4, <3>6, <3>7 DEF UploadSound, StagedItem, Files!Own, Files!Root
  <2> QED BY <2>1 DEF UploadSound
<1>3. WriteSound(r, q)'
  <2>1. ASSUME q.kind = "write" PROVE WriteSound(r, q)'
    <3>1. p.left = <<OwnItem(p)>>
      BY <2>1 DEF Sound, WriteSound
    <3>2. q.left = <<OwnItem(q)>>
      BY <3>1 DEF OwnItem
    <3> QED BY <3>2 DEF WriteSound, OwnItem, Files!Root
  <2> QED BY <2>1 DEF WriteSound
<1>4. CopySound(q)'
  <2>1. ASSUME q.kind = "copy", ~q.flag PROVE CopySound(q)'
    <3>1. FileCopied(p) \/ DirectoryCopied(p)
      BY <2>1 DEF Sound, CopySound
    <3>2. q.path \in Files!Paths
      BY <2>1 DEF InHand
    <3>3. ASSUME FileCopied(p) PROVE FileCopied(q)'
      <4>1. p.left = <<FileItem(p)>> /\ tree[p.path].is = "file"
        BY <3>3 DEF FileCopied
      <4>2. item.kind = "path" /\ item.from = q.path
        BY <4>1 DEF FileItem
      <4>3. IsFile(q.path, q.src)'
        BY <3>2, <4>2, OnlyAtFacts
      <4>4. q.left = <<FileItem(q)>>
        BY <4>1 DEF FileItem
      <4> QED BY <4>3, <4>4 DEF FileCopied, FileItem, IsFile
    <3>4. ASSUME DirectoryCopied(p) PROVE DirectoryCopied(q)'
      <4>0. p.left \in Seq(Items)
        BY RequestFacts
      <4>1. Head(q.left) = q.left[1] /\ 1 \in 1..Len(q.left) /\ item = q.left[1]
        BY <4>0, TailFits
      <4>2. \A k \in 1..Len(q.left) : \E c \in Inside(q.path) : q.left[k] = ChildItem(q, c)
        BY <3>4 DEF DirectoryCopied, ChildItem, Counterpart
      <4>3. PICK c \in Inside(q.path) : item = ChildItem(q, c)
        BY <4>1, <4>2
      <4>4. item.from = c /\ item.to = Counterpart(q, c) /\ item.kind = "path"
        BY <4>3 DEF ChildItem
      <4>5. q.to \in Files!Tops /\ tree[q.path].is = "dir"
        BY <3>4 DEF DirectoryCopied
      <4>6. tree'[q.path].is = "dir"
        <5>1. q.path # item.to
          BY <3>2, <4>4, <4>5, Counterparts
        <5> QED BY <3>2, <4>5, <5>1 DEF OnlyAt
      <4>7. ASSUME NEW d \in Inside(q.path) PROVE ChildCopied(q, d)'
        <5>1. CASE d = c
          BY <4>1, <4>4, <5>1 DEF ChildCopied
        <5>2. CASE d # c
          <6>0. q.path \in Files!Paths /\ q.to \in Files!Tops /\ q \in RequestType
            BY <3>2, <4>5
          <6>1. d \in Files!Paths /\ Len(d) = 2 /\ d # item.to
            BY <4>4, <5>2, <6>0, Counterparts, ZenonT(30)
          <6>2. tree'[d] = tree[d]
            BY <6>1 DEF OnlyAt
          <6>3. ChildCopied(p, d)
            BY <3>4 DEF DirectoryCopied
          <6>4. tree[d].is = "file" /\ Files!Holds(Counterpart(q, d), node[tree[d].node]) =>
                  tree'[d].is = "file" /\ Files!Holds(Counterpart(q, d), node[tree[d].node])'
            BY <3>2, <4>4, <4>5, <5>2, ChildStays
          <6>5. Counterpart(p, d) = Counterpart(q, d)
            BY DEF Counterpart
          <6> QED BY <6>2, <6>3, <6>4, <6>5 DEF ChildCopied
        <5> QED BY <5>1, <5>2
      <4>8. IsFile(Head(q.left).from, q.src)'
        <5>1. c \in Files!Paths /\ c # item.to /\ IsFile(c, q.src)
          BY <4>4 DEF Inside
        <5>2. IsFile(c, q.src)'
          BY <5>1, OnlyAtFacts
        <5> QED BY <4>1, <4>4, <5>2
      <4> QED BY <4>2, <4>5, <4>6, <4>7, <4>8 DEF DirectoryCopied, Inside, ChildItem, Counterpart
    <3> QED BY <3>1, <3>3, <3>4 DEF CopySound
  <2> QED BY <2>1 DEF CopySound
<1>5. ExtractSound(r, q)'
  <2>1. ASSUME q.kind = "extract" PROVE ExtractSound(r, q)'
    <3>1. archive # None /\ archive' = archive /\ q.to \in Files!Tops \cup {Files!Root}
      BY <2>1 DEF Sound, ExtractSound, OnlyAt, InHand
    <3>2. PICK held \in Archives : held = archive
      BY <3>1 DEF FilesInv
    <3>3. PICK n \in 0..Len(held.members) : Extracted(r, p, held, n)
      BY <2>1, <3>2 DEF Sound, ExtractSound
    <3>4. n + 1 \in 1..Len(held.members) /\ n + 1 > n /\ item = Files!Item(held, held.members[n + 1], p.to)
      <4>1. n + 1 \in 1..Len(held.members) /\ Head(p.left) = Files!Item(held, held.members[n + 1], p.to)
        BY <3>2, <3>3, NextMember
      <4> QED BY <4>1
    <3>5. item.to = Files!Under(q.to, held.members[n + 1].name)
      BY <3>4, ItemMember
    <3>6. Extracted(r, q, held, n)
      BY <3>3 DEF Extracted
    <3>7. \A k \in 1..n : held.members[k].kind = "file" /\ OneOfItsName(held, k) =>
             Files!Holds(Files!Under(q.to, held.members[k].name), Files!Own(r))'
      <4>1. PICK m \in 1..Len(held.members) : m = n + 1 /\ m > n
        BY <3>4
      <4>2. OnlyAt(Files!Under(q.to, held.members[m].name))
        BY <3>5, <4>1
      <4> QED BY <3>1, <3>6, <4>1, <4>2, MembersStay
    <3>8. Extracted(r, q, held, n)'
      BY <3>6, <3>7 DEF Extracted
    <3> QED BY <3>1, <3>2, <3>3, <3>8 DEF ExtractSound
  <2> QED BY <2>1 DEF ExtractSound
<1> QED BY <1>1, <1>2, <1>3, <1>4, <1>5 DEF Sound

\* What is next has been written.
LEMMA SoundWritten ==
    ASSUME FilesInv, NEW r \in Files!Reqs, NEW p \in RequestType, NEW q \in RequestType,
           Sound(r, p), Sane(p), InHand(p, Len(node), Checked), p.pc = "write", p.left # << >>,
           q.pc = "open", q.kind = p.kind, q.name = p.name, q.left = Tail(p.left), q.path = p.path, q.to = p.to,
           q.flag = p.flag, q.src = p.src,
           NEW item \in Items, item = Head(p.left), UNCHANGED tree,
           OnlyAt(item.to), NEW c, node'[p.dst] = c, \A n \in 1..Len(node) : n # p.dst => node'[n] = node[n],
           c = IF item.kind \in {"own", "file"} THEN Files!Own(r) ELSE node[p.src]
    PROVE  Sound(r, q)'
<1>1. Writing(q)' /\ MoveSound(q)'
  BY DEF Writing, MoveSound
<1>2. IsFile(item.to, p.dst) /\ Files!Holds(item.to, c)' /\ p.left \in Seq(Items)
  <2>1. IsFile(item.to, p.dst) /\ p.left \in Seq(Items)
    BY RequestFacts DEF Sound, Writing
  <2> QED BY <2>1 DEF IsFile, Files!Holds
<1>3. item \in Items /\ item = p.left[1] /\ 1 \in 1..Len(p.left) /\ item.kind \in Files!Opens
      /\ \A k \in 1..Len(q.left) : k + 1 \in 1..Len(p.left) /\ q.left[k] = p.left[k + 1]
  BY <1>2, TailFits DEF Sane
<1>4. UploadSound(r, q)'
  <2>1. ASSUME q.kind \in {"upload", "import"} PROVE UploadSound(r, q)'
    <3>1. q.name \in Names
      BY <2>1 DEF InHand
    <3>2. p.left = <<StagedItem(p)>> /\ IsStaged(q.name, q.src)
      BY <2>1 DEF Sound, UploadSound
    <3>3. item.kind = "staged" /\ item.to = q.to /\ q.left = << >>
      BY <3>2 DEF StagedItem
    <3>4. IsStaged(q.name, q.src)' /\ node'[q.src] = c
      BY <3>1, <3>2, <3>3, OnlyAtFacts
    <3>5. q.kind = "upload" => uploads[q.name].is = "file" /\ node[uploads[q.name].node] = Files!Own(r)
      BY <2>1 DEF Sound, UploadSound
    <3>6. q.kind = "upload" => uploads'[q.name].is = "file" /\ node'[uploads'[q.name].node] = Files!Own(r)
      BY <3>1, <3>5 DEF OnlyAt
    <3>7. Files!Holds(q.to, node[q.src])'
      BY <1>2, <3>3, <3>4 DEF Files!Holds
    <3> QED BY <3>3, <3>4, <3>6, <3>7 DEF UploadSound, Files!Own
  <2> QED BY <2>1 DEF UploadSound
<1>5. WriteSound(r, q)'
  <2>1. ASSUME q.kind = "write" PROVE WriteSound(r, q)'
    <3>1. p.left = <<OwnItem(p)>>
      BY <2>1 DEF Sound, WriteSound
    <3>2. q.left = << >> /\ item.kind = "own" /\ item.to = q.to
      BY <3>1 DEF OwnItem
    <3>3. Files!Holds(q.to, Files!Own(r))'
      BY <1>2, <3>2 DEF Files!Holds, Files!Own
    <3> QED BY <3>2, <3>3 DEF WriteSound
  <2> QED BY <2>1 DEF WriteSound
<1>6. ASSUME item.kind = "path", IsFile(item.from, p.src), item.from \in Files!Paths
      PROVE  IsFile(item.from, p.src)' /\ node'[p.src] = c
  <2>1. p.src \in 1..Len(node)
    BY <1>6 DEF IsFile, FilesInv, Trees
  <2>2. node'[p.src] = c
    BY <1>6, <2>1
  <2> QED BY <1>6, <2>2 DEF IsFile
<1>7. CopySound(q)'
  <2>1. ASSUME q.kind = "copy", ~q.flag PROVE CopySound(q)'
    <3>1. FileCopied(p) \/ DirectoryCopied(p)
      BY <2>1 DEF Sound, CopySound
    <3>2. q.path \in Files!Paths
      BY <2>1 DEF InHand
    <3>3. ASSUME FileCopied(p) PROVE FileCopied(q)'
      <4>1. p.left = <<FileItem(p)>> /\ tree[p.path].is = "file" /\ IsFile(p.path, p.src)
        BY <3>3 DEF FileCopied
      <4>2. item.kind = "path" /\ item.from = q.path /\ item.to = q.to /\ q.left = << >>
        BY <4>1 DEF FileItem
      <4>3. IsFile(q.path, q.src)' /\ node'[q.src] = c
        BY <1>6, <3>2, <4>1, <4>2
      <4>4. Files!Holds(q.to, node[q.src])'
        BY <1>2, <4>2, <4>3 DEF Files!Holds
      <4> QED BY <4>2, <4>3, <4>4 DEF FileCopied, IsFile
    <3>4. ASSUME DirectoryCopied(p) PROVE DirectoryCopied(q)'
      <4>1. \A k \in 1..Len(p.left) : \E d \in Inside(q.path) : p.left[k] = ChildItem(q, d)
        BY <3>4 DEF DirectoryCopied, ChildItem, Counterpart
      <4>2. \A k \in 1..Len(q.left) : \E d \in Inside(q.path) : q.left[k] = ChildItem(q, d)
        BY <1>3, <4>1
      <4>3. PICK e \in Inside(q.path) : item = ChildItem(q, e)
        BY <1>3, <4>1
      <4>4. item.from = e /\ item.to = Counterpart(q, e) /\ item.kind = "path" /\ e \in Files!Paths
        BY <4>3 DEF ChildItem, Inside
      <4>5. q.to \in Files!Tops /\ tree'[q.path].is = "dir" /\ IsFile(e, p.src)
        BY <3>4, <4>4 DEF DirectoryCopied
      <4>6. ASSUME NEW d \in Inside(q.path) PROVE ChildCopied(q, d)'
        <5>1. CASE d = e
          <6>1. IsFile(d, q.src)' /\ node'[q.src] = c
            BY <1>6, <4>4, <4>5, <5>1
          <6>2. PICK o : o = Counterpart(q, d)
            OBVIOUS
          <6>3. Files!Holds(o, node[tree[d].node])'
            BY <1>2, <4>4, <5>1, <6>1, <6>2 DEF Files!Holds, IsFile
          <6>4. o = Counterpart(q, d)'
            BY <6>2 DEF Counterpart, Files!Under, Files!Last
          <6> QED BY <6>1, <6>3, <6>4 DEF ChildCopied, IsFile
        <5>2. CASE d # e
          <6>1. ChildCopied(p, d)
            BY <3>4 DEF DirectoryCopied
          <6>2. ASSUME NEW k \in 1..Len(p.left), p.left[k].from = d
                PROVE  \E j \in 1..Len(q.left) : q.left[j].from = d
            <7>1. k # 1
              BY <1>3, <4>4, <5>2, <6>2
            <7>2. Len(q.left) = Len(p.left) - 1
              BY <1>2, <1>3
            <7>3. k - 1 \in 1..Len(q.left) /\ (k - 1) + 1 = k
              BY <1>2, <7>1, <7>2
            <7> QED BY <1>3, <6>2, <7>3
          <6>3. tree[d].is = "file" /\ Files!Holds(Counterpart(q, d), node[tree[d].node]) =>
                  tree'[d].is = "file" /\ Files!Holds(Counterpart(q, d), node[tree[d].node])'
            BY <3>2, <4>4, <4>5, <5>2, ChildStays
          <6>4. Counterpart(p, d) = Counterpart(q, d)
            BY DEF Counterpart
          <6> QED BY <6>1, <6>2, <6>3, <6>4 DEF ChildCopied
        <5> QED BY <5>1, <5>2
      <4> QED BY <4>2, <4>5, <4>6 DEF DirectoryCopied, Inside, ChildItem, Counterpart
    <3> QED BY <3>1, <3>3, <3>4 DEF CopySound
  <2> QED BY <2>1 DEF CopySound
<1>8. ExtractSound(r, q)'
  <2>1. ASSUME q.kind = "extract" PROVE ExtractSound(r, q)'
    <3>1. archive # None /\ archive' = archive /\ q.to \in Files!Tops \cup {Files!Root}
      BY <2>1 DEF Sound, ExtractSound, OnlyAt, InHand
    <3>2. PICK held \in Archives : held = archive
      BY <3>1 DEF FilesInv
    <3>3. PICK n \in 0..Len(held.members) : Extracted(r, p, held, n)
      BY <2>1, <3>2 DEF Sound, ExtractSound
    <3>4. /\ n + 1 \in 1..Len(held.members) /\ Head(p.left) = Files!Item(held, held.members[n + 1], p.to)
          /\ Len(Tail(p.left)) = Len(held.members) - (n + 1)
          /\ \A k \in 1..Len(Tail(p.left)) : Tail(p.left)[k] = Files!Item(held, held.members[(n + 1) + k], p.to)
          /\ \A k \in 1..(n + 1) : k \in 1..n \/ k = n + 1
      BY <3>2, <3>3, NextMember
    <3>5. PICK m \in 1..Len(held.members) : m = n + 1 /\ m > n
      BY <3>4
    <3>6. /\ item.to = Files!Under(q.to, held.members[m].name)
          /\ item.kind = held.members[m].kind \/ item.kind = "large"
      BY <3>4, <3>5, ItemMember
    <3>7. \A k \in 1..n : held.members[k].kind = "file" /\ OneOfItsName(held, k) =>
             Files!Holds(Files!Under(q.to, held.members[k].name), Files!Own(r))'
      <4>1. OnlyAt(Files!Under(p.to, held.members[m].name)) /\ p.to \in Files!Tops \cup {Files!Root}
        BY <3>1, <3>6
      <4> QED BY <3>3, <3>5, <4>1, MembersStay
    <3>8. held.members[m].kind = "file" => Files!Holds(Files!Under(q.to, held.members[m].name), Files!Own(r))'
      <4>1. ASSUME held.members[m].kind = "file" PROVE Files!Holds(item.to, Files!Own(r))'
        <5>1. c = Files!Own(r)
          BY <1>3, <3>6, <4>1 DEF Files!Opens
        <5> QED BY <1>2, <5>1 DEF Files!Holds, Files!Own
      <4> QED BY <3>6, <4>1
    <3>9. Extracted(r, q, held, m)'
      <4>1. /\ Len(q.left) = Len(held.members) - m
            /\ \A k \in 1..Len(q.left) : q.left[k] = Files!Item(held, held.members[m + k], q.to)
        BY <3>4, <3>5
      <4>2. \A k \in 1..m : held.members[k].kind = "file" /\ OneOfItsName(held, k) =>
              Files!Holds(Files!Under(q.to, held.members[k].name), Files!Own(r))'
        BY <3>4, <3>5, <3>7, <3>8
      <4> QED BY <4>1, <4>2 DEF Extracted
    <3>10. m \in 0..Len(held.members)
      BY <3>5
    <3> QED BY <3>1, <3>2, <3>9, <3>10 DEF ExtractSound
  <2> QED BY <2>1 DEF ExtractSound
<1> QED BY <1>1, <1>4, <1>5, <1>7, <1>8 DEF Sound

LEMMA CalmOpen ==
    ASSUME FilesInv, FilesInv', CalmInv, NEW r \in Files!Reqs, Files!Open(r)
    PROVE  CalmInv'
<1>1. /\ Files!Active(r) /\ req[r] \in RequestType /\ Sane(req[r]) /\ req[r].pc = "open" /\ req[r].left # << >>
      /\ req[r].left \in Seq(Items) /\ Head(req[r].left).kind \in Files!Opens /\ WellFormed /\ OneName
      /\ InHand(req[r], Len(node), Checked)
  <2>1. /\ Files!Active(r) /\ req[r] \in RequestType /\ Sane(req[r]) /\ req[r].pc = "open" /\ req[r].left # << >>
        /\ Head(req[r].left).kind \in Files!Opens /\ WellFormed /\ OneName /\ InHand(req[r], Len(node), Checked)
    BY DEF Files!Open, Files!At, Files!Active, FilesInv, CalmInv
  <2> QED BY <2>1, RequestFacts
<1>2. CASE Files!Fail(r)
  BY <1>1, <1>2, CalmFailing
<1>3. PICK item \in Items : item = Head(req[r].left) /\ item = req[r].left[1] /\ 1 \in 1..Len(req[r].left)
  BY <1>1, TailFits
<1>4. item.to \in Below(req[r]) /\ item.to \in Files!Paths
  BY <1>1, <1>3 DEF Sane, Below
<1>5. CASE /\ req[r].kind = "copy"
           /\ req' = [req EXCEPT ![r].left = Tail(@), ![r].flag = TRUE]
           /\ UNCHANGED <<tree, uploads, node, archive>>
  <2>1. PICK q : q = [req[r] EXCEPT !.left = Tail(@), !.flag = TRUE]
    OBVIOUS
  <2>2. req' = [req EXCEPT ![r] = q]
    BY <1>5, <2>1, Zenon
  <2>3. q \in RequestType
    <3>1. req'[r] = q /\ req' \in [Files!Reqs -> RequestType]
      BY <2>2 DEF FilesInv
    <3> QED BY <3>1
  <2>4. /\ q.pc = "open" /\ q.kind = "copy" /\ q.kind = req[r].kind /\ q.name = req[r].name /\ q.clean = req[r].clean
        /\ q.left = Tail(req[r].left) /\ q.path = req[r].path /\ q.to = req[r].to /\ q.flag
    BY <1>1, <1>5, <2>1, Zenon DEF RequestType, FilePlaces
  <2>5. Sane(q) /\ Narrower(q, req[r])
    BY <1>1, <2>3, <2>4, SaneOn
  <2>6. WellFormed'
    BY <1>1, <1>5 DEF WellFormed, Formed
  <2>7. Sound(r, q)'
    BY <2>4 DEF Sound, Writing, UploadSound, WriteSound, CopySound, ExtractSound, MoveSound
  <2> QED BY <1>1, <1>5, <2>2, <2>3, <2>4, <2>5, <2>6, <2>7, KeepsTree
<1>6. CASE /\ Files!CanOpen(r, item)
           /\ node' = Files!Emptied(tree[item.to])
           /\ tree' = [Files!ParentMade(item.to) EXCEPT ![item.to] = Files!File(Files!Opened(@))]
           /\ req' = [req EXCEPT ![r].pc = "write", ![r].dst = Files!Opened(tree[item.to]),
                                 ![r].src = IF item.kind = "file" THEN @ ELSE Files!Source(r, item).node]
           /\ UNCHANGED <<uploads, archive>>
  <2>1. PICK p \in Files!Paths : p = item.to /\ p \in Below(req[r])
    BY <1>4
  <2>2. PICK e \in Entries : e = tree[p] /\ (e.is = "file" => e.node \in 1..Len(node))
    BY DEF FilesInv, Trees
  <2>3. PICK n : n = Files!Opened(e)
    OBVIOUS
  <2>4. PICK src : src = Files!Source(r, item)
    OBVIOUS
  <2>5. Files!CanHaveParent(p) /\ e.is # "dir" /\ (item.kind \in {"staged", "path"} => src.is = "file" /\ src # e)
    BY <1>6, <2>1, <2>2, <2>4 DEF Files!CanOpen, Files!HasParent, Files!CanHaveParent
  <2>6. tree' = [Files!ParentMade(p) EXCEPT ![p] = Files!File(n)] /\ node' = Files!Emptied(e)
    <3>1. Files!ParentMade(p)[p] = e /\ Files!ParentMade(p) \in Trees(Len(node))
      BY <1>1, <2>2, <2>5, ParentMadeFacts
    <3> QED BY <1>6, <2>1, <2>2, <2>3, <3>1 DEF Trees
  <2>7. /\ \A m \in 1..Len(node) : node'[m] = node[m] \/ (e.is = "file" /\ m = e.node)
        /\ n = IF e.is = "file" THEN e.node ELSE Len(node) + 1
        /\ Files!File(n).is = "file" /\ Files!File(n).node = n /\ Files!File(n) \in Entries
        /\ n \in 1..Len(node') /\ Len(node) <= Len(node') /\ Len(node) \in Nat
    BY <2>2, <2>3, <2>6, EmptiedFacts
  <2>8. /\ \A o \in Files!Paths : o \notin Around(req[r]) => tree'[o] = tree[o]
        /\ tree'[p] = Files!File(n)
        /\ \A o \in Files!Paths : o # p =>
             tree'[o] = tree[o] \/ (Len(p) = 2 /\ o = Files!Front(p) /\ tree[o].is = "none" /\ tree'[o].is = "dir")
        /\ WellFormed'
    <3>1. p \in Below(req[r]) /\ req[r] \in RequestType
      BY <1>1, <2>1, <2>2, Zenon
    <3> QED BY <2>2, <2>5, <2>6, <2>7, <3>1, MadeFacts, Zenon
  <2>9. /\ \A o \in Files!Paths : tree[o].is = "file" => tree[o].node \in 1..Len(node)
        /\ \A x \in Names : uploads[x].is = "file" => uploads[x].node \in 1..Len(node)
    BY DEF FilesInv, Trees, Stagings
  <2>10. \A o \in Files!Paths : o # p /\ tree'[o].is = "file" => tree'[o] = tree[o]
    BY <2>8
  <2>11. OnlyAt(p)
    <3>1. ASSUME NEW o \in Files!Paths, o # p, tree[o].is # "none" \/ Len(o) = 2 PROVE tree'[o] = tree[o]
      <4>1. Len(p) = 2 => Len(Files!Front(p)) = 1
        BY FrontFacts, PathShape
      <4> QED BY <2>8, <3>1, <4>1
    <3>2. ASSUME NEW o \in Files!Paths, o # p, tree[o].is = "file" PROVE node'[tree[o].node] = node[tree[o].node]
      BY <1>1, <2>2, <2>7, <2>9, <3>2 DEF OneName
    <3>3. ASSUME NEW x \in Names, uploads[x].is = "file" PROVE node'[uploads[x].node] = node[uploads[x].node]
      BY <1>1, <2>2, <2>7, <2>9, <3>3 DEF OneName
    <3> QED BY <1>6, <3>1, <3>2, <3>3 DEF OnlyAt
  <2>0. PICK v : v = IF item.kind = "file" THEN req[r].src ELSE src.node
    OBVIOUS
  <2>12. PICK q : q = [req[r] EXCEPT !.pc = "write", !.src = v, !.dst = n]
    OBVIOUS
  <2>13. req' = [req EXCEPT ![r] = q]
    BY <1>6, <2>0, <2>1, <2>2, <2>3, <2>4, <2>12
  <2>14. q \in RequestType
    <3>1. req'[r] = q /\ req' \in [Files!Reqs -> RequestType]
      BY <2>13 DEF FilesInv
    <3> QED BY <3>1
  <2>15. /\ q.pc = "write" /\ q.kind = req[r].kind /\ q.name = req[r].name /\ q.clean = req[r].clean
         /\ q.left = req[r].left /\ q.path = req[r].path /\ q.to = req[r].to /\ q.flag = req[r].flag
         /\ q.src = v /\ q.dst = n
    BY <1>1, <2>12, Zenon DEF RequestType, FilePlaces
  <2>16. Narrower(q, req[r]) /\ Below(q) = Below(req[r])
    BY <1>1, <2>14, <2>15, StaysSame
  <2>17. Sane(q)
    BY <1>1, <2>15, <2>16 DEF Sane
  <2>18. Effect(req[r])
    <3>1. ASSUME NEW m \in 1..Len(node), node'[m] # node[m] PROVE Reaches(req[r], m)
      <4>1. p \in Around(req[r])
        BY <1>1, <2>1, AroundFacts
      <4>2. IsFile(p, m)
        BY <2>2, <2>7, <3>1 DEF IsFile
      <4> QED BY <4>1, <4>2 DEF Reaches
    <3> QED BY <1>6, <2>8, <3>1 DEF Effect
  <2>19. OpenInode(q)' /\ Writing(q)'
    <3>1. \A x \in Names : ~IsStaged(x, n)'
      BY <1>1, <1>6, <2>2, <2>7, <2>9 DEF OneName, IsStaged
    <3>2. IsFile(p, n)'
      BY <2>7, <2>8 DEF IsFile
    <3>3. Head(q.left).to = p
      BY <1>3, <2>1, <2>15
    <3> QED BY <2>7, <2>15, <3>1, <3>2, <3>3 DEF OpenInode, Writing
  <2>20. OneName'
    <3>1. ASSUME NEW o \in Files!Paths, NEW w \in Files!Paths, tree'[o].is = "file", tree'[w].is = "file",
                 tree'[o].node = tree'[w].node
          PROVE  o = w
      BY <1>1, <2>2, <2>7, <2>8, <2>9, <2>10, <3>1 DEF OneName
    <3>2. ASSUME NEW o \in Files!Paths, NEW x \in Names, tree'[o].is = "file", uploads[x].is = "file"
          PROVE  tree'[o].node # uploads[x].node
      BY <1>1, <2>2, <2>7, <2>8, <2>9, <2>10, <3>2 DEF OneName
    <3> QED BY <1>1, <1>6, <3>1, <3>2 DEF OneName
  <2>21. \A x \in Names : \A m \in 1..Len(node) : IsStaged(x, m)' <=> IsStaged(x, m)
    BY <1>6 DEF IsStaged
  <2>22. \A o \in Files!Paths : \A m \in 1..Len(node) : IsFile(o, m)' => IsFile(o, m)
    BY <2>2, <2>7, <2>8, <2>10 DEF IsFile
  <2>23. ASSUME q.clean PROVE Sound(r, q)'
    <3>1. Sound(r, req[r])
      BY <1>1, <2>15, <2>23 DEF CalmInv, Calm
    <3>2. item.kind = "staged" => IsStaged(req[r].name, q.src)
      BY <2>0, <2>4, <2>5, <2>15 DEF Files!Source, Files!StagedAs, IsStaged
    <3>3. item.kind = "path" => IsFile(item.from, q.src) /\ item.from # p
      BY <2>0, <2>2, <2>4, <2>5, <2>15 DEF Files!Source, IsFile
    <3>4. IsFile(p, q.dst)'
      BY <2>7, <2>8, <2>15 DEF IsFile
    <3>5. PICK w \in RequestType : w = req[r]
      BY <1>1
    <3>6. /\ Sound(r, w) /\ Sane(w) /\ InHand(w, Len(node), Checked) /\ w.pc = "open" /\ w.left # << >>
          /\ q.kind = w.kind /\ q.name = w.name /\ q.left = w.left /\ q.path = w.path /\ q.to = w.to /\ q.flag = w.flag
          /\ item = Head(w.left) /\ item.kind \in Files!Opens /\ OnlyAt(item.to) /\ IsFile(item.to, q.dst)'
          /\ item.kind = "staged" => IsStaged(w.name, q.src)
          /\ item.kind = "path" => IsFile(item.from, q.src) /\ item.from # item.to
      BY <1>1, <1>3, <2>1, <2>11, <2>15, <3>1, <3>2, <3>3, <3>4, <3>5
    <3> QED BY <2>14, <2>15, <3>6, SoundOpened
  <2> QED BY <1>1, <2>7, <2>8, <2>13, <2>14, <2>15, <2>16, <2>17, <2>18, <2>19, <2>20, <2>21, <2>22, <2>23, KeepsCalm
<1> QED BY <1>2, <1>3, <1>5, <1>6, Zenon DEF Files!Open

LEMMA CalmCopy ==
    ASSUME FilesInv, FilesInv', CalmInv, NEW r \in Files!Reqs, Files!Copy(r)
    PROVE  CalmInv'
<1>1. /\ Files!Active(r) /\ req[r] \in RequestType /\ Sane(req[r]) /\ req[r].pc = "write" /\ req[r].left # << >>
      /\ req[r].left \in Seq(Items) /\ OneName /\ InHand(req[r], Len(node), Checked) /\ OpenInode(req[r])
  <2>1. /\ Files!Active(r) /\ req[r] \in RequestType /\ Sane(req[r]) /\ req[r].pc = "write"
        /\ OneName /\ InHand(req[r], Len(node), Checked) /\ OpenInode(req[r])
    BY DEF Files!Copy, Files!At, Files!Active, FilesInv, CalmInv
  <2> QED BY <2>1, RequestFacts DEF InHand
<1>2. CASE Files!Fail(r)
  BY <1>1, <1>2, CalmFailing
<1>3. CASE /\ node' = [node EXCEPT ![req[r].dst] = Files!Bytes(r)]
           /\ req' = [req EXCEPT ![r].pc = "open", ![r].left = Tail(@)]
           /\ UNCHANGED <<tree, uploads, archive>>
  <2>1. PICK item \in Items : item = Head(req[r].left)
    BY <1>1, TailFits
  <2>2. PICK d \in 1..Len(node) : d = req[r].dst /\ \A x \in Names : ~IsStaged(x, d)
    BY <1>1 DEF OpenInode
  <2>3. PICK c : c = Files!Bytes(r)
    OBVIOUS
  <2>4. /\ node'[d] = c /\ \A n \in 1..Len(node) : n # d => node'[n] = node[n]
        /\ Len(node) <= Len(node') /\ WellFormed' /\ OneName'
        /\ \A x \in Names : \A n : IsStaged(x, n)' <=> IsStaged(x, n)
        /\ \A o \in Files!Paths : \A n : IsFile(o, n)' <=> IsFile(o, n)
    <3>1. node' = [node EXCEPT ![d] = c]
      BY <1>3, <2>2, <2>3
    <3> QED BY <1>3, <3>1, Written
  <2>5. PICK q : q = [req[r] EXCEPT !.pc = "open", !.left = Tail(@)]
    OBVIOUS
  <2>6. req' = [req EXCEPT ![r] = q]
    BY <1>3, <2>5, Zenon
  <2>7. q \in RequestType
    <3>1. req'[r] = q /\ req' \in [Files!Reqs -> RequestType]
      BY <2>6 DEF FilesInv
    <3> QED BY <3>1
  <2>8. /\ q.pc = "open" /\ q.kind = req[r].kind /\ q.name = req[r].name /\ q.clean = req[r].clean
        /\ q.left = Tail(req[r].left) /\ q.path = req[r].path /\ q.to = req[r].to /\ q.flag = req[r].flag
        /\ q.src = req[r].src
    BY <1>1, <2>5, Zenon DEF RequestType, FilePlaces
  <2>9. Sane(q) /\ Narrower(q, req[r])
    BY <1>1, <2>7, <2>8, SaneOn DEF Sane
  <2>10. Effect(req[r])
    <3>1. Reaches(req[r], d)
      BY <1>1, <2>2 DEF Reaches
    <3> QED BY <1>3, <2>4, <3>1 DEF Effect
  <2>11. OpenInode(q)' /\ Writing(q)'
    BY <2>8 DEF OpenInode, Writing
  <2>12. ASSUME q.clean PROVE Sound(r, q)'
    <3>1. Sound(r, req[r])
      BY <1>1, <2>8, <2>12 DEF CalmInv, Calm
    <3>2. IsFile(item.to, d) /\ item.to \in Files!Paths
      BY <1>1, <2>1, <2>2, <3>1 DEF Sound, Writing, Items
    <3>3. OnlyAt(item.to)
      <4>1. ASSUME NEW o \in Files!Paths, o # item.to, tree[o].is = "file" PROVE node'[tree[o].node] = node[tree[o].node]
        <5>1. tree[o].node \in 1..Len(node) /\ tree[o].node # d
          BY <1>1, <3>2, <4>1 DEF OneName, IsFile, FilesInv, Trees
        <5> QED BY <2>4, <5>1
      <4>2. ASSUME NEW x \in Names, uploads[x].is = "file" PROVE node'[uploads[x].node] = node[uploads[x].node]
        <5>1. uploads[x].node \in 1..Len(node) /\ uploads[x].node # d
          BY <2>2, <4>2 DEF IsStaged, FilesInv, Stagings
        <5> QED BY <2>4, <5>1
      <4> QED BY <1>3, <4>1, <4>2 DEF OnlyAt
    <3>4. c = IF item.kind \in {"own", "file"} THEN Files!Own(r) ELSE node[req[r].src]
      BY <2>1, <2>3 DEF Files!Bytes, Files!Own
    <3>5. PICK w \in RequestType : w = req[r]
      BY <1>1
    <3>6. /\ Sound(r, w) /\ Sane(w) /\ InHand(w, Len(node), Checked) /\ w.pc = "write" /\ w.left # << >>
          /\ q.kind = w.kind /\ q.name = w.name /\ q.left = Tail(w.left) /\ q.path = w.path /\ q.to = w.to
          /\ q.flag = w.flag /\ q.src = w.src /\ item = Head(w.left)
          /\ node'[w.dst] = c /\ \A n \in 1..Len(node) : n # w.dst => node'[n] = node[n]
          /\ c = IF item.kind \in {"own", "file"} THEN Files!Own(r) ELSE node[w.src]
      BY <1>1, <2>1, <2>2, <2>4, <2>8, <3>1, <3>4, <3>5
    <3> QED BY <1>3, <2>7, <2>8, <3>3, <3>6, SoundWritten
  <2> QED BY <1>1, <2>4, <2>6, <2>7, <2>8, <2>9, <2>10, <2>11, <2>12, KeepsCalm
<1> QED BY <1>2, <1>3, Zenon DEF Files!Copy

-------------------------------------------------------------------------------
(* A rename.                                                                 *)

LEMMA Spread ==
    ASSUME NEW q \in Files!Paths, NEW o \in Files!Paths, Files!IsPrefix(q, o)
    PROVE  o = q \/ (q \in Files!Tops /\ \E x \in Names : o = Files!Under(q, x))
<1>1. CASE Len(o) = 2
  <2>1. q = o \/ q = Files!Front(o)
    BY <1>1, FrontFacts
  <2> QED BY <1>1, <2>1, FrontFacts
<1>2. CASE Len(o) # 2
  <2>1. Len(o) = 1 /\ (Len(q) = 1 \/ Len(q) = 2)
    BY <1>2, PathShape
  <2>2. Len(q) <= Len(o)
    BY PrefixOrder DEF Spots
  <2> QED BY <2>1, <2>2, PrefixOrder DEF Spots
<1> QED BY <1>1, <1>2

\* What a rename puts where.
LEMMA MovedTo ==
    ASSUME NEW p \in Files!Paths, NEW q \in Files!Paths
    PROVE  /\ Files!Moved(p, q)[q] = tree[p]
           /\ \A o \in Files!Paths : ~Files!IsPrefix(q, o) =>
                Files!Moved(p, q)[o] = IF Files!IsPrefix(p, o) THEN Files!Missing ELSE tree[o]
           /\ q \in Files!Tops => \A x \in Names :
                Files!Moved(p, q)[Files!Under(q, x)] = IF p \in Files!Tops THEN tree[Files!Under(p, x)] ELSE Files!Missing
<1>1. p \in Seq(Names) /\ q \in Seq(Names) /\ (Len(p) = 1 \/ Len(p) = 2)
  BY PathShape
<1>2. \A o \in Files!Paths : Files!Moved(p, q)[o] =
        IF Files!IsPrefix(q, o)
        THEN IF p \o SubSeq(o, Len(q) + 1, Len(o)) \in Files!Paths THEN tree[p \o SubSeq(o, Len(q) + 1, Len(o))] ELSE Files!Missing
        ELSE IF Files!IsPrefix(p, o) THEN Files!Missing ELSE tree[o]
  BY Zenon DEF Files!Moved
<1> HIDE DEF Files!Moved
<1>3. Files!Moved(p, q)[q] = tree[p]
  <2>1. SubSeq(q, Len(q) + 1, Len(q)) = << >> /\ p \o << >> = p
    BY <1>1
  <2>2. Files!IsPrefix(q, q)
    BY PrefixOrder DEF Spots
  <2> QED BY <1>2, <2>1, <2>2, Zenon
<1>4. ASSUME q \in Files!Tops, NEW x \in Names
      PROVE  Files!Moved(p, q)[Files!Under(q, x)] = IF p \in Files!Tops THEN tree[Files!Under(p, x)] ELSE Files!Missing
  <2>1. Files!Under(q, x) \in Files!Paths /\ Files!IsPrefix(q, Files!Under(q, x))
    BY <1>4, UnderFacts
  <2>2. Len(q) = 1
    BY <1>4, PathShape
  <2>3. SubSeq(Append(q, x), 2, 2) = <<x>> /\ Len(Append(q, x)) = 2 /\ p \o <<x>> = Append(p, x)
    <3>1. PICK w : w = Append(q, x)
      OBVIOUS
    <3>2. w \in Seq(Names) /\ Len(w) = 2 /\ w[2] = x
      BY <1>1, <2>2, <3>1
    <3>3. SubSeq(w, 2, 2) = <<x>>
      <4>1. PICK s : s = SubSeq(w, 2, 2)
        OBVIOUS
      <4>2. s \in Seq(Names) /\ Len(s) = 1 /\ s[1] = w[2]
        BY <3>2, <4>1
      <4>3. s = <<s[1]>>
        BY <4>2
      <4> QED BY <3>2, <4>1, <4>2, <4>3
    <3> QED BY <1>1, <3>1, <3>2, <3>3
  <2>4. SubSeq(Files!Under(q, x), Len(q) + 1, Len(Files!Under(q, x))) = <<x>>
    BY <2>2, <2>3 DEF Files!Under
  <2>5. Files!Under(p, x) \in Files!Paths <=> p \in Files!Tops
    BY UnderFacts, LastFacts
  <2>6. p \o <<x>> = Files!Under(p, x)
    BY <2>3 DEF Files!Under
  <2> HIDE DEF Files!Under
  <2> QED BY <1>2, <2>1, <2>4, <2>5, <2>6, Zenon
<1> QED BY <1>2, <1>3, <1>4

\* Where what is at o now was before the rename from p to q.
Origin(p, q, o) ==
    IF ~Files!IsPrefix(q, o) THEN o ELSE IF o = q THEN p ELSE Files!Under(p, Files!Last(o))

LEMMA Origins ==
    ASSUME FilesInv, NEW p \in Files!Paths, NEW q \in Files!Paths, tree' = Files!Moved(p, q),
           NEW o \in Files!Paths, tree'[o].is = "file"
    PROVE  /\ Origin(p, q, o) \in Files!Paths /\ tree'[o] = tree[Origin(p, q, o)]
           /\ ~Files!IsPrefix(q, o) => ~Files!IsPrefix(p, o)
           /\ Files!IsPrefix(q, o) => Files!IsPrefix(p, Origin(p, q, o))
           /\ Files!IsPrefix(q, o) /\ o # q =>
                p \in Files!Tops /\ q \in Files!Tops /\ Files!Last(o) \in Names /\ o = Files!Under(q, Files!Last(o))
<1>1. Files!Missing.is # "file"
  BY DEF Files!Missing
<1>2. CASE ~Files!IsPrefix(q, o)
  BY <1>1, <1>2, MovedTo DEF Origin
<1>3. CASE o = q
  BY <1>3, MovedTo, PrefixOrder DEF Origin, Spots
<1>4. CASE Files!IsPrefix(q, o) /\ o # q
  <2>1. PICK x \in Names : q \in Files!Tops /\ o = Files!Under(q, x)
    BY <1>4, Spread
  <2>2. Files!Last(o) = x
    BY <2>1, UnderFacts
  <2>3. p \in Files!Tops /\ tree'[o] = tree[Files!Under(p, x)]
    BY <1>1, <2>1, MovedTo
  <2>4. Files!Under(p, x) \in Files!Paths /\ Files!IsPrefix(p, Files!Under(p, x))
    BY <2>3, UnderFacts
  <2>5. Origin(p, q, o) = Files!Under(p, x)
    BY <1>4, <2>2 DEF Origin
  <2> QED BY <1>4, <2>1, <2>2, <2>3, <2>4, <2>5
<1> QED BY <1>2, <1>3, <1>4

LEMMA OriginsDiffer ==
    ASSUME FilesInv, NEW p \in Files!Paths, NEW q \in Files!Paths, tree' = Files!Moved(p, q),
           NEW o \in Files!Paths, tree'[o].is = "file", NEW w \in Files!Paths, tree'[w].is = "file",
           Origin(p, q, o) = Origin(p, q, w)
    PROVE  o = w
<1>1. CASE ~Files!IsPrefix(q, o)
  <2>1. Origin(p, q, o) = o /\ ~Files!IsPrefix(p, o)
    BY <1>1, Origins DEF Origin
  <2>2. ~Files!IsPrefix(q, w)
    <3>1. Files!IsPrefix(q, w) => Files!IsPrefix(p, Origin(p, q, w))
      BY Origins
    <3> QED BY <2>1, <3>1
  <2> QED BY <2>1, <2>2 DEF Origin
<1>2. CASE Files!IsPrefix(q, o) /\ ~Files!IsPrefix(q, w)
  <2>1. Origin(p, q, w) = w /\ ~Files!IsPrefix(p, w)
    BY <1>2, Origins DEF Origin
  <2> QED BY <1>2, <2>1, Origins
<1>3. CASE Files!IsPrefix(q, o) /\ Files!IsPrefix(q, w)
  <2>1. o # q => /\ p \in Files!Tops /\ q \in Files!Tops /\ Files!Last(o) \in Names
                 /\ o = Files!Under(q, Files!Last(o)) /\ Origin(p, q, o) = Files!Under(p, Files!Last(o))
    <3>1. o # q => Origin(p, q, o) = Files!Under(p, Files!Last(o))
      BY <1>3 DEF Origin
    <3> HIDE DEF Files!Under, Files!Last, Origin
    <3> QED BY <1>3, <3>1, Origins
  <2>2. w # q => /\ p \in Files!Tops /\ q \in Files!Tops /\ Files!Last(w) \in Names
                 /\ w = Files!Under(q, Files!Last(w)) /\ Origin(p, q, w) = Files!Under(p, Files!Last(w))
    <3>1. w # q => Origin(p, q, w) = Files!Under(p, Files!Last(w))
      BY <1>3 DEF Origin
    <3> HIDE DEF Files!Under, Files!Last, Origin
    <3> QED BY <1>3, <3>1, Origins
  <2>3. (o = q => Origin(p, q, o) = p) /\ (w = q => Origin(p, q, w) = p)
    BY <1>3 DEF Origin
  <2>4. p \in Files!Tops => \A x \in Names : Files!Under(p, x) # p
    <3>1. ASSUME p \in Files!Tops, NEW x \in Names PROVE Files!Under(p, x) # p
      <4>1. Len(Files!Under(p, x)) = Len(p) + 1 /\ Len(p) = 1
        BY <3>1, UnderFacts, PathShape
      <4> QED BY <4>1
    <3> QED BY <3>1
  <2>5. p \in Files!Tops => \A x, y \in Names : Files!Under(p, x) = Files!Under(p, y) => x = y
    BY UnderFacts
  <2> HIDE DEF Files!Under, Origin
  <2> QED BY <2>1, <2>2, <2>3, <2>4, <2>5
<1> QED BY <1>1, <1>2, <1>3

LEMMA RenameFits ==
    ASSUME FilesInv, CalmInv, NEW p \in Files!Paths, NEW q \in Files!Paths, tree' = Files!Moved(p, q), uploads' = uploads,
           tree[p].is # "none", Files!HasParent(q), ~Files!IsPrefix(p, q), ~Files!IsPrefix(q, p)
    PROVE  WellFormed' /\ OneName'
<1>1. WellFormed /\ OneName
  BY DEF CalmInv
<1>2. ASSUME NEW c \in Files!Paths, Len(c) = 2, tree'[c].is # "none" PROVE tree'[Files!Front(c)].is = "dir"
  <2>1. /\ Files!Front(c) \in Files!Paths /\ Files!Front(c) \in Files!Tops /\ Files!Last(c) \in Names
        /\ c = Files!Under(Files!Front(c), Files!Last(c)) /\ Files!IsPrefix(Files!Front(c), c)
        /\ \A u \in Files!Paths : Files!IsPrefix(u, c) => u = c \/ u = Files!Front(c)
    BY <1>2, FrontFacts
  <2>2. PICK f \in Files!Tops : f = Files!Front(c) /\ f \in Files!Paths
    BY <2>1
  <2>3. PICK x \in Names : x = Files!Last(c) /\ c = Files!Under(f, x)
    BY <2>1, <2>2
  <2>4. Files!IsPrefix(f, c) /\ \A u \in Files!Paths : Files!IsPrefix(u, c) => u = c \/ u = f
    BY <2>1, <2>2
  <2>5. \A u \in Files!Paths : Files!IsPrefix(u, f) => u = f
    <3>1. Len(f) = 1
      BY PathShape
    <3>2. ASSUME NEW u \in Files!Paths, Files!IsPrefix(u, f) PROVE u = f
      <4>1. f = u \/ (u \in Files!Tops /\ \E y \in Names : f = Files!Under(u, y))
        BY <2>2, <3>2, Spread
      <4>2. u \in Files!Tops => Len(u) = 1 /\ \A y \in Names : Len(Files!Under(u, y)) = Len(u) + 1
        BY UnderFacts, PathShape
      <4> HIDE DEF Files!Under
      <4> QED BY <3>1, <4>1, <4>2
    <3> QED BY <3>2
  <2>6. Files!Missing.is = "none"
    BY DEF Files!Missing
  <2>7. CASE q = c
    <3>1. tree[f].is = "dir"
      BY <1>2, <2>2, <2>7 DEF Files!HasParent
    <3>2. ~Files!IsPrefix(q, f) /\ ~Files!IsPrefix(p, f)
      BY <1>2, <2>1, <2>2, <2>4, <2>5, <2>7, PathShape
    <3> QED BY <2>2, <3>1, <3>2, MovedTo
  <2>8. CASE q = f
    <3>1. tree'[c] = IF p \in Files!Tops THEN tree[Files!Under(p, x)] ELSE Files!Missing
      BY <2>3, <2>8, MovedTo
    <3>2. p \in Files!Tops /\ tree[Files!Under(p, x)].is # "none"
      BY <1>2, <2>6, <3>1
    <3>3. Files!Under(p, x) \in Files!Paths /\ Len(Files!Under(p, x)) = 2 /\ Files!Front(Files!Under(p, x)) = p
      BY <3>2, UnderFacts, PathShape
    <3>4. tree[p].is = "dir"
      BY <1>1, <3>2, <3>3 DEF WellFormed, Formed
    <3> QED BY <2>2, <2>8, <3>4, MovedTo
  <2>9. CASE q # c /\ q # f
    <3>1. ~Files!IsPrefix(q, c) /\ ~Files!IsPrefix(q, f)
      BY <2>4, <2>5, <2>9
    <3>2. ~Files!IsPrefix(p, c) /\ tree'[c] = tree[c]
      BY <1>2, <2>6, <3>1, MovedTo
    <3>3. p # f
      BY <2>4, <3>2
    <3>4. ~Files!IsPrefix(p, f)
      BY <2>5, <3>3
    <3>5. tree'[f] = tree[f]
      BY <2>2, <3>1, <3>4, MovedTo
    <3> QED BY <1>1, <1>2, <2>2, <3>2, <3>5 DEF WellFormed, Formed
  <2> QED BY <2>7, <2>8, <2>9
<1>3. WellFormed'
  BY <1>2 DEF WellFormed, Formed
<1>4. ASSUME NEW o \in Files!Paths, NEW w \in Files!Paths, tree'[o].is = "file", tree'[w].is = "file", tree'[o].node = tree'[w].node
      PROVE  o = w
  <2>1. PICK a \in Files!Paths : a = Origin(p, q, o) /\ tree'[o] = tree[a]
    BY <1>4, Origins
  <2>2. PICK b \in Files!Paths : b = Origin(p, q, w) /\ tree'[w] = tree[b]
    BY <1>4, Origins
  <2>3. a = b
    BY <1>1, <1>4, <2>1, <2>2 DEF OneName
  <2> QED BY <1>4, <2>1, <2>2, <2>3, OriginsDiffer
<1>5. ASSUME NEW o \in Files!Paths, NEW x \in Names, tree'[o].is = "file", uploads'[x].is = "file"
      PROVE  tree'[o].node # uploads'[x].node
  <2>1. PICK a \in Files!Paths : a = Origin(p, q, o) /\ tree'[o] = tree[a]
    BY <1>5, Origins
  <2> QED BY <1>1, <1>5, <2>1 DEF OneName
<1>6. OneName'
  BY <1>1, <1>4, <1>5 DEF OneName
<1> QED BY <1>3, <1>6

LEMMA RenameApart ==
    ASSUME FilesInv, CalmInv, NEW p \in Files!Paths, NEW q \in Files!Paths, p # q,
           tree[p].is # "none", Files!HasParent(q),
           tree[p].is = "dir" => ~Files!IsPrefix(p, q), tree[q].is # "dir"
    PROVE  ~Files!IsPrefix(p, q) /\ ~Files!IsPrefix(q, p)
<1>1. \A u, w \in Files!Paths : u # w /\ Files!IsPrefix(u, w) => Len(w) = 2 /\ u = Files!Front(w)
  <2>1. ASSUME NEW u \in Files!Paths, NEW w \in Files!Paths, u # w, Files!IsPrefix(u, w)
        PROVE  Len(w) = 2 /\ u = Files!Front(w)
    <3>1. u \in Files!Tops /\ \E x \in Names : w = Files!Under(u, x)
      BY <2>1, Spread
    <3> QED BY <3>1, UnderFacts, PathShape
  <2> QED BY <2>1
<1>2. ASSUME Files!IsPrefix(p, q) PROVE FALSE
  BY <1>1, <1>2 DEF Files!HasParent
<1>3. ASSUME Files!IsPrefix(q, p) PROVE FALSE
  BY <1>1, <1>3 DEF CalmInv, WellFormed, Formed
<1> QED BY <1>2, <1>3

\* What a rename that does not fail has been given.
LEMMA RenameFacts ==
    ASSUME FilesInv, CalmInv, NEW r \in Files!Reqs, Files!Rename(r), ~Files!Fail(r)
    PROVE  /\ Files!Active(r) /\ req[r].kind = "move" /\ req[r] \in RequestType /\ Sane(req[r]) /\ req[r].pc = "rename"
           /\ req[r].to \in Files!Paths /\ req[r].path \in Files!Paths /\ tree[req[r].path].is # "none"
           /\ UNCHANGED <<uploads, node, archive>>
           /\ \E target \in Files!Paths :
                /\ req' = [req EXCEPT ![r].pc = "done", ![r].to = target]
                /\ Files!IsPrefix(req[r].to, target)
                /\ \/ target = req[r].path /\ tree' = tree
                   \/ /\ target # req[r].path /\ tree' = Files!Moved(req[r].path, target) /\ Files!HasParent(target)
                      /\ ~Files!IsPrefix(req[r].path, target) /\ ~Files!IsPrefix(target, req[r].path)
<1>1. /\ Files!Active(r) /\ req[r].kind = "move" /\ req[r] \in RequestType
      /\ Sane(req[r]) /\ req[r].pc = "rename" /\ req[r].to \in Files!Paths /\ req[r].path \in Files!Paths
  <2>1. /\ Files!Active(r) /\ req[r] \in RequestType
        /\ Sane(req[r]) /\ req[r].pc = "rename" /\ InHand(req[r], Len(node), Checked)
    BY DEF Files!Rename, Files!At, Files!Active, FilesInv, CalmInv
  <2> QED BY <2>1 DEF Sane, InHand
<1>2. PICK p \in Files!Paths : p = req[r].path
  BY <1>1
<1>3. PICK q \in Files!Paths : q = req[r].to
  BY <1>1
<1>4. PICK target : target = IF tree[q].is = "dir" /\ p # q THEN Files!Under(q, Files!Last(p)) ELSE q
  OBVIOUS
<1>5. /\ target \in Files!Paths /\ UNCHANGED <<uploads, node, archive>>
      /\ tree' = IF p = target THEN tree ELSE Files!Moved(p, target)
      /\ req' = [req EXCEPT ![r].pc = "done", ![r].to = target]
      /\ ~(\/ tree[p].is = "none" \/ ~Files!HasParent(target)
           \/ tree[q].is = "dir" /\ (p = q \/ tree[target].is # "none")
           \/ tree[p].is = "dir" /\ (tree[q].is = "file" \/ Files!IsPrefix(p, target)))
  BY <1>2, <1>3, <1>4, Zenon DEF Files!Rename
<1>6. Files!IsPrefix(q, target)
  <2>1. CASE tree[q].is = "dir" /\ p # q
    <3>1. q \in Files!Tops /\ Files!Last(p) \in Names /\ target = Files!Under(q, Files!Last(p))
      BY <1>4, <1>5, <2>1, LastFacts
    <3> QED BY <3>1, UnderFacts
  <2>2. CASE ~(tree[q].is = "dir" /\ p # q)
    BY <1>4, <2>2, PrefixOrder DEF Spots
  <2> QED BY <2>1, <2>2
<1>7. tree[target].is # "dir"
  BY <1>4, <1>5
<1>8. p # target => ~Files!IsPrefix(p, target) /\ ~Files!IsPrefix(target, p)
  BY <1>5, <1>7, RenameApart
<1> QED BY <1>1, <1>2, <1>3, <1>5, <1>6, <1>8

LEMMA CalmRename ==
    ASSUME FilesInv, FilesInv', CalmInv, NEW r \in Files!Reqs, Files!Rename(r)
    PROVE  CalmInv'
<1>1. CASE Files!Fail(r)
  <2>1. Files!Active(r)
    BY DEF Files!Rename, Files!At, Files!Active
  <2> QED BY <1>1, <2>1, CalmFailing
<1>2. ASSUME ~Files!Fail(r) PROVE CalmInv'
  <2>1. /\ Files!Active(r) /\ req[r].kind = "move" /\ req[r] \in RequestType /\ Sane(req[r]) /\ req[r].pc = "rename"
        /\ req[r].to \in Files!Paths /\ req[r].path \in Files!Paths /\ tree[req[r].path].is # "none"
        /\ UNCHANGED <<uploads, node, archive>>
    BY <1>2, RenameFacts, Zenon
  <2>2. PICK target \in Files!Paths :
              /\ req' = [req EXCEPT ![r].pc = "done", ![r].to = target]
              /\ Files!IsPrefix(req[r].to, target)
              /\ \/ target = req[r].path /\ tree' = tree
                 \/ /\ target # req[r].path /\ tree' = Files!Moved(req[r].path, target) /\ Files!HasParent(target)
                    /\ ~Files!IsPrefix(req[r].path, target) /\ ~Files!IsPrefix(target, req[r].path)
    BY <1>2, RenameFacts, Zenon
  <2>3. PICK q : q = [req[r] EXCEPT !.pc = "done", !.to = target]
    OBVIOUS
  <2>4. req' = [req EXCEPT ![r] = q]
    BY <2>2, <2>3, Zenon
  <2>5. q \in RequestType
    <3>1. req'[r] = q /\ req' \in [Files!Reqs -> RequestType]
      BY <2>4 DEF FilesInv
    <3> QED BY <3>1
  <2>6. /\ q.pc = "done" /\ q.kind = "move" /\ q.name = req[r].name /\ q.clean = req[r].clean
        /\ q.left = req[r].left /\ q.path = req[r].path /\ q.to = target
    BY <2>1, <2>3, Zenon DEF RequestType, FilePlaces
  <2>7. Narrower(q, req[r]) /\ target \in Below(req[r]) /\ target \in Below(q)
    BY <2>1, <2>2, <2>5, <2>6, NarrowerTo
  <2>8. PICK p \in Files!Paths : p = req[r].path /\ p \in Below(req[r])
    BY <2>1, BelowFacts
  <2>9. WellFormed' /\ OneName'
    <3>1. CASE target = p
      <4>1. tree' = tree /\ uploads' = uploads
        BY <2>1, <2>2, <2>8, <3>1, PrefixOrder DEF Spots
      <4> QED BY <4>1 DEF CalmInv, WellFormed, Formed, OneName
    <3>2. CASE target # p
      BY <2>1, <2>2, <2>8, <3>2, RenameFits
    <3> QED BY <3>1, <3>2
  <2>10. Effect(req[r])
    <3>1. ASSUME NEW o \in Files!Paths, o \notin Around(req[r]) PROVE tree'[o] = tree[o]
      <4>1. ~Files!IsPrefix(p, o) /\ ~Files!IsPrefix(target, o)
        <5>1. ASSUME NEW w \in Below(req[r]), Files!IsPrefix(w, o) PROVE FALSE
          <6>1. PICK u \in Files!Touched(req[r]) : Files!IsPrefix(u, w) /\ w \in Files!Paths
            BY DEF Below
          <6>2. u \in Spots /\ w \in Spots /\ o \in Spots
            BY <2>1, <6>1, RequestFacts DEF Spots
          <6>3. Files!IsPrefix(u, o)
            BY <5>1, <6>1, <6>2, PrefixOrder
          <6> QED BY <3>1, <6>1, <6>3 DEF Around, Files!Near
        <5> QED BY <2>7, <2>8, <5>1
      <4> QED BY <2>2, <2>8, <4>1, MovedTo
    <3> QED BY <2>1, <3>1 DEF Effect
  <2>11. Sane(q)
    <3>1. \A k \in 1..Len(q.left) : q.left[k].to \in Below(q)
      <4>1. req[r].left = << >>
        BY <2>1 DEF Sane
      <4> QED BY <2>6, <4>1
    <3> QED BY <2>1, <2>2, <2>6, <3>1 DEF Sane
  <2>12. OpenInode(q)' /\ Writing(q)'
    BY <2>6 DEF OpenInode, Writing
  <2>13. \A x \in Names : \A n \in 1..Len(node) : IsStaged(x, n)' <=> IsStaged(x, n)
    BY <2>1 DEF IsStaged
  <2>14. Len(node) <= Len(node')
    BY <2>1 DEF FilesInv
  <2> QED BY <2>1, <2>4, <2>5, <2>6, <2>7, <2>9, <2>10, <2>11, <2>12, <2>13, <2>14, KeepsCalm
<1> QED BY <1>1, <1>2

-------------------------------------------------------------------------------
(* A new request.                                                            *)

SameWork(q, p) ==
    /\ q.pc = p.pc /\ q.kind = p.kind /\ q.name = p.name /\ q.path = p.path /\ q.to = p.to
    /\ q.left = p.left /\ q.dst = p.dst

LEMMA SameWorkFacts ==
    ASSUME NEW q, NEW p, SameWork(q, p)
    PROVE  /\ Below(q) = Below(p) /\ Around(q) = Around(p)
           /\ \A w : (Files!Conflict(q, w) <=> Files!Conflict(p, w)) /\ (Files!Conflict(w, q) <=> Files!Conflict(w, p))
           /\ Sane(q) <=> Sane(p)
           /\ OpenInode(q) <=> OpenInode(p)
<1>1. Files!Touched(q) = Files!Touched(p) /\ Below(q) = Below(p) /\ Around(q) = Around(p)
  BY DEF SameWork, Files!Touched, Below, Around
<1>2. \A w : (Files!Conflict(q, w) <=> Files!Conflict(p, w)) /\ (Files!Conflict(w, q) <=> Files!Conflict(w, p))
  BY <1>1, Zenon DEF SameWork, Files!Conflict
<1>3. Sane(q) <=> Sane(p)
  BY <1>1, Zenon DEF SameWork, Sane
<1>4. OpenInode(q) <=> OpenInode(p)
  BY Zenon DEF SameWork, OpenInode
<1> QED BY <1>1, <1>2, <1>3, <1>4

\* What a request starts with, and what becomes of the others.
RequestStep(r, n, met) ==
    /\ req[r].pc = "new" /\ UNCHANGED <<tree, uploads, node, archive>>
    /\ req'[r] = n /\ n \in RequestType /\ n.left = << >> /\ Sane(n)
    /\ n.pc \in {"stage", "unpack", "check"} /\ (n.kind = "upload" => n.pc = "stage")
    /\ met = {s \in Files!Reqs : Files!Active(s) /\ Files!Conflict(n, req[s])}
    /\ n.clean => met = {} /\ \A s \in Files!Reqs : Files!Active(s) => req[s].clean
    /\ \A s \in Files!Reqs : s # r =>
         /\ req'[s] \in RequestType /\ SameWork(req'[s], req[s])
         /\ req'[s].clean => s \notin met /\ req'[s] = req[s]

LEMMA RequestGoes ==
    ASSUME FilesInv, Files!Request
    PROVE  \E r \in Files!Reqs : \E n, met : RequestStep(r, n, met)
<1> DEFINE AskedFor(kind, name, path, to, flag) ==
        [Files!Fresh EXCEPT !.kind = kind, !.pc = Files!FirstStep(kind, flag), !.name = name,
                      !.path = path, !.to = to, !.flag = flag]
           AskedBy(r, m) ==
        LET met == {s \in Files!Reqs : Files!Active(s) /\ Files!Conflict(m, req[s])}
            alone == met = {} /\ \A s \in Files!Reqs : Files!Active(s) => req[s].clean
        IN req' = [s \in Files!Reqs |-> IF s = r THEN [m EXCEPT !.clean = alone]
                                  ELSE IF s \in met THEN [req[s] EXCEPT !.clean = FALSE]
                                  ELSE req[s]]
<1>1. UNCHANGED <<tree, uploads, node, archive>>
  BY DEF Files!Request
<1>2. PICK r \in Files!Reqs :
        /\ req[r].pc = "new"
        /\ \E kind \in Files!Kinds, name \in Names \cup {None},
              path \in Files!Paths \cup {Files!Root}, to \in Files!Paths \cup {Files!Root}, flag \in BOOLEAN :
             /\ Files!Arguments(kind, name, path, to, flag)
             /\ AskedBy(r, AskedFor(kind, name, path, to, flag))
  BY Zenon DEF Files!Request
<1>3. PICK kind \in Files!Kinds, name \in Names \cup {None},
           path \in Files!Paths \cup {Files!Root}, to \in Files!Paths \cup {Files!Root}, flag \in BOOLEAN :
        /\ Files!Arguments(kind, name, path, to, flag)
        /\ AskedBy(r, AskedFor(kind, name, path, to, flag))
  BY <1>2, Zenon
<1>4. PICK m : m = AskedFor(kind, name, path, to, flag)
  OBVIOUS
<1>5. PICK met : met = {s \in Files!Reqs : Files!Active(s) /\ Files!Conflict(m, req[s])}
  OBVIOUS
<1>6. PICK b \in BOOLEAN : b = (met = {} /\ \A s \in Files!Reqs : Files!Active(s) => req[s].clean)
  OBVIOUS
<1>7. req' = [s \in Files!Reqs |-> IF s = r THEN [m EXCEPT !.clean = b]
                             ELSE IF s \in met THEN [req[s] EXCEPT !.clean = FALSE]
                             ELSE req[s]]
  BY <1>3, <1>4, <1>5, <1>6, Zenon
<1>8. /\ Files!FirstStep(kind, flag) \in {"stage", "unpack", "check"}
      /\ (kind = "upload" => Files!FirstStep(kind, flag) = "stage")
  BY DEF Files!FirstStep
<1>9. /\ m \in RequestType /\ m.kind = kind /\ m.pc = Files!FirstStep(kind, flag) /\ m.name = name
      /\ m.left = << >> /\ m.path = path /\ m.to = to
  <2>1. << >> \in Seq(Items) /\ 0 \in Nat /\ {} \in SUBSET (0..MaxFileRequests)
    OBVIOUS
  <2>2. /\ Files!Root \in Files!Paths \cup {Files!Root}
        /\ None \in Files!Kinds \cup {None} /\ None \in Names \cup {None}
        /\ kind \in Files!Kinds \cup {None}
    OBVIOUS
  <2>3. Files!Fresh \in RequestType /\ Files!Fresh.left = << >>
    BY <2>1, <2>2, Zenon DEF Files!Fresh, RequestType, FilePlaces, Files!Root
  <2>4. Files!FirstStep(kind, flag) \in FilePlaces
    BY <1>8 DEF FilePlaces
  <2> HIDE DEF Files!FirstStep, Files!Fresh
  <2> QED BY <1>4, <2>2, <2>3, <2>4, Zenon DEF RequestType
<1>10. PICK n : n = [m EXCEPT !.clean = b]
  OBVIOUS
<1>11. /\ n \in RequestType /\ n.kind = kind /\ n.pc = Files!FirstStep(kind, flag) /\ n.name = name
       /\ n.left = << >> /\ n.path = path /\ n.to = to /\ n.clean = b
  BY <1>6, <1>9, <1>10, Zenon DEF RequestType
<1> HIDE DEF AskedFor, AskedBy, Files!FirstStep
<1>12. req'[r] = n
  BY <1>7, <1>10
<1>13. met = {s \in Files!Reqs : Files!Active(s) /\ Files!Conflict(n, req[s])}
  <2>1. \A w : Files!Conflict(n, w) <=> Files!Conflict(m, w)
    <3>1. Files!Touched(n) = Files!Touched(m) /\ n.name = m.name
      BY <1>9, <1>11 DEF Files!Touched
    <3> QED BY <3>1, Zenon DEF Files!Conflict
  <2> QED BY <1>5, <2>1
<1>14. ASSUME NEW s \in Files!Reqs, s # r
       PROVE  /\ req'[s] \in RequestType /\ SameWork(req'[s], req[s])
              /\ req'[s].clean => s \notin met /\ req'[s] = req[s]
  <2>1. req[s] \in RequestType
    BY DEF FilesInv
  <2>2. PICK c : c = [req[s] EXCEPT !.clean = FALSE]
    OBVIOUS
  <2>3. c \in RequestType /\ SameWork(c, req[s]) /\ ~c.clean
    BY <2>1, <2>2, Zenon DEF RequestType, SameWork
  <2>4. req'[s] = IF s \in met THEN c ELSE req[s]
    BY <1>7, <1>14, <2>2
  <2>5. SameWork(req[s], req[s])
    BY DEF SameWork
  <2> QED BY <2>1, <2>3, <2>4, <2>5
<1>15. Sane(n)
  <2>1. /\ name # None => kind \in {"upload", "import"}
        /\ kind \in {"upload", "import", "write", "copy", "move"} => to \in Files!Paths
        /\ kind = "mkdir" => path \in Files!Tops
    BY <1>3 DEF Files!Arguments
  <2> QED BY <1>8, <1>11, <2>1 DEF Sane
<1>16. n.clean => met = {} /\ \A s \in Files!Reqs : Files!Active(s) => req[s].clean
  BY <1>6, <1>11
<1> QED BY <1>1, <1>2, <1>8, <1>11, <1>12, <1>13, <1>14, <1>15, <1>16 DEF RequestStep

LEMMA CalmRequest ==
    ASSUME FilesInv, FilesInv', CalmInv, Files!Request
    PROVE  CalmInv'
<1>1. PICK r \in Files!Reqs : \E n, met : RequestStep(r, n, met)
  BY RequestGoes
<1>2. PICK n, met : RequestStep(r, n, met)
  BY <1>1
<1>3. /\ req[r].pc = "new" /\ UNCHANGED <<tree, uploads, node, archive>>
      /\ req'[r] = n /\ n \in RequestType /\ n.left = << >> /\ Sane(n)
      /\ n.pc \in {"stage", "unpack", "check"} /\ (n.kind = "upload" => n.pc = "stage")
      /\ met = {s \in Files!Reqs : Files!Active(s) /\ Files!Conflict(n, req[s])}
      /\ n.clean => met = {} /\ \A s \in Files!Reqs : Files!Active(s) => req[s].clean
  BY <1>2 DEF RequestStep
<1>4. \A s \in Files!Reqs : s # r =>
         /\ req'[s] \in RequestType /\ SameWork(req'[s], req[s])
         /\ req'[s].clean => s \notin met /\ req'[s] = req[s]
  BY <1>2 DEF RequestStep
<1>5. \A s \in Files!Reqs : s # r => (Files!Active(s)' <=> Files!Active(s))
  BY <1>4 DEF SameWork, Files!Active
<1>6. \A s \in Files!Reqs : s # r /\ Calm(s)' => Calm(s) /\ s \notin met /\ req'[s] = req[s]
  BY <1>4, <1>5 DEF Calm
<1>7. WellFormed' /\ OneName'
  BY <1>3 DEF CalmInv, WellFormed, Formed, OneName
<1>8. ASSUME NEW x \in Files!Reqs, NEW y \in Files!Reqs, x # y, Calm(x)', Files!Active(y)'
      PROVE  ~Files!Conflict(req[x], req[y])'
  <2>1. CASE x = r
    <3>1. y \notin met /\ Files!Active(y)
      BY <1>3, <1>5, <1>8, <2>1 DEF Calm
    <3>2. ~Files!Conflict(n, req[y])
      BY <1>3, <3>1
    <3>3. SameWork(req'[y], req[y])
      BY <1>4, <1>8, <2>1
    <3>4. ~Files!Conflict(n, req'[y])
      BY <3>2, <3>3, SameWorkFacts
    <3> QED BY <1>3, <2>1, <3>4
  <2>2. CASE y = r
    <3>1. Calm(x) /\ x \notin met /\ req'[x] = req[x]
      BY <1>6, <1>8, <2>2
    <3>2. ~Files!Conflict(n, req[x])
      BY <1>3, <3>1 DEF Calm
    <3>3. ~Files!Conflict(req[x], n)
      BY <1>3, <3>2, ConflictIsMutual DEF FilesInv
    <3> QED BY <1>3, <2>2, <3>1, <3>3
  <2>3. CASE x # r /\ y # r
    <3>1. Calm(x) /\ req'[x] = req[x] /\ Files!Active(y)
      BY <1>5, <1>6, <1>8, <2>3
    <3>2. ~Files!Conflict(req[x], req[y])
      BY <1>8, <3>1 DEF CalmInv, AloneInv
    <3>3. SameWork(req'[y], req[y])
      BY <1>4, <2>3
    <3>4. ~Files!Conflict(req[x], req'[y])
      BY <3>2, <3>3, SameWorkFacts
    <3> QED BY <3>1, <3>4
  <2> QED BY <2>1, <2>2, <2>3
<1>9. AloneInv'
  BY <1>8 DEF AloneInv
<1>10. ASSUME NEW x \in Files!Reqs, NEW y \in Files!Reqs, x # y, Calm(x)', req'[y].pc = "write",
              NEW o \in Below(req[x])', IsFile(o, req[y].dst)'
       PROVE  FALSE
  <2>1. y # r /\ req[y].pc = "write" /\ req'[y].dst = req[y].dst
    BY <1>3, <1>4, <1>10 DEF SameWork
  <2>2. IsFile(o, req[y].dst) /\ o \in Files!Paths
    BY <1>3, <1>10, <2>1 DEF IsFile, Below
  <2>3. CASE x # r
    BY <1>6, <1>10, <2>1, <2>2, <2>3 DEF CalmInv, HeldInv
  <2>4. CASE x = r
    <3>1. Files!Active(y) /\ Calm(y) /\ ~Files!Conflict(n, req[y])
      BY <1>3, <1>10, <2>1, <2>4 DEF Calm, Files!Active
    <3>2. PICK w \in RequestType : w = req[y]
      BY DEF FilesInv
    <3>3. Writing(w) /\ Sane(w) /\ InHand(w, Len(node), Checked) /\ w.pc = "write"
      BY <2>1, <3>1, <3>2 DEF CalmInv, Sound, FilesInv
    <3>4. w.left \in Seq(Items) /\ w.left # << >>
      BY <3>2, <3>3, RequestFacts DEF InHand
    <3>5. 1 \in 1..Len(w.left) /\ Head(w.left) = w.left[1]
      BY <3>4
    <3>6. PICK p \in Below(w) : p = Head(w.left).to /\ p \in Files!Paths
      BY <3>3, <3>5 DEF Sane, Below
    <3>7. IsFile(p, w.dst)
      BY <3>3, <3>6 DEF Writing
    <3>8. o = p
      BY <2>2, <3>2, <3>6, <3>7 DEF CalmInv, OneName, IsFile
    <3>9. o \in Around(n)
      BY <1>3, <1>10, <2>4, AroundFacts
    <3>10. ~Files!Conflict(w, n)
      BY <1>3, <3>1, <3>2, ConflictIsMutual
    <3> QED BY <1>3, <3>6, <3>8, <3>9, <3>10, ApartPaths
  <2> QED BY <2>3, <2>4
<1>11. HeldInv'
  BY <1>10 DEF HeldInv
<1>12. ASSUME NEW s \in Files!Reqs PROVE Sane(req[s])' /\ OpenInode(req[s])'
  <2>1. CASE s = r
    BY <1>3, <2>1 DEF OpenInode
  <2>2. CASE s # r
    <3>1. Sane(req[s]) /\ OpenInode(req[s])
      BY DEF CalmInv
    <3>2. Sane(req'[s]) /\ OpenInode(req'[s])
      BY <1>4, <2>2, <3>1, SameWorkFacts
    <3> QED BY <1>3, <3>2 DEF Sane, OpenInode, Below, IsStaged
  <2> QED BY <2>1, <2>2
<1>13. ASSUME NEW s \in Files!Reqs, Calm(s)' PROVE Sound(s, req[s])'
  <2>1. CASE s = r
    <3>1. Sound(r, n)'
      BY <1>3, SoundSoFar
    <3> QED BY <1>3, <2>1, <3>1
  <2>2. CASE s # r
    <3>1. Sound(s, req[s]) /\ req'[s] = req[s]
      BY <1>6, <1>13, <2>2 DEF CalmInv
    <3>2. PICK q : q = req[s]
      OBVIOUS
    <3>3. Sound(s, q)
      BY <3>1, <3>2
    <3>4. Sound(s, q)'
      BY <1>3, <3>3, SoundSame
    <3> QED BY <3>1, <3>2, <3>4
  <2> QED BY <2>1, <2>2
<1> QED BY <1>7, <1>9, <1>11, <1>12, <1>13 DEF CalmInv

-------------------------------------------------------------------------------
(* Requests whose next path leads over a link.                               *)

LEMMA KeepsGoes ==
    ASSUME FilesInv, NEW r \in Files!Reqs, req[r].pc # "new",
           NEW q \in RequestType, Files!Goes(r, q), q.kind = req[r].kind, q.pc # "new",
           InHand(q, Len(node'), Checked), UNCHANGED <<uploads, archive>>,
           node' \in Seq(Contents), Len(node) <= Len(node'), tree' \in Trees(Len(node')),
           \A n \in 1..Len(node') : \A s \in node'[n].from : \E m \in 1..Len(node) : s \in node[m].from
    PROVE  FilesInv'
<1>1. ASSUME NEW p \in RequestType
      PROVE  [p EXCEPT !.clean = FALSE] \in RequestType /\ SameHand([p EXCEPT !.clean = FALSE], p)
  <2>1. PICK w : w = [p EXCEPT !.clean = FALSE]
    OBVIOUS
  <2>2. /\ w \in RequestType /\ w.kind = p.kind /\ w.pc = p.pc /\ w.name = p.name /\ w.left = p.left
        /\ w.src = p.src /\ w.path = p.path /\ w.to = p.to
    BY <2>1, Zenon DEF RequestType
  <2> QED BY <2>1, <2>2 DEF SameHand
<1>2. PICK w : w = [q EXCEPT !.clean = FALSE]
  OBVIOUS
<1>3. w \in RequestType /\ SameHand(w, q)
  BY <1>1, <1>2
<1>4. req' = [s \in Files!Reqs |-> IF s = r THEN w
                                  ELSE IF Files!Active(s) THEN [req[s] EXCEPT !.clean = FALSE] ELSE req[s]]
  BY <1>2, Zenon DEF Files!Goes
<1>5. \A s \in Files!Reqs : req[s] \in RequestType
  BY DEF FilesInv
<1>6. ASSUME NEW s \in Files!Reqs, s # r PROVE req'[s] \in RequestType /\ SameHand(req'[s], req[s])
  <2>1. req'[s] = [req[s] EXCEPT !.clean = FALSE] \/ req'[s] = req[s]
    BY <1>4, <1>6
  <2>2. SameHand(req[s], req[s])
    BY DEF SameHand
  <2> QED BY <1>1, <1>5, <2>1, <2>2
<1>7. req'[r] = w /\ req' \in [Files!Reqs -> RequestType]
  <2>1. \A s \in Files!Reqs : req'[s] \in RequestType
    BY <1>3, <1>4, <1>6
  <2> QED BY <1>4, <2>1
<1>8. w.kind = req[r].kind /\ w.pc # "new" /\ InHand(w, Len(node'), Checked)
  BY <1>3 DEF SameHand, InHand
<1>9. Checked' = Checked
  BY DEF Checked, Files!Refused, Files!TooMany
<1>10. uploads' \in Stagings(Len(node')) /\ archive' \in Archives \cup {None}
  BY MoreNodes DEF FilesInv
<1> QED BY <1>3, <1>6, <1>7, <1>8, <1>9, <1>10, KeepsAll

\* What may be made and removed there, and what is there to do next.
LEMMA MadeFits ==
    ASSUME FilesInv
    PROVE  /\ tree' = tree => tree' \in Trees(Len(node)) /\ Remade
           /\ tree' \in Files!Made(Files!Directory) => tree' \in Trees(Len(node)) /\ Remade
           /\ tree' \in Files!Made(Files!Link) /\ Checked => tree' \in Trees(Len(node)) /\ Remade
           /\ tree' \in Files!Unmade => tree' \in Trees(Len(node)) /\ Remade
<1>1. tree \in Trees(Len(node)) /\ Len(node) \in Nat
  BY DEF FilesInv
<1>2. \A o : /\ [tree EXCEPT ![o] = Files!Directory] \in Trees(Len(node))
             /\ [tree EXCEPT ![o] = Files!Missing] \in Trees(Len(node))
  BY <1>1, DirectoryFacts
<1>3. /\ Files!Link \in Entries /\ Files!Link.is = "link"
      /\ Files!Directory \in Entries /\ Files!Directory.is = "dir"
  BY DirectoryFacts DEF Files!Link, Entries
<1>4. ASSUME Checked, NEW o PROVE [tree EXCEPT ![o] = Files!Link] \in Trees(Len(node))
  BY <1>1, <1>3, <1>4, TreeFacts
<1>5. ASSUME NEW e, tree' \in Files!Made(e)
      PROVE  tree' = tree \/ \E o \in Files!Paths : tree[o].is = "none" /\ Files!HasParent(o) /\ tree' = [tree EXCEPT ![o] = e]
  BY <1>5 DEF Files!Made
<1>6. ASSUME NEW e \in Entries, e.is \in {"dir", "link"}, tree' \in Files!Made(e) PROVE Remade
  BY <1>5, <1>6, Zenon DEF Remade
<1>7. ASSUME tree' \in Files!Unmade
      PROVE  tree' = tree \/ \E o \in Files!Paths : Files!Children(o) = {} /\ tree' = [tree EXCEPT ![o] = Files!Missing]
  BY <1>7 DEF Files!Unmade
<1>8. ASSUME tree' \in Files!Made(Files!Directory) PROVE tree' \in Trees(Len(node)) /\ Remade
  <2>1. tree' \in Trees(Len(node))
    BY <1>1, <1>2, <1>5, <1>8, Zenon
  <2>2. Remade
    BY <1>3, <1>6, <1>8
  <2> QED BY <2>1, <2>2
<1>9. tree' \in Files!Made(Files!Link) /\ Checked => tree' \in Trees(Len(node)) /\ Remade
  BY <1>1, <1>3, <1>4, <1>5, <1>6
<1>10. tree' \in Files!Unmade => tree' \in Trees(Len(node)) /\ Remade
  BY <1>1, <1>2, <1>7, Zenon DEF Remade
<1> QED BY <1>1, <1>8, <1>9, <1>10 DEF Remade

LEMMA NextFits ==
    ASSUME FilesInv, NEW r \in Files!Reqs, req[r].pc = "check", NEW p \in RequestType,
           p.kind = req[r].kind, p.name = req[r].name,
           p.pc \in {"open", "rename", "read", "done", "unlink", "failed"},
           p.pc = "open" => p.kind \in {"upload", "import", "write", "copy", "extract"},
           p.pc = "rename" => p.kind = "move", p.pc = "read" => p.kind = "read", p.pc = "unlink" => p.kind = "remove",
           p.path = req[r].path \/ (p.kind = "remove" /\ p.path \in Files!Paths),
           p.to = req[r].to \/ (p.kind \in {"upload", "import", "copy"} /\ p.to \in Files!Paths),
           \/ p.left = req[r].left /\ p.path = req[r].path /\ p.to = req[r].to
           \/ p.kind # "move" /\ \A k \in 1..Len(p.left) :
                /\ p.left[k].kind = "path" => p.left[k].from \in Files!Paths
                /\ p.left[k].kind = "staged" => p.kind \in {"upload", "import"}
                /\ p.left[k].kind \in {"own", "staged", "path"} <=> p.kind # "extract"
                /\ p.left[k].to \in Below(p) /\ (p.kind = "remove" => Len(p.left[k].to) = 2),
           p.kind = "extract" => Checked /\ p.src \in 1..Len(node)
    PROVE  InHand(p, Len(node), Checked) /\ (Sane(req[r]) => Sane(p))
<1>1. InHand(req[r], Len(node), Checked)
  BY DEF FilesInv
<1>2. InHand(p, Len(node), Checked)
  BY <1>1 DEF InHand
<1>3. ASSUME Sane(req[r]) PROVE Sane(p)
  <2>1. p.left = req[r].left /\ p.path = req[r].path /\ p.to = req[r].to => Below(p) = Below(req[r])
    BY DEF Below, Files!Touched
  <2> HIDE DEF Below
  <2> QED BY <1>3, <2>1 DEF Sane
<1> QED BY <1>2, <1>3

LEMMA FoundFits ==
    ASSUME FilesInv, NEW r \in Files!Reqs, req[r].pc = "check", Checked, NEW p \in Files!Found(req[r])
    PROVE  /\ p \in RequestType /\ p.kind = req[r].kind /\ p.pc \in {"open", "rename", "read", "done", "unlink"}
           /\ InHand(p, Len(node), Checked) /\ (Sane(req[r]) => Sane(p))
<1>1. PICK q : q = req[r]
  OBVIOUS
<1>2. q \in RequestType /\ InHand(q, Len(node), Checked) /\ q.pc = "check"
  BY <1>1 DEF FilesInv
<1>3. /\ q.path \in Files!Paths \cup {Files!Root} /\ q.to \in Files!Paths \cup {Files!Root}
      /\ q.left \in Seq(Items)
  BY <1>2, Zenon DEF RequestType
<1>4. p \in Files!Found(q) /\ q.kind \in Files!Kinds
  <2>1. p \in Files!Found(q)
    BY <1>1
  <2> QED BY <2>1 DEF Files!Found, Files!Kinds
\* What is to be opened.
<1>5. ASSUME NEW left \in Seq(Items), NEW to \in Files!Paths,
             p \in RequestType, p.pc = "open", p.kind = q.kind, p.name = q.name, p.left = left,
             p.path = q.path, p.to = to,
             q.kind \in {"upload", "import", "write", "copy"}, to = q.to \/ q.kind # "write",
             \A k \in 1..Len(left) :
                /\ left[k].kind = "path" => left[k].from \in Files!Paths
                /\ left[k].kind = "staged" => q.kind \in {"upload", "import"}
                /\ left[k].kind \in {"own", "staged", "path"}
                /\ Files!IsPrefix(to, left[k].to)
      PROVE  InHand(p, Len(node), Checked) /\ (Sane(q) => Sane(p))
  <2>1. to \in Files!Touched(p)
    <3>1. to # Files!Root
      BY PathShape
    <3> QED BY <1>5, <3>1 DEF Files!Touched
  <2>2. \A k \in 1..Len(left) : left[k].to \in Below(p)
    <3>0. \A k \in 1..Len(left) : left[k] \in Items
      BY <1>5
    <3>1. \A k \in 1..Len(left) : left[k].to \in Files!Paths
      BY <3>0 DEF Items
    <3> QED BY <1>5, <2>1, <3>1 DEF Below
  <2> QED BY <1>1, <1>2, <1>5, <2>2, NextFits
<1>6. ASSUME NEW from \in Files!Paths \cup {Files!Root}, NEW to \in Files!Paths, NEW kind \in {"own", "staged", "path"}
      PROVE  <<Files!Copied(from, to, kind)>> \in Seq(Items) /\ Files!Copied(from, to, kind).kind = kind
             /\ Files!Copied(from, to, kind).from = from /\ Files!Copied(from, to, kind).to = to
             /\ Files!IsPrefix(to, to) /\ Len(<<Files!Copied(from, to, kind)>>) = 1
             /\ <<Files!Copied(from, to, kind)>>[1] = Files!Copied(from, to, kind)
  <2>1. PICK i : i = Files!Copied(from, to, kind)
    OBVIOUS
  <2>2. i \in Items /\ i.kind = kind /\ i.from = from /\ i.to = to
    BY <2>1 DEF Files!Copied, Items
  <2>3. Files!IsPrefix(to, to)
    BY PrefixOrder DEF Spots
  <2> QED BY <2>1, <2>2, <2>3
<1>7. CASE q.kind = "write"
  <2>1. PICK left : left = <<Files!Copied(Files!Root, q.to, "own")>>
    OBVIOUS
  <2>2. q.to \in Files!Paths
    BY <1>2, <1>7 DEF InHand
  <2>3. p = [q EXCEPT !.pc = "open", !.left = left]
    BY <1>4, <1>7, <2>1, Zenon DEF Files!Found
  <2>4. left \in Seq(Items) /\ Len(left) = 1 /\ left[1].kind = "own" /\ Files!IsPrefix(q.to, left[1].to)
    BY <1>6, <2>1, <2>2
  <2>5. /\ p \in RequestType /\ p.pc = "open" /\ p.kind = q.kind /\ p.name = q.name /\ p.left = left
        /\ p.path = q.path /\ p.to = q.to
    BY <1>2, <2>3, <2>4, Zenon DEF RequestType, FilePlaces
  <2>6. \A k \in 1..Len(left) : k = 1
    BY <2>4
  <2>7. InHand(p, Len(node), Checked) /\ (Sane(q) => Sane(p))
    BY <1>5, <1>7, <2>2, <2>4, <2>5, <2>6
  <2> QED BY <1>1, <2>5, <2>7
<1>8. ASSUME NEW t \in Files!Paths, NEW from \in Files!Paths \cup {Files!Root}, NEW kind \in {"staged", "path"},
             p = [[q EXCEPT !.pc = "open", !.left = <<Files!Copied(from, t, kind)>>] EXCEPT !.to = t],
             q.kind \in {"upload", "import", "copy"},
             kind = "path" => from \in Files!Paths, kind = "staged" => q.kind # "copy"
      PROVE  /\ p \in RequestType /\ p.kind = q.kind /\ p.pc = "open"
             /\ InHand(p, Len(node), Checked) /\ (Sane(q) => Sane(p))
  <2>1. PICK left : left = <<Files!Copied(from, t, kind)>>
    OBVIOUS
  <2>2. /\ left \in Seq(Items) /\ Len(left) = 1 /\ left[1].kind = kind /\ left[1].from = from
        /\ Files!IsPrefix(t, left[1].to)
    BY <1>6, <2>1
  <2>3. p = [[q EXCEPT !.pc = "open", !.left = left] EXCEPT !.to = t]
    BY <1>8, <2>1
  <2>4. /\ p \in RequestType /\ p.pc = "open" /\ p.kind = q.kind /\ p.name = q.name /\ p.left = left
        /\ p.path = q.path /\ p.to = t
    BY <1>2, <2>2, <2>3, Zenon DEF RequestType, FilePlaces
  <2>5. \A k \in 1..Len(left) : k = 1
    BY <2>2
  <2>6. InHand(p, Len(node), Checked) /\ (Sane(q) => Sane(p))
    BY <1>5, <1>8, <2>2, <2>4, <2>5
  <2> QED BY <2>4, <2>6
<1>9. CASE q.kind \in {"upload", "import"}
  <2>1. PICK t \in Files!Paths : p = [[q EXCEPT !.pc = "open", !.left = <<Files!Copied(Files!Root, t, "staged")>>] EXCEPT !.to = t]
    BY <1>4, <1>9 DEF Files!Found
  <2> QED BY <1>1, <1>8, <1>9, <2>1
\* Of a directory, some of the names, in any order.
<1>10. ASSUME NEW to \in Files!Tops, NEW from \in Files!Tops \cup {Files!Root}, NEW names \in Seq(Names), NEW kind \in {"own", "path"},
              NEW left, left = [k \in 1..Len(names) |-> Files!Copied(IF kind = "path" THEN Files!Under(from, names[k]) ELSE Files!Root,
                                                                     Files!Under(to, names[k]), kind)]
       PROVE  /\ left \in Seq(Items)
              /\ \A k \in 1..Len(left) : /\ left[k].kind = kind /\ (kind = "path" => left[k].from \in Files!Paths)
                                         /\ Files!IsPrefix(to, left[k].to) /\ Len(left[k].to) = 2
  <2>1. ASSUME NEW k \in 1..Len(names)
        PROVE  /\ Files!Under(to, names[k]) \in Files!Paths /\ Files!Under(from, names[k]) \in Files!Paths
               /\ Files!IsPrefix(to, Files!Under(to, names[k])) /\ Len(Files!Under(to, names[k])) = 2
    <3>1. names[k] \in Names /\ Len(to) = 1
      BY PathShape
    <3>2. Len(Files!Under(to, names[k])) = Len(to) + 1
      BY <3>1, UnderFacts
    <3>3. Files!IsPrefix(to, Files!Under(to, names[k]))
      BY <3>1, UnderFacts
    <3> QED BY <3>1, <3>2, <3>3, PathFacts
  <2>2. PICK from2 : from2 = [k \in 1..Len(names) |-> IF kind = "path" THEN Files!Under(from, names[k]) ELSE Files!Root]
    OBVIOUS
  <2>3. \A k \in 1..Len(names) : /\ left[k] \in Items /\ left[k].kind = kind /\ left[k].to = Files!Under(to, names[k])
                                 /\ kind = "path" => left[k].from \in Files!Paths
    <3>1. ASSUME NEW k \in 1..Len(names)
          PROVE  /\ left[k] \in Items /\ left[k].kind = kind /\ left[k].to = Files!Under(to, names[k])
                 /\ kind = "path" => left[k].from \in Files!Paths
      <4>1. PICK f : f = IF kind = "path" THEN Files!Under(from, names[k]) ELSE Files!Root
        OBVIOUS
      <4>2. f \in Files!Paths \cup {Files!Root} /\ (kind = "path" => f \in Files!Paths)
        BY <2>1, <4>1
      <4>3. left[k] = Files!Copied(f, Files!Under(to, names[k]), kind)
        BY <1>10, <4>1
      <4>4. Files!Copied(f, Files!Under(to, names[k]), kind) = [from |-> f, to |-> Files!Under(to, names[k]), kind |-> kind]
        BY DEF Files!Copied
      <4> QED BY <2>1, <4>2, <4>3, <4>4 DEF Items
    <3> QED BY <3>1
  <2>4. Len(left) = Len(names) /\ left \in Seq(Items)
    BY <1>10, <2>3
  <2> QED BY <2>1, <2>3, <2>4
<1>11. CASE q.kind = "copy"
  <2>1. q.path \in Files!Paths
    BY <1>2, <1>11 DEF InHand
  <2>2. \/ \E t \in Files!Paths : p = [[q EXCEPT !.pc = "open", !.left = <<Files!Copied(q.path, t, "path")>>] EXCEPT !.to = t]
        \/ /\ q.path \in Files!Tops /\ q.to \in Files!Tops
           /\ \E names \in UNION {Files!SetToSeqs(some) : some \in SUBSET Names} :
                p = [q EXCEPT !.pc = "open",
                        !.left = [k \in 1..Len(names) |-> Files!Copied(Files!Under(q.path, names[k]), Files!Under(q.to, names[k]), "path")]]
    BY <1>4, <1>11 DEF Files!Found
  <2>3. CASE \E t \in Files!Paths : p = [[q EXCEPT !.pc = "open", !.left = <<Files!Copied(q.path, t, "path")>>] EXCEPT !.to = t]
    BY <1>1, <1>8, <1>11, <2>1, <2>3
  <2>4. ASSUME NEW some \in SUBSET Names, NEW names \in Files!SetToSeqs(some), q.path \in Files!Tops, q.to \in Files!Tops,
               p = [q EXCEPT !.pc = "open",
                        !.left = [k \in 1..Len(names) |-> Files!Copied(Files!Under(q.path, names[k]), Files!Under(q.to, names[k]), "path")]]
        PROVE  /\ p \in RequestType /\ p.kind = q.kind /\ p.pc = "open"
               /\ InHand(p, Len(node), Checked) /\ (Sane(q) => Sane(p))
    <3>1. names \in Seq(Names)
      BY SomeListed
    <3>2. PICK left : left = [k \in 1..Len(names) |-> Files!Copied(Files!Under(q.path, names[k]), Files!Under(q.to, names[k]), "path")]
      OBVIOUS
    <3>3. /\ left \in Seq(Items)
          /\ \A k \in 1..Len(left) : /\ left[k].kind = "path" /\ left[k].from \in Files!Paths
                                     /\ Files!IsPrefix(q.to, left[k].to)
      BY <1>10, <2>4, <3>1, <3>2
    <3>4. p = [q EXCEPT !.pc = "open", !.left = left]
      BY <2>4, <3>2
    <3>5. /\ p \in RequestType /\ p.pc = "open" /\ p.kind = q.kind /\ p.name = q.name /\ p.left = left
          /\ p.path = q.path /\ p.to = q.to
      BY <1>2, <3>3, <3>4, Zenon DEF RequestType, FilePlaces
    <3>6. q.to \in Files!Paths
      BY <2>4, PathShape
    <3> QED BY <1>5, <1>11, <3>3, <3>5, <3>6
  <2>5. ASSUME q.path \in Files!Tops, q.to \in Files!Tops,
               NEW names \in UNION {Files!SetToSeqs(some) : some \in SUBSET Names},
               p = [q EXCEPT !.pc = "open",
                        !.left = [k \in 1..Len(names) |-> Files!Copied(Files!Under(q.path, names[k]), Files!Under(q.to, names[k]), "path")]]
        PROVE  /\ p \in RequestType /\ p.kind = req[r].kind /\ p.pc \in {"open", "rename", "read", "done", "unlink"}
               /\ InHand(p, Len(node), Checked) /\ (Sane(req[r]) => Sane(p))
    <3>1. PICK some \in SUBSET Names : names \in Files!SetToSeqs(some)
      BY <2>5
    <3>2. /\ p \in RequestType /\ p.kind = q.kind /\ p.pc = "open"
          /\ InHand(p, Len(node), Checked) /\ (Sane(q) => Sane(p))
      BY <2>4, <2>5, <3>1, Zenon
    <3> QED BY <1>1, <3>2
  <2> QED BY <2>2, <2>3, <2>5, Zenon
<1>15. ASSUME NEW pc \in {"rename", "read", "done"}, p = [q EXCEPT !.pc = pc], q.kind # "extract",
              pc = "rename" => q.kind = "move", pc = "read" => q.kind = "read"
       PROVE  /\ p \in RequestType /\ p.kind = q.kind /\ p.pc = pc
              /\ InHand(p, Len(node), Checked) /\ (Sane(q) => Sane(p))
  <2>1. /\ p \in RequestType /\ p.pc = pc /\ p.kind = q.kind /\ p.name = q.name /\ p.left = q.left
        /\ p.path = q.path /\ p.to = q.to
    BY <1>2, <1>15, Zenon DEF RequestType, FilePlaces
  <2> QED BY <1>1, <1>2, <1>15, <2>1, NextFits
<1>12. CASE q.kind = "remove"
  <2>1. \/ p = [q EXCEPT !.pc = "done"]
        \/ \E d \in Files!Tops : \E names \in Files!Listings(d) :
             p = [q EXCEPT !.pc = "unlink", !.path = d,
                           !.left = [k \in 1..Len(names) |-> Files!Copied(Files!Root, Files!Under(d, names[k]), "own")]]
    <3> DEFINE Some(d) == {[q EXCEPT !.pc = "unlink", !.path = d,
                                !.left = [k \in 1..Len(names) |-> Files!Copied(Files!Root, Files!Under(d, names[k]), "own")]] :
                                names \in Files!Listings(d)}
               Open == {t \in Files!Tops : q.flag /\ tree[t].is = "dir"}
    <3>1. p \in {[q EXCEPT !.pc = "done"]} \cup UNION {Some(d) : d \in Open}
      BY <1>4, <1>12 DEF Files!Found
    <3>2. Open \subseteq Files!Tops
      OBVIOUS
    <3>3. p = [q EXCEPT !.pc = "done"] \/ \E d \in Files!Tops : p \in Some(d)
      <4> HIDE DEF Some, Open
      <4> QED BY <3>1, <3>2
    <3> HIDE DEF Open
    <3> QED BY <3>3, Zenon
  <2>2. CASE p = [q EXCEPT !.pc = "done"]
    BY <1>1, <1>12, <1>15, <2>2
  <2>3. ASSUME NEW d \in Files!Tops, NEW names \in Files!Listings(d),
               p = [q EXCEPT !.pc = "unlink", !.path = d,
                           !.left = [k \in 1..Len(names) |-> Files!Copied(Files!Root, Files!Under(d, names[k]), "own")]]
        PROVE  /\ p \in RequestType /\ p.kind = q.kind /\ p.pc = "unlink"
               /\ InHand(p, Len(node), Checked) /\ (Sane(q) => Sane(p))
    <3>0. d \in Files!Paths
      BY PathShape
    <3>1. names \in Seq(Names)
      BY <3>0, ListingFacts
    <3>2. PICK left : left = [k \in 1..Len(names) |-> Files!Copied(Files!Root, Files!Under(d, names[k]), "own")]
      OBVIOUS
    <3>3. /\ left \in Seq(Items)
          /\ \A k \in 1..Len(left) : /\ left[k].kind = "own" /\ Files!IsPrefix(d, left[k].to) /\ Len(left[k].to) = 2
      BY <1>10, <3>1, <3>2
    <3>4. p = [q EXCEPT !.pc = "unlink", !.path = d, !.left = left]
      BY <2>3, <3>2
    <3>5. /\ p \in RequestType /\ p.pc = "unlink" /\ p.kind = q.kind /\ p.name = q.name /\ p.left = left
          /\ p.path = d /\ p.to = q.to
      BY <1>2, <3>0, <3>3, <3>4, Zenon DEF RequestType, FilePlaces
    <3>6. \A k \in 1..Len(left) : left[k].to \in Below(p)
      <4>1. d \in Files!Touched(p)
        <5>1. d # Files!Root
          BY <3>0, PathShape
        <5> QED BY <3>5, <5>1 DEF Files!Touched
      <4>0. \A k \in 1..Len(left) : left[k] \in Items
        BY <3>3
      <4>2. \A k \in 1..Len(left) : left[k].to \in Files!Paths
        BY <4>0 DEF Items
      <4> QED BY <3>3, <4>1, <4>2 DEF Below
    <3> QED BY <1>1, <1>2, <1>12, <3>0, <3>3, <3>5, <3>6, NextFits
  <2> QED BY <1>1, <2>1, <2>2, <2>3
<1>13. CASE q.kind \in {"move", "read", "mkdir"}
  <2>1. p = [q EXCEPT !.pc = IF q.kind = "move" THEN "rename" ELSE IF q.kind = "read" THEN "read" ELSE "done"]
    BY <1>4, <1>13 DEF Files!Found
  <2> QED BY <1>1, <1>13, <1>15, <2>1
<1>14. CASE q.kind = "extract"
  <2>1. PICK n \in 1..Len(node) :
          p = [[q EXCEPT !.pc = "open", !.left = [k \in 1..Len(archive.members) |-> Files!Item(archive, archive.members[k], q.to)]]
                 EXCEPT !.src = n]
    BY <1>4, <1>14 DEF Files!Found
  <2>2. PICK left : left = [k \in 1..Len(archive.members) |-> Files!Item(archive, archive.members[k], q.to)]
    OBVIOUS
  <2>3. p = [[q EXCEPT !.pc = "open", !.left = left] EXCEPT !.src = n]
    BY <2>1, <2>2
  <2>4. archive \in Archives /\ q.to \in Files!Tops \cup {Files!Root} /\ n \in Nat
    BY <1>2, <1>14 DEF FilesInv, InHand, Checked
  <2>5. \A k \in 1..Len(archive.members) :
          /\ Files!Item(archive, archive.members[k], q.to) \in Items
          /\ Files!Item(archive, archive.members[k], q.to).kind \notin {"own", "path", "staged"}
          /\ Files!Item(archive, archive.members[k], q.to).to = Files!Under(q.to, archive.members[k].name)
    BY <2>4, ItemFacts, ItemMember
  <2>6. \A k \in 1..Len(archive.members) : Files!Under(q.to, archive.members[k].name) \in Below(q)
    BY <1>2, <1>14, <2>4, MemberPlaces
  <2>7. Len(archive.members) \in Nat
    <3>1. archive \in Files!ArchiveType
      BY <2>4, FilesAssumption
    <3>2. archive.members \in Seq([name : Names, kind : Files!MemberKinds, large : BOOLEAN])
      BY <3>1, Zenon DEF Files!ArchiveType
    <3> QED BY <3>2
  <2>8. /\ left \in Seq(Items)
        /\ \A k \in 1..Len(left) : left[k].kind \notin {"own", "path", "staged"} /\ left[k].to \in Below(q)
    BY <2>2, <2>5, <2>6, <2>7
  <2>9. /\ p \in RequestType /\ p.pc = "open" /\ p.kind = q.kind /\ p.name = q.name /\ p.left = left
        /\ p.path = q.path /\ p.to = q.to /\ p.src = n
    BY <1>2, <2>3, <2>4, <2>8, Zenon DEF RequestType, FilePlaces
  <2>10. Below(p) = Below(q)
    BY <2>9 DEF Below, Files!Touched
  <2> HIDE DEF Below
  <2> QED BY <1>1, <1>2, <1>14, <2>8, <2>9, <2>10, NextFits
<1> QED BY <1>4, <1>7, <1>9, <1>11, <1>12, <1>13, <1>14 DEF Files!Kinds

LEMMA StrayFacts ==
    ASSUME FilesInv, NEW r \in Files!Reqs, Files!Astray(r)
    PROVE  /\ Checked /\ req[r] \in RequestType /\ InHand(req[r], Len(node), Checked) /\ req[r].left \in Seq(Items)
           /\ Files!Active(r) /\ req[r].pc \notin {"new", "stage", "staged"}
           /\ req[r].pc = "open" => req[r].left # << >>
<1>1. PICK p \in Files!NextPaths(req[r]) : Files!OnLink(p)
  BY DEF Files!Astray
<1>2. Checked
  BY <1>1 DEF Files!OnLink, FilesInv, Trees
<1>3. /\ req[r].pc \notin {"new", "done", "failed", "stage", "staged"}
      /\ req[r].pc = "open" => req[r].left # << >>
  BY <1>1 DEF Files!NextPaths
<1>4. req[r] \in RequestType /\ InHand(req[r], Len(node), Checked)
  BY DEF FilesInv
<1>5. req[r].left \in Seq(Items)
  BY <1>4, Zenon DEF RequestType
<1> QED BY <1>2, <1>3, <1>4, <1>5 DEF Files!Active

LEMMA StrayHand ==
    ASSUME FilesInv, NEW r \in Files!Reqs, Files!Astray(r), Files!Strays(r), ~Files!Fail(r)
    PROVE  \E q \in RequestType : StraysTo(r, q)
<1>1. /\ Checked /\ req[r] \in RequestType /\ InHand(req[r], Len(node), Checked) /\ req[r].left \in Seq(Items)
      /\ req[r].pc # "new"
      /\ req[r].pc = "open" => req[r].left # << >>
  BY StrayFacts
\* No file is opened.
<1>2. ASSUME NEW q \in RequestType, Files!Goes(r, q), q.kind = req[r].kind, q.pc \notin {"new", "staged", "write"},
             InHand(q, Len(node), Checked), Sane(req[r]) => Sane(q), UNCHANGED <<uploads, node, archive>>,
             tree' \in Trees(Len(node)), Remade
      PROVE  StraysTo(r, q)
  BY <1>2 DEF StraysTo
<1>3. CASE Files!StrayLook(r)
  <2>1. PICK q \in {[req[r] EXCEPT !.pc = "failed"]} \cup Files!Found(req[r]) : Files!Goes(r, q)
    BY <1>3 DEF Files!StrayLook
  <2>2. req[r].pc = "check" /\ UNCHANGED <<uploads, node, archive>>
    BY <1>3 DEF Files!StrayLook, Files!At
  <2>3. /\ q \in RequestType /\ q.kind = req[r].kind /\ q.pc \in {"open", "rename", "read", "done", "unlink", "failed"}
        /\ InHand(q, Len(node), Checked) /\ (Sane(req[r]) => Sane(q))
    <3>1. CASE q = [req[r] EXCEPT !.pc = "failed"]
      <4>1. /\ q \in RequestType /\ q.pc = "failed" /\ q.kind = req[r].kind /\ q.name = req[r].name
            /\ q.left = req[r].left /\ q.path = req[r].path /\ q.to = req[r].to
        BY <1>1, <3>1, Zenon DEF RequestType, FilePlaces
      <4>2. InHand(q, Len(node), Checked)
        BY <1>1, <4>1 DEF InHand
      <4>3. Sane(req[r]) => Sane(q)
        BY <1>1, <4>1, SaneOn
      <4> QED BY <4>1, <4>2, <4>3
    <3>2. CASE q \in Files!Found(req[r])
      BY <1>1, <2>2, <3>2, FoundFits
    <3> QED BY <2>1, <3>1, <3>2
  <2>4. tree' \in Trees(Len(node)) /\ Remade
    <3>1. tree' \in Files!Unmade \/ tree' \in Files!Made(Files!Directory)
      BY <1>3 DEF Files!StrayLook
    <3> QED BY <3>1, MadeFits
  <2> QED BY <1>2, <2>1, <2>2, <2>3, <2>4
<1>4. CASE Files!StraySkips(r)
  <2>1. PICK q : q = [req[r] EXCEPT !.left = Tail(@), !.flag = TRUE]
    OBVIOUS
  <2>2. req[r].pc = "open" /\ req[r].kind = "copy" /\ Files!Goes(r, q) /\ UNCHANGED <<tree, uploads, node, archive>>
    BY <1>4, <2>1 DEF Files!StraySkips, Files!At
  <2>3. Tail(req[r].left) \in Seq(Items)
    BY <1>1, <2>2, TailFits
  <2>4. /\ q \in RequestType /\ q.pc = req[r].pc /\ q.kind = req[r].kind /\ q.name = req[r].name
        /\ q.left = Tail(req[r].left) /\ q.path = req[r].path /\ q.to = req[r].to
    BY <1>1, <2>1, <2>3, Zenon DEF RequestType, FilePlaces
  <2>5. InHand(q, Len(node), Checked) /\ (Sane(req[r]) => Sane(q))
    BY <1>1, <2>2, <2>4, FitsTail, SaneOn
  <2> QED BY <1>2, <2>2, <2>4, <2>5, MadeFits
<1>5. CASE Files!StrayMember(r)
  <2>1. PICK kind : kind = Head(req[r].left).kind
    OBVIOUS
  <2>2. /\ req[r].pc \in {"open", "link"} /\ kind \in {"dir", "skipped", "link"} /\ UNCHANGED <<uploads, node, archive>>
        /\ IF kind = "link" /\ req[r].pc = "open"
           THEN tree' \in Files!Unmade /\ Files!Goes(r, [req[r] EXCEPT !.pc = "link"])
           ELSE /\ tree' \in Files!Made(IF kind = "link" THEN Files!Link ELSE Files!Directory)
                /\ Files!Goes(r, [req[r] EXCEPT !.pc = "open", !.left = Tail(@)])
    BY <1>5, <2>1 DEF Files!StrayMember, Files!At
  <2>3. req[r].left # << >> /\ req[r].kind = "extract" /\ req[r].src \in 1..Len(node)
    <3>1. req[r].left # << >>
      BY <1>1, <2>2 DEF InHand
    <3>2. 1 \in 1..Len(req[r].left) /\ req[r].left[1].kind = kind
      BY <1>1, <2>1, <3>1, TailFits
    <3> QED BY <1>1, <2>2, <3>1, <3>2 DEF InHand
  <2>4. tree' \in Trees(Len(node)) /\ Remade
    BY <1>1, <2>2, MadeFits
  <2>5. CASE kind = "link" /\ req[r].pc = "open"
    <3>1. PICK q : q = [req[r] EXCEPT !.pc = "link"]
      OBVIOUS
    <3>2. /\ q \in RequestType /\ q.pc = "link" /\ q.kind = req[r].kind /\ q.name = req[r].name
          /\ q.left = req[r].left /\ q.path = req[r].path /\ q.to = req[r].to /\ q.src = req[r].src
      BY <1>1, <3>1, Zenon DEF RequestType, FilePlaces
    <3>3. InHand(q, Len(node), Checked)
      BY <1>1, <2>3, <3>2 DEF InHand
    <3>4. Below(q) = Below(req[r])
      BY <3>2 DEF Below, Files!Touched
    <3> HIDE DEF Below
    <3>5. Sane(req[r]) => Sane(q)
      BY <1>1, <2>1, <2>3, <2>5, <3>2, <3>4 DEF Sane
    <3> QED BY <1>2, <2>2, <2>4, <2>5, <3>1, <3>2, <3>3, <3>5
  <2>6. CASE ~(kind = "link" /\ req[r].pc = "open")
    <3>1. PICK q : q = [req[r] EXCEPT !.pc = "open", !.left = Tail(@)]
      OBVIOUS
    <3>2. Tail(req[r].left) \in Seq(Items)
      BY <1>1, <2>3, TailFits
    <3>3. /\ q \in RequestType /\ q.pc = "open" /\ q.kind = req[r].kind /\ q.name = req[r].name
          /\ q.left = Tail(req[r].left) /\ q.path = req[r].path /\ q.to = req[r].to /\ q.src = req[r].src
      BY <1>1, <3>1, <3>2, Zenon DEF RequestType, FilePlaces
    <3>4. InHand(q, Len(node), Checked) /\ (Sane(req[r]) => Sane(q))
      BY <1>1, <2>3, <3>3, FitsTail, SaneOn
    <3> QED BY <1>2, <2>2, <2>4, <2>6, <3>1, <3>3, <3>4
  <2> QED BY <2>5, <2>6
<1>6. CASE Files!StrayRename(r)
  <2>1. PICK q : q = [req[r] EXCEPT !.pc = "done"]
    OBVIOUS
  <2>2. req[r].pc = "rename" /\ Files!Goes(r, q) /\ UNCHANGED <<uploads, node, archive>>
    BY <1>6, <2>1 DEF Files!StrayRename, Files!At
  <2>3. /\ q \in RequestType /\ q.pc = "done" /\ q.kind = req[r].kind /\ q.name = req[r].name
        /\ q.left = req[r].left /\ q.path = req[r].path /\ q.to = req[r].to
    BY <1>1, <2>1, Zenon DEF RequestType, FilePlaces
  <2>4. InHand(q, Len(node), Checked) /\ (Sane(req[r]) => Sane(q))
    <3>1. InHand(q, Len(node), Checked)
      BY <1>1, <2>2, <2>3 DEF InHand
    <3> QED BY <1>1, <2>3, <3>1, SaneOn
  <2>5. tree' \in Trees(Len(node)) /\ Remade
    <3>1. CASE tree' \in Files!Unmade
      BY <3>1, MadeFits
    <3>2. ASSUME NEW o \in Files!Paths, NEW t \in Files!Targets(o), tree' = Files!Moved(o, t)
          PROVE  tree' \in Trees(Len(node)) /\ Remade
      BY <3>2, MovedFacts, Zenon DEF Remade
    <3>3. tree' \in Files!Unmade \/ \E o \in Files!Paths : \E t \in Files!Targets(o) : tree' = Files!Moved(o, t)
      <4> HIDE DEF Files!Unmade, Files!Moved, Files!Targets
      <4> QED BY <1>6 DEF Files!StrayRename
    <3> QED BY <3>1, <3>2, <3>3
  <2> QED BY <1>2, <2>2, <2>3, <2>4, <2>5
<1>7. CASE Files!StrayRead(r)
  <2>1. PICK n \in 1..Len(node) : Files!Goes(r, [req[r] EXCEPT !.pc = "done", !.got = node[n].from])
    BY <1>7 DEF Files!StrayRead
  <2>2. PICK q : q = [req[r] EXCEPT !.pc = "done", !.got = node[n].from]
    OBVIOUS
  <2>3. req[r].pc = "read" /\ UNCHANGED <<tree, uploads, node, archive>>
    BY <1>7 DEF Files!StrayRead, Files!At
  <2>4. node[n].from \in SUBSET (0..MaxFileRequests)
    <3>1. node[n] \in Contents
      BY DEF FilesInv
    <3> QED BY <3>1 DEF Contents
  <2>5. /\ q \in RequestType /\ q.pc = "done" /\ q.kind = req[r].kind /\ q.name = req[r].name
        /\ q.left = req[r].left /\ q.path = req[r].path /\ q.to = req[r].to
    BY <1>1, <2>2, <2>4, Zenon DEF RequestType, FilePlaces
  <2>6. InHand(q, Len(node), Checked) /\ (Sane(req[r]) => Sane(q))
    <3>1. InHand(q, Len(node), Checked)
      BY <1>1, <2>3, <2>5 DEF InHand
    <3> QED BY <1>1, <2>5, <3>1, SaneOn
  <2> QED BY <1>2, <2>1, <2>2, <2>3, <2>5, <2>6, MadeFits
<1>8. CASE Files!StrayOpen(r)
  <2>1. PICK e \in Files!Standing, n \in 1..Len(node) :
          /\ node' = Files!Emptied(e)
          /\ tree' \in IF e = Files!Missing THEN Files!Made(Files!File(Files!Opened(e))) ELSE {tree}
          /\ Files!Goes(r, [req[r] EXCEPT !.pc = "write", !.dst = Files!Opened(e),
                                          !.src = IF Head(req[r].left).kind \in {"own", "file"} THEN @ ELSE n])
    BY <1>8, Zenon DEF Files!StrayOpen
  <2>2. /\ req[r].pc = "open" /\ Head(req[r].left).kind \in Files!Opens /\ UNCHANGED <<uploads, archive>>
        /\ req[r].left # << >>
    BY <1>1, <1>8 DEF Files!StrayOpen, Files!At
  <2>3. e \in Entries /\ (e.is = "file" => e.node \in 1..Len(node) /\ \A x \in Names : ~IsStaged(x, e.node))
    <3>1. CASE e = Files!Missing
      BY <3>1, DirectoryFacts
    <3>2. ASSUME NEW m \in 1..Len(node), \A x \in Names : uploads[x] # Files!File(m), e = Files!File(m)
          PROVE  e \in Entries /\ (e.is = "file" => e.node \in 1..Len(node) /\ \A x \in Names : ~IsStaged(x, e.node))
      <4>1. e \in Entries /\ e.node = m
        BY <3>2 DEF Files!File, Entries
      <4>2. ASSUME NEW x \in Names, IsStaged(x, m) PROVE FALSE
        <5>1. uploads[x] \in Entries /\ uploads[x].is = "file" /\ uploads[x].node = m
          BY <4>2 DEF IsStaged, FilesInv, Stagings
        <5>2. uploads[x] = [is |-> "file", node |-> m]
          BY <5>1 DEF Entries
        <5> QED BY <3>2, <5>2 DEF Files!File
      <4> QED BY <4>1, <4>2
    <3> QED BY <3>1, <3>2 DEF Files!Standing
  <2>4. /\ Files!Opened(e) = IF e.is = "file" THEN e.node ELSE Len(node) + 1
        /\ Files!Opened(e) \in 1..Len(node') /\ Len(node) <= Len(node') /\ Len(node) \in Nat /\ Len(node') \in Nat
        /\ Files!File(Files!Opened(e)) \in Entries /\ Files!File(Files!Opened(e)).is = "file"
        /\ Files!File(Files!Opened(e)).node = Files!Opened(e)
        /\ Files!Emptied(e) \in Seq(Contents)
    BY <2>1, <2>3, EmptiedFacts, OpenFacts
  <2>5. PICK src : src = IF Head(req[r].left).kind \in {"own", "file"} THEN req[r].src ELSE n
    OBVIOUS
  <2>6. src \in Nat /\ (Head(req[r].left).kind # "own" => src \in 1..Len(node))
    <3>1. req[r].src \in Nat
      BY <1>1, Zenon DEF RequestType
    <3>2. 1 \in 1..Len(req[r].left) /\ req[r].left[1].kind = Head(req[r].left).kind
      BY <1>1, <2>2, TailFits
    <3>3. Head(req[r].left).kind = "file" => req[r].src \in 1..Len(node)
      BY <1>1, <2>2, <3>2 DEF InHand
    <3> QED BY <2>4, <2>5, <3>1, <3>3
  <2>7. PICK q : q = [req[r] EXCEPT !.pc = "write", !.dst = Files!Opened(e), !.src = src]
    OBVIOUS
  <2>8. Files!Opened(e) \in Nat
    BY <2>4
  <2>9. /\ q \in RequestType /\ q.pc = "write" /\ q.kind = req[r].kind /\ q.name = req[r].name
        /\ q.left = req[r].left /\ q.path = req[r].path /\ q.to = req[r].to /\ q.src = src /\ q.dst = Files!Opened(e)
    BY <1>1, <2>6, <2>7, <2>8, Zenon DEF RequestType, FilePlaces
  <2>10. Files!Goes(r, q)
    BY <2>1, <2>5, <2>7
  <2>11. InHand(q, Len(node'), Checked)
    <3>1. req[r].kind = "extract" => src \in 1..Len(node)
      <4>1. 1 \in 1..Len(req[r].left) /\ req[r].left[1].kind = Head(req[r].left).kind
        BY <1>1, <2>2, TailFits
      <4>2. req[r].kind = "extract" => Head(req[r].left).kind # "own"
        BY <1>1, <2>2, <4>1 DEF InHand
      <4> QED BY <2>6, <4>2
    <3> QED BY <1>1, <2>2, <2>4, <2>6, <2>9, <3>1 DEF InHand
  <2>12. Sane(req[r]) => Sane(q)
    <3>1. Below(q) = Below(req[r])
      BY <2>9 DEF Below, Files!Touched
    <3> HIDE DEF Below
    <3> QED BY <2>2, <2>9, <3>1 DEF Sane
  <2>13. q.dst \in 1..Len(node') /\ \A x \in Names : ~IsStaged(x, q.dst)
    <3>1. e.is # "file" => \A x \in Names : ~IsStaged(x, Len(node) + 1)
      BY <2>4 DEF IsStaged, FilesInv, Stagings
    <3> QED BY <2>3, <2>4, <2>9, <3>1
  <2>14. tree' \in Trees(Len(node')) /\ Remade
    <3>1. tree \in Trees(Len(node'))
      BY <2>4, MoreNodes DEF FilesInv
    <3>2. CASE tree' = tree
      BY <3>1, <3>2 DEF Remade
    <3>3. CASE e = Files!Missing /\ tree' \in Files!Made(Files!File(Files!Opened(e))) /\ tree' # tree
      <4>1. PICK o \in Files!Paths : /\ tree[o].is = "none" /\ Files!HasParent(o)
                                     /\ tree' = [tree EXCEPT ![o] = Files!File(Files!Opened(e))]
        BY <3>3 DEF Files!Made
      <4>2. Files!Opened(e) = Len(node) + 1
        BY <2>4, <3>3, DirectoryFacts
      <4>3. tree' \in Trees(Len(node'))
        BY <2>4, <3>1, <4>1, TreeFacts
      <4>4. Remade
        BY <2>4, <4>1, <4>2, Zenon DEF Remade
      <4> QED BY <4>3, <4>4
    <3> QED BY <2>1, <3>2, <3>3
  <2> QED BY <2>1, <2>2, <2>3, <2>9, <2>10, <2>11, <2>12, <2>13, <2>14, Zenon DEF StraysTo
<1> QED BY <1>3, <1>4, <1>5, <1>6, <1>7, <1>8 DEF Files!Strays

LEMMA KeepsStrays ==
    ASSUME FilesInv, NEW r \in Files!Reqs, Files!Astray(r), Files!Strays(r)
    PROVE  FilesInv'
<1>1. req[r].pc # "new"
  BY StrayFacts
<1>2. ASSUME ~Files!Fail(r) PROVE FilesInv'
  <2>1. PICK q \in RequestType : StraysTo(r, q)
    BY <1>2, StrayHand
  <2>2. /\ Files!Goes(r, q) /\ q.kind = req[r].kind /\ q.pc # "new" /\ InHand(q, Len(node'), Checked)
        /\ tree' \in Trees(Len(node')) /\ UNCHANGED <<uploads, archive>>
    BY <2>1 DEF StraysTo
  <2>3. /\ node' \in Seq(Contents) /\ Len(node) <= Len(node')
        /\ \A n \in 1..Len(node') : \A s \in node'[n].from : \E m \in 1..Len(node) : s \in node[m].from
    <3>1. CASE node' = node
      BY <3>1 DEF FilesInv
    <3>2. ASSUME NEW e \in Entries, e.is = "file" => e.node \in 1..Len(node), node' = Files!Emptied(e)
          PROVE  /\ node' \in Seq(Contents) /\ Len(node) <= Len(node')
                 /\ \A n \in 1..Len(node') : \A s \in node'[n].from : \E m \in 1..Len(node) : s \in node[m].from
      BY <3>2, OpenFacts
    <3> QED BY <2>1, <3>1, <3>2 DEF StraysTo
  <2> QED BY <1>1, <2>2, <2>3, KeepsGoes
<1> QED BY <1>1, <1>2, KeepsFailing

-------------------------------------------------------------------------------
(* The invariant, and what an archive that names a way out leaves.            *)

LEMMA FilesStart == Files!Init => FilesInv
<1> SUFFICES ASSUME Files!Init PROVE FilesInv
  OBVIOUS
<1>1. PICK one : one = [from |-> {0}, whole |-> TRUE]
  OBVIOUS
<1>2. one \in Contents /\ one.from = {0}
  BY <1>1, FilesAssumption DEF Contents
<1>3. node = <<one, one>>
  BY <1>1 DEF Files!Init
<1>4. node \in Seq(Contents) /\ Len(node) = 2 /\ \A n \in 1..Len(node) : node[n].from \ {0} = {}
  BY <1>2, <1>3
<1>5. /\ Files!Missing \in Entries /\ Files!Missing.is = "none"
      /\ Files!Directory \in Entries /\ Files!Directory.is = "dir"
      /\ \A n \in {1, 2} : Files!File(n) \in Entries /\ Files!File(n).is = "file" /\ Files!File(n).node = n
  BY DEF Files!Missing, Files!Directory, Files!File, Entries
<1>6. tree \in Trees(2)
  <2>1. PICK x \in Names, d \in Names, y \in Names :
          tree = [p \in Files!Paths |-> IF p = <<x>> THEN Files!File(1)
                                  ELSE IF p = <<d>> THEN Files!Directory
                                  ELSE IF p = <<d, y>> THEN Files!File(2) ELSE Files!Missing]
    BY DEF Files!Init
  <2> HIDE DEF Files!File, Files!Missing, Files!Directory
  <2>2. \A p \in Files!Paths : tree[p] \in {Files!File(1), Files!File(2), Files!Directory, Files!Missing}
    BY <2>1
  <2>3. \A p \in Files!Paths : tree[p] \in Entries /\ (tree[p].is = "file" => tree[p].node \in 1..2) /\ tree[p].is # "link"
    BY <1>5, <2>2
  <2>4. tree = [p \in Files!Paths |-> tree[p]]
    BY <2>1, Zenon
  <2> QED BY <2>3, <2>4 DEF Trees
<1>7. uploads \in Stagings(2)
  BY <1>5 DEF Files!Init, Stagings
<1>8. /\ Files!Fresh \in RequestType /\ Files!Fresh.left = << >> /\ Files!Fresh.pc = "new"
      /\ Files!Fresh.kind = None
  <2>1. << >> \in Seq(Items) /\ 0 \in Nat /\ {} \in SUBSET (0..MaxFileRequests)
    OBVIOUS
  <2>2. /\ Files!Root \in Files!Paths \cup {Files!Root}
        /\ None \in Files!Kinds \cup {None} /\ None \in Names \cup {None}
    OBVIOUS
  <2> QED BY <2>1, <2>2, Zenon DEF Files!Fresh, RequestType, FilePlaces, Files!Root
<1>9. req = [r \in Files!Reqs |-> Files!Fresh] /\ archive = None
  BY DEF Files!Init
<1> HIDE DEF Files!Fresh
<1>10. InHand(Files!Fresh, Len(node), Checked)
  BY <1>8 DEF InHand
<1> QED BY <1>4, <1>6, <1>7, <1>8, <1>9, <1>10 DEF FilesInv

LEMMA FilesStep == FilesInv /\ [Files!Next]_(Files!vars) => FilesInv'
<1> SUFFICES ASSUME FilesInv, [Files!Next]_(Files!vars) PROVE FilesInv'
  OBVIOUS
<1>1. CASE Files!Request
  BY <1>1, KeepsRequest
<1>2. ASSUME NEW r \in Files!Reqs, Files!Upload(r) PROVE FilesInv'
  BY <1>2, KeepsStage, KeepsStaged, KeepsUnpack, KeepsImport DEF Files!Upload
<1>3. ASSUME NEW r \in Files!Reqs, Files!Copies(r), ~Files!Astray(r) PROVE FilesInv'
  BY <1>3, KeepsWriteText, KeepsCopyPath, KeepsOpen, KeepsCopy, KeepsFinish DEF Files!Copies
<1>4. ASSUME NEW r \in Files!Reqs, Files!Unpacks(r) PROVE FilesInv'
  BY <1>4, KeepsExtract, KeepsMember, KeepsMakeLink DEF Files!Unpacks
<1>5. ASSUME NEW r \in Files!Reqs, Files!Changes(r) PROVE FilesInv'
  BY <1>5, KeepsMovePath, KeepsRename, KeepsRemovePath, KeepsUnlink, KeepsMakeDirectory
     DEF Files!Changes
<1>6. ASSUME NEW r \in Files!Reqs, Files!Reads(r) PROVE FilesInv'
  BY <1>6, KeepsReadText, KeepsReadBytes DEF Files!Reads
<1>7. ASSUME NEW r \in Files!Reqs, Files!Astray(r), Files!Strays(r) PROVE FilesInv'
  BY <1>7, KeepsStrays
<1>8. CASE UNCHANGED Files!vars
  <2>1. (tree \in Trees(Len(node)))'
    BY <1>8 DEF Files!vars, FilesInv, Trees, Checked, Files!Refused, Files!TooMany
  <2> QED BY <1>8, <2>1 DEF Files!vars, FilesInv, Wrote, Checked, Files!Refused, Files!TooMany
<1> QED BY <1>1, <1>2, <1>3, <1>4, <1>5, <1>6, <1>7, <1>8 DEF Files!Next

LEMMA NothingLeft == FilesInv => Files!EscapeLeavesNothing
<1> SUFFICES ASSUME FilesInv, archive # None,
                    \E k \in 1..Len(archive.members) : archive.members[k].kind = "bad"
             PROVE  /\ \A r \in Files!Reqs : req[r].kind = "extract" =>
                         /\ \A n \in 1..Len(node) : r \notin node[n].from
                         /\ req[r].pc \notin {"open", "write", "link", "done"}
                    /\ \A p \in Files!Paths : tree[p].is # "link"
  BY Zenon DEF Files!EscapeLeavesNothing
<1>1. ~Checked
  BY DEF Checked, Files!Refused
<1>2. ASSUME NEW r \in Files!Reqs, NEW n \in 1..Len(node), req[r].kind = "extract", r \in node[n].from
      PROVE  FALSE
  <2>1. r # 0
    BY FilesAssumption DEF Files!Reqs
  <2>2. Wrote(r)
    BY <1>2, <2>1 DEF FilesInv
  <2> QED BY <1>1, <1>2, <2>2 DEF Wrote
<1>3. \A r \in Files!Reqs : req[r].kind = "extract" => req[r].pc \notin {"open", "write", "link", "done"}
  BY <1>1 DEF FilesInv, InHand
<1>4. \A p \in Files!Paths : tree[p].is # "link"
  BY <1>1 DEF FilesInv, Trees
<1> QED BY <1>2, <1>3, <1>4

\* extract_archive looks at every name before it writes anything, so that of an
\* archive with a name outside its destination nothing is ever in any file,
\* whatever other requests copy, move, truncate or remove meanwhile.
THEOREM EscapesLeaveNothing == Files!Spec => []EscapeLeavesNothing
<1>1. Files!Init => FilesInv
  BY FilesStart
<1>2. FilesInv /\ [Files!Next]_(Files!vars) => FilesInv'
  BY FilesStep
<1>3. FilesInv => EscapeLeavesNothing
  BY NothingLeft DEF EscapeLeavesNothing
<1> QED BY <1>1, <1>2, <1>3, PTL DEF Files!Spec

\* What a step over a link leaves of the tree.
LEMMA RemadeFits ==
    ASSUME FilesInv, CalmInv, Remade, UNCHANGED uploads
    PROVE  WellFormed' /\ OneName'
<1>1. /\ WellFormed /\ OneName /\ tree \in Trees(Len(node)) /\ uploads \in Stagings(Len(node)) /\ Len(node) \in Nat
  BY DEF CalmInv, FilesInv
<1>2. CASE tree' = tree
  BY <1>1, <1>2 DEF WellFormed, Formed, OneName
<1>3. ASSUME NEW o \in Files!Paths, NEW e \in Entries, tree[o].is = "none", Files!HasParent(o),
             tree' = [tree EXCEPT ![o] = e], e.is # "none", e.is = "file" => e.node = Len(node) + 1
      PROVE  WellFormed' /\ OneName'
  <2>1. \A p \in Files!Paths : tree'[p] = IF p = o THEN e ELSE tree[p]
    BY <1>1, <1>3 DEF Trees
  <2>2. \A c \in Files!Paths : Len(c) = 2 /\ Files!Front(c) = o => tree[c].is = "none"
    BY <1>1, <1>3 DEF WellFormed, Formed
  <2>3. Formed([tree EXCEPT ![o] = e])
    BY <1>1, <1>3, <2>2, FormedExcept DEF WellFormed, Files!HasParent
  <2>4. /\ \A p \in Files!Paths : tree[p].is = "file" => tree[p].node # Len(node) + 1
        /\ \A x \in Names : uploads[x].is = "file" => uploads[x].node # Len(node) + 1
    BY <1>1 DEF Trees, Stagings
  <2>5. ASSUME NEW p \in Files!Paths, NEW w \in Files!Paths, tree'[p].is = "file", tree'[w].is = "file",
               tree'[p].node = tree'[w].node
        PROVE  p = w
    BY <1>1, <1>3, <2>1, <2>4, <2>5 DEF OneName
  <2>6. ASSUME NEW p \in Files!Paths, NEW x \in Names, tree'[p].is = "file", uploads[x].is = "file"
        PROVE  tree'[p].node # uploads[x].node
    BY <1>1, <1>3, <2>1, <2>4, <2>6 DEF OneName
  <2>7. OneName'
    BY <1>1, <2>5, <2>6 DEF OneName
  <2> QED BY <1>3, <2>3, <2>7 DEF WellFormed
<1>4. ASSUME NEW o \in Files!Paths, Files!Children(o) = {}, tree' = [tree EXCEPT ![o] = Files!Missing]
      PROVE  WellFormed' /\ OneName'
  <2>1. Files!Missing \in Entries /\ Files!Missing.is = "none"
    BY DirectoryFacts
  <2>2. \A p \in Files!Paths : tree'[p] = IF p = o THEN Files!Missing ELSE tree[p]
    BY <1>1, <1>4 DEF Trees
  <2>3. ASSUME NEW c \in Files!Paths, Len(c) = 2, Files!Front(c) = o PROVE tree[c].is = "none"
    <3>1. Files!IsPrefix(o, c) /\ o \in Files!Tops
      BY <2>3, FrontFacts
    <3>2. Len(o) = 1
      BY <3>1, PathShape
    <3>3. tree[c].is # "none" => c \in Files!Children(o)
      BY <2>3, <3>1, <3>2 DEF Files!Children
    <3> QED BY <1>4, <3>3
  <2>4. Formed([tree EXCEPT ![o] = Files!Missing])
    BY <1>1, <2>1, <2>3, FormedExcept DEF WellFormed
  <2>5. \A p \in Files!Paths : tree'[p].is = "file" => tree'[p] = tree[p]
    BY <2>1, <2>2
  <2>6. OneName'
    BY <1>1, <2>5 DEF OneName
  <2> QED BY <1>4, <2>4, <2>6 DEF WellFormed
<1>5. ASSUME NEW o \in Files!Paths, NEW t \in Files!Targets(o), tree' = Files!Moved(o, t)
      PROVE  WellFormed' /\ OneName'
  <2>1. t \in Files!Paths /\ tree[o].is # "none" /\ Files!HasParent(t) /\ ~Files!IsPrefix(o, t) /\ tree[t].is # "dir"
    BY DEF Files!Targets
  <2>2. o # t
    BY <2>1, PrefixOrder DEF Spots
  <2>3. ~Files!IsPrefix(t, o)
    BY <2>1, <2>2, RenameApart
  <2> QED BY <1>5, <2>1, <2>3, RenameFits
<1> QED BY <1>2, <1>3, <1>4, <1>5, Zenon DEF Remade

\* Nobody is calm any more, so nobody is disturbed.
LEMMA CalmStrays ==
    ASSUME FilesInv, FilesInv', CalmInv, NEW r \in Files!Reqs, Files!Astray(r), Files!Strays(r)
    PROVE  CalmInv'
<1>1. Files!Active(r) /\ Sane(req[r])
  BY StrayFacts DEF CalmInv
<1>2. CASE Files!Fail(r)
  BY <1>1, <1>2, CalmFailing
<1>3. ASSUME ~Files!Fail(r) PROVE CalmInv'
  <2>1. PICK q \in RequestType : StraysTo(r, q)
    BY <1>3, StrayHand
  <2>2. ASSUME NEW p \in RequestType, NEW w, w = [p EXCEPT !.clean = FALSE] PROVE SameWork(w, p) /\ ~w.clean
    <3>1. /\ w.pc = p.pc /\ w.kind = p.kind /\ w.name = p.name /\ w.path = p.path /\ w.to = p.to
          /\ w.left = p.left /\ w.dst = p.dst /\ w.clean = FALSE
      BY <2>2, Zenon DEF RequestType
    <3> QED BY <3>1 DEF SameWork
  <2>3. SameWork(req'[r], q) /\ ~req'[r].clean
    <3>1. req'[r] = [q EXCEPT !.clean = FALSE]
      BY <2>1 DEF StraysTo, Files!Goes
    <3> QED BY <2>2, <3>1
  <2>4. ASSUME NEW s \in Files!Reqs, s # r PROVE SameWork(req'[s], req[s]) /\ (Files!Active(s) => ~req'[s].clean)
    <3>1. req[s] \in RequestType
      BY DEF FilesInv
    <3>2. req'[s] = IF Files!Active(s) THEN [req[s] EXCEPT !.clean = FALSE] ELSE req[s]
      BY <2>1, <2>4 DEF StraysTo, Files!Goes
    <3>3. SameWork(req[s], req[s])
      BY DEF SameWork
    <3> QED BY <2>2, <3>1, <3>2, <3>3
  <2>5. ASSUME NEW s \in Files!Reqs PROVE ~Calm(s)'
    <3>1. s # r /\ Files!Active(s)' => Files!Active(s)
      BY <2>4 DEF Files!Active, SameWork
    <3> QED BY <2>3, <2>4, <3>1 DEF Calm
  <2>6. AloneInv' /\ HeldInv'
    BY <2>5 DEF AloneInv, HeldInv
  <2>7. WellFormed' /\ OneName'
    BY <2>1, RemadeFits DEF StraysTo
  <2>8. Len(node) \in Nat /\ Len(node') \in Nat /\ Len(node) <= Len(node')
    <3>1. ASSUME NEW e \in Entries, e.is = "file" => e.node \in 1..Len(node), node' = Files!Emptied(e)
          PROVE  Len(node) <= Len(node')
      BY <3>1, EmptiedFacts
    <3>2. Len(node) \in Nat /\ Len(node') \in Nat
      BY DEF FilesInv
    <3> QED BY <2>1, <3>1, <3>2 DEF StraysTo
  <2>9. \A x, n : IsStaged(x, n)' <=> IsStaged(x, n)
    BY <2>1 DEF StraysTo, IsStaged
  <2>10. Sane(req[r])' /\ OpenInode(req[r])'
    <3>1. PICK w : w = req'[r]
      OBVIOUS
    <3>2. Sane(w)
      BY <1>1, <2>1, <2>3, <3>1, SameWorkFacts DEF StraysTo
    <3>3. w.pc # "staged" /\ (w.pc = "write" => w.dst \in 1..Len(node') /\ \A x \in Names : ~IsStaged(x, w.dst))
      BY <2>1, <2>3, <3>1 DEF StraysTo, SameWork
    <3>4. OpenInode(w)'
      BY <2>9, <3>3 DEF OpenInode
    <3> QED BY <3>1, <3>2, <3>4, SaneStays
  <2>11. ASSUME NEW s \in Files!Reqs, s # r PROVE Sane(req[s])' /\ OpenInode(req[s])'
    <3>1. PICK w : w = req'[s]
      OBVIOUS
    <3>2. Sane(w) /\ OpenInode(w)
      BY <2>4, <2>11, <3>1, SameWorkFacts DEF CalmInv
    <3>3. OpenInode(w)'
      BY <2>8, <2>9, <3>2 DEF OpenInode
    <3> QED BY <3>1, <3>2, <3>3, SaneStays
  <2> QED BY <2>5, <2>6, <2>7, <2>10, <2>11 DEF CalmInv
<1> QED BY <1>2, <1>3

LEMMA CalmStart == Files!Init => CalmInv
<1> SUFFICES ASSUME Files!Init PROVE CalmInv
  OBVIOUS
<1>1. \A r \in Files!Reqs : req[r] = Files!Fresh /\ req[r].pc = "new"
  BY DEF Files!Init, Files!Fresh
<1>2. PICK x \in Names, d \in Names, y \in Names :
        /\ x # d
        /\ tree = [p \in Files!Paths |-> IF p = <<x>> THEN Files!File(1)
                                    ELSE IF p = <<d>> THEN Files!Directory
                                    ELSE IF p = <<d, y>> THEN Files!File(2) ELSE Files!Missing]
  BY DEF Files!Init
<1>3. /\ Files!Missing.is = "none" /\ Files!Directory.is = "dir"
      /\ Files!File(1).is = "file" /\ Files!File(1).node = 1
      /\ Files!File(2).is = "file" /\ Files!File(2).node = 2
  BY DEF Files!Missing, Files!Directory, Files!File
<1>4. \A n \in Names : uploads[n].is = "none"
  BY <1>3 DEF Files!Init
<1> HIDE DEF Files!Missing, Files!Directory, Files!File
<1>5. \A p \in Files!Paths : tree[p] = IF p = <<x>> THEN Files!File(1)
                                    ELSE IF p = <<d>> THEN Files!Directory
                                    ELSE IF p = <<d, y>> THEN Files!File(2) ELSE Files!Missing
  BY <1>2
<1>6. /\ <<d>> \in Files!Paths /\ <<x>> \in Files!Paths /\ Len(<<d>>) = 1 /\ Len(<<x>>) = 1 /\ <<d>> # <<x>>
      /\ Files!Front(<<d, y>>) = <<d>>
  <2>1. <<d>> \in Files!Paths /\ <<x>> \in Files!Paths
    BY DEF Files!Paths, Files!Tops
  <2>2. Len(<<d>>) = 1 /\ Len(<<x>>) = 1 /\ <<d>> # <<x>>
    BY <1>2
  <2>3. <<d>> \in Files!Tops
    BY DEF Files!Tops
  <2>4. Files!Front(Files!Under(<<d>>, y)) = <<d>>
    BY <2>3, UnderFacts
  <2>5. Files!Under(<<d>>, y) = <<d, y>>
    <3>1. PICK w : w = Append(<<d>>, y)
      OBVIOUS
    <3>2. w \in Seq(Names) /\ Len(w) = 2 /\ w[1] = d /\ w[2] = y
      BY <3>1
    <3>3. w = <<w[1], w[2]>>
      BY <3>2
    <3> QED BY <3>1, <3>2, <3>3 DEF Files!Under
  <2> QED BY <2>1, <2>2, <2>4, <2>5
<1>7. WellFormed
  <2>1. ASSUME NEW p \in Files!Paths, Len(p) = 2, tree[p].is # "none" PROVE tree[Files!Front(p)].is = "dir"
    <3>1. p # <<x>> /\ p # <<d>>
      BY <1>6, <2>1
    <3>2. p = <<d, y>>
      BY <1>3, <1>5, <2>1, <3>1
    <3>3. tree[<<d>>] = Files!Directory
      BY <1>5, <1>6, Zenon
    <3> QED BY <1>3, <1>6, <3>2, <3>3
  <2> QED BY <2>1 DEF WellFormed, Formed
<1>8. OneName
  <2>1. ASSUME NEW p \in Files!Paths, tree[p].is = "file"
        PROVE  (tree[p].node = 1 /\ p = <<x>>) \/ (tree[p].node = 2 /\ p = <<d, y>>)
    <3>1. \/ p = <<x>> /\ tree[p] = Files!File(1)
          \/ tree[p] = Files!Directory
          \/ p = <<d, y>> /\ tree[p] = Files!File(2)
          \/ tree[p] = Files!Missing
      BY <1>5, Zenon
    <3> QED BY <1>3, <2>1, <3>1
  <2> QED BY <1>4, <2>1 DEF OneName
<1>9. \A r \in Files!Reqs : ~Files!Active(r)
  BY <1>1 DEF Files!Active
<1>10. AloneInv /\ HeldInv /\ \A r \in Files!Reqs : Sane(req[r]) /\ OpenInode(req[r]) /\ ~Calm(r)
  BY <1>1, <1>9 DEF AloneInv, HeldInv, Calm, Sane, OpenInode
<1> QED BY <1>7, <1>8, <1>10 DEF CalmInv

LEMMA CalmStep == FilesInv /\ CalmInv /\ [Files!Next]_(Files!vars) => CalmInv'
<1> SUFFICES ASSUME FilesInv, CalmInv, [Files!Next]_(Files!vars) PROVE CalmInv'
  OBVIOUS
<1>0. FilesInv'
  BY FilesStep
<1>1. CASE Files!Request
  BY <1>0, <1>1, CalmRequest
<1>2. ASSUME NEW r \in Files!Reqs, Files!Upload(r) PROVE CalmInv'
  BY <1>0, <1>2, CalmStage, CalmStaged, CalmUnpack, CalmImport DEF Files!Upload
<1>3. ASSUME NEW r \in Files!Reqs, ~Files!Astray(r), Files!Copies(r) PROVE CalmInv'
  BY <1>0, <1>3, CalmWriteText, CalmCopyPath, CalmOpen, CalmCopy, CalmFinish DEF Files!Copies
<1>4. ASSUME NEW r \in Files!Reqs, Files!Unpacks(r) PROVE CalmInv'
  BY <1>0, <1>4, CalmExtract, CalmMember, CalmMakeLink DEF Files!Unpacks
<1>5. ASSUME NEW r \in Files!Reqs, Files!Changes(r) PROVE CalmInv'
  BY <1>0, <1>5, CalmMovePath, CalmRename, CalmRemovePath, CalmUnlink, CalmMakeDirectory
     DEF Files!Changes
<1>6. ASSUME NEW r \in Files!Reqs, Files!Reads(r) PROVE CalmInv'
  BY <1>0, <1>6, CalmReadText, CalmReadBytes DEF Files!Reads
<1>8. ASSUME NEW r \in Files!Reqs, Files!Astray(r), Files!Strays(r) PROVE CalmInv'
  BY <1>0, <1>8, CalmStrays
<1>7. CASE UNCHANGED Files!vars
  <2>1. UNCHANGED <<tree, uploads, node, archive>> /\ req' = req
    BY <1>7 DEF Files!vars
  <2>2. ASSUME NEW r \in Files!Reqs PROVE Sane(req[r])' /\ OpenInode(req[r])' /\ (Calm(r)' => Sound(r, req[r])')
    <3>1. PICK q : q = req[r]
      OBVIOUS
    <3>2. Sane(q)' /\ OpenInode(q)'
      BY <2>1, <3>1, SaneStays DEF CalmInv, OpenInode, IsStaged
    <3>3. ASSUME Calm(r)' PROVE Sound(r, q)'
      <4>1. Sound(r, q)
        BY <2>1, <3>1, <3>3 DEF CalmInv, Calm, Files!Active
      <4> QED BY <2>1, <4>1, SoundSame
    <3> QED BY <2>1, <3>1, <3>2, <3>3
  <2>3. WellFormed' /\ OneName'
    BY <2>1 DEF CalmInv, WellFormed, Formed, OneName
  <2>4. AloneInv' /\ HeldInv'
    BY <2>1 DEF CalmInv, AloneInv, HeldInv, Calm, Files!Active, Files!Conflict, Below, IsFile
  <2> QED BY <2>2, <2>3, <2>4 DEF CalmInv
<1> QED BY <1>1, <1>2, <1>3, <1>4, <1>5, <1>6, <1>7, <1>8 DEF Files!Next

-------------------------------------------------------------------------------
(* What a request has done when it answers ok.                               *)

Ends(r) == ~Files!At(r, "done") /\ Files!At(r, "done")' /\ req'[r].clean

\* What a request holds that is about to answer, and what of it stays.
LEMMA EndFacts ==
    ASSUME FilesInv, FilesInv', CalmInv, NEW r \in Files!Reqs, Files!Active(r), Files!Go(r, "done"), Ends(r)
    PROVE  \E w, q \in RequestType :
             /\ w = req[r] /\ q = req'[r] /\ Sound(r, w) /\ Sane(w) /\ InHand(w, Len(node), Checked) /\ Calm(r)
             /\ q.kind = w.kind /\ q.to = w.to /\ q.path = w.path /\ q.src = w.src
<1>1. PICK w \in RequestType : w = req[r]
  BY DEF FilesInv
<1>2. PICK q : q = [w EXCEPT !.pc = "done"]
  OBVIOUS
<1>3. req' = [req EXCEPT ![r] = q]
  BY <1>1, <1>2, Zenon DEF Files!Go
<1>4. q = req'[r] /\ q \in RequestType
  BY <1>3 DEF FilesInv
<1>5. q.kind = w.kind /\ q.to = w.to /\ q.path = w.path /\ q.src = w.src /\ q.clean = w.clean
  BY <1>1, <1>2, Zenon DEF RequestType
<1>6. Calm(r)
  BY <1>1, <1>4, <1>5 DEF Calm, Ends
<1>7. Sound(r, w) /\ Sane(w) /\ InHand(w, Len(node), Checked)
  BY <1>1, <1>6 DEF CalmInv, FilesInv
<1> QED BY <1>1, <1>4, <1>5, <1>6, <1>7

LEMMA DoesFinish ==
    ASSUME FilesInv, FilesInv', CalmInv, NEW r \in Files!Reqs, Files!Finish(r), Ends(r)
    PROVE  Files!Did(r)'
<1>1. /\ req[r].pc = "open" /\ req[r].left = << >> /\ UNCHANGED <<tree, uploads, node, archive>> /\ Files!Active(r)
      /\ Files!Go(r, IF req[r].kind = "copy" /\ req[r].flag THEN "failed" ELSE "done")
  BY DEF Files!Finish, Files!At, Files!Active
<1>2. ~(req[r].kind = "copy" /\ req[r].flag) /\ Files!Go(r, "done")
  <2>1. ASSUME req[r].kind = "copy" /\ req[r].flag PROVE FALSE
    <3>1. Files!Go(r, "failed")
      BY <1>1, <2>1
    <3>2. PICK q : q = [req[r] EXCEPT !.pc = "failed"]
      OBVIOUS
    <3>3. q.pc = "failed"
      BY <3>2, Zenon DEF FilesInv, RequestType
    <3>4. req'[r] = q
      BY <3>1, <3>2 DEF FilesInv, Files!Go
    <3> QED BY <3>3, <3>4 DEF Ends, Files!At
  <2> QED BY <1>1, <2>1
<1>3. PICK w \in RequestType, q \in RequestType :
             /\ w = req[r] /\ q = req'[r] /\ Sound(r, w) /\ Sane(w) /\ InHand(w, Len(node), Checked) /\ Calm(r)
             /\ q.kind = w.kind /\ q.to = w.to /\ q.path = w.path /\ q.src = w.src
  BY <1>1, <1>2, EndFacts
<1>4. w.pc = "open" /\ w.left = << >> /\ w.kind \in {"upload", "import", "write", "copy", "extract"}
  BY <1>1, <1>3 DEF Sane
<1>5. w.kind \in {"upload", "import"} => IsStaged(w.name, w.src) /\ Files!Holds(w.to, node[w.src])
  BY <1>3, <1>4 DEF Sound, UploadSound
<1>6. w.kind = "upload" => Files!Holds(w.to, Files!Own(r))
  <2>1. w.kind = "upload" => node[uploads[w.name].node] = Files!Own(r)
    BY <1>3, <1>4 DEF Sound, UploadSound
  <2> QED BY <1>5, <2>1 DEF IsStaged
<1>7. w.kind = "write" => Files!Holds(w.to, Files!Own(r))
  BY <1>3, <1>4 DEF Sound, WriteSound
<1>8. w.kind = "copy" => FileCopied(w) \/ DirectoryCopied(w)
  BY <1>2, <1>3, <1>4 DEF Sound, CopySound
<1>9. FileCopied(w) =>
        tree[w.path].is = "file" /\ Files!Holds(w.to, node[w.src]) /\ Files!Holds(w.path, node[w.src])
  <2>1. w.left # <<FileItem(w)>>
    BY <1>4
  <2> QED BY <2>1 DEF FileCopied, IsFile, Files!Holds
<1>10. DirectoryCopied(w) =>
         /\ tree[w.path].is # "file"
         /\ \A c \in Files!Children(w.path) : Files!Holds(Files!Under(w.to, Files!Last(c)), node[tree[c].node])
  <2>1. ASSUME DirectoryCopied(w), NEW c \in Files!Children(w.path)
        PROVE  Files!Holds(Files!Under(w.to, Files!Last(c)), node[tree[c].node])
    <3>1. c \in Inside(w.path) /\ tree[c].is # "none"
      BY DEF Files!Children, Inside
    <3>2. ChildCopied(w, c)
      BY <2>1, <3>1 DEF DirectoryCopied
    <3>3. ~\E k \in 1..Len(w.left) : w.left[k].from = c
      BY <1>4
    <3> QED BY <3>1, <3>2, <3>3, Zenon DEF ChildCopied, Counterpart
  <2> QED BY <2>1 DEF DirectoryCopied
<1>11. w.kind = "extract" =>
         \A k \in 1..Len(archive.members) :
           archive.members[k].kind = "file" /\ OneOfItsName(archive, k) =>
             Files!Holds(Files!Under(w.to, archive.members[k].name), Files!Own(r))
  <2>1. ASSUME w.kind = "extract"
        PROVE \A k \in 1..Len(archive.members) :
                 archive.members[k].kind = "file" /\ OneOfItsName(archive, k) =>
                   Files!Holds(Files!Under(w.to, archive.members[k].name), Files!Own(r))
    <3>1. PICK n \in 0..Len(archive.members) : Extracted(r, w, archive, n)
      BY <1>3, <1>4, <2>1 DEF Sound, ExtractSound
    <3>2. archive \in Archives
      BY <1>3, <1>4, <2>1 DEF Sound, ExtractSound, FilesInv
    <3>3. Len(archive.members) \in Nat
      BY <3>2, FilesAssumption DEF Files!ArchiveType
    <3>4. n = Len(archive.members)
      BY <1>4, <3>1, <3>3 DEF Extracted
    <3> QED BY <3>1, <3>4 DEF Extracted
  <2> QED BY <2>1
<1>12. tree' = tree /\ node' = node /\ archive' = archive
  BY <1>1
<1>13. q.kind = "extract" => Files!Did(r)'
  BY <1>3, <1>11, <1>12, Zenon DEF Files!Did, Files!Holds, OneOfItsName, Files!Own
<1>14. q.kind = "copy" => Files!Did(r)'
  <2>1. q.path = w.path /\ q.to = w.to /\ q.src = w.src /\ q = req'[r]
    BY <1>3
  <2>2. CASE FileCopied(w)
    BY <1>9, <1>12, <2>1, <2>2 DEF Files!Did, Files!Holds
  <2>3. CASE DirectoryCopied(w)
    <3>1. tree'[q.path].is # "file"
      BY <1>10, <1>12, <2>1, <2>3
    <3>2. \A c \in Files!Children(q.path)' : Files!Holds(Files!Under(q.to, Files!Last(c)), node[tree[c].node])'
      <4>1. Files!Children(q.path)' = Files!Children(w.path)
        BY <1>12, <2>1, Zenon DEF Files!Children
      <4>2. ASSUME NEW c \in Files!Children(w.path)
            PROVE  Files!Holds(Files!Under(q.to, Files!Last(c)), node[tree[c].node])'
        <5>1. Files!Holds(Files!Under(w.to, Files!Last(c)), node[tree[c].node])
          BY <1>10, <2>3, Zenon
        <5> QED BY <1>12, <2>1, <5>1, Zenon DEF Files!Holds
      <4> QED BY <4>1, <4>2, Zenon
    <3> QED BY <2>1, <3>1, <3>2, Zenon DEF Files!Did
  <2> QED BY <1>3, <1>8, <2>2, <2>3
<1>15. q.kind \in {"upload", "import", "write"} => Files!Did(r)'
  BY <1>3, <1>5, <1>6, <1>7, <1>12 DEF Files!Did, Files!Holds, Files!Own
<1> QED BY <1>3, <1>4, <1>13, <1>14, <1>15

LEMMA DoesMakeDirectory ==
    ASSUME FilesInv, FilesInv', CalmInv, NEW r \in Files!Reqs, Files!MakeDirectory(r), Ends(r)
    PROVE  Files!Did(r)'
<1>1. Files!Active(r) /\ req[r].kind = "mkdir"
  BY DEF Files!MakeDirectory, Files!At, Files!Active
<1>2. CASE Files!Fail(r)
  <2>1. req'[r].pc = "failed"
    BY <1>2 DEF Files!Fail, Files!Go, FilesInv
  <2> QED BY <2>1 DEF Ends, Files!At
<1>3. ASSUME ~Files!Fail(r) PROVE Files!Did(r)'
  <2>1. tree' = [tree EXCEPT ![req[r].path] = Files!Directory] /\ Files!Go(r, "done") /\ UNCHANGED <<uploads, node, archive>>
    BY <1>3, Zenon DEF Files!MakeDirectory
  <2>2. PICK w \in RequestType, q \in RequestType :
           /\ w = req[r] /\ q = req'[r] /\ Sound(r, w) /\ Sane(w) /\ InHand(w, Len(node), Checked) /\ Calm(r)
           /\ q.kind = w.kind /\ q.to = w.to /\ q.path = w.path /\ q.src = w.src
    BY <1>1, <2>1, EndFacts
  <2>3. w.path \in Files!Paths /\ Files!Directory.is = "dir"
    BY <1>1, <2>2, PathShape DEF Sane, Files!Active, Files!Directory
  <2>4. tree'[q.path].is = "dir"
    BY <2>1, <2>2, <2>3 DEF FilesInv, Trees
  <2> QED BY <1>1, <2>2, <2>4 DEF Files!Did
<1> QED BY <1>2, <1>3

\* What is in a directory that nothing is in, or that is none.
LEMMA NothingBelow ==
    ASSUME FilesInv, CalmInv, NEW p \in Files!Paths, tree[p].is # "dir" \/ Files!Children(p) = {},
           tree' = [tree EXCEPT ![p] = Files!Missing]
    PROVE  \A o \in Files!Paths : Files!IsPrefix(p, o) => tree'[o].is = "none"
<1>1. \A o \in Files!Paths : tree'[o] = IF o = p THEN Files!Missing ELSE tree[o]
  BY DEF FilesInv, Trees
<1>2. Files!Missing.is = "none"
  BY DEF Files!Missing
<1>3. ASSUME NEW o \in Files!Paths, Files!IsPrefix(p, o), o # p PROVE tree[o].is = "none"
  <2>1. PICK x \in Names : p \in Files!Tops /\ o = Files!Under(p, x)
    BY <1>3, Spread
  <2>2. Len(o) = Len(p) + 1 /\ Files!Front(o) = p /\ Len(o) = 2
    BY <2>1, UnderFacts, PathShape
  <2>3. tree[o].is # "none" => tree[p].is = "dir"
    BY <2>2 DEF CalmInv, WellFormed, Formed
  <2>4. tree[o].is # "none" => o \in Files!Children(p)
    BY <1>3, <2>2 DEF Files!Children
  <2> QED BY <2>3, <2>4
<1> QED BY <1>1, <1>2, <1>3

LEMMA DoesRemove ==
    ASSUME FilesInv, FilesInv', CalmInv, NEW r \in Files!Reqs, Files!RemovePath(r) \/ Files!Unlink(r), Ends(r)
    PROVE  Files!Did(r)'
<1>1. Files!Active(r) /\ req[r].kind = "remove" /\ req[r].path \in Files!Paths /\ req[r] \in RequestType
  BY DEF Files!RemovePath, Files!Unlink, Files!At, Files!Active, FilesInv, InHand
<1>2. ASSUME NEW q \in RequestType, req'[r] = q PROVE q.pc = "done"
  BY <1>2 DEF Ends, Files!At
<1>3. ASSUME NEW q, q.pc # "done", req' = [req EXCEPT ![r] = q] PROVE FALSE
  <2>1. req'[r] = q
    BY <1>3 DEF FilesInv
  <2> QED BY <1>3, <2>1 DEF Ends, Files!At
<1>4. ~Files!Fail(r)
  <2>1. ASSUME Files!Fail(r) PROVE req'[r].pc = "failed"
    BY <2>1 DEF Files!Fail, Files!Go, FilesInv
  <2> QED BY <2>1 DEF Ends, Files!At
<1>5. /\ Files!Go(r, "done") /\ tree' = [tree EXCEPT ![req[r].path] = Files!Missing]
      /\ tree[req[r].path].is # "dir" \/ Files!Children(req[r].path) = {}
  <2>1. CASE Files!RemovePath(r)
    <3>1. ASSUME NEW names, req' = [req EXCEPT ![r].pc = "unlink",
                      ![r].left = [k \in 1..Len(names) |->
                                     [from |-> Files!Root, to |-> Files!Under(req[r].path, names[k]), kind |-> "own"]]]
          PROVE  FALSE
      <4>1. PICK left : left = [k \in 1..Len(names) |->
                                   [from |-> Files!Root, to |-> Files!Under(req[r].path, names[k]), kind |-> "own"]]
        OBVIOUS
      <4>2. PICK q : q = [req[r] EXCEPT !.pc = "unlink", !.left = left]
        OBVIOUS
      <4>3. q.pc = "unlink"
        BY <1>1, <4>2, Zenon DEF RequestType
      <4>4. req' = [req EXCEPT ![r] = q]
        BY <3>1, <4>1, <4>2, Zenon
      <4> QED BY <1>3, <4>3, <4>4
    <3>2. /\ tree[req[r].path].is = "file" /\ tree' = [tree EXCEPT ![req[r].path] = Files!Missing]
          /\ Files!Go(r, "done")
      BY <1>4, <2>1, <3>1, Zenon DEF Files!RemovePath
    <3> QED BY <3>2
  <2>2. CASE Files!Unlink(r)
    <3>1. ASSUME req' = [req EXCEPT ![r].left = Tail(@)] PROVE FALSE
      <4>1. PICK q : q = [req[r] EXCEPT !.left = Tail(@)]
        OBVIOUS
      <4>2. q.pc = "unlink"
        BY <1>1, <2>2, <4>1, Zenon DEF RequestType, Files!Unlink, Files!At
      <4>3. req' = [req EXCEPT ![r] = q]
        BY <3>1, <4>1, Zenon
      <4> QED BY <1>3, <4>2, <4>3
    <3> QED BY <1>4, <2>2, <3>1, Zenon DEF Files!Unlink
  <2> QED BY <2>1, <2>2
<1>6. PICK w \in RequestType, q \in RequestType :
             /\ w = req[r] /\ q = req'[r] /\ Sound(r, w) /\ Sane(w) /\ InHand(w, Len(node), Checked) /\ Calm(r)
             /\ q.kind = w.kind /\ q.to = w.to /\ q.path = w.path /\ q.src = w.src
  BY <1>1, <1>5, EndFacts
<1>7. \A o \in Files!Paths : Files!IsPrefix(q.path, o) => tree'[o].is = "none"
  BY <1>1, <1>5, <1>6, NothingBelow
<1> QED BY <1>1, <1>6, <1>7 DEF Files!Did

LEMMA DoesReadBytes ==
    ASSUME FilesInv, FilesInv', CalmInv, NEW r \in Files!Reqs, Files!ReadBytes(r), Ends(r)
    PROVE  Files!Did(r)'
<1>1. /\ Files!Active(r) /\ req[r].kind = "read" /\ req[r].pc = "read" /\ req[r].path \in Files!Paths /\ req[r] \in RequestType
      /\ UNCHANGED <<tree, uploads, node, archive>>
  BY DEF Files!ReadBytes, Files!At, Files!Active, FilesInv, InHand
<1>2. PICK w \in RequestType : w = req[r]
  BY <1>1
<1>3. PICK p \in Files!Paths : p = w.path /\ p \in Below(w)
  BY <1>1, <1>2, BelowFacts
<1>4. tree[p].is = "file"
  <2>1. ASSUME tree[p].is # "file" PROVE FALSE
    <3>1. req' = [req EXCEPT ![r].pc = "failed"]
      BY <1>2, <1>3, <2>1 DEF Files!ReadBytes
    <3>2. req'[r].pc = "failed"
      BY <3>1 DEF FilesInv
    <3> QED BY <3>2 DEF Ends, Files!At
  <2> QED BY <2>1
<1>5. PICK q : q = [w EXCEPT !.pc = "done", !.got = node[tree[p].node].from]
  OBVIOUS
<1>6. req' = [req EXCEPT ![r] = q]
  <2>1. req' = [req EXCEPT ![r].pc = "done", ![r].got = node[tree[req[r].path].node].from]
    BY <1>2, <1>3, <1>4 DEF Files!ReadBytes
  <2> QED BY <1>2, <1>3, <1>5, <2>1, Zenon
<1>7. req'[r] = q /\ \A s \in Files!Reqs : s # r => req'[s] = req[s]
  BY <1>6 DEF FilesInv
<1>8. /\ q.pc = "done" /\ q.kind = "read" /\ q.path = p /\ q.got = node[tree[p].node].from /\ q.clean = w.clean
  BY <1>1, <1>2, <1>3, <1>5, Zenon DEF RequestType
<1>9. Calm(r)
  BY <1>1, <1>2, <1>7, <1>8 DEF Calm, Ends
<1>10. ASSUME NEW s \in Files!Reqs, req'[s].pc = "write" PROVE req'[s].dst # tree[p].node
  <2>1. s # r /\ req'[s] = req[s]
    BY <1>7, <1>8, <1>10
  <2>2. ~IsFile(p, req[s].dst)
    BY <1>2, <1>3, <1>9, <1>10, <2>1 DEF CalmInv, HeldInv
  <2> QED BY <1>4, <2>1, <2>2 DEF IsFile
<1>11. Files!Holds(p, node[tree[p].node])'
  BY <1>1, <1>4 DEF Files!Holds
<1> QED BY <1>1, <1>7, <1>8, <1>10, <1>11 DEF Files!Did, Files!At

LEMMA DoesRename ==
    ASSUME FilesInv, FilesInv', CalmInv, NEW r \in Files!Reqs, Files!Rename(r), Ends(r)
    PROVE  Files!Did(r)'
<1>1. ~Files!Fail(r)
  <2>1. ASSUME Files!Fail(r) PROVE req'[r].pc = "failed"
    BY <2>1 DEF Files!Fail, Files!Go, FilesInv
  <2> QED BY <2>1 DEF Ends, Files!At
<1>2. /\ Files!Active(r) /\ req[r].kind = "move" /\ req[r] \in RequestType /\ req[r].pc = "rename"
      /\ req[r].path \in Files!Paths /\ tree[req[r].path].is # "none"
  BY <1>1, RenameFacts, Zenon
<1>3. PICK target \in Files!Paths :
                /\ req' = [req EXCEPT ![r].pc = "done", ![r].to = target]
                /\ Files!IsPrefix(req[r].to, target)
                /\ \/ target = req[r].path /\ tree' = tree
                   \/ /\ target # req[r].path /\ tree' = Files!Moved(req[r].path, target) /\ Files!HasParent(target)
                      /\ ~Files!IsPrefix(req[r].path, target) /\ ~Files!IsPrefix(target, req[r].path)
  BY <1>1, RenameFacts, Zenon
<1>4. PICK w \in RequestType : w = req[r]
  BY <1>2
<1>5. PICK p \in Files!Paths : p = w.path
  BY <1>2, <1>4
<1>6. PICK q : q = [w EXCEPT !.pc = "done", !.to = target]
  OBVIOUS
<1>7. req' = [req EXCEPT ![r] = q]
  BY <1>3, <1>4, <1>6, Zenon
<1>8. req'[r] = q
  BY <1>7 DEF FilesInv
<1>9. q.kind = "move" /\ q.path = p /\ q.to = target /\ q.src = w.src /\ q.clean = w.clean
  BY <1>2, <1>4, <1>5, <1>6, Zenon DEF RequestType
<1>10. tree[p].is # "none" /\ tree[p].node = w.src
  <2>1. Sound(r, w)
    BY <1>2, <1>4, <1>8, <1>9 DEF CalmInv, Calm, Ends
  <2> QED BY <1>2, <1>4, <1>5, <2>1 DEF Sound, MoveSound
<1>11. CASE target = p
  <2>1. tree' = tree
    BY <1>3, <1>4, <1>5, <1>11
  <2> QED BY <1>8, <1>9, <1>10, <1>11, <2>1 DEF Files!Did
<1>12. CASE target # p
  <2>1. tree' = Files!Moved(p, target) /\ ~Files!IsPrefix(target, p)
    BY <1>3, <1>4, <1>5, <1>12
  <2>2. tree'[target] = tree[p] /\ tree'[p] = Files!Missing
    BY <2>1, MovedTo, PrefixOrder DEF Spots
  <2>3. tree'[p].is = "none"
    BY <2>2 DEF Files!Missing
  <2> QED BY <1>8, <1>9, <1>10, <2>2, <2>3 DEF Files!Did
<1> QED BY <1>11, <1>12

\* A step is of one request, and only these end one with an answer.
LastSteps(r) ==
    Files!Finish(r) \/ Files!Rename(r) \/ Files!RemovePath(r) \/ Files!Unlink(r) \/ Files!MakeDirectory(r) \/ Files!ReadBytes(r)
Working(s) == \A r \in Files!Reqs : req'[r].pc # "done" \/ (r # s /\ req'[r].pc = req[r].pc)

LEMMA StillWorking ==
    ASSUME FilesInv, NEW s \in Files!Reqs,
           \/ \E pc \in FilePlaces \ {"done"} : Files!Go(s, pc)
           \/ Files!Stage(s) \/ Files!Staged(s) \/ Files!Unpack(s) \/ Files!Import(s)
           \/ Files!WriteText(s) \/ Files!CopyPath(s) \/ Files!Open(s) \/ Files!Copy(s)
           \/ Files!Extract(s) \/ Files!Member(s) \/ Files!MakeLink(s) \/ Files!MovePath(s) \/ Files!ReadText(s)
    PROVE  Working(s)
<1>1. req \in [Files!Reqs -> RequestType]
  BY DEF FilesInv
<1>2. ASSUME NEW e, e.pc # "done", req' = [req EXCEPT ![s] = e] PROVE Working(s)
  BY <1>1, <1>2 DEF Working
<1>3. ASSUME NEW pc \in FilePlaces \ {"done"}, Files!Go(s, pc) PROVE Working(s)
  <2>1. PICK e : e = [req[s] EXCEPT !.pc = pc]
    OBVIOUS
  <2>2. e.pc = pc /\ req' = [req EXCEPT ![s] = e]
    BY <1>1, <1>3, <2>1, Zenon DEF Files!Go, RequestType
  <2> QED BY <1>2, <1>3, <2>2
<1>4. Files!Fail(s) => Working(s)
  BY <1>3 DEF Files!Fail, FilePlaces
<1>5. ASSUME Files!Stage(s) PROVE Working(s)
  <2>1. PICK d : req' = [req EXCEPT ![s].pc = "staged", ![s].dst = d]
    BY <1>5, Zenon DEF Files!Stage
  <2>2. PICK e : e = [req[s] EXCEPT !.pc = "staged", !.dst = d]
    OBVIOUS
  <2>3. e.pc = "staged" /\ req' = [req EXCEPT ![s] = e]
    BY <1>1, <2>1, <2>2, Zenon DEF RequestType
  <2> QED BY <1>2, <2>3
<1>6. Files!Staged(s) => Working(s)
  BY <1>3 DEF Files!Staged, FilePlaces
<1>7. Files!Unpack(s) => Working(s)
  BY <1>4 DEF Files!Unpack
<1>8. ASSUME NEW left, NEW to, req' = [req EXCEPT ![s].pc = "open", ![s].to = to, ![s].left = left] PROVE Working(s)
  <2>1. PICK e : e = [req[s] EXCEPT !.pc = "open", !.to = to, !.left = left]
    OBVIOUS
  <2>2. e.pc = "open" /\ req' = [req EXCEPT ![s] = e]
    BY <1>1, <1>8, <2>1, Zenon DEF RequestType
  <2> QED BY <1>2, <2>2
<1>9. Files!Import(s) => Working(s)
  BY <1>4, <1>8, Zenon DEF Files!Import
<1>10. ASSUME NEW left, req' = [req EXCEPT ![s].pc = "open", ![s].left = left] PROVE Working(s)
  <2>1. PICK e : e = [req[s] EXCEPT !.pc = "open", !.left = left]
    OBVIOUS
  <2>2. e.pc = "open" /\ req' = [req EXCEPT ![s] = e]
    BY <1>1, <1>10, <2>1, Zenon DEF RequestType
  <2> QED BY <1>2, <2>2
<1>11. Files!WriteText(s) => Working(s)
  BY <1>4, <1>10, Zenon DEF Files!WriteText
<1>12. ASSUME NEW left, NEW to, NEW src,
              req' = [req EXCEPT ![s].pc = "open", ![s].left = left, ![s].to = to, ![s].src = src] PROVE Working(s)
  <2>1. PICK e : e = [req[s] EXCEPT !.pc = "open", !.left = left, !.to = to, !.src = src]
    OBVIOUS
  <2>2. e.pc = "open" /\ req' = [req EXCEPT ![s] = e]
    BY <1>1, <1>12, <2>1, Zenon DEF RequestType
  <2> QED BY <1>2, <2>2
<1>13. ASSUME Files!CopyPath(s) PROVE Working(s)
  <2> DEFINE items(names, target) ==
               IF tree[req[s].path].is = "file" THEN <<[from |-> req[s].path, to |-> target, kind |-> "path"]>>
               ELSE [k \in 1..Len(names) |->
                       [from |-> Files!Under(req[s].path, names[k]), to |-> Files!Under(req[s].to, names[k]), kind |-> "path"]]
  <2>1. PICK target : target = IF tree[req[s].path].is = "file" /\ tree[req[s].to].is = "dir"
                               THEN Files!Under(req[s].to, Files!Last(req[s].path)) ELSE req[s].to
    OBVIOUS
  <2>2. \/ Files!Fail(s)
        \/ \E names \in Files!Listings(req[s].path) :
               req' = [req EXCEPT ![s].pc = "open", ![s].left = items(names, target), ![s].to = target,
                                  ![s].src = tree[req[s].path].node]
    BY <1>13, <2>1, Zenon DEF Files!CopyPath
  <2> HIDE DEF items
  <2> QED BY <1>4, <1>12, <2>2, Zenon
<1>14. ASSUME NEW src, NEW dst, req' = [req EXCEPT ![s].pc = "write", ![s].dst = dst, ![s].src = src] PROVE Working(s)
  <2>1. PICK e : e = [req[s] EXCEPT !.pc = "write", !.dst = dst, !.src = src]
    OBVIOUS
  <2>2. e.pc = "write" /\ req' = [req EXCEPT ![s] = e]
    BY <1>1, <1>14, <2>1, Zenon DEF RequestType
  <2> QED BY <1>2, <2>2
<1>15. ASSUME req' = [req EXCEPT ![s].left = Tail(@), ![s].flag = TRUE], req[s].pc # "done" PROVE Working(s)
  <2>1. PICK e : e = [req[s] EXCEPT !.left = Tail(@), !.flag = TRUE]
    OBVIOUS
  <2>2. e.pc = req[s].pc /\ req' = [req EXCEPT ![s] = e]
    BY <1>1, <1>15, <2>1, Zenon DEF RequestType
  <2> QED BY <1>2, <1>15, <2>2
<1>16. ASSUME Files!Open(s) PROVE Working(s)
  <2>1. req[s].pc # "done"
    BY <1>16 DEF Files!Open, Files!At
  <2>2. PICK item : item = Head(req[s].left)
    OBVIOUS
  <2>3. \/ Files!Fail(s)
        \/ req' = [req EXCEPT ![s].left = Tail(@), ![s].flag = TRUE]
        \/ req' = [req EXCEPT ![s].pc = "write", ![s].dst = Files!Opened(tree[item.to]),
                              ![s].src = IF item.kind = "file" THEN @ ELSE Files!Source(s, item).node]
    BY <1>16, <2>2, Zenon DEF Files!Open
  <2>4. ASSUME NEW dst, NEW src,
               req' = [req EXCEPT ![s].pc = "write", ![s].dst = dst, ![s].src = IF item.kind = "file" THEN @ ELSE src]
        PROVE  Working(s)
    <3>1. PICK v : v = IF item.kind = "file" THEN req[s].src ELSE src
      OBVIOUS
    <3>2. req' = [req EXCEPT ![s].pc = "write", ![s].dst = dst, ![s].src = v]
      BY <1>1, <2>4, <3>1
    <3> QED BY <1>14, <3>2
  <2>5. (\E dst, src : req' = [req EXCEPT ![s].pc = "write", ![s].dst = dst,
                                          ![s].src = IF item.kind = "file" THEN @ ELSE src]) => Working(s)
    BY <2>4
  <2> QED BY <1>4, <1>15, <2>1, <2>3, <2>5, Zenon
<1>17. ASSUME req' = [req EXCEPT ![s].pc = "open", ![s].left = Tail(@)] PROVE Working(s)
  <2>1. PICK e : e = [req[s] EXCEPT !.pc = "open", !.left = Tail(@)]
    OBVIOUS
  <2>2. e.pc = "open" /\ req' = [req EXCEPT ![s] = e]
    BY <1>1, <1>17, <2>1, Zenon DEF RequestType
  <2> QED BY <1>2, <2>2
<1>18. Files!Copy(s) => Working(s)
  BY <1>4, <1>17, Zenon DEF Files!Copy
<1>19. ASSUME NEW left, NEW src, req' = [req EXCEPT ![s].pc = "open", ![s].src = src, ![s].left = left] PROVE Working(s)
  <2>1. PICK e : e = [req[s] EXCEPT !.pc = "open", !.src = src, !.left = left]
    OBVIOUS
  <2>2. e.pc = "open" /\ req' = [req EXCEPT ![s] = e]
    BY <1>1, <1>19, <2>1, Zenon DEF RequestType
  <2> QED BY <1>2, <2>2
<1>20. ASSUME Files!Extract(s) PROVE Working(s)
  <2>1. Files!Go(s, "failed") \/ \E left, src : req' = [req EXCEPT ![s].pc = "open", ![s].src = src, ![s].left = left]
    BY <1>20, Zenon DEF Files!Extract
  <2>2. Files!Go(s, "failed") => Working(s)
    BY <1>3 DEF FilePlaces
  <2> QED BY <1>19, <2>1, <2>2
<1>21. ASSUME Files!Member(s) PROVE Working(s)
  <2>1. Files!Fail(s) \/ req' = [req EXCEPT ![s].left = Tail(@)] \/ Files!Go(s, "link")
    BY <1>21, Zenon DEF Files!Member
  <2>5. Files!Go(s, "link") => Working(s)
    BY <1>3 DEF FilePlaces
  <2>2. PICK e : e = [req[s] EXCEPT !.left = Tail(@)]
    OBVIOUS
  <2>3. e.pc = "open"
    BY <1>1, <1>21, <2>2, Zenon DEF RequestType, Files!Member, Files!At
  <2>4. req' = [req EXCEPT ![s].left = Tail(@)] => req' = [req EXCEPT ![s] = e]
    BY <2>2, Zenon
  <2> QED BY <1>2, <1>4, <2>1, <2>3, <2>4, <2>5
<1>24. Files!MakeLink(s) => Working(s)
  BY <1>4, <1>17, Zenon DEF Files!MakeLink
<1>22. ASSUME Files!MovePath(s) PROVE Working(s)
  <2>1. Files!Fail(s) \/ \E src : req' = [req EXCEPT ![s].pc = "rename", ![s].src = src]
    BY <1>22, Zenon DEF Files!MovePath
  <2>2. ASSUME NEW src, req' = [req EXCEPT ![s].pc = "rename", ![s].src = src] PROVE Working(s)
    <3>1. PICK e : e = [req[s] EXCEPT !.pc = "rename", !.src = src]
      OBVIOUS
    <3>2. e.pc = "rename" /\ req' = [req EXCEPT ![s] = e]
      BY <1>1, <2>2, <3>1, Zenon DEF RequestType
    <3> QED BY <1>2, <3>2
  <2> QED BY <1>4, <2>1, <2>2
<1>23. Files!ReadText(s) => Working(s)
  BY <1>3 DEF Files!ReadText, FilePlaces
<1> QED BY <1>3, <1>5, <1>6, <1>7, <1>9, <1>11, <1>13, <1>16, <1>18, <1>20, <1>21, <1>22, <1>23, <1>24

LEMMA OneAtATime ==
    ASSUME FilesInv, NEW s \in Files!Reqs, LastSteps(s), NEW r \in Files!Reqs, r # s
    PROVE  req'[r] = req[r]
<1>1. req \in [Files!Reqs -> RequestType]
  BY DEF FilesInv
<1>2. ASSUME NEW e, req' = [req EXCEPT ![s] = e] PROVE req'[r] = req[r]
  BY <1>1, <1>2
<1>3. ASSUME NEW pc, Files!Go(s, pc) PROVE req'[r] = req[r]
  BY <1>1, <1>3 DEF Files!Go
<1>4. Files!Fail(s) => req'[r] = req[r]
  BY <1>3 DEF Files!Fail
<1>5. Files!Finish(s) => req'[r] = req[r]
  BY <1>3 DEF Files!Finish
<1>6. ASSUME Files!Rename(s) PROVE req'[r] = req[r]
  <2>1. Files!Fail(s) \/ \E to : req' = [req EXCEPT ![s].pc = "done", ![s].to = to]
    BY <1>6, Zenon DEF Files!Rename
  <2>2. ASSUME NEW to, req' = [req EXCEPT ![s].pc = "done", ![s].to = to] PROVE req'[r] = req[r]
    BY <1>1, <2>2
  <2> QED BY <1>4, <2>1, <2>2
<1>7. ASSUME Files!RemovePath(s) PROVE req'[r] = req[r]
  <2>1. Files!Fail(s) \/ Files!Go(s, "done") \/ \E left : req' = [req EXCEPT ![s].pc = "unlink", ![s].left = left]
    BY <1>7, Zenon DEF Files!RemovePath
  <2>2. ASSUME NEW left, req' = [req EXCEPT ![s].pc = "unlink", ![s].left = left] PROVE req'[r] = req[r]
    BY <1>1, <2>2
  <2> QED BY <1>3, <1>4, <2>1, <2>2
<1>8. ASSUME Files!Unlink(s) PROVE req'[r] = req[r]
  <2>1. Files!Fail(s) \/ Files!Go(s, "done") \/ req' = [req EXCEPT ![s].left = Tail(@)]
    BY <1>8, Zenon DEF Files!Unlink
  <2>2. req' = [req EXCEPT ![s].left = Tail(@)] => req'[r] = req[r]
    BY <1>1
  <2> QED BY <1>3, <1>4, <2>1, <2>2
<1>9. Files!MakeDirectory(s) => req'[r] = req[r]
  BY <1>3, <1>4 DEF Files!MakeDirectory
<1>10. ASSUME Files!ReadBytes(s) PROVE req'[r] = req[r]
  <2>1. \/ req' = [req EXCEPT ![s].pc = "failed"]
        \/ \E got : req' = [req EXCEPT ![s].pc = "done", ![s].got = got]
    BY <1>10, Zenon DEF Files!ReadBytes
  <2>2. ASSUME NEW got, req' = [req EXCEPT ![s].pc = "done", ![s].got = got] PROVE req'[r] = req[r]
    BY <1>1, <2>2
  <2>3. req' = [req EXCEPT ![s].pc = "failed"] => req'[r] = req[r]
    BY <1>1
  <2> QED BY <2>1, <2>2, <2>3
<1> QED BY <1>5, <1>6, <1>7, <1>8, <1>9, <1>10 DEF LastSteps

LEMMA AnswersLast ==
    ASSUME FilesInv, [Files!Next]_(Files!vars), NEW r \in Files!Reqs, Ends(r)
    PROVE  LastSteps(r)
<1>1. CASE Files!Request
  <2>1. PICK s \in Files!Reqs : \E n, met : RequestStep(s, n, met)
    BY <1>1, RequestGoes
  <2>2. PICK n, met : RequestStep(s, n, met)
    BY <2>1
  <2> QED BY <2>2 DEF RequestStep, SameWork, Ends, Files!At
<1>2. ASSUME NEW s \in Files!Reqs, Working(s) PROVE FALSE
  BY <1>2 DEF Working, Ends, Files!At
<1>3. ASSUME NEW s \in Files!Reqs, LastSteps(s) PROVE s = r
  BY <1>3, OneAtATime DEF Ends, Files!At
<1>4. ASSUME NEW s \in Files!Reqs,
             Files!Upload(s) \/ Files!Copies(s) \/ Files!Unpacks(s) \/ Files!Changes(s) \/ Files!Reads(s)
      PROVE  LastSteps(s) \/ Working(s)
  BY <1>4, StillWorking
     DEF Files!Upload, Files!Copies, Files!Unpacks, Files!Changes, Files!Reads, LastSteps
<1>5. CASE UNCHANGED Files!vars
  BY <1>5 DEF Files!vars, Ends, Files!At
\* Over a link nobody stays clean.
<1>6. ASSUME NEW s \in Files!Reqs, Files!Astray(s), Files!Strays(s) PROVE FALSE
  <2>1. CASE Files!Fail(s)
    <3>1. Files!Go(s, "failed")
      BY <2>1 DEF Files!Fail
    <3> QED BY <1>2, <3>1, StillWorking DEF FilePlaces
  <2>2. CASE ~Files!Fail(s)
    <3>1. PICK q \in RequestType : StraysTo(s, q)
      BY <1>6, <2>2, StrayHand
    <3>2. req'[r] = IF r = s THEN [q EXCEPT !.clean = FALSE]
                    ELSE IF Files!Active(r) THEN [req[r] EXCEPT !.clean = FALSE] ELSE req[r]
      BY <3>1 DEF StraysTo, Files!Goes
    <3>3. req[r] \in RequestType
      BY DEF FilesInv
    <3>4. \A p \in RequestType : ~[p EXCEPT !.clean = FALSE].clean
      BY DEF RequestType
    <3> QED BY <3>2, <3>3, <3>4 DEF Ends, Files!At
  <2> QED BY <2>1, <2>2
<1> QED BY <1>1, <1>2, <1>3, <1>4, <1>5, <1>6 DEF Files!Next

LEMMA AnswersTrue ==
    FilesInv /\ CalmInv /\ [Files!Next]_(Files!vars) =>
      \A r \in Files!Reqs : ~Files!At(r, "done") /\ Files!At(r, "done")' /\ req'[r].clean => Files!Did(r)'
<1> SUFFICES ASSUME FilesInv, CalmInv, [Files!Next]_(Files!vars), NEW r \in Files!Reqs, Ends(r)
             PROVE  Files!Did(r)'
  BY DEF Ends
<1>1. FilesInv'
  BY FilesStep
<1>2. LastSteps(r)
  BY AnswersLast
<1> QED BY <1>1, <1>2, DoesFinish, DoesRename, DoesRemove, DoesMakeDirectory, DoesReadBytes DEF LastSteps

\* Nothing in files.py or manager.py locks, and still a request of the
\* sidebar or of a tool that answers ok has done what it says, however many
\* others have interleaved their system calls with its own: as long as none of
\* them worked on a path above or below one of its own, or on its staged name,
\* while it did, as long as that was true of those it began among, and no path
\* of any of them led over a link out of an archive.
THEOREM FilesDoWhatTheyAnswer == Files!Spec => DoesWhatItAnswers
<1>1. Files!Init => FilesInv /\ CalmInv
  BY FilesStart, CalmStart
<1>2. FilesInv /\ CalmInv /\ [Files!Next]_(Files!vars) => FilesInv' /\ CalmInv'
  BY FilesStep, CalmStep
<1>3. FilesInv /\ CalmInv /\ [Files!Next]_(Files!vars) =>
        [\A r \in Files!Reqs : ~Files!At(r, "done") /\ Files!At(r, "done")' /\ req'[r].clean => Files!Did(r)']_(Files!vars)
  BY AnswersTrue
<1>4. Files!Spec => [][\A r \in Files!Reqs : ~Files!At(r, "done") /\ Files!At(r, "done")' /\ req'[r].clean => Files!Did(r)']_(Files!vars)
  BY <1>1, <1>2, <1>3, PTL DEF Files!Spec
<1> QED BY <1>4 DEF DoesWhatItAnswers, Files!DoesWhatItAnswers
===============================================================================
