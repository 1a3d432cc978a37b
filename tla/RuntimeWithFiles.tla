--------------------------- MODULE RuntimeWithFiles ---------------------------
(***************************************************************************)
(* An Agent Runtime and the files of its guest.  The commands that run in  *)
(* the guest and the requests about files share no state of the program,   *)
(* so that a behaviour is one of the component `part` names.               *)
(***************************************************************************)
EXTENDS AgentRuntime

CONSTANTS Names, Archives, MaxMembers, MaxFileRequests      \* of RuntimeFiles

VARIABLES part, tree, uploads, node, archive, req

Files == INSTANCE RuntimeFiles WITH MaxRequests <- MaxFileRequests

\* None is what the archive is before it is read.
ASSUME FilesAssumption ==
    /\ MaxFileRequests \in Nat /\ IsFiniteSet(Names) /\ None \notin Names
    /\ Archives \subseteq Files!ArchiveType /\ None \notin Archives

files == <<tree, uploads, node, archive, req>>

RuntimeOrFiles ==
    \/ part = "runtime" /\ Next /\ UNCHANGED <<part, files>>
    \/ part = "files" /\ Files!Next /\ UNCHANGED <<part, vars>>

\* files.py:304-316 and :377: an archive with a member that names a place outside
\* its destination leaves nothing behind, no contents and no link.
EscapeLeavesNothing == Files!EscapeLeavesNothing
\* A file operation that met no other, and none of whose paths led over a link of
\* an archive, has done to the tree what it answers.
DoesWhatItAnswers == Files!DoesWhatItAnswers
===============================================================================
