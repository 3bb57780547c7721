--------------------------- MODULE WorkspaceTree ---------------------------
(***************************************************************************)
(* One workspace mutation as every native broker sees it: the operation,   *)
(* the session tree at the operation's names, and what the broker keeps in *)
(* the hidden directory beside it until the operation is over.             *)
(*                                                                         *)
(* A file is known by its identity and content hash, so it is represented  *)
(* by what the operation can tell of it: the file it expects, the entry it *)
(* staged, either of them edited in place, or something foreign.           *)
(***************************************************************************)
EXTENDS MethodChannel

CONSTANTS
  Operations   \* the kinds of mutation an instance may carry out

ASSUME OperationsAssumption ==
  Operations \subseteq {"create", "replace", "delete", "move", "mkdir"}

VARIABLES
  op,       \* the operation: create and replace are the two forms of a write
  tree,     \* what is at `path` and, for a move, at its destination
  stage,    \* the hidden .stage entry
  backup,   \* the hidden .backup copy exists
  phase,    \* the phase in the .state file, "none" when there is no such file
  applied   \* history: the broker installed the result and did not withdraw it

Nodes == {"none", "expected", "expectedEdited", "staged", "stagedEdited",
          "foreign", "foreignDir"}
Places == {"path", "dest"}

\* The tree the proposal was made against, and the tree it asks for.
Before(o) ==
  [path |-> IF o \in {"create", "mkdir"} THEN "none" ELSE "expected",
   dest |-> "none"]

After(o) ==
  [path |-> IF o \in {"delete", "move"} THEN "none" ELSE "staged",
   dest |-> IF o = "move" THEN "expected" ELSE "none"]

Here == tree["path"]
There == tree["dest"]

\* A broker opens regular files only; make_directory stages a directory.
IsFile(n) ==
  \/ n \in {"expected", "expectedEdited", "foreign"}
  \/ op # "mkdir" /\ n \in {"staged", "stagedEdited"}

IsDirectory(n) ==
  \/ n = "foreignDir"
  \/ op = "mkdir" /\ n \in {"staged", "stagedEdited"}

\* A proof compares identity and hash: an edit in place shows.  The identity
\* alone does not tell a directory that was filled meanwhile.
IsExpected(n) == n = "expected"
IsResult(n) == n = "staged" \/ (op = "mkdir" /\ n = "stagedEdited")

-----------------------------------------------------------------------------
(* Another program writes at the names of the operation.                   *)

Named == IF op = "move" THEN Places ELSE {"path"}

Edited(n) ==
  IF n = "expected" THEN "expectedEdited" ELSE IF n = "staged" THEN "stagedEdited" ELSE n

Put(p, n) == tree' = [tree EXCEPT ![p] = n]
=============================================================================
