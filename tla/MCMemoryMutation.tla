-------------------------- MODULE MCMemoryMutation --------------------------
(* MemoryMutation for TLC: the shapes of change the program makes.         *)
EXTENDS MemoryMutation

FourFiles == {"user", "soul", "memory", "persona"}

Operation(replaced, created, deleted, deferred) ==
  [replaced |-> replaced, created |-> created, deleted |-> deleted,
   deferred |-> deferred]

\* Restoring two files; a legacy file that becomes a persona and is deleted;
\* deleting a persona; a legacy alias of memory.md, whose audit is deferred.
LogLeftAlone ==
  { Operation({"user", "soul"}, {}, {}, FALSE),
    Operation({"user", "persona"}, {"persona"}, {"soul"}, FALSE),
    Operation({}, {}, {"persona"}, FALSE),
    Operation({"persona", "memory"}, {"persona"}, {"soul"}, TRUE) }

\* The instant write of memory.md, and a restored backup.
LogReplaced ==
  { Operation({"memory"}, {}, {}, FALSE),
    Operation({"user", "memory"}, {}, {}, FALSE) }

\* A restored backup.
Backup == { Operation({"user", "memory"}, {}, {}, FALSE) }

AnyOperation == LogLeftAlone \cup LogReplaced
=============================================================================
