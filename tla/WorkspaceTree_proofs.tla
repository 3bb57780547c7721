------------------------ MODULE WorkspaceTree_proofs ------------------------
(***************************************************************************)
(* What the proofs about both brokers need of the session tree: its two    *)
(* names spelled out, and the copies of a file counted name by name.       *)
(***************************************************************************)
EXTENDS WorkspaceTree, FiniteSetTheorems, TLAPS

\* What a whole tree says about its two names, in both directions.
LEMMA TreeShape ==
  ASSUME NEW t \in [Places -> Nodes], NEW o
  PROVE  /\ t = Before(o) <=>
              /\ t["path"] = IF o \in {"create", "mkdir"} THEN "none" ELSE "expected"
              /\ t["dest"] = "none"
         /\ t = After(o) <=>
              /\ t["path"] = IF o \in {"delete", "move"} THEN "none" ELSE "staged"
              /\ t["dest"] = IF o = "move" THEN "expected" ELSE "none"
<1>1. t = [path |-> t["path"], dest |-> t["dest"]]
  BY DEF Places
<1> QED BY <1>1 DEF Before, After

\* 1 where a condition holds, to count with.
Bit(b) == IF b THEN 1 ELSE 0

\* The copies of a file, name by name.
LEMMA CountNames ==
  ASSUME NEW t \in [Places -> Nodes], NEW n
  PROVE  Cardinality({p \in Places : t[p] = n}) = Bit(t["path"] = n) + Bit(t["dest"] = n)
<1>1. /\ Cardinality({}) = 0 /\ Cardinality({"path"}) = 1 /\ Cardinality({"dest"}) = 1
      /\ Cardinality({"path", "dest"}) = 2
  <2>1. IsFiniteSet({"path"}) /\ Cardinality({"path"}) = 1
    BY FS_Singleton
  <2>2. Cardinality({"path"} \cup {"dest"}) = 2
    BY <2>1, FS_AddElement
  <2> QED BY <2>1, <2>2, FS_Singleton, FS_EmptySet
<1>2. CASE t["path"] = n /\ t["dest"] = n
  <2>1. {p \in Places : t[p] = n} = {"path", "dest"}
    BY <1>2 DEF Places
  <2> QED BY <1>1, <1>2, <2>1 DEF Bit
<1>3. CASE t["path"] = n /\ t["dest"] # n
  <2>1. {p \in Places : t[p] = n} = {"path"}
    BY <1>3 DEF Places
  <2> QED BY <1>1, <1>3, <2>1 DEF Bit
<1>4. CASE t["path"] # n /\ t["dest"] = n
  <2>1. {p \in Places : t[p] = n} = {"dest"}
    BY <1>4 DEF Places
  <2> QED BY <1>1, <1>4, <2>1 DEF Bit
<1>5. CASE t["path"] # n /\ t["dest"] # n
  <2>1. {p \in Places : t[p] = n} = {}
    BY <1>5 DEF Places
  <2> QED BY <1>1, <1>5, <2>1 DEF Bit
<1> QED BY <1>2, <1>3, <1>4, <1>5
=============================================================================
