------------------------------ MODULE UnionFind ------------------------------
(***************************************************************************)
(* UnionFindUniverse of bin-anlys/src/tarjans: sets of numbers, each with  *)
(* a name its user chooses, as trees of parents that Find compresses.  A   *)
(* universe is the record of the four arrays of UnionFindElement.          *)
(***************************************************************************)
EXTENDS Integers, FiniteSetsExt

UF_NIL == -1

Universe(elements) ==
  [parent |-> [i \in elements |-> UF_NIL],
   count  |-> [i \in elements |-> 1],
   name   |-> [i \in elements |-> i],
   root   |-> [i \in elements |-> i]]

Elements(e) == DOMAIN e.parent

\* do_FIND without the compression: the top of the tree v is in.
Top(e, v) ==
  LET up[x \in Elements(e)] ==
        IF e.parent[x] \in {UF_NIL, x} THEN x ELSE up[e.parent[x]]
  IN  up[v]

Find(e, v) == e.name[Top(e, v)]

\* v and the elements above it.
WayUp(e, v) ==
  LET up[x \in Elements(e)] ==
        {x} \cup IF e.parent[x] = UF_NIL THEN {} ELSE up[e.parent[x]]
  IN  up[v]

\* What Find does to the trees of vs: those on the way hang from the top.
Compressed(e, vs) ==
  LET way == UNION {WayUp(e, v) : v \in vs}
  IN  [e EXCEPT !.parent = [x \in Elements(e) |->
         IF x \in way /\ e.parent[x] # UF_NIL THEN Top(e, x) ELSE e.parent[x]]]

\* The sets with the names i and j become one with the name k.
Union(e, i, j, k) ==
  LET larger == e.count[e.root[i]] > e.count[e.root[j]]
      large  == IF larger THEN e.root[i] ELSE e.root[j]
      small  == IF larger THEN e.root[j] ELSE e.root[i]
  IN  IF i = j /\ j = k THEN e
      ELSE [e EXCEPT !.parent[small] = large,
                     !.count[large] = @ + e.count[small],
                     !.name[large] = k,
                     !.root[k] = large]

\* The sets with the names in P join the one with the name w.
UnionAll(e, P, w) == FoldSet(LAMBDA p, f : Union(f, p, w, w), e, P)
=============================================================================
