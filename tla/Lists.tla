------------------------------- MODULE Lists -------------------------------
(***************************************************************************)
(* The two loops the program builds most of its lists with.                *)
(***************************************************************************)
EXTENDS SequencesExt

(* [x for x in s if x in S].                                               *)
Kept(s, S) == FoldLeft(LAMBDA r, x : IF x \in S THEN Append(r, x) ELSE r, <<>>, s)

(* for x in s: if x not in r: r.append(x).                                 *)
AppendNew(r, s) == FoldLeft(LAMBDA q, x : IF Contains(q, x) THEN q ELSE Append(q, x), r, s)
=============================================================================
