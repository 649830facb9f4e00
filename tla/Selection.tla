----------------------------- MODULE Selection ------------------------------
(***************************************************************************)
(* What the program's comprehensions, sorts and searches make of a list,   *)
(* said by the positions they pick, so that it can be reasoned about for   *)
(* lists of any length.                                                    *)
(***************************************************************************)
EXTENDS Integers, SequencesExt

(* A list, whatever its elements are.                                      *)
IsSequence(s) == s \in Seq(Range(s))

(* [x for x in s if ...]: the elements at the kept positions, in order.    *)
Kept(s, keep) == FlattenSeq([i \in DOMAIN s |-> IF i \in keep THEN <<s[i]>> ELSE <<>>])

(* next((x for x in s if ...), default): the first of the found positions. *)
FirstOr(s, found, default) == IF found = {} THEN default ELSE s[Min(found)]

(* sorted(s, key=...): an element comes after those of a lower rank; equal *)
(* ranks keep their order, or have it reversed where nothing settles it.   *)
OrderedBy(s, rank, flip) ==
    LET before(j, i) == rank[j] < rank[i] \/ (rank[j] = rank[i] /\ (j < i) # flip)
        place == [i \in DOMAIN s |-> Cardinality({j \in DOMAIN s : j = i \/ before(j, i)})]
    IN  [k \in DOMAIN s |-> s[CHOOSE i \in DOMAIN s : place[i] = k]]
=============================================================================
