-------------------------------- MODULE Sorting --------------------------------
(***************************************************************************)
(* Sequences that are cut and sorted, by the places their members get.     *)
(* below[a] is the set of members of S that come before a.                 *)
(***************************************************************************)
EXTENDS Integers, Sequences, FiniteSets

IsOrder(S, below) ==
  /\ \A a \in S : below[a] \subseteq S /\ a \notin below[a]
  /\ \A a, b \in S : a # b => a \in below[b] \/ b \in below[a]
  /\ \A a, b \in S : a \in below[b] => below[a] \subseteq below[b]

\* Numbers from the smallest on; by a key and, where the keys are equal, by below.
Less(S) == [i \in S |-> {j \in S : j < i}]
Keyed(S, key, below) == [a \in S |-> {b \in S : key[b] < key[a] \/ (key[b] = key[a] /\ b \in below[a])}]

\* The members of S in their order.
InOrder(S, below) == [n \in 1..Cardinality(S) |-> CHOOSE a \in S : Cardinality(below[a]) = n - 1]

Upwards(S) == InOrder(S, Less(S))

\* What s holds at the places of keep.
Picked(s, keep) == [n \in 1..Cardinality(keep) |-> s[Upwards(keep)[n]]]

\* Pairs of numbers, by the first and then by the second.
Lexical(P) == [x \in P |-> {y \in P : y[1] < x[1] \/ (y[1] = x[1] /\ y[2] < x[2])}]

\* One sequence after the other; a place is the number of one and a place in it.
Cells(seqs) == UNION {{b} \X DOMAIN seqs[b] : b \in DOMAIN seqs}
EndToEnd(seqs) ==
  LET order == InOrder(Cells(seqs), Lexical(Cells(seqs)))
  IN  [n \in DOMAIN order |-> seqs[order[n][1]][order[n][2]]]
===============================================================================
