----------------------------- MODULE Selection -----------------------------
(***************************************************************************)
(* What a list comprehension with a condition and sorted() return, by      *)
(* where each entry comes from: entry k is the one that k of the chosen    *)
(* places, itself included, are not after.                                 *)
(***************************************************************************)
EXTENDS Integers, FiniteSets

(* The elements of a finite set in the order of a relation, which is a set *)
(* of pairs.                                                               *)
Rank(n, S, before) == Cardinality({m \in S : m = n \/ <<m, n>> \in before})

Sorted(S, before) ==
  [k \in 1 .. Cardinality(S) |-> CHOOSE n \in S : Rank(n, S, before) = k]

(* A set of places in its own order. *)
InOrder(S) ==
  [k \in 1 .. Cardinality(S) |-> CHOOSE n \in S : Cardinality({m \in S : m <= n}) = k]

(* The entries of a sequence that are at some of its places. *)
EntriesAt(s, places) ==
  IF places = DOMAIN s THEN s
  ELSE [k \in 1 .. Cardinality(places) |-> s[InOrder(places)[k]]]
=============================================================================
