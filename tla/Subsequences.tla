---------------------------- MODULE Subsequences -----------------------------
(* Subsequences, given by where their elements stand. *)
EXTENDS Naturals, Sequences

(* The ways to choose n positions out of m, in order. *)
Embeddings(n, m) ==
  {f \in [1..n -> 1..m] : \A i, j \in 1..n : i < j => f[i] < f[j]}

(* s is q without some elements, all of them in S. *)
Without(s, q, S) ==
  \E f \in Embeddings(Len(s), Len(q)) :
    /\ \A k \in 1..Len(s) : s[k] = q[f[k]]
    /\ \A i \in 1..Len(q) : q[i] \in S \/ \E k \in 1..Len(s) : f[k] = i
=============================================================================
