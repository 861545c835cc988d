------------------------------ MODULE Counting ------------------------------
(***************************************************************************)
(* What the proofs use of finite sets and of the natural numbers, as one   *)
(* formula.  A theorem module proves its lemmas under CountFacts, and      *)
(* derives CountFacts from the theorem library where it draws its          *)
(* conclusions: the library is large, and every step that has it in scope  *)
(* is checked slowly.                                                      *)
(***************************************************************************)
EXTENDS Integers, FiniteSets

CountFacts ==
  /\ IsFiniteSet({}) /\ Cardinality({}) = 0
  /\ \A S : IsFiniteSet(S) =>
       /\ Cardinality(S) \in Nat
       /\ Cardinality(S) = 0 <=> S = {}
  /\ \A S, x : IsFiniteSet(S) =>
       /\ IsFiniteSet(S \cup {x}) /\ IsFiniteSet(S \ {x})
       /\ x \notin S => Cardinality(S \cup {x}) = Cardinality(S) + 1
       /\ x \in S => Cardinality(S \ {x}) = Cardinality(S) - 1
  /\ \A S : IsFiniteSet(S) => \A T \in SUBSET S :
       IsFiniteSet(T) /\ Cardinality(T) <= Cardinality(S)
  /\ \A m, n \in Int :
       /\ IsFiniteSet(m .. n)
       /\ m <= n + 1 => Cardinality(m .. n) = n - m + 1
  /\ \A S, T : IsFiniteSet(S) /\ IsFiniteSet(T) =>
       /\ IsFiniteSet(S \X T)
       /\ Cardinality(S \X T) = Cardinality(S) * Cardinality(T)
  /\ \A S, T : \A f \in [S -> T] :
       IsFiniteSet(T) /\ (\A x, y \in S : f[x] = f[y] => x = y) =>
         IsFiniteSet(S) /\ Cardinality(S) <= Cardinality(T)
  /\ \A S \in SUBSET Nat : S # {} => \E m \in S : \A e \in S : m <= e
=============================================================================
