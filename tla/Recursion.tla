------------------------------ MODULE Recursion ------------------------------
(***************************************************************************)
(* What a proof about a recursive function needs: that the function exists,*)
(* and induction.  The library states both for any operator, which the     *)
(* provers cannot instantiate.  Here the function's body is a constant of  *)
(* the module, so that INSTANCE gives the theorem for a given function,    *)
(* and induction is over a set.                                            *)
(***************************************************************************)
EXTENDS Integers, WellFoundedInduction, TLAPS

\* Body(x, f, i): the value at i of the function about x, of which f has the
\* values before i.
CONSTANT Body(_,_,_)

\* The function f[i \in 0..n] == Body(x, f, i), as its definition expands.
Function(x, n) == CHOOSE f : f = [i \in 0..n |-> Body(x, f, i)]

\* The body looks at no other values than those before i.
LooksBack(x, n) ==
  \A f, g : \A i \in 0..n : (\A j \in 0..i - 1 : f[j] = g[j]) => Body(x, f, i) = Body(x, g, i)

-----------------------------------------------------------------------------
\* A set of naturals has a smallest one.
LEMMA Smallest ==
  ASSUME NEW S \in SUBSET Nat, S # {}
  PROVE  \E n \in S : \A m \in S : n <= m
<1> DEFINE R == {ss \in Nat \X Nat : ss[1] < ss[2]}
<1>1. IsWellFoundedOn(R, Nat)
  BY NatLessThanWellFounded DEF OpToRel
<1>2. \A m, n \in Nat : m < n => <<m, n>> \in R
  OBVIOUS
<1> HIDE DEF R
<1>3. PICK n \in S : \A m \in S : <<m, n>> \notin R
  BY <1>1, WFMin
<1>4. \A m \in S : ~(m < n)
  BY <1>2, <1>3
<1> QED BY <1>4

\* Induction, for a set S that holds the numbers with the property.
LEMMA Induction ==
  ASSUME NEW S, 0 \in S, \A n \in Nat : n \in S => n + 1 \in S
  PROVE  Nat \subseteq S
<1> SUFFICES ASSUME Nat \ S # {} PROVE FALSE
  OBVIOUS
<1>1. PICK n \in Nat \ S : \A m \in Nat \ S : n <= m
  BY Smallest
<1>2. n # 0 /\ n - 1 \in Nat
  BY <1>1
<1>3. n - 1 \in S
  BY <1>1, <1>2
<1> QED BY <1>1, <1>2, <1>3

\* A function whose body looks back exists, and has the values its body says.
LEMMA Defined ==
  ASSUME NEW x, NEW n \in Nat, LooksBack(x, n)
  PROVE  Function(x, n) = [i \in 0..n |-> Body(x, Function(x, n), i)]
<1> DEFINE P == {m \in Nat : m <= n => \E f : f = [i \in 0..m |-> Body(x, f, i)]}
<1>1. 0 \in P
  <2> DEFINE f == [i \in 0..0 |-> Body(x, 0, i)]
  <2>1. Body(x, 0, 0) = Body(x, f, 0)
    BY DEF LooksBack
  <2>2. f = [i \in 0..0 |-> Body(x, f, i)]
    BY <2>1
  <2> HIDE DEF f
  <2> QED BY <2>2
<1>2. ASSUME NEW m \in Nat, m \in P
      PROVE  m + 1 \in P
  <2> SUFFICES ASSUME m + 1 <= n
               PROVE  \E f : f = [i \in 0..m + 1 |-> Body(x, f, i)]
    OBVIOUS
  <2>1. PICK f : f = [i \in 0..m |-> Body(x, f, i)]
    BY <1>2
  <2> DEFINE g == [i \in 0..m + 1 |-> Body(x, f, i)]
  <2>2. \A i \in 0..m : g[i] = f[i]
    BY <2>1
  <2> HIDE DEF g
  <2>3. ASSUME NEW i \in 0..m + 1
        PROVE  Body(x, f, i) = Body(x, g, i)
    <3>1. i \in 0..n /\ 0..i - 1 \subseteq 0..m
      OBVIOUS
    <3> QED BY <2>2, <3>1 DEF LooksBack
  <2>4. g = [i \in 0..m + 1 |-> Body(x, g, i)]
    BY <2>3 DEF g
  <2> QED BY <2>4
<1>3. n \in P
  <2> HIDE DEF P
  <2> QED BY <1>1, <1>2, Induction
<1>4. \E f : f = [i \in 0..n |-> Body(x, f, i)]
  BY <1>3
<1> QED BY <1>4 DEF Function
=============================================================================
