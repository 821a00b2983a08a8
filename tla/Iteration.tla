----------------------------- MODULE Iteration -----------------------------
(***************************************************************************)
(* Induction for sets of natural numbers, and the existence of functions   *)
(* defined by recursion on 0 .. n.  The induction theorems of the library  *)
(* take an operator, which no backend can instantiate; these do not.       *)
(***************************************************************************)
EXTENDS Integers, FiniteSetTheorems, WellFoundedInduction, TLAPS

LEMMA Least ==
    ASSUME NEW T \in SUBSET Nat, T # {}
    PROVE  \E x \in T : \A y \in T : x <= y
<1> DEFINE F == {0 .. x : x \in T}
<1>1. F \subseteq FiniteSubsetsOf(Nat) /\ F # {}
  <2>1. \A x \in T : 0 .. x \subseteq Nat /\ IsFiniteSet(0 .. x)
    BY FS_Interval
  <2> QED
    BY <2>1 DEF FiniteSubsetsOf
<1>2. IsWellFoundedOn(StrictSubsetOrdering(Nat), FiniteSubsetsOf(Nat))
  BY FS_StrictSubsetOrderingWellFounded
<1> HIDE DEF F
<1>3. PICK A \in F : \A B \in F : <<B, A>> \notin StrictSubsetOrdering(Nat)
  BY <1>1, <1>2, WFMin
<1>4. PICK x \in T : A = 0 .. x
  BY DEF F
<1>5. ASSUME NEW y \in T, y < x PROVE FALSE
  <2>1. 0 .. y \in F
    BY DEF F
  <2>2. 0 .. y \subseteq A /\ 0 .. y # A /\ 0 .. y \subseteq Nat /\ A \subseteq Nat
    BY <1>4, <1>5
  <2> QED
    BY <1>3, <2>1, <2>2 DEF StrictSubsetOrdering
<1> QED
  BY <1>5

(* A set of natural numbers that holds 0 and each successor up to N holds  *)
(* them all.                                                               *)
LEMMA UpTo ==
    ASSUME NEW N \in Nat, NEW P, 0 \in P,
           \A k \in 1 .. N : k - 1 \in P => k \in P
    PROVE  0 .. N \subseteq P
<1> SUFFICES ASSUME (0 .. N) \ P # {} PROVE FALSE
  OBVIOUS
<1>1. PICK x \in (0 .. N) \ P : \A y \in (0 .. N) \ P : x <= y
  <2>1. (0 .. N) \ P \in SUBSET Nat
    OBVIOUS
  <2> QED
    BY <2>1, Least
<1>2. x \in 1 .. N /\ x - 1 \in 0 .. N /\ ~ (x <= x - 1)
  BY <1>1
<1> QED
  BY <1>1, <1>2

(* Step k leads from S[k - 1] to S[k]. *)
Leads(step, S, N) == \A k \in 1 .. N : \A x \in S[k - 1] : step[k][x] \in S[k]

(* f is the recursion that starts in a, and stays in the sets of S. *)
IsRun(f, N, a, step, S) ==
    /\ f = [k \in 0 .. N |-> f[k]]
    /\ f[0] = a
    /\ \A k \in 1 .. N : f[k] = step[k][f[k - 1]]
    /\ \A k \in 0 .. N : f[k] \in S[k]

LEMMA Iterates ==
    ASSUME NEW N \in Nat, NEW S, NEW a \in S[0], NEW step, Leads(step, S, N)
    PROVE  \E f : IsRun(f, N, a, step, S)
<1> DEFINE Runs(f, n) ==
             /\ f[0] = a
             /\ \A k \in 1 .. n : f[k] = step[k][f[k - 1]]
             /\ \A k \in 0 .. n : f[k] \in S[k]
           P == {n \in Nat : \E f : Runs(f, n)}
<1>1. 0 \in P
  <2>1. Runs([k \in 0 .. 0 |-> a], 0)
    OBVIOUS
  <2> QED
    BY <2>1
<1>2. ASSUME NEW n \in 1 .. N, n - 1 \in P
      PROVE  n \in P
  <2>1. PICK f : Runs(f, n - 1)
    BY <1>2
  <2>2. PICK g : g = [k \in 0 .. n |-> IF k = n THEN step[n][f[n - 1]] ELSE f[k]]
    OBVIOUS
  <2>3. /\ n \in Nat /\ n - 1 \in 0 .. n - 1 /\ n # 0 /\ 0 \in 0 .. n
        /\ \A k \in 0 .. n : k # n => k \in 0 .. n - 1
        /\ \A k \in 1 .. n : k # n => k \in 1 .. n - 1
        /\ \A k \in 1 .. n : k \in 0 .. n /\ k - 1 # n /\ k - 1 \in 0 .. n
    OBVIOUS
  <2>4. /\ g[n] = step[n][f[n - 1]] /\ \A k \in 0 .. n : k # n => g[k] = f[k]
        /\ \A k \in 1 .. n : g[k - 1] = f[k - 1]
    BY <2>2, <2>3
  <2>5. f[n - 1] \in S[n - 1] /\ step[n][f[n - 1]] \in S[n]
    BY <2>1, <2>3 DEF Leads
  <2>6. g[0] = a
    BY <2>1, <2>3, <2>4
  <2>7. \A k \in 1 .. n : g[k] = step[k][g[k - 1]]
    BY <2>1, <2>3, <2>4
  <2>8. \A k \in 0 .. n : g[k] \in S[k]
    BY <2>1, <2>3, <2>4, <2>5
  <2> QED
    BY <2>3, <2>6, <2>7, <2>8
<1> HIDE DEF P
<1>3. N \in P
  BY <1>1, <1>2, UpTo
<1>4. PICK f : Runs(f, N)
  BY <1>3 DEF P
<1>5. PICK g : g = [k \in 0 .. N |-> f[k]]
  OBVIOUS
<1>6. \A k \in 1 .. N : k \in 0 .. N /\ k - 1 \in 0 .. N
  OBVIOUS
<1>7. /\ g[0] = a
      /\ \A k \in 1 .. N : g[k] = step[k][g[k - 1]]
      /\ \A k \in 0 .. N : g[k] \in S[k]
  BY <1>4, <1>5, <1>6
<1>8. g = [k \in 0 .. N |-> g[k]]
  BY <1>5
<1> QED
  BY <1>7, <1>8 DEF IsRun
=============================================================================
