----------------------------- MODULE Recursion -----------------------------
(***************************************************************************)
(* Induction over the natural numbers, for sets: the library's theorems    *)
(* take an operator as a parameter, this one a set, which a prover can     *)
(* instantiate. It follows from the least element of a set of numbers.     *)
(*                                                                         *)
(* Functions defined by recursion on a natural number, F[n] being computed *)
(* from F[n - 1] and the n-th input: the equation that defines such a      *)
(* function has a solution, and two solutions agree as long as their       *)
(* inputs do. The step is a parameter of this module.                      *)
(***************************************************************************)
EXTENDS Integers, WellFoundedInduction, TLAPS

CONSTANT Step(_, _, _)

LEMMA LessThanWellFounded == IsWellFoundedOn({p \in Nat \X Nat : p[1] < p[2]}, Nat)
  BY NatLessThanWellFounded DEF OpToRel

LEMMA SetInduction ==
    ASSUME NEW S \in SUBSET Nat, 0 \in S, \A n \in S : n + 1 \in S
    PROVE  S = Nat
  <1> DEFINE Less == {p \in Nat \X Nat : p[1] < p[2]}
             missing == Nat \ S
  <1>1. SUFFICES ASSUME missing # {} PROVE FALSE
    OBVIOUS
  <1>2. IsWellFoundedOn(Less, Nat) /\ missing \subseteq Nat
    BY LessThanWellFounded
  <1> HIDE DEF Less, missing
  <1>3. PICK least \in missing : \A n \in missing : <<n, least>> \notin Less
    BY <1>1, <1>2, WFMin
  <1>4. least \in Nat /\ least \notin S /\ least # 0
    BY <1>3 DEF missing
  <1>5. least - 1 \in Nat /\ least - 1 \notin S
    <2>1. least - 1 \in Nat /\ (least - 1) + 1 = least
      BY <1>4
    <2> QED
      BY <1>4, <2>1
  <1>6. <<least - 1, least>> \in Less
    BY <1>4, <1>5 DEF Less
  <1> QED
    BY <1>3, <1>5, <1>6 DEF missing

-----------------------------------------------------------------------------

(* F is the run from start over the inputs args.                           *)
IsRun(F, start, args) ==
    F = [n \in Nat |-> IF n = 0 THEN start ELSE Step(F[n - 1], args[n], n)]

(* g is the beginning of one, as far as m.                                 *)
RunsTo(g, start, args, m) ==
    /\ g[0] = start
    /\ \A n \in 1..m : g[n] = Step(g[n - 1], args[n], n)

LEMMA RunBegins ==
    ASSUME NEW start, NEW args
    PROVE  \A m \in Nat : \E g : RunsTo(g, start, args, m)
  <1> DEFINE S == {m \in Nat : \E g : RunsTo(g, start, args, m)}
  <1>1. 0 \in S
    <2> DEFINE g == [n \in {0} |-> start]
    <2>1. g[0] = start
      OBVIOUS
    <2>2. RunsTo(g, start, args, 0)
      BY <2>1 DEF RunsTo
    <2> QED
      BY <2>2
  <1>2. ASSUME NEW m \in S PROVE m + 1 \in S
    <2>1. PICK g : RunsTo(g, start, args, m)
      BY <1>2
    <2> DEFINE h == [n \in 0..(m + 1) |->
                        IF n <= m THEN g[n] ELSE Step(g[m], args[m + 1], m + 1)]
    <2>2. m \in Nat /\ m + 1 \in Nat
      BY <1>2
    <2>3. /\ \A n \in 0..m : h[n] = g[n]
          /\ h[m + 1] = Step(g[m], args[m + 1], m + 1)
      BY <2>2
    <2> HIDE DEF h
    <2>4. h[0] = start
      BY <2>1, <2>2, <2>3 DEF RunsTo
    <2>5. ASSUME NEW n \in 1..(m + 1) PROVE h[n] = Step(h[n - 1], args[n], n)
      <3>1. n - 1 \in 0..m /\ h[n - 1] = g[n - 1]
        BY <2>2, <2>3
      <3>2. CASE n = m + 1
        <4>1. n - 1 = m
          BY <2>2, <3>2
        <4> QED
          BY <2>3, <3>1, <3>2, <4>1
      <3>3. CASE n # m + 1
        <4>1. n \in 1..m /\ n \in 0..m
          BY <2>2, <3>3
        <4> QED
          BY <2>1, <2>3, <3>1, <4>1 DEF RunsTo
      <3> QED
        BY <3>2, <3>3
    <2>6. RunsTo(h, start, args, m + 1)
      BY <2>4, <2>5 DEF RunsTo
    <2> QED
      BY <2>2, <2>6
  <1> HIDE DEF S
  <1>3. S \in SUBSET Nat
    BY DEF S
  <1>4. S = Nat
    BY <1>1, <1>2, <1>3, SetInduction
  <1> QED
    BY <1>4 DEF S

(* A walk depends on the indices it follows only.                          *)
LEMMA SameRun ==
    ASSUME NEW g, NEW h, NEW start, NEW args, NEW other, NEW m \in Nat,
           RunsTo(g, start, args, m), RunsTo(h, start, other, m),
           \A n \in 1..m : args[n] = other[n]
    PROVE  \A n \in 0..m : g[n] = h[n]
  <1> DEFINE S == {n \in Nat : n <= m => g[n] = h[n]}
  <1>1. 0 \in S
    BY DEF RunsTo
  <1>2. ASSUME NEW n \in S PROVE n + 1 \in S
    <2>1. n \in Nat /\ n + 1 \in Nat /\ (n + 1) - 1 = n
      BY <1>2
    <2>2. ASSUME n + 1 <= m PROVE g[n + 1] = h[n + 1]
      <3>1. n + 1 \in 1..m /\ n <= m
        BY <2>1, <2>2
      <3>2. g[n] = h[n]
        BY <1>2, <3>1
      <3> QED
        BY <2>1, <3>1, <3>2 DEF RunsTo
    <2> QED
      BY <2>1, <2>2
  <1> HIDE DEF S
  <1>3. S \in SUBSET Nat
    BY DEF S
  <1>4. S = Nat
    BY <1>1, <1>2, <1>3, SetInduction
  <1> QED
    BY <1>4 DEF S

LEMMA RunExists ==
    ASSUME NEW start, NEW args
    PROVE  \E W : IsRun(W, start, args)
  <1> DEFINE part(m) == CHOOSE g : RunsTo(g, start, args, m)
             W == [n \in Nat |-> part(n)[n]]
  <1>1. ASSUME NEW m \in Nat PROVE RunsTo(part(m), start, args, m)
    <2>1. \E g : RunsTo(g, start, args, m)
      BY RunBegins
    <2> QED
      BY <2>1
  <1>2. \A n \in Nat : W[n] = part(n)[n]
    OBVIOUS
  <1> HIDE DEF part
  <1>3. ASSUME NEW n \in Nat
        PROVE  W[n] = IF n = 0 THEN start ELSE Step(W[n - 1], args[n], n)
    <2>1. CASE n = 0
      BY <1>1, <1>2, <2>1 DEF RunsTo
    <2>2. CASE n # 0
      <3>1. n - 1 \in Nat /\ n \in 1..n /\ n - 1 \in 0..(n - 1)
        BY <2>2
      <3>2. part(n)[n] = Step(part(n)[n - 1], args[n], n)
        BY <1>1, <3>1 DEF RunsTo
      <3>3. RunsTo(part(n), start, args, n - 1)
        BY <1>1, <3>1 DEF RunsTo
      <3>4. part(n)[n - 1] = part(n - 1)[n - 1]
        BY <1>1, <3>1, <3>3, SameRun
      <3> QED
        BY <1>2, <2>2, <3>1, <3>2, <3>4
    <2> QED
      BY <2>1, <2>2
  <1> HIDE DEF W
  <1>4. W = [n \in Nat |-> W[n]]
    BY DEF W
  <1>5. IsRun(W, start, args)
    BY <1>3, <1>4 DEF IsRun
  <1> QED
    BY <1>5

(* The same on the numbers up to m: what a LET defines in an operator.     *)
IsRunUpTo(f, start, args, m) ==
    f = [n \in 0..m |-> IF n = 0 THEN start ELSE Step(f[n - 1], args[n], n)]

LEMMA RunUpToExists ==
    ASSUME NEW start, NEW args, NEW m \in Nat
    PROVE  \E f : IsRunUpTo(f, start, args, m)
  <1>1. PICK W : IsRun(W, start, args)
    BY RunExists
  <1> DEFINE f == [n \in 0..m |-> W[n]]
  <1>2. ASSUME NEW n \in 0..m
        PROVE  f[n] = IF n = 0 THEN start ELSE Step(f[n - 1], args[n], n)
    <2>1. n \in Nat /\ (n # 0 => n - 1 \in 0..m)
      OBVIOUS
    <2>2. W[n] = IF n = 0 THEN start ELSE Step(W[n - 1], args[n], n)
      BY <1>1, <2>1 DEF IsRun
    <2> QED
      BY <2>1, <2>2
  <1>3. f = [n \in 0..m |-> f[n]]
    OBVIOUS
  <1> HIDE DEF f
  <1>4. IsRunUpTo(f, start, args, m)
    BY <1>2, <1>3 DEF IsRunUpTo
  <1> QED
    BY <1>4

LEMMA RunUpToRuns ==
    ASSUME NEW f, NEW start, NEW args, NEW m \in Nat, IsRunUpTo(f, start, args, m)
    PROVE  RunsTo(f, start, args, m)
  <1>1. f[0] = start
    BY DEF IsRunUpTo
  <1>2. ASSUME NEW n \in 1..m PROVE f[n] = Step(f[n - 1], args[n], n)
    <2>1. n \in 0..m /\ n # 0
      OBVIOUS
    <2> QED
      BY <2>1 DEF IsRunUpTo
  <1> QED
    BY <1>1, <1>2 DEF RunsTo

LEMMA RunRuns ==
    ASSUME NEW W, NEW start, NEW args, NEW m \in Nat, IsRun(W, start, args)
    PROVE  RunsTo(W, start, args, m)
  <1>1. W[0] = start
    BY DEF IsRun
  <1>2. ASSUME NEW n \in 1..m PROVE W[n] = Step(W[n - 1], args[n], n)
    <2>1. n \in Nat /\ n # 0
      OBVIOUS
    <2> QED
      BY <2>1 DEF IsRun
  <1> QED
    BY <1>1, <1>2 DEF RunsTo

(* The same from 1 on, with one input for all steps.                       *)
IsChain(F, start, arg) ==
    F = [n \in Nat \ {0} |-> IF n = 1 THEN start ELSE Step(F[n - 1], arg, n - 1)]

LEMMA ChainExists ==
    ASSUME NEW start, NEW arg
    PROVE  \E F : IsChain(F, start, arg)
  <1>1. PICK W : IsRun(W, start, [n \in Nat |-> arg])
    BY RunExists
  <1> DEFINE F == [n \in Nat \ {0} |-> W[n - 1]]
  <1>2. ASSUME NEW n \in Nat \ {0}
        PROVE  F[n] = IF n = 1 THEN start ELSE Step(F[n - 1], arg, n - 1)
    <2>1. n - 1 \in Nat /\ F[n] = W[n - 1]
      OBVIOUS
    <2>2. W[n - 1] = IF n - 1 = 0 THEN start ELSE Step(W[(n - 1) - 1], arg, n - 1)
      BY <1>1, <2>1 DEF IsRun
    <2>3. CASE n = 1
      BY <2>1, <2>2, <2>3
    <2>4. CASE n # 1
      <3>1. n - 1 \in Nat \ {0} /\ n - 1 # 0
        BY <2>4
      <3>2. F[n - 1] = W[(n - 1) - 1]
        BY <3>1
      <3> QED
        BY <2>1, <2>2, <2>4, <3>1, <3>2
    <2> QED
      BY <2>3, <2>4
  <1>3. F = [n \in Nat \ {0} |-> F[n]]
    OBVIOUS
  <1> HIDE DEF F
  <1>4. IsChain(F, start, arg)
    BY <1>2, <1>3 DEF IsChain
  <1> QED
    BY <1>4

LEMMA ChainSteps ==
    ASSUME NEW F, NEW start, NEW arg, IsChain(F, start, arg)
    PROVE  F[1] = start /\ \A n \in Nat \ {0} : F[n + 1] = Step(F[n], arg, n)
  <1>1. F[1] = start
    BY DEF IsChain
  <1>2. ASSUME NEW n \in Nat \ {0} PROVE F[n + 1] = Step(F[n], arg, n)
    <2>1. n + 1 \in Nat \ {0} /\ n + 1 # 1 /\ (n + 1) - 1 = n
      OBVIOUS
    <2> QED
      BY <2>1 DEF IsChain
  <1> QED
    BY <1>1, <1>2

=============================================================================
