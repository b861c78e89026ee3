--------------------------- MODULE NestedDagProofs ---------------------------
(***************************************************************************)
(* Proofs about the nesting of DAGs: what the checks of DagLoader accept,  *)
(* for every relation of references and every depth; the safety properties *)
(* of DagStore, for any number of DAGs and calls; and those of the child   *)
(* runs of SubDagExecution, for any program the executor may be given.     *)
(***************************************************************************)
EXTENDS DagStore, SubDagExecution, FiniteSetTheorems, WellFoundedInduction, TLAPS

-----------------------------------------------------------------------------
(* Least and greatest numbers, and induction, on sets.                     *)

LEMMA LeastNatural ==
  ASSUME NEW T, T \subseteq Nat, T # {}
  PROVE  \E x \in T : \A y \in T : x <= y
<1> DEFINE R == OpToRel(<, Nat)
<1>1. IsWellFoundedOn(R, Nat)
  BY NatLessThanWellFounded
<1> HIDE DEF R
<1>2. PICK x \in T : \A y \in T : ~ (<<y, x>> \in R)
  BY <1>1, WFMin
<1>3. \A y \in T : x <= y
  <2> TAKE y \in T
  <2>1. ~ (<<y, x>> \in R)
    BY <1>2
  <2> QED BY <2>1 DEF R, OpToRel
<1> QED BY <1>3

LEMMA GreatestNatural ==
  ASSUME NEW max \in Nat, NEW T, T \subseteq 0 .. max, T # {}
  PROVE  \E x \in T : \A y \in T : y <= x
<1> DEFINE Rest == {max - y : y \in T}
<1>1. Rest \subseteq Nat /\ Rest # {}
  <2>1. \A y \in T : max - y \in Nat
    <3> TAKE y \in T
    <3>1. y \in 0 .. max
      OBVIOUS
    <3> QED BY <3>1
  <2> QED BY <2>1
<1> HIDE DEF Rest
<1>2. PICK r \in Rest : \A s \in Rest : r <= s
  BY <1>1, LeastNatural
<1>3. PICK x \in T : r = max - x
  BY <1>2 DEF Rest
<1>4. \A y \in T : y <= x
  <2> TAKE y \in T
  <2>1. max - y \in Rest
    BY DEF Rest
  <2>2. r <= max - y
    BY <1>2, <2>1
  <2> QED BY <1>3, <2>2
<1> QED BY <1>4

LEMMA Induction ==
  ASSUME NEW P, 0 \in P, \A n \in Nat : n \in P => n + 1 \in P
  PROVE  Nat \subseteq P
<1> SUFFICES ASSUME Nat \ P # {} PROVE FALSE
  OBVIOUS
<1> DEFINE T == Nat \ P
<1>1. T \subseteq Nat /\ T # {}
  OBVIOUS
<1>2. PICK x \in T : \A y \in T : x <= y
  <2> HIDE DEF T
  <2> QED BY <1>1, LeastNatural
<1>3. x # 0 /\ x - 1 \in Nat /\ x - 1 \in P /\ (x - 1) + 1 = x
  BY <1>2
<1>4. x \in P
  BY <1>3
<1> QED BY <1>2, <1>4

-----------------------------------------------------------------------------
(* The chains of references that begin at a DAG.                           *)

(* The chains that follow those of a set, k long, by one reference.        *)
Longer(refs, chains, k) ==
  UNION {{Append(chain, e) : e \in refs[chain[k]]} : chain \in {c \in chains : ~ Repeats(c)}}

(* The function that Chains chooses.                                       *)
IsWalk(walk, refs, d, max) ==
  walk = [k \in 0 .. max |->
           IF k = 0 THEN {<<d>>}
           ELSE UNION {{Append(chain, e) : e \in refs[chain[k]]} :
                       chain \in {c \in walk[k - 1] : ~ Repeats(c)}}]

LEMMA WalkExists ==
  ASSUME NEW refs, NEW d, NEW max \in Nat
  PROVE  \E walk : IsWalk(walk, refs, d, max)
<1> DEFINE Step(f, k) ==
             IF k = 0 THEN {<<d>>}
             ELSE UNION {{Append(chain, e) : e \in refs[chain[k]]} :
                         chain \in {c \in f[k - 1] : ~ Repeats(c)}}
           P == {n \in Nat : \E f : f = [k \in 0 .. n |-> Step(f, k)]}
<1>1. 0 \in P
  <2>1. [k \in 0 .. 0 |-> {<<d>>}] = [k \in 0 .. 0 |-> Step([j \in 0 .. 0 |-> {<<d>>}], k)]
    OBVIOUS
  <2> QED BY <2>1
<1>2. ASSUME NEW n \in Nat, n \in P PROVE n + 1 \in P
  <2>1. PICK f : f = [k \in 0 .. n |-> Step(f, k)]
    BY <1>2
  <2> DEFINE g == [k \in 0 .. n + 1 |-> IF k = n + 1 THEN Step(f, n + 1) ELSE f[k]]
  <2>2. \A k \in 0 .. n : g[k] = f[k]
    OBVIOUS
  <2>3. \A k \in 0 .. n : f[k] = Step(f, k)
    BY <2>1
  <2>4. \A k \in 0 .. n : g[k] = Step(g, k)
    <3> TAKE k \in 0 .. n
    <3>1. g[k] = f[k] /\ f[k] = Step(f, k)
      BY <2>2, <2>3
    <3>2. CASE k = 0
      BY <3>1, <3>2
    <3>3. CASE k # 0
      <4>1. k - 1 \in 0 .. n
        BY <3>3
      <4>2. g[k - 1] = f[k - 1]
        BY <2>2, <4>1
      <4> HIDE DEF g
      <4> QED BY <3>1, <3>3, <4>2
    <3> QED BY <3>2, <3>3
  <2>5. g[n + 1] = Step(g, n + 1)
    <3>1. g[n] = f[n] /\ (n + 1) - 1 = n /\ n + 1 # 0 /\ g[n + 1] = Step(f, n + 1)
      BY <2>2
    <3> HIDE DEF g
    <3> QED BY <3>1
  <2>6. \A k \in 0 .. n + 1 : g[k] = Step(g, k)
    <3> TAKE k \in 0 .. n + 1
    <3>1. k \in 0 .. n \/ k = n + 1
      OBVIOUS
    <3> HIDE DEF g, Step
    <3> QED BY <2>4, <2>5, <3>1
  <2>7. g = [k \in 0 .. n + 1 |-> g[k]]
    OBVIOUS
  <2>8. g = [k \in 0 .. n + 1 |-> Step(g, k)]
    <3> HIDE DEF g, Step
    <3> QED BY <2>6, <2>7
  <2>9. n + 1 \in Nat
    OBVIOUS
  <2> HIDE DEF g, Step
  <2> QED BY <2>8, <2>9
<1>3. max \in P
  <2> HIDE DEF P
  <2> QED BY <1>1, <1>2, Induction
<1>4. \E walk : walk = [k \in 0 .. max |-> Step(walk, k)]
  BY <1>3
<1> QED BY <1>4, Zenon DEF IsWalk

LEMMA ChainsByLength ==
  ASSUME NEW refs, NEW d, NEW max \in Nat
  PROVE  \E walk :
           /\ walk[0] = {<<d>>}
           /\ \A k \in 1 .. max : walk[k] = Longer(refs, walk[k - 1], k)
           /\ Chains(refs, d, max) = UNION {walk[k] : k \in 0 .. max}
<1> DEFINE W == CHOOSE walk : IsWalk(walk, refs, d, max)
<1>1. Chains(refs, d, max) = UNION {W[k] : k \in 0 .. max}
  BY Zenon DEF Chains, IsWalk
<1>2. W = [k \in 0 .. max |-> IF k = 0 THEN {<<d>>}
             ELSE UNION {{Append(chain, e) : e \in refs[chain[k]]} :
                         chain \in {c \in W[k - 1] : ~ Repeats(c)}}]
  <2>1. IsWalk(W, refs, d, max)
    BY WalkExists, Zenon
  <2> QED BY <2>1, Zenon DEF IsWalk
<1> HIDE DEF W
<1>3. W[0] = {<<d>>}
  BY <1>2
<1>4. ASSUME NEW k \in 1 .. max PROVE W[k] = Longer(refs, W[k - 1], k)
  <2>1. k \in 0 .. max /\ k # 0
    OBVIOUS
  <2> QED BY <1>2, <2>1 DEF Longer
<1> QED BY <1>1, <1>3, <1>4

(* A chain is a path in the references; one without a repetition is        *)
(* followed on, unless it is as long as may be.                            *)
Last(chain) == chain[Len(chain)]

LEMMA ChainsFrom ==
  ASSUME NEW D, NEW refs \in [D -> SUBSET D], NEW d \in D, NEW max \in Nat
  PROVE  /\ <<d>> \in Chains(refs, d, max)
         /\ \A chain \in Chains(refs, d, max) :
              /\ chain \in Seq(D) /\ Len(chain) \in 1 .. max + 1
              /\ \A i \in 1 .. Len(chain) - 1 : chain[i + 1] \in refs[chain[i]]
              /\ ~ Repeats(chain) /\ Len(chain) <= max =>
                   \A e \in refs[Last(chain)] : Append(chain, e) \in Chains(refs, d, max)
<1>1. PICK walk :
        /\ walk[0] = {<<d>>}
        /\ \A k \in 1 .. max : walk[k] = Longer(refs, walk[k - 1], k)
        /\ Chains(refs, d, max) = UNION {walk[k] : k \in 0 .. max}
  BY ChainsByLength
<1> DEFINE Good(chain, k) ==
             /\ chain \in Seq(D) /\ Len(chain) = k + 1
             /\ \A i \in 1 .. k : chain[i + 1] \in refs[chain[i]]
           P == {k \in Nat : k <= max => \A chain \in walk[k] : Good(chain, k)}
<1>2. 0 \in P
  <2>1. Good(<<d>>, 0)
    <3>1. <<d>> \in walk[0] /\ Len(<<d>>) = 1 /\ <<d>>[1] = d /\ <<d>> \in Seq(D)
      BY <1>1
    <3> QED BY <3>1
  <2> HIDE DEF Good
  <2> QED BY <1>1, <2>1
<1>3. ASSUME NEW k \in Nat, k \in P PROVE k + 1 \in P
  <2> SUFFICES ASSUME k + 1 <= max, NEW chain \in walk[k + 1] PROVE Good(chain, k + 1)
    BY <1>3
  <2>1. k + 1 \in 1 .. max /\ (k + 1) - 1 = k
    OBVIOUS
  <2>2. walk[k + 1] = Longer(refs, walk[k], k + 1)
    BY <1>1, <2>1
  <2>3. PICK c \in walk[k] : \E e \in refs[c[k + 1]] : chain = Append(c, e)
    BY <2>2 DEF Longer
  <2> PICK e \in refs[c[k + 1]] : chain = Append(c, e)
    BY <2>3
  <2>4. Good(c, k)
    BY <1>3, <2>1
  <2>5. c[k + 1] \in D /\ e \in D
    BY <2>3, <2>4
  <2>6. /\ chain \in Seq(D) /\ Len(chain) = k + 2 /\ chain[k + 2] = e
        /\ \A i \in 1 .. k + 1 : chain[i] = c[i]
    BY <2>4, <2>5
  <2>7. \A i \in 1 .. k + 1 : chain[i + 1] \in refs[chain[i]]
    <3> TAKE i \in 1 .. k + 1
    <3>1. CASE i = k + 1
      BY <2>3, <2>6, <3>1
    <3>2. CASE i # k + 1
      <4>1. i \in 1 .. k /\ i + 1 \in 1 .. k + 1
        BY <3>2
      <4>2. c[i + 1] \in refs[c[i]]
        BY <2>4, <4>1
      <4> QED BY <2>6, <4>1, <4>2
    <3> QED BY <3>1, <3>2
  <2>8. (k + 1) + 1 = k + 2
    OBVIOUS
  <2> QED BY <2>6, <2>7, <2>8
<1>4. Nat \subseteq P
  <2> HIDE DEF P
  <2> QED BY <1>2, <1>3, Induction
<1>5. <<d>> \in Chains(refs, d, max)
  BY <1>1
<1>6. ASSUME NEW chain \in Chains(refs, d, max)
      PROVE  /\ chain \in Seq(D) /\ Len(chain) \in 1 .. max + 1
             /\ \A i \in 1 .. Len(chain) - 1 : chain[i + 1] \in refs[chain[i]]
             /\ ~ Repeats(chain) /\ Len(chain) <= max =>
                  \A e \in refs[Last(chain)] : Append(chain, e) \in Chains(refs, d, max)
  <2>1. PICK k \in 0 .. max : chain \in walk[k]
    BY <1>1
  <2>2. Good(chain, k)
    <3>1. k \in Nat /\ k <= max
      OBVIOUS
    <3>2. k \in P
      <4> HIDE DEF P
      <4> QED BY <1>4, <3>1
    <3> HIDE DEF Good
    <3> QED BY <2>1, <3>1, <3>2
  <2>3. ASSUME ~ Repeats(chain), Len(chain) <= max, NEW e \in refs[Last(chain)]
        PROVE  Append(chain, e) \in Chains(refs, d, max)
    <3>1. k + 1 \in 1 .. max /\ (k + 1) - 1 = k /\ k + 1 \in 0 .. max /\ Len(chain) = k + 1
      BY <2>1, <2>2, <2>3
    <3>2. walk[k + 1] = Longer(refs, walk[k], k + 1)
      BY <1>1, <3>1
    <3>3. e \in refs[chain[k + 1]]
      BY <2>3, <3>1 DEF Last
    <3>4. Append(chain, e) \in walk[k + 1]
      BY <2>1, <2>3, <3>2, <3>3 DEF Longer
    <3> QED BY <1>1, <3>1, <3>4
  <2>4. Len(chain) = k + 1 /\ k + 1 \in 1 .. max + 1 /\ (k + 1) - 1 = k
    BY <2>1, <2>2
  <2> QED BY <2>2, <2>3, <2>4
<1> QED BY <1>5, <1>6

-----------------------------------------------------------------------------
(* Levels: every reference leads to a deeper one.                          *)

Descends(refs, level) == \A d \in DOMAIN refs : \A e \in refs[d] : level[d] < level[e]

LEMMA LevelsOfLongest ==
  ASSUME NEW D, NEW refs \in [D -> SUBSET D], NEW max \in Nat, NEW ends \in [D -> SUBSET (1 .. max)],
         \A d \in D : ends[d] # {},
         \A d \in D : \A e \in refs[d] : \A k \in ends[d] : k + 1 \in ends[e]
  PROVE  \E level \in [D -> 1 .. max] : Descends(refs, level)
<1> DEFINE level == [d \in D |-> CHOOSE x \in ends[d] : \A y \in ends[d] : y <= x]
<1>1. ASSUME NEW d \in D PROVE level[d] \in ends[d] /\ \A y \in ends[d] : y <= level[d]
  <2>1. ends[d] \subseteq 0 .. max /\ ends[d] # {}
    OBVIOUS
  <2>2. \E x \in ends[d] : \A y \in ends[d] : y <= x
    BY <2>1, GreatestNatural
  <2> QED BY <2>2
<1>2. level \in [D -> 1 .. max]
  BY <1>1
<1>3. Descends(refs, level)
  <2> SUFFICES ASSUME NEW d \in D, NEW e \in refs[d] PROVE level[d] < level[e]
    BY DEF Descends
  <2>1. e \in D /\ level[d] \in ends[d] /\ level[d] \in 1 .. max /\ level[e] \in 1 .. max
    BY <1>1, <1>2
  <2>2. level[d] + 1 \in ends[e]
    BY <2>1
  <2>3. level[d] + 1 <= level[e]
    BY <1>1, <2>1, <2>2
  <2> QED BY <2>1, <2>3
<1> QED BY <1>2, <1>3

LEMMA LevelsAcyclic ==
  ASSUME NEW D, NEW refs \in [D -> SUBSET D], NEW level \in [D -> Nat], Descends(refs, level)
  PROVE  Acyclic(refs)
<1> SUFFICES ASSUME NEW S \in SUBSET D, S # {} PROVE \E d \in S : \A e \in S : d \notin refs[e]
  BY DEF Acyclic
<1> DEFINE T == {level[d] : d \in S}
<1>1. T \subseteq Nat /\ T # {}
  OBVIOUS
<1> HIDE DEF T
<1>2. PICK x \in T : \A y \in T : x <= y
  BY <1>1, LeastNatural
<1>3. PICK d \in S : x = level[d]
  BY <1>2 DEF T
<1>4. ASSUME NEW e \in S, d \in refs[e] PROVE FALSE
  <2>1. level[e] < level[d] /\ level[e] \in Nat /\ level[d] \in Nat
    BY <1>4 DEF Descends
  <2>2. level[e] \in T
    BY DEF T
  <2>3. level[d] <= level[e]
    BY <1>2, <1>3, <2>2
  <2> QED BY <2>1, <2>3
<1> QED BY <1>4

LEMMA LevelsAlongChain ==
  ASSUME NEW D, NEW refs \in [D -> SUBSET D], NEW max \in Nat, NEW level \in [D -> 1 .. max],
         Descends(refs, level), NEW chain \in Seq(D), Len(chain) >= 1,
         \A i \in 1 .. Len(chain) - 1 : chain[i + 1] \in refs[chain[i]]
  PROVE  ~ Repeats(chain) /\ Len(chain) <= max
<1> DEFINE at(i) == level[chain[i]]
           P == {k \in Nat : k + 1 <= Len(chain) =>
                   at(k + 1) >= k + 1 /\ \A i \in 1 .. k : at(i) < at(k + 1)}
<1>1. \A i \in 1 .. Len(chain) : chain[i] \in D /\ at(i) \in 1 .. max
  <2> TAKE i \in 1 .. Len(chain)
  <2>1. chain[i] \in D
    OBVIOUS
  <2> QED BY <2>1
<1>2. 0 \in P
  <2>1. at(1) \in 1 .. max
    BY <1>1
  <2> QED BY <2>1
<1>3. ASSUME NEW k \in Nat, k \in P PROVE k + 1 \in P
  <2> SUFFICES ASSUME (k + 1) + 1 <= Len(chain)
      PROVE  at((k + 1) + 1) >= (k + 1) + 1 /\ \A i \in 1 .. k + 1 : at(i) < at((k + 1) + 1)
    OBVIOUS
  <2>1. /\ k + 1 \in 1 .. Len(chain) /\ k + 1 \in 1 .. Len(chain) - 1
        /\ (k + 1) + 1 \in 1 .. Len(chain) /\ k + 1 <= Len(chain)
    OBVIOUS
  <2>2. at(k + 1) < at((k + 1) + 1)
    <3>1. chain[(k + 1) + 1] \in refs[chain[k + 1]] /\ chain[k + 1] \in D
      BY <1>1, <2>1
    <3> QED BY <3>1 DEF Descends
  <2>3. at(k + 1) >= k + 1 /\ \A i \in 1 .. k : at(i) < at(k + 1)
    BY <1>3, <2>1
  <2>4. at(k + 1) \in 1 .. max /\ at((k + 1) + 1) \in 1 .. max
    BY <1>1, <2>1
  <2>5. \A i \in 1 .. k + 1 : at(i) < at((k + 1) + 1)
    <3> TAKE i \in 1 .. k + 1
    <3>1. i \in 1 .. Len(chain)
      BY <2>1
    <3>2. at(i) \in 1 .. max
      BY <1>1, <3>1
    <3>3. i = k + 1 \/ i \in 1 .. k
      OBVIOUS
    <3>4. i \in 1 .. k => at(i) < at(k + 1)
      BY <2>3
    <3> HIDE DEF at
    <3> QED BY <2>2, <2>4, <3>2, <3>3, <3>4
  <2> HIDE DEF at
  <2> QED BY <2>2, <2>3, <2>4, <2>5
<1>4. Nat \subseteq P
  <2> HIDE DEF P
  <2> QED BY <1>2, <1>3, Induction
<1>5. ASSUME NEW j \in 1 .. Len(chain)
      PROVE  at(j) >= j /\ \A i \in 1 .. j - 1 : at(i) < at(j)
  <2>1. j - 1 \in Nat /\ (j - 1) + 1 = j
    OBVIOUS
  <2>2. j - 1 \in P
    <3> HIDE DEF P
    <3> QED BY <1>4, <2>1
  <2> HIDE DEF at
  <2> QED BY <2>1, <2>2
<1> HIDE DEF P
<1>6. ASSUME Repeats(chain) PROVE FALSE
  <2>1. PICK i \in 1 .. Len(chain), j \in 1 .. Len(chain) : i < j /\ chain[i] = chain[j]
    BY <1>6 DEF Repeats
  <2>2. i \in 1 .. j - 1
    BY <2>1
  <2>3. at(i) < at(j) /\ at(i) = at(j) /\ at(i) \in 1 .. max
    BY <1>1, <1>5, <2>1, <2>2
  <2> HIDE DEF at
  <2> QED BY <2>3
<1>7. Len(chain) <= max
  <2>1. Len(chain) \in 1 .. Len(chain) /\ Len(chain) \in Nat
    OBVIOUS
  <2>2. at(Len(chain)) >= Len(chain) /\ at(Len(chain)) \in 1 .. max
    BY <1>1, <1>5, <2>1
  <2> HIDE DEF at
  <2> QED BY <2>1, <2>2
<1> QED BY <1>6, <1>7

(* The check of the nesting accepts exactly if the DAGs fit on max levels  *)
(* (validate_sub_dag_nesting and _visit_sub_dag, loader.py:75, 135).       *)
THEOREM NestingIsLevels ==
  ASSUME NEW D, NEW refs \in [D -> SUBSET D], NEW max \in Nat
  PROVE  ValidateSubDagNesting(refs, max) <=>
           \E level \in [D -> 1 .. max] : Descends(refs, level)
<1>1. ASSUME ValidateSubDagNesting(refs, max)
      PROVE  \E level \in [D -> 1 .. max] : Descends(refs, level)
  <2> DEFINE Met(d, k) == \E x \in D : \E chain \in Chains(refs, x, max) :
                              Len(chain) = k /\ Last(chain) = d
             ends == [d \in D |-> {k \in 1 .. max : Met(d, k)}]
  <2>1. \A x \in D : \A chain \in Chains(refs, x, max) :
          ~ Repeats(chain) /\ Len(chain) <= max
    BY <1>1 DEF ValidateSubDagNesting
  <2>2. ASSUME NEW d \in D PROVE ends[d] # {}
    <3>1. <<d>> \in Chains(refs, d, max) /\ Len(<<d>>) = 1 /\ Last(<<d>>) = d
      BY ChainsFrom DEF Last
    <3>2. 1 \in 1 .. max
      BY <2>1, <3>1
    <3>3. Met(d, 1)
      BY <3>1
    <3> HIDE DEF Met
    <3> QED BY <3>2, <3>3
  <2>3. ASSUME NEW d \in D, NEW e \in refs[d], NEW k \in ends[d] PROVE k + 1 \in ends[e]
    <3>1. Met(d, k) /\ k \in 1 .. max /\ e \in D
      OBVIOUS
    <3>2. PICK x \in D : \E chain \in Chains(refs, x, max) : Len(chain) = k /\ Last(chain) = d
      BY <3>1
    <3>3. PICK chain \in Chains(refs, x, max) : Len(chain) = k /\ Last(chain) = d
      BY <3>2
    <3>4. Append(chain, e) \in Chains(refs, x, max) /\ chain \in Seq(D)
      BY <2>1, <3>3, ChainsFrom
    <3>5. Len(Append(chain, e)) = k + 1 /\ Last(Append(chain, e)) = e
      BY <3>1, <3>3, <3>4 DEF Last
    <3>6. k + 1 <= max
      BY <2>1, <3>4, <3>5
    <3>7. Met(e, k + 1)
      BY <3>4, <3>5
    <3> HIDE DEF Met
    <3> QED BY <3>1, <3>6, <3>7
  <2>4. ends \in [D -> SUBSET (1 .. max)]
    <3> HIDE DEF Met
    <3> QED OBVIOUS
  <2> HIDE DEF ends
  <2> QED BY <2>2, <2>3, <2>4, LevelsOfLongest
<1>2. ASSUME NEW level \in [D -> 1 .. max], Descends(refs, level)
      PROVE  ValidateSubDagNesting(refs, max)
  <2> SUFFICES ASSUME NEW d \in D, NEW chain \in Chains(refs, d, max)
      PROVE  ~ Repeats(chain) /\ Len(chain) <= max
    BY DEF ValidateSubDagNesting
  <2>1. /\ chain \in Seq(D) /\ Len(chain) \in 1 .. max + 1
        /\ \A i \in 1 .. Len(chain) - 1 : chain[i + 1] \in refs[chain[i]]
    BY ChainsFrom
  <2>2. Len(chain) >= 1
    BY <2>1
  <2> QED BY <1>2, <2>1, <2>2, LevelsAlongChain
<1> QED BY <1>1, <1>2

(* The chains that a closure is made of end where they can go no further.  *)
LEMMA ClosureChains ==
  ASSUME NEW D, IsFiniteSet(D), NEW refs \in [D -> SUBSET D], NEW root \in D,
         DagClosure(refs, root) # {}
  PROVE  LET chains == Chains(refs, root, Cardinality(D))
         IN  /\ <<root>> \in chains
             /\ DagClosure(refs, root) = UNION {{chain[i] : i \in DOMAIN chain} : chain \in chains}
             /\ \A chain \in chains :
                  /\ chain \in Seq(D) /\ Len(chain) \in 1 .. Cardinality(D)
                  /\ \A e \in refs[Last(chain)] : Append(chain, e) \in chains
<1> DEFINE max == Cardinality(D)
           chains == Chains(refs, root, max)
<1>0. max \in Nat /\ DOMAIN refs = D
  BY FS_CardinalityType
<1>1. \A chain \in chains : ~ Repeats(chain)
  BY <1>0 DEF DagClosure
<1>2. DagClosure(refs, root) = UNION {{chain[i] : i \in DOMAIN chain} : chain \in chains}
  BY <1>0, <1>1 DEF DagClosure
<1> HIDE DEF max
<1>3. \A chain \in chains :
        /\ chain \in Seq(D) /\ Len(chain) \in 1 .. max + 1
        /\ Len(chain) <= max => \A e \in refs[Last(chain)] : Append(chain, e) \in chains
  <2> SUFFICES ASSUME NEW chain \in Chains(refs, root, max)
      PROVE  /\ chain \in Seq(D) /\ Len(chain) \in 1 .. max + 1
             /\ Len(chain) <= max =>
                  \A e \in refs[Last(chain)] : Append(chain, e) \in Chains(refs, root, max)
    OBVIOUS
  <2>1. ~ Repeats(chain)
    BY <1>1
  <2> HIDE DEF chains
  <2>2. chain \in Seq(D) /\ Len(chain) \in 1 .. max + 1
    BY <1>0, ChainsFrom
  <2>3. Len(chain) <= max =>
          \A e \in refs[Last(chain)] : Append(chain, e) \in Chains(refs, root, max)
    BY <1>0, <2>1, ChainsFrom
  <2> QED BY <2>2, <2>3
<1>4. <<root>> \in chains
  BY <1>0, ChainsFrom
<1> HIDE DEF chains
(* By the pigeonhole principle no chain is longer than there are DAGs.     *)
<1>5. \A chain \in chains : Len(chain) \in 1 .. max
  <2> SUFFICES ASSUME NEW chain \in chains, Len(chain) = max + 1 PROVE FALSE
    BY <1>0, <1>3
  <2>1. chain \in [1 .. max + 1 -> D]
    BY <1>3
  <2>2. IsFiniteSet(1 .. max + 1) /\ Cardinality(1 .. max + 1) = max + 1
    BY <1>0, FS_Interval
  <2>3. Cardinality(D) < Cardinality(1 .. max + 1)
    BY <1>0, <2>2 DEF max
  <2>4. PICK i \in 1 .. max + 1, j \in 1 .. max + 1 : i # j /\ chain[i] = chain[j]
    BY <2>1, <2>2, <2>3, FS_PigeonHole
  <2>5. DOMAIN chain = 1 .. max + 1
    BY <2>1
  <2>6. i < j \/ j < i
    BY <1>0, <2>4
  <2>7. Repeats(chain)
    BY <2>4, <2>5, <2>6 DEF Repeats
  <2> QED BY <1>1, <2>7
<1>6. \A chain \in chains :
        /\ chain \in Seq(D) /\ Len(chain) \in 1 .. max
        /\ \A e \in refs[Last(chain)] : Append(chain, e) \in chains
  <2> TAKE chain \in chains
  <2>1. Len(chain) \in 1 .. max
    BY <1>5
  <2>2. Len(chain) <= max
    BY <1>0, <2>1
  <2> QED BY <1>3, <2>1, <2>2
<1> QED BY <1>2, <1>4, <1>6 DEF chains, max

(* A DAG has a closure only if nothing below it has a cycle, and it is all *)
(* that can be reached (build_dag_execution_closure, snapshot.py:78).      *)
THEOREM ClosureIsReached ==
  ASSUME NEW D, IsFiniteSet(D), NEW refs \in [D -> SUBSET D], NEW root \in D,
         DagClosure(refs, root) # {},
         \A R \in SUBSET D : root \in R /\ (\A d \in R : refs[d] \subseteq R) => R = D
  PROVE  DagClosure(refs, root) = D /\ Acyclic(refs)
<1> DEFINE max == Cardinality(D)
           chains == Chains(refs, root, max)
           Met(d, k) == \E chain \in chains : Len(chain) = k /\ Last(chain) = d
           ends == [d \in D |-> {k \in 1 .. max : Met(d, k)}]
           closure == {d \in D : ends[d] # {}}
<1>0. max \in Nat /\ DOMAIN refs = D
  BY FS_CardinalityType
<1> HIDE DEF max, chains
<1>1. /\ <<root>> \in chains
      /\ DagClosure(refs, root) = UNION {{chain[i] : i \in DOMAIN chain} : chain \in chains}
      /\ \A chain \in chains :
           /\ chain \in Seq(D) /\ Len(chain) \in 1 .. max
           /\ \A e \in refs[Last(chain)] : Append(chain, e) \in chains
  BY ClosureChains DEF chains, max
<1>2. ASSUME NEW d \in D, NEW e \in refs[d], NEW k \in ends[d] PROVE k + 1 \in ends[e]
  <2>1. Met(d, k) /\ k \in 1 .. max /\ e \in D
    OBVIOUS
  <2>2. PICK chain \in chains : Len(chain) = k /\ Last(chain) = d
    BY <2>1
  <2>3. Append(chain, e) \in chains /\ chain \in Seq(D)
    <3>1. e \in refs[Last(chain)]
      BY <2>2
    <3> QED BY <1>1, <2>2, <3>1
  <2>4. Len(Append(chain, e)) = k + 1 /\ Last(Append(chain, e)) = e
    BY <2>1, <2>2, <2>3 DEF Last
  <2>5. k + 1 \in 1 .. max
    <3>1. Len(Append(chain, e)) \in 1 .. max
      BY <1>1, <2>3
    <3> QED BY <2>4, <3>1
  <2>6. Met(e, k + 1)
    BY <2>3, <2>4
  <2> HIDE DEF Met
  <2> QED BY <2>1, <2>5, <2>6
<1>3. root \in closure
  <2>1. Len(<<root>>) = 1 /\ Last(<<root>>) = root
    BY DEF Last
  <2>2. Met(root, 1)
    BY <1>1, <2>1
  <2>3. 1 \in 1 .. max
    BY <1>1, <2>1
  <2> HIDE DEF Met
  <2> QED BY <2>2, <2>3
<1>4. \A d \in closure : refs[d] \subseteq closure
  <2> HIDE DEF ends
  <2> QED BY <1>2
<1>5. closure = D
  <2>1. closure \in SUBSET D
    OBVIOUS
  <2> HIDE DEF closure
  <2> QED BY <1>3, <1>4, <2>1
<1>6. Acyclic(refs)
  <2>1. ends \in [D -> SUBSET (1 .. max)]
    <3> HIDE DEF Met
    <3> QED OBVIOUS
  <2>2. \A d \in D : ends[d] # {}
    BY <1>5
  <2> HIDE DEF ends
  <2>3. PICK level \in [D -> 1 .. max] : Descends(refs, level)
    BY <1>0, <1>2, <2>1, <2>2, LevelsOfLongest
  <2>4. level \in [D -> Nat]
    BY <1>0
  <2> QED BY <2>3, <2>4, LevelsAcyclic
<1>7. DagClosure(refs, root) = D
  <2>1. DagClosure(refs, root) \subseteq D
    <3> SUFFICES ASSUME NEW chain \in chains, NEW i \in DOMAIN chain PROVE chain[i] \in D
      BY <1>1
    <3>1. chain \in Seq(D)
      BY <1>1
    <3> QED BY <3>1
  <2>2. ASSUME NEW d \in D PROVE d \in DagClosure(refs, root)
    <3>1. PICK k \in 1 .. max : Met(d, k)
      BY <1>5
    <3>2. PICK chain \in chains : Len(chain) = k /\ Last(chain) = d
      BY <3>1
    <3>3. chain \in Seq(D) /\ k \in DOMAIN chain /\ d = chain[k]
      BY <1>1, <3>1, <3>2 DEF Last
    <3> QED BY <1>1, <3>2, <3>3
  <2> QED BY <2>1, <2>2
<1> QED BY <1>6, <1>7

-----------------------------------------------------------------------------
(* Type correctness of DagStore; a call has read finitely many DAGs, and   *)
(* the one that it is to write is among them.                              *)

CallRecord == [kind : {"none", "save", "edit", "create", "run"}, dag : Dag \union {None},
               stage : {"idle", "reading", "done", "refused"}, seen : Refs, todo : SUBSET Dag]

TypeInv ==
  /\ stored \in Refs
  /\ call \in [Call -> CallRecord]
  /\ \A c \in Call :
       /\ IsFiniteSet(DOMAIN call[c].seen)
       /\ call[c].stage # "idle" =>
            call[c].dag \in Dag /\ (call[c].kind = "run" \/ call[c].dag \in DOMAIN call[c].seen)
  /\ dirty \subseteq Call
  /\ writes \in 0 .. MaxWrites
  /\ checked \in BOOLEAN

LEMMA RefsMeans ==
  ASSUME NEW refs
  PROVE  refs \in Refs <=> DOMAIN refs \subseteq Dag /\ refs \in [DOMAIN refs -> SUBSET Dag]
BY DEF Refs

LEMMA WithMeans ==
  ASSUME NEW refs \in Refs, NEW d \in Dag, NEW to \in SUBSET Dag
  PROVE  /\ With(refs, d, to) \in Refs
         /\ DOMAIN With(refs, d, to) = DOMAIN refs \union {d}
         /\ With(refs, d, to)[d] = to
         /\ \A e \in DOMAIN refs \ {d} : With(refs, d, to)[e] = refs[e]
         /\ IsFiniteSet(DOMAIN refs) => IsFiniteSet(DOMAIN With(refs, d, to))
<1>1. DOMAIN refs \subseteq Dag /\ refs \in [DOMAIN refs -> SUBSET Dag]
  BY RefsMeans
<1>2. DOMAIN With(refs, d, to) = DOMAIN refs \union {d}
  BY DEF With
<1>3. \A e \in DOMAIN refs \union {d} : With(refs, d, to)[e] = IF e = d THEN to ELSE refs[e]
  BY DEF With
<1>4. With(refs, d, to) \in [DOMAIN refs \union {d} -> SUBSET Dag]
  BY <1>1 DEF With
<1>5. With(refs, d, to) \in Refs
  BY <1>1, <1>2, <1>4, RefsMeans
<1>6. IsFiniteSet(DOMAIN refs) => IsFiniteSet(DOMAIN With(refs, d, to))
  BY <1>2, FS_AddElement
<1> QED BY <1>2, <1>3, <1>5, <1>6

LEMMA RestrictionMeans ==
  ASSUME NEW refs \in Refs, NEW S \in SUBSET DOMAIN refs
  PROVE  /\ Restriction(refs, S) \in Refs
         /\ DOMAIN Restriction(refs, S) = S
         /\ \A d \in S : Restriction(refs, S)[d] = refs[d]
<1>1. DOMAIN refs \subseteq Dag /\ refs \in [DOMAIN refs -> SUBSET Dag]
  BY RefsMeans
<1>2. DOMAIN Restriction(refs, S) = S /\ \A d \in S : Restriction(refs, S)[d] = refs[d]
  BY DEF Restriction
<1>3. Restriction(refs, S) \in [S -> SUBSET Dag]
  BY <1>1 DEF Restriction
<1>4. Restriction(refs, S) \in Refs
  BY <1>1, <1>2, <1>3, RefsMeans
<1> QED BY <1>2, <1>4

(* What the reading of one DAG does to the call.                           *)
LEMMA ReadMeans ==
  ASSUME TypeInv, NEW c \in Call, NEW e \in call[c].todo, Stored(e),
         call' = [call EXCEPT ![c] = [call[c] EXCEPT
           !.seen = With(call[c].seen, e, stored[e]),
           !.todo = (call[c].todo \union stored[e]) \ (DOMAIN call[c].seen \union {e})]]
  PROVE  /\ e \in Dag /\ stored[e] \in SUBSET Dag
         /\ call' \in [Call -> CallRecord]
         /\ \A b \in Call \ {c} : call'[b] = call[b]
         /\ call'[c].kind = call[c].kind /\ call'[c].dag = call[c].dag
         /\ call'[c].stage = call[c].stage
         /\ call'[c].seen = With(call[c].seen, e, stored[e])
         /\ call'[c].todo = (call[c].todo \union stored[e]) \ (DOMAIN call[c].seen \union {e})
<1>1. call \in [Call -> CallRecord] /\ call[c] \in CallRecord
  BY DEF TypeInv
<1>2. e \in Dag /\ stored[e] \in SUBSET Dag
  BY <1>1, RefsMeans DEF TypeInv, CallRecord, Stored
<1>3. call'[c] = [call[c] EXCEPT
        !.seen = With(call[c].seen, e, stored[e]),
        !.todo = (call[c].todo \union stored[e]) \ (DOMAIN call[c].seen \union {e})]
  BY <1>1
<1>4. call[c].seen \in Refs
  BY <1>1 DEF CallRecord
<1>5. With(call[c].seen, e, stored[e]) \in Refs
  BY <1>2, <1>4, WithMeans
<1>6. (call[c].todo \union stored[e]) \ (DOMAIN call[c].seen \union {e}) \in SUBSET Dag
  BY <1>1, <1>2 DEF CallRecord
<1>7. call'[c] \in CallRecord
  BY <1>1, <1>3, <1>5, <1>6 DEF CallRecord
<1>8. call' \in [Call -> CallRecord] /\ \A b \in Call \ {c} : call'[b] = call[b]
  BY <1>1, <1>7
<1> QED BY <1>1, <1>2, <1>3, <1>8 DEF CallRecord

LEMMA WriteType ==
  ASSUME TypeInv, NEW c, NEW d \in Dag, NEW to \in SUBSET Dag, Write(c, d, to)
  PROVE  stored' \in Refs /\ dirty' \subseteq Call
BY WithMeans DEF TypeInv, Write, Others

LEMMA AnswersType ==
  ASSUME TypeInv, NEW c \in Call, NEW stage \in {"done", "refused"}, Answers(c, stage)
  PROVE  /\ call' \in [Call -> CallRecord]
         /\ \A b \in Call : call'[b].seen = call[b].seen
         /\ \A b \in Call \ {c} : call'[b] = call[b]
         /\ call'[c].kind = call[c].kind /\ call'[c].dag = call[c].dag
         /\ call'[c].stage = stage /\ call'[c].todo = call[c].todo
BY DEF TypeInv, Answers, CallRecord

(* What a call starts with.                                                *)
LEMMA StartsMeans ==
  ASSUME TypeInv, NEW c \in Call, NEW kind, NEW d, NEW seen, NEW todo,
         Starts(c, kind, d, seen, todo)
  PROVE  /\ call'[c] = [kind |-> kind, dag |-> d, stage |-> "reading", seen |-> seen, todo |-> todo]
         /\ \A b \in Call \ {c} : call'[b] = call[b]
         /\ UNCHANGED <<stored, dirty, writes, checked>>
BY DEF TypeInv, Starts

LEMMA SingleRefs ==
  ASSUME NEW d \in Dag, NEW to \in SUBSET Dag
  PROVE  [e \in {d} |-> to] \in Refs /\ IsFiniteSet({d})
<1>1. [e \in {d} |-> to] \in [{d} -> SUBSET Dag]
  OBVIOUS
<1>2. {} \union {d} = {d} /\ IsFiniteSet({})
  BY FS_EmptySet
<1>3. IsFiniteSet({} \union {d})
  BY <1>2, FS_AddElement
<1> QED BY <1>1, <1>2, <1>3, RefsMeans

LEMMA NoRefs ==
  ASSUME NEW to
  PROVE  [e \in {} |-> to] \in Refs /\ IsFiniteSet(DOMAIN [e \in {} |-> to])
<1>1. [e \in {} |-> to] \in [{} -> SUBSET Dag]
  OBVIOUS
<1> QED BY <1>1, RefsMeans, FS_EmptySet

LEMMA StartsType ==
  ASSUME TypeInv, NEW c \in Call, NEW kind \in {"save", "edit", "create", "run"}, NEW d \in Dag,
         NEW seen \in Refs, IsFiniteSet(DOMAIN seen), NEW todo \in SUBSET Dag,
         kind = "run" \/ d \in DOMAIN seen,
         Starts(c, kind, d, seen, todo)
  PROVE  TypeInv'
<1>1. call' \in [Call -> CallRecord]
  BY DEF TypeInv, Starts, CallRecord
<1>2. /\ call'[c].seen = seen /\ call'[c].dag = d /\ call'[c].kind = kind
      /\ \A b \in Call \ {c} : call'[b] = call[b]
      /\ UNCHANGED <<stored, dirty, writes, checked>>
  BY DEF Starts, TypeInv
<1>3. \A b \in Call :
       /\ IsFiniteSet(DOMAIN call'[b].seen)
       /\ call'[b].stage # "idle" =>
            call'[b].dag \in Dag /\ (call'[b].kind = "run" \/ call'[b].dag \in DOMAIN call'[b].seen)
  <2> TAKE b \in Call
  <2>1. CASE b = c
    BY <1>2, <2>1
  <2>2. CASE b # c
    BY <1>2, <2>2 DEF TypeInv
  <2> QED BY <2>1, <2>2
<1> QED BY <1>1, <1>2, <1>3 DEF TypeInv

LEMMA AnswerType ==
  ASSUME TypeInv, NEW c \in Call, call[c].stage # "idle", NEW stage \in {"done", "refused"},
         Answers(c, stage), stored' \in Refs, dirty' \subseteq Call, UNCHANGED writes,
         checked' \in BOOLEAN
  PROVE  TypeInv'
<1>1. /\ call' \in [Call -> CallRecord]
      /\ \A b \in Call : call'[b].seen = call[b].seen
      /\ \A b \in Call \ {c} : call'[b] = call[b]
      /\ call'[c].kind = call[c].kind /\ call'[c].dag = call[c].dag
  BY AnswersType
<1>2. \A b \in Call :
       /\ IsFiniteSet(DOMAIN call'[b].seen)
       /\ call'[b].stage # "idle" =>
            call'[b].dag \in Dag /\ (call'[b].kind = "run" \/ call'[b].dag \in DOMAIN call'[b].seen)
  <2> TAKE b \in Call
  <2>1. CASE b = c
    BY <1>1, <2>1 DEF TypeInv
  <2>2. CASE b # c
    BY <1>1, <2>2 DEF TypeInv
  <2> QED BY <2>1, <2>2
<1> QED BY <1>1, <1>2 DEF TypeInv

(* The rows, the calls and what they have read stay well formed.           *)
THEOREM StoreTypeOK == Spec => []TypeInv
<1>1. Init => TypeInv
  <2> SUFFICES ASSUME Init PROVE TypeInv
    OBVIOUS
  <2>1. NoCall \in CallRecord /\ IsFiniteSet(DOMAIN NoCall.seen) /\ NoCall.stage = "idle"
    BY NoRefs DEF NoCall, CallRecord
  <2>2. stored \in Refs
    BY DEF Init
  <2> QED BY <2>1, <2>2, NumberAssumption DEF Init, TypeInv
<1>2. TypeInv /\ [Next]_vars => TypeInv'
  <2> SUFFICES ASSUME TypeInv, [Next]_vars PROVE TypeInv'
    OBVIOUS
  <2>0. \A c \in Call : call[c] \in CallRecord /\ call[c].seen \in Refs
    BY DEF TypeInv, CallRecord
  <2>1. ASSUME NEW c \in Call, ReadDag(c) PROVE TypeInv'
    <3> PICK e \in call[c].todo :
          call' = [call EXCEPT
             ![c] = IF Stored(e)
                      THEN [call[c] EXCEPT
                             !.seen = With(call[c].seen, e, stored[e]),
                             !.todo = (call[c].todo \union stored[e]) \ (DOMAIN call[c].seen \union {e})]
                      ELSE [call[c] EXCEPT !.stage = "refused"]]
      BY <2>1 DEF ReadDag
    <3>0. UNCHANGED <<stored, dirty, writes, checked>> /\ call[c].stage = "reading"
      BY <2>1 DEF ReadDag, Running
    <3>1. CASE Stored(e)
      <4>1. /\ e \in Dag /\ stored[e] \in SUBSET Dag
            /\ call' \in [Call -> CallRecord]
            /\ \A b \in Call \ {c} : call'[b] = call[b]
            /\ call'[c].kind = call[c].kind /\ call'[c].dag = call[c].dag
            /\ call'[c].seen = With(call[c].seen, e, stored[e])
        BY <3>1, ReadMeans
      <4>2. /\ IsFiniteSet(DOMAIN call'[c].seen)
            /\ DOMAIN call[c].seen \subseteq DOMAIN call'[c].seen
        <5>1. call[c].seen \in Refs /\ IsFiniteSet(DOMAIN call[c].seen)
          BY <2>0 DEF TypeInv
        <5>2. LET after == With(call[c].seen, e, stored[e])
              IN  IsFiniteSet(DOMAIN after) /\ DOMAIN after = DOMAIN call[c].seen \union {e}
          BY <4>1, <5>1, WithMeans
        <5> QED BY <4>1, <5>2
      <4>3. \A b \in Call :
              /\ IsFiniteSet(DOMAIN call'[b].seen)
              /\ call'[b].stage # "idle" =>
                   /\ call'[b].dag \in Dag
                   /\ call'[b].kind = "run" \/ call'[b].dag \in DOMAIN call'[b].seen
        <5> TAKE b \in Call
        <5>1. CASE b = c
          BY <3>0, <4>1, <4>2, <5>1 DEF TypeInv
        <5>2. CASE b # c
          BY <4>1, <5>2 DEF TypeInv
        <5> QED BY <5>1, <5>2
      <4> QED BY <3>0, <4>1, <4>3 DEF TypeInv
    <3>2. CASE ~ Stored(e)
      <4>1. call' = [call EXCEPT ![c] = [call[c] EXCEPT !.stage = "refused"]]
        BY <3>2
      <4>2. Answers(c, "refused")
        BY <2>0, <4>1 DEF Answers, TypeInv
      <4> QED BY <3>0, <4>2, AnswerType DEF TypeInv
    <3> QED BY <3>1, <3>2
  <2>2. ASSUME NEW c \in Call, Validate(c) PROVE TypeInv'
    <3>0. call[c].stage = "reading" /\ call[c].kind \in {"save", "edit"}
      BY <2>2 DEF Validate, Running
    <3>1. CASE ValidateSubDagNesting(call[c].seen, MaxDepth)
      <4>1. /\ Write(c, call[c].dag, call[c].seen[call[c].dag])
            /\ Answers(c, "done")
            /\ checked' = (checked /\ c \notin dirty)
            /\ UNCHANGED writes
        BY <2>2, <3>1 DEF Validate
      <4>2. call[c].dag \in Dag /\ call[c].seen[call[c].dag] \in SUBSET Dag
        <5>1. call[c].dag \in Dag /\ call[c].dag \in DOMAIN call[c].seen
          BY <3>0 DEF TypeInv
        <5> QED BY <2>0, <5>1, RefsMeans
      <4>3. stored' \in Refs /\ dirty' \subseteq Call
        BY <4>1, <4>2, WriteType
      <4>4. checked' \in BOOLEAN
        BY <4>1, Zenon
      <4> QED BY <3>0, <4>1, <4>3, <4>4, AnswerType
    <3>2. CASE ~ ValidateSubDagNesting(call[c].seen, MaxDepth)
      <4>1. Answers(c, "refused") /\ UNCHANGED <<stored, dirty, writes, checked>>
        BY <2>2, <3>2 DEF Validate
      <4> QED BY <3>0, <4>1, AnswerType DEF TypeInv
    <3> QED BY <3>1, <3>2
  <2>3. ASSUME NEW c \in Call, WriteEmpty(c) PROVE TypeInv'
    <3>1. /\ call[c].stage = "reading" /\ Write(c, call[c].dag, {}) /\ Answers(c, "done")
          /\ UNCHANGED <<writes, checked>>
      BY <2>3 DEF WriteEmpty, Running
    <3>2. call[c].dag \in Dag /\ {} \in SUBSET Dag
      BY <3>1 DEF TypeInv
    <3>3. stored' \in Refs /\ dirty' \subseteq Call
      BY <3>1, <3>2, WriteType
    <3> QED BY <3>1, <3>3, AnswerType DEF TypeInv
  <2>4. ASSUME NEW c \in Call, RunBegins(c) PROVE TypeInv'
    <3> DEFINE stage == IF DagClosure(call[c].seen, call[c].dag) = {} THEN "refused" ELSE "done"
    <3>1. /\ call[c].stage = "reading" /\ Answers(c, stage)
          /\ UNCHANGED <<stored, dirty, writes, checked>>
      BY <2>4 DEF RunBegins, Running
    <3>2. stage \in {"done", "refused"}
      OBVIOUS
    <3> HIDE DEF stage
    <3> QED BY <3>1, <3>2, AnswerType DEF TypeInv
  <2>5. ASSUME NEW c \in Call, NEW d \in Dag, CreateDag(c, d) PROVE TypeInv'
    <3>1. Starts(c, "create", d, [e \in {d} |-> {}], {})
      BY <2>5 DEF CreateDag
    <3>2. [e \in {d} |-> {}] \in Refs /\ IsFiniteSet(DOMAIN [e \in {d} |-> {}])
      BY SingleRefs
    <3> QED BY <3>1, <3>2, StartsType
  <2>6. ASSUME NEW c \in Call, NEW d \in Dag, StartRun(c, d) PROVE TypeInv'
    <3>1. Starts(c, "run", d, [e \in {} |-> {}], {d})
      BY <2>6 DEF StartRun
    <3> QED BY <3>1, NoRefs, StartsType
  <2>7. ASSUME NEW c \in Call, NEW d \in Dag, NEW e \in Dag, EditDag(c, d, e) PROVE TypeInv'
    <3> DEFINE to == stored[d] \union {e}
    <3>1. Starts(c, "edit", d, [x \in {d} |-> to], to \ {d}) /\ d \in DOMAIN stored
      BY <2>7 DEF EditDag, Stored
    <3>2. to \in SUBSET Dag
      BY <3>1, RefsMeans DEF TypeInv
    <3>3. [x \in {d} |-> to] \in Refs /\ IsFiniteSet(DOMAIN [x \in {d} |-> to])
      BY <3>2, SingleRefs
    <3>4. d \in DOMAIN [x \in {d} |-> to] /\ to \ {d} \in SUBSET Dag
      BY <3>2
    <3> HIDE DEF to
    <3> QED BY <3>1, <3>3, <3>4, StartsType
  <2>8. ASSUME NEW c \in Call, NEW d \in Dag, NEW refs \in SUBSET Dag, SaveDag(c, d, refs)
        PROVE  TypeInv'
    <3>1. Starts(c, "save", d, [e \in {d} |-> refs], refs \ {d})
      BY <2>8 DEF SaveDag
    <3>2. [e \in {d} |-> refs] \in Refs /\ IsFiniteSet(DOMAIN [e \in {d} |-> refs])
      BY SingleRefs
    <3>3. d \in DOMAIN [e \in {d} |-> refs] /\ refs \ {d} \in SUBSET Dag
      OBVIOUS
    <3> QED BY <3>1, <3>2, <3>3, StartsType
  <2>9. ASSUME NEW d \in Dag, NEW refs \in SUBSET Dag, UpdateEntity(d, refs) PROVE TypeInv'
    <3>1. /\ writes' \in 0 .. MaxWrites /\ Write(None, d, refs) /\ UNCHANGED call
          /\ checked' = FALSE
      BY <2>9, NumberAssumption DEF UpdateEntity, EntityWrite, TypeInv
    <3>2. stored' \in Refs /\ dirty' \subseteq Call
      BY <3>1, WriteType
    <3> QED BY <3>1, <3>2 DEF TypeInv
  <2>10. ASSUME NEW d \in Dag, DeleteEntity(d) PROVE TypeInv'
    <3>1. /\ writes' \in 0 .. MaxWrites /\ dirty' = dirty \union Others(None)
          /\ stored' = Restriction(stored, DOMAIN stored \ {d}) /\ UNCHANGED <<call, checked>>
      BY <2>10, NumberAssumption DEF DeleteEntity, EntityWrite, TypeInv
    <3>2. stored' \in Refs
      BY <3>1, RestrictionMeans DEF TypeInv
    <3> QED BY <3>1, <3>2 DEF TypeInv, Others
  <2>11. CASE UNCHANGED vars
    BY <2>11 DEF vars, TypeInv
  <2> QED BY <2>1, <2>2, <2>3, <2>4, <2>5, <2>6, <2>7, <2>8, <2>9, <2>10, <2>11 DEF Next
<1> QED BY <1>1, <1>2, PTL DEF Spec

-----------------------------------------------------------------------------
(* What a call has read: it is closed but for what is still to be read,    *)
(* and there is nothing in it that is not below its DAG.                   *)

Reads(r) ==
  /\ r.todo \intersect DOMAIN r.seen = {}
  /\ r.dag \in DOMAIN r.seen \union r.todo
  /\ \A d \in DOMAIN r.seen : r.seen[d] \subseteq DOMAIN r.seen \union r.todo
  /\ \A R \in SUBSET Dag :
       r.dag \in R /\ (\A d \in R \intersect DOMAIN r.seen : r.seen[d] \subseteq R) =>
         DOMAIN r.seen \union r.todo \subseteq R

(* The answers rest on what was read.                                      *)
Answered(r) ==
  /\ r.kind \in {"save", "edit"} =>
       /\ r.stage = "done" => r.todo = {} /\ ValidateSubDagNesting(r.seen, MaxDepth)
       /\ r.stage = "refused" /\ r.todo = {} => ~ ValidateSubDagNesting(r.seen, MaxDepth)
  /\ r.kind = "run" /\ r.stage = "done" => r.todo = {} /\ DagClosure(r.seen, r.dag) # {}

ReadInv ==
  \A c \in Call :
    IF call[c].stage = "idle" THEN call[c].kind = "none" ELSE Reads(call[c]) /\ Answered(call[c])

LEMMA ReadInvStarts ==
  ASSUME TypeInv, ReadInv, NEW c \in Call, NEW kind, NEW d \in Dag, NEW seen, NEW todo,
         Starts(c, kind, d, seen, todo),
         \/ seen = [e \in {} |-> {}] /\ todo = {d}
         \/ \E to \in SUBSET Dag : seen = [e \in {d} |-> to] /\ todo = to \ {d}
  PROVE  ReadInv'
<1> DEFINE r == [kind |-> kind, dag |-> d, stage |-> "reading", seen |-> seen, todo |-> todo]
<1>1. call'[c] = r /\ \A b \in Call \ {c} : call'[b] = call[b]
  BY StartsMeans
<1>2. Reads(r)
  <2>1. CASE seen = [e \in {} |-> {}] /\ todo = {d}
    BY <2>1 DEF Reads
  <2>2. CASE \E to \in SUBSET Dag : seen = [e \in {d} |-> to] /\ todo = to \ {d}
    <3> PICK to \in SUBSET Dag : seen = [e \in {d} |-> to] /\ todo = to \ {d}
      BY <2>2
    <3>1. DOMAIN seen = {d} /\ seen[d] = to /\ r.seen = seen /\ r.todo = todo /\ r.dag = d
      OBVIOUS
    <3> HIDE DEF r
    <3> QED BY <3>1 DEF Reads
  <2> QED BY <2>1, <2>2
<1>3. Answered(r) /\ r.stage = "reading"
  BY DEF Answered
<1> HIDE DEF r
<1> QED BY <1>1, <1>2, <1>3 DEF ReadInv

(* An answer leaves alone what was read.                                   *)
LEMMA ReadInvAnswers ==
  ASSUME TypeInv, ReadInv, NEW c \in Call, call[c].stage # "idle",
         NEW stage \in {"done", "refused"}, Answers(c, stage),
         Answered(call'[c])
  PROVE  ReadInv'
<1>1. /\ \A b \in Call \ {c} : call'[b] = call[b]
      /\ call'[c].seen = call[c].seen
      /\ call'[c].dag = call[c].dag /\ call'[c].todo = call[c].todo
      /\ call'[c].stage = stage
  BY AnswersType
<1>2. Reads(call[c])
  BY DEF ReadInv
<1>3. Reads(call'[c])
  BY <1>1, <1>2 DEF Reads
<1> QED BY <1>1, <1>3 DEF ReadInv

LEMMA ReadInvReads ==
  ASSUME TypeInv, ReadInv, NEW c \in Call, ReadDag(c)
  PROVE  ReadInv'
<1> PICK e \in call[c].todo :
      call' = [call EXCEPT
         ![c] = IF Stored(e)
                  THEN [call[c] EXCEPT
                         !.seen = With(call[c].seen, e, stored[e]),
                         !.todo = (call[c].todo \union stored[e]) \ (DOMAIN call[c].seen \union {e})]
                  ELSE [call[c] EXCEPT !.stage = "refused"]]
  BY DEF ReadDag
<1>0. call[c].stage = "reading" /\ call[c] \in CallRecord /\ call[c].seen \in Refs /\ Reads(call[c])
  BY DEF ReadDag, Running, TypeInv, CallRecord, ReadInv
<1>1. CASE Stored(e)
  <2>1. /\ e \in Dag /\ stored[e] \in SUBSET Dag
        /\ \A b \in Call \ {c} : call'[b] = call[b]
        /\ call'[c].dag = call[c].dag /\ call'[c].stage = "reading"
        /\ call'[c].seen = With(call[c].seen, e, stored[e])
        /\ call'[c].todo = (call[c].todo \union stored[e]) \ (DOMAIN call[c].seen \union {e})
    BY <1>0, <1>1, ReadMeans
  <2> DEFINE before == call[c].seen
             after == With(before, e, stored[e])
             todo == (call[c].todo \union stored[e]) \ (DOMAIN before \union {e})
  <2>2. /\ DOMAIN after = DOMAIN before \union {e}
        /\ after[e] = stored[e]
        /\ \A d \in DOMAIN before \ {e} : after[d] = before[d]
    <3>1. before \in Refs
      BY <1>0
    <3>2. e \in Dag /\ stored[e] \in SUBSET Dag
      BY <2>1
    <3> HIDE DEF before
    <3>3. /\ DOMAIN With(before, e, stored[e]) = DOMAIN before \union {e}
          /\ With(before, e, stored[e])[e] = stored[e]
          /\ \A d \in DOMAIN before \ {e} : With(before, e, stored[e])[d] = before[d]
      BY <3>1, <3>2, WithMeans
    <3> QED BY <3>3 DEF after
  <2>3. /\ call[c].todo \intersect DOMAIN before = {}
        /\ call[c].dag \in DOMAIN before \union call[c].todo
        /\ \A d \in DOMAIN before : before[d] \subseteq DOMAIN before \union call[c].todo
    BY <1>0 DEF Reads
  <2>4. /\ call'[c].seen = after /\ call'[c].todo = todo
    BY <2>1
  <2>5. e \notin DOMAIN before
    BY <2>3
  <2> HIDE DEF after
  <2>6. \A d \in DOMAIN after : after[d] \subseteq DOMAIN after \union todo
    BY <2>2, <2>3, <2>5
  <2>7. ASSUME NEW R \in SUBSET Dag, call[c].dag \in R,
               \A d \in R \intersect DOMAIN after : after[d] \subseteq R
        PROVE  DOMAIN after \union todo \subseteq R
    <3>1. \A d \in R \intersect DOMAIN before : before[d] \subseteq R
      BY <2>2, <2>5, <2>7
    <3>2. DOMAIN before \union call[c].todo \subseteq R
      BY <1>0, <2>7, <3>1 DEF Reads
    <3>3. e \in R /\ after[e] \subseteq R
      BY <2>2, <2>7, <3>2
    <3> QED BY <2>2, <3>2, <3>3
  <2>8. todo \intersect DOMAIN after = {} /\ call[c].dag \in DOMAIN after \union todo
    BY <2>2, <2>3
  <2> HIDE DEF todo, before
  <2>9. Reads(call'[c])
    BY <2>1, <2>4, <2>6, <2>7, <2>8 DEF Reads
  <2>10. Answered(call'[c])
    BY <2>1 DEF Answered
  <2> QED BY <2>1, <2>9, <2>10 DEF ReadInv
<1>2. CASE ~ Stored(e)
  <2>1. call' = [call EXCEPT ![c] = [call[c] EXCEPT !.stage = "refused"]]
    BY <1>2
  <2>2. Answers(c, "refused")
    BY <1>0, <2>1 DEF Answers, TypeInv
  <2>3. call'[c].todo # {} /\ call'[c].stage = "refused"
    BY <2>2, AnswersType
  <2>4. Answered(call'[c])
    BY <2>3 DEF Answered
  <2> QED BY <1>0, <2>2, <2>4, ReadInvAnswers
<1> QED BY <1>1, <1>2

THEOREM ReadInvHolds == Spec => []ReadInv
<1>1. Init => ReadInv
  BY DEF Init, ReadInv, NoCall
<1>2. TypeInv /\ ReadInv /\ [Next]_vars => ReadInv'
  <2> SUFFICES ASSUME TypeInv, ReadInv, [Next]_vars PROVE ReadInv'
    OBVIOUS
  <2>1. ASSUME NEW c \in Call, Validate(c) PROVE ReadInv'
    <3>0. call[c].stage = "reading" /\ call[c].kind \in {"save", "edit"} /\ call[c].todo = {}
      BY <2>1 DEF Validate, Running
    <3>1. CASE ValidateSubDagNesting(call[c].seen, MaxDepth)
      <4>1. Answers(c, "done")
        BY <2>1, <3>1 DEF Validate
      <4>2. /\ call'[c].seen = call[c].seen /\ call'[c].kind = call[c].kind
            /\ call'[c].todo = call[c].todo /\ call'[c].stage = "done"
        BY <4>1, AnswersType
      <4>3. Answered(call'[c])
        BY <3>0, <3>1, <4>2 DEF Answered
      <4> QED BY <3>0, <4>1, <4>3, ReadInvAnswers
    <3>2. CASE ~ ValidateSubDagNesting(call[c].seen, MaxDepth)
      <4>1. Answers(c, "refused")
        BY <2>1, <3>2 DEF Validate
      <4>2. /\ call'[c].seen = call[c].seen /\ call'[c].kind = call[c].kind
            /\ call'[c].todo = call[c].todo /\ call'[c].stage = "refused"
        BY <4>1, AnswersType
      <4>3. Answered(call'[c])
        BY <3>0, <3>2, <4>2 DEF Answered
      <4> QED BY <3>0, <4>1, <4>3, ReadInvAnswers
    <3> QED BY <3>1, <3>2
  <2>2. ASSUME NEW c \in Call, WriteEmpty(c) PROVE ReadInv'
    <3>1. call[c].stage = "reading" /\ call[c].kind = "create" /\ Answers(c, "done")
      BY <2>2 DEF WriteEmpty, Running
    <3>2. call'[c].kind = "create"
      BY <3>1, AnswersType
    <3>3. Answered(call'[c])
      BY <3>2 DEF Answered
    <3> QED BY <3>1, <3>3, ReadInvAnswers
  <2>3. ASSUME NEW c \in Call, RunBegins(c) PROVE ReadInv'
    <3> DEFINE stage == IF DagClosure(call[c].seen, call[c].dag) = {} THEN "refused" ELSE "done"
    <3>1. /\ call[c].stage = "reading" /\ call[c].kind = "run" /\ call[c].todo = {}
          /\ Answers(c, stage)
      BY <2>3 DEF RunBegins, Running
    <3>2. /\ stage \in {"done", "refused"}
          /\ stage = "done" => DagClosure(call[c].seen, call[c].dag) # {}
      OBVIOUS
    <3> HIDE DEF stage
    <3>3. /\ call'[c].seen = call[c].seen /\ call'[c].kind = "run" /\ call'[c].dag = call[c].dag
          /\ call'[c].todo = {} /\ call'[c].stage = stage
      BY <3>1, <3>2, AnswersType
    <3>4. Answered(call'[c])
      BY <3>2, <3>3 DEF Answered
    <3> QED BY <3>1, <3>2, <3>4, ReadInvAnswers
  <2>4. ASSUME NEW c \in Call, NEW d \in Dag,
               \/ CreateDag(c, d) \/ StartRun(c, d)
               \/ \E e \in Dag : EditDag(c, d, e)
               \/ \E refs \in SUBSET Dag : SaveDag(c, d, refs)
        PROVE  ReadInv'
    <3>1. CASE CreateDag(c, d)
      <4>1. Starts(c, "create", d, [e \in {d} |-> {}], {} \ {d})
        BY <3>1 DEF CreateDag
      <4> QED BY <4>1, ReadInvStarts
    <3>2. CASE StartRun(c, d)
      <4>1. Starts(c, "run", d, [e \in {} |-> {}], {d})
        BY <3>2 DEF StartRun
      <4> QED BY <4>1, ReadInvStarts
    <3>3. ASSUME NEW e \in Dag, EditDag(c, d, e) PROVE ReadInv'
      <4> DEFINE to == stored[d] \union {e}
      <4>1. Starts(c, "edit", d, [x \in {d} |-> to], to \ {d}) /\ d \in DOMAIN stored
        BY <3>3 DEF EditDag, Stored
      <4>2. to \in SUBSET Dag
        BY <4>1, RefsMeans DEF TypeInv
      <4> HIDE DEF to
      <4> QED BY <4>1, <4>2, ReadInvStarts
    <3>4. ASSUME NEW refs \in SUBSET Dag, SaveDag(c, d, refs) PROVE ReadInv'
      <4>1. Starts(c, "save", d, [e \in {d} |-> refs], refs \ {d})
        BY <3>4 DEF SaveDag
      <4> QED BY <4>1, ReadInvStarts
    <3> QED BY <2>4, <3>1, <3>2, <3>3, <3>4
  <2>5. CASE \/ \E d \in Dag : DeleteEntity(d) \/ \E refs \in SUBSET Dag : UpdateEntity(d, refs)
             \/ UNCHANGED vars
    <3>1. UNCHANGED call
      BY <2>5 DEF DeleteEntity, UpdateEntity, vars
    <3> QED BY <3>1 DEF ReadInv
  <2> QED BY <2>1, <2>2, <2>3, <2>4, <2>5, ReadInvReads DEF Next
<1> QED BY <1>1, <1>2, StoreTypeOK, PTL DEF Spec

(* What has been read completely is closed.                                *)
LEMMA SeenClosed ==
  ASSUME TypeInv, ReadInv, NEW c \in Call, call[c].stage # "idle", call[c].todo = {}
  PROVE  call[c].seen \in [DOMAIN call[c].seen -> SUBSET DOMAIN call[c].seen]
<1>1. call[c].seen \in Refs /\ Reads(call[c])
  BY DEF TypeInv, CallRecord, ReadInv
<1>2. call[c].seen \in [DOMAIN call[c].seen -> SUBSET Dag]
  BY <1>1, RefsMeans
<1>3. \A d \in DOMAIN call[c].seen : call[c].seen[d] \subseteq DOMAIN call[c].seen
  BY <1>1 DEF Reads
<1> QED BY <1>2, <1>3

(* Safety: a save or an edit is accepted exactly if the DAGs that it has   *)
(* read, and the new one, fit on max_dag_depth levels with every reference *)
(* leading to a deeper one (loader.py:75, 135).                            *)
THEOREM StoreNestingSound == Spec => []NestingSound
<1>1. TypeInv /\ ReadInv => NestingSound
  <2> SUFFICES ASSUME TypeInv, ReadInv, NEW c \in Call,
                      call[c].kind \in {"save", "edit"}, call[c].todo = {}, ~ Running(c)
               PROVE  LET seen == call[c].seen
                      IN  call[c].stage = "done" <=>
                            \E level \in [DOMAIN seen -> 1 .. MaxDepth] :
                              \A d \in DOMAIN seen : \A e \in seen[d] : level[d] < level[e]
    BY DEF NestingSound
  <2> DEFINE seen == call[c].seen
             D == DOMAIN seen
  <2>1. call[c].stage \in {"done", "refused"}
    BY DEF TypeInv, CallRecord, Running, ReadInv
  <2>2. call[c].stage = "done" <=> ValidateSubDagNesting(seen, MaxDepth)
    BY <2>1 DEF ReadInv, Answered
  <2>3. seen \in [D -> SUBSET D]
    BY <2>1, SeenClosed
  <2>4. MaxDepth \in Nat
    BY NumberAssumption
  <2> HIDE DEF D
  <2>5. ValidateSubDagNesting(seen, MaxDepth) <=>
          \E level \in [D -> 1 .. MaxDepth] : Descends(seen, level)
    <3> HIDE DEF seen
    <3> QED BY <2>3, <2>4, NestingIsLevels
  <2> QED BY <2>2, <2>5 DEF D, Descends
<1> QED BY <1>1, StoreTypeOK, ReadInvHolds, PTL

(* Safety: whatever is stored, and was changed while it was read, a run    *)
(* begins only with DAGs that refer to nothing outside and to one another  *)
(* without a cycle, and with no others (snapshot.py:78;                    *)
(* dag_controller.py:1095).                                                *)
THEOREM StoreRunsClosed == Spec => []RunsClosed
<1>1. TypeInv /\ ReadInv => RunsClosed
  <2> SUFFICES ASSUME TypeInv, ReadInv, NEW c \in Call,
                      call[c].kind = "run", call[c].stage = "done"
               PROVE  LET seen == call[c].seen
                          closure == DagClosure(seen, call[c].dag)
                      IN  /\ Acyclic(seen)
                          /\ closure = DOMAIN seen
                          /\ \A d \in closure : seen[d] \subseteq closure
    BY DEF RunsClosed
  <2> DEFINE seen == call[c].seen
             D == DOMAIN seen
             root == call[c].dag
  <2>1. Reads(call[c]) /\ call[c].todo = {} /\ DagClosure(seen, root) # {}
    BY DEF ReadInv, Answered
  <2>2. seen \in [D -> SUBSET D]
    BY <2>1, SeenClosed
  <2>3. IsFiniteSet(D) /\ D \subseteq Dag
    <3>1. seen \in Refs
      BY DEF TypeInv, CallRecord
    <3> QED BY <3>1, RefsMeans DEF TypeInv
  <2>4. root \in D
    BY <2>1 DEF Reads
  <2>5. ASSUME NEW R \in SUBSET D, root \in R, \A d \in R : seen[d] \subseteq R PROVE R = D
    BY <2>1, <2>3, <2>5 DEF Reads
  <2> HIDE DEF seen, D, root
  <2>6. DagClosure(seen, root) = D /\ Acyclic(seen)
    BY <2>1, <2>2, <2>3, <2>4, <2>5, ClosureIsReached
  <2>7. \A d \in D : seen[d] \subseteq D
    BY <2>2
  <2> QED BY <2>6, <2>7 DEF seen, root, D
<1> QED BY <1>1, StoreTypeOK, ReadInvHolds, PTL

-----------------------------------------------------------------------------
(* No cycle is stored.  A call that no write has overtaken still knows     *)
(* what is stored, except for the DAG that it is to write itself.          *)

FreshInv ==
  \A c \in Call \ dirty :
    call[c].stage = "reading" /\ call[c].kind \in {"save", "edit"} =>
      \A d \in DOMAIN call[c].seen \ {call[c].dag} : Stored(d) /\ stored[d] = call[c].seen[d]

AcyclicInv == FreshInv /\ NoCycleStored

(* A DAG is replaced by one all of whose references, near and far, have    *)
(* been checked: a cycle would lie in what was read, or beside it.         *)
LEMMA WriteCheckedAcyclic ==
  ASSUME NEW refs \in Refs, Acyclic(refs), NEW seen \in Refs, Acyclic(seen),
         seen \in [DOMAIN seen -> SUBSET DOMAIN seen], NEW d \in DOMAIN seen,
         \A e \in DOMAIN seen \ {d} : e \in DOMAIN refs /\ refs[e] = seen[e]
  PROVE  Acyclic(With(refs, d, seen[d]))
<1> DEFINE new == With(refs, d, seen[d])
           D == DOMAIN seen
<1>1. /\ DOMAIN new = DOMAIN refs \union {d}
      /\ \A e \in D : new[e] = seen[e]
      /\ \A e \in DOMAIN refs \ D : new[e] = refs[e]
  <2>1. d \in Dag /\ seen[d] \in SUBSET Dag
    BY RefsMeans
  <2>2. DOMAIN new = DOMAIN refs \union {d}
    BY <2>1, WithMeans
  <2>3. new[d] = seen[d]
    BY <2>1, WithMeans
  <2>4. \A e \in DOMAIN refs \ {d} : new[e] = refs[e]
    BY <2>1, WithMeans
  <2> QED BY <2>2, <2>3, <2>4
<1> HIDE DEF new
<1> SUFFICES ASSUME NEW S \in SUBSET DOMAIN new, S # {}
             PROVE  \E x \in S : \A e \in S : x \notin new[e]
  BY DEF Acyclic, new
<1>2. CASE S \subseteq D
  <2>1. PICK x \in S : \A e \in S : x \notin seen[e]
    BY <1>2 DEF Acyclic
  <2> QED BY <1>1, <1>2, <2>1
<1>3. CASE ~ (S \subseteq D)
  <2>1. S \ D \in SUBSET DOMAIN refs /\ S \ D # {}
    BY <1>1, <1>3
  <2>2. PICK x \in S \ D : \A e \in S \ D : x \notin refs[e]
    BY <2>1 DEF Acyclic
  <2>3. \A e \in S : x \notin new[e]
    <3> TAKE e \in S
    <3>1. CASE e \in D
      BY <1>1, <2>2, <3>1
    <3>2. CASE e \notin D
      BY <1>1, <2>1, <2>2, <3>2
    <3> QED BY <3>1, <3>2
  <2> QED BY <2>2, <2>3
<1> QED BY <1>2, <1>3

LEMMA WriteEmptyAcyclic ==
  ASSUME NEW refs \in Refs, Acyclic(refs), NEW d \in Dag
  PROVE  Acyclic(With(refs, d, {}))
<1> DEFINE new == With(refs, d, {})
<1>0. {} \in SUBSET Dag
  OBVIOUS
<1>1. DOMAIN new = DOMAIN refs \union {d}
  BY <1>0, WithMeans
<1>2. new[d] = {}
  BY DEF With
<1>3. ASSUME NEW e \in DOMAIN refs \ {d} PROVE new[e] = refs[e]
  BY DEF With
<1> HIDE DEF new
<1> SUFFICES ASSUME NEW S \in SUBSET DOMAIN new, S # {}
             PROVE  \E x \in S : \A e \in S : x \notin new[e]
  BY DEF Acyclic, new
<1>4. CASE S \ {d} = {}
  BY <1>2, <1>4
<1>5. CASE S \ {d} # {}
  <2>1. S \ {d} \in SUBSET DOMAIN refs
    BY <1>1
  <2>2. PICK x \in S \ {d} : \A e \in S \ {d} : x \notin refs[e]
    BY <1>5, <2>1 DEF Acyclic
  <2> QED BY <1>1, <1>2, <1>3, <2>2
<1> QED BY <1>4, <1>5

LEMMA RestrictionAcyclic ==
  ASSUME NEW refs \in Refs, Acyclic(refs), NEW S \in SUBSET DOMAIN refs
  PROVE  Acyclic(Restriction(refs, S))
<1>1. DOMAIN Restriction(refs, S) = S /\ \A d \in S : Restriction(refs, S)[d] = refs[d]
  BY RestrictionMeans
<1> QED BY <1>1 DEF Acyclic

(* A write overtakes all other calls that are reading.                     *)
LEMMA FreshOvertaken ==
  ASSUME TypeInv, NEW c, dirty' = dirty \union Others(c),
         \A b \in Call \ {c} : call'[b] = call[b],
         c \in Call => call'[c].stage # "reading"
  PROVE  FreshInv'
<1> SUFFICES ASSUME NEW b \in Call \ dirty', call'[b].stage = "reading" PROVE FALSE
  BY DEF FreshInv
<1>1. b # c /\ call[b].stage = "reading"
  OBVIOUS
<1>2. b \in dirty'
  BY <1>1 DEF Others, Running
<1> QED BY <1>2

THEOREM AcyclicInvHolds == Spec => []AcyclicInv
<1>1. Init => AcyclicInv
  BY DEF Init, AcyclicInv, FreshInv, NoCycleStored, NoCall
<1>2. TypeInv /\ ReadInv /\ AcyclicInv /\ [Next]_vars => AcyclicInv'
  <2> SUFFICES ASSUME TypeInv, ReadInv, AcyclicInv, [Next]_vars PROVE AcyclicInv'
    OBVIOUS
  <2>0. FreshInv /\ NoCycleStored
    BY DEF AcyclicInv
  <2>1. ASSUME NEW c \in Call, ReadDag(c) PROVE AcyclicInv'
    <3> PICK e \in call[c].todo :
          call' = [call EXCEPT
             ![c] = IF Stored(e)
                      THEN [call[c] EXCEPT
                             !.seen = With(call[c].seen, e, stored[e]),
                             !.todo = (call[c].todo \union stored[e]) \ (DOMAIN call[c].seen \union {e})]
                      ELSE [call[c] EXCEPT !.stage = "refused"]]
      BY <2>1 DEF ReadDag
    <3>0. UNCHANGED <<stored, dirty, writes, checked>> /\ call[c].stage = "reading"
      BY <2>1 DEF ReadDag, Running
    <3>1. \A b \in Call \ {c} : call'[b] = call[b]
      BY DEF TypeInv
    <3>2. ASSUME call'[c].stage = "reading", c \notin dirty, call'[c].kind \in {"save", "edit"},
                 NEW d \in DOMAIN call'[c].seen \ {call'[c].dag}
          PROVE  Stored(d) /\ stored[d] = call'[c].seen[d]
      <4>1. Stored(e)
        BY <3>2 DEF TypeInv, CallRecord
      <4>2. /\ e \in Dag /\ stored[e] \in SUBSET Dag
            /\ call'[c].kind = call[c].kind /\ call'[c].dag = call[c].dag
            /\ call'[c].seen = With(call[c].seen, e, stored[e])
        BY <4>1, ReadMeans
      <4> DEFINE before == call[c].seen
                 after == With(before, e, stored[e])
      <4>3. before \in Refs
        BY DEF TypeInv, CallRecord
      <4>4. /\ DOMAIN after = DOMAIN before \union {e} /\ after[e] = stored[e]
            /\ \A x \in DOMAIN before \ {e} : after[x] = before[x]
        <5> HIDE DEF before
        <5> QED BY DEF With
      <4>5. CASE d = e
        BY <4>1, <4>2, <4>4, <4>5
      <4>6. CASE d # e
        <5>1. d \in DOMAIN before \ {call[c].dag} /\ call'[c].seen[d] = before[d]
          BY <3>2, <4>2, <4>4, <4>6
        <5> QED BY <2>0, <3>0, <3>2, <4>2, <5>1 DEF FreshInv
      <4> QED BY <4>5, <4>6
    <3>3. FreshInv'
      <4> SUFFICES ASSUME NEW b \in Call \ dirty, call'[b].stage = "reading",
                          call'[b].kind \in {"save", "edit"},
                          NEW d \in DOMAIN call'[b].seen \ {call'[b].dag}
                   PROVE  Stored(d) /\ stored[d] = call'[b].seen[d]
        BY <3>0 DEF FreshInv, Stored
      <4>1. CASE b = c
        BY <3>2, <4>1
      <4>2. CASE b # c
        BY <2>0, <3>1, <4>2 DEF FreshInv
      <4> QED BY <4>1, <4>2
    <3> QED BY <2>0, <3>0, <3>3 DEF AcyclicInv, NoCycleStored
  <2>2. ASSUME NEW c \in Call, Validate(c) PROVE AcyclicInv'
    <3>0. call[c].stage = "reading" /\ call[c].kind \in {"save", "edit"} /\ call[c].todo = {}
      BY <2>2 DEF Validate, Running
    <3>1. CASE ValidateSubDagNesting(call[c].seen, MaxDepth)
      <4> DEFINE seen == call[c].seen
                 d == call[c].dag
      <4>1. /\ stored' = With(stored, d, seen[d]) /\ dirty' = dirty \union Others(c)
            /\ Answers(c, "done") /\ checked' = (checked /\ c \notin dirty)
        BY <2>2, <3>1 DEF Validate, Write
      <4>2. (\A b \in Call \ {c} : call'[b] = call[b]) /\ call'[c].stage = "done"
        BY <4>1, AnswersType
      <4>3. FreshInv'
        BY <4>1, <4>2, FreshOvertaken
      <4>4. ASSUME checked' PROVE Acyclic(stored')
        <5>1. checked /\ c \notin dirty
          BY <4>1, <4>4
        <5>2. Acyclic(stored)
          BY <2>0, <5>1 DEF NoCycleStored
        <5>3. seen \in Refs /\ stored \in Refs /\ d \in DOMAIN seen
          BY <3>0 DEF TypeInv, CallRecord
        <5>4. \A e \in DOMAIN seen \ {d} : e \in DOMAIN stored /\ stored[e] = seen[e]
          BY <2>0, <3>0, <5>1 DEF FreshInv, Stored
        <5>5. seen \in [DOMAIN seen -> SUBSET DOMAIN seen]
          BY <3>0, SeenClosed
        <5> HIDE DEF seen, d
        <5>6. Acyclic(seen)
          <6>1. MaxDepth \in Nat
            BY NumberAssumption
          <6>2. PICK level \in [DOMAIN seen -> 1 .. MaxDepth] : Descends(seen, level)
            BY <3>1, <5>5, <6>1, NestingIsLevels DEF seen
          <6>3. level \in [DOMAIN seen -> Nat]
            BY <6>1
          <6> QED BY <5>5, <6>2, <6>3, LevelsAcyclic
        <5>7. Acyclic(With(stored, d, seen[d]))
          BY <5>2, <5>3, <5>4, <5>5, <5>6, WriteCheckedAcyclic
        <5> QED BY <4>1, <5>7
      <4> QED BY <4>3, <4>4 DEF AcyclicInv, NoCycleStored
    <3>2. CASE ~ ValidateSubDagNesting(call[c].seen, MaxDepth)
      <4>1. Answers(c, "refused") /\ UNCHANGED <<stored, dirty, writes, checked>>
        BY <2>2, <3>2 DEF Validate
      <4>2. (\A b \in Call \ {c} : call'[b] = call[b]) /\ call'[c].stage = "refused"
        BY <4>1, AnswersType
      <4>3. FreshInv'
        BY <2>0, <4>1, <4>2 DEF FreshInv, Stored
      <4> QED BY <2>0, <4>1, <4>3 DEF AcyclicInv, NoCycleStored
    <3> QED BY <3>1, <3>2
  <2>3. ASSUME NEW c \in Call, WriteEmpty(c) PROVE AcyclicInv'
    <3>1. /\ stored' = With(stored, call[c].dag, {}) /\ dirty' = dirty \union Others(c)
          /\ Answers(c, "done") /\ UNCHANGED checked /\ call[c].stage = "reading"
      BY <2>3 DEF WriteEmpty, Write, Running
    <3>2. (\A b \in Call \ {c} : call'[b] = call[b]) /\ call'[c].stage = "done"
      BY <3>1, AnswersType
    <3>3. FreshInv'
      BY <3>1, <3>2, FreshOvertaken
    <3>4. call[c].dag \in Dag /\ stored \in Refs
      BY <3>1 DEF TypeInv
    <3>5. checked => Acyclic(stored')
      BY <2>0, <3>1, <3>4, WriteEmptyAcyclic DEF NoCycleStored
    <3> QED BY <3>1, <3>3, <3>5 DEF AcyclicInv, NoCycleStored
  <2>4. ASSUME NEW c \in Call, RunBegins(c) PROVE AcyclicInv'
    <3> DEFINE stage == IF DagClosure(call[c].seen, call[c].dag) = {} THEN "refused" ELSE "done"
    <3>1. Answers(c, stage) /\ UNCHANGED <<stored, dirty, writes, checked>>
      BY <2>4 DEF RunBegins
    <3>2. stage \in {"done", "refused"}
      OBVIOUS
    <3> HIDE DEF stage
    <3>3. (\A b \in Call \ {c} : call'[b] = call[b]) /\ call'[c].stage # "reading"
      BY <3>1, <3>2, AnswersType
    <3>4. FreshInv'
      BY <2>0, <3>1, <3>3 DEF FreshInv, Stored
    <3> QED BY <2>0, <3>1, <3>4 DEF AcyclicInv, NoCycleStored
  <2>5. ASSUME NEW c \in Call, NEW kind, NEW d \in Dag, NEW seen, NEW todo,
               Starts(c, kind, d, seen, todo), kind = "run" \/ DOMAIN seen = {d}
        PROVE  AcyclicInv'
    <3>1. /\ call'[c].dag = d /\ call'[c].kind = kind /\ call'[c].seen = seen
          /\ \A b \in Call \ {c} : call'[b] = call[b]
          /\ UNCHANGED <<stored, dirty, writes, checked>>
      BY <2>5 DEF Starts, TypeInv
    <3>2. FreshInv'
      BY <2>0, <2>5, <3>1 DEF FreshInv, Stored
    <3> QED BY <2>0, <3>1, <3>2 DEF AcyclicInv, NoCycleStored
  <2>6. ASSUME NEW c \in Call, NEW d \in Dag,
               \/ CreateDag(c, d) \/ StartRun(c, d)
               \/ \E e \in Dag : EditDag(c, d, e)
               \/ \E refs \in SUBSET Dag : SaveDag(c, d, refs)
        PROVE  AcyclicInv'
    <3>1. CASE CreateDag(c, d)
      <4>1. Starts(c, "create", d, [e \in {d} |-> {}], {}) /\ DOMAIN [e \in {d} |-> {}] = {d}
        BY <3>1 DEF CreateDag
      <4> QED BY <2>5, <4>1
    <3>2. CASE StartRun(c, d)
      <4>1. Starts(c, "run", d, [e \in {} |-> {}], {d})
        BY <3>2 DEF StartRun
      <4> QED BY <2>5, <4>1
    <3>3. ASSUME NEW e \in Dag, EditDag(c, d, e) PROVE AcyclicInv'
      <4> DEFINE seen == [x \in {d} |-> stored[d] \union {e}]
                 todo == (stored[d] \union {e}) \ {d}
      <4>1. Starts(c, "edit", d, seen, todo) /\ DOMAIN seen = {d}
        BY <3>3 DEF EditDag
      <4> HIDE DEF seen, todo
      <4> QED BY <2>5, <4>1
    <3>4. ASSUME NEW refs \in SUBSET Dag, SaveDag(c, d, refs) PROVE AcyclicInv'
      <4> DEFINE seen == [e \in {d} |-> refs]
      <4>1. Starts(c, "save", d, seen, refs \ {d}) /\ DOMAIN seen = {d}
        BY <3>4 DEF SaveDag
      <4> HIDE DEF seen
      <4> QED BY <2>5, <4>1
    <3> QED BY <2>6, <3>1, <3>2, <3>3, <3>4
  <2>7. ASSUME NEW d \in Dag, NEW refs \in SUBSET Dag, UpdateEntity(d, refs) PROVE AcyclicInv'
    <3>1. checked' = FALSE /\ dirty' = dirty \union Others(None) /\ UNCHANGED call
      BY <2>7 DEF UpdateEntity, Write
    <3>2. FreshInv'
      BY <3>1, CallAssumption, FreshOvertaken
    <3> QED BY <3>1, <3>2 DEF AcyclicInv, NoCycleStored
  <2>8. ASSUME NEW d \in Dag, DeleteEntity(d) PROVE AcyclicInv'
    <3>1. /\ stored' = Restriction(stored, DOMAIN stored \ {d})
          /\ dirty' = dirty \union Others(None) /\ UNCHANGED <<call, checked>>
      BY <2>8 DEF DeleteEntity
    <3>2. FreshInv'
      BY <3>1, CallAssumption, FreshOvertaken
    <3>3. checked => Acyclic(stored')
      BY <2>0, <3>1, RestrictionAcyclic DEF NoCycleStored, TypeInv
    <3> QED BY <3>1, <3>2, <3>3 DEF AcyclicInv, NoCycleStored
  <2>9. CASE UNCHANGED vars
    BY <2>0, <2>9 DEF vars, AcyclicInv, FreshInv, NoCycleStored, Stored
  <2> QED BY <2>1, <2>2, <2>3, <2>4, <2>6, <2>7, <2>8, <2>9 DEF Next
<1> QED BY <1>1, <1>2, StoreTypeOK, ReadInvHolds, PTL DEF Spec

(* Safety: as long as no call has written on the strength of a check that  *)
(* another write had overtaken, and none without a check, no reference     *)
(* cycle is stored (graph_service.py:77-81; server.py:1165).               *)
THEOREM StoreNoCycle == Spec => []NoCycleStored
BY AcyclicInvHolds, PTL DEF AcyclicInv

-----------------------------------------------------------------------------
(* Child runs.  The runs, with what the nodes of their DAGs are at.        *)

Status == {"waiting", "gone"} \union Busy \union Settled
RunPhase == {"opening", "opened", "running", "closing", "closed", "ended", "aborting", "aborted"}
RootPhase == {"running", "ended", "aborting", "aborted"}
Row == {"none", "running", "succeeded", "failed"}
Ran == {"not", None} \union Dag
NodeTable(values) == UNION {[S -> values] : S \in SUBSET Node}

FrameRecord ==
  [dag : Dag, parent : Nat, via : Node \union {None}, depth : Nat \ {0}, path : Seq(Dag),
   previous : Dag, phase : RunPhase, row : Row,
   node : NodeTable(Status), ran : NodeTable(Ran)]

(* A run has the nodes of its DAG, and belongs to a node of an older one.  *)
FramesOK(fs) ==
  /\ fs \in Seq(FrameRecord) /\ Len(fs) \in 1 .. MaxFrames
  /\ \A f \in DOMAIN fs :
       /\ DOMAIN fs[f].node = DOMAIN program.body[fs[f].dag]
       /\ DOMAIN fs[f].ran = DOMAIN program.body[fs[f].dag]
       /\ f > 1 => fs[f].parent \in 1 .. f - 1 /\ fs[f].via \in DOMAIN fs[fs[f].parent].node
       /\ f = 1 => fs[f].parent = 0 /\ fs[f].phase \in RootPhase

ChildTypeInv ==
  /\ program \in Programs
  /\ instances \in Dag
  /\ stopped \in BOOLEAN /\ faults \in 0 .. MaxFaults
  /\ FramesOK(frames)

LEMMA ProgramFacts ==
  ASSUME ProgramAssumption, program \in Programs
  PROVE  /\ program.root \in Dag
         /\ \A d \in Dag : /\ program.body[d] \in [DOMAIN program.body[d] -> NodeConfig]
                           /\ DOMAIN program.body[d] \subseteq Node
<1>1. program \in Program
  BY DEF ProgramAssumption
<1>2. program.body \in [Dag -> Body] /\ program.root \in Dag
  BY <1>1 DEF Program
<1>3. \A d \in Dag : program.body[d] \in Body
  BY <1>2
<1> QED BY <1>2, <1>3 DEF Body

LEMMA TableFacts ==
  ASSUME NEW values, NEW t \in NodeTable(values)
  PROVE  t \in [DOMAIN t -> values] /\ DOMAIN t \subseteq Node
BY DEF NodeTable

(* What no step changes of a run; steps that begin none keep the shape.    *)
SameRun(r, s) ==
  /\ s.dag = r.dag /\ s.parent = r.parent /\ s.via = r.via
  /\ s.depth = r.depth /\ s.path = r.path
  /\ DOMAIN s.node = DOMAIN r.node /\ DOMAIN s.ran = DOMAIN r.ran

SameShape(fs, gs) == DOMAIN gs = DOMAIN fs /\ \A f \in DOMAIN fs : SameRun(fs[f], gs[f])

LEMMA FrameType ==
  ASSUME NEW fs, FramesOK(fs), NEW f \in DOMAIN fs
  PROVE  /\ fs[f] \in FrameRecord
         /\ fs[f].node \in [DOMAIN fs[f].node -> Status]
         /\ fs[f].ran \in [DOMAIN fs[f].ran -> Ran]
         /\ DOMAIN fs[f].node \subseteq Node
         /\ DOMAIN fs = 1 .. Len(fs) /\ 1 \in DOMAIN fs
<1>1. fs \in Seq(FrameRecord) /\ Len(fs) >= 1
  BY DEF FramesOK
<1>2. fs[f] \in FrameRecord
  BY <1>1
<1>3. fs[f].node \in NodeTable(Status) /\ fs[f].ran \in NodeTable(Ran)
  BY <1>2 DEF FrameRecord
<1> QED BY <1>1, <1>2, <1>3, TableFacts

(* One frame is replaced by another of the same shape.                     *)
LEMMA ReplaceFrame ==
  ASSUME NEW fs, FramesOK(fs), NEW f \in DOMAIN fs, NEW r \in FrameRecord,
         SameRun(fs[f], r), f = 1 => r.phase \in RootPhase,
         NEW gs, gs = [fs EXCEPT ![f] = r]
  PROVE  /\ FramesOK(gs) /\ SameShape(fs, gs)
         /\ gs[f] = r /\ \A g \in DOMAIN fs \ {f} : gs[g] = fs[g]
<1>1. fs \in Seq(FrameRecord) /\ Len(fs) \in 1 .. MaxFrames
  BY DEF FramesOK
<1>2. gs \in Seq(FrameRecord) /\ Len(gs) = Len(fs) /\ DOMAIN gs = DOMAIN fs
  BY <1>1
<1>3. gs[f] = r /\ \A g \in DOMAIN fs \ {f} : gs[g] = fs[g]
  BY <1>1
<1>4. SameShape(fs, gs)
  BY <1>2, <1>3 DEF SameShape, SameRun
<1>5. \A g \in DOMAIN gs :
        /\ DOMAIN gs[g].node = DOMAIN program.body[gs[g].dag]
        /\ DOMAIN gs[g].ran = DOMAIN program.body[gs[g].dag]
        /\ g > 1 => gs[g].parent \in 1 .. g - 1 /\ gs[g].via \in DOMAIN gs[gs[g].parent].node
        /\ g = 1 => gs[g].parent = 0 /\ gs[g].phase \in RootPhase
  <2> TAKE g \in DOMAIN gs
  <2>1. /\ gs[g].dag = fs[g].dag /\ gs[g].parent = fs[g].parent /\ gs[g].via = fs[g].via
        /\ DOMAIN gs[g].node = DOMAIN fs[g].node
        /\ DOMAIN gs[g].ran = DOMAIN fs[g].ran
    BY <1>2, <1>3, <1>4 DEF SameShape, SameRun
  <2>2. g > 1 => fs[g].parent \in DOMAIN fs
    BY <1>1, <1>2 DEF FramesOK
  <2>3. g > 1 => DOMAIN gs[fs[g].parent].node = DOMAIN fs[fs[g].parent].node
    BY <1>4, <2>2 DEF SameShape, SameRun
  <2> QED BY <1>2, <2>1, <2>3 DEF FramesOK
<1> QED BY <1>1, <1>2, <1>3, <1>4, <1>5 DEF FramesOK

(* What a step does to one run: its phase, row, previous table and nodes.  *)
Becomes(fs, gs, f, p, w, q, t, u) ==
  /\ FramesOK(gs) /\ SameShape(fs, gs)
  /\ gs[f].phase = p /\ gs[f].row = w /\ gs[f].previous = q /\ gs[f].node = t /\ gs[f].ran = u
  /\ \A g \in DOMAIN fs \ {f} : gs[g] = fs[g]

LEMMA SetFrame ==
  ASSUME NEW fs, FramesOK(fs), NEW f \in DOMAIN fs,
         NEW p \in RunPhase, f = 1 => p \in RootPhase, NEW w \in Row, NEW q \in Dag,
         NEW t \in [DOMAIN fs[f].node -> Status], NEW u \in [DOMAIN fs[f].ran -> Ran],
         NEW gs, gs = [fs EXCEPT ![f] = [fs[f] EXCEPT !.phase = p, !.row = w, !.previous = q,
                                                      !.node = t, !.ran = u]]
  PROVE  Becomes(fs, gs, f, p, w, q, t, u)
<1> DEFINE r == [fs[f] EXCEPT !.phase = p, !.row = w, !.previous = q, !.node = t, !.ran = u]
<1>1. fs[f] \in FrameRecord /\ DOMAIN fs[f].node \subseteq Node
  BY FrameType
<1>2. DOMAIN fs[f].ran = DOMAIN fs[f].node
  BY DEF FramesOK
<1>3. t \in NodeTable(Status) /\ u \in NodeTable(Ran)
  BY <1>1, <1>2 DEF NodeTable
<1>4. r \in FrameRecord
  BY <1>1, <1>3 DEF FrameRecord
<1>5. /\ r.dag = fs[f].dag /\ r.parent = fs[f].parent /\ r.via = fs[f].via
      /\ r.depth = fs[f].depth /\ r.path = fs[f].path
      /\ r.node = t /\ r.ran = u /\ r.phase = p /\ r.row = w /\ r.previous = q
  BY <1>1 DEF FrameRecord
<1>6. SameRun(fs[f], r) /\ (f = 1 => r.phase \in RootPhase)
  BY <1>5 DEF SameRun
<1>7. gs = [fs EXCEPT ![f] = r]
  OBVIOUS
<1> HIDE DEF r
<1>8. /\ FramesOK(gs) /\ SameShape(fs, gs)
      /\ gs[f] = r /\ \A g \in DOMAIN fs \ {f} : gs[g] = fs[g]
  <2>1. ASSUME NEW r1 \in FrameRecord, SameRun(fs[f], r1), f = 1 => r1.phase \in RootPhase,
               NEW gs1, gs1 = [fs EXCEPT ![f] = r1]
        PROVE  /\ FramesOK(gs1) /\ SameShape(fs, gs1)
               /\ gs1[f] = r1 /\ \A g \in DOMAIN fs \ {f} : gs1[g] = fs[g]
    BY <2>1, ReplaceFrame
  <2>2. SameRun(fs[f], r) /\ (f = 1 => r.phase \in RootPhase)
    BY <1>6
  <2> QED BY <1>4, <1>7, <2>1, <2>2, Zenon
<1> QED BY <1>5, <1>8 DEF Becomes

(* A record with a field at its own value is the record.                   *)
LEMMA FrameAsIs ==
  ASSUME NEW r \in FrameRecord, NEW p, NEW w, NEW q, NEW t, NEW u
  PROVE  /\ [r EXCEPT !.node = t]
              = [r EXCEPT !.phase = r.phase, !.row = r.row, !.previous = r.previous,
                          !.node = t, !.ran = r.ran]
         /\ [r EXCEPT !.node = t, !.ran = u]
              = [r EXCEPT !.phase = r.phase, !.row = r.row, !.previous = r.previous,
                          !.node = t, !.ran = u]
         /\ [r EXCEPT !.node = t, !.phase = p]
              = [r EXCEPT !.phase = p, !.row = r.row, !.previous = r.previous,
                          !.node = t, !.ran = r.ran]
         /\ [r EXCEPT !.phase = p]
              = [r EXCEPT !.phase = p, !.row = r.row, !.previous = r.previous,
                          !.node = r.node, !.ran = r.ran]
         /\ [r EXCEPT !.phase = p, !.row = w]
              = [r EXCEPT !.phase = p, !.row = w, !.previous = r.previous,
                          !.node = r.node, !.ran = r.ran]
         /\ [r EXCEPT !.phase = p, !.previous = q]
              = [r EXCEPT !.phase = p, !.row = r.row, !.previous = q,
                          !.node = r.node, !.ran = r.ran]
BY DEF FrameRecord

LEMMA SetNodeOnly ==
  ASSUME NEW fs, FramesOK(fs), NEW f \in DOMAIN fs, NEW n \in DOMAIN fs[f].node, NEW s \in Status,
         NEW gs, gs = [fs EXCEPT ![f].node[n] = s]
  PROVE  Becomes(fs, gs, f, fs[f].phase, fs[f].row, fs[f].previous,
                 [fs[f].node EXCEPT ![n] = s], fs[f].ran)
<1> DEFINE t == [fs[f].node EXCEPT ![n] = s]
<1>1. /\ fs[f] \in FrameRecord /\ fs[f].node \in [DOMAIN fs[f].node -> Status]
      /\ fs[f].ran \in [DOMAIN fs[f].ran -> Ran]
  BY FrameType
<1>2. fs[f].phase \in RunPhase /\ fs[f].row \in Row /\ fs[f].previous \in Dag
  BY <1>1 DEF FrameRecord
<1>3. f = 1 => fs[f].phase \in RootPhase
  BY DEF FramesOK
<1>4. /\ t \in [DOMAIN fs[f].node -> Status]
      /\ gs = [fs EXCEPT ![f] = [fs[f] EXCEPT !.node = t]]
  BY <1>1
<1> HIDE DEF t
<1>5. [fs[f] EXCEPT !.node = t]
        = [fs[f] EXCEPT !.phase = fs[f].phase, !.row = fs[f].row, !.previous = fs[f].previous,
                        !.node = t, !.ran = fs[f].ran]
  BY <1>1, FrameAsIs
<1>6. Becomes(fs, gs, f, fs[f].phase, fs[f].row, fs[f].previous, t, fs[f].ran)
  BY <1>1, <1>2, <1>3, <1>4, <1>5, SetFrame
<1> QED BY <1>6 DEF t

LEMMA SetNodeRan ==
  ASSUME NEW fs, FramesOK(fs), NEW f \in DOMAIN fs, NEW n \in DOMAIN fs[f].node,
         NEW s \in Status, NEW v \in Ran,
         NEW gs, gs = [fs EXCEPT ![f].node[n] = s, ![f].ran[n] = v]
  PROVE  Becomes(fs, gs, f, fs[f].phase, fs[f].row, fs[f].previous,
                 [fs[f].node EXCEPT ![n] = s], [fs[f].ran EXCEPT ![n] = v])
<1> DEFINE t == [fs[f].node EXCEPT ![n] = s]
           u == [fs[f].ran EXCEPT ![n] = v]
<1>1. /\ fs[f] \in FrameRecord /\ fs[f].node \in [DOMAIN fs[f].node -> Status]
      /\ fs[f].ran \in [DOMAIN fs[f].ran -> Ran]
  BY FrameType
<1>2. fs[f].phase \in RunPhase /\ fs[f].row \in Row /\ fs[f].previous \in Dag
  BY <1>1 DEF FrameRecord
<1>3. f = 1 => fs[f].phase \in RootPhase
  BY DEF FramesOK
<1>4. /\ t \in [DOMAIN fs[f].node -> Status]
      /\ u \in [DOMAIN fs[f].ran -> Ran]
      /\ gs = [fs EXCEPT ![f] = [fs[f] EXCEPT !.node = t, !.ran = u]]
  BY <1>1 DEF FramesOK
<1> HIDE DEF t, u
<1>5. [fs[f] EXCEPT !.node = t, !.ran = u]
        = [fs[f] EXCEPT !.phase = fs[f].phase, !.row = fs[f].row, !.previous = fs[f].previous,
                        !.node = t, !.ran = u]
  BY <1>1, FrameAsIs
<1>6. Becomes(fs, gs, f, fs[f].phase, fs[f].row, fs[f].previous, t, u)
  BY <1>1, <1>2, <1>3, <1>4, <1>5, SetFrame
<1> QED BY <1>6 DEF t, u

LEMMA SetNodePhase ==
  ASSUME NEW fs, FramesOK(fs), NEW f \in DOMAIN fs, NEW n \in DOMAIN fs[f].node,
         NEW s \in Status, NEW p \in RunPhase, f = 1 => p \in RootPhase,
         NEW gs, gs = [fs EXCEPT ![f].node[n] = s, ![f].phase = p]
  PROVE  Becomes(fs, gs, f, p, fs[f].row, fs[f].previous,
                 [fs[f].node EXCEPT ![n] = s], fs[f].ran)
<1> DEFINE t == [fs[f].node EXCEPT ![n] = s]
<1>1. /\ fs[f] \in FrameRecord /\ fs[f].node \in [DOMAIN fs[f].node -> Status]
      /\ fs[f].ran \in [DOMAIN fs[f].ran -> Ran]
  BY FrameType
<1>2. fs[f].phase \in RunPhase /\ fs[f].row \in Row /\ fs[f].previous \in Dag
  BY <1>1 DEF FrameRecord
<1>3. f = 1 => fs[f].phase \in RootPhase
  BY DEF FramesOK
<1>4. /\ t \in [DOMAIN fs[f].node -> Status]
      /\ gs = [fs EXCEPT ![f] = [fs[f] EXCEPT !.node = t, !.phase = p]]
  BY <1>1
<1> HIDE DEF t
<1>5. [fs[f] EXCEPT !.node = t, !.phase = p]
        = [fs[f] EXCEPT !.phase = p, !.row = fs[f].row, !.previous = fs[f].previous,
                        !.node = t, !.ran = fs[f].ran]
  BY <1>1, FrameAsIs
<1>6. Becomes(fs, gs, f, p, fs[f].row, fs[f].previous, t, fs[f].ran)
  BY <1>1, <1>2, <1>3, <1>4, <1>5, SetFrame
<1> QED BY <1>6 DEF t

LEMMA SetPhaseOnly ==
  ASSUME NEW fs, FramesOK(fs), NEW f \in DOMAIN fs, NEW p \in RunPhase,
         f = 1 => p \in RootPhase,
         NEW gs, gs = [fs EXCEPT ![f].phase = p]
  PROVE  Becomes(fs, gs, f, p, fs[f].row, fs[f].previous,
                 fs[f].node, fs[f].ran)
<1>1. /\ fs[f] \in FrameRecord /\ fs[f].node \in [DOMAIN fs[f].node -> Status]
      /\ fs[f].ran \in [DOMAIN fs[f].ran -> Ran]
  BY FrameType
<1>2. fs[f].phase \in RunPhase /\ fs[f].row \in Row /\ fs[f].previous \in Dag
  BY <1>1 DEF FrameRecord
<1>3. f = 1 => fs[f].phase \in RootPhase
  BY DEF FramesOK
<1>4. gs = [fs EXCEPT ![f] = [fs[f] EXCEPT !.phase = p]]
  BY <1>1
<1>5. [fs[f] EXCEPT !.phase = p]
        = [fs[f] EXCEPT !.phase = p, !.row = fs[f].row, !.previous = fs[f].previous,
                        !.node = fs[f].node, !.ran = fs[f].ran]
  BY <1>1, FrameAsIs
<1> QED BY <1>1, <1>2, <1>3, <1>4, <1>5, SetFrame

LEMMA SetPhaseRow ==
  ASSUME NEW fs, FramesOK(fs), NEW f \in DOMAIN fs, NEW p \in RunPhase,
         f = 1 => p \in RootPhase, NEW w \in Row,
         NEW gs, gs = [fs EXCEPT ![f].phase = p, ![f].row = w]
  PROVE  Becomes(fs, gs, f, p, w, fs[f].previous,
                 fs[f].node, fs[f].ran)
<1>1. /\ fs[f] \in FrameRecord /\ fs[f].node \in [DOMAIN fs[f].node -> Status]
      /\ fs[f].ran \in [DOMAIN fs[f].ran -> Ran]
  BY FrameType
<1>2. fs[f].phase \in RunPhase /\ fs[f].row \in Row /\ fs[f].previous \in Dag
  BY <1>1 DEF FrameRecord
<1>3. f = 1 => fs[f].phase \in RootPhase
  BY DEF FramesOK
<1>4. gs = [fs EXCEPT ![f] = [fs[f] EXCEPT !.phase = p, !.row = w]]
  BY <1>1
<1>5. [fs[f] EXCEPT !.phase = p, !.row = w]
        = [fs[f] EXCEPT !.phase = p, !.row = w, !.previous = fs[f].previous,
                        !.node = fs[f].node, !.ran = fs[f].ran]
  BY <1>1, FrameAsIs
<1> QED BY <1>1, <1>2, <1>3, <1>4, <1>5, SetFrame

LEMMA SetPhasePrevious ==
  ASSUME NEW fs, FramesOK(fs), NEW f \in DOMAIN fs, NEW p \in RunPhase,
         f = 1 => p \in RootPhase, NEW q \in Dag,
         NEW gs, gs = [fs EXCEPT ![f].phase = p, ![f].previous = q]
  PROVE  Becomes(fs, gs, f, p, fs[f].row, q,
                 fs[f].node, fs[f].ran)
<1>1. /\ fs[f] \in FrameRecord /\ fs[f].node \in [DOMAIN fs[f].node -> Status]
      /\ fs[f].ran \in [DOMAIN fs[f].ran -> Ran]
  BY FrameType
<1>2. fs[f].phase \in RunPhase /\ fs[f].row \in Row /\ fs[f].previous \in Dag
  BY <1>1 DEF FrameRecord
<1>3. f = 1 => fs[f].phase \in RootPhase
  BY DEF FramesOK
<1>4. gs = [fs EXCEPT ![f] = [fs[f] EXCEPT !.phase = p, !.previous = q]]
  BY <1>1
<1>5. [fs[f] EXCEPT !.phase = p, !.previous = q]
        = [fs[f] EXCEPT !.phase = p, !.row = fs[f].row, !.previous = q,
                        !.node = fs[f].node, !.ran = fs[f].ran]
  BY <1>1, FrameAsIs
<1> QED BY <1>1, <1>2, <1>3, <1>4, <1>5, SetFrame

(* What a broken off run leaves behind in the run above.                   *)
LEMMA PassedMoves ==
  ASSUME NEW fs, FramesOK(fs), NEW g \in DOMAIN fs, NEW gs, gs = Passed(fs, g)
  PROVE  /\ g = 1 => gs = fs
         /\ g # 1 => LET f == fs[g].parent
                     IN  /\ f \in DOMAIN fs /\ f < g /\ fs[g].via \in DOMAIN fs[f].node
                         /\ Becomes(fs, gs, f,
                              IF fs[f].phase = "running" THEN "aborting" ELSE fs[f].phase,
                              fs[f].row, fs[f].previous,
                              [fs[f].node EXCEPT ![fs[g].via] = "gone"], fs[f].ran)
<1>1. g = 1 => gs = fs
  BY DEF Passed
<1>2. ASSUME g # 1
      PROVE  LET f == fs[g].parent
             IN  /\ f \in DOMAIN fs /\ f < g /\ fs[g].via \in DOMAIN fs[f].node
                 /\ Becomes(fs, gs, f,
                      IF fs[f].phase = "running" THEN "aborting" ELSE fs[f].phase,
                      fs[f].row, fs[f].previous,
                      [fs[f].node EXCEPT ![fs[g].via] = "gone"], fs[f].ran)
  <2> DEFINE f == fs[g].parent
             p == IF fs[f].phase = "running" THEN "aborting" ELSE fs[f].phase
  <2>1. DOMAIN fs = 1 .. Len(fs) /\ Len(fs) \in Nat
    BY FrameType DEF FramesOK
  <2>2. f \in DOMAIN fs /\ f < g /\ fs[g].via \in DOMAIN fs[f].node
    BY <1>2, <2>1 DEF FramesOK
  <2>3. fs[f] \in FrameRecord
    BY <2>2, FrameType
  <2>4. p \in RunPhase /\ (f = 1 => p \in RootPhase)
    BY <2>2, <2>3 DEF FrameRecord, FramesOK, RunPhase, RootPhase
  <2>5. gs = [fs EXCEPT ![f].node[fs[g].via] = "gone", ![f].phase = p]
    BY <1>2 DEF Passed
  <2>6. "gone" \in Status
    BY DEF Status
  <2> HIDE DEF f, p
  <2>7. Becomes(fs, gs, f, p, fs[f].row, fs[f].previous,
                [fs[f].node EXCEPT ![fs[g].via] = "gone"], fs[f].ran)
    BY <2>2, <2>4, <2>5, <2>6, SetNodePhase
  <2> QED BY <2>2, <2>7 DEF f, p
<1> QED BY <1>1, <1>2

(* A run begins.                                                           *)
Fits(fs, r) ==
  /\ DOMAIN r.node = DOMAIN program.body[r.dag] /\ DOMAIN r.ran = DOMAIN program.body[r.dag]
  /\ r.parent \in DOMAIN fs /\ r.via \in DOMAIN fs[r.parent].node
  /\ Len(fs) < MaxFrames /\ MaxFrames \in Nat

Extends(fs, gs, r) ==
  /\ FramesOK(gs) /\ Len(gs) = Len(fs) + 1 /\ DOMAIN gs = DOMAIN fs \union {Len(gs)}
  /\ gs[Len(gs)] = r /\ Len(gs) \notin DOMAIN fs
  /\ \A f \in DOMAIN fs : gs[f] = fs[f]

LEMMA AppendFrame ==
  ASSUME NEW fs, FramesOK(fs), NEW r \in FrameRecord, Fits(fs, r)
  PROVE  Extends(fs, Append(fs, r), r)
<1> DEFINE gs == Append(fs, r)
<1>1. fs \in Seq(FrameRecord) /\ Len(fs) \in 1 .. MaxFrames
  BY DEF FramesOK
<1>2. /\ gs \in Seq(FrameRecord) /\ Len(gs) = Len(fs) + 1 /\ DOMAIN gs = DOMAIN fs \union {Len(gs)}
      /\ gs[Len(gs)] = r /\ Len(gs) \notin DOMAIN fs
      /\ \A f \in DOMAIN fs : gs[f] = fs[f]
  BY <1>1
<1> HIDE DEF gs
<1>3. \A f \in DOMAIN fs :
        /\ DOMAIN gs[f].node = DOMAIN program.body[gs[f].dag]
        /\ DOMAIN gs[f].ran = DOMAIN program.body[gs[f].dag]
        /\ f > 1 => gs[f].parent \in 1 .. f - 1 /\ gs[f].via \in DOMAIN gs[gs[f].parent].node
        /\ f = 1 => gs[f].parent = 0 /\ gs[f].phase \in RootPhase
  <2> TAKE f \in DOMAIN fs
  <2>1. f > 1 => fs[f].parent \in DOMAIN fs
    BY <1>1 DEF FramesOK
  <2> QED BY <1>2, <2>1 DEF FramesOK
<1>4. LET f == Len(gs)
      IN  /\ DOMAIN gs[f].node = DOMAIN program.body[gs[f].dag]
          /\ DOMAIN gs[f].ran = DOMAIN program.body[gs[f].dag]
          /\ f > 1 /\ gs[f].parent \in 1 .. f - 1 /\ gs[f].via \in DOMAIN gs[gs[f].parent].node
  BY <1>1, <1>2 DEF Fits
<1>5. Len(gs) \in 1 .. MaxFrames
  BY <1>1, <1>2 DEF Fits
<1>6. Extends(fs, gs, r)
  BY <1>1, <1>2, <1>3, <1>4, <1>5 DEF FramesOK, Extends
<1> QED BY <1>6 DEF gs

(* The steps of a node change the one run, or begin another.               *)
NodeTo(f, n, s) ==
  Becomes(frames, frames', f, frames[f].phase, frames[f].row, frames[f].previous,
          [frames[f].node EXCEPT ![n] = s], frames[f].ran)

LEMMA NodeToMoves ==
  ASSUME ChildTypeInv, NEW f \in Frame, NEW n \in Nodes(f), NEW s \in Status,
         SetNode(f, n, s)
  PROVE  NodeTo(f, n, s)
<1>1. /\ FramesOK(frames) /\ f \in DOMAIN frames /\ n \in DOMAIN frames[f].node
      /\ frames' = [frames EXCEPT ![f].node[n] = s]
  BY DEF ChildTypeInv, Frame, Nodes, SetNode
<1> QED BY <1>1, SetNodeOnly DEF NodeTo

(* The run that _execute_sub_dag of runner r begins for a node of f.       *)
Begun(f, n, r, ref) ==
  [dag |-> ref, parent |-> f, via |-> n, depth |-> frames[r].depth + 1,
   path |-> Append(frames[r].path, ref), previous |-> ref, phase |-> "opening", row |-> "none",
   node |-> [m \in DOMAIN program.body[ref] |-> "waiting"],
   ran |-> [m \in DOMAIN program.body[ref] |-> "not"]]

Begins(f, n, r, ref) ==
  /\ FramesOK(frames') /\ Len(frames') = Len(frames) + 1 /\ Len(frames') \notin DOMAIN frames
  /\ DOMAIN frames' = DOMAIN frames \union {Len(frames')}
  /\ frames'[Len(frames')] = Begun(f, n, r, ref)
  /\ \A g \in DOMAIN frames \ {f} : frames'[g] = frames[g]
  /\ SameRun(frames[f], frames'[f])
  /\ frames'[f].phase = frames[f].phase /\ frames'[f].row = frames[f].row
  /\ frames'[f].previous = frames[f].previous /\ frames'[f].ran = frames[f].ran
  /\ frames'[f].node = [frames[f].node EXCEPT ![n] = "nested"]

LEMMA BeginsMoves ==
  ASSUME BoundAssumption, ProgramAssumption, ChildTypeInv,
         NEW f \in Frame, NEW n \in Nodes(f), NEW r \in Frame, NEW ref \in Dag,
         ExecuteSubDag(f, n, r, ref), ~ Refuses(r, ref)
  PROVE  Begins(f, n, r, ref)
<1> DEFINE mid == [frames EXCEPT ![f].node[n] = "nested"]
           new == Begun(f, n, r, ref)
<1>1. /\ FramesOK(frames) /\ f \in DOMAIN frames /\ n \in DOMAIN frames[f].node
      /\ r \in DOMAIN frames
  BY DEF ChildTypeInv, Frame, Nodes
<1>2. Len(frames) < MaxFrames /\ frames' = Append(mid, new)
  BY DEF ExecuteSubDag, NewFrame, Begun
<1>3. "nested" \in Status
  BY DEF Status, Busy
<1>4. Becomes(frames, mid, f, frames[f].phase, frames[f].row, frames[f].previous,
              [frames[f].node EXCEPT ![n] = "nested"], frames[f].ran)
  BY <1>1, <1>3, SetNodeOnly
<1>5. new \in FrameRecord
  <2>1. frames[r] \in FrameRecord /\ DOMAIN frames[f].node \subseteq Node
    BY <1>1, FrameType
  <2>2. f \in Nat /\ n \in Node
    BY <1>1, <2>1, FrameType DEF FramesOK
  <2>3. frames[r].depth + 1 \in Nat \ {0} /\ Append(frames[r].path, ref) \in Seq(Dag)
    BY <2>1 DEF FrameRecord
  <2>4. DOMAIN program.body[ref] \subseteq Node
    BY ProgramFacts DEF ChildTypeInv
  <2>5. /\ new.node \in [DOMAIN program.body[ref] -> Status]
        /\ new.ran \in [DOMAIN program.body[ref] -> Ran]
    BY DEF Begun, Status, Ran
  <2>6. new.node \in NodeTable(Status) /\ new.ran \in NodeTable(Ran)
    <3> HIDE DEF new
    <3> QED BY <2>4, <2>5 DEF NodeTable
  <2>7. "opening" \in RunPhase /\ "none" \in Row
    BY DEF RunPhase, Row
  <2> QED BY <2>2, <2>3, <2>6, <2>7 DEF Begun, FrameRecord
<1>a. Len(mid) = Len(frames)
  BY <1>1 DEF FramesOK
<1> HIDE DEF mid
<1>6. /\ FramesOK(mid) /\ Len(mid) = Len(frames) /\ MaxFrames \in Nat
      /\ DOMAIN mid = DOMAIN frames /\ SameShape(frames, mid)
  <2>1. FramesOK(mid) /\ SameShape(frames, mid)
    BY <1>4 DEF Becomes
  <2> QED BY <1>a, <2>1 DEF SameShape, BoundAssumption
<1>7. /\ new.dag = ref /\ new.parent = f /\ new.via = n
      /\ DOMAIN new.node = DOMAIN program.body[ref] /\ DOMAIN new.ran = DOMAIN program.body[ref]
  BY DEF Begun
<1> HIDE DEF new
<1>8. n \in DOMAIN mid[f].node
  BY <1>1, <1>6 DEF SameShape, SameRun
<1>9. /\ FramesOK(frames') /\ Len(frames') = Len(mid) + 1
      /\ DOMAIN frames' = DOMAIN mid \union {Len(frames')}
      /\ frames'[Len(frames')] = new /\ Len(frames') \notin DOMAIN mid
      /\ \A g \in DOMAIN mid : frames'[g] = mid[g]
  <2>1. Fits(mid, new)
    BY <1>1, <1>2, <1>6, <1>7, <1>8 DEF Fits
  <2>2. Extends(mid, frames', new)
    BY <1>2, <1>5, <1>6, <2>1, AppendFrame
  <2> QED BY <2>2 DEF Extends
<1>10. frames'[f] = mid[f] /\ \A g \in DOMAIN frames \ {f} : frames'[g] = frames[g]
  BY <1>1, <1>4, <1>6, <1>9 DEF Becomes
<1> QED BY <1>1, <1>4, <1>6, <1>9, <1>10 DEF Becomes, Begins, new, SameShape

LEMMA FoundTypes ==
  ASSUME ProgramAssumption, ChildTypeInv, NEW f \in Frame, NEW n \in Nodes(f)
  PROVE  /\ Config(f, n) \in NodeConfig /\ Found(f, n) \in NodeConfig
         /\ Config(f, n).ref \in Dag /\ Found(f, n).ref \in Dag
         /\ FoundIn(n) \in Ran
<1>1. /\ frames[f] \in FrameRecord /\ n \in DOMAIN program.body[frames[f].dag]
      /\ instances \in Dag
  BY FrameType DEF ChildTypeInv, FramesOK, Frame, Nodes
<1>2. frames[f].dag \in Dag
  BY <1>1 DEF FrameRecord
<1>3. \A d \in Dag : \A m \in DOMAIN program.body[d] : program.body[d][m] \in NodeConfig
  BY ProgramFacts DEF ChildTypeInv
<1>4. Config(f, n) \in NodeConfig
  BY <1>1, <1>2, <1>3 DEF Config
<1>5. Found(f, n) \in NodeConfig
  BY <1>1, <1>3, <1>4 DEF Found
<1> QED BY <1>1, <1>4, <1>5 DEF NodeConfig, FoundIn, Ran

(* What each step of a node does to the runs.                              *)
LEMMA NodeMoves ==
  ASSUME BoundAssumption, ProgramAssumption, ChildTypeInv,
         NEW f \in Frame, NEW n \in Nodes(f)
  PROVE  /\ StartNode(f, n) => NodeTo(f, n, "recording")
         /\ FailNode(f, n) => NodeTo(f, n, "failed")
         /\ \A s \in Status : Ends(f, n, s) => NodeTo(f, n, s)
         /\ ExecuteNested(f, n) =>
              \/ Ends(f, n, "refused") /\ Refuses(f, Config(f, n).ref)
              \/ Begins(f, n, f, Config(f, n).ref) /\ UNCHANGED <<instances, count, holding>>
         /\ ExecuteConfig(f, n) =>
              \/ Ends(f, n, "refused") /\ Refuses(1, Found(f, n).ref)
              \/ Begins(f, n, 1, Found(f, n).ref) /\ UNCHANGED <<instances, count, holding>>
         /\ ExecuteHandler(f, n) =>
              Becomes(frames, frames', f, frames[f].phase, frames[f].row, frames[f].previous,
                      [frames[f].node EXCEPT ![n] = "executing"],
                      [frames[f].ran EXCEPT ![n] = FoundIn(n)])
         /\ NodeRaises(f, n) =>
              Becomes(frames, frames', f, "aborting", frames[f].row, frames[f].previous,
                      [frames[f].node EXCEPT ![n] = "gone"], frames[f].ran)
         /\ NodeCancelled(f, n) => NodeTo(f, n, "gone")
<1>1. /\ FramesOK(frames) /\ f \in DOMAIN frames /\ n \in DOMAIN frames[f].node /\ 1 \in DOMAIN frames
  BY FrameType DEF ChildTypeInv, Frame, Nodes
<1>2. /\ {"recording", "failed", "refused", "gone", "executing"} \subseteq Status
      /\ "aborting" \in RunPhase /\ "aborting" \in RootPhase
  BY DEF Status, RunPhase, RootPhase, Busy, Settled
<1>3. StartNode(f, n) => NodeTo(f, n, "recording")
  BY <1>2, NodeToMoves DEF StartNode
<1>4. FailNode(f, n) => NodeTo(f, n, "failed")
  BY <1>2, NodeToMoves DEF FailNode
<1>5. ASSUME NEW s \in Status, Ends(f, n, s) PROVE NodeTo(f, n, s)
  BY <1>5, NodeToMoves DEF Ends
<1>6. ASSUME NEW r \in Frame, NEW ref \in Dag, ExecuteSubDag(f, n, r, ref)
      PROVE  \/ Ends(f, n, "refused") /\ Refuses(r, ref)
             \/ Begins(f, n, r, ref) /\ UNCHANGED <<instances, count, holding>>
  <2>1. CASE Refuses(r, ref)
    BY <1>6, <2>1 DEF ExecuteSubDag
  <2>2. CASE ~ Refuses(r, ref)
    <3>1. Begins(f, n, r, ref)
      BY <1>6, <2>2, BeginsMoves
    <3>2. UNCHANGED <<instances, count, holding>>
      BY <1>6, <2>2 DEF ExecuteSubDag
    <3> QED BY <3>1, <3>2
  <2> QED BY <2>1, <2>2
<1>7. ExecuteNested(f, n) =>
        \/ Ends(f, n, "refused") /\ Refuses(f, Config(f, n).ref)
        \/ Begins(f, n, f, Config(f, n).ref) /\ UNCHANGED <<instances, count, holding>>
  BY <1>6, FoundTypes DEF ExecuteNested
<1>8. ExecuteConfig(f, n) =>
        \/ Ends(f, n, "refused") /\ Refuses(1, Found(f, n).ref)
        \/ Begins(f, n, 1, Found(f, n).ref) /\ UNCHANGED <<instances, count, holding>>
  BY <1>1, <1>6, FoundTypes DEF ExecuteConfig, Frame
<1>9. ExecuteHandler(f, n) =>
        Becomes(frames, frames', f, frames[f].phase, frames[f].row, frames[f].previous,
                [frames[f].node EXCEPT ![n] = "executing"],
                [frames[f].ran EXCEPT ![n] = FoundIn(n)])
  <2>1. FoundIn(n) \in Ran
    BY FoundTypes
  <2> QED BY <1>1, <1>2, <2>1, SetNodeRan DEF ExecuteHandler
<1>10. NodeRaises(f, n) =>
         Becomes(frames, frames', f, "aborting", frames[f].row, frames[f].previous,
                 [frames[f].node EXCEPT ![n] = "gone"], frames[f].ran)
  BY <1>1, <1>2, SetNodePhase DEF NodeRaises
<1>11. NodeCancelled(f, n) => NodeTo(f, n, "gone")
  BY <1>2, NodeToMoves DEF NodeCancelled
<1> QED BY <1>3, <1>4, <1>5, <1>7, <1>8, <1>9, <1>10, <1>11

(* What the other steps do to a run; some do it to the run above, too.     *)
PhaseTo(fs, gs, g, p, w, q) == Becomes(fs, gs, g, p, w, q, fs[g].node, fs[g].ran)

Result(g) == IF ResultOk(g) THEN "succeeded" ELSE "failed"
Aborted(g) == [frames EXCEPT ![g].phase = "aborted"]

LEMMA RunMoves ==
  ASSUME ChildTypeInv, NEW g \in Frame
  PROVE  /\ OpenRow(g) => PhaseTo(frames, frames', g, "opened", "running", frames[g].previous)
         /\ EnterRun(g) => PhaseTo(frames, frames', g, "running", frames[g].row, instances)
         /\ LeaveRun(g) => PhaseTo(frames, frames', g, IF g = 1 THEN "ended" ELSE "closing",
                                       frames[g].row, frames[g].previous)
         /\ CloseRow(g) => PhaseTo(frames, frames', g, "closed", Result(g), frames[g].previous)
         /\ g = 1 /\ HardStop =>
              PhaseTo(frames, frames', 1, "aborting", frames[1].row, frames[1].previous)
         /\ g > 1 => PhaseTo(frames, [frames EXCEPT ![g].phase = "aborting"], g, "aborting",
                             frames[g].row, frames[g].previous)
         /\ PhaseTo(frames, Aborted(g), g, "aborted", frames[g].row, frames[g].previous)
         /\ frames[g].phase \in {"opening", "opened", "closing", "closed"} => g > 1
<1>1. /\ FramesOK(frames) /\ g \in DOMAIN frames /\ frames[g] \in FrameRecord
      /\ instances \in Dag /\ g \in Nat /\ g >= 1
  BY FrameType DEF ChildTypeInv, Frame, FramesOK
<1>2. frames[g].phase \in {"opening", "opened", "closing", "closed"} => g > 1
  BY <1>1 DEF FramesOK, RootPhase
<1>3. /\ {"opened", "running", "ended", "closing", "closed", "aborting", "aborted"} \subseteq RunPhase
      /\ {"running", "ended", "aborting", "aborted"} \subseteq RootPhase
      /\ "running" \in Row /\ Result(g) \in Row
      /\ frames[g].row \in Row /\ frames[g].previous \in Dag
  BY <1>1 DEF RunPhase, RootPhase, Row, Result, FrameRecord
<1>4. OpenRow(g) => PhaseTo(frames, frames', g, "opened", "running", frames[g].previous)
  <2> SUFFICES ASSUME OpenRow(g)
      PROVE  PhaseTo(frames, frames', g, "opened", "running", frames[g].previous)
    OBVIOUS
  <2>1. frames' = [frames EXCEPT ![g].phase = "opened", ![g].row = "running"] /\ g # 1
    BY <1>1, <1>2 DEF OpenRow
  <2> QED BY <1>1, <1>3, <2>1, SetPhaseRow DEF PhaseTo
<1>5. EnterRun(g) => PhaseTo(frames, frames', g, "running", frames[g].row, instances)
  BY <1>1, <1>2, <1>3, SetPhasePrevious DEF EnterRun, PhaseTo
<1>6. LeaveRun(g) => PhaseTo(frames, frames', g, IF g = 1 THEN "ended" ELSE "closing",
                                 frames[g].row, frames[g].previous)
  BY <1>1, <1>3, SetPhaseOnly DEF LeaveRun, PhaseTo
<1>7. CloseRow(g) => PhaseTo(frames, frames', g, "closed", Result(g), frames[g].previous)
  <2> SUFFICES ASSUME CloseRow(g)
      PROVE  PhaseTo(frames, frames', g, "closed", Result(g), frames[g].previous)
    OBVIOUS
  <2>1. frames' = [frames EXCEPT ![g].phase = "closed", ![g].row = Result(g)] /\ g # 1
    BY <1>1, <1>2 DEF CloseRow, Result
  <2> QED BY <1>1, <1>3, <2>1, SetPhaseRow DEF PhaseTo
<1>8. g = 1 /\ HardStop =>
        PhaseTo(frames, frames', 1, "aborting", frames[1].row, frames[1].previous)
  BY <1>1, <1>3, SetPhaseOnly DEF HardStop, PhaseTo
<1>9. g > 1 => PhaseTo(frames, [frames EXCEPT ![g].phase = "aborting"], g, "aborting",
                       frames[g].row, frames[g].previous)
  BY <1>1, <1>3, SetPhaseOnly DEF PhaseTo
<1>10. PhaseTo(frames, Aborted(g), g, "aborted", frames[g].row, frames[g].previous)
  BY <1>1, <1>3, SetPhaseOnly DEF PhaseTo, Aborted
<1> QED BY <1>2, <1>4, <1>5, <1>6, <1>7, <1>8, <1>9, <1>10

(* The end of a run that concerns the run above: its phase, and what       *)
(* becomes of the node and the phase of the run above.                     *)
EndsTo(g, p, s, up) ==
  LET f == frames[g].parent
  IN  /\ FramesOK(frames') /\ SameShape(frames, frames')
      /\ frames'[g].phase = p /\ frames'[g].row = frames[g].row
      /\ frames'[g].previous = frames[g].previous
      /\ frames'[g].node = frames[g].node /\ frames'[g].ran = frames[g].ran
      /\ g # 1 =>
           /\ f \in DOMAIN frames /\ f < g /\ frames[g].via \in DOMAIN frames[f].node
           /\ frames'[f].phase = up /\ frames'[f].row = frames[f].row
           /\ frames'[f].previous = frames[f].previous /\ frames'[f].ran = frames[f].ran
           /\ frames'[f].node = [frames[f].node EXCEPT ![frames[g].via] = s]
      /\ \A h \in DOMAIN frames \ {g} : g = 1 \/ h # f => frames'[h] = frames[h]

UpAborting(g) ==
  IF frames[frames[g].parent].phase = "running" THEN "aborting" ELSE frames[frames[g].parent].phase

LEMMA AbortMoves ==
  ASSUME ChildTypeInv, NEW g \in Frame, frames' = Passed(Aborted(g), g)
  PROVE  EndsTo(g, "aborted", "gone", UpAborting(g))
<1> DEFINE mid == Aborted(g)
           f == frames[g].parent
<1>1. g \in DOMAIN frames /\ FramesOK(frames) /\ g \in Nat
  BY FrameType DEF ChildTypeInv, Frame, FramesOK
<1>2. Becomes(frames, mid, g, "aborted", frames[g].row, frames[g].previous,
              frames[g].node, frames[g].ran)
  BY RunMoves DEF PhaseTo
<1> HIDE DEF mid
<1>3. FramesOK(mid) /\ SameShape(frames, mid) /\ g \in DOMAIN mid /\ mid[g].parent = f
      /\ mid[g].via = frames[g].via
  BY <1>1, <1>2 DEF Becomes, SameShape, SameRun
<1>4. CASE g = 1
  <2>1. frames' = mid
    BY <1>3, <1>4, PassedMoves DEF mid
  <2> QED BY <1>1, <1>2, <1>4, <2>1 DEF Becomes, EndsTo
<1>5. CASE g # 1
  <2>1. /\ f \in DOMAIN mid /\ f < g /\ frames[g].via \in DOMAIN mid[f].node
        /\ Becomes(mid, frames', f,
             IF mid[f].phase = "running" THEN "aborting" ELSE mid[f].phase,
             mid[f].row, mid[f].previous, [mid[f].node EXCEPT ![frames[g].via] = "gone"], mid[f].ran)
    <3>1. frames' = Passed(mid, g)
      BY DEF mid
    <3>2. LET h == mid[g].parent
          IN  /\ h \in DOMAIN mid /\ h < g /\ mid[g].via \in DOMAIN mid[h].node
              /\ Becomes(mid, frames', h,
                   IF mid[h].phase = "running" THEN "aborting" ELSE mid[h].phase,
                   mid[h].row, mid[h].previous, [mid[h].node EXCEPT ![mid[g].via] = "gone"], mid[h].ran)
      BY <1>3, <1>5, <3>1, PassedMoves
    <3> QED BY <1>3, <3>2
  <2>2. f # g /\ f \in DOMAIN frames /\ mid[f] = frames[f]
    BY <1>1, <1>2, <1>3, <2>1 DEF Becomes, SameShape
  <2>3. UpAborting(g) = IF mid[f].phase = "running" THEN "aborting" ELSE mid[f].phase
    BY <2>2 DEF UpAborting
  <2>4. SameShape(frames, frames')
    <3> HIDE DEF f
    <3> QED BY <1>2, <2>1 DEF Becomes, SameShape, SameRun
  <2>5. \A h \in DOMAIN frames \ {f} : frames'[h] = mid[h]
    BY <1>3, <2>1 DEF Becomes, SameShape
  <2> HIDE DEF f
  <2>6. /\ frames'[f].phase = UpAborting(g) /\ frames'[f].row = frames[f].row
        /\ frames'[f].previous = frames[f].previous /\ frames'[f].ran = frames[f].ran
        /\ frames'[f].node = [frames[f].node EXCEPT ![frames[g].via] = "gone"]
        /\ FramesOK(frames')
    BY <2>1, <2>2, <2>3 DEF Becomes
  <2>7. frames'[g] = mid[g] /\ \A h \in DOMAIN frames \ {g} : h # f => frames'[h] = frames[h]
    BY <1>1, <1>2, <2>2, <2>5 DEF Becomes
  <2> QED BY <1>2, <1>5, <2>1, <2>2, <2>4, <2>6, <2>7 DEF Becomes, EndsTo, f
<1> QED BY <1>4, <1>5

LEMMA DeliverMoves ==
  ASSUME ChildTypeInv, NEW g \in Frame, Delivers(g)
  PROVE  /\ g # 1 /\ frames[g].phase = "closed" /\ frames[frames[g].parent].phase = "running"
         /\ EndsTo(g, "ended", IF ResultOk(g) THEN "ok" ELSE "failed", "running")
<1> DEFINE mid == [frames EXCEPT ![g].phase = "ended"]
           f == frames[g].parent
           s == IF ResultOk(g) THEN "ok" ELSE "failed"
<1>1. /\ g \in DOMAIN frames /\ FramesOK(frames) /\ g \in Nat /\ g > 1
      /\ frames[g].phase = "closed" /\ frames[f].phase = "running"
  <2>1. g \in DOMAIN frames /\ FramesOK(frames) /\ g \in Nat
    BY FrameType DEF ChildTypeInv, Frame, FramesOK
  <2>2. frames[g].phase = "closed" /\ frames[f].phase = "running"
    BY DEF Delivers
  <2> QED BY <2>1, <2>2, RunMoves
<1>2. f \in DOMAIN frames /\ f < g /\ frames[g].via \in DOMAIN frames[f].node
  BY <1>1, FrameType DEF FramesOK
<1>3. "ended" \in RunPhase /\ "ended" \in RootPhase /\ s \in Status
  BY DEF RunPhase, RootPhase, Status, Settled
<1>4. Becomes(frames, mid, g, "ended", frames[g].row, frames[g].previous,
              frames[g].node, frames[g].ran)
  BY <1>1, <1>3, SetPhaseOnly
<1>5. frames' = [frames EXCEPT ![g].phase = "ended", ![f].node[frames[g].via] = s]
  BY DEF Delivers
<1>6. frames' = [mid EXCEPT ![f].node[frames[g].via] = s]
  BY <1>1, <1>2, <1>5
<1> HIDE DEF mid, s
<1>7. FramesOK(mid) /\ SameShape(frames, mid) /\ mid[f] = frames[f] /\ f \in DOMAIN mid
  BY <1>1, <1>2, <1>4 DEF Becomes, SameShape
<1>8. Becomes(mid, frames', f, mid[f].phase, mid[f].row, mid[f].previous,
              [mid[f].node EXCEPT ![frames[g].via] = s], mid[f].ran)
  BY <1>2, <1>3, <1>6, <1>7, SetNodeOnly
<1>9. SameShape(frames, frames')
  <2> HIDE DEF f
  <2> QED BY <1>4, <1>8 DEF Becomes, SameShape, SameRun
<1>10. \A h \in DOMAIN frames \ {f} : frames'[h] = mid[h]
  BY <1>7, <1>8 DEF Becomes, SameShape
<1> HIDE DEF f
<1>11. /\ frames'[f].phase = "running" /\ frames'[f].row = frames[f].row
       /\ frames'[f].previous = frames[f].previous /\ frames'[f].ran = frames[f].ran
       /\ frames'[f].node = [frames[f].node EXCEPT ![frames[g].via] = s]
       /\ FramesOK(frames')
  BY <1>1, <1>7, <1>8 DEF Becomes
<1>12. frames'[g] = mid[g] /\ \A h \in DOMAIN frames \ {g} : h # f => frames'[h] = frames[h]
  BY <1>1, <1>2, <1>4, <1>10 DEF Becomes
<1>13. EndsTo(g, "ended", s, "running")
  BY <1>1, <1>2, <1>4, <1>9, <1>11, <1>12 DEF Becomes, EndsTo, f
<1> QED BY <1>1, <1>13 DEF s, f

LEMMA LifecycleMoves ==
  ASSUME ChildTypeInv, NEW g \in Frame
  PROVE  /\ LifecycleRaises(g) => EndsTo(g, "aborted", "gone", UpAborting(g))
         /\ AbortEnds(g) => EndsTo(g, "aborted", "gone", UpAborting(g))
         /\ ChildCancelled(g) =>
              \/ /\ frames[g].phase = "running" /\ g > 1
                 /\ PhaseTo(frames, frames', g, "aborting", frames[g].row, frames[g].previous)
              \/ /\ frames[g].phase \in {"opening", "opened", "closing", "closed"}
                 /\ EndsTo(g, "aborted", "gone", UpAborting(g))
<1>1. LifecycleRaises(g) => frames' = Passed(Aborted(g), g)
  BY DEF LifecycleRaises, Aborted
<1>2. AbortEnds(g) => frames' = Passed(Aborted(g), g)
  BY DEF AbortEnds, Aborted
<1>3. ChildCancelled(g) =>
        \/ /\ frames[g].phase = "running" /\ g > 1
           /\ frames' = [frames EXCEPT ![g].phase = "aborting"]
        \/ /\ frames[g].phase \in {"opening", "opened", "closing", "closed"}
           /\ frames' = Passed(Aborted(g), g)
  BY DEF ChildCancelled, Aborted
<1> QED BY <1>1, <1>2, <1>3, AbortMoves, RunMoves

(* Type correctness of the child runs: the runs stay a tree, and the nodes *)
(* of a run those of its DAG.                                              *)
THEOREM ChildTypeOK ==
  ASSUME BoundAssumption, ProgramAssumption
  PROVE  NestedSpec => []ChildTypeInv
<1>1. NestedInit => ChildTypeInv
  <2> SUFFICES ASSUME NestedInit PROVE ChildTypeInv
    OBVIOUS
  <2>1. program \in Programs /\ instances = program.root /\ stopped = FALSE /\ faults = 0
    BY DEF NestedInit
  <2>2. program.root \in Dag /\ DOMAIN program.body[program.root] \subseteq Node
    BY <2>1, ProgramFacts
  <2> DEFINE root == [dag |-> program.root, parent |-> 0, via |-> None, depth |-> 1,
                path |-> <<program.root>>, previous |-> program.root, phase |-> "running",
                row |-> "none", node |-> [m \in DOMAIN program.body[program.root] |-> "waiting"],
                ran |-> [m \in DOMAIN program.body[program.root] |-> "not"]]
  <2>3. frames = <<root>>
    BY DEF NestedInit, NewFrame
  <2>4. /\ root.node \in [DOMAIN program.body[program.root] -> Status]
        /\ root.ran \in [DOMAIN program.body[program.root] -> Ran]
    BY DEF Status, Ran
  <2>5. root.node \in NodeTable(Status) /\ root.ran \in NodeTable(Ran)
    <3> HIDE DEF root
    <3> QED BY <2>2, <2>4 DEF NodeTable
  <2>6. root \in FrameRecord
    BY <2>2, <2>5 DEF FrameRecord, RunPhase, Row
  <2>7. /\ root.dag = program.root /\ root.parent = 0 /\ root.phase \in RootPhase
        /\ DOMAIN root.node = DOMAIN program.body[program.root]
        /\ DOMAIN root.ran = DOMAIN program.body[program.root]
    BY DEF RootPhase
  <2> HIDE DEF root
  <2>8. frames \in Seq(FrameRecord) /\ Len(frames) = 1 /\ frames[1] = root /\ DOMAIN frames = {1}
    BY <2>3, <2>6
  <2>9. FramesOK(frames)
    BY <2>7, <2>8 DEF FramesOK, BoundAssumption
  <2>10. stopped \in BOOLEAN
    BY <2>1, Zenon
  <2>11. faults \in 0 .. MaxFaults
    BY <2>1 DEF BoundAssumption
  <2> QED BY <2>1, <2>2, <2>9, <2>10, <2>11, Zenon DEF ChildTypeInv
<1>2. ASSUME ChildTypeInv, [NestedNext]_nestedVars PROVE ChildTypeInv'
  <2> DEFINE Rest == program' = program /\ instances' \in Dag
                     /\ stopped' \in BOOLEAN /\ faults' \in 0 .. MaxFaults
  <2>a. Rest /\ FramesOK(frames') => ChildTypeInv'
    BY <1>2 DEF ChildTypeInv, FramesOK
  <2>b. ASSUME NEW f \in Frame PROVE frames[f].previous \in Dag /\ frames[f].dag \in Dag
    BY <1>2, FrameType DEF ChildTypeInv, Frame, FrameRecord
  <2>c. /\ program' = program /\ UNCHANGED <<instances, stopped, faults>> => Rest
        /\ program' = program /\ UNCHANGED <<stopped, faults>> /\ instances' \in Dag => Rest
        /\ program' = program /\ UNCHANGED <<instances, stopped>> /\ faults < MaxFaults
             /\ faults' = faults + 1 => Rest
    BY <1>2 DEF ChildTypeInv, BoundAssumption
  <2>d. \A fs, f, p, w, q, t, u : Becomes(fs, frames', f, p, w, q, t, u) => FramesOK(frames')
    BY DEF Becomes
  <2>e. \A f, n, s : NodeTo(f, n, s) => FramesOK(frames')
    BY <2>d DEF NodeTo
  <2>f. \A f, n, r, ref : Begins(f, n, r, ref) => FramesOK(frames')
    BY DEF Begins
  <2>g. \A g, p, s, up : EndsTo(g, p, s, up) => FramesOK(frames')
    BY DEF EndsTo
  <2>h. \A fs, g, p, w, q : PhaseTo(fs, frames', g, p, w, q) => FramesOK(frames')
    BY <2>d DEF PhaseTo
  <2> HIDE DEF Rest
  <2>1. ASSUME NEW f \in Frame, NEW n \in Nodes(f), NodeSteps(f, n)
        PROVE  ChildTypeInv'
    <3>1. program' = program /\ UNCHANGED <<instances, stopped, faults>>
      BY <2>1 DEF NodeSteps, StartNode, FailNode, ExecuteNested,
                  ExecuteConfig, ExecuteUnknown, ExecuteHandler, HandlerEnds,
                  NodeCancelled, ExecuteSubDag, Ends
    <3>2. {"ok", "failed", "refused"} \subseteq Status
      BY DEF Status, Settled
    <3>3. \A s \in Status : Ends(f, n, s) => FramesOK(frames')
      BY <1>2, <2>e, NodeMoves
    <3>4. ExecuteUnknown(f, n) \/ HandlerEnds(f, n) => FramesOK(frames')
      BY <3>2, <3>3 DEF ExecuteUnknown, HandlerEnds
    <3>5. StartNode(f, n) \/ FailNode(f, n) \/ NodeCancelled(f, n) => FramesOK(frames')
      BY <1>2, <2>e, NodeMoves
    <3>6. ExecuteNested(f, n) \/ ExecuteConfig(f, n) => FramesOK(frames')
      BY <1>2, <2>f, <3>2, <3>3, NodeMoves
    <3>7. ExecuteHandler(f, n) => FramesOK(frames')
      BY <1>2, <2>d, NodeMoves
    <3> QED BY <2>1, <2>a, <2>c, <3>1, <3>4, <3>5, <3>6, <3>7 DEF NodeSteps
  <2>2. ASSUME NEW f \in Frame, RunSteps(f) PROVE ChildTypeInv'
    <3>1. Rest
      BY <1>2, <2>2, <2>b, <2>c DEF RunSteps, OpenRow, EnterRun, LeaveRun,
         CloseRow, Delivers, ChildCancelled, AbortEnds
    <3>2. Delivers(f) => FramesOK(frames')
      BY <1>2, <2>g, DeliverMoves
    <3>3. ChildCancelled(f) \/ AbortEnds(f) => FramesOK(frames')
      BY <1>2, <2>g, <2>h, LifecycleMoves
    <3>4. OpenRow(f) \/ EnterRun(f) \/ LeaveRun(f) \/ CloseRow(f) => FramesOK(frames')
      BY <1>2, <2>h, RunMoves
    <3> QED BY <2>2, <2>a, <3>1, <3>2, <3>3, <3>4 DEF RunSteps
  <2>3. CASE Stop
    <3>1. frames' = frames /\ program' = program /\ UNCHANGED <<instances, faults>> /\ stopped' = TRUE
      BY <2>3 DEF Stop
    <3> QED BY <1>2, <3>1 DEF ChildTypeInv, FramesOK
  <2>4. CASE HardStop
    <3>1. 1 \in Frame
      BY <1>2, FrameType DEF ChildTypeInv, Frame, FramesOK
    <3>2. FramesOK(frames')
      BY <1>2, <2>4, <2>h, <3>1, RunMoves
    <3> QED BY <2>4, <2>a, <2>c, <3>2 DEF HardStop
  <2>5. ASSUME NEW f \in Frame, LifecycleRaises(f) PROVE ChildTypeInv'
    <3>1. FramesOK(frames')
      BY <1>2, <2>5, <2>g, LifecycleMoves
    <3> QED BY <2>5, <2>a, <2>c, <3>1 DEF LifecycleRaises
  <2>6. ASSUME NEW f \in Frame, NEW n \in Nodes(f), NodeRaises(f, n)
        PROVE  ChildTypeInv'
    <3>1. FramesOK(frames')
      BY <1>2, <2>6, <2>d, NodeMoves
    <3> QED BY <2>6, <2>a, <2>c, <3>1 DEF NodeRaises
  <2>7. CASE UNCHANGED nestedVars
    BY <1>2, <2>7 DEF ChildTypeInv, FramesOK, nestedVars
  <2> QED BY <1>2, <2>1, <2>2, <2>3, <2>4, <2>5, <2>6, <2>7 DEF NestedNext, Steps
<1> QED BY <1>1, <1>2, PTL DEF NestedSpec

-----------------------------------------------------------------------------
(* Permits.  A node that holds one is busy; or its run is broken off and   *)
(* will give back all that it has.                                         *)
Holder(h) ==
  \/ frames[h[1]].phase = "aborting"
  \/ frames[h[1]].phase = "running" /\ frames[h[1]].node[h[2]] \in Busy

HoldersInv ==
  /\ \A h \in holding : h = <<h[1], h[2]>> /\ h[1] \in DOMAIN frames /\ h[2] \in DOMAIN frames[h[1]].node
  /\ \A h \in holding : Holder(h)

CountInv ==
  /\ IsFiniteSet(holding) /\ count \in Nat
  /\ count + Cardinality(holding) = Permits

(* The permit of one node comes back, or nothing does.                     *)
LEMMA GiveBack ==
  ASSUME CountInv, NEW h, holding' = holding \ {h},
         count' = count + (IF h \in holding THEN 1 ELSE 0), Permits \in Nat
  PROVE  CountInv'
<1>1. CASE h \in holding
  <2>1. IsFiniteSet(holding') /\ Cardinality(holding') = Cardinality(holding) - 1
    BY <1>1, FS_RemoveElement DEF CountInv
  <2>2. Cardinality(holding) \in Nat
    BY FS_CardinalityType DEF CountInv
  <2> QED BY <1>1, <2>1, <2>2 DEF CountInv
<1>2. CASE h \notin holding
  <2>1. holding' = holding /\ count' = count
    BY <1>2 DEF CountInv
  <2> QED BY <2>1 DEF CountInv
<1> QED BY <1>1, <1>2

(* Runs where no permit is held leave no holder behind.                    *)
LEMMA HoldersAfterNode ==
  ASSUME ChildTypeInv, HoldersInv, NEW f \in Frame, NEW n \in Nodes(f), NEW s,
         NodeTo(f, n, s)
  PROVE  /\ holding' = holding \ {<<f, n>>} => HoldersInv'
         /\ holding' = holding /\ s \in Busy => HoldersInv'
         /\ holding' = holding /\ frames[f].phase = "aborting" => HoldersInv'
         /\ holding' = holding \union {<<f, n>>} /\ s \in Busy /\ frames[f].phase = "running" =>
              HoldersInv'
         /\ holding' = holding /\ frames[f].phase = "running" /\ frames[f].node[n] \notin Busy =>
              HoldersInv'
<1>1. /\ f \in DOMAIN frames /\ n \in DOMAIN frames[f].node
      /\ DOMAIN frames' = DOMAIN frames
      /\ \A g \in DOMAIN frames : DOMAIN frames'[g].node = DOMAIN frames[g].node
      /\ \A g \in DOMAIN frames \ {f} : frames'[g] = frames[g]
      /\ frames'[f].phase = frames[f].phase
      /\ frames'[f].node = [frames[f].node EXCEPT ![n] = s]
  BY DEF NodeTo, Becomes, SameShape, SameRun, Frame, Nodes
<1>2. frames'[f].node[n] = s /\ \A m \in DOMAIN frames[f].node \ {n} : frames'[f].node[m] = frames[f].node[m]
  BY <1>1, FrameType DEF ChildTypeInv
<1>3. \A h \in holding \ {<<f, n>>} : Holder(h)' /\ h[1] \in DOMAIN frames' /\ h[2] \in DOMAIN frames'[h[1]].node
  BY <1>1, <1>2 DEF HoldersInv, Holder
<1>4. (s \in Busy /\ frames[f].phase = "running") \/ frames[f].phase = "aborting" =>
        Holder(<<f, n>>)'
  BY <1>1, <1>2 DEF Holder
<1>5. <<f, n>>[1] = f /\ <<f, n>>[2] = n
  OBVIOUS
<1>6. <<f, n>> \in holding => Holder(<<f, n>>)
  BY DEF HoldersInv
<1>7. <<f, n>> \in holding =>
        \/ frames[f].phase = "aborting"
        \/ frames[f].phase = "running" /\ frames[f].node[n] \in Busy
  <2>1. Holder(<<f, n>>) <=> \/ frames[f].phase = "aborting"
                             \/ frames[f].phase = "running" /\ frames[f].node[n] \in Busy
    BY <1>5, Zenon DEF Holder
  <2> QED BY <1>6, <2>1
<1>8. /\ holding' \subseteq holding \union {<<f, n>>}
      /\ <<f, n>> \in holding' => Holder(<<f, n>>)'
      => HoldersInv'
  BY <1>1, <1>3, <1>5 DEF HoldersInv
<1> QED BY <1>4, <1>7, <1>8

LEMMA HoldersAfterRun ==
  ASSUME ChildTypeInv, HoldersInv, NEW g \in Frame, SameShape(frames, frames'),
         holding' \subseteq holding,
         \A h \in holding' : h[1] # g \/ frames'[g].phase = "aborting",
         \A f \in DOMAIN frames \ {g} :
           \/ frames'[f] = frames[f]
           \/ frames'[f].phase = "aborting"
           \/ frames[f].phase \notin {"running", "aborting"}
           \/ \A h \in holding' : h[1] = f =>
                frames'[f].phase = frames[f].phase /\ frames'[f].node[h[2]] = frames[f].node[h[2]]
  PROVE  HoldersInv'
<1> SUFFICES ASSUME NEW h \in holding'
             PROVE  /\ h = <<h[1], h[2]>> /\ h[1] \in DOMAIN frames'
                    /\ h[2] \in DOMAIN frames'[h[1]].node /\ Holder(h)'
  BY DEF HoldersInv
<1>1. /\ h = <<h[1], h[2]>> /\ h[1] \in DOMAIN frames /\ h[2] \in DOMAIN frames[h[1]].node /\ Holder(h)
  BY DEF HoldersInv
<1>2. h[1] \in DOMAIN frames' /\ h[2] \in DOMAIN frames'[h[1]].node
  BY <1>1 DEF SameShape, SameRun
<1>3. Holder(h)'
  <2>1. CASE h[1] = g
    BY <2>1 DEF Holder
  <2>2. CASE h[1] # g
    BY <1>1, <2>2 DEF Holder
  <2> QED BY <2>1, <2>2
<1> QED BY <1>1, <1>2, <1>3

(* No permit is lost or doubled, and none stays with a run that is over    *)
(* (runner.py:335, 1304-1315).                                             *)
THEOREM ChildPermitsConserved ==
  ASSUME BoundAssumption, ProgramAssumption
  PROVE  NestedSpec => []PermitsConserved
<1> DEFINE PermitInv == HoldersInv /\ CountInv
<1>1. NestedInit => PermitInv
  <2> SUFFICES ASSUME NestedInit PROVE PermitInv
    OBVIOUS
  <2>1. holding = {} /\ count = Permits
    BY DEF NestedInit
  <2>2. IsFiniteSet({}) /\ Cardinality({}) = 0
    BY FS_EmptySet
  <2> QED BY <2>1, <2>2 DEF HoldersInv, CountInv, BoundAssumption
<1>2. ASSUME ChildTypeInv, PermitInv, [NestedNext]_nestedVars PROVE PermitInv'
  <2>a. Permits \in Nat /\ {"recording", "executing", "nested"} = Busy
    BY DEF BoundAssumption, Busy
  <2>b. UNCHANGED <<count, holding>> => CountInv'
    BY <1>2 DEF CountInv
  <2>c. ASSUME NEW f \in Frame, NEW n \in Nodes(f), NEW s \in Status, Ends(f, n, s)
        PROVE  PermitInv'
    <3>1. /\ holding' = holding \ {<<f, n>>}
          /\ count' = count + (IF <<f, n>> \in holding THEN 1 ELSE 0)
      BY <2>c DEF Ends
    <3>2. NodeTo(f, n, s)
      BY <1>2, <2>c, NodeMoves
    <3> QED BY <1>2, <2>a, <3>1, <3>2, HoldersAfterNode, GiveBack
  <2>d. ASSUME NEW f \in Frame, NEW n \in Nodes(f), NEW r, NEW ref, Begins(f, n, r, ref),
               UNCHANGED <<count, holding>>
        PROVE  PermitInv'
    <3>1. /\ f \in DOMAIN frames /\ n \in DOMAIN frames[f].node /\ DOMAIN frames \subseteq DOMAIN frames'
          /\ \A g \in DOMAIN frames \ {f} : frames'[g] = frames[g]
          /\ DOMAIN frames'[f].node = DOMAIN frames[f].node /\ frames'[f].phase = frames[f].phase
          /\ frames'[f].node = [frames[f].node EXCEPT ![n] = "nested"]
      BY <2>d DEF Begins, SameRun, Frame, Nodes
    <3>2. /\ frames'[f].node[n] \in Busy
          /\ \A m \in DOMAIN frames[f].node \ {n} : frames'[f].node[m] = frames[f].node[m]
      BY <2>a, <3>1
    <3>3. HoldersInv'
      BY <1>2, <2>d, <3>1, <3>2 DEF HoldersInv, Holder
    <3> QED BY <2>b, <2>d, <3>3
  <2>e. ASSUME NEW g \in Frame, frames[g].phase \notin {"running", "aborting"}
        PROVE  \A h \in holding : h[1] # g
    BY <1>2, <2>e DEF HoldersInv, Holder
  <2>f. Frame = DOMAIN frames
    BY DEF Frame
  <2>g. ASSUME NEW g \in Frame, NEW p, NEW w, NEW q, PhaseTo(frames, frames', g, p, w, q),
               UNCHANGED <<count, holding>>, p = "aborting" \/ \A h \in holding : h[1] # g
        PROVE  PermitInv'
    <3>1. /\ SameShape(frames, frames') /\ frames'[g].phase = p
          /\ \A f \in DOMAIN frames \ {g} : frames'[f] = frames[f]
      BY <2>g DEF PhaseTo, Becomes
    <3> QED BY <1>2, <2>b, <2>g, <3>1, HoldersAfterRun
  <2>h. ASSUME NEW g \in Frame, EndsTo(g, "aborted", "gone", UpAborting(g)),
               holding' \subseteq holding, \A h \in holding' : h[1] # g
        PROVE  HoldersInv'
    <3>1. /\ SameShape(frames, frames')
          /\ \A f \in DOMAIN frames \ {g} :
               \/ frames'[f] = frames[f]
               \/ frames'[f].phase = UpAborting(g) /\ f = frames[g].parent
      <4>1. CASE g = 1
        BY <2>h, <4>1 DEF EndsTo
      <4>2. CASE g # 1
        BY <2>h, <4>2 DEF EndsTo
      <4> QED BY <4>1, <4>2
    <3>2. \A f \in DOMAIN frames \ {g} :
            \/ frames'[f] = frames[f] \/ frames'[f].phase = "aborting"
            \/ frames[f].phase \notin {"running", "aborting"}
      BY <3>1 DEF UpAborting
    <3> QED BY <1>2, <2>h, <3>1, <3>2, HoldersAfterRun
  <2>1. ASSUME NEW f \in Frame, NEW n \in Nodes(f), NodeSteps(f, n)
        PROVE  PermitInv'
    <3>1. CASE StartNode(f, n)
      <4>1. /\ NodeTo(f, n, "recording") /\ frames[f].phase = "running"
            /\ frames[f].node[n] = "waiting"
            /\ \/ count > 0 /\ count' = count - 1 /\ holding' = holding \union {<<f, n>>}
               \/ UNCHANGED <<count, holding>>
        BY <1>2, <3>1, NodeMoves DEF StartNode
      <4>2. <<f, n>> \notin holding
        <5>1. <<f, n>> \in holding => Holder(<<f, n>>)
          BY <1>2 DEF HoldersInv
        <5>2. <<f, n>>[1] = f /\ <<f, n>>[2] = n
          OBVIOUS
        <5> QED BY <4>1, <5>1, <5>2 DEF Holder, Busy
      <4>3. HoldersInv'
        BY <1>2, <2>a, <4>1, HoldersAfterNode DEF Busy
      <4>4. CASE count > 0 /\ count' = count - 1 /\ holding' = holding \union {<<f, n>>}
        <5>1. IsFiniteSet(holding') /\ Cardinality(holding') = Cardinality(holding) + 1
          BY <1>2, <4>2, <4>4, FS_AddElement DEF CountInv
        <5>2. Cardinality(holding) \in Nat
          BY <1>2, FS_CardinalityType DEF CountInv
        <5>3. CountInv'
          BY <1>2, <2>a, <4>4, <5>1, <5>2 DEF CountInv
        <5> QED BY <4>3, <5>3
      <4> QED BY <2>b, <4>1, <4>3, <4>4
    <3>2. CASE FailNode(f, n)
      <4>1. /\ NodeTo(f, n, "failed") /\ frames[f].phase = "running"
            /\ frames[f].node[n] = "waiting" /\ UNCHANGED <<count, holding>>
        BY <1>2, <3>2, NodeMoves DEF FailNode
      <4>2. frames[f].node[n] \notin Busy
        BY <4>1 DEF Busy
      <4> QED BY <1>2, <2>b, <4>1, <4>2, HoldersAfterNode
    <3>3. {"ok", "failed", "refused"} \subseteq Status
      BY DEF Status, Settled
    <3>4. CASE ExecuteNested(f, n)
      BY <1>2, <2>c, <2>d, <3>3, <3>4, NodeMoves
    <3>5. CASE ExecuteConfig(f, n)
      BY <1>2, <2>c, <2>d, <3>3, <3>5, NodeMoves
    <3>6. CASE ExecuteUnknown(f, n)
      BY <2>c, <3>3, <3>6 DEF ExecuteUnknown
    <3>7. CASE HandlerEnds(f, n)
      BY <2>c, <3>3, <3>7 DEF HandlerEnds
    <3>8. CASE ExecuteHandler(f, n)
      <4>1. /\ Becomes(frames, frames', f, frames[f].phase, frames[f].row, frames[f].previous,
                       [frames[f].node EXCEPT ![n] = "executing"],
                       [frames[f].ran EXCEPT ![n] = FoundIn(n)])
            /\ UNCHANGED <<count, holding>>
        BY <1>2, <3>8, NodeMoves DEF ExecuteHandler
      <4>2. /\ DOMAIN frames' = DOMAIN frames /\ frames'[f].phase = frames[f].phase
            /\ frames'[f].node = [frames[f].node EXCEPT ![n] = "executing"]
            /\ \A g \in DOMAIN frames : DOMAIN frames'[g].node = DOMAIN frames[g].node
            /\ \A g \in DOMAIN frames \ {f} : frames'[g] = frames[g]
        BY <4>1, <2>f DEF Becomes, SameShape, SameRun
      <4>3. /\ frames'[f].node[n] \in Busy
            /\ \A m \in DOMAIN frames[f].node \ {n} : frames'[f].node[m] = frames[f].node[m]
        BY <2>a, <2>f, <4>2 DEF Nodes
      <4>4. HoldersInv'
        BY <1>2, <2>f, <4>1, <4>2, <4>3 DEF HoldersInv, Holder
      <4> QED BY <2>b, <4>1, <4>4
    <3>9. CASE NodeCancelled(f, n)
      <4>1. /\ NodeTo(f, n, "gone") /\ frames[f].phase = "aborting" /\ UNCHANGED <<count, holding>>
        BY <1>2, <3>9, NodeMoves DEF NodeCancelled
      <4> QED BY <1>2, <2>b, <4>1, HoldersAfterNode
    <3> QED BY <2>1, <3>1, <3>2, <3>4, <3>5, <3>6, <3>7, <3>8, <3>9 DEF NodeSteps
  <2>2. ASSUME NEW f \in Frame, RunSteps(f) PROVE PermitInv'
    <3>1. CASE OpenRow(f)
      <4>1. /\ PhaseTo(frames, frames', f, "opened", "running", frames[f].previous)
            /\ UNCHANGED <<count, holding>> /\ frames[f].phase = "opening"
        BY <1>2, <3>1, RunMoves DEF OpenRow
      <4> QED BY <2>e, <2>g, <4>1
    <3>2. CASE EnterRun(f)
      <4>1. /\ PhaseTo(frames, frames', f, "running", frames[f].row, instances)
            /\ UNCHANGED <<count, holding>> /\ frames[f].phase = "opened"
        BY <1>2, <3>2, RunMoves DEF EnterRun
      <4> QED BY <2>e, <2>g, <4>1
    <3>3. CASE LeaveRun(f)
      <4>1. /\ PhaseTo(frames, frames', f, IF f = 1 THEN "ended" ELSE "closing",
                       frames[f].row, frames[f].previous)
            /\ UNCHANGED <<count, holding>> /\ frames[f].phase = "running" /\ Idle(f)
        BY <1>2, <3>3, RunMoves DEF LeaveRun
      <4>2. \A h \in holding : h[1] # f
        BY <1>2, <4>1 DEF HoldersInv, Holder, Idle, Nodes
      <4> QED BY <2>g, <4>1, <4>2
    <3>4. CASE CloseRow(f)
      <4>1. /\ PhaseTo(frames, frames', f, "closed", Result(f), frames[f].previous)
            /\ UNCHANGED <<count, holding>> /\ frames[f].phase = "closing"
        BY <1>2, <3>4, RunMoves DEF CloseRow
      <4> QED BY <2>e, <2>g, <4>1
    <3>5. CASE Delivers(f)
      <4> DEFINE up == frames[f].parent
                 h1 == <<up, frames[f].via>>
      <4>1. /\ f # 1 /\ frames[f].phase = "closed" /\ frames[up].phase = "running"
            /\ EndsTo(f, "ended", IF ResultOk(f) THEN "ok" ELSE "failed", "running")
        BY <1>2, <3>5, DeliverMoves
      <4>2. /\ holding' = holding \ {h1}
            /\ count' = count + (IF h1 \in holding THEN 1 ELSE 0)
        BY <3>5 DEF Delivers
      <4>3. CountInv'
        <5> HIDE DEF h1
        <5> QED BY <1>2, <2>a, <4>2, GiveBack
      <4>4. /\ up \in DOMAIN frames /\ frames[f].via \in DOMAIN frames[up].node /\ SameShape(frames, frames')
            /\ frames'[up].phase = frames[up].phase
            /\ frames'[up].node = [frames[up].node EXCEPT ![frames[f].via] =
                                     IF ResultOk(f) THEN "ok" ELSE "failed"]
            /\ \A g \in DOMAIN frames \ {f} : g # up => frames'[g] = frames[g]
        BY <4>1 DEF EndsTo
      <4> HIDE DEF up
      <4>5. \A h \in holding' : h[1] = up => frames'[up].node[h[2]] = frames[up].node[h[2]]
        <5> TAKE h \in holding'
        <5> HAVE h[1] = up
        <5>1. h \in holding /\ h # h1 /\ h = <<h[1], h[2]>> /\ h[2] \in DOMAIN frames[up].node
          BY <1>2, <4>2 DEF HoldersInv
        <5>2. h[2] # frames[f].via
          BY <5>1
        <5> QED BY <4>4, <5>1, <5>2
      <4>6. \A h \in holding' : h[1] # f
        BY <2>e, <4>1, <4>2
      <4>7. \A g \in DOMAIN frames \ {f} :
              \/ frames'[g] = frames[g]
              \/ \A h \in holding' : h[1] = g =>
                   frames'[g].phase = frames[g].phase /\ frames'[g].node[h[2]] = frames[g].node[h[2]]
        BY <4>4, <4>5
      <4>8. HoldersInv'
        BY <1>2, <4>2, <4>4, <4>6, <4>7, HoldersAfterRun
      <4> QED BY <4>3, <4>8
    <3>6. CASE ChildCancelled(f)
      <4>1. UNCHANGED <<count, holding>>
        BY <3>6 DEF ChildCancelled
      <4>2. CASE PhaseTo(frames, frames', f, "aborting", frames[f].row, frames[f].previous)
        BY <2>g, <4>1, <4>2
      <4>3. CASE /\ frames[f].phase \in {"opening", "opened", "closing", "closed"}
                 /\ EndsTo(f, "aborted", "gone", UpAborting(f))
        <5>1. \A h \in holding : h[1] # f
          BY <2>e, <4>3
        <5> QED BY <2>b, <2>h, <4>1, <4>3, <5>1
      <4> QED BY <1>2, <3>6, <4>2, <4>3, LifecycleMoves
    <3>7. CASE AbortEnds(f)
      <4> DEFINE own == {h \in holding : h[1] = f}
      <4>0. EndsTo(f, "aborted", "gone", UpAborting(f))
        BY <1>2, <3>7, LifecycleMoves
      <4>1. holding' = holding \ own /\ count' = count + Cardinality(own)
        BY <3>7 DEF AbortEnds
      <4>2. HoldersInv'
        BY <2>h, <4>0, <4>1
      <4>3. IsFiniteSet(own) /\ IsFiniteSet(holding') /\ own \subseteq holding
        BY <1>2, <4>1, FS_Subset DEF CountInv
      <4>4. Cardinality(holding') = Cardinality(holding) - Cardinality(own)
        <5>1. holding \cap own = own
          OBVIOUS
        <5> QED BY <1>2, <4>1, <5>1, FS_Difference DEF CountInv
      <4>5. Cardinality(own) \in Nat /\ Cardinality(holding) \in Nat
        BY <1>2, <4>3, FS_CardinalityType DEF CountInv
      <4> HIDE DEF own
      <4>6. CountInv'
        BY <1>2, <4>1, <4>3, <4>4, <4>5 DEF CountInv
      <4> QED BY <4>2, <4>6
    <3> QED BY <2>2, <3>1, <3>2, <3>3, <3>4, <3>5, <3>6, <3>7 DEF RunSteps
  <2>3. CASE Stop
    <3>1. UNCHANGED <<frames, count, holding>>
      BY <2>3 DEF Stop
    <3> QED BY <1>2, <3>1 DEF HoldersInv, Holder, CountInv
  <2>4. CASE HardStop
    <3>1. 1 \in Frame
      BY <1>2, FrameType DEF ChildTypeInv, Frame, FramesOK
    <3>2. PhaseTo(frames, frames', 1, "aborting", frames[1].row, frames[1].previous)
      BY <1>2, <2>4, <3>1, RunMoves
    <3> QED BY <2>4, <2>g, <3>1, <3>2 DEF HardStop
  <2>5. ASSUME NEW f \in Frame, LifecycleRaises(f) PROVE PermitInv'
    <3>1. /\ EndsTo(f, "aborted", "gone", UpAborting(f)) /\ UNCHANGED <<count, holding>>
          /\ frames[f].phase \in {"opening", "closing"}
      BY <1>2, <2>5, LifecycleMoves DEF LifecycleRaises
    <3>2. \A h \in holding : h[1] # f
      BY <2>e, <3>1
    <3> QED BY <2>b, <2>h, <3>1, <3>2
  <2>6. ASSUME NEW f \in Frame, NEW n \in Nodes(f), NodeRaises(f, n)
        PROVE  PermitInv'
    <3>1. /\ Becomes(frames, frames', f, "aborting", frames[f].row, frames[f].previous,
                     [frames[f].node EXCEPT ![n] = "gone"], frames[f].ran)
          /\ UNCHANGED <<count, holding>>
      BY <1>2, <2>6, NodeMoves DEF NodeRaises
    <3>2. /\ SameShape(frames, frames') /\ frames'[f].phase = "aborting"
          /\ \A g \in DOMAIN frames \ {f} : frames'[g] = frames[g]
      BY <3>1 DEF Becomes
    <3> QED BY <1>2, <2>b, <3>1, <3>2, HoldersAfterRun
  <2>7. CASE UNCHANGED nestedVars
    BY <1>2, <2>7 DEF HoldersInv, Holder, CountInv, nestedVars
  <2> QED BY <1>2, <2>1, <2>2, <2>3, <2>4, <2>5, <2>6, <2>7 DEF NestedNext, Steps
<1>3. PermitInv => PermitsConserved
  <2> SUFFICES ASSUME PermitInv PROVE PermitsConserved
    OBVIOUS
  <2>1. \A h \in holding : frames[h[1]].phase \in {"running", "aborting"}
    BY DEF HoldersInv, Holder
  <2> QED BY <2>1 DEF CountInv, PermitsConserved
<1> QED BY <1>1, <1>2, <1>3, ChildTypeOK, PTL DEF NestedSpec

-----------------------------------------------------------------------------
(* What the loader accepts.  The path of a run is a chain of references    *)
(* from the root, as long as the run is deep.                              *)
NodeRefs == DagRefs(program)
Below == {d \in Dag : \E chain \in Chains(NodeRefs, program.root, Cardinality(Dag)) : Last(chain) = d}
Accepted == Plain(program) /\ ValidateSubDagNesting(NodeRefs, Limit)

PathInv ==
  Accepted =>
    /\ instances \in Below
    /\ \A f \in DOMAIN frames :
         /\ frames[f].dag \in Below /\ frames[f].previous \in Below
         /\ frames[f].path \in Chains(NodeRefs, program.root, Limit)
         /\ Last(frames[f].path) = frames[f].dag /\ frames[f].depth = Len(frames[f].path)
         /\ \A n \in DOMAIN frames[f].node : frames[f].node[n] # "refused"

LEMMA RefsFacts ==
  ASSUME ProgramAssumption, program \in Programs
  PROVE  /\ NodeRefs \in [Dag -> SUBSET Dag]
         /\ \A d \in Dag : \A n \in DOMAIN program.body[d] :
              program.body[d][n].kind = "nested" => program.body[d][n].ref \in NodeRefs[d]
<1>1. \A d \in Dag : \A n \in DOMAIN program.body[d] : program.body[d][n] \in NodeConfig
  BY ProgramFacts
<1>2. \A d \in Dag : \A n \in DOMAIN program.body[d] : program.body[d][n].ref \in Dag
  BY <1>1 DEF NodeConfig
<1> QED BY <1>2 DEF NodeRefs, DagRefs

LEMMA BelowFacts ==
  ASSUME DagAssumption, ProgramAssumption, program \in Programs
  PROVE  /\ program.root \in Below
         /\ \A d \in Below : NodeRefs[d] \subseteq Below
         /\ Below \subseteq Closure(program) /\ Below \subseteq Dag
<1> DEFINE chains == Chains(NodeRefs, program.root, Cardinality(Dag))
<1>1. NodeRefs \in [Dag -> SUBSET Dag] /\ program.root \in Dag /\ IsFiniteSet(Dag)
  <2>1. IsFiniteSet(Dag)
    BY Zenon DEF DagAssumption
  <2> QED BY <2>1, RefsFacts, ProgramFacts
<1>2. Closure(program) = DagClosure(NodeRefs, program.root)
  BY DEF Closure, NodeRefs
<1>3. DagClosure(NodeRefs, program.root) # {}
  BY DEF ProgramAssumption, NodeRefs
<1>4. /\ <<program.root>> \in chains
      /\ DagClosure(NodeRefs, program.root) = UNION {{chain[i] : i \in DOMAIN chain} : chain \in chains}
      /\ \A chain \in chains :
           /\ chain \in Seq(Dag) /\ Len(chain) \in 1 .. Cardinality(Dag)
           /\ \A e \in NodeRefs[Last(chain)] : Append(chain, e) \in chains
  BY <1>1, <1>3, ClosureChains
<1> HIDE DEF chains
<1>5. Below = {d \in Dag : \E chain \in chains : Last(chain) = d}
  BY DEF Below, chains
<1>6. program.root \in Below
  BY <1>1, <1>4, <1>5 DEF Last
<1>7. ASSUME NEW d \in Below, NEW e \in NodeRefs[d] PROVE e \in Below
  <2>1. PICK chain \in chains : Last(chain) = d /\ d \in Dag
    BY <1>5
  <2>2. e \in Dag /\ Append(chain, e) \in chains /\ chain \in Seq(Dag)
    BY <1>1, <1>4, <2>1
  <2>3. Last(Append(chain, e)) = e
    BY <2>2 DEF Last
  <2> QED BY <1>5, <2>2, <2>3
<1>8. ASSUME NEW d \in Below PROVE d \in Closure(program)
  <2>1. PICK chain \in chains : Last(chain) = d
    BY <1>5
  <2>2. Len(chain) \in DOMAIN chain /\ chain[Len(chain)] = d
    <3>1. chain \in Seq(Dag) /\ Len(chain) >= 1
      BY <1>4, <2>1
    <3> QED BY <2>1, <3>1 DEF Last
  <2> QED BY <1>2, <1>4, <2>1, <2>2
<1> QED BY <1>5, <1>6, <1>7, <1>8

(* A runner does not refuse what its DAG names, and the next path is a     *)
(* chain, too.                                                             *)
LEMMA NotRefused ==
  ASSUME BoundAssumption, ProgramAssumption, ChildTypeInv, PathInv, Accepted,
         NEW f \in Frame, NEW ref \in NodeRefs[frames[f].dag]
  PROVE  /\ ~ Refuses(f, ref)
         /\ Append(frames[f].path, ref) \in Chains(NodeRefs, program.root, Limit)
         /\ Last(Append(frames[f].path, ref)) = ref
         /\ Len(Append(frames[f].path, ref)) = frames[f].depth + 1
<1> DEFINE path == frames[f].path
           next == Append(path, ref)
<1>1. /\ path \in Chains(NodeRefs, program.root, Limit) /\ Last(path) = frames[f].dag
      /\ frames[f].depth = Len(path)
  BY DEF PathInv, Frame
<1>2. /\ NodeRefs \in [Dag -> SUBSET Dag] /\ program.root \in Dag /\ Limit \in Nat
      /\ frames[f].dag \in Dag /\ path \in Seq(Dag)
  BY RefsFacts, ProgramFacts, FrameType
     DEF ChildTypeInv, BoundAssumption, Frame, FrameRecord
<1>3. \A chain \in Chains(NodeRefs, program.root, Limit) : ~ Repeats(chain) /\ Len(chain) <= Limit
  BY <1>2 DEF Accepted, ValidateSubDagNesting
<1>4. ~ Repeats(path) /\ Len(path) <= Limit
  BY <1>1, <1>3
<1> HIDE DEF path
<1>5. next \in Chains(NodeRefs, program.root, Limit)
  BY <1>1, <1>2, <1>4, ChainsFrom
<1>6. ~ Repeats(next) /\ Len(next) <= Limit
  BY <1>3, <1>5
<1>7. ref \in Dag /\ Len(next) = Len(path) + 1 /\ next[Len(path) + 1] = ref
      /\ \A i \in 1 .. Len(path) : next[i] = path[i]
  BY <1>2
<1>8. Len(path) \in Nat /\ DOMAIN path = 1 .. Len(path) /\ DOMAIN next = 1 .. Len(path) + 1
  BY <1>2, <1>7
<1> HIDE DEF next
<1>9. ~ \E i \in DOMAIN path : path[i] = ref
  BY <1>6, <1>7, <1>8 DEF Repeats
<1>10. frames[f].depth < Limit
  BY <1>1, <1>2, <1>6, <1>7, <1>8
<1>11. ~ Refuses(f, ref)
  BY <1>1, <1>2, <1>8, <1>9, <1>10 DEF Refuses, path
<1>12. Last(next) = ref
  BY <1>7 DEF Last
<1> QED BY <1>1, <1>5, <1>7, <1>11, <1>12 DEF next, path

LEMMA PathsKept ==
  ASSUME ChildTypeInv, PathInv, program' = program, SameShape(frames, frames'),
         instances' = instances \/ \E g \in DOMAIN frames : instances' \in {frames[g].dag, frames[g].previous},
         \A f \in DOMAIN frames : frames'[f].previous \in {frames[f].previous, instances},
         \A f \in DOMAIN frames : \A n \in DOMAIN frames[f].node :
           Accepted /\ frames'[f].node[n] = "refused" => frames[f].node[n] = "refused"
  PROVE  PathInv'
<1> SUFFICES ASSUME Accepted'
             PROVE  /\ instances' \in Below'
                    /\ \A f \in DOMAIN frames' :
                         /\ frames'[f].dag \in Below' /\ frames'[f].previous \in Below'
                         /\ frames'[f].path \in Chains(NodeRefs', program'.root, Limit)
                         /\ Last(frames'[f].path) = frames'[f].dag
                         /\ frames'[f].depth = Len(frames'[f].path)
                         /\ \A n \in DOMAIN frames'[f].node : frames'[f].node[n] # "refused"
  BY DEF PathInv
<1>1. NodeRefs' = NodeRefs /\ Below' = Below /\ (Accepted' <=> Accepted)
  BY DEF NodeRefs, Below, Accepted
<1>2. instances \in Below
  BY <1>1 DEF PathInv
<1>3. \A f \in DOMAIN frames :
        /\ frames[f].dag \in Below /\ frames[f].previous \in Below
        /\ frames[f].path \in Chains(NodeRefs, program.root, Limit)
        /\ Last(frames[f].path) = frames[f].dag /\ frames[f].depth = Len(frames[f].path)
        /\ \A n \in DOMAIN frames[f].node : frames[f].node[n] # "refused"
  BY <1>1 DEF PathInv
<1>4. instances' \in Below
  BY <1>2, <1>3
<1>5. \A f \in DOMAIN frames :
        /\ frames'[f].dag = frames[f].dag /\ frames'[f].path = frames[f].path
        /\ frames'[f].depth = frames[f].depth /\ DOMAIN frames'[f].node = DOMAIN frames[f].node
  BY DEF SameShape, SameRun
<1>6. DOMAIN frames' = DOMAIN frames
  BY DEF SameShape
<1> QED BY <1>1, <1>2, <1>3, <1>4, <1>5, <1>6

(* A run that begins for a node that names its DAG.                        *)
LEMMA PathsBegin ==
  ASSUME DagAssumption, BoundAssumption, ProgramAssumption,
         ChildTypeInv, PathInv, program' = program, instances' = instances,
         NEW f \in Frame, NEW n \in Nodes(f), NEW ref, Begins(f, n, f, ref),
         Accepted => ref \in NodeRefs[frames[f].dag]
  PROVE  PathInv'
<1> SUFFICES ASSUME Accepted'
             PROVE  /\ instances' \in Below'
                    /\ \A g \in DOMAIN frames' :
                         /\ frames'[g].dag \in Below' /\ frames'[g].previous \in Below'
                         /\ frames'[g].path \in Chains(NodeRefs', program'.root, Limit)
                         /\ Last(frames'[g].path) = frames'[g].dag
                         /\ frames'[g].depth = Len(frames'[g].path)
                         /\ \A m \in DOMAIN frames'[g].node : frames'[g].node[m] # "refused"
  BY DEF PathInv
<1>1. NodeRefs' = NodeRefs /\ Below' = Below /\ (Accepted' <=> Accepted)
  BY DEF NodeRefs, Below, Accepted
<1>2. /\ Append(frames[f].path, ref) \in Chains(NodeRefs, program.root, Limit)
      /\ Last(Append(frames[f].path, ref)) = ref
      /\ Len(Append(frames[f].path, ref)) = frames[f].depth + 1
  BY <1>1, NotRefused
<1>3. f \in DOMAIN frames /\ n \in DOMAIN frames[f].node
  BY DEF Frame, Nodes
<1>4. ref \in Below
  BY <1>1, <1>3, BelowFacts DEF ChildTypeInv, PathInv
<1>5. \A g \in DOMAIN frames :
        /\ frames[g].dag \in Below /\ frames[g].previous \in Below
        /\ frames[g].path \in Chains(NodeRefs, program.root, Limit)
        /\ Last(frames[g].path) = frames[g].dag /\ frames[g].depth = Len(frames[g].path)
        /\ \A m \in DOMAIN frames[g].node : frames[g].node[m] # "refused"
  BY <1>1 DEF PathInv
<1>6. LET g == Len(frames')
      IN  /\ frames'[g].dag \in Below /\ frames'[g].previous \in Below
          /\ frames'[g].path \in Chains(NodeRefs, program.root, Limit)
          /\ Last(frames'[g].path) = frames'[g].dag /\ frames'[g].depth = Len(frames'[g].path)
          /\ \A m \in DOMAIN frames'[g].node : frames'[g].node[m] # "refused"
  <2>1. frames'[Len(frames')] = Begun(f, n, f, ref)
    BY DEF Begins
  <2> QED BY <1>2, <1>4, <2>1 DEF Begun
<1>7. /\ frames'[f].dag = frames[f].dag /\ frames'[f].path = frames[f].path
      /\ frames'[f].depth = frames[f].depth /\ frames'[f].previous = frames[f].previous
      /\ DOMAIN frames'[f].node = DOMAIN frames[f].node
      /\ frames'[f].node = [frames[f].node EXCEPT ![n] = "nested"]
      /\ \A g \in DOMAIN frames \ {f} : frames'[g] = frames[g]
      /\ DOMAIN frames' = DOMAIN frames \union {Len(frames')}
  BY DEF Begins, SameRun
<1>8. \A m \in DOMAIN frames[f].node : frames'[f].node[m] # "refused"
  BY <1>3, <1>5, <1>7
<1>9. instances' \in Below
  BY <1>1 DEF PathInv
<1>10. \A g \in DOMAIN frames :
         /\ frames'[g].dag \in Below /\ frames'[g].previous \in Below
         /\ frames'[g].path \in Chains(NodeRefs, program.root, Limit)
         /\ Last(frames'[g].path) = frames'[g].dag /\ frames'[g].depth = Len(frames'[g].path)
         /\ \A m \in DOMAIN frames'[g].node : frames'[g].node[m] # "refused"
  <2> TAKE g \in DOMAIN frames
  <2>1. CASE g = f
    BY <1>3, <1>5, <1>7, <1>8, <2>1
  <2>2. CASE g # f
    <3>1. frames'[g] = frames[g]
      BY <1>7, <2>2
    <3> QED BY <1>5, <3>1
  <2> QED BY <2>1, <2>2
<1> QED BY <1>1, <1>6, <1>7, <1>9, <1>10

LEMMA PathsFirst ==
  ASSUME DagAssumption, BoundAssumption, ProgramAssumption, NestedInit
  PROVE  PathInv
<1>1. /\ program \in Programs /\ instances = program.root /\ DOMAIN frames = {1}
      /\ frames[1].dag = program.root /\ frames[1].previous = program.root
      /\ frames[1].path = <<program.root>> /\ frames[1].depth = 1
      /\ \A n \in DOMAIN frames[1].node : frames[1].node[n] = "waiting"
  BY DEF NestedInit, NewFrame
<1>2. program.root \in Below
  BY <1>1, BelowFacts
<1>3. <<program.root>> \in Chains(NodeRefs, program.root, Limit)
  <2>1. NodeRefs \in [Dag -> SUBSET Dag] /\ program.root \in Dag /\ Limit \in Nat
    BY <1>1, RefsFacts, ProgramFacts DEF BoundAssumption
  <2> QED BY <2>1, ChainsFrom
<1>4. Last(<<program.root>>) = program.root /\ Len(<<program.root>>) = 1
  BY DEF Last
<1> QED BY <1>1, <1>2, <1>3, <1>4 DEF PathInv

(* What the loader accepts is refused nowhere (loader.py:75, 146;          *)
(* runner.py:770).                                                         *)
THEOREM ChildAcceptedNeverRefused ==
  ASSUME DagAssumption, BoundAssumption, ProgramAssumption
  PROVE  NestedSpec => []AcceptedNeverRefused
<1>1. NestedInit => PathInv
  BY PathsFirst
<1>2. ASSUME ChildTypeInv, PathInv, [NestedNext]_nestedVars PROVE PathInv'
  <2>a. Frame = DOMAIN frames /\ \A f \in Frame : Nodes(f) = DOMAIN frames[f].node
    BY DEF Frame, Nodes
  <2> DEFINE SetTo(f, n, s) ==
               /\ SameShape(frames, frames') /\ frames'[f].previous = frames[f].previous
               /\ frames'[f].node = [frames[f].node EXCEPT ![n] = s]
               /\ \A g \in DOMAIN frames \ {f} : frames'[g] = frames[g]
  <2>b. ASSUME NEW f \in Frame, NEW n \in Nodes(f), NEW s, SetTo(f, n, s),
               s # "refused" \/ ~ Accepted, program' = program, instances' = instances
        PROVE  PathInv'
    <3>1. \A g \in DOMAIN frames : frames'[g].previous \in {frames[g].previous, instances}
      BY <2>b
    <3>2. \A g \in DOMAIN frames : \A m \in DOMAIN frames[g].node :
            Accepted /\ frames'[g].node[m] = "refused" => frames[g].node[m] = "refused"
      BY <2>a, <2>b
    <3> QED BY <1>2, <2>b, <3>1, <3>2, PathsKept
  <2> HIDE DEF SetTo
  <2>c. ASSUME NEW f \in Frame, NEW n \in Nodes(f), NEW s, NodeTo(f, n, s),
               s # "refused" \/ ~ Accepted, program' = program, instances' = instances
        PROVE  PathInv'
    <3>1. SetTo(f, n, s)
      BY <2>c DEF NodeTo, Becomes, SetTo
    <3> QED BY <2>b, <2>c, <3>1
  <2>d. ASSUME NEW g \in Frame, NEW p, NEW w, NEW q, PhaseTo(frames, frames', g, p, w, q),
               q \in {frames[g].previous, instances}, program' = program,
               instances' \in {instances, frames[g].dag, frames[g].previous}
        PROVE  PathInv'
    <3>1. /\ SameShape(frames, frames') /\ frames'[g].previous = q
          /\ frames'[g].node = frames[g].node
          /\ \A h \in DOMAIN frames \ {g} : frames'[h] = frames[h]
      BY <2>d DEF PhaseTo, Becomes
    <3>2. \A h \in DOMAIN frames : frames'[h].previous \in {frames[h].previous, instances}
      BY <2>d, <3>1
    <3>3. \A h \in DOMAIN frames : frames'[h].node = frames[h].node
      BY <3>1
    <3> QED BY <1>2, <2>a, <2>d, <3>1, <3>2, <3>3, PathsKept
  <2>e. ASSUME NEW g \in Frame, NEW p, NEW s, NEW up, EndsTo(g, p, s, up), s # "refused",
               program' = program, instances' \in {instances, frames[g].dag, frames[g].previous}
        PROVE  PathInv'
    <3>1. SameShape(frames, frames')
      BY <2>e DEF EndsTo
    <3>2. \A h \in DOMAIN frames :
            /\ frames'[h].previous = frames[h].previous
            /\ \/ frames'[h].node = frames[h].node
               \/ frames'[h].node = [frames[h].node EXCEPT ![frames[g].via] = s]
      <4> TAKE h \in DOMAIN frames
      <4>1. CASE h = g
        BY <2>e, <4>1 DEF EndsTo
      <4>2. CASE h # g /\ (g = 1 \/ h # frames[g].parent)
        BY <2>e, <4>2 DEF EndsTo
      <4>3. CASE g # 1 /\ h = frames[g].parent
        BY <2>e, <4>3 DEF EndsTo
      <4> QED BY <4>1, <4>2, <4>3
    <3>3. \A h \in DOMAIN frames : \A m \in DOMAIN frames[h].node :
            frames'[h].node[m] = "refused" => frames[h].node[m] = "refused"
      BY <2>e, <3>2
    <3> QED BY <1>2, <2>a, <2>e, <3>1, <3>2, <3>3, PathsKept
  <2>1. ASSUME NEW f \in Frame, NEW n \in Nodes(f), NodeSteps(f, n)
        PROVE  PathInv'
    <3>1. program' = program /\ instances' = instances
      BY <2>1 DEF NodeSteps, StartNode, FailNode, ExecuteNested,
                  ExecuteConfig, ExecuteUnknown, ExecuteHandler, HandlerEnds,
                  NodeCancelled, ExecuteSubDag, Ends
    <3>2. "ok" \in Status /\ "failed" \in Status /\ "refused" \in Status
      BY DEF Status, Settled
    <3>3. CASE StartNode(f, n)
      <4>1. NodeTo(f, n, "recording")
        BY <1>2, <3>3, NodeMoves
      <4> QED BY <2>c, <3>1, <4>1
    <3>4. CASE FailNode(f, n)
      <4>1. NodeTo(f, n, "failed")
        BY <1>2, <3>4, NodeMoves
      <4> QED BY <2>c, <3>1, <4>1
    <3>5. CASE ExecuteNested(f, n)
      <4> DEFINE ref == Config(f, n).ref
      <4>1. ref \in NodeRefs[frames[f].dag]
        <5>1. frames[f].dag \in Dag /\ n \in DOMAIN program.body[frames[f].dag]
          <6>1. FramesOK(frames) /\ f \in DOMAIN frames /\ n \in DOMAIN frames[f].node
            BY <1>2, <2>a DEF ChildTypeInv
          <6>2. frames[f] \in FrameRecord
            BY <6>1, FrameType
          <6>3. frames[f].dag \in Dag
            BY <6>2 DEF FrameRecord
          <6> QED BY <6>1, <6>3 DEF FramesOK
        <5>2. program.body[frames[f].dag][n].kind = "nested"
          BY <3>5 DEF ExecuteNested, Config
        <5> QED BY <1>2, <5>1, <5>2, RefsFacts DEF ChildTypeInv, Config
      <4> HIDE DEF ref
      <4>2. CASE Ends(f, n, "refused") /\ Refuses(f, ref)
        <5>1. NodeTo(f, n, "refused")
          BY <1>2, <3>2, <4>2, NodeMoves
        <5>2. ~ Accepted
          BY <1>2, <4>1, <4>2, NotRefused
        <5> QED BY <2>c, <3>1, <5>1, <5>2
      <4>3. CASE Begins(f, n, f, ref)
        BY <1>2, <3>1, <4>1, <4>3, PathsBegin
      <4>4. \/ Ends(f, n, "refused") /\ Refuses(f, ref)
            \/ Begins(f, n, f, ref)
        BY <1>2, <3>5, NodeMoves DEF ref
      <4> QED BY <4>2, <4>3, <4>4
    <3>6. CASE ExecuteConfig(f, n)
      <4>1. ASSUME Accepted PROVE FALSE
        <5>1. instances \in Below /\ Below \subseteq Closure(program)
          BY <1>2, <4>1, BelowFacts DEF PathInv, ChildTypeInv
        <5>2. Found(f, n).kind = "config" /\ FoundIn(n) # None
          BY <3>6 DEF ExecuteConfig
        <5>3. n \in DOMAIN program.body[instances]
          BY <5>2 DEF FoundIn
        <5>4. program.body[instances][n].kind = "config"
          BY <5>2, <5>3 DEF Found
        <5> QED BY <4>1, <5>1, <5>3, <5>4 DEF Accepted, Plain
      <4>2. Accepted' <=> Accepted
        BY <3>1 DEF Accepted, NodeRefs
      <4> QED BY <4>1, <4>2 DEF PathInv
    <3>7. CASE ExecuteUnknown(f, n)
      <4>1. NodeTo(f, n, "failed")
        BY <1>2, <3>2, <3>7, NodeMoves DEF ExecuteUnknown
      <4> QED BY <2>c, <3>1, <4>1
    <3>8. CASE HandlerEnds(f, n)
      <4>1. NodeTo(f, n, "ok") \/ NodeTo(f, n, "failed")
        BY <1>2, <3>2, <3>8, NodeMoves DEF HandlerEnds
      <4> QED BY <2>c, <3>1, <4>1
    <3>9. CASE ExecuteHandler(f, n)
      <4>1. Becomes(frames, frames', f, frames[f].phase, frames[f].row, frames[f].previous,
                    [frames[f].node EXCEPT ![n] = "executing"],
                    [frames[f].ran EXCEPT ![n] = FoundIn(n)])
        BY <1>2, <3>9, NodeMoves
      <4>2. SetTo(f, n, "executing")
        BY <4>1 DEF Becomes, SetTo
      <4> QED BY <2>b, <3>1, <4>2
    <3>10. CASE NodeCancelled(f, n)
      <4>1. NodeTo(f, n, "gone")
        BY <1>2, <3>10, NodeMoves
      <4> QED BY <2>c, <3>1, <4>1
    <3> QED BY <2>1, <3>3, <3>4, <3>5, <3>6, <3>7, <3>8, <3>9, <3>10 DEF NodeSteps
  <2>2. ASSUME NEW f \in Frame, RunSteps(f) PROVE PathInv'
    <3>1. program' = program /\ instances' \in {instances, frames[f].dag, frames[f].previous}
      BY <2>2 DEF RunSteps, OpenRow, EnterRun, LeaveRun, CloseRow,
                  Delivers, ChildCancelled, AbortEnds
    <3>2. CASE OpenRow(f)
      <4>1. PhaseTo(frames, frames', f, "opened", "running", frames[f].previous)
        BY <1>2, <3>2, RunMoves
      <4> QED BY <2>d, <3>1, <4>1
    <3>3. CASE EnterRun(f)
      <4>1. PhaseTo(frames, frames', f, "running", frames[f].row, instances)
        BY <1>2, <3>3, RunMoves
      <4> QED BY <2>d, <3>1, <4>1
    <3>4. CASE LeaveRun(f)
      <4>1. PhaseTo(frames, frames', f, IF f = 1 THEN "ended" ELSE "closing",
                    frames[f].row, frames[f].previous)
        BY <1>2, <3>4, RunMoves
      <4> QED BY <2>d, <3>1, <4>1
    <3>5. CASE CloseRow(f)
      <4>1. PhaseTo(frames, frames', f, "closed", Result(f), frames[f].previous)
        BY <1>2, <3>5, RunMoves
      <4> QED BY <2>d, <3>1, <4>1
    <3>6. CASE Delivers(f)
      <4>1. EndsTo(f, "ended", IF ResultOk(f) THEN "ok" ELSE "failed", "running")
        BY <1>2, <3>6, DeliverMoves
      <4> QED BY <2>e, <3>1, <4>1
    <3>7. CASE ChildCancelled(f)
      <4>1. \/ PhaseTo(frames, frames', f, "aborting", frames[f].row, frames[f].previous)
            \/ EndsTo(f, "aborted", "gone", UpAborting(f))
        BY <1>2, <3>7, LifecycleMoves
      <4> QED BY <2>d, <2>e, <3>1, <4>1
    <3>8. CASE AbortEnds(f)
      <4>1. EndsTo(f, "aborted", "gone", UpAborting(f))
        BY <1>2, <3>8, LifecycleMoves
      <4> QED BY <2>e, <3>1, <4>1
    <3> QED BY <2>2, <3>2, <3>3, <3>4, <3>5, <3>6, <3>7, <3>8 DEF RunSteps
  <2>3. CASE Stop
    <3>1. UNCHANGED <<program, frames, instances>>
      BY <2>3 DEF Stop
    <3> QED BY <1>2, <3>1 DEF PathInv, Accepted, Below, NodeRefs
  <2>4. CASE HardStop
    <3>1. 1 \in Frame
      BY <1>2, FrameType DEF ChildTypeInv, Frame, FramesOK
    <3>2. PhaseTo(frames, frames', 1, "aborting", frames[1].row, frames[1].previous)
      BY <1>2, <2>4, <3>1, RunMoves
    <3>3. program' = program /\ instances' = instances
      BY <2>4 DEF HardStop
    <3> QED BY <2>d, <3>1, <3>2, <3>3
  <2>5. ASSUME NEW f \in Frame, LifecycleRaises(f) PROVE PathInv'
    <3>1. EndsTo(f, "aborted", "gone", UpAborting(f))
      BY <1>2, <2>5, LifecycleMoves
    <3>2. program' = program /\ instances' = instances
      BY <2>5 DEF LifecycleRaises
    <3> QED BY <2>e, <3>1, <3>2
  <2>6. ASSUME NEW f \in Frame, NEW n \in Nodes(f), NodeRaises(f, n)
        PROVE  PathInv'
    <3>1. Becomes(frames, frames', f, "aborting", frames[f].row, frames[f].previous,
                  [frames[f].node EXCEPT ![n] = "gone"], frames[f].ran)
      BY <1>2, <2>6, NodeMoves
    <3>2. program' = program /\ instances' = instances
      BY <2>6 DEF NodeRaises
    <3>3. SetTo(f, n, "gone")
      BY <3>1 DEF Becomes, SetTo
    <3> QED BY <2>6, <2>b, <3>2, <3>3
  <2>7. CASE UNCHANGED nestedVars
    <3>1. UNCHANGED <<program, frames, instances>>
      BY <2>7 DEF nestedVars
    <3> QED BY <1>2, <3>1 DEF PathInv, Accepted, Below, NodeRefs
  <2> QED BY <1>2, <2>1, <2>2, <2>3, <2>4, <2>5, <2>6, <2>7 DEF NestedNext, Steps
<1>3. PathInv => AcceptedNeverRefused
  <2> SUFFICES ASSUME PathInv, Plain(program),
                      ValidateSubDagNesting(DagRefs(program), Limit)
               PROVE  \A f \in Frame : \A n \in Nodes(f) : frames[f].node[n] # "refused"
    BY DEF AcceptedNeverRefused
  <2>1. Accepted
    BY DEF Accepted, NodeRefs
  <2> QED BY <2>1 DEF PathInv, Frame, Nodes
<1> QED BY <1>1, <1>2, <1>3, ChildTypeOK, PTL DEF NestedSpec

-----------------------------------------------------------------------------
(* What rows tell.  Outputs go up one run at a time: a run that has ended  *)
(* has left its result at its node, and whatever is under way below a run  *)
(* keeps that run from ending.                                             *)
OkIn(t) == \E n \in DOMAIN t : t[n] = "ok"
Written(row) == row \in {"succeeded", "failed"}
Child == DOMAIN frames \ {1}

(* Only runs that are under way have busy nodes, and only broken off ones  *)
(* lose nodes.  A node that ran a handler has come to that.                *)
BusyInv ==
  \A f \in DOMAIN frames : \A n \in DOMAIN frames[f].node :
    /\ frames[f].node[n] \in Busy => frames[f].phase \in {"running", "aborting"}
    /\ frames[f].node[n] = "gone" => frames[f].phase \in {"aborting", "aborted"}
    /\ frames[f].node[n] = "executing" => frames[f].ran[n] # "not"
    /\ frames[f].ran[n] # "not" => frames[f].node[n] \in {"executing", "ok", "failed", "gone"}

(* The node of a run: nested while the run is under way, and then what     *)
(* became of it.                                                           *)
ParentInv ==
  \A g \in Child :
    LET f == frames[g].parent
        n == frames[g].via
    IN  /\ frames[f].ran[n] = "not"
        /\ frames[g].phase = "ended" => frames[f].node[n] = IF OkIn(frames[g].node) THEN "ok" ELSE "failed"
        /\ frames[g].phase = "aborted" => frames[f].node[n] = "gone"
        /\ frames[g].phase \notin {"ended", "aborted"} => frames[f].node[n] = "nested"

OnceInv ==
  \A g, h \in Child :
    frames[g].parent = frames[h].parent /\ frames[g].via = frames[h].via => g = h

(* A node that delivered ran a handler, or a run that did.                 *)
SourceInv ==
  \A f \in DOMAIN frames : \A n \in DOMAIN frames[f].node :
    frames[f].node[n] = "ok" /\ frames[f].ran[n] = "not" =>
      \E g \in Child : /\ frames[g].parent = f /\ frames[g].via = n
                       /\ frames[g].phase = "ended" /\ OkIn(frames[g].node)

(* A row is written when the nodes are settled, and says how.              *)
WrittenInv ==
  \A g \in DOMAIN frames :
    /\ frames[g].phase \in {"closing", "closed"} \/ Written(frames[g].row) =>
         \A n \in DOMAIN frames[g].node : frames[g].node[n] \in Settled
    /\ Written(frames[g].row) => /\ frames[g].row = "succeeded" <=> OkIn(frames[g].node)
                                 /\ frames[g].phase \in {"closed", "ended", "aborted"}
    /\ frames[g].phase = "closed" => Written(frames[g].row)
    /\ frames[g].phase = "ended" /\ g # 1 => Written(frames[g].row)

OutcomeInv == BusyInv /\ ParentInv /\ OnceInv /\ SourceInv /\ WrittenInv

(* The statuses are different.                                             *)
LEMMA StatusFacts ==
  /\ Busy = {"recording", "executing", "nested"} /\ Settled = {"ok", "failed", "refused"}
  /\ \A t : t \in Settled => t \notin Busy /\ t \notin {"waiting", "gone"}
BY DEF Busy, Settled

(* Only the node n can have run another handler.                           *)
RanApart(f, n, u) == \A m \in DOMAIN frames[f].node \ {n} : u[m] = frames[f].ran[m]

(* A node comes on in a run that is under way, and no child run is its.    *)
LEMMA OutcomeAfterNode ==
  ASSUME ChildTypeInv, OutcomeInv, NEW f \in DOMAIN frames, NEW n \in DOMAIN frames[f].node,
         frames[f].phase \in {"running", "aborting"},
         frames[f].node[n] \in {"waiting", "recording", "executing"},
         NEW s \in {"recording", "executing", "ok", "failed", "refused", "gone"},
         NEW p \in {frames[f].phase, "aborting"}, NEW u,
         RanApart(f, n, u),
         s \in {"executing", "ok"} => u[n] # "not",
         u[n] # "not" => s \in {"executing", "ok", "failed", "gone"},
         s = "gone" => p = "aborting",
         Becomes(frames, frames', f, p, frames[f].row, frames[f].previous,
                 [frames[f].node EXCEPT ![n] = s], u)
  PROVE  OutcomeInv'
<1>1. /\ FramesOK(frames) /\ FramesOK(frames') /\ DOMAIN frames' = DOMAIN frames
      /\ \A g \in DOMAIN frames \ {f} : frames'[g] = frames[g]
      /\ \A g \in DOMAIN frames : /\ frames'[g].parent = frames[g].parent
                                  /\ frames'[g].via = frames[g].via
                                  /\ DOMAIN frames'[g].node = DOMAIN frames[g].node
                                  /\ frames'[g].row = frames[g].row
      /\ frames'[f].phase = p /\ frames'[f].ran = u
      /\ frames'[f].node = [frames[f].node EXCEPT ![n] = s]
  BY DEF Becomes, SameShape, SameRun, ChildTypeInv
<1>2. /\ frames'[f].node[n] = s /\ frames'[f].ran[n] = u[n]
      /\ \A m \in DOMAIN frames[f].node \ {n} : /\ frames'[f].node[m] = frames[f].node[m]
                                                /\ frames'[f].ran[m] = frames[f].ran[m]
  BY <1>1 DEF RanApart
<1>3. p \in {"running", "aborting"}
  OBVIOUS
<1>4. \A g \in Child : /\ frames[g].parent \in DOMAIN frames
                       /\ frames[g].via \in DOMAIN frames[frames[g].parent].node
                       /\ frames[g].parent # f \/ frames[g].via # n
  <2> TAKE g \in Child
  <2>1. /\ frames[g].parent \in DOMAIN frames
        /\ frames[g].via \in DOMAIN frames[frames[g].parent].node
    BY <1>1, FrameType DEF FramesOK, Child
  <2>2. frames[frames[g].parent].node[frames[g].via] \in {"ok", "failed", "gone", "nested"}
    BY DEF OutcomeInv, ParentInv
  <2> QED BY <2>1, <2>2
<1>5. \A g \in DOMAIN frames : frames[g].phase \notin {"running", "aborting"} \/ Written(frames[g].row) => g # f
  BY DEF OutcomeInv, WrittenInv
<1>6. \A g \in DOMAIN frames : g # f => frames'[g] = frames[g]
  BY <1>1
<1>7. Child' = Child
  BY <1>1 DEF Child
<1>8. BusyInv'
  <2> SUFFICES ASSUME NEW g \in DOMAIN frames, NEW m \in DOMAIN frames[g].node
               PROVE  /\ frames'[g].node[m] \in Busy => frames'[g].phase \in {"running", "aborting"}
                      /\ frames'[g].node[m] = "gone" => frames'[g].phase \in {"aborting", "aborted"}
                      /\ frames'[g].node[m] = "executing" => frames'[g].ran[m] # "not"
                      /\ frames'[g].ran[m] # "not" =>
                           frames'[g].node[m] \in {"executing", "ok", "failed", "gone"}
    BY <1>1 DEF BusyInv
  <2>1. /\ frames[g].node[m] \in Busy => frames[g].phase \in {"running", "aborting"}
        /\ frames[g].node[m] = "gone" => frames[g].phase \in {"aborting", "aborted"}
        /\ frames[g].node[m] = "executing" => frames[g].ran[m] # "not"
        /\ frames[g].ran[m] # "not" => frames[g].node[m] \in {"executing", "ok", "failed", "gone"}
    BY DEF OutcomeInv, BusyInv
  <2>2. CASE g # f
    BY <1>6, <2>1, <2>2
  <2>3. CASE g = f /\ m # n
    BY <1>1, <1>2, <1>3, <2>1, <2>3
  <2>4. CASE g = f /\ m = n
    BY <1>1, <1>2, <1>3, <2>4
  <2> QED BY <2>2, <2>3, <2>4
<1>9. ParentInv'
  <2> SUFFICES ASSUME NEW g \in Child
               PROVE  LET e == frames'[g].parent
                          m == frames'[g].via
                      IN  /\ frames'[e].ran[m] = "not"
                          /\ frames'[g].phase = "ended" =>
                               frames'[e].node[m] = IF OkIn(frames'[g].node) THEN "ok" ELSE "failed"
                          /\ frames'[g].phase = "aborted" => frames'[e].node[m] = "gone"
                          /\ frames'[g].phase \notin {"ended", "aborted"} => frames'[e].node[m] = "nested"
    BY <1>7 DEF ParentInv
  <2> DEFINE e == frames[g].parent
             m == frames[g].via
  <2>1. frames'[g].parent = e /\ frames'[g].via = m
    BY <1>1 DEF Child
  <2>2. frames'[e].ran[m] = frames[e].ran[m] /\ frames'[e].node[m] = frames[e].node[m]
    BY <1>2, <1>4, <1>6
  <2>3. /\ frames[e].ran[m] = "not"
        /\ frames[g].phase = "ended" => frames[e].node[m] = IF OkIn(frames[g].node) THEN "ok" ELSE "failed"
        /\ frames[g].phase = "aborted" => frames[e].node[m] = "gone"
        /\ frames[g].phase \notin {"ended", "aborted"} => frames[e].node[m] = "nested"
    BY DEF OutcomeInv, ParentInv
  <2> HIDE DEF e, m
  <2>4. CASE g # f
    <3>1. frames'[g] = frames[g]
      BY <1>6, <2>4 DEF Child
    <3> QED BY <2>1, <2>2, <2>3, <3>1
  <2>5. CASE g = f
    <3>1. frames'[g].phase \notin {"ended", "aborted"} /\ frames[g].phase \notin {"ended", "aborted"}
      BY <1>1, <1>3, <2>5
    <3> QED BY <2>1, <2>2, <2>3, <3>1
  <2> QED BY <2>4, <2>5
<1>10. OnceInv'
  BY <1>1, <1>7 DEF OutcomeInv, OnceInv, Child
<1>11. SourceInv'
  <2> SUFFICES ASSUME NEW e \in DOMAIN frames, NEW m \in DOMAIN frames[e].node,
                      frames'[e].node[m] = "ok", frames'[e].ran[m] = "not"
               PROVE  \E g \in Child : /\ frames'[g].parent = e /\ frames'[g].via = m
                                       /\ frames'[g].phase = "ended" /\ OkIn(frames'[g].node)
    BY <1>1, <1>7 DEF SourceInv
  <2>1. e # f \/ m # n
    BY <1>2
  <2>2. frames[e].node[m] = "ok" /\ frames[e].ran[m] = "not"
    BY <1>2, <1>6, <2>1
  <2>3. PICK g \in Child : /\ frames[g].parent = e /\ frames[g].via = m
                           /\ frames[g].phase = "ended" /\ OkIn(frames[g].node)
    BY <2>2 DEF OutcomeInv, SourceInv
  <2>4. g # f /\ g \in DOMAIN frames
    BY <2>3 DEF Child
  <2>5. frames'[g] = frames[g]
    BY <1>6, <2>4
  <2> QED BY <2>3, <2>5
<1>12. WrittenInv'
  <2> SUFFICES ASSUME NEW g \in DOMAIN frames
               PROVE  /\ frames'[g].phase \in {"closing", "closed"} \/ Written(frames'[g].row) =>
                           \A m \in DOMAIN frames'[g].node : frames'[g].node[m] \in Settled
                      /\ Written(frames'[g].row) =>
                           /\ frames'[g].row = "succeeded" <=> OkIn(frames'[g].node)
                           /\ frames'[g].phase \in {"closed", "ended", "aborted"}
                      /\ frames'[g].phase = "closed" => Written(frames'[g].row)
                      /\ frames'[g].phase = "ended" /\ g # 1 => Written(frames'[g].row)
    BY <1>1 DEF WrittenInv
  <2>1. CASE g # f
    <3>1. frames'[g] = frames[g]
      BY <1>6, <2>1
    <3> QED BY <3>1 DEF OutcomeInv, WrittenInv
  <2>2. CASE g = f
    <3>1. ~ Written(frames'[g].row) /\ frames'[g].phase \in {"running", "aborting"}
      BY <1>1, <1>3, <1>5, <2>2
    <3> QED BY <3>1
  <2> QED BY <2>1, <2>2
<1> QED BY <1>8, <1>9, <1>10, <1>11, <1>12 DEF OutcomeInv

(* A run begins for a node that was being started.                         *)
LEMMA OutcomeBegins ==
  ASSUME ChildTypeInv, OutcomeInv, NEW f \in DOMAIN frames, NEW n \in DOMAIN frames[f].node,
         frames[f].phase = "running", frames[f].node[n] = "recording",
         NEW r, NEW ref, Begins(f, n, r, ref)
  PROVE  OutcomeInv'
<1> DEFINE new == Len(frames')
<1>1. /\ DOMAIN frames' = DOMAIN frames \union {new} /\ new \notin DOMAIN frames
      /\ \A g \in DOMAIN frames \ {f} : frames'[g] = frames[g]
      /\ \A g \in DOMAIN frames : /\ frames'[g].parent = frames[g].parent
                                  /\ frames'[g].via = frames[g].via
                                  /\ DOMAIN frames'[g].node = DOMAIN frames[g].node
                                  /\ frames'[g].row = frames[g].row
                                  /\ frames'[g].phase = frames[g].phase
                                  /\ frames'[g].ran = frames[g].ran
      /\ frames'[f].node = [frames[f].node EXCEPT ![n] = "nested"]
      /\ frames'[new] = Begun(f, n, r, ref)
  BY DEF Begins, SameRun
<1>2. /\ frames'[f].node[n] = "nested" /\ frames'[f].ran[n] = "not"
      /\ \A m \in DOMAIN frames[f].node \ {n} : frames'[f].node[m] = frames[f].node[m]
  <2>1. frames[f].ran[n] = "not"
    BY DEF OutcomeInv, BusyInv
  <2> QED BY <1>1, <2>1
<1>3. /\ frames'[new].parent = f /\ frames'[new].via = n /\ frames'[new].phase = "opening"
      /\ frames'[new].row = "none"
      /\ DOMAIN frames'[new].ran = DOMAIN frames'[new].node
      /\ \A m \in DOMAIN frames'[new].node :
           frames'[new].node[m] = "waiting" /\ frames'[new].ran[m] = "not"
  BY <1>1 DEF Begun
<1> HIDE DEF new
<1>4. \A g \in Child : /\ frames[g].parent \in DOMAIN frames
                       /\ frames[g].via \in DOMAIN frames[frames[g].parent].node
                       /\ frames[g].parent # f \/ frames[g].via # n
  <2> TAKE g \in Child
  <2>1. /\ frames[g].parent \in DOMAIN frames
        /\ frames[g].via \in DOMAIN frames[frames[g].parent].node
    BY FrameType DEF ChildTypeInv, FramesOK, Child
  <2>2. frames[frames[g].parent].node[frames[g].via] \in {"ok", "failed", "gone", "nested"}
    BY DEF OutcomeInv, ParentInv
  <2> QED BY <2>1, <2>2
<1>5. 1 \in DOMAIN frames /\ Child' = Child \union {new} /\ new \notin Child
  <2>1. 1 \in DOMAIN frames
    BY FrameType DEF ChildTypeInv
  <2> QED BY <1>1, <2>1 DEF Child
<1>6. \A g \in DOMAIN frames : g # f => frames'[g] = frames[g]
  BY <1>1
<1>7. \A g \in DOMAIN frames : Written(frames[g].row) \/ frames[g].phase \in {"closing", "closed", "ended"} => g # f
  BY DEF OutcomeInv, WrittenInv
<1>8. BusyInv'
  <2> SUFFICES ASSUME NEW g \in DOMAIN frames', NEW m \in DOMAIN frames'[g].node
               PROVE  /\ frames'[g].node[m] \in Busy => frames'[g].phase \in {"running", "aborting"}
                      /\ frames'[g].node[m] = "gone" => frames'[g].phase \in {"aborting", "aborted"}
                      /\ frames'[g].node[m] = "executing" => frames'[g].ran[m] # "not"
                      /\ frames'[g].ran[m] # "not" =>
                           frames'[g].node[m] \in {"executing", "ok", "failed", "gone"}
    BY DEF BusyInv
  <2>1. CASE g = new
    BY <1>3, <2>1, StatusFacts
  <2>2. ASSUME g # new
        PROVE  /\ g \in DOMAIN frames /\ m \in DOMAIN frames[g].node
               /\ frames[g].node[m] \in Busy => frames[g].phase \in {"running", "aborting"}
               /\ frames[g].node[m] = "gone" => frames[g].phase \in {"aborting", "aborted"}
               /\ frames[g].node[m] = "executing" => frames[g].ran[m] # "not"
               /\ frames[g].ran[m] # "not" => frames[g].node[m] \in {"executing", "ok", "failed", "gone"}
    BY <1>1, <2>2 DEF OutcomeInv, BusyInv
  <2>3. CASE g # new /\ g # f
    BY <1>6, <2>2, <2>3
  <2>4. CASE g # new /\ g = f /\ m # n
    BY <1>1, <1>2, <2>2, <2>4
  <2>5. CASE g # new /\ g = f /\ m = n
    BY <1>1, <1>2, <2>5
  <2> QED BY <2>1, <2>3, <2>4, <2>5
<1>9. ParentInv'
  <2> SUFFICES ASSUME NEW g \in Child'
               PROVE  LET e == frames'[g].parent
                          m == frames'[g].via
                      IN  /\ frames'[e].ran[m] = "not"
                          /\ frames'[g].phase = "ended" =>
                               frames'[e].node[m] = IF OkIn(frames'[g].node) THEN "ok" ELSE "failed"
                          /\ frames'[g].phase = "aborted" => frames'[e].node[m] = "gone"
                          /\ frames'[g].phase \notin {"ended", "aborted"} => frames'[e].node[m] = "nested"
    BY DEF ParentInv
  <2>1. CASE g = new
    BY <1>2, <1>3, <2>1
  <2>2. CASE g \in Child
    <3> DEFINE e == frames[g].parent
               m == frames[g].via
    <3>1. frames'[g].parent = e /\ frames'[g].via = m
      BY <1>1, <2>2 DEF Child
    <3>2. frames'[e].ran[m] = frames[e].ran[m] /\ frames'[e].node[m] = frames[e].node[m]
      BY <1>1, <1>2, <1>4, <1>6, <2>2
    <3>3. /\ frames[e].ran[m] = "not"
          /\ frames[g].phase = "ended" => frames[e].node[m] = IF OkIn(frames[g].node) THEN "ok" ELSE "failed"
          /\ frames[g].phase = "aborted" => frames[e].node[m] = "gone"
          /\ frames[g].phase \notin {"ended", "aborted"} => frames[e].node[m] = "nested"
      BY <2>2 DEF OutcomeInv, ParentInv
    <3> HIDE DEF e, m
    <3>4. frames'[g].phase = frames[g].phase
      BY <1>1, <2>2 DEF Child
    <3>5. frames[g].phase = "ended" => frames'[g].node = frames[g].node
      BY <1>6, <2>2 DEF Child
    <3> QED BY <3>1, <3>2, <3>3, <3>4, <3>5
  <2> QED BY <1>5, <2>1, <2>2
<1>10. OnceInv'
  <2> SUFFICES ASSUME NEW g \in Child', NEW h \in Child',
                      frames'[g].parent = frames'[h].parent, frames'[g].via = frames'[h].via
               PROVE  g = h
    BY DEF OnceInv
  <2>1. \A e \in Child : frames'[e].parent = frames[e].parent /\ frames'[e].via = frames[e].via
    BY <1>1 DEF Child
  <2>2. CASE g \in Child /\ h \in Child
    BY <2>1, <2>2 DEF OutcomeInv, OnceInv
  <2>3. CASE g = new /\ h \in Child
    BY <1>3, <1>4, <2>1, <2>3
  <2>4. CASE h = new /\ g \in Child
    BY <1>3, <1>4, <2>1, <2>4
  <2> QED BY <1>5, <2>2, <2>3, <2>4
<1>11. SourceInv'
  <2> SUFFICES ASSUME NEW e \in DOMAIN frames', NEW m \in DOMAIN frames'[e].node,
                      frames'[e].node[m] = "ok", frames'[e].ran[m] = "not"
               PROVE  \E g \in Child' : /\ frames'[g].parent = e /\ frames'[g].via = m
                                        /\ frames'[g].phase = "ended" /\ OkIn(frames'[g].node)
    BY DEF SourceInv
  <2>1. e # new /\ (e # f \/ m # n)
    BY <1>2, <1>3
  <2>2. e \in DOMAIN frames /\ m \in DOMAIN frames[e].node
    BY <1>1, <2>1
  <2>3. frames[e].node[m] = "ok" /\ frames[e].ran[m] = "not"
    BY <1>1, <1>2, <1>6, <2>1, <2>2
  <2>4. PICK g \in Child : /\ frames[g].parent = e /\ frames[g].via = m
                           /\ frames[g].phase = "ended" /\ OkIn(frames[g].node)
    BY <2>2, <2>3 DEF OutcomeInv, SourceInv
  <2>5. frames'[g] = frames[g]
    BY <1>6, <2>4 DEF Child
  <2> QED BY <1>5, <2>4, <2>5
<1>12. WrittenInv'
  <2> SUFFICES ASSUME NEW g \in DOMAIN frames'
               PROVE  /\ frames'[g].phase \in {"closing", "closed"} \/ Written(frames'[g].row) =>
                           \A m \in DOMAIN frames'[g].node : frames'[g].node[m] \in Settled
                      /\ Written(frames'[g].row) =>
                           /\ frames'[g].row = "succeeded" <=> OkIn(frames'[g].node)
                           /\ frames'[g].phase \in {"closed", "ended", "aborted"}
                      /\ frames'[g].phase = "closed" => Written(frames'[g].row)
                      /\ frames'[g].phase = "ended" /\ g # 1 => Written(frames'[g].row)
    BY DEF WrittenInv
  <2>1. CASE g = new
    BY <1>3, <2>1 DEF Written
  <2>2. CASE g \in DOMAIN frames /\ g # f
    <3>1. frames'[g] = frames[g]
      BY <1>6, <2>2
    <3> QED BY <2>2, <3>1 DEF OutcomeInv, WrittenInv
  <2>3. CASE g = f
    <3>1. ~ Written(frames'[g].row) /\ frames'[g].phase = "running"
      BY <1>1, <1>7, <2>3
    <3> QED BY <3>1
  <2> QED BY <1>1, <2>1, <2>2, <2>3
<1> QED BY <1>8, <1>9, <1>10, <1>11, <1>12 DEF OutcomeInv

(* A run comes to another phase, but not yet to its end.                   *)
LEMMA OutcomeAfterPhase ==
  ASSUME ChildTypeInv, OutcomeInv, NEW g \in DOMAIN frames, NEW p, NEW w, NEW q,
         PhaseTo(frames, frames', g, p, w, q),
         g = 1 \/ (p \notin {"ended", "aborted"} /\ frames[g].phase \notin {"ended", "aborted"}),
         \A n \in DOMAIN frames[g].node :
           /\ frames[g].node[n] \in Busy => p \in {"running", "aborting"}
           /\ frames[g].node[n] = "gone" => p \in {"aborting", "aborted"},
         p \in {"closing", "closed"} \/ Written(w) =>
           \A n \in DOMAIN frames[g].node : frames[g].node[n] \in Settled,
         Written(w) => (w = "succeeded" <=> OkIn(frames[g].node)) /\ p \in {"closed", "ended", "aborted"},
         p = "closed" => Written(w)
  PROVE  OutcomeInv'
<1>1. /\ DOMAIN frames' = DOMAIN frames
      /\ \A h \in DOMAIN frames \ {g} : frames'[h] = frames[h]
      /\ \A h \in DOMAIN frames : /\ frames'[h].parent = frames[h].parent
                                  /\ frames'[h].via = frames[h].via
      /\ frames'[g].phase = p /\ frames'[g].row = w
      /\ frames'[g].node = frames[g].node /\ frames'[g].ran = frames[g].ran
  BY DEF PhaseTo, Becomes, SameShape, SameRun
<1>2. \A h \in DOMAIN frames : frames'[h].node = frames[h].node /\ frames'[h].ran = frames[h].ran
  BY <1>1
<1>3. \A h \in DOMAIN frames : h # g => frames'[h] = frames[h]
  BY <1>1
<1>4. Child' = Child
  BY <1>1 DEF Child
<1>5. \A h \in Child : frames[h].parent \in DOMAIN frames /\ h \in DOMAIN frames /\ h # 1
  BY FrameType DEF ChildTypeInv, FramesOK, Child
<1>6. BusyInv'
  <2> SUFFICES ASSUME NEW h \in DOMAIN frames, NEW m \in DOMAIN frames[h].node
               PROVE  /\ frames[h].node[m] \in Busy => frames'[h].phase \in {"running", "aborting"}
                      /\ frames[h].node[m] = "gone" => frames'[h].phase \in {"aborting", "aborted"}
                      /\ frames[h].node[m] = "executing" => frames[h].ran[m] # "not"
                      /\ frames[h].ran[m] # "not" =>
                           frames[h].node[m] \in {"executing", "ok", "failed", "gone"}
    BY <1>1, <1>2 DEF BusyInv
  <2>1. /\ frames[h].node[m] \in Busy => frames[h].phase \in {"running", "aborting"}
        /\ frames[h].node[m] = "gone" => frames[h].phase \in {"aborting", "aborted"}
        /\ frames[h].node[m] = "executing" => frames[h].ran[m] # "not"
        /\ frames[h].ran[m] # "not" => frames[h].node[m] \in {"executing", "ok", "failed", "gone"}
    BY DEF OutcomeInv, BusyInv
  <2>2. CASE h # g
    BY <1>3, <2>1, <2>2
  <2>3. CASE h = g
    BY <1>1, <2>1, <2>3
  <2> QED BY <2>2, <2>3
<1>7. ParentInv'
  <2> SUFFICES ASSUME NEW h \in Child
               PROVE  LET e == frames'[h].parent
                          m == frames'[h].via
                      IN  /\ frames'[e].ran[m] = "not"
                          /\ frames'[h].phase = "ended" =>
                               frames'[e].node[m] = IF OkIn(frames'[h].node) THEN "ok" ELSE "failed"
                          /\ frames'[h].phase = "aborted" => frames'[e].node[m] = "gone"
                          /\ frames'[h].phase \notin {"ended", "aborted"} => frames'[e].node[m] = "nested"
    BY <1>4 DEF ParentInv
  <2> DEFINE e == frames[h].parent
             m == frames[h].via
  <2>1. /\ frames'[h].parent = e /\ frames'[h].via = m /\ frames'[h].node = frames[h].node
        /\ frames'[e].ran = frames[e].ran /\ frames'[e].node = frames[e].node
    BY <1>1, <1>2, <1>5
  <2>2. /\ frames[e].ran[m] = "not"
        /\ frames[h].phase = "ended" => frames[e].node[m] = IF OkIn(frames[h].node) THEN "ok" ELSE "failed"
        /\ frames[h].phase = "aborted" => frames[e].node[m] = "gone"
        /\ frames[h].phase \notin {"ended", "aborted"} => frames[e].node[m] = "nested"
    BY DEF OutcomeInv, ParentInv
  <2> HIDE DEF e, m
  <2>3. \/ frames'[h].phase = frames[h].phase
        \/ frames'[h].phase \notin {"ended", "aborted"} /\ frames[h].phase \notin {"ended", "aborted"}
    BY <1>1, <1>3, <1>5
  <2> QED BY <2>1, <2>2, <2>3
<1>8. OnceInv'
  BY <1>1, <1>4, <1>5 DEF OutcomeInv, OnceInv
<1>9. SourceInv'
  <2> SUFFICES ASSUME NEW e \in DOMAIN frames, NEW m \in DOMAIN frames[e].node,
                      frames[e].node[m] = "ok", frames[e].ran[m] = "not"
               PROVE  \E h \in Child : /\ frames'[h].parent = e /\ frames'[h].via = m
                                       /\ frames'[h].phase = "ended" /\ OkIn(frames'[h].node)
    BY <1>1, <1>2, <1>4 DEF SourceInv
  <2>1. PICK h \in Child : /\ frames[h].parent = e /\ frames[h].via = m
                           /\ frames[h].phase = "ended" /\ OkIn(frames[h].node)
    BY DEF OutcomeInv, SourceInv
  <2>2. h # g
    BY <1>5, <2>1
  <2>3. frames'[h] = frames[h]
    BY <1>3, <1>5, <2>2
  <2> QED BY <2>1, <2>3
<1>10. WrittenInv'
  <2> SUFFICES ASSUME NEW h \in DOMAIN frames
               PROVE  /\ frames'[h].phase \in {"closing", "closed"} \/ Written(frames'[h].row) =>
                           \A m \in DOMAIN frames[h].node : frames[h].node[m] \in Settled
                      /\ Written(frames'[h].row) =>
                           /\ frames'[h].row = "succeeded" <=> OkIn(frames[h].node)
                           /\ frames'[h].phase \in {"closed", "ended", "aborted"}
                      /\ frames'[h].phase = "closed" => Written(frames'[h].row)
                      /\ frames'[h].phase = "ended" /\ h # 1 => Written(frames'[h].row)
    BY <1>1, <1>2 DEF WrittenInv
  <2>1. CASE h # g
    <3>1. frames'[h] = frames[h]
      BY <1>3, <2>1
    <3> QED BY <3>1 DEF OutcomeInv, WrittenInv
  <2>2. CASE h = g
    BY <1>1, <2>2
  <2> QED BY <2>1, <2>2
<1> QED BY <1>6, <1>7, <1>8, <1>9, <1>10 DEF OutcomeInv

(* A run ends: it is broken off, or it delivers.                           *)
LEMMA OutcomeAfterEnd ==
  ASSUME ChildTypeInv, OutcomeInv, NEW g \in DOMAIN frames, NEW p, NEW s, NEW up,
         EndsTo(g, p, s, up),
         frames[g].phase \notin {"ended", "aborted"},
         \A n \in DOMAIN frames[g].node : frames[g].node[n] \notin Busy,
         \/ p = "aborted" /\ s = "gone" /\ up = UpAborting(g)
         \/ /\ g # 1 /\ p = "ended" /\ s = (IF OkIn(frames[g].node) THEN "ok" ELSE "failed")
            /\ up = "running" /\ frames[g].phase = "closed"
            /\ frames[frames[g].parent].phase = "running"
  PROVE  OutcomeInv'
<1> DEFINE f == frames[g].parent
           v == frames[g].via
<1>1. /\ DOMAIN frames' = DOMAIN frames
      /\ \A h \in DOMAIN frames : /\ frames'[h].parent = frames[h].parent
                                  /\ frames'[h].via = frames[h].via
                                  /\ DOMAIN frames'[h].node = DOMAIN frames[h].node
      /\ frames'[g].phase = p /\ frames'[g].row = frames[g].row
      /\ frames'[g].node = frames[g].node /\ frames'[g].ran = frames[g].ran
  BY DEF EndsTo, SameShape, SameRun
<1>2. g # 1 => /\ f \in DOMAIN frames /\ v \in DOMAIN frames[f].node /\ f # g
               /\ frames'[f].phase = up /\ frames'[f].row = frames[f].row
               /\ frames'[f].ran = frames[f].ran
               /\ frames'[f].node = [frames[f].node EXCEPT ![v] = s]
  <2>1. g \in Nat
    BY FrameType DEF ChildTypeInv, FramesOK
  <2> QED BY <2>1 DEF EndsTo
<1>3. \A h \in DOMAIN frames : h # g /\ (g = 1 \/ h # f) => frames'[h] = frames[h]
  BY DEF EndsTo
<1>4. g # 1 => /\ frames[f].ran[v] = "not" /\ frames[f].node[v] = "nested"
               /\ frames[f].phase \in {"running", "aborting"} /\ ~ Written(frames[f].row)
  <2> SUFFICES ASSUME g # 1
               PROVE  /\ frames[f].ran[v] = "not" /\ frames[f].node[v] = "nested"
                      /\ frames[f].phase \in {"running", "aborting"} /\ ~ Written(frames[f].row)
    OBVIOUS
  <2>1. frames[f].ran[v] = "not" /\ frames[f].node[v] = "nested"
    BY DEF OutcomeInv, ParentInv, Child
  <2>2. "nested" \in Busy
    BY StatusFacts
  <2>3. frames[f].phase \in {"running", "aborting"}
    BY <1>2, <2>1, <2>2 DEF OutcomeInv, BusyInv
  <2>4. ~ Written(frames[f].row)
    BY <1>2, <2>3 DEF OutcomeInv, WrittenInv
  <2> QED BY <2>1, <2>3, <2>4
<1>5. g # 1 => up \in {"running", "aborting"} /\ (p = "aborted" => up = "aborting")
  BY <1>4 DEF UpAborting
<1>6. Child' = Child /\ \A h \in Child : h \in DOMAIN frames /\ h # 1 /\ frames[h].parent \in DOMAIN frames
  BY <1>1, FrameType DEF Child, ChildTypeInv, FramesOK
<1>7. /\ p \in {"ended", "aborted"}
      /\ p = "ended" => frames[g].phase = "closed" /\ g # 1 /\ frames[f].phase = "running"
      /\ p = "ended" => s = IF OkIn(frames[g].node) THEN "ok" ELSE "failed"
      /\ p = "aborted" => s = "gone"
      /\ s \in {"gone", "ok", "failed"}
  OBVIOUS
<1>8. g # 1 => /\ frames'[f].node[v] = s
               /\ \A m \in DOMAIN frames[f].node \ {v} : frames'[f].node[m] = frames[f].node[m]
  BY <1>2
<1> HIDE DEF f, v
<1>9. BusyInv'
  <2> SUFFICES ASSUME NEW h \in DOMAIN frames, NEW m \in DOMAIN frames[h].node
               PROVE  /\ frames'[h].node[m] \in Busy => frames'[h].phase \in {"running", "aborting"}
                      /\ frames'[h].node[m] = "gone" => frames'[h].phase \in {"aborting", "aborted"}
                      /\ frames'[h].node[m] = "executing" => frames'[h].ran[m] # "not"
                      /\ frames'[h].ran[m] # "not" =>
                           frames'[h].node[m] \in {"executing", "ok", "failed", "gone"}
    BY <1>1 DEF BusyInv
  <2>1. /\ frames[h].node[m] \in Busy => frames[h].phase \in {"running", "aborting"}
        /\ frames[h].node[m] = "gone" => frames[h].phase \in {"aborting", "aborted"}
        /\ frames[h].node[m] = "executing" => frames[h].ran[m] # "not"
        /\ frames[h].ran[m] # "not" => frames[h].node[m] \in {"executing", "ok", "failed", "gone"}
    BY DEF OutcomeInv, BusyInv
  <2>2. CASE h # g /\ (g = 1 \/ h # f)
    BY <1>3, <2>1, <2>2
  <2>3. CASE h = g
    BY <1>1, <1>7, <2>1, <2>3
  <2>4. CASE g # 1 /\ h = f /\ m # v
    BY <1>2, <1>4, <1>5, <1>7, <1>8, <2>1, <2>4
  <2>5. CASE g # 1 /\ h = f /\ m = v
    BY <1>2, <1>4, <1>5, <1>7, <1>8, <2>5, StatusFacts
  <2> QED BY <2>2, <2>3, <2>4, <2>5
<1>10. ParentInv'
  <2> SUFFICES ASSUME NEW h \in Child
               PROVE  LET e == frames'[h].parent
                          m == frames'[h].via
                      IN  /\ frames'[e].ran[m] = "not"
                          /\ frames'[h].phase = "ended" =>
                               frames'[e].node[m] = IF OkIn(frames'[h].node) THEN "ok" ELSE "failed"
                          /\ frames'[h].phase = "aborted" => frames'[e].node[m] = "gone"
                          /\ frames'[h].phase \notin {"ended", "aborted"} => frames'[e].node[m] = "nested"
    BY <1>6 DEF ParentInv
  <2> DEFINE e == frames[h].parent
             m == frames[h].via
  <2>1. /\ frames'[h].parent = e /\ frames'[h].via = m /\ e \in DOMAIN frames
        /\ m \in DOMAIN frames[e].node
    <3>1. m \in DOMAIN frames[e].node
      BY <1>6, FrameType DEF ChildTypeInv, FramesOK
    <3> QED BY <1>1, <1>6, <3>1
  <2>2. /\ frames[e].ran[m] = "not"
        /\ frames[h].phase = "ended" => frames[e].node[m] = IF OkIn(frames[h].node) THEN "ok" ELSE "failed"
        /\ frames[h].phase = "aborted" => frames[e].node[m] = "gone"
        /\ frames[h].phase \notin {"ended", "aborted"} => frames[e].node[m] = "nested"
    BY DEF OutcomeInv, ParentInv
  <2>3. CASE h = g
    <3>1. e = f /\ m = v /\ g # 1
      BY <1>6, <2>3 DEF f, v
    <3>2. /\ frames'[f].ran[v] = "not" /\ frames'[f].node[v] = s
          /\ frames'[g].phase = p /\ frames'[g].node = frames[g].node
      BY <1>1, <1>2, <1>4, <1>8, <3>1
    <3> QED BY <1>7, <2>1, <2>3, <3>1, <3>2
  <2>4. CASE h # g
    <3>1. g # 1 => g \in Child /\ (e # f \/ m # v)
      BY <2>4 DEF OutcomeInv, OnceInv, Child, f, v
    <3> HIDE DEF e, m
    <3>2. frames'[e].ran[m] = frames[e].ran[m] /\ frames'[e].node[m] = frames[e].node[m]
      <4>1. CASE e = g
        BY <1>1, <4>1
      <4>2. CASE e # g /\ (g = 1 \/ e # f)
        BY <1>3, <2>1, <4>2
      <4>3. CASE g # 1 /\ e = f
        BY <1>2, <1>8, <2>1, <3>1, <4>3
      <4> QED BY <4>1, <4>2, <4>3
    <3>3. CASE g # 1 /\ h = f
      <4>1. frames'[h].phase \notin {"ended", "aborted"} /\ frames[h].phase \notin {"ended", "aborted"}
        BY <1>2, <1>4, <1>5, <3>3
      <4> QED BY <2>1, <2>2, <3>2, <4>1
    <3>4. CASE g = 1 \/ h # f
      <4>1. frames'[h] = frames[h]
        BY <1>3, <1>6, <2>4, <3>4
      <4> QED BY <2>1, <2>2, <3>2, <4>1
    <3> QED BY <3>3, <3>4
  <2> QED BY <2>3, <2>4
<1>11. OnceInv'
  BY <1>1, <1>6 DEF OutcomeInv, OnceInv
<1>12. SourceInv'
  <2> SUFFICES ASSUME NEW e \in DOMAIN frames, NEW m \in DOMAIN frames[e].node,
                      frames'[e].node[m] = "ok", frames'[e].ran[m] = "not"
               PROVE  \E h \in Child : /\ frames'[h].parent = e /\ frames'[h].via = m
                                       /\ frames'[h].phase = "ended" /\ OkIn(frames'[h].node)
    BY <1>1, <1>6 DEF SourceInv
  <2>1. CASE g # 1 /\ e = f /\ m = v
    <3>1. s = "ok" /\ p = "ended" /\ OkIn(frames[g].node)
      BY <1>7, <1>8, <2>1
    <3>2. g \in Child /\ frames'[g].parent = f /\ frames'[g].via = v
      BY <1>1, <2>1 DEF Child, f, v
    <3> QED BY <1>1, <2>1, <3>1, <3>2
  <2>2. CASE ~ (g # 1 /\ e = f /\ m = v)
    <3>1. frames[e].node[m] = "ok" /\ frames[e].ran[m] = "not"
      <4>1. CASE e = g
        BY <1>1, <4>1
      <4>2. CASE e # g /\ (g = 1 \/ e # f)
        BY <1>3, <4>2
      <4>3. CASE g # 1 /\ e = f
        BY <1>2, <1>8, <2>2, <4>3
      <4> QED BY <4>1, <4>2, <4>3
    <3>2. PICK h \in Child : /\ frames[h].parent = e /\ frames[h].via = m
                             /\ frames[h].phase = "ended" /\ OkIn(frames[h].node)
      BY <3>1 DEF OutcomeInv, SourceInv
    <3>3. h # g /\ (g = 1 \/ h # f)
      BY <1>4, <3>2
    <3>4. frames'[h] = frames[h]
      BY <1>3, <1>6, <3>3
    <3> QED BY <3>2, <3>4
  <2> QED BY <2>1, <2>2
<1>13. WrittenInv'
  <2> SUFFICES ASSUME NEW h \in DOMAIN frames
               PROVE  /\ frames'[h].phase \in {"closing", "closed"} \/ Written(frames'[h].row) =>
                           \A m \in DOMAIN frames'[h].node : frames'[h].node[m] \in Settled
                      /\ Written(frames'[h].row) =>
                           /\ frames'[h].row = "succeeded" <=> OkIn(frames'[h].node)
                           /\ frames'[h].phase \in {"closed", "ended", "aborted"}
                      /\ frames'[h].phase = "closed" => Written(frames'[h].row)
                      /\ frames'[h].phase = "ended" /\ h # 1 => Written(frames'[h].row)
    BY <1>1 DEF WrittenInv
  <2>1. CASE h = g
    <3>1. /\ Written(frames[g].row) =>
               /\ \A m \in DOMAIN frames[g].node : frames[g].node[m] \in Settled
               /\ frames[g].row = "succeeded" <=> OkIn(frames[g].node)
          /\ frames[g].phase = "closed" => Written(frames[g].row)
      BY DEF OutcomeInv, WrittenInv
    <3> QED BY <1>1, <1>7, <2>1, <3>1
  <2>2. CASE g # 1 /\ h = f
    <3>1. ~ Written(frames'[h].row) /\ frames'[h].phase \in {"running", "aborting"}
      BY <1>2, <1>4, <1>5, <2>2
    <3> QED BY <3>1
  <2>3. CASE h # g /\ (g = 1 \/ h # f)
    <3>1. frames'[h] = frames[h]
      BY <1>3, <2>3
    <3> QED BY <3>1 DEF OutcomeInv, WrittenInv
  <2> QED BY <2>1, <2>2, <2>3
<1> QED BY <1>9, <1>10, <1>11, <1>12, <1>13 DEF OutcomeInv

(* The steps of nodes.                                                     *)
LEMMA OutcomeNodeSteps ==
  ASSUME DagAssumption, BoundAssumption, ProgramAssumption,
         ChildTypeInv, OutcomeInv, NEW f \in Frame, NEW n \in Nodes(f),
         NodeSteps(f, n) \/ NodeRaises(f, n)
  PROVE  OutcomeInv'
<1>1. /\ f \in DOMAIN frames /\ n \in DOMAIN frames[f].node
      /\ n \in DOMAIN frames[f].ran /\ frames[f].ran \in [DOMAIN frames[f].ran -> Ran]
      /\ DOMAIN frames[f].ran = DOMAIN frames[f].node
  BY FrameType DEF ChildTypeInv, FramesOK, Frame, Nodes
<1>2. /\ frames[f].node[n] \in {"waiting", "recording"} => frames[f].ran[n] = "not"
      /\ frames[f].node[n] = "executing" => frames[f].ran[n] # "not"
  BY <1>1 DEF OutcomeInv, BusyInv
<1>3. {"ok", "failed", "refused"} \subseteq Status
  BY DEF Status, Settled
<1>4. ASSUME NEW s \in {"recording", "ok", "failed", "refused", "gone"}, NodeTo(f, n, s),
             frames[f].phase \in {"running", "aborting"},
             frames[f].node[n] \in {"waiting", "recording", "executing"},
             s = "ok" => frames[f].node[n] = "executing",
             frames[f].node[n] = "executing" => s \in {"ok", "failed", "gone"},
             s = "gone" => frames[f].phase = "aborting"
      PROVE  OutcomeInv'
  <2>1. /\ s \in {"executing", "ok"} => frames[f].ran[n] # "not"
        /\ frames[f].ran[n] # "not" => s \in {"executing", "ok", "failed", "gone"}
    BY <1>2, <1>4
  <2>2. RanApart(f, n, frames[f].ran)
    BY DEF RanApart
  <2>3. Becomes(frames, frames', f, frames[f].phase, frames[f].row, frames[f].previous,
                [frames[f].node EXCEPT ![n] = s], frames[f].ran)
    BY <1>4 DEF NodeTo
  <2>4. s \in {"recording", "executing", "ok", "failed", "refused", "gone"}
        /\ frames[f].phase \in {frames[f].phase, "aborting"}
    BY <1>4
  <2> QED BY <1>1, <1>4, <2>1, <2>2, <2>3, <2>4, OutcomeAfterNode
<1>5. CASE StartNode(f, n)
  <2>1. frames[f].phase = "running" /\ frames[f].node[n] = "waiting" /\ NodeTo(f, n, "recording")
    BY <1>5, NodeMoves DEF StartNode
  <2> QED BY <1>4, <2>1
<1>6. CASE FailNode(f, n)
  <2>1. frames[f].phase = "running" /\ frames[f].node[n] = "waiting" /\ NodeTo(f, n, "failed")
    BY <1>6, NodeMoves DEF FailNode
  <2> QED BY <1>4, <2>1
<1>7. CASE ExecuteNested(f, n)
  <2>1. /\ frames[f].phase = "running" /\ frames[f].node[n] = "recording"
        /\ NodeTo(f, n, "refused") \/ Begins(f, n, f, Config(f, n).ref)
    BY <1>3, <1>7, NodeMoves DEF ExecuteNested
  <2> QED BY <1>1, <1>4, <2>1, OutcomeBegins
<1>8. CASE ExecuteConfig(f, n)
  <2>1. /\ frames[f].phase = "running" /\ frames[f].node[n] = "recording"
        /\ NodeTo(f, n, "refused") \/ Begins(f, n, 1, Found(f, n).ref)
    BY <1>3, <1>8, NodeMoves DEF ExecuteConfig
  <2> QED BY <1>1, <1>4, <2>1, OutcomeBegins
<1>9. CASE ExecuteUnknown(f, n)
  <2>1. /\ frames[f].phase = "running" /\ frames[f].node[n] = "recording"
        /\ NodeTo(f, n, "failed")
    BY <1>3, <1>9, NodeMoves DEF ExecuteUnknown
  <2> QED BY <1>4, <2>1
<1>10. CASE ExecuteHandler(f, n)
  <2> DEFINE u == [frames[f].ran EXCEPT ![n] = FoundIn(n)]
  <2>1. frames[f].phase = "running" /\ frames[f].node[n] = "recording"
    BY <1>10 DEF ExecuteHandler
  <2>2. FoundIn(n) # "not"
    BY DEF FoundIn, DagAssumption, ChildTypeInv
  <2>3. u[n] # "not" /\ RanApart(f, n, u)
    BY <1>1, <2>2 DEF RanApart
  <2>4. Becomes(frames, frames', f, frames[f].phase, frames[f].row, frames[f].previous,
                [frames[f].node EXCEPT ![n] = "executing"], u)
    BY <1>10, NodeMoves
  <2> HIDE DEF u
  <2>5. /\ frames[f].phase \in {frames[f].phase, "aborting"}
        /\ frames[f].phase \in {"running", "aborting"}
        /\ frames[f].node[n] \in {"waiting", "recording", "executing"}
        /\ "executing" \in {"recording", "executing", "ok", "failed", "refused", "gone"}
        /\ "executing" \in {"executing", "ok", "failed", "gone"}
    BY <2>1
  <2> QED BY <1>1, <2>1, <2>3, <2>4, <2>5, OutcomeAfterNode
<1>11. CASE HandlerEnds(f, n)
  <2>1. /\ frames[f].phase = "running" /\ frames[f].node[n] = "executing"
        /\ NodeTo(f, n, "ok") \/ NodeTo(f, n, "failed")
    BY <1>3, <1>11, NodeMoves DEF HandlerEnds
  <2> QED BY <1>4, <2>1
<1>12. CASE NodeCancelled(f, n)
  <2>1. /\ frames[f].phase = "aborting" /\ frames[f].node[n] \in {"recording", "executing"}
        /\ NodeTo(f, n, "gone")
    BY <1>12, NodeMoves DEF NodeCancelled
  <2> QED BY <1>4, <2>1
<1>13. CASE NodeRaises(f, n)
  <2>1. /\ frames[f].phase = "running" /\ frames[f].node[n] \in {"recording", "executing"}
        /\ Becomes(frames, frames', f, "aborting", frames[f].row, frames[f].previous,
                   [frames[f].node EXCEPT ![n] = "gone"], frames[f].ran)
    BY <1>13, NodeMoves DEF NodeRaises
  <2>2. RanApart(f, n, frames[f].ran)
    BY DEF RanApart
  <2>3. /\ frames[f].node[n] \in {"waiting", "recording", "executing"}
        /\ frames[f].phase \in {"running", "aborting"}
        /\ "aborting" \in {frames[f].phase, "aborting"}
        /\ "gone" \in {"recording", "executing", "ok", "failed", "refused", "gone"}
        /\ "gone" \in {"executing", "ok", "failed", "gone"}
    BY <2>1
  <2> QED BY <1>1, <2>1, <2>2, <2>3, OutcomeAfterNode
<1> QED BY <1>5, <1>6, <1>7, <1>8, <1>9, <1>10, <1>11, <1>12, <1>13 DEF NodeSteps

(* The steps of runs.                                                      *)
LEMMA OutcomeRunSteps ==
  ASSUME BoundAssumption, ProgramAssumption,
         ChildTypeInv, OutcomeInv, NEW g \in Frame,
         RunSteps(g) \/ LifecycleRaises(g) \/ (g = 1 /\ HardStop)
  PROVE  OutcomeInv'
<1>1. g \in DOMAIN frames /\ Nodes(g) = DOMAIN frames[g].node
  BY DEF Frame, Nodes
<1>2. frames[g].phase \in {"opening", "opened", "closing", "closed"} => g # 1
  <2>1. g = 1 => frames[g].phase \in RootPhase
    BY <1>1 DEF ChildTypeInv, FramesOK
  <2> QED BY <2>1 DEF RootPhase
<1>3. \A n \in DOMAIN frames[g].node :
        /\ frames[g].node[n] \in Busy => frames[g].phase \in {"running", "aborting"}
        /\ frames[g].node[n] = "gone" => frames[g].phase \in {"aborting", "aborted"}
  BY <1>1 DEF OutcomeInv, BusyInv
<1>4. /\ frames[g].phase \in {"closing", "closed"} \/ Written(frames[g].row) =>
           \A n \in DOMAIN frames[g].node : frames[g].node[n] \in Settled
      /\ Written(frames[g].row) => /\ frames[g].row = "succeeded" <=> OkIn(frames[g].node)
                                   /\ frames[g].phase \in {"closed", "ended", "aborted"}
      /\ frames[g].phase = "closed" => Written(frames[g].row)
  BY <1>1 DEF OutcomeInv, WrittenInv
<1>5. ResultOk(g) <=> OkIn(frames[g].node)
  BY DEF ResultOk, OkIn, Nodes
<1>6. ASSUME EndsTo(g, "aborted", "gone", UpAborting(g)),
             frames[g].phase \notin {"ended", "aborted"},
             frames[g].phase \in {"running", "aborting"} => Idle(g)
      PROVE  OutcomeInv'
  <2>1. \A n \in DOMAIN frames[g].node : frames[g].node[n] \notin Busy
    BY <1>1, <1>3, <1>6 DEF Idle
  <2> QED BY <1>1, <1>6, <2>1, OutcomeAfterEnd
<1>7. CASE OpenRow(g)
  <2>1. /\ frames[g].phase = "opening"
        /\ PhaseTo(frames, frames', g, "opened", "running", frames[g].previous)
    BY <1>7, RunMoves DEF OpenRow
  <2>2. ~ Written("running")
    BY DEF Written
  <2> QED BY <1>1, <1>3, <2>1, <2>2, OutcomeAfterPhase
<1>8. CASE EnterRun(g)
  <2>1. /\ frames[g].phase = "opened"
        /\ PhaseTo(frames, frames', g, "running", frames[g].row, instances)
    BY <1>8, RunMoves DEF EnterRun
  <2> QED BY <1>1, <1>3, <1>4, <2>1, OutcomeAfterPhase
<1>9. CASE LeaveRun(g)
  <2> DEFINE p == IF g = 1 THEN "ended" ELSE "closing"
  <2>1. /\ frames[g].phase = "running" /\ Idle(g)
        /\ g = 1 \/ \A n \in DOMAIN frames[g].node : frames[g].node[n] \in Settled
        /\ PhaseTo(frames, frames', g, p, frames[g].row, frames[g].previous)
    BY <1>1, <1>9, RunMoves DEF LeaveRun
  <2>2. \A n \in DOMAIN frames[g].node :
          /\ frames[g].node[n] \in Busy => p \in {"running", "aborting"}
          /\ frames[g].node[n] = "gone" => p \in {"aborting", "aborted"}
    BY <1>1, <1>3, <2>1 DEF Idle
  <2>3. /\ p # "closed"
        /\ g = 1 \/ (p \notin {"ended", "aborted"} /\ frames[g].phase \notin {"ended", "aborted"})
        /\ p \in {"closing", "closed"} => g # 1
        /\ ~ Written(frames[g].row)
    BY <1>4, <2>1
  <2> HIDE DEF p
  <2> QED BY <1>1, <2>1, <2>2, <2>3, OutcomeAfterPhase
<1>10. CASE CloseRow(g)
  <2>1. /\ frames[g].phase = "closing"
        /\ PhaseTo(frames, frames', g, "closed", Result(g), frames[g].previous)
    BY <1>10, RunMoves DEF CloseRow
  <2>2. /\ Written(Result(g))
        /\ Result(g) = "succeeded" <=> OkIn(frames[g].node)
    BY <1>5 DEF Written, Result
  <2> QED BY <1>1, <1>3, <1>4, <2>1, <2>2, OutcomeAfterPhase
<1>11. CASE Delivers(g)
  <2> DEFINE s == IF OkIn(frames[g].node) THEN "ok" ELSE "failed"
  <2>1. /\ g # 1 /\ frames[g].phase = "closed" /\ frames[frames[g].parent].phase = "running"
        /\ EndsTo(g, "ended", s, "running")
    BY <1>5, <1>11, DeliverMoves
  <2>2. \A n \in DOMAIN frames[g].node : frames[g].node[n] \notin Busy
    BY <1>3, <2>1
  <2> QED BY <1>1, <2>1, <2>2, OutcomeAfterEnd
<1>12. CASE ChildCancelled(g)
  <2>1. CASE /\ frames[g].phase = "running" /\ g > 1
             /\ PhaseTo(frames, frames', g, "aborting", frames[g].row, frames[g].previous)
    <3>1. ~ Written(frames[g].row)
      BY <1>4, <2>1
    <3> QED BY <1>1, <1>3, <2>1, <3>1, OutcomeAfterPhase
  <2>2. CASE /\ frames[g].phase \in {"opening", "opened", "closing", "closed"}
             /\ EndsTo(g, "aborted", "gone", UpAborting(g))
    BY <1>6, <2>2
  <2> QED BY <1>12, <2>1, <2>2, LifecycleMoves
<1>13. CASE AbortEnds(g)
  <2>1. frames[g].phase = "aborting" /\ Idle(g)
    BY <1>13 DEF AbortEnds
  <2> QED BY <1>6, <1>13, <2>1, LifecycleMoves
<1>14. CASE LifecycleRaises(g)
  <2>1. frames[g].phase \in {"opening", "closing"}
    BY <1>14 DEF LifecycleRaises
  <2> QED BY <1>6, <1>14, <2>1, LifecycleMoves
<1>15. CASE g = 1 /\ HardStop
  <2>1. /\ g = 1 /\ frames[g].phase = "running"
        /\ PhaseTo(frames, frames', g, "aborting", frames[g].row, frames[g].previous)
    BY <1>15, RunMoves DEF HardStop
  <2>2. ~ Written(frames[g].row)
    BY <1>4, <2>1
  <2> QED BY <1>1, <1>3, <2>1, <2>2, OutcomeAfterPhase
<1> QED BY <1>7, <1>8, <1>9, <1>10, <1>11, <1>12, <1>13, <1>14, <1>15 DEF RunSteps

LEMMA OutcomeFirst ==
  ASSUME NestedInit
  PROVE  OutcomeInv
<1>1. /\ DOMAIN frames = {1} /\ frames[1].phase = "running" /\ frames[1].row = "none"
      /\ \A n \in DOMAIN frames[1].node : frames[1].node[n] = "waiting" /\ frames[1].ran[n] = "not"
  BY DEF NestedInit, NewFrame
<1>2. Child = {} /\ ~ Written("none")
  BY <1>1 DEF Child, Written
<1>3. "waiting" \notin Busy
  BY DEF Busy
<1> QED BY <1>1, <1>2, <1>3 DEF OutcomeInv, BusyInv, ParentInv, OnceInv, SourceInv, WrittenInv

THEOREM ChildOutcomeInv ==
  ASSUME DagAssumption, BoundAssumption, ProgramAssumption
  PROVE  NestedSpec => []OutcomeInv
<1>1. NestedInit => OutcomeInv
  BY OutcomeFirst
<1>2. ASSUME ChildTypeInv, OutcomeInv, [NestedNext]_nestedVars PROVE OutcomeInv'
  <2>1. 1 \in Frame
    BY <1>2, FrameType DEF ChildTypeInv, Frame, FramesOK
  <2>2. frames' = frames => OutcomeInv'
    BY <1>2 DEF OutcomeInv, BusyInv, ParentInv, OnceInv, SourceInv, WrittenInv, Child
  <2>3. Stop \/ UNCHANGED nestedVars => frames' = frames
    BY DEF Stop, nestedVars
  <2>4. HardStop => OutcomeInv'
    BY <1>2, <2>1, OutcomeRunSteps
  <2>5. \A f \in Frame : RunSteps(f) \/ LifecycleRaises(f) => OutcomeInv'
    BY <1>2, OutcomeRunSteps
  <2>6. \A f \in Frame : \A n \in Nodes(f) :
          NodeSteps(f, n) \/ NodeRaises(f, n) => OutcomeInv'
    BY <1>2, OutcomeNodeSteps
  <2> QED BY <1>2, <2>2, <2>3, <2>4, <2>5, <2>6 DEF NestedNext, Steps
<1> QED BY <1>1, <1>2, ChildTypeOK, PTL DEF NestedSpec

(* The runs from a run up to the root, one by one.                         *)
IsLine(up) ==
  up = [g \in 0 .. Len(frames) |-> IF g = 0 THEN {} ELSE {g} \union up[frames[g].parent]]

LEMMA LineExists ==
  ASSUME ChildTypeInv
  PROVE  \E up : IsLine(up)
<1> DEFINE Step(up, g) == IF g = 0 THEN {} ELSE {g} \union up[frames[g].parent]
           P == {n \in Nat : n <= Len(frames) => \E up : up = [g \in 0 .. n |-> Step(up, g)]}
<1>a. /\ Len(frames) \in Nat
      /\ \A g \in 1 .. Len(frames) : frames[g].parent \in 0 .. g - 1
  BY FrameType DEF ChildTypeInv, FramesOK
<1>1. 0 \in P
  <2>1. [g \in 0 .. 0 |-> {}] = [g \in 0 .. 0 |-> Step([h \in 0 .. 0 |-> {}], g)]
    OBVIOUS
  <2> QED BY <2>1
<1>2. ASSUME NEW n \in Nat, n \in P PROVE n + 1 \in P
  <2> SUFFICES ASSUME n + 1 <= Len(frames)
               PROVE  \E up : up = [g \in 0 .. n + 1 |-> Step(up, g)]
    OBVIOUS
  <2>1. PICK up : up = [g \in 0 .. n |-> Step(up, g)]
    BY <1>2, <1>a
  <2> DEFINE new == [g \in 0 .. n + 1 |-> IF g = n + 1 THEN Step(up, n + 1) ELSE up[g]]
  <2>2. (\A g \in 0 .. n : new[g] = up[g]) /\ new[n + 1] = Step(up, n + 1)
    OBVIOUS
  <2>3. \A g \in 0 .. n : up[g] = Step(up, g)
    BY <2>1
  <2>4. DOMAIN new = 0 .. n + 1 /\ new = [g \in 0 .. n + 1 |-> new[g]]
    OBVIOUS
  <2> HIDE DEF new
  <2>5. \A g \in 0 .. n + 1 : new[g] = Step(new, g)
    <3> TAKE g \in 0 .. n + 1
    <3>1. CASE g = 0
      <4>1. 0 \in 0 .. n
        OBVIOUS
      <4>2. new[0] = up[0] /\ up[0] = {}
        BY <2>2, <2>3, <4>1
      <4> QED BY <3>1, <4>2
    <3>2. CASE g # 0
      <4>1. frames[g].parent \in 0 .. n
        BY <1>a, <3>2
      <4>2. new[frames[g].parent] = up[frames[g].parent]
        BY <2>2, <4>1
      <4>3. new[g] = Step(up, g)
        <5>1. g \in 0 .. n \/ g = n + 1
          OBVIOUS
        <5> HIDE DEF Step
        <5> QED BY <2>2, <2>3, <5>1
      <4> QED BY <3>2, <4>2, <4>3
    <3> QED BY <3>1, <3>2
  <2> HIDE DEF Step
  <2>6. new = [g \in 0 .. n + 1 |-> Step(new, g)]
    BY <2>4, <2>5
  <2> QED BY <2>6
<1>3. Len(frames) \in P
  <2> HIDE DEF P
  <2> QED BY <1>1, <1>2, <1>a, Induction
<1>4. \E up : up = [g \in 0 .. Len(frames) |-> Step(up, g)]
  BY <1>3
<1> QED BY <1>4, Zenon DEF IsLine

LEMMA LineFacts ==
  ASSUME ChildTypeInv
  PROVE  /\ Line(1) = {1}
         /\ \A f \in Child : Line(f) = {f} \union Line(frames[f].parent)
<1> DEFINE W == CHOOSE up : IsLine(up)
<1>1. \A f : Line(f) = W[f]
  BY Zenon DEF Line, IsLine
<1>2. W = [g \in 0 .. Len(frames) |-> IF g = 0 THEN {} ELSE {g} \union W[frames[g].parent]]
  <2>1. IsLine(W)
    BY LineExists, Zenon
  <2> QED BY <2>1, Zenon DEF IsLine
<1> HIDE DEF W
<1>3. /\ W[0] = {}
      /\ \A g \in 1 .. Len(frames) : W[g] = {g} \union W[frames[g].parent]
  <2>1. Len(frames) \in Nat
    BY DEF ChildTypeInv, FramesOK
  <2>2. \A g \in 0 .. Len(frames) : W[g] = IF g = 0 THEN {} ELSE {g} \union W[frames[g].parent]
    BY <1>2
  <2>3. 0 \in 0 .. Len(frames) /\ \A g \in 1 .. Len(frames) : g \in 0 .. Len(frames) /\ g # 0
    BY <2>1
  <2> QED BY <2>2, <2>3, Zenon
<1>4. DOMAIN frames = 1 .. Len(frames) /\ 1 \in DOMAIN frames /\ frames[1].parent = 0
  BY FrameType DEF ChildTypeInv, FramesOK
<1> QED BY <1>1, <1>3, <1>4 DEF Child

(* Below a run whose nodes are settled, a run has ended, and its result is *)
(* at the node it ran for.                                                 *)
LEMMA SettledBelow ==
  ASSUME ChildTypeInv, OutcomeInv, NEW g \in Child,
         LET f == frames[g].parent
         IN  frames[f].phase = "ended" \/ Written(frames[f].row)
  PROVE  /\ frames[g].phase = "ended" /\ Written(frames[g].row)
         /\ OkIn(frames[g].node) => OkIn(frames[frames[g].parent].node)
<1> DEFINE f == frames[g].parent
           n == frames[g].via
<1>1. f \in DOMAIN frames /\ n \in DOMAIN frames[f].node /\ g \in DOMAIN frames /\ g # 1
  BY FrameType DEF ChildTypeInv, FramesOK, Child
<1>2. /\ frames[g].phase = "ended" => frames[f].node[n] = IF OkIn(frames[g].node) THEN "ok" ELSE "failed"
      /\ frames[g].phase = "aborted" => frames[f].node[n] = "gone"
      /\ frames[g].phase \notin {"ended", "aborted"} => frames[f].node[n] = "nested"
  BY DEF OutcomeInv, ParentInv
<1> HIDE DEF f, n
<1>3. /\ frames[f].node[n] \in Busy => frames[f].phase \in {"running", "aborting"}
      /\ frames[f].node[n] = "gone" => frames[f].phase \in {"aborting", "aborted"}
      /\ Written(frames[f].row) => frames[f].node[n] \in Settled
  BY <1>1 DEF OutcomeInv, BusyInv, WrittenInv
<1>4. frames[f].node[n] # "nested" /\ frames[f].node[n] # "gone"
  BY <1>3, StatusFacts DEF f
<1>5. frames[g].phase = "ended"
  BY <1>2, <1>4
<1>6. Written(frames[g].row)
  BY <1>1, <1>5 DEF OutcomeInv, WrittenInv
<1>7. OkIn(frames[g].node) => OkIn(frames[f].node)
  BY <1>1, <1>2, <1>5 DEF OkIn
<1> QED BY <1>5, <1>6, <1>7 DEF f

LEMMA LineOutcome ==
  ASSUME ChildTypeInv, OutcomeInv, NEW f \in DOMAIN frames, NEW g \in Line(f),
         Written(frames[g].row)
  PROVE  Written(frames[f].row) /\ (OkIn(frames[f].node) => OkIn(frames[g].node))
<1> DEFINE P == {k \in Nat : \A h \in DOMAIN frames : h <= k /\ g \in Line(h) =>
                   Written(frames[h].row) /\ (OkIn(frames[h].node) => OkIn(frames[g].node))}
<1>1. DOMAIN frames = 1 .. Len(frames) /\ Len(frames) \in Nat
  BY FrameType DEF ChildTypeInv, FramesOK
<1>2. 0 \in P
  BY <1>1
<1>3. ASSUME NEW k \in Nat, k \in P PROVE k + 1 \in P
  <2> SUFFICES ASSUME NEW h \in DOMAIN frames, h <= k + 1, g \in Line(h)
               PROVE  Written(frames[h].row) /\ (OkIn(frames[h].node) => OkIn(frames[g].node))
    OBVIOUS
  <2>1. CASE h = g
    BY <2>1
  <2>2. CASE h # g
    <3>1. h \in Child /\ g \in Line(frames[h].parent)
      BY <2>2, LineFacts DEF Child
    <3>2. frames[h].parent \in DOMAIN frames /\ frames[h].parent <= k
      BY <1>1, <3>1 DEF ChildTypeInv, FramesOK, Child
    <3>3. /\ Written(frames[frames[h].parent].row)
          /\ OkIn(frames[frames[h].parent].node) => OkIn(frames[g].node)
      BY <1>3, <3>1, <3>2
    <3> QED BY <3>1, <3>3, SettledBelow
  <2> QED BY <2>1, <2>2
<1>4. f \in P
  <2> HIDE DEF P
  <2> QED BY <1>1, <1>2, <1>3, Induction
<1> QED BY <1>1, <1>4

(* A success comes from a handler, of a run that lies below.               *)
LEMMA SuccessBelow ==
  ASSUME ChildTypeInv, OutcomeInv, NEW g \in DOMAIN frames, OkIn(frames[g].node)
  PROVE  \E f \in DOMAIN frames : g \in Line(f) /\ \E n \in DOMAIN frames[f].node :
           frames[f].ran[n] # "not" /\ frames[f].node[n] = "ok"
<1> DEFINE T == {f \in DOMAIN frames : g \in Line(f) /\ OkIn(frames[f].node)}
<1>1. DOMAIN frames = 1 .. Len(frames) /\ Len(frames) \in Nat
  BY FrameType DEF ChildTypeInv, FramesOK
<1>2. g \in T
  BY LineFacts DEF Child
<1>3. T \subseteq 0 .. Len(frames) /\ T # {}
  BY <1>1, <1>2
<1>4. PICK f \in T : \A h \in T : h <= f
  <2> HIDE DEF T
  <2> QED BY <1>1, <1>3, GreatestNatural
<1>5. PICK n \in DOMAIN frames[f].node : frames[f].node[n] = "ok"
  BY <1>4 DEF OkIn
<1>6. ASSUME frames[f].ran[n] = "not" PROVE FALSE
  <2>1. PICK h \in Child : frames[h].parent = f /\ OkIn(frames[h].node)
    BY <1>4, <1>5, <1>6 DEF OutcomeInv, SourceInv
  <2>2. h \in DOMAIN frames /\ g \in Line(h) /\ h > f
    BY <1>1, <1>4, <2>1, LineFacts DEF Child, ChildTypeInv, FramesOK
  <2>3. h <= f
    BY <1>4, <2>1, <2>2
  <2> QED BY <1>1, <1>4, <2>2, <2>3
<1> QED BY <1>4, <1>5, <1>6

(* A success of a handler makes every run above it succeed, a run that is  *)
(* reported as succeeded had one, and when the root returns no row is left *)
(* open (runner.py:784-801, models.py:33).                                 *)
THEOREM ChildRowsTellOutcome ==
  ASSUME DagAssumption, BoundAssumption, ProgramAssumption
  PROVE  NestedSpec => []RowsTellOutcome
<1>1. ASSUME ChildTypeInv, OutcomeInv PROVE RowsTellOutcome
  <2>a. Frame = DOMAIN frames /\ \A f \in DOMAIN frames : Nodes(f) = DOMAIN frames[f].node
    BY DEF Frame, Nodes
  <2>1. ASSUME NEW g \in DOMAIN frames, Written(frames[g].row)
        PROVE  frames[g].row = "succeeded" <=>
                 \E f \in DOMAIN frames : g \in Line(f) /\ \E n \in DOMAIN frames[f].node :
                   frames[f].ran[n] # "not" /\ frames[f].node[n] = "ok"
    <3>1. frames[g].row = "succeeded" <=> OkIn(frames[g].node)
      BY <1>1, <2>1 DEF OutcomeInv, WrittenInv
    <3>2. ASSUME NEW f \in DOMAIN frames, g \in Line(f), NEW n \in DOMAIN frames[f].node,
                 frames[f].node[n] = "ok"
          PROVE  OkIn(frames[g].node)
      <4>1. OkIn(frames[f].node)
        BY <3>2 DEF OkIn
      <4> QED BY <1>1, <2>1, <3>2, <4>1, LineOutcome
    <3> QED BY <1>1, <3>1, <3>2, SuccessBelow
  <2>2. ASSUME frames[1].phase = "ended", NEW g \in Child PROVE Written(frames[g].row)
    <3> DEFINE P == {k \in Nat : \A h \in Child : h <= k =>
                       frames[h].phase = "ended" /\ Written(frames[h].row)}
    <3>1. DOMAIN frames = 1 .. Len(frames) /\ Len(frames) \in Nat
      BY <1>1, FrameType DEF ChildTypeInv, FramesOK
    <3>2. 0 \in P
      BY <3>1 DEF Child
    <3>3. ASSUME NEW k \in Nat, k \in P PROVE k + 1 \in P
      <4> SUFFICES ASSUME NEW h \in Child, h <= k + 1
                   PROVE  frames[h].phase = "ended" /\ Written(frames[h].row)
        OBVIOUS
      <4>1. frames[h].parent \in DOMAIN frames /\ frames[h].parent <= k
        BY <1>1, <3>1 DEF ChildTypeInv, FramesOK, Child
      <4>2. frames[frames[h].parent].phase = "ended"
        BY <2>2, <3>3, <4>1 DEF Child
      <4> QED BY <1>1, <4>2, SettledBelow
    <3>4. g \in P /\ g \in Nat
      <4> HIDE DEF P
      <4> QED BY <3>1, <3>2, <3>3, Induction DEF Child
    <3> QED BY <3>4
  <2> QED BY <2>a, <2>1, <2>2 DEF RowsTellOutcome, Written, Child
<1> QED BY <1>1, ChildTypeOK, ChildOutcomeInv, PTL

-----------------------------------------------------------------------------
(* The layers of a DAG.  After k rounds the layers hold the nodes whose    *)
(* ways from the roots are at most k long, and the next layer is ready.    *)
Into(n, names, edges) == {m \in names : <<m, n>> \in edges}

FirstLayer(names, edges) ==
  [incoming |-> [n \in names |-> Cardinality({m \in names : <<m, n>> \in edges})],
   ready    |-> {n \in names : \A m \in names : <<m, n>> \notin edges},
   layers   |-> <<>>]

NextLayer(names, edges, before) ==
  LET relieve == [n \in names |->
        before.incoming[n] - Cardinality({m \in before.ready : <<m, n>> \in edges})]
  IN  [incoming |-> relieve,
       ready    |-> {n \in names : before.incoming[n] > 0 /\ relieve[n] = 0},
       layers   |-> IF before.ready = {} THEN before.layers
                    ELSE Append(before.layers, before.ready)]

IsLayering(step, names, edges, max) ==
  step = [k \in 0 .. max |->
           IF k = 0 THEN FirstLayer(names, edges) ELSE NextLayer(names, edges, step[k - 1])]

LEMMA LayeringExists ==
  ASSUME NEW names, NEW edges, NEW max \in Nat
  PROVE  \E step : IsLayering(step, names, edges, max)
<1> DEFINE Step(f, k) == IF k = 0 THEN FirstLayer(names, edges)
                         ELSE NextLayer(names, edges, f[k - 1])
           P == {n \in Nat : \E f : f = [k \in 0 .. n |-> Step(f, k)]}
<1>1. 0 \in P
  <2> DEFINE f == [k \in 0 .. 0 |-> FirstLayer(names, edges)]
  <2>1. f = [k \in 0 .. 0 |-> Step(f, k)]
    OBVIOUS
  <2> HIDE DEF f, Step
  <2> QED BY <2>1
<1>2. ASSUME NEW n \in Nat, n \in P PROVE n + 1 \in P
  <2>1. PICK f : f = [k \in 0 .. n |-> Step(f, k)]
    BY <1>2
  <2> DEFINE new == [k \in 0 .. n + 1 |-> IF k = n + 1 THEN Step(f, n + 1) ELSE f[k]]
  <2>2. (\A k \in 0 .. n : new[k] = f[k]) /\ new[n + 1] = Step(f, n + 1)
    <3> HIDE DEF Step
    <3> QED OBVIOUS
  <2>3. \A k \in 0 .. n : f[k] = Step(f, k)
    <3> HIDE DEF Step
    <3> QED BY <2>1
  <2>4. new = [k \in 0 .. n + 1 |-> new[k]]
    <3> HIDE DEF Step
    <3> QED OBVIOUS
  <2> HIDE DEF new
  <2>5. \A k \in 0 .. n + 1 : new[k] = Step(new, k)
    <3> TAKE k \in 0 .. n + 1
    <3>1. CASE k = 0
      <4>1. 0 \in 0 .. n
        OBVIOUS
      <4>2. new[0] = f[0] /\ f[0] = FirstLayer(names, edges)
        BY <2>2, <2>3, <4>1
      <4> QED BY <3>1, <4>2
    <3>2. CASE k # 0
      <4>1. k - 1 \in 0 .. n
        BY <3>2
      <4>2. new[k - 1] = f[k - 1]
        BY <2>2, <4>1
      <4>3. new[k] = Step(f, k)
        <5>1. k \in 0 .. n \/ k = n + 1
          OBVIOUS
        <5> HIDE DEF Step
        <5> QED BY <2>2, <2>3, <5>1
      <4> QED BY <3>2, <4>2, <4>3
    <3> QED BY <3>1, <3>2
  <2> HIDE DEF Step
  <2>6. new = [k \in 0 .. n + 1 |-> Step(new, k)]
    BY <2>4, <2>5
  <2> QED BY <2>6
<1>3. max \in P
  <2> HIDE DEF P
  <2> QED BY <1>1, <1>2, Induction
<1>4. \E step : step = [k \in 0 .. max |-> Step(step, k)]
  BY <1>3
<1> QED BY <1>4, Zenon DEF IsLayering

(* What is found so far, and how many edges lead to a node from elsewhere. *)
Covered(layers) == UNION {layers[i] : i \in DOMAIN layers}

Ordered(layers, names, edges) ==
  \A i \in DOMAIN layers : \A n \in layers[i] : \A m \in Into(n, names, edges) :
    \E j \in DOMAIN layers : j < i /\ m \in layers[j]

Layered(s, names, edges, k) ==
  LET covered == Covered(s.layers)
  IN  /\ s.layers \in Seq(SUBSET names)
      /\ s.incoming = [n \in names |-> Cardinality(Into(n, names, edges) \ covered)]
      /\ s.ready = {n \in names : Into(n, names, edges) \subseteq covered} \ covered
      /\ Ordered(s.layers, names, edges)
      /\ \A i \in DOMAIN s.layers : i # 1 =>
           \A n \in s.layers[i] : \E m \in s.layers[i - 1] : <<m, n>> \in edges
      /\ s.layers # <<>> =>
           \A n \in s.ready : \E m \in s.layers[Len(s.layers)] : <<m, n>> \in edges
      /\ s.ready = {} \/ Cardinality(covered) >= k

LEMMA LayeredFirst ==
  ASSUME NEW names, IsFiniteSet(names), NEW edges
  PROVE  Layered(FirstLayer(names, edges), names, edges, 0)
<1> DEFINE s == FirstLayer(names, edges)
<1>1. /\ s.layers = <<>> /\ s.ready = {n \in names : \A m \in names : <<m, n>> \notin edges}
      /\ s.incoming = [n \in names |-> Cardinality({m \in names : <<m, n>> \in edges})]
  BY DEF FirstLayer
<1> HIDE DEF s
<1>2. Covered(s.layers) = {}
  BY <1>1 DEF Covered
<1> DEFINE covered == Covered(s.layers)
<1>3. \A n \in names : s.incoming[n] = Cardinality(Into(n, names, edges) \ covered)
  <2> TAKE n \in names
  <2>1. s.incoming[n] = Cardinality({m \in names : <<m, n>> \in edges})
    BY <1>1
  <2>2. Into(n, names, edges) \ covered = {m \in names : <<m, n>> \in edges}
    BY <1>2 DEF Into
  <2> QED BY <2>1, <2>2
<1>4. s.incoming = [n \in names |-> Cardinality(Into(n, names, edges) \ covered)]
  BY <1>1, <1>3
<1>5. s.ready = {n \in names : Into(n, names, edges) \subseteq covered} \ covered
  BY <1>1, <1>2 DEF Into
<1>6. s.layers \in Seq(SUBSET names) /\ DOMAIN s.layers = {} /\ s.layers = <<>>
  BY <1>1
<1>7. Cardinality(covered) = 0
  BY <1>2, FS_EmptySet
<1>a. Ordered(s.layers, names, edges)
  BY <1>6 DEF Ordered
<1>8. Layered(s, names, edges, 0)
  BY <1>4, <1>5, <1>6, <1>7, <1>a DEF Layered
<1> QED BY <1>8 DEF s

LEMMA LayeredNext ==
  ASSUME NEW names, IsFiniteSet(names), NEW edges, NEW k \in Nat,
         NEW s, Layered(s, names, edges, k)
  PROVE  Layered(NextLayer(names, edges, s), names, edges, k + 1)
<1> DEFINE t == NextLayer(names, edges, s)
           old == Covered(s.layers)
           new == Covered(t.layers)
           From(n) == Into(n, names, edges)
<1>1. /\ s.layers \in Seq(SUBSET names)
      /\ s.incoming = [n \in names |-> Cardinality(From(n) \ old)]
      /\ s.ready = {n \in names : From(n) \subseteq old} \ old
      /\ Ordered(s.layers, names, edges)
      /\ \A i \in DOMAIN s.layers : i # 1 =>
           \A n \in s.layers[i] : \E m \in s.layers[i - 1] : <<m, n>> \in edges
      /\ s.layers # <<>> =>
           \A n \in s.ready : \E m \in s.layers[Len(s.layers)] : <<m, n>> \in edges
      /\ s.ready = {} \/ Cardinality(old) >= k
  BY DEF Layered
<1>a. \A n \in old : From(n) \subseteq old
  BY <1>1 DEF Ordered, Covered
<1>2. /\ t.incoming = [n \in names |-> s.incoming[n] - Cardinality({m \in s.ready : <<m, n>> \in edges})]
      /\ t.ready = {n \in names : s.incoming[n] > 0 /\ t.incoming[n] = 0}
      /\ t.layers = IF s.ready = {} THEN s.layers ELSE Append(s.layers, s.ready)
  BY DEF NextLayer
<1>3. /\ old \subseteq names /\ s.ready \subseteq names /\ s.ready \cap old = {}
      /\ \A n \in names : From(n) \subseteq names
  BY <1>1 DEF Covered, Into
<1> HIDE DEF t
<1>4. /\ t.layers \in Seq(SUBSET names)
      /\ new = old \union s.ready
  <2>1. CASE s.ready = {}
    BY <1>1, <1>2, <2>1
  <2>2. CASE s.ready # {}
    <3>1. t.layers = Append(s.layers, s.ready) /\ s.ready \in SUBSET names
      BY <1>2, <1>3, <2>2
    <3>2. /\ t.layers \in Seq(SUBSET names) /\ Len(t.layers) = Len(s.layers) + 1
          /\ t.layers[Len(s.layers) + 1] = s.ready
          /\ \A i \in 1 .. Len(s.layers) : t.layers[i] = s.layers[i]
          /\ DOMAIN s.layers = 1 .. Len(s.layers)
          /\ DOMAIN t.layers = DOMAIN s.layers \union {Len(s.layers) + 1}
          /\ Len(s.layers) \in Nat
      BY <1>1, <3>1
    <3> QED BY <3>2 DEF Covered
  <2> QED BY <2>1, <2>2
<1> HIDE DEF old, new
<1>5. \A n \in names : /\ t.incoming[n] = Cardinality(From(n) \ new)
                       /\ s.incoming[n] = Cardinality(From(n) \ old)
                       /\ IsFiniteSet(From(n) \ old) /\ IsFiniteSet(From(n) \ new)
  <2> TAKE n \in names
  <2> DEFINE rest == From(n) \ old
             part == {m \in s.ready : <<m, n>> \in edges}
  <2>1. rest \cap part = part /\ rest \ part = From(n) \ new
    BY <1>3, <1>4 DEF Into
  <2>2. IsFiniteSet(rest) /\ rest \subseteq names
    BY <1>3, FS_Subset
  <2>3. Cardinality(rest \ part) = Cardinality(rest) - Cardinality(part)
    BY <2>1, <2>2, FS_Difference
  <2>4. t.incoming[n] = s.incoming[n] - Cardinality(part) /\ s.incoming[n] = Cardinality(rest)
    BY <1>1, <1>2
  <2>5. IsFiniteSet(From(n) \ new)
    BY <2>1, <2>2, FS_Difference
  <2> QED BY <2>1, <2>2, <2>3, <2>4, <2>5
<1>6. t.incoming = [n \in names |-> Cardinality(From(n) \ new)]
  BY <1>2, <1>5
<1>7. t.ready = {n \in names : From(n) \subseteq new} \ new
  <2> SUFFICES ASSUME NEW n \in names
               PROVE  n \in t.ready <=> From(n) \subseteq new /\ n \notin new
    BY <1>2
  <2>1. /\ s.incoming[n] > 0 <=> From(n) \ old # {}
        /\ t.incoming[n] = 0 <=> From(n) \ new = {}
    <3>1. /\ Cardinality(From(n) \ old) \in Nat
          /\ Cardinality(From(n) \ old) = 0 <=> From(n) \ old = {}
          /\ Cardinality(From(n) \ new) = 0 <=> From(n) \ new = {}
      BY <1>5, FS_CardinalityType, FS_EmptySet
    <3> QED BY <1>5, <3>1
  <2>2. n \in new <=> From(n) \subseteq old
    BY <1>1, <1>4, <1>a
  <2> QED BY <1>2, <2>1, <2>2
<1>8. Ordered(t.layers, names, edges)
  <2>1. CASE s.ready = {}
    BY <1>1, <1>2, <2>1
  <2>2. CASE s.ready # {}
    <3>1. /\ Len(s.layers) \in Nat /\ t.layers[Len(s.layers) + 1] = s.ready
          /\ \A i \in 1 .. Len(s.layers) : t.layers[i] = s.layers[i]
          /\ DOMAIN s.layers = 1 .. Len(s.layers)
          /\ DOMAIN t.layers = 1 .. Len(s.layers) + 1
      BY <1>1, <1>2, <2>2
    <3> SUFFICES ASSUME NEW i \in DOMAIN t.layers, NEW n \in t.layers[i], NEW m \in From(n)
                 PROVE  \E j \in DOMAIN t.layers : j < i /\ m \in t.layers[j]
      BY DEF Ordered
    <3>2. CASE i \in 1 .. Len(s.layers)
      <4>1. PICK j \in DOMAIN s.layers : j < i /\ m \in s.layers[j]
        BY <1>1, <3>1, <3>2 DEF Ordered
      <4> QED BY <3>1, <4>1
    <3>3. CASE i = Len(s.layers) + 1
      <4>1. m \in old
        BY <1>1, <3>1, <3>3
      <4>2. PICK j \in DOMAIN s.layers : m \in s.layers[j]
        BY <4>1 DEF old, Covered
      <4>3. j \in DOMAIN t.layers /\ j < i /\ t.layers[j] = s.layers[j]
        BY <3>1, <3>3, <4>2
      <4> QED BY <4>2, <4>3
    <3> QED BY <3>1, <3>2, <3>3
  <2> QED BY <2>1, <2>2
<1>9. /\ \A i \in DOMAIN t.layers : i # 1 =>
           \A n \in t.layers[i] : \E m \in t.layers[i - 1] : <<m, n>> \in edges
      /\ t.layers # <<>> =>
           \A n \in t.ready : \E m \in t.layers[Len(t.layers)] : <<m, n>> \in edges
  <2>1. CASE s.ready = {}
    BY <1>1, <1>2, <1>4, <1>7, <2>1
  <2>2. CASE s.ready # {}
    <3>1. /\ Len(s.layers) \in Nat /\ Len(t.layers) = Len(s.layers) + 1
          /\ t.layers[Len(s.layers) + 1] = s.ready
          /\ \A i \in 1 .. Len(s.layers) : t.layers[i] = s.layers[i]
          /\ DOMAIN s.layers = 1 .. Len(s.layers)
          /\ DOMAIN t.layers = 1 .. Len(s.layers) + 1
      BY <1>1, <1>2, <2>2
    <3>2. ASSUME NEW i \in DOMAIN t.layers, i # 1, NEW n \in t.layers[i]
          PROVE  \E m \in t.layers[i - 1] : <<m, n>> \in edges
      <4>1. i - 1 \in 1 .. Len(s.layers) /\ t.layers[i - 1] = s.layers[i - 1]
        BY <3>1, <3>2
      <4>2. CASE i \in 1 .. Len(s.layers)
        BY <1>1, <3>1, <3>2, <4>1, <4>2
      <4>3. CASE i = Len(s.layers) + 1
        <5>1. n \in s.ready /\ s.layers # <<>> /\ i - 1 = Len(s.layers)
          BY <1>1, <3>1, <3>2, <4>1, <4>3
        <5> QED BY <1>1, <4>1, <5>1
      <4>4. i \in 1 .. Len(s.layers) \/ i = Len(s.layers) + 1
        BY <3>1, <3>2
      <4> QED BY <4>2, <4>3, <4>4
    <3>3. ASSUME NEW n \in t.ready PROVE \E m \in s.ready : <<m, n>> \in edges
      <4>1. n \in names /\ From(n) \subseteq new /\ n \notin new
        BY <1>7
      <4>2. ~ (From(n) \subseteq old)
        BY <1>1, <1>4, <4>1
      <4>3. PICK m \in From(n) : m \notin old /\ m \in new
        BY <4>1, <4>2
      <4> QED BY <1>4, <4>3 DEF Into
    <3> QED BY <3>1, <3>2, <3>3
  <2> QED BY <2>1, <2>2
<1>10. t.ready = {} \/ Cardinality(new) >= k + 1
  <2>1. CASE s.ready = {}
    BY <1>1, <1>4, <1>7, <2>1
  <2>2. CASE s.ready # {}
    <3>1. PICK n \in s.ready : n \notin old
      BY <1>3, <2>2
    <3>2. IsFiniteSet(old) /\ IsFiniteSet(new) /\ old \union {n} \subseteq new
      BY <1>3, <1>4, <3>1, FS_Subset
    <3>3. Cardinality(old \union {n}) = Cardinality(old) + 1
      BY <3>1, <3>2, FS_AddElement
    <3>4. Cardinality(old \union {n}) <= Cardinality(new)
      BY <3>2, FS_Subset
    <3>5. Cardinality(old) \in Nat /\ Cardinality(new) \in Nat
      BY <3>2, FS_CardinalityType
    <3> QED BY <1>1, <2>2, <3>3, <3>4, <3>5
  <2> QED BY <2>1, <2>2
<1>11. Layered(t, names, edges, k + 1)
  BY <1>4, <1>6, <1>7, <1>8, <1>9, <1>10 DEF Layered, new
<1> QED BY <1>11 DEF t

(* Nodes are in a layer if all nodes before them are, and each node of a   *)
(* later layer has one of the layer before it.                             *)
LEMMA LayersFacts ==
  ASSUME NEW names, IsFiniteSet(names), NEW edges
  PROVE  LET layers == Layers(names, edges)
         IN  /\ layers \in Seq(SUBSET names)
             /\ \A n \in names :
                  Into(n, names, edges) \subseteq Covered(layers) => n \in Covered(layers)
             /\ Ordered(layers, names, edges)
             /\ \A i \in DOMAIN layers : i # 1 =>
                  \A n \in layers[i] : \E m \in layers[i - 1] : <<m, n>> \in edges
<1> DEFINE max == Cardinality(names)
           W == CHOOSE step : IsLayering(step, names, edges, max)
<1>1. Layers(names, edges) = W[max].layers
  BY Zenon DEF Layers, IsLayering, FirstLayer, NextLayer
<1>2. max \in Nat /\ max = Cardinality(names)
  BY FS_CardinalityType
<1> HIDE DEF max
<1>3. IsLayering(W, names, edges, max)
  BY <1>2, LayeringExists, Zenon
<1> HIDE DEF W
<1>4. W = [k \in 0 .. max |->
             IF k = 0 THEN FirstLayer(names, edges) ELSE NextLayer(names, edges, W[k - 1])]
  BY <1>3, Zenon DEF IsLayering
<1> DEFINE P == {k \in Nat : k <= max => Layered(W[k], names, edges, k)}
<1>5. 0 \in P
  <2>1. W[0] = FirstLayer(names, edges)
    BY <1>2, <1>4
  <2> QED BY <2>1, LayeredFirst
<1>6. ASSUME NEW k \in Nat, k \in P PROVE k + 1 \in P
  <2> SUFFICES ASSUME k + 1 <= max PROVE Layered(W[k + 1], names, edges, k + 1)
    OBVIOUS
  <2>1. k + 1 \in 0 .. max /\ k + 1 # 0 /\ (k + 1) - 1 = k
    BY <1>2
  <2>2. W[k + 1] = NextLayer(names, edges, W[k])
    BY <1>4, <2>1
  <2>3. Layered(W[k], names, edges, k)
    BY <1>2, <1>6
  <2> QED BY <2>2, <2>3, LayeredNext
<1>7. Layered(W[max], names, edges, max)
  <2>1. max \in P
    <3> HIDE DEF P
    <3> QED BY <1>2, <1>5, <1>6, Induction
  <2> QED BY <1>2, <2>1
<1> DEFINE layers == W[max].layers
           covered == Covered(layers)
<1>8. /\ layers \in Seq(SUBSET names)
      /\ W[max].ready = {n \in names : Into(n, names, edges) \subseteq covered} \ covered
      /\ \A i \in DOMAIN layers : i # 1 =>
           \A n \in layers[i] : \E m \in layers[i - 1] : <<m, n>> \in edges
      /\ Ordered(layers, names, edges)
      /\ W[max].ready = {} \/ Cardinality(covered) >= max
  BY <1>7 DEF Layered
<1>9. covered \subseteq names
  BY <1>8 DEF Covered
<1> HIDE DEF layers, covered
<1>10. ASSUME NEW n \in names, Into(n, names, edges) \subseteq covered PROVE n \in covered
  <2>1. CASE W[max].ready = {}
    BY <1>8, <1>10, <2>1
  <2>2. CASE Cardinality(covered) >= max
    <3>1. /\ IsFiniteSet(covered) /\ Cardinality(covered) \in Nat
          /\ Cardinality(covered) <= max /\ (Cardinality(covered) = max => covered = names)
      BY <1>2, <1>9, FS_Subset, FS_CardinalityType
    <3> QED BY <1>2, <2>2, <3>1
  <2> QED BY <1>8, <2>1, <2>2
<1> QED BY <1>1, <1>8, <1>10 DEF layers, covered

(* What can be reached has a chain of its own: a closure is closed.        *)
LEMMA ChainEnds ==
  ASSUME NEW D, NEW refs \in [D -> SUBSET D], NEW d \in D, NEW max \in Nat
  PROVE  \A chain \in Chains(refs, d, max) : \A i \in DOMAIN chain :
           \E c \in Chains(refs, d, max) : Last(c) = chain[i]
<1> DEFINE chains == Chains(refs, d, max)
<1>1. PICK walk :
        /\ walk[0] = {<<d>>}
        /\ \A k \in 1 .. max : walk[k] = Longer(refs, walk[k - 1], k)
        /\ chains = UNION {walk[k] : k \in 0 .. max}
  BY ChainsByLength
<1>2. \A chain \in chains : chain \in Seq(D) /\ Len(chain) \in 1 .. max + 1
  BY ChainsFrom
<1> HIDE DEF chains
<1> DEFINE LastIn(chain) == \A i \in DOMAIN chain : \E c \in chains : Last(c) = chain[i]
           P == {k \in Nat : k <= max => \A chain \in walk[k] : LastIn(chain)}
<1>3. ASSUME NEW k \in 0 .. max, NEW chain \in walk[k]
      PROVE  chain \in chains /\ chain \in Seq(D) /\ Len(chain) >= 1
  BY <1>1, <1>2, <1>3
<1>4. 0 \in P
  <2>1. <<d>> \in chains /\ Last(<<d>>) = d /\ DOMAIN <<d>> = {1} /\ <<d>>[1] = d
    BY <1>1, <1>3 DEF Last
  <2>2. LastIn(<<d>>)
    BY <2>1
  <2> HIDE DEF LastIn
  <2> QED BY <1>1, <2>2
<1>5. ASSUME NEW k \in Nat, k \in P PROVE k + 1 \in P
  <2> SUFFICES ASSUME k + 1 <= max, NEW chain \in walk[k + 1] PROVE LastIn(chain)
    <3> HIDE DEF LastIn
    <3> QED OBVIOUS
  <2>1. k \in 0 .. max /\ k + 1 \in 1 .. max /\ (k + 1) - 1 = k /\ k <= max
    OBVIOUS
  <2>2. walk[k + 1] = Longer(refs, walk[k], k + 1)
    BY <1>1, <2>1
  <2>3. PICK c \in walk[k] : \E e \in refs[c[k + 1]] : chain = Append(c, e)
    BY <2>2 DEF Longer
  <2>4. PICK e : chain = Append(c, e)
    BY <2>3
  <2>5. c \in Seq(D) /\ LastIn(c) /\ chain \in chains
    <3> HIDE DEF LastIn
    <3> QED BY <1>3, <1>5, <2>1
  <2>6. \A i \in DOMAIN chain : (i \in DOMAIN c /\ chain[i] = c[i]) \/ (i = Len(chain) /\ i = Len(c) + 1)
    BY <2>4, <2>5
  <2> QED BY <2>5, <2>6 DEF Last
<1>6. ASSUME NEW k \in 0 .. max PROVE k \in P
  <2> HIDE DEF P
  <2> QED BY <1>4, <1>5, Induction
<1>7. \A chain \in chains : LastIn(chain)
  <2> HIDE DEF LastIn
  <2> QED BY <1>1, <1>6
<1> QED BY <1>7 DEF chains

LEMMA ClosureClosed ==
  ASSUME DagAssumption, ProgramAssumption, program \in Programs
  PROVE  /\ program.root \in Closure(program) /\ Closure(program) \subseteq Dag
         /\ \A d \in Closure(program) : NodeRefs[d] \subseteq Closure(program)
<1>1. NodeRefs \in [Dag -> SUBSET Dag] /\ program.root \in Dag /\ IsFiniteSet(Dag)
  <2>1. IsFiniteSet(Dag)
    BY Zenon DEF DagAssumption
  <2> QED BY <2>1, RefsFacts, ProgramFacts
<1>2. Closure(program) = DagClosure(NodeRefs, program.root)
  BY DEF Closure, NodeRefs
<1>3. DagClosure(NodeRefs, program.root) # {}
  BY DEF ProgramAssumption, NodeRefs
<1> DEFINE chains == Chains(NodeRefs, program.root, Cardinality(Dag))
<1>4. DagClosure(NodeRefs, program.root) = UNION {{chain[i] : i \in DOMAIN chain} : chain \in chains}
  BY <1>1, <1>3, ClosureChains
<1>5. \A chain \in chains : \A i \in DOMAIN chain : \E c \in chains : Last(c) = chain[i]
  BY <1>1, ChainEnds, FS_CardinalityType
<1> HIDE DEF chains
<1>6. Closure(program) \subseteq Below
  <2> SUFFICES ASSUME NEW chain \in chains, NEW i \in DOMAIN chain PROVE chain[i] \in Below
    BY <1>2, <1>4
  <2>1. PICK c \in chains : Last(c) = chain[i]
    BY <1>5
  <2>2. chain \in Seq(Dag)
    BY <1>1, <1>3, ClosureChains DEF chains
  <2>3. chain[i] \in Dag
    BY <2>2
  <2> QED BY <2>1, <2>3 DEF Below, chains
<1> QED BY <1>6, BelowFacts

(* topological_layers refuses just the graphs with a cycle: some nodes     *)
(* each of which has an edge from one of them (loader.py:54-72).           *)
THEOREM LayersRefuseCycles ==
  ASSUME NEW names, IsFiniteSet(names), NEW edges
  PROVE  Covers(Layers(names, edges), names) <=>
           ~ \E S \in SUBSET names : S # {} /\ \A n \in S : \E m \in S : <<m, n>> \in edges
<1> DEFINE layers == Layers(names, edges)
           covered == Covered(layers)
<1>1. /\ layers \in Seq(SUBSET names)
      /\ \A n \in names : Into(n, names, edges) \subseteq covered => n \in covered
      /\ Ordered(layers, names, edges)
  BY LayersFacts
<1> HIDE DEF layers
<1>2. Covers(layers, names) <=> covered = names
  BY DEF Covers, Covered
<1>3. covered \subseteq names
  BY <1>1 DEF Covered
<1>4. ASSUME covered # names
      PROVE  \E S \in SUBSET names : S # {} /\ \A n \in S : \E m \in S : <<m, n>> \in edges
  <2> DEFINE S == names \ covered
  <2>1. S # {} /\ S \in SUBSET names
    BY <1>3, <1>4
  <2>2. \A n \in S : \E m \in S : <<m, n>> \in edges
    BY <1>1 DEF Into
  <2> QED BY <2>1, <2>2
<1>5. ASSUME covered = names, NEW S \in SUBSET names, S # {},
             \A n \in S : \E m \in S : <<m, n>> \in edges
      PROVE  FALSE
  <2> DEFINE At == {i \in DOMAIN layers : \E n \in S : n \in layers[i]}
  <2>0. DOMAIN layers \subseteq Nat
    BY <1>1
  <2>1. At \subseteq Nat /\ At # {}
    <3>1. PICK n \in S : n \in covered
      BY <1>5
    <3> QED BY <2>0, <3>1 DEF Covered
  <2>2. PICK i \in At : \A j \in At : i <= j
    <3> HIDE DEF At
    <3> QED BY <2>1, LeastNatural
  <2>3. PICK n \in S : n \in layers[i]
    OBVIOUS
  <2>4. PICK m \in S : <<m, n>> \in edges
    BY <1>5
  <2>5. m \in Into(n, names, edges)
    BY <2>4 DEF Into
  <2>6. PICK j \in DOMAIN layers : j < i /\ m \in layers[j]
    BY <1>1, <2>3, <2>5 DEF Ordered
  <2>7. j \in At /\ i \in Nat /\ j \in Nat
    BY <2>0, <2>6
  <2> HIDE DEF At
  <2> QED BY <2>2, <2>6, <2>7
<1>6. Covers(layers, names) <=>
        ~ \E S \in SUBSET names : S # {} /\ \A n \in S : \E m \in S : <<m, n>> \in edges
  BY <1>2, <1>4, <1>5
<1> QED BY <1>6 DEF layers

(* The layers of topological_layers are disjoint, every edge leads to a    *)
(* later one, and a node is in the earliest layer that its upstreams       *)
(* allow: right behind one of them (loader.py:54-72).                      *)
THEOREM LayersAreEarliest ==
  ASSUME NEW names, IsFiniteSet(names), NEW edges
  PROVE  LET layers == Layers(names, edges)
         IN  \A i \in DOMAIN layers, n \in names : n \in layers[i] =>
               /\ \A j \in DOMAIN layers : n \in layers[j] => j = i
               /\ \A m \in names : <<m, n>> \in edges =>
                    /\ \E j \in DOMAIN layers : m \in layers[j]
                    /\ \A j \in DOMAIN layers : m \in layers[j] => j < i
               /\ i > 1 => \E m \in layers[i - 1] : <<m, n>> \in edges
<1> DEFINE layers == Layers(names, edges)
<1>1. /\ layers \in Seq(SUBSET names)
      /\ Ordered(layers, names, edges)
      /\ \A i \in DOMAIN layers : i # 1 =>
           \A n \in layers[i] : \E m \in layers[i - 1] : <<m, n>> \in edges
  BY LayersFacts
<1> HIDE DEF layers
<1>2. /\ DOMAIN layers = 1 .. Len(layers) /\ Len(layers) \in Nat
      /\ \A i \in DOMAIN layers : layers[i] \subseteq names
  BY <1>1
<1> DEFINE Twice == {i \in DOMAIN layers :
                       \E j \in DOMAIN layers : i < j /\ \E n \in layers[i] : n \in layers[j]}
<1>3. Twice = {}
  <2> SUFFICES ASSUME Twice # {} PROVE FALSE
    OBVIOUS
  <2>1. Twice \subseteq Nat
    BY <1>2
  <2>2. PICK i \in Twice : \A k \in Twice : i <= k
    <3> HIDE DEF Twice
    <3> QED BY <2>1, LeastNatural
  <2>3. PICK j \in DOMAIN layers : i < j /\ \E n \in layers[i] : n \in layers[j]
    OBVIOUS
  <2>4. PICK n \in layers[i] : n \in layers[j]
    BY <2>3
  <2>5. i \in DOMAIN layers /\ i \in Nat /\ j \in Nat /\ j # 1 /\ j - 1 \in DOMAIN layers
    BY <1>2, <2>3
  <2>6. PICK m \in layers[j - 1] : <<m, n>> \in edges
    BY <1>1, <2>4, <2>5
  <2>7. m \in Into(n, names, edges)
    BY <1>2, <2>5, <2>6 DEF Into
  <2>8. PICK k \in DOMAIN layers : k < i /\ m \in layers[k]
    BY <1>1, <2>5, <2>7 DEF Ordered
  <2>9. k \in Nat /\ k < j - 1
    BY <1>2, <2>3, <2>5, <2>8
  <2>10. k \in Twice
    BY <2>5, <2>6, <2>8, <2>9
  <2> HIDE DEF Twice
  <2> QED BY <2>2, <2>5, <2>8, <2>9, <2>10
<1>4. ASSUME NEW i \in DOMAIN layers, NEW j \in DOMAIN layers, NEW n \in layers[i],
             n \in layers[j]
      PROVE  j = i
  <2>1. ~ (i < j) /\ ~ (j < i)
    BY <1>3, <1>4
  <2> QED BY <1>2, <2>1
<1>5. ASSUME NEW i \in DOMAIN layers, NEW n \in layers[i], NEW m \in names, <<m, n>> \in edges
      PROVE  \E j \in DOMAIN layers : j < i /\ m \in layers[j]
  <2>1. m \in Into(n, names, edges)
    BY <1>5 DEF Into
  <2> QED BY <1>1, <2>1 DEF Ordered
<1>6. ASSUME NEW i \in DOMAIN layers, NEW n \in layers[i], i > 1
      PROVE  \E m \in layers[i - 1] : <<m, n>> \in edges
  <2>1. i # 1
    BY <1>2, <1>6
  <2> QED BY <1>1, <2>1
<1> HIDE DEF Twice
<1>7. \A i \in DOMAIN layers, n \in names : n \in layers[i] =>
        /\ \A j \in DOMAIN layers : n \in layers[j] => j = i
        /\ \A m \in names : <<m, n>> \in edges =>
             /\ \E j \in DOMAIN layers : m \in layers[j]
             /\ \A j \in DOMAIN layers : m \in layers[j] => j < i
        /\ i > 1 => \E m \in layers[i - 1] : <<m, n>> \in edges
  <2> TAKE i \in DOMAIN layers, n \in names
  <2> HAVE n \in layers[i]
  <2>1. \A j \in DOMAIN layers : n \in layers[j] => j = i
    BY <1>4
  <2>2. \A m \in names : <<m, n>> \in edges =>
          \E j \in DOMAIN layers : j < i /\ m \in layers[j]
    BY <1>5
  <2>3. ASSUME NEW m \in names, <<m, n>> \in edges
        PROVE  /\ \E j \in DOMAIN layers : m \in layers[j]
               /\ \A j \in DOMAIN layers : m \in layers[j] => j < i
    <3>1. PICK j \in DOMAIN layers : j < i /\ m \in layers[j]
      BY <2>2, <2>3
    <3>2. \A k \in DOMAIN layers : m \in layers[k] => k = j
      BY <1>4, <3>1
    <3> QED BY <3>1, <3>2
  <2>4. i > 1 => \E m \in layers[i - 1] : <<m, n>> \in edges
    BY <1>6
  <2> QED BY <2>1, <2>3, <2>4
<1> QED BY <1>7 DEF layers

-----------------------------------------------------------------------------
(* Handlers run with their own DAG.  The table holds the nodes of the run  *)
(* that was entered last, as long as the runs are one in another; they are *)
(* when a run has one busy node at most, and that is so when each DAG has  *)
(* one order, since a node starts after all that come before it.           *)
Entered == {f \in DOMAIN frames : frames[f].phase \in {"running", "aborting"}}
Live == {f \in DOMAIN frames : frames[f].phase \notin {"ended", "aborted"}}
Above(g) == IF g = 1 THEN 1 ELSE frames[g].parent

Ready(f, n) ==
  LET d == frames[f].dag
  IN  /\ n \in Covered(Layers(DOMAIN program.body[d], program.edges[d]))
      /\ \A u \in Into(n, DOMAIN program.body[d], program.edges[d]) : frames[f].node[u] = "ok"

Started(s) == s \in Busy \/ s = "ok"

ReadyInv ==
  \A f \in DOMAIN frames : \A n \in DOMAIN frames[f].node : Started(frames[f].node[n]) => Ready(f, n)

ClosedInv ==
  /\ instances \in Closure(program)
  /\ \A f \in DOMAIN frames : /\ frames[f].dag \in Closure(program)
                              /\ frames[f].previous \in Closure(program)

PlaceInv ==
  Sequential(program) =>
    \A g \in Entered :
      /\ (\A h \in Entered : h <= g) => instances = frames[g].dag
      /\ frames[g].previous = frames[Above(g)].dag

OwnInv == ReadyInv /\ ClosedInv /\ PlaceInv /\ OwnInstances

(* Two nodes of a run are not busy at once.                                *)
LEMMA OneBusy ==
  ASSUME DagAssumption, ProgramAssumption, ChildTypeInv, ReadyInv, ClosedInv,
         Sequential(program), NEW f \in DOMAIN frames,
         NEW n \in DOMAIN frames[f].node, NEW m \in DOMAIN frames[f].node,
         frames[f].node[n] \in Busy, frames[f].node[m] \in Busy
  PROVE  n = m
<1> DEFINE d == frames[f].dag
           names == DOMAIN program.body[d]
           edges == program.edges[d]
           layers == Layers(names, edges)
           node == frames[f].node
<1>1. d \in Dag /\ d \in Closure(program) /\ DOMAIN node = names /\ names \subseteq Node
  <2>1. d \in Dag /\ DOMAIN node \subseteq Node
    BY FrameType DEF ChildTypeInv, FrameRecord
  <2> QED BY <2>1 DEF ClosedInv, ChildTypeInv, FramesOK
<1>2. IsFiniteSet(names)
  <2>1. IsFiniteSet(Node)
    BY Zenon DEF DagAssumption
  <2> QED BY <1>1, <2>1, FS_Subset
<1>3. \A x \in names : Started(node[x]) =>
        /\ x \in Covered(layers)
        /\ \A u \in Into(x, names, edges) : node[u] = "ok"
  BY <1>1 DEF ReadyInv, Ready
<1>4. \A i \in DOMAIN layers : Cardinality(layers[i]) = 1
  BY <1>1 DEF Sequential
<1> HIDE DEF d, names, edges
<1>5. /\ layers \in Seq(SUBSET names)
      /\ \A i \in DOMAIN layers : i # 1 =>
           \A x \in layers[i] : \E y \in layers[i - 1] : <<y, x>> \in edges
  BY <1>2, LayersFacts
<1> HIDE DEF layers, node
<1>6. \A i \in DOMAIN layers : \A x, y \in layers[i] : x = y
  <2> TAKE i \in DOMAIN layers
  <2>1. IsFiniteSet(layers[i]) /\ Cardinality(layers[i]) = 1
    BY <1>2, <1>4, <1>5, FS_Subset
  <2>2. \E x : layers[i] = {x}
    BY <2>1, FS_Singleton
  <2> QED BY <2>2
<1>7. "ok" \notin Busy /\ Started("ok") /\ Started(node[n]) /\ Started(node[m])
  BY DEF Busy, Started, node
<1>8. ASSUME NEW x \in names, NEW i \in DOMAIN layers, x \in layers[i], node[x] # "ok",
             NEW y \in names, NEW j \in DOMAIN layers, y \in layers[j], Started(node[y]), i <= j
      PROVE  x = y
  <2> DEFINE P == {k \in Nat : \A z \in names : i + k \in DOMAIN layers /\ z \in layers[i + k]
                                                  /\ Started(node[z]) => z = x}
  <2>0. DOMAIN layers = 1 .. Len(layers) /\ Len(layers) \in Nat /\ i \in Nat /\ j \in Nat /\ i >= 1
    BY <1>5
  <2>1. 0 \in P
    BY <1>6, <1>8, <2>0
  <2>2. ASSUME NEW k \in Nat, k \in P PROVE k + 1 \in P
    <3> SUFFICES ASSUME NEW z \in names, i + (k + 1) \in DOMAIN layers, z \in layers[i + (k + 1)],
                        Started(node[z])
                 PROVE  z = x
      OBVIOUS
    <3>1. i + (k + 1) # 1 /\ (i + (k + 1)) - 1 = i + k /\ i + k \in DOMAIN layers
      BY <2>0
    <3>2. PICK v \in layers[i + k] : <<v, z>> \in edges
      BY <1>5, <3>1
    <3>3. v \in names /\ v \in Into(z, names, edges)
      BY <1>5, <3>1, <3>2 DEF Into
    <3>4. node[v] = "ok"
      BY <1>3, <3>3
    <3>5. v = x
      BY <1>7, <2>2, <3>1, <3>3, <3>4
    <3> QED BY <1>8, <3>4, <3>5
  <2>3. j - i \in P /\ i + (j - i) = j
    <3>1. j - i \in Nat /\ i + (j - i) = j
      BY <1>8, <2>0
    <3> HIDE DEF P
    <3> QED BY <2>1, <2>2, <3>1, Induction
  <2> QED BY <1>8, <2>3
<1>9. n \in names /\ m \in names /\ node[n] # "ok" /\ node[m] # "ok"
  BY <1>1, <1>7 DEF node
<1>10. PICK i \in DOMAIN layers : n \in layers[i]
  BY <1>3, <1>7, <1>9 DEF Covered
<1>11. PICK j \in DOMAIN layers : m \in layers[j]
  BY <1>3, <1>7, <1>9 DEF Covered
<1>12. i <= j \/ j <= i
  BY <1>5
<1> QED BY <1>7, <1>8, <1>9, <1>10, <1>11, <1>12

(* The runs that are under way are one in another.                         *)
OneAtATime ==
  \A f \in DOMAIN frames : \A n, m \in DOMAIN frames[f].node :
    frames[f].node[n] \in Busy /\ frames[f].node[m] \in Busy => n = m

LEMMA LiveFacts ==
  ASSUME ChildTypeInv, OutcomeInv, NEW g \in Live \ {1}
  PROVE  LET f == frames[g].parent
             n == frames[g].via
         IN  /\ g \in Child /\ f \in Entered /\ f < g /\ Entered \subseteq Live
             /\ n \in DOMAIN frames[f].node /\ frames[f].node[n] = "nested" /\ "nested" \in Busy
<1>1. g \in Child /\ g \in DOMAIN frames
  BY DEF Live, Child
<1>2. /\ frames[g].parent \in DOMAIN frames /\ frames[g].parent < g
      /\ frames[g].via \in DOMAIN frames[frames[g].parent].node
  BY <1>1, FrameType DEF ChildTypeInv, FramesOK, Child
<1>3. frames[frames[g].parent].node[frames[g].via] = "nested"
  BY <1>1 DEF OutcomeInv, ParentInv, Live
<1>4. "nested" \in Busy
  BY DEF Busy
<1>5. frames[frames[g].parent].phase \in {"running", "aborting"}
  BY <1>2, <1>3, <1>4 DEF OutcomeInv, BusyInv
<1>6. Entered \subseteq Live
  BY DEF Entered, Live
<1> QED BY <1>1, <1>2, <1>3, <1>4, <1>5, <1>6 DEF Entered

LEMMA BelowLive ==
  ASSUME ChildTypeInv, OutcomeInv, OneAtATime, NEW g \in Live, NEW h \in Live, g < h
  PROVE  \E c \in Live \ {1} : frames[c].parent = g /\ c <= h
<1> DEFINE Q(x, y) == \E c \in Live \ {1} : frames[c].parent = x /\ c <= y
           P == {k \in Nat : \A x, y \in Live : x < y /\ y <= k => Q(x, y)}
<1>1. Live \subseteq Nat /\ \A x \in Live : x >= 1
  <2>1. DOMAIN frames = 1 .. Len(frames) /\ Len(frames) \in Nat
    BY FrameType DEF ChildTypeInv, FramesOK
  <2> QED BY <2>1 DEF Live
<1>2. 0 \in P
  BY <1>1
<1>3. ASSUME NEW k \in Nat, k \in P PROVE k + 1 \in P
  <2> SUFFICES ASSUME NEW x \in Live, NEW y \in Live, x < y, y <= k + 1 PROVE Q(x, y)
    <3> HIDE DEF Q
    <3> QED OBVIOUS
  <2> DEFINE e == frames[y].parent
  <2>1. /\ y \in Live \ {1} /\ e \in Live /\ e < y /\ e \in DOMAIN frames
        /\ frames[y].via \in DOMAIN frames[e].node /\ frames[e].node[frames[y].via] \in Busy
    BY <1>1, LiveFacts DEF Entered
  <2>n. x \in Nat /\ y \in Nat /\ e \in Nat
    BY <1>1, <2>1
  <2>2. CASE e = x
    <3>1. y <= y
      BY <2>n
    <3> QED BY <2>1, <2>2, <3>1
  <2>3. CASE e > x
    <3>1. e <= k
      BY <2>1, <2>n
    <3>2. Q(x, e)
      <4> HIDE DEF Q, e
      <4> QED BY <1>3, <2>1, <2>3, <3>1
    <3>3. PICK c \in Live \ {1} : frames[c].parent = x /\ c <= e
      BY <3>2
    <3>4. c \in Nat /\ c <= e
      BY <1>1, <3>3
    <3>5. c <= y
      <4> HIDE DEF e
      <4> QED BY <2>1, <2>n, <3>4
    <3> QED BY <3>3, <3>5
  <2>4. CASE e < x
    <3>1. x <= k
      BY <2>n
    <3>2. Q(e, x)
      <4> HIDE DEF Q, e
      <4> QED BY <1>3, <2>1, <2>4, <3>1
    <3>3. PICK c \in Live \ {1} : frames[c].parent = e /\ c <= x
      BY <3>2
    <3>4. /\ frames[c].via \in DOMAIN frames[e].node /\ frames[e].node[frames[c].via] \in Busy
          /\ c \in Child
      BY <3>3, LiveFacts
    <3>5. frames[c].via = frames[y].via
      BY <2>1, <3>4 DEF OneAtATime
    <3>6. c = y
      BY <2>1, <3>3, <3>4, <3>5, LiveFacts DEF OutcomeInv, OnceInv
    <3>7. y <= x
      BY <3>3, <3>6
    <3> QED BY <2>n, <3>7
  <2>5. e = x \/ e > x \/ e < x
    <3> HIDE DEF e
    <3> QED BY <2>n
  <2> QED BY <2>2, <2>3, <2>4, <2>5
<1>4. h \in P
  <2> HIDE DEF P
  <2> QED BY <1>1, <1>2, <1>3, Induction
<1> QED BY <1>1, <1>4

(* The last of them, and the run that it runs for.                         *)
LEMMA LastLive ==
  ASSUME ChildTypeInv, OutcomeInv, OneAtATime, NEW g \in Live,
         \A n \in DOMAIN frames[g].node : frames[g].node[n] # "nested"
  PROVE  /\ \A h \in Live : h <= g
         /\ g # 1 => /\ frames[g].parent \in Entered \ {g}
                     /\ \A h \in Entered \ {g} : h <= frames[g].parent
<1>1. Live \subseteq Nat /\ \A x \in Live : x >= 1
  <2>1. DOMAIN frames = 1 .. Len(frames) /\ Len(frames) \in Nat
    BY FrameType DEF ChildTypeInv, FramesOK
  <2> QED BY <2>1 DEF Live
<1>2. ASSUME NEW h \in Live, ~ (h <= g) PROVE FALSE
  <2>1. PICK c \in Live \ {1} : frames[c].parent = g
    <3>1. g \in Nat /\ h \in Nat
      BY <1>1, <1>2
    <3>2. g < h
      BY <1>2, <3>1
    <3> QED BY <1>2, <3>2, BelowLive
  <2> QED BY <2>1, LiveFacts
<1>3. ASSUME g # 1 PROVE frames[g].parent \in Entered \ {g}
  BY <1>1, <1>3, LiveFacts
<1>4. ASSUME g # 1, NEW h \in Entered \ {g}, ~ (h <= frames[g].parent) PROVE FALSE
  <2> DEFINE e == frames[g].parent
  <2>0. g \in Live \ {1} /\ h \in Live /\ e \in Live
    BY <1>4, LiveFacts DEF Entered, Live
  <2>n. g \in Nat /\ h \in Nat /\ e \in Nat
    BY <1>1, <2>0
  <2>1. h < g /\ e < h
    <3>1. h <= g /\ h # g
      BY <1>2, <1>4, <2>0
    <3>2. ~ (h <= e)
      BY <1>4
    <3> HIDE DEF e
    <3> QED BY <2>n, <3>1, <3>2
  <2>2. PICK c \in Live \ {1} : frames[c].parent = e /\ c <= h
    <3> HIDE DEF e
    <3> QED BY <2>0, <2>1, BelowLive
  <2>3. /\ c \in Child /\ g \in Child /\ e \in DOMAIN frames
        /\ frames[c].via \in DOMAIN frames[e].node /\ frames[e].node[frames[c].via] \in Busy
        /\ frames[g].via \in DOMAIN frames[e].node /\ frames[e].node[frames[g].via] \in Busy
    BY <2>0, <2>2, LiveFacts DEF Live
  <2>4. frames[c].via = frames[g].via
    BY <2>3 DEF OneAtATime
  <2>5. c = g
    BY <2>2, <2>3, <2>4 DEF OutcomeInv, OnceInv
  <2> QED BY <2>n, <2>1, <2>2, <2>5
<1> QED BY <1>2, <1>3, <1>4

(* What most steps do: runs stay what they are, a new one has not begun,   *)
(* nodes that delivered stay so, and one is begun after those before it.   *)
Before(f, n) == Into(n, DOMAIN program.body[frames[f].dag], program.edges[frames[f].dag])

Grown ==
  /\ program' = program /\ DOMAIN frames \subseteq DOMAIN frames'
  /\ \A f \in DOMAIN frames : SameRun(frames[f], frames'[f])
  /\ \A g \in DOMAIN frames' \ DOMAIN frames :
       /\ frames'[g].phase = "opening" /\ frames'[g].dag \in Closure(program)
       /\ frames'[g].previous = frames'[g].dag
       /\ \A n \in DOMAIN frames'[g].node : frames'[g].node[n] = "waiting" /\ frames'[g].ran[n] = "not"

NodesMove ==
  \A f \in DOMAIN frames : \A n \in DOMAIN frames[f].node :
    /\ frames[f].node[n] = "ok" => frames'[f].node[n] = "ok"
    /\ Started(frames'[f].node[n]) =>
         Started(frames[f].node[n]) \/ \A u \in Before(f, n) : frames[f].node[u] = "ok"

TableMoves ==
  /\ \/ instances' = instances
     \/ \E g \in DOMAIN frames : instances' \in {frames[g].dag, frames[g].previous}
  /\ \A f \in DOMAIN frames : frames'[f].previous \in {frames[f].previous, instances}

TableStays ==
  /\ instances' = instances /\ Entered' = Entered
  /\ \A f \in DOMAIN frames : frames'[f].previous = frames[f].previous

RanStays == \A f \in DOMAIN frames : frames'[f].ran = frames[f].ran

LEMMA ReadyKept ==
  ASSUME DagAssumption, ProgramAssumption, ChildTypeInv, ReadyInv, Grown, NodesMove
  PROVE  ReadyInv'
<1> SUFFICES ASSUME NEW f \in DOMAIN frames', NEW n \in DOMAIN frames'[f].node,
                    Started(frames'[f].node[n])
             PROVE  Ready(f, n)'
  BY DEF ReadyInv, Started
<1>1. f \in DOMAIN frames
  <2>1. ~ Started("waiting")
    BY DEF Started, Busy
  <2> QED BY <2>1 DEF Grown
<1>2. /\ program' = program /\ frames'[f].dag = frames[f].dag
      /\ DOMAIN frames'[f].node = DOMAIN frames[f].node /\ n \in DOMAIN frames[f].node
  BY <1>1 DEF Grown, SameRun
<1> DEFINE names == DOMAIN program.body[frames[f].dag]
           edges == program.edges[frames[f].dag]
           layers == Layers(names, edges)
<1>3. IsFiniteSet(names) /\ names = DOMAIN frames[f].node
  <2>1. IsFiniteSet(Node)
    BY Zenon DEF DagAssumption
  <2>2. DOMAIN frames[f].node \subseteq Node /\ names = DOMAIN frames[f].node
    BY <1>1, FrameType DEF ChildTypeInv, FramesOK
  <2> QED BY <2>1, <2>2, FS_Subset
<1>4. Before(f, n) = Into(n, names, edges) /\ Into(n, names, edges) \subseteq names
  BY DEF Before, Into
<1>5. Started("ok")
  BY DEF Started
<1>6. \A m \in names : Started(frames[f].node[m]) =>
        /\ m \in Covered(layers)
        /\ \A u \in Into(m, names, edges) : frames[f].node[u] = "ok"
  BY <1>1, <1>3 DEF ReadyInv, Ready
<1> HIDE DEF names, edges, layers
<1>7. n \in Covered(layers) /\ \A u \in Into(n, names, edges) : frames[f].node[u] = "ok"
  <2>1. CASE Started(frames[f].node[n])
    BY <1>2, <1>3, <1>6, <2>1
  <2>2. CASE \A u \in Into(n, names, edges) : frames[f].node[u] = "ok"
    <3>1. Into(n, names, edges) \subseteq Covered(layers)
      BY <1>4, <1>5, <1>6, <2>2
    <3> QED BY <1>2, <1>3, <2>2, <3>1, LayersFacts DEF layers
  <2> QED BY <1>1, <1>2, <1>4, <2>1, <2>2 DEF NodesMove
<1>8. \A u \in Into(n, names, edges) : frames'[f].node[u] = "ok"
  BY <1>1, <1>3, <1>4, <1>7 DEF NodesMove
<1> QED BY <1>2, <1>7, <1>8 DEF Ready, names, edges, layers

LEMMA ClosedKept ==
  ASSUME ClosedInv, Grown, TableMoves
  PROVE  ClosedInv'
<1>1. Closure(program)' = Closure(program)
  BY DEF Grown
<1>2. instances' \in Closure(program)
  BY DEF ClosedInv, TableMoves
<1>3. ASSUME NEW f \in DOMAIN frames'
      PROVE  frames'[f].dag \in Closure(program) /\ frames'[f].previous \in Closure(program)
  <2>1. CASE f \in DOMAIN frames
    BY <2>1 DEF ClosedInv, TableMoves, Grown, SameRun
  <2>2. CASE f \notin DOMAIN frames
    BY <1>3, <2>2 DEF Grown
  <2> QED BY <2>1, <2>2
<1> QED BY <1>1, <1>2, <1>3 DEF ClosedInv

LEMMA AboveFacts ==
  ASSUME ChildTypeInv, Grown, NEW g \in DOMAIN frames
  PROVE  /\ Above(g) \in DOMAIN frames /\ Above(g)' = Above(g) /\ frames'[g].dag = frames[g].dag
         /\ frames'[Above(g)].dag = frames[Above(g)].dag
<1>1. Above(g) \in DOMAIN frames /\ g \in Nat /\ g >= 1
  <2>1. DOMAIN frames = 1 .. Len(frames) /\ Len(frames) \in Nat /\ 1 \in DOMAIN frames
    BY FrameType DEF ChildTypeInv, FramesOK
  <2>2. g > 1 => frames[g].parent \in 1 .. g - 1
    BY DEF ChildTypeInv, FramesOK
  <2> QED BY <2>1, <2>2 DEF Above
<1>2. \A h \in DOMAIN frames : frames'[h].dag = frames[h].dag /\ frames'[h].parent = frames[h].parent
  BY DEF Grown, SameRun
<1> QED BY <1>1, <1>2 DEF Above

LEMMA PlaceKept ==
  ASSUME ChildTypeInv, PlaceInv, Grown, TableStays
  PROVE  PlaceInv'
<1> SUFFICES ASSUME Sequential(program)', NEW g \in Entered'
             PROVE  /\ (\A h \in Entered' : h <= g) => instances' = frames'[g].dag
                    /\ frames'[g].previous = frames'[Above(g)'].dag
  BY DEF PlaceInv
<1>1. Sequential(program) /\ g \in Entered /\ Entered' = Entered /\ g \in DOMAIN frames
  BY DEF Grown, TableStays, Entered
<1>2. /\ (\A h \in Entered : h <= g) => instances = frames[g].dag
      /\ frames[g].previous = frames[Above(g)].dag
  BY <1>1 DEF PlaceInv
<1>3. instances' = instances /\ frames'[g].previous = frames[g].previous
  BY <1>1 DEF TableStays
<1> QED BY <1>1, <1>2, <1>3, AboveFacts

LEMMA OwnKept ==
  ASSUME ChildTypeInv, OwnInstances, Grown, RanStays
  PROVE  OwnInstances'
<1> SUFFICES ASSUME Sequential(program)', NEW f \in DOMAIN frames', NEW n \in DOMAIN frames'[f].node
             PROVE  frames'[f].ran[n] \in {"not", frames'[f].dag}
  BY DEF OwnInstances, Frame, Nodes
<1>1. Sequential(program)
  BY DEF Grown
<1>2. CASE f \in DOMAIN frames
  <2>1. frames'[f].dag = frames[f].dag /\ frames'[f].ran = frames[f].ran /\ n \in DOMAIN frames[f].node
    BY <1>2 DEF Grown, SameRun, RanStays
  <2> QED BY <1>1, <1>2, <2>1 DEF OwnInstances, Frame, Nodes
<1>3. CASE f \notin DOMAIN frames
  BY <1>3 DEF Grown
<1> QED BY <1>2, <1>3

(* The steps are of that kind.                                             *)
NodesGoOn(f, t) ==
  \A n \in DOMAIN frames[f].node :
    /\ frames[f].node[n] = "ok" => t[n] = "ok"
    /\ Started(t[n]) => Started(frames[f].node[n]) \/ \A u \in Before(f, n) : frames[f].node[u] = "ok"

Under(p) == p \in {"running", "aborting"}

LEMMA BecomesKept ==
  ASSUME NEW f \in DOMAIN frames, NEW p, NEW w, NEW q, NEW t, NEW u,
         Becomes(frames, frames', f, p, w, q, t, u), program' = program, NodesGoOn(f, t)
  PROVE  /\ Grown /\ NodesMove
         /\ u = frames[f].ran => RanStays
         /\ q = frames[f].previous => \A g \in DOMAIN frames : frames'[g].previous = frames[g].previous
         /\ instances' = instances /\ q = frames[f].previous => TableMoves
         /\ Under(p) <=> Under(frames[f].phase) => Entered' = Entered
<1>1. /\ SameShape(frames, frames') /\ DOMAIN frames' = DOMAIN frames
      /\ frames'[f].phase = p /\ frames'[f].previous = q /\ frames'[f].node = t /\ frames'[f].ran = u
      /\ \A g \in DOMAIN frames \ {f} : frames'[g] = frames[g]
  BY DEF Becomes, SameShape
<1>2. Grown
  BY <1>1 DEF Grown, SameShape
<1>3. NodesMove
  <2> SUFFICES ASSUME NEW g \in DOMAIN frames, NEW n \in DOMAIN frames[g].node
      PROVE  /\ frames[g].node[n] = "ok" => frames'[g].node[n] = "ok"
             /\ Started(frames'[g].node[n]) =>
                  Started(frames[g].node[n]) \/ \A v \in Before(g, n) : frames[g].node[v] = "ok"
    BY DEF NodesMove
  <2>1. CASE g = f
    BY <1>1, <2>1 DEF NodesGoOn
  <2>2. CASE g # f
    BY <1>1, <2>2
  <2> QED BY <2>1, <2>2
<1>4. u = frames[f].ran => RanStays
  BY <1>1 DEF RanStays
<1>5. q = frames[f].previous => \A g \in DOMAIN frames : frames'[g].previous = frames[g].previous
  BY <1>1
<1>6. instances' = instances /\ q = frames[f].previous => TableMoves
  BY <1>5 DEF TableMoves
<1>7. Under(p) <=> Under(frames[f].phase) => Entered' = Entered
  BY <1>1 DEF Under, Entered
<1> QED BY <1>2, <1>3, <1>4, <1>5, <1>6, <1>7

LEMMA EndsKept ==
  ASSUME ChildTypeInv, OutcomeInv, NEW g \in DOMAIN frames, NEW p, NEW s, NEW up,
         EndsTo(g, p, s, up), program' = program, frames[g].phase \notin {"ended", "aborted"},
         ~ Under(p), s \in {"ok", "failed", "gone"},
         g # 1 => (Under(up) <=> Under(frames[frames[g].parent].phase))
  PROVE  /\ Grown /\ NodesMove /\ RanStays
         /\ \A h \in DOMAIN frames : frames'[h].previous = frames[h].previous
         /\ instances' = instances => TableMoves
         /\ Entered' = Entered \ {g}
<1> DEFINE f == frames[g].parent
           n == frames[g].via
<1>1. SameShape(frames, frames') /\ DOMAIN frames' = DOMAIN frames /\ frames'[g].phase = p
  BY DEF EndsTo, SameShape
<1>2. g # 1 => f \in DOMAIN frames /\ f # g /\ n \in DOMAIN frames[f].node /\ frames[f].node[n] = "nested"
  <2> SUFFICES ASSUME g # 1
      PROVE f \in DOMAIN frames /\ f # g /\ n \in DOMAIN frames[f].node /\ frames[f].node[n] = "nested"
    OBVIOUS
  <2>1. g \in Child /\ g \in Live \ {1}
    BY DEF Child, Live
  <2>2. f \in Entered /\ f < g /\ n \in DOMAIN frames[f].node /\ frames[f].node[n] = "nested"
    BY <2>1, LiveFacts
  <2>3. g \in Nat
    BY FrameType DEF ChildTypeInv, FramesOK
  <2> QED BY <2>2, <2>3 DEF Entered
<1>3. \A h \in DOMAIN frames :
        /\ frames'[h].previous = frames[h].previous /\ frames'[h].ran = frames[h].ran
        /\ \/ frames'[h].node = frames[h].node
           \/ g # 1 /\ h = f /\ frames'[h].node = [frames[h].node EXCEPT ![n] = s]
        /\ h # g => (Under(frames'[h].phase) <=> Under(frames[h].phase))
  <2> TAKE h \in DOMAIN frames
  <2>1. CASE h = g
    BY <2>1 DEF EndsTo
  <2>2. CASE h # g /\ (g = 1 \/ h # f)
    BY <2>2 DEF EndsTo
  <2>3. CASE h # g /\ g # 1 /\ h = f
    BY <2>3 DEF EndsTo
  <2> QED BY <2>1, <2>2, <2>3
<1>4. Grown
  BY <1>1 DEF Grown, SameShape
<1>5. NodesMove
  <2> SUFFICES ASSUME NEW h \in DOMAIN frames, NEW m \in DOMAIN frames[h].node
      PROVE  /\ frames[h].node[m] = "ok" => frames'[h].node[m] = "ok"
             /\ Started(frames'[h].node[m]) => Started(frames[h].node[m])
    BY DEF NodesMove
  <2>1. CASE frames'[h].node = frames[h].node
    BY <2>1
  <2>2. CASE g # 1 /\ h = f /\ frames'[h].node = [frames[h].node EXCEPT ![n] = s]
    <3>1. frames[h].node[n] = "nested" /\ Started("nested")
      BY <1>2, <2>2 DEF Started, Busy
    <3> HIDE DEF f, n
    <3>2. CASE m = n
      BY <2>2, <3>1, <3>2
    <3>3. CASE m # n
      BY <2>2, <3>3
    <3> QED BY <3>2, <3>3
  <2> QED BY <1>3, <2>1, <2>2
<1>6. RanStays /\ \A h \in DOMAIN frames : frames'[h].previous = frames[h].previous
  BY <1>3 DEF RanStays
<1>7. instances' = instances => TableMoves
  BY <1>6 DEF TableMoves
<1>8. Entered' = Entered \ {g}
  <2> HIDE DEF f, n
  <2>1. Entered' = {h \in DOMAIN frames : Under(frames'[h].phase)}
    BY <1>1 DEF Entered, Under
  <2>2. Entered = {h \in DOMAIN frames : Under(frames[h].phase)}
    BY DEF Entered, Under
  <2> QED BY <1>1, <1>3, <2>1, <2>2
<1> QED BY <1>4, <1>5, <1>6, <1>7, <1>8

LEMMA BeginsKept ==
  ASSUME NEW f \in DOMAIN frames, NEW n \in DOMAIN frames[f].node, NEW r, NEW ref,
         Begins(f, n, r, ref), ref \in Closure(program), frames[f].node[n] = "recording",
         program' = program, instances' = instances
  PROVE  Grown /\ NodesMove /\ RanStays /\ TableMoves /\ TableStays
<1>1. /\ DOMAIN frames' = DOMAIN frames \union {Len(frames')} /\ Len(frames') \notin DOMAIN frames
      /\ frames'[Len(frames')] = Begun(f, n, r, ref)
      /\ SameRun(frames[f], frames'[f])
      /\ \A g \in DOMAIN frames \ {f} : frames'[g] = frames[g]
      /\ frames'[f].phase = frames[f].phase
      /\ frames'[f].previous = frames[f].previous /\ frames'[f].ran = frames[f].ran
      /\ frames'[f].node = [frames[f].node EXCEPT ![n] = "nested"]
  BY DEF Begins
<1>2. \A g \in DOMAIN frames : SameRun(frames[g], frames'[g])
  BY <1>1 DEF SameRun
<1>3. /\ frames'[Len(frames')].phase = "opening" /\ frames'[Len(frames')].dag = ref
      /\ frames'[Len(frames')].previous = ref
      /\ \A m \in DOMAIN frames'[Len(frames')].node :
           frames'[Len(frames')].node[m] = "waiting" /\ frames'[Len(frames')].ran[m] = "not"
  BY <1>1 DEF Begun
<1>4. Grown
  BY <1>1, <1>2, <1>3 DEF Grown
<1>5. NodesMove
  <2> SUFFICES ASSUME NEW h \in DOMAIN frames, NEW m \in DOMAIN frames[h].node
      PROVE  /\ frames[h].node[m] = "ok" => frames'[h].node[m] = "ok"
             /\ Started(frames'[h].node[m]) => Started(frames[h].node[m])
    BY DEF NodesMove
  <2>1. CASE h # f
    BY <1>1, <2>1
  <2>2. CASE h = f /\ m # n
    BY <1>1, <2>2
  <2>3. CASE h = f /\ m = n
    BY <2>3 DEF Started, Busy
  <2> QED BY <2>1, <2>2, <2>3
<1>6. \A g \in DOMAIN frames : frames'[g].previous = frames[g].previous /\ frames'[g].ran = frames[g].ran
                               /\ frames'[g].phase = frames[g].phase
  BY <1>1
<1>7. Entered' = Entered
  <2>1. \A g \in DOMAIN frames' : g \in DOMAIN frames \/ g = Len(frames')
    BY <1>1
  <2> QED BY <1>1, <1>3, <1>6, <2>1 DEF Entered
<1> QED BY <1>4, <1>5, <1>6, <1>7 DEF RanStays, TableMoves, TableStays

LEMMA OwnStill ==
  ASSUME DagAssumption, ProgramAssumption, ChildTypeInv, OwnInv,
         Grown, NodesMove, TableMoves, TableStays, RanStays
  PROVE  OwnInv'
BY ReadyKept, ClosedKept, PlaceKept, OwnKept DEF OwnInv

(* The run that is under way last is the one whose nodes are in the table. *)
LEMMA LastEntered ==
  ASSUME DagAssumption, ProgramAssumption, ChildTypeInv, OutcomeInv, OwnInv,
         Sequential(program), NEW g \in Live,
         \A n \in DOMAIN frames[g].node : frames[g].node[n] # "nested"
  PROVE  /\ \A h \in Entered : h <= g
         /\ g \in Entered => instances = frames[g].dag
         /\ g # 1 => /\ frames[g].parent \in Entered \ {g} /\ Above(g) = frames[g].parent
                     /\ \A h \in Entered \ {g} : h <= frames[g].parent
         /\ g \notin Entered /\ g # 1 => instances = frames[Above(g)].dag
<1>1. OneAtATime
  BY OneBusy DEF OneAtATime, OwnInv
<1>2. /\ \A h \in Live : h <= g
      /\ g # 1 => /\ frames[g].parent \in Entered \ {g}
                  /\ \A h \in Entered \ {g} : h <= frames[g].parent
  BY <1>1, LastLive
<1>3. \A h \in Entered : h <= g
  BY <1>2 DEF Entered, Live
<1>4. g # 1 => Above(g) = frames[g].parent
  BY DEF Above
<1>5. \A e \in Entered : (\A h \in Entered : h <= e) => instances = frames[e].dag
  BY DEF OwnInv, PlaceInv
<1> QED BY <1>2, <1>3, <1>4, <1>5

LEMMA OwnNodeSteps ==
  ASSUME DagAssumption, BoundAssumption, ProgramAssumption,
         ChildTypeInv, OutcomeInv, OwnInv, NEW f \in Frame, NEW n \in Nodes(f),
         NodeSteps(f, n) \/ NodeRaises(f, n)
  PROVE  OwnInv'
<1>1. f \in DOMAIN frames /\ n \in DOMAIN frames[f].node
  BY DEF Frame, Nodes
<1>2. program' = program /\ instances' = instances
  BY DEF NodeSteps, StartNode, FailNode, ExecuteNested, ExecuteConfig,
         ExecuteUnknown, ExecuteHandler, HandlerEnds, NodeCancelled,
         ExecuteSubDag, Ends, NodeRaises
<1>3. {"ok", "failed", "refused"} \subseteq Status
  BY DEF Status, Settled
<1>4. ASSUME NEW s, NEW t, t = [frames[f].node EXCEPT ![n] = s],
             frames[f].node[n] \in {"waiting", "recording", "executing"},
             Started(s) => Started(frames[f].node[n]) \/ \A u \in Before(f, n) : frames[f].node[u] = "ok"
      PROVE  NodesGoOn(f, t)
  <2> SUFFICES ASSUME NEW m \in DOMAIN frames[f].node
      PROVE  /\ frames[f].node[m] = "ok" => t[m] = "ok"
             /\ Started(t[m]) => \/ Started(frames[f].node[m])
                                \/ \A u \in Before(f, m) : frames[f].node[u] = "ok"
    BY DEF NodesGoOn
  <2>1. CASE m = n
    BY <1>4, <2>1
  <2>2. CASE m # n
    BY <1>4, <2>2
  <2> QED BY <2>1, <2>2
<1>5. ASSUME NEW p, NEW s,
             Becomes(frames, frames', f, p, frames[f].row, frames[f].previous,
                     [frames[f].node EXCEPT ![n] = s], frames[f].ran),
             Under(p) <=> Under(frames[f].phase),
             frames[f].node[n] \in {"waiting", "recording", "executing"},
             Started(s) => Started(frames[f].node[n]) \/ \A u \in Before(f, n) : frames[f].node[u] = "ok"
      PROVE  OwnInv'
  <2>1. NodesGoOn(f, [frames[f].node EXCEPT ![n] = s])
    BY <1>4, <1>5
  <2>2. Grown /\ NodesMove /\ RanStays /\ TableMoves /\ TableStays
    BY <1>1, <1>2, <1>5, <2>1, BecomesKept DEF TableStays
  <2> QED BY <2>2, OwnStill
<1>6. ASSUME NEW s, NodeTo(f, n, s), frames[f].node[n] \in {"waiting", "recording", "executing"},
             Started(s) => Started(frames[f].node[n]) \/ \A u \in Before(f, n) : frames[f].node[u] = "ok"
      PROVE  OwnInv'
  BY <1>5, <1>6 DEF NodeTo
<1>7. /\ Started("recording") /\ Started("executing")
      /\ ~ Started("failed") /\ ~ Started("refused") /\ ~ Started("gone")
  BY DEF Started, Busy
<1>8. CASE StartNode(f, n)
  <2>1. /\ frames[f].node[n] = "waiting" /\ NodeTo(f, n, "recording")
        /\ \A u \in Up(f, n) : frames[f].node[u] = "ok"
    BY <1>8, NodeMoves DEF StartNode
  <2>2. Before(f, n) = Up(f, n)
    BY <1>1 DEF Before, Into, Up, Nodes, ChildTypeInv, FramesOK
  <2> QED BY <1>6, <2>1, <2>2
<1>9. CASE FailNode(f, n)
  <2>1. frames[f].node[n] = "waiting" /\ NodeTo(f, n, "failed")
    BY <1>9, NodeMoves DEF FailNode
  <2> QED BY <1>6, <1>7, <2>1
<1>10. CASE ExecuteNested(f, n)
  <2> DEFINE ref == Config(f, n).ref
  <2>1. /\ frames[f].node[n] = "recording"
        /\ NodeTo(f, n, "refused") \/ Begins(f, n, f, ref)
    BY <1>3, <1>10, NodeMoves DEF ExecuteNested
  <2>2. ref \in Closure(program)
    <3>1. frames[f].dag \in Closure(program) /\ n \in DOMAIN program.body[frames[f].dag]
      BY <1>1 DEF OwnInv, ClosedInv, ChildTypeInv, FramesOK
    <3>2. frames[f].dag \in Dag /\ program \in Programs
      BY <3>1, ClosureClosed DEF ChildTypeInv
    <3>3. program.body[frames[f].dag][n].kind = "nested"
      BY <1>10 DEF ExecuteNested, Config
    <3>4. program.body[frames[f].dag][n].ref \in NodeRefs[frames[f].dag]
      BY <3>1, <3>2, <3>3, RefsFacts
    <3> QED BY <3>1, <3>2, <3>4, ClosureClosed DEF Config
  <2> HIDE DEF ref
  <2>3. CASE Begins(f, n, f, ref)
    BY <1>1, <1>2, <2>1, <2>2, <2>3, BeginsKept, OwnStill
  <2> QED BY <1>6, <1>7, <2>1, <2>3
<1>11. CASE ExecuteConfig(f, n)
  <2> DEFINE ref == Found(f, n).ref
  <2>1. /\ frames[f].node[n] = "recording"
        /\ NodeTo(f, n, "refused") \/ Begins(f, n, 1, ref)
    BY <1>3, <1>11, NodeMoves DEF ExecuteConfig
  <2>2. ref \in Closure(program)
    <3>1. Found(f, n).kind = "config" /\ FoundIn(n) # None
      BY <1>11 DEF ExecuteConfig
    <3>2. n \in DOMAIN program.body[instances] /\ ref = program.body[instances][n].ref
          /\ program.body[instances][n].kind = "config"
      BY <3>1 DEF FoundIn, Found
    <3>3. instances \in Closure(program) /\ program \in Programs
      BY DEF OwnInv, ClosedInv, ChildTypeInv
    <3> HIDE DEF ref
    <3> QED BY <3>2, <3>3 DEF ProgramAssumption, Closure
  <2> HIDE DEF ref
  <2>3. CASE Begins(f, n, 1, ref)
    BY <1>1, <1>2, <2>1, <2>2, <2>3, BeginsKept, OwnStill
  <2> QED BY <1>6, <1>7, <2>1, <2>3
<1>12. CASE ExecuteUnknown(f, n)
  <2>1. frames[f].node[n] = "recording" /\ NodeTo(f, n, "failed")
    BY <1>3, <1>12, NodeMoves DEF ExecuteUnknown
  <2> QED BY <1>6, <1>7, <2>1
<1>13. CASE ExecuteHandler(f, n)
  <2> DEFINE u == [frames[f].ran EXCEPT ![n] = FoundIn(n)]
             t == [frames[f].node EXCEPT ![n] = "executing"]
  <2>1. /\ frames[f].phase = "running" /\ frames[f].node[n] = "recording"
        /\ Becomes(frames, frames', f, frames[f].phase, frames[f].row, frames[f].previous, t, u)
    BY <1>13, NodeMoves DEF ExecuteHandler
  <2>2. Started(frames[f].node[n])
    BY <1>7, <2>1
  <2>3. NodesGoOn(f, t)
    BY <1>4, <2>1, <2>2
  <2> HIDE DEF t, u
  <2>4. Grown /\ NodesMove /\ TableMoves /\ TableStays
    BY <1>1, <1>2, <2>1, <2>3, BecomesKept DEF TableStays
  <2>5. ReadyInv' /\ ClosedInv' /\ PlaceInv'
    BY <2>4, ReadyKept, ClosedKept, PlaceKept DEF OwnInv
  <2>6. Sequential(program) => FoundIn(n) = frames[f].dag
    <3> SUFFICES ASSUME Sequential(program) PROVE FoundIn(n) = frames[f].dag
      OBVIOUS
    <3>1. f \in Entered /\ f \in Live
      BY <1>1, <2>1 DEF Entered, Live
    <3>2. \A m \in DOMAIN frames[f].node : frames[f].node[m] # "nested"
      <4>1. "recording" \in Busy /\ "nested" \in Busy
        BY DEF Busy
      <4>2. \A m \in DOMAIN frames[f].node : frames[f].node[m] \in Busy => m = n
        BY <1>1, <2>1, <4>1, OneBusy DEF OwnInv
      <4> QED BY <2>1, <4>1, <4>2
    <3>3. instances = frames[f].dag
      BY <3>1, <3>2, LastEntered
    <3>4. n \in DOMAIN program.body[frames[f].dag]
      BY <1>1 DEF ChildTypeInv, FramesOK
    <3> QED BY <3>3, <3>4 DEF FoundIn
  <2>7. OwnInstances'
    <3> SUFFICES ASSUME Sequential(program)', NEW g \in DOMAIN frames',
                        NEW m \in DOMAIN frames'[g].node
                 PROVE  frames'[g].ran[m] \in {"not", frames'[g].dag}
      BY DEF OwnInstances, Frame, Nodes
    <3>1. /\ Sequential(program) /\ g \in DOMAIN frames /\ m \in DOMAIN frames[g].node
          /\ frames'[g].dag = frames[g].dag
      BY <1>2, <2>1 DEF Becomes, SameShape, SameRun
    <3>2. frames[g].ran[m] \in {"not", frames[g].dag}
      BY <3>1 DEF OwnInv, OwnInstances, Frame, Nodes
    <3>3. CASE g # f
      BY <2>1, <3>1, <3>2, <3>3 DEF Becomes
    <3>4. CASE g = f
      <4>1. frames'[f].ran = u /\ DOMAIN frames[f].ran = DOMAIN frames[f].node
        BY <1>1, <2>1 DEF Becomes, ChildTypeInv, FramesOK
      <4> QED BY <2>6, <3>1, <3>2, <3>4, <4>1 DEF u
    <3> QED BY <3>3, <3>4
  <2> QED BY <2>5, <2>7 DEF OwnInv
<1>14. CASE HandlerEnds(f, n)
  <2>1. /\ frames[f].node[n] = "executing"
        /\ NodeTo(f, n, "ok") \/ NodeTo(f, n, "failed")
    BY <1>3, <1>14, NodeMoves DEF HandlerEnds
  <2> QED BY <1>6, <1>7, <2>1
<1>15. CASE NodeCancelled(f, n)
  <2>1. frames[f].node[n] \in {"recording", "executing"} /\ NodeTo(f, n, "gone")
    BY <1>15, NodeMoves DEF NodeCancelled
  <2> QED BY <1>6, <1>7, <2>1
<1>16. CASE NodeRaises(f, n)
  <2>1. /\ frames[f].phase = "running" /\ frames[f].node[n] \in {"recording", "executing"}
        /\ Becomes(frames, frames', f, "aborting", frames[f].row, frames[f].previous,
                   [frames[f].node EXCEPT ![n] = "gone"], frames[f].ran)
    BY <1>16, NodeMoves DEF NodeRaises
  <2>2. Under("aborting") <=> Under(frames[f].phase)
    BY <2>1 DEF Under
  <2> QED BY <1>5, <1>7, <2>1, <2>2
<1> QED BY <1>8, <1>9, <1>10, <1>11, <1>12, <1>13, <1>14, <1>15, <1>16 DEF NodeSteps

(* A run that begins or ends puts its own table up, or that of the run     *)
(* above back, which is then the last one under way.                       *)
LEMMA PlaceEnter ==
  ASSUME DagAssumption, ProgramAssumption, ChildTypeInv, OutcomeInv, OwnInv, Grown,
         NEW g \in DOMAIN frames, frames[g].phase = "opened", g # 1,
         Entered' = Entered \union {g}, instances' = frames[g].dag, frames'[g].previous = instances,
         \A h \in DOMAIN frames \ {g} : frames'[h].previous = frames[h].previous
  PROVE  PlaceInv'
<1> SUFFICES ASSUME Sequential(program)', NEW e \in Entered'
             PROVE  /\ (\A h \in Entered' : h <= e) => instances' = frames'[e].dag
                    /\ frames'[e].previous = frames'[Above(e)'].dag
  BY DEF PlaceInv
<1>1. Sequential(program) /\ e \in DOMAIN frames
  BY DEF Grown, Entered
<1>2. g \in Live /\ g \notin Entered
  BY DEF Live, Entered
<1>3. \A n \in DOMAIN frames[g].node : frames[g].node[n] # "nested"
  <2>1. "nested" \in Busy
    BY DEF Busy
  <2> QED BY <2>1 DEF OutcomeInv, BusyInv
<1>4. (\A h \in Entered : h <= g) /\ instances = frames[Above(g)].dag
  BY <1>1, <1>2, <1>3, LastEntered
<1>5. \A h \in Entered : frames[h].previous = frames[Above(h)].dag
  BY <1>1 DEF OwnInv, PlaceInv
<1>6. frames'[e].dag = frames[e].dag /\ frames'[Above(e)'].dag = frames[Above(e)].dag
  BY <1>1, AboveFacts
<1>7. e \in Nat /\ g \in Nat
  BY <1>1, FrameType DEF ChildTypeInv, FramesOK
<1>8. CASE e = g
  BY <1>4, <1>6, <1>8
<1>9. CASE e # g
  <2>1. e \in Entered /\ frames'[e].previous = frames[e].previous
    BY <1>1, <1>9
  <2>2. e <= g /\ ~ (g <= e)
    BY <1>4, <1>7, <1>9, <2>1
  <2> QED BY <1>5, <1>6, <2>1, <2>2
<1> QED BY <1>8, <1>9

LEMMA PlaceLeave ==
  ASSUME DagAssumption, ProgramAssumption, ChildTypeInv, OutcomeInv, OwnInv, Grown,
         NEW g \in Entered, \A n \in DOMAIN frames[g].node : frames[g].node[n] # "nested",
         Entered' = Entered \ {g}, instances' = frames[g].previous,
         \A h \in DOMAIN frames : frames'[h].previous = frames[h].previous
  PROVE  PlaceInv'
<1> SUFFICES ASSUME Sequential(program)', NEW e \in Entered'
             PROVE  /\ (\A h \in Entered' : h <= e) => instances' = frames'[e].dag
                    /\ frames'[e].previous = frames'[Above(e)'].dag
  BY DEF PlaceInv
<1>1. Sequential(program) /\ e \in Entered \ {g} /\ e \in DOMAIN frames /\ g \in DOMAIN frames
  BY DEF Grown, Entered
<1>2. g \in Live
  BY DEF Live, Entered
<1>3. /\ \A h \in Entered : h <= g
      /\ g # 1 => /\ frames[g].parent \in Entered \ {g} /\ Above(g) = frames[g].parent
                  /\ \A h \in Entered \ {g} : h <= frames[g].parent
  BY <1>1, <1>2, LastEntered
<1>4. \A h \in Entered : frames[h].previous = frames[Above(h)].dag
  BY <1>1 DEF OwnInv, PlaceInv
<1>5. frames'[e].dag = frames[e].dag /\ frames'[Above(e)'].dag = frames[Above(e)].dag
  BY <1>1, AboveFacts
<1>6. \A h \in DOMAIN frames : h \in Nat /\ h >= 1
  <2>1. DOMAIN frames = 1 .. Len(frames) /\ Len(frames) \in Nat
    BY FrameType DEF ChildTypeInv, FramesOK
  <2> QED BY <2>1
<1>7. g # 1
  BY <1>1, <1>3, <1>6
<1>8. ASSUME \A h \in Entered' : h <= e PROVE e = Above(g)
  <2>1. e <= frames[g].parent /\ frames[g].parent <= e /\ frames[g].parent \in DOMAIN frames
    BY <1>1, <1>3, <1>7, <1>8 DEF Entered
  <2>2. \A h \in Nat : e \in Nat /\ e <= h /\ h <= e => e = h
    OBVIOUS
  <2>3. frames[g].parent \in Nat /\ e \in Nat
    BY <1>1, <1>6, <2>1
  <2>4. e = frames[g].parent
    BY <2>1, <2>2, <2>3
  <2> QED BY <1>3, <1>7, <2>4
<1>9. frames'[e].previous = frames[e].previous
  BY <1>1
<1> QED BY <1>1, <1>4, <1>5, <1>8, <1>9

LEMMA OwnRunSteps ==
  ASSUME DagAssumption, BoundAssumption, ProgramAssumption,
         ChildTypeInv, OutcomeInv, OwnInv, NEW g \in Frame,
         RunSteps(g) \/ LifecycleRaises(g) \/ (g = 1 /\ HardStop)
  PROVE  OwnInv'
<1>1. g \in DOMAIN frames /\ Nodes(g) = DOMAIN frames[g].node
  BY DEF Frame, Nodes
<1>2. program' = program
  BY DEF RunSteps, OpenRow, EnterRun, LeaveRun, CloseRow, Delivers,
         ChildCancelled, AbortEnds, LifecycleRaises, HardStop
<1>3. NodesGoOn(g, frames[g].node)
  BY DEF NodesGoOn
<1>4. ASSUME NEW p, NEW w, NEW q, PhaseTo(frames, frames', g, p, w, q)
      PROVE  /\ Grown /\ NodesMove /\ RanStays /\ frames'[g].phase = p /\ frames'[g].previous = q
             /\ \A h \in DOMAIN frames \ {g} : frames'[h] = frames[h]
             /\ DOMAIN frames' = DOMAIN frames
             /\ Under(p) <=> Under(frames[g].phase) => Entered' = Entered
             /\ q = frames[g].previous =>
                  \A h \in DOMAIN frames : frames'[h].previous = frames[h].previous
  BY <1>1, <1>2, <1>3, <1>4, BecomesKept DEF PhaseTo, Becomes, SameShape
<1>5. ASSUME NEW p, NEW w, PhaseTo(frames, frames', g, p, w, frames[g].previous),
             Under(p) <=> Under(frames[g].phase), instances' = instances
      PROVE  OwnInv'
  BY <1>4, <1>5, OwnStill DEF TableMoves, TableStays
<1>6. ASSUME NEW p, NEW s, NEW up, EndsTo(g, p, s, up), frames[g].phase \notin {"ended", "aborted"},
             ~ Under(p), s \in {"ok", "failed", "gone"},
             g # 1 => (Under(up) <=> Under(frames[frames[g].parent].phase))
      PROVE  /\ Grown /\ NodesMove /\ RanStays /\ Entered' = Entered \ {g}
             /\ \A h \in DOMAIN frames : frames'[h].previous = frames[h].previous
  BY <1>1, <1>2, <1>6, EndsKept
<1>7. ASSUME NEW p, NEW s, NEW up, EndsTo(g, p, s, up), frames[g].phase \notin {"ended", "aborted"},
             ~ Under(p), s \in {"ok", "failed", "gone"}, ~ Under(frames[g].phase),
             g # 1 => (Under(up) <=> Under(frames[frames[g].parent].phase)), instances' = instances
      PROVE  OwnInv'
  <2>1. /\ Grown /\ NodesMove /\ RanStays /\ Entered' = Entered \ {g}
        /\ \A h \in DOMAIN frames : frames'[h].previous = frames[h].previous
    BY <1>6, <1>7
  <2>2. g \notin Entered
    BY <1>7 DEF Under, Entered
  <2> QED BY <1>7, <2>1, <2>2, OwnStill DEF TableMoves, TableStays
<1>8. Under(UpAborting(g)) <=> Under(frames[frames[g].parent].phase)
  BY DEF Under, UpAborting
<1>9. Under("running") /\ Under("aborting") /\ \A p : p \in RunPhase \ {"running", "aborting"} => ~ Under(p)
  BY DEF Under
<1>10. {"opening", "opened", "closing", "closed", "ended", "aborted"} \subseteq RunPhase \ {"running", "aborting"}
  BY DEF RunPhase
<1>11. ASSUME Grown, NodesMove, RanStays, PlaceInv', TableMoves PROVE OwnInv'
  BY <1>11, ReadyKept, ClosedKept, OwnKept DEF OwnInv
<1>12. Idle(g) => \A n \in DOMAIN frames[g].node : frames[g].node[n] # "nested"
  BY <1>1 DEF Idle, Busy
<1>13. CASE OpenRow(g)
  <2>1. /\ frames[g].phase = "opening" /\ instances' = instances
        /\ PhaseTo(frames, frames', g, "opened", "running", frames[g].previous)
    BY <1>13, RunMoves DEF OpenRow
  <2> QED BY <1>5, <1>9, <1>10, <2>1
<1>14. CASE EnterRun(g)
  <2>0. g # 1
    <3>1. g > 1
      BY <1>14, RunMoves DEF EnterRun
    <3> QED BY <3>1
  <2>1. /\ frames[g].phase = "opened" /\ instances' = frames[g].dag /\ g # 1
        /\ PhaseTo(frames, frames', g, "running", frames[g].row, instances)
    BY <1>14, <2>0, RunMoves DEF EnterRun
  <2>2. /\ Grown /\ NodesMove /\ RanStays /\ frames'[g].phase = "running"
        /\ frames'[g].previous = instances
        /\ \A h \in DOMAIN frames \ {g} : frames'[h] = frames[h]
        /\ DOMAIN frames' = DOMAIN frames
    BY <1>4, <2>1
  <2>3. Entered' = Entered \union {g}
    BY <1>1, <2>2 DEF Entered
  <2>4. PlaceInv'
    BY <1>1, <2>1, <2>2, <2>3, PlaceEnter
  <2>5. TableMoves
    BY <1>1, <2>1, <2>2 DEF TableMoves
  <2> QED BY <1>11, <2>2, <2>4, <2>5
<1>15. CASE LeaveRun(g)
  <2> DEFINE p == IF g = 1 THEN "ended" ELSE "closing"
  <2>1. /\ frames[g].phase = "running" /\ Idle(g) /\ instances' = frames[g].previous
        /\ PhaseTo(frames, frames', g, p, frames[g].row, frames[g].previous)
    BY <1>15, RunMoves DEF LeaveRun
  <2>2. /\ Grown /\ NodesMove /\ RanStays /\ frames'[g].phase = p
        /\ \A h \in DOMAIN frames \ {g} : frames'[h] = frames[h]
        /\ DOMAIN frames' = DOMAIN frames
        /\ \A h \in DOMAIN frames : frames'[h].previous = frames[h].previous
    BY <1>4, <2>1
  <2>3. g \in Entered /\ Entered' = Entered \ {g}
    BY <1>1, <2>1, <2>2 DEF Entered
  <2>4. PlaceInv'
    BY <1>12, <2>1, <2>2, <2>3, PlaceLeave
  <2>5. TableMoves
    BY <1>1, <2>1, <2>2 DEF TableMoves
  <2> QED BY <1>11, <2>2, <2>4, <2>5
<1>16. CASE CloseRow(g)
  <2>1. /\ frames[g].phase = "closing" /\ instances' = instances
        /\ PhaseTo(frames, frames', g, "closed", Result(g), frames[g].previous)
    BY <1>16, RunMoves DEF CloseRow
  <2> QED BY <1>5, <1>9, <1>10, <2>1
<1>17. CASE Delivers(g)
  <2> DEFINE s == IF ResultOk(g) THEN "ok" ELSE "failed"
  <2>1. /\ frames[g].phase = "closed" /\ frames[frames[g].parent].phase = "running"
        /\ EndsTo(g, "ended", s, "running") /\ instances' = instances
    BY <1>17, DeliverMoves DEF Delivers
  <2>2. s \in {"ok", "failed", "gone"}
    OBVIOUS
  <2> HIDE DEF s
  <2> QED BY <1>7, <1>9, <1>10, <2>1, <2>2
<1>18. ASSUME EndsTo(g, "aborted", "gone", UpAborting(g)), instances' = instances,
              frames[g].phase \in {"opening", "opened", "closing", "closed"}
       PROVE  OwnInv'
  BY <1>7, <1>8, <1>9, <1>10, <1>18
<1>19. CASE ChildCancelled(g)
  <2>1. instances' = instances
    BY <1>19 DEF ChildCancelled
  <2>2. CASE /\ frames[g].phase = "running"
             /\ PhaseTo(frames, frames', g, "aborting", frames[g].row, frames[g].previous)
    BY <1>5, <1>9, <2>1, <2>2
  <2> QED BY <1>18, <1>19, <2>1, <2>2, LifecycleMoves
<1>20. CASE AbortEnds(g)
  <2>1. /\ frames[g].phase = "aborting" /\ Idle(g) /\ instances' = frames[g].previous
        /\ EndsTo(g, "aborted", "gone", UpAborting(g))
    BY <1>20, LifecycleMoves DEF AbortEnds
  <2>2. /\ Grown /\ NodesMove /\ RanStays /\ Entered' = Entered \ {g}
        /\ \A h \in DOMAIN frames : frames'[h].previous = frames[h].previous
    BY <1>6, <1>8, <1>9, <1>10, <2>1
  <2>3. g \in Entered
    BY <1>1, <2>1 DEF Entered
  <2>4. PlaceInv'
    BY <1>12, <2>1, <2>2, <2>3, PlaceLeave
  <2>5. TableMoves
    BY <1>1, <2>1, <2>2 DEF TableMoves
  <2> QED BY <1>11, <2>2, <2>4, <2>5
<1>21. CASE LifecycleRaises(g)
  <2>1. frames[g].phase \in {"opening", "closing"} /\ instances' = instances
    BY <1>21 DEF LifecycleRaises
  <2> QED BY <1>18, <1>21, <2>1, LifecycleMoves
<1>22. CASE g = 1 /\ HardStop
  <2>1. /\ frames[g].phase = "running" /\ instances' = instances
        /\ PhaseTo(frames, frames', g, "aborting", frames[g].row, frames[g].previous)
    BY <1>22, RunMoves DEF HardStop
  <2> QED BY <1>5, <1>9, <2>1
<1> QED BY <1>13, <1>14, <1>15, <1>16, <1>17, <1>19, <1>20, <1>21, <1>22 DEF RunSteps

LEMMA OwnFirst ==
  ASSUME DagAssumption, ProgramAssumption, NestedInit
  PROVE  OwnInv
<1>1. /\ program \in Programs /\ instances = program.root /\ DOMAIN frames = {1}
      /\ frames[1].dag = program.root /\ frames[1].previous = program.root
      /\ \A n \in DOMAIN frames[1].node : frames[1].node[n] = "waiting" /\ frames[1].ran[n] = "not"
  BY DEF NestedInit, NewFrame
<1>2. program.root \in Closure(program)
  BY <1>1, ClosureClosed
<1>3. ~ Started("waiting")
  BY DEF Started, Busy
<1>4. Entered \subseteq {1} /\ Above(1) = 1
  BY <1>1 DEF Entered, Above
<1> QED BY <1>1, <1>2, <1>3, <1>4 DEF OwnInv, ReadyInv, ClosedInv, PlaceInv, OwnInstances,
                                    Frame, Nodes

(* A handler runs with the configuration that its own DAG gives the node   *)
(* (runner.py:104-106, 332; executor.py:132).                              *)
THEOREM ChildOwnInstances ==
  ASSUME DagAssumption, BoundAssumption, ProgramAssumption
  PROVE  NestedSpec => []OwnInstances
<1>1. NestedInit => OwnInv
  BY OwnFirst
<1>2. ASSUME ChildTypeInv, OutcomeInv, OwnInv, [NestedNext]_nestedVars PROVE OwnInv'
  <2>1. 1 \in Frame
    BY <1>2, FrameType DEF ChildTypeInv, Frame, FramesOK
  <2>2. UNCHANGED <<program, frames, instances>> => OwnInv'
    BY <1>2 DEF OwnInv, ReadyInv, Ready, ClosedInv, PlaceInv, Entered, Above,
                OwnInstances, Frame, Nodes
  <2>3. Stop \/ UNCHANGED nestedVars => UNCHANGED <<program, frames, instances>>
    BY DEF Stop, nestedVars
  <2>4. HardStop => OwnInv'
    BY <1>2, <2>1, OwnRunSteps
  <2>5. \A f \in Frame : RunSteps(f) \/ LifecycleRaises(f) => OwnInv'
    BY <1>2, OwnRunSteps
  <2>6. \A f \in Frame : \A n \in Nodes(f) :
          NodeSteps(f, n) \/ NodeRaises(f, n) => OwnInv'
    BY <1>2, OwnNodeSteps
  <2> QED BY <1>2, <2>2, <2>3, <2>4, <2>5, <2>6 DEF NestedNext, Steps
<1>3. OwnInv => OwnInstances
  BY DEF OwnInv
<1> QED BY <1>1, <1>2, <1>3, ChildTypeOK, ChildOutcomeInv, PTL DEF NestedSpec
=============================================================================
