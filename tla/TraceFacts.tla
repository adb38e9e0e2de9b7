----------------------------- MODULE TraceFacts -----------------------------
(***************************************************************************)
(* What the proofs about traces share: sequences of anything, sums over    *)
(* finite sets (RunSummary!CostOf and MapThenSumSet) and the entries of a  *)
(* log in order (RunSummary!Entries).                                      *)
(*                                                                         *)
(* The facts are proved without induction, from a smallest counterexample: *)
(* the naturals and the subsets of a finite set are well-founded, so a     *)
(* family of them that is not empty has a smallest member.                 *)
(***************************************************************************)
EXTENDS RunSummary, Sequences, FiniteSetTheorems, WellFoundedInduction, TLAPS

-----------------------------------------------------------------------------
(* Sequences of anything.                                                  *)

\* A sequence, whatever it is made of.
IsSeq(s) == \E A : s \in Seq(A)

\* Its length and its domain.
LEMMA SeqShape ==
    ASSUME NEW s, IsSeq(s)
    PROVE  Len(s) \in Nat /\ DOMAIN s = 1 .. Len(s)
  BY DEF IsSeq

\* A function on 1 .. n is one.
LEMMA SeqBuild ==
    ASSUME NEW n \in Nat, NEW f
    PROVE  LET s == [i \in 1 .. n |-> f[i]]
           IN  /\ IsSeq(s) /\ Len(s) = n
               /\ \A i \in 1 .. n : s[i] = f[i]
  <1> DEFINE s == [i \in 1 .. n |-> f[i]]
             A == {f[i] : i \in 1 .. n}
  <1>1. s \in [1 .. n -> A]
    OBVIOUS
  <1>2. s \in Seq(A)
    <2> HIDE DEF s, A
    <2>1. QED  BY <1>1
  <1>3. Len(s) = n
    OBVIOUS
  <1>4. QED  BY <1>2, <1>3 DEF IsSeq

\* What a concatenation holds.
LEMMA SeqJoin ==
    ASSUME NEW s, NEW t, IsSeq(s), IsSeq(t)
    PROVE  /\ IsSeq(s \o t)
           /\ Len(s \o t) = Len(s) + Len(t)
           /\ \A i \in 1 .. Len(s) : (s \o t)[i] = s[i]
           /\ \A i \in 1 .. Len(t) : (s \o t)[Len(s) + i] = t[i]
  <1>1. PICK A : s \in Seq(A)
    BY DEF IsSeq
  <1>2. PICK B : t \in Seq(B)
    BY DEF IsSeq
  <1> DEFINE C == A \cup B
  <1>3. s \in Seq(C) /\ t \in Seq(C)
    BY <1>1, <1>2
  <1> HIDE DEF C
  <1>4. s \o t \in Seq(C)
    BY <1>3
  <1>5. QED  BY <1>3, <1>4 DEF IsSeq

\* Short ones.
LEMMA SeqNone == IsSeq(<< >>) /\ Len(<< >>) = 0
  <1>1. << >> \in Seq({})
    OBVIOUS
  <1>2. QED  BY <1>1 DEF IsSeq

\* One element.
LEMMA SeqOne ==
    ASSUME NEW e
    PROVE  IsSeq(<< e >>) /\ Len(<< e >>) = 1
  <1>1. << e >> \in Seq({e})
    OBVIOUS
  <1>2. QED  BY <1>1 DEF IsSeq

\* Two elements.
LEMMA SeqTwo ==
    ASSUME NEW d, NEW e
    PROVE  IsSeq(<< d, e >>) /\ Len(<< d, e >>) = 2
  <1>1. << d, e >> \in Seq({d, e})
    OBVIOUS
  <1>2. QED  BY <1>1 DEF IsSeq

\* Three elements.
LEMMA SeqThree ==
    ASSUME NEW d, NEW e, NEW f
    PROVE  IsSeq(<< d, e, f >>) /\ Len(<< d, e, f >>) = 3
  <1>1. << d, e, f >> \in Seq({d, e, f})
    OBVIOUS
  <1>2. QED  BY <1>1 DEF IsSeq

\* What stands for induction on the naturals: a smallest counterexample.
Less == {p \in Nat \X Nat : p[1] < p[2]}

\* The order of the naturals is well-founded.
LEMMA LessIsWellFounded == IsWellFoundedOn(Less, Nat)
  BY NatLessThanWellFounded, Zenon DEF OpToRel, Less

\* Every set of naturals that is not empty has a least member.
LEMMA Least ==
    ASSUME NEW T \in SUBSET Nat, T # {}
    PROVE  \E m \in T : \A k \in T : m <= k
  <1>1. \E m \in T : \A k \in T : ~ (<<k, m>> \in Less)
    <2> DEFINE R == Less
    <2>1. IsWellFoundedOn(R, Nat)
      BY LessIsWellFounded
    <2> HIDE DEF R
    <2>2. \E m \in T : \A k \in T : ~ (<<k, m>> \in R)
      BY <2>1, WFMin
    <2>3. QED  BY <2>2 DEF R
  <1>2. \A k, m \in Nat : <<k, m>> \in Less <=> k < m
    BY DEF Less
  <1>3. PICK m \in T : \A k \in T : ~ (<<k, m>> \in Less)
    BY <1>1
  <1>4. \A k \in T : m <= k
    <2> TAKE k \in T
    <2>1. m \in Nat /\ k \in Nat
      OBVIOUS
    <2>2. ~ (k < m)
      BY <1>2, <1>3, <2>1, Zenon
    <2>3. QED  BY <2>1, <2>2
  <1>5. QED  BY <1>4

-----------------------------------------------------------------------------
(* Sums over finite sets.                                                  *)

\* A family of finite sets has a member none of whose strict subsets is in it:
\* what stands for induction over finite sets below.
LEMMA SmallestMember ==
    ASSUME NEW S, IsFiniteSet(S), NEW F \in SUBSET SUBSET S, F # {}
    PROVE  \E T \in F : /\ IsFiniteSet(T)
                        /\ \A U \in F : U \subseteq T => U = T
  <1> DEFINE R == StrictSubsetOrdering(S)
             D == FiniteSubsetsOf(S)
  <1>1. IsWellFoundedOn(R, D)
    BY FS_StrictSubsetOrderingWellFounded
  <1>2. F \subseteq D
    BY FS_Subset DEF FiniteSubsetsOf
  <1>3. \A T \in F, U \in F : U \subseteq T /\ U # T => <<U, T>> \in R
    BY DEF StrictSubsetOrdering
  <1>4. \A T \in D : IsFiniteSet(T)
    BY DEF FiniteSubsetsOf
  <1> HIDE DEF R, D
  <1>5. PICK T \in F : \A U \in F : ~ (<<U, T>> \in R)
    BY <1>1, <1>2, WFMin
  <1>6. QED  BY <1>2, <1>3, <1>4, <1>5

\* The member the fold takes next.
Pick(s) == CHOOSE x \in s : TRUE

\* One round of the fold behind CostOf.
Round(G, g, s) == IF s = {} THEN 0 ELSE G[Pick(s)].cost + g[s \ {Pick(s)}]

\* g is the fold over the subsets of S.
Adds(G, S, g) == g = [s \in SUBSET S |-> Round(G, g, s)]

\* What is taken next is in the set.
LEMMA Picked == ASSUME NEW s, s # {} PROVE Pick(s) \in s
  BY DEF Pick

\* CostOf is a fold.
LEMMA CostOfFold ==
    ASSUME NEW G, NEW S
    PROVE  CostOf(G, S) = (CHOOSE g : Adds(G, S, g))[S]
  BY Zenon DEF CostOf, MapThenSumSet, MapThenFoldSet, Adds, Round, Pick

\* Two folds agree where both are defined.
LEMMA FoldsAgree ==
    ASSUME NEW G, NEW S, NEW T, NEW g, NEW h, IsFiniteSet(S),
           Adds(G, S, g), Adds(G, T, h), NEW U \in SUBSET S, U \subseteq T
    PROVE  g[U] = h[U]
  <1> DEFINE F == {s \in SUBSET S : s \subseteq T /\ g[s] # h[s]}
  <1>1. \A s \in SUBSET S : g[s] = Round(G, g, s)
    BY DEF Adds
  <1>2. \A s \in SUBSET T : h[s] = Round(G, h, s)
    BY DEF Adds
  <1>3. SUFFICES ASSUME F # {}  PROVE FALSE
    OBVIOUS
  <1>4. F \in SUBSET SUBSET S
    OBVIOUS
  <1>5. PICK s \in F : IsFiniteSet(s) /\ \A u \in F : u \subseteq s => u = s
    <2> HIDE DEF F
    <2>1. QED  BY <1>3, <1>4, SmallestMember
  <1>6. CASE s = {}
    BY <1>1, <1>2, <1>5, <1>6 DEF Round
  <1>7. CASE s # {}
    <2> DEFINE r == s \ {Pick(s)}
    <2>1. Pick(s) \in s
      BY <1>7, Picked
    <2>2. r \notin F
      BY <1>5, <2>1
    <2>3. r \in SUBSET S /\ r \subseteq T
      BY <1>5
    <2>4. g[r] = h[r]
      BY <2>2, <2>3
    <2>5. Round(G, g, s) = Round(G, h, s)
      BY <1>7, <2>4 DEF Round
    <2>6. QED  BY <1>1, <1>2, <1>5, <2>5
  <1>8. QED  BY <1>6, <1>7

\* Over a finite set there is a fold, and CostOf is what it comes to.
LEMMA FoldExists ==
    ASSUME NEW G, NEW S, IsFiniteSet(S)
    PROVE  \E g : Adds(G, S, g)
  <1> DEFINE F == {s \in SUBSET S : ~ \E g : Adds(G, s, g)}
             Whole(s) == CHOOSE g : Adds(G, s, g)
  <1>1. SUFFICES ASSUME F # {}  PROVE FALSE
    OBVIOUS
  <1>2. F \in SUBSET SUBSET S /\ IsFiniteSet(S)
    OBVIOUS
  <1>3. PICK s \in F : IsFiniteSet(s) /\ \A u \in F : u \subseteq s => u = s
    <2> HIDE DEF F
    <2>1. QED  BY <1>1, <1>2, SmallestMember
  <1>4. \A u \in SUBSET s : u # s => Adds(G, u, Whole(u)) /\ IsFiniteSet(u)
    <2>1. \A u \in SUBSET s : u # s => \E g : Adds(G, u, g)
      BY <1>3
    <2>2. \A u \in SUBSET s : IsFiniteSet(u)
      BY <1>3, FS_Subset
    <2>3. QED  BY <2>1, <2>2
  <1> DEFINE value(u) == Whole(u)[u]
             g == [u \in SUBSET s |->
                      IF u = {} THEN 0 ELSE G[Pick(u)].cost + value(u \ {Pick(u)})]
  <1>5. \A u \in SUBSET s : u # s => g[u] = value(u)
    <2> SUFFICES ASSUME NEW u \in SUBSET s, u # s  PROVE g[u] = value(u)
      OBVIOUS
    <2>1. value(u) = Round(G, Whole(u), u)
      <3>1. Adds(G, u, Whole(u)) /\ u \in SUBSET u
        BY <1>4
      <3> HIDE DEF Whole
      <3>2. QED  BY <3>1 DEF Adds
    <2>2. CASE u = {}
      BY <2>1, <2>2 DEF Round
    <2>3. CASE u # {}
      <3> DEFINE r == u \ {Pick(u)}
      <3>1. Pick(u) \in u
        BY <2>3, Picked
      <3>2. r \in SUBSET s /\ r # s /\ r \in SUBSET u
        OBVIOUS
      <3>3. Adds(G, u, Whole(u)) /\ Adds(G, r, Whole(r)) /\ IsFiniteSet(u)
        BY <1>4, <3>2
      <3>4. Whole(u)[r] = Whole(r)[r]
        <4> HIDE DEF Whole, r
        <4>1. QED  BY <3>2, <3>3, FoldsAgree
      <3>5. value(u) = G[Pick(u)].cost + Whole(u)[r]
        BY <2>1, <2>3 DEF Round
      <3>6. g[u] = G[Pick(u)].cost + value(r)
        BY <2>3
      <3>7. QED  BY <3>4, <3>5, <3>6
    <2>4. QED  BY <2>2, <2>3
  <1>6. \A u \in SUBSET s : g[u] = Round(G, g, u)
    <2> SUFFICES ASSUME NEW u \in SUBSET s  PROVE g[u] = Round(G, g, u)
      OBVIOUS
    <2>1. CASE u = {}
      BY <2>1 DEF Round
    <2>2. CASE u # {}
      <3> DEFINE r == u \ {Pick(u)}
      <3>1. Pick(u) \in u
        BY <2>2, Picked
      <3>2. r \in SUBSET s /\ r # s
        BY <3>1
      <3>3. g[r] = value(r)
        BY <1>5, <3>2
      <3>4. g[u] = G[Pick(u)].cost + value(r)
        BY <2>2
      <3>5. Round(G, g, u) = G[Pick(u)].cost + g[r]
        <4> HIDE DEF g
        <4>1. QED  BY <2>2 DEF Round
      <3>6. QED  BY <3>3, <3>4, <3>5
    <2>3. QED  BY <2>1, <2>2
  <1>7. g = [u \in SUBSET s |-> g[u]]
    OBVIOUS
  <1>8. Adds(G, s, g)
    <2> HIDE DEF g
    <2>1. QED  BY <1>6, <1>7 DEF Adds
  <1>9. s \in F
    BY <1>3
  <1>10. ~ Adds(G, s, g)
    <2> HIDE DEF g
    <2>1. QED  BY <1>9
  <1>11. QED  BY <1>8, <1>10

\* The equation of CostOf over a finite set, with any element taken out ...
LEMMA CostOfPicked ==
    ASSUME NEW G, NEW S, IsFiniteSet(S)
    PROVE  /\ CostOf(G, {}) = 0
           /\ S # {} => CostOf(G, S) = G[Pick(S)].cost + CostOf(G, S \ {Pick(S)})
  <1> DEFINE whole(T) == CHOOSE g : Adds(G, T, g)
  <1>1. \A T : IsFiniteSet(T) => Adds(G, T, whole(T)) /\ CostOf(G, T) = whole(T)[T]
    BY FoldExists, CostOfFold
  <1> HIDE DEF whole
  <1>2. \A T : IsFiniteSet(T) => CostOf(G, T) = Round(G, whole(T), T)
    BY <1>1 DEF Adds
  <1>3. CostOf(G, {}) = 0
    BY <1>2, FS_EmptySet DEF Round
  <1>4. ASSUME S # {}
        PROVE  CostOf(G, S) = G[Pick(S)].cost + CostOf(G, S \ {Pick(S)})
    <2> DEFINE r == S \ {Pick(S)}
    <2>1. r \in SUBSET S /\ r \subseteq r /\ IsFiniteSet(r)
      BY FS_RemoveElement
    <2> HIDE DEF r
    <2>2. whole(S)[r] = whole(r)[r]
      BY <1>1, <2>1, FoldsAgree
    <2>3. CostOf(G, S) = G[Pick(S)].cost + whole(S)[r]
      BY <1>2, <1>4 DEF Round, r
    <2>4. CostOf(G, r) = whole(r)[r]
      BY <1>1, <2>1
    <2>5. QED  BY <2>2, <2>3, <2>4 DEF r
  <1>5. QED  BY <1>3, <1>4

\* Finitely many things that cost a number.
Costs(G, S) == IsFiniteSet(S) /\ \A x \in S : G[x].cost \in Nat

\* A part of what costs ...
LEMMA CostsBelow ==
    ASSUME NEW G, NEW S, Costs(G, S), NEW T \in SUBSET S
    PROVE  Costs(G, T)
  BY FS_Subset DEF Costs

\* ... costs a number.
LEMMA CostOfType ==
    ASSUME NEW G, NEW S, Costs(G, S)
    PROVE  CostOf(G, S) \in Nat
  <1> DEFINE F == {s \in SUBSET S : CostOf(G, s) \notin Nat}
  <1>1. SUFFICES ASSUME F # {}  PROVE FALSE
    OBVIOUS
  <1>2. F \in SUBSET SUBSET S /\ IsFiniteSet(S)
    BY DEF Costs
  <1>3. PICK s \in F : IsFiniteSet(s) /\ \A u \in F : u \subseteq s => u = s
    <2> HIDE DEF F
    <2>1. QED  BY <1>1, <1>2, SmallestMember
  <1>4. s # {}
    <2>1. CostOf(G, {}) = 0
      BY <1>2, CostOfPicked
    <2>2. QED  BY <1>3, <2>1
  <1>5. Pick(s) \in s
    BY <1>4, Picked
  <1>6. CostOf(G, s \ {Pick(s)}) \in Nat
    BY <1>3, <1>5
  <1>7. CostOf(G, s) = G[Pick(s)].cost + CostOf(G, s \ {Pick(s)})
    BY <1>2, <1>3, <1>4, CostOfPicked
  <1>8. CostOf(G, s) \in Nat
    BY <1>3, <1>5, <1>6, <1>7 DEF Costs
  <1>9. QED  BY <1>3, <1>8

\* ... so that no order of the elements matters.
LEMMA CostOfWithout ==
    ASSUME NEW G, NEW S, Costs(G, S), NEW y \in S
    PROVE  CostOf(G, S) = G[y].cost + CostOf(G, S \ {y})
  <1> DEFINE F == {s \in SUBSET S : \E x \in s : CostOf(G, s) # G[x].cost + CostOf(G, s \ {x})}
  <1>1. SUFFICES ASSUME F # {}  PROVE FALSE
    OBVIOUS
  <1>2. F \in SUBSET SUBSET S /\ IsFiniteSet(S)
    BY DEF Costs
  <1>3. PICK s \in F : IsFiniteSet(s) /\ \A u \in F : u \subseteq s => u = s
    <2> HIDE DEF F
    <2>1. QED  BY <1>1, <1>2, SmallestMember
  <1>4. PICK x \in s : CostOf(G, s) # G[x].cost + CostOf(G, s \ {x})
    BY <1>3
  <1> DEFINE p == Pick(s)
             rest == (s \ {p}) \ {x}
  <1>5. p \in s
    BY <1>4, Picked
  <1>6. CostOf(G, s) = G[p].cost + CostOf(G, s \ {p})
    BY <1>2, <1>3, <1>4, CostOfPicked
  <1>7. x # p
    BY <1>4, <1>6
  <1>8. \A z \in s : s \ {z} \notin F /\ s \ {z} \in SUBSET S
    BY <1>3
  <1>9. CostOf(G, s \ {p}) = G[x].cost + CostOf(G, rest)
    BY <1>4, <1>5, <1>7, <1>8
  <1>10. (s \ {x}) \ {p} = rest
    OBVIOUS
  <1>11. CostOf(G, s \ {x}) = G[p].cost + CostOf(G, rest)
    <2>1. CostOf(G, s \ {x}) = G[p].cost + CostOf(G, (s \ {x}) \ {p})
      BY <1>4, <1>5, <1>7, <1>8
    <2>2. QED  BY <1>10, <2>1
  <1>12. G[x].cost \in Nat /\ G[p].cost \in Nat
    BY <1>3, <1>4, <1>5 DEF Costs
  <1>13. CostOf(G, rest) \in Nat
    <2>1. rest \in SUBSET S
      BY <1>3
    <2> HIDE DEF rest
    <2>2. QED  BY <2>1, CostsBelow, CostOfType
  <1> HIDE DEF rest, p
  <1>14. QED  BY <1>4, <1>6, <1>9, <1>11, <1>12, <1>13

\* What one more thing adds.
LEMMA CostOfWith ==
    ASSUME NEW G, NEW S, NEW y, y \notin S, Costs(G, S \cup {y})
    PROVE  CostOf(G, S \cup {y}) = CostOf(G, S) + G[y].cost
  <1>1. (S \cup {y}) \ {y} = S
    OBVIOUS
  <1>2. CostOf(G, S \cup {y}) = G[y].cost + CostOf(G, S)
    <2> DEFINE T == S \cup {y}
    <2>1. y \in T
      OBVIOUS
    <2> HIDE DEF T
    <2>2. CostOf(G, T) = G[y].cost + CostOf(G, T \ {y})
      BY <2>1, CostOfWithout DEF T
    <2>3. QED  BY <1>1, <2>2 DEF T
  <1>3. Costs(G, S) /\ G[y].cost \in Nat
    <2>1. S \in SUBSET (S \cup {y})
      OBVIOUS
    <2>2. QED  BY <2>1, CostsBelow DEF Costs
  <1>4. QED  BY <1>2, <1>3, CostOfType

\* Only the costs of the elements matter.
LEMMA CostOfSame ==
    ASSUME NEW G, NEW H, NEW S, IsFiniteSet(S), \A x \in S : G[x].cost = H[x].cost
    PROVE  CostOf(G, S) = CostOf(H, S)
  <1> DEFINE F == {s \in SUBSET S : CostOf(G, s) # CostOf(H, s)}
  <1>1. SUFFICES ASSUME F # {}  PROVE FALSE
    OBVIOUS
  <1>2. F \in SUBSET SUBSET S /\ IsFiniteSet(S)
    OBVIOUS
  <1>3. PICK s \in F : IsFiniteSet(s) /\ \A u \in F : u \subseteq s => u = s
    <2> HIDE DEF F
    <2>1. QED  BY <1>1, <1>2, SmallestMember
  <1>4. s # {}
    <2>1. CostOf(G, {}) = 0 /\ CostOf(H, {}) = 0
      BY CostOfPicked
    <2>2. QED  BY <1>3, <2>1
  <1>5. Pick(s) \in s
    BY <1>4, Picked
  <1>6. CostOf(G, s \ {Pick(s)}) = CostOf(H, s \ {Pick(s)})
    BY <1>3, <1>5
  <1>7. /\ CostOf(G, s) = G[Pick(s)].cost + CostOf(G, s \ {Pick(s)})
        /\ CostOf(H, s) = H[Pick(s)].cost + CostOf(H, s \ {Pick(s)})
    BY <1>2, <1>3, <1>4, CostOfPicked
  <1>8. CostOf(G, s) = CostOf(H, s)
    BY <1>3, <1>5, <1>6, <1>7
  <1>9. QED  BY <1>3, <1>8

\* One element that costs more adds what it costs more.
LEMMA CostOfRaised ==
    ASSUME NEW G, NEW H, NEW S, Costs(G, S), NEW y \in S, NEW amount \in Nat,
           H[y].cost = G[y].cost + amount,
           \A x \in S \ {y} : H[x].cost = G[x].cost
    PROVE  CostOf(H, S) = CostOf(G, S) + amount
  <1>1. Costs(H, S)
    BY DEF Costs
  <1>2. /\ CostOf(G, S) = G[y].cost + CostOf(G, S \ {y})
        /\ CostOf(H, S) = H[y].cost + CostOf(H, S \ {y})
    BY <1>1, CostOfWithout
  <1>3. CostOf(G, S \ {y}) = CostOf(H, S \ {y})
    <2>1. IsFiniteSet(S \ {y})
      BY FS_RemoveElement DEF Costs
    <2> DEFINE R == S \ {y}
    <2>2. \A x \in R : G[x].cost = H[x].cost
      OBVIOUS
    <2> HIDE DEF R
    <2>3. IsFiniteSet(R)
      BY <2>1 DEF R
    <2>4. CostOf(G, R) = CostOf(H, R)
      BY <2>2, <2>3, CostOfSame
    <2>5. QED  BY <2>4 DEF R
  <1>4. CostOf(G, S \ {y}) \in Nat /\ G[y].cost \in Nat
    <2>1. S \ {y} \in SUBSET S
      OBVIOUS
    <2>2. QED  BY <2>1, CostsBelow, CostOfType DEF Costs
  <1>5. QED  BY <1>2, <1>3, <1>4

\* What costs nothing adds up to nothing.
LEMMA CostOfNothing ==
    ASSUME NEW G, NEW S, IsFiniteSet(S), \A x \in S : G[x].cost = 0
    PROVE  CostOf(G, S) = 0
  <1> DEFINE F == {s \in SUBSET S : CostOf(G, s) # 0}
  <1>1. SUFFICES ASSUME F # {}  PROVE FALSE
    OBVIOUS
  <1>2. F \in SUBSET SUBSET S /\ IsFiniteSet(S)
    OBVIOUS
  <1>3. PICK s \in F : IsFiniteSet(s) /\ \A u \in F : u \subseteq s => u = s
    <2> HIDE DEF F
    <2>1. QED  BY <1>1, <1>2, SmallestMember
  <1>4. s # {}
    <2>1. CostOf(G, {}) = 0
      BY CostOfPicked
    <2>2. QED  BY <1>3, <2>1
  <1>5. Pick(s) \in s
    BY <1>4, Picked
  <1>6. CostOf(G, s \ {Pick(s)}) = 0 /\ G[Pick(s)].cost = 0
    BY <1>3, <1>5
  <1>7. CostOf(G, s) = G[Pick(s)].cost + CostOf(G, s \ {Pick(s)})
    BY <1>2, <1>3, <1>4, CostOfPicked
  <1>8. CostOf(G, s) = 0
    BY <1>6, <1>7
  <1>9. QED  BY <1>3, <1>8

\* A sum splits over a set and its complement.
LEMMA CostOfSplit ==
    ASSUME NEW G, NEW S, Costs(G, S), NEW A
    PROVE  CostOf(G, S) = CostOf(G, S \cap A) + CostOf(G, S \ A)
  <1> DEFINE F == {s \in SUBSET S : CostOf(G, s) # CostOf(G, s \cap A) + CostOf(G, s \ A)}
  <1>1. SUFFICES ASSUME F # {}  PROVE FALSE
    OBVIOUS
  <1>2. F \in SUBSET SUBSET S /\ IsFiniteSet(S)
    BY DEF Costs
  <1>3. PICK s \in F : IsFiniteSet(s) /\ \A u \in F : u \subseteq s => u = s
    <2> HIDE DEF F
    <2>1. QED  BY <1>1, <1>2, SmallestMember
  <1>4. s # {}
    <2>1. CostOf(G, {}) = 0
      BY <1>2, CostOfPicked
    <2>2. {} \cap A = {} /\ {} \ A = {}
      OBVIOUS
    <2>3. s = {} => CostOf(G, s) = CostOf(G, s \cap A) + CostOf(G, s \ A)
      BY <2>1, <2>2
    <2>4. QED  BY <1>3, <2>3
  <1> DEFINE p == Pick(s)
             r == s \ {p}
  <1>5. p \in s /\ s = r \cup {p} /\ p \notin r /\ r \in SUBSET S /\ s \in SUBSET S
    BY <1>3, <1>4, Picked
  <1>6. CostOf(G, r) = CostOf(G, r \cap A) + CostOf(G, r \ A)
    BY <1>3, <1>5
  <1> HIDE DEF p, r
  <1>7. /\ Costs(G, s) /\ Costs(G, s \cap A) /\ Costs(G, s \ A)
        /\ Costs(G, r) /\ Costs(G, r \cap A) /\ Costs(G, r \ A)
    <2>1. /\ s \cap A \in SUBSET S /\ s \ A \in SUBSET S
          /\ r \cap A \in SUBSET S /\ r \ A \in SUBSET S
      BY <1>5
    <2>2. QED  BY <1>5, <2>1, CostsBelow
  <1>8. /\ G[p].cost \in Nat /\ CostOf(G, r \cap A) \in Nat /\ CostOf(G, r \ A) \in Nat
    BY <1>5, <1>7, CostOfType DEF Costs
  <1>9. CostOf(G, s) = CostOf(G, r) + G[p].cost
    BY <1>5, <1>7, CostOfWith
  <1>10. CASE p \in A
    <2>1. s \cap A = (r \cap A) \cup {p} /\ p \notin r \cap A /\ s \ A = r \ A
      BY <1>5, <1>10
    <2>2. CostOf(G, s \cap A) = CostOf(G, r \cap A) + G[p].cost
      BY <1>7, <2>1, CostOfWith
    <2>3. CostOf(G, s \ A) = CostOf(G, r \ A)
      BY <2>1
    <2>4. CostOf(G, s) = CostOf(G, s \cap A) + CostOf(G, s \ A)
      BY <1>6, <1>8, <1>9, <2>2, <2>3
    <2>5. QED  BY <1>3, <2>4
  <1>11. CASE p \notin A
    <2>1. s \ A = (r \ A) \cup {p} /\ p \notin r \ A /\ s \cap A = r \cap A
      BY <1>5, <1>11
    <2>2. CostOf(G, s \ A) = CostOf(G, r \ A) + G[p].cost
      BY <1>7, <2>1, CostOfWith
    <2>3. CostOf(G, s \cap A) = CostOf(G, r \cap A)
      BY <2>1
    <2>4. CostOf(G, s) = CostOf(G, s \cap A) + CostOf(G, s \ A)
      BY <1>6, <1>8, <1>9, <2>2, <2>3
    <2>5. QED  BY <1>3, <2>4
  <1>12. QED  BY <1>10, <1>11

\* The rows of a sum: what each name costs.
RowsOf(G, S, N) == [n \in N |-> [cost |-> CostOf(G, {x \in S : G[x].tool = n})]]

\* A sum is the sum of its rows.
LEMMA CostOfRows ==
    ASSUME NEW G, NEW S, Costs(G, S), NEW N, IsFiniteSet(N), \A x \in S : G[x].tool \in N
    PROVE  CostOf(G, S) = CostOf(RowsOf(G, S, N), N)
  <1> DEFINE F == {s \in SUBSET S : CostOf(G, s) # CostOf(RowsOf(G, s, N), N)}
  <1>1. SUFFICES ASSUME F # {}  PROVE FALSE
    OBVIOUS
  <1>2. F \in SUBSET SUBSET S /\ IsFiniteSet(S)
    BY DEF Costs
  <1>3. PICK s \in F : IsFiniteSet(s) /\ \A u \in F : u \subseteq s => u = s
    <2> HIDE DEF F
    <2>1. QED  BY <1>1, <1>2, SmallestMember
  <1>4. s # {}
    <2>1. CostOf(G, {}) = 0
      BY <1>2, CostOfPicked
    <2>2. \A n \in N : RowsOf(G, {}, N)[n].cost = 0
      <3>1. \A n : {x \in {} : G[x].tool = n} = {}
        OBVIOUS
      <3>2. QED  BY <2>1, <3>1 DEF RowsOf
    <2>3. CostOf(RowsOf(G, {}, N), N) = 0
      BY <2>2, CostOfNothing
    <2>4. QED  BY <1>3, <2>1, <2>3
  <1> DEFINE p == Pick(s)
             r == s \ {p}
             mine(u, n) == {x \in u : G[x].tool = n}
  <1>5. p \in s /\ s = r \cup {p} /\ p \notin r /\ r \in SUBSET S /\ s \in SUBSET S
    BY <1>3, <1>4, Picked
  <1>6. CostOf(G, r) = CostOf(RowsOf(G, r, N), N)
    BY <1>3, <1>5
  <1> HIDE DEF p, r
  <1>7. /\ Costs(G, s) /\ Costs(G, r) /\ G[p].cost \in Nat /\ G[p].tool \in N
        /\ \A n : Costs(G, mine(s, n)) /\ Costs(G, mine(r, n))
    <2>1. \A n : mine(s, n) \in SUBSET S /\ mine(r, n) \in SUBSET S
      BY <1>5
    <2> HIDE DEF mine
    <2>2. QED  BY <1>5, <2>1, CostsBelow DEF Costs
  <1>8. CostOf(G, s) = CostOf(G, r) + G[p].cost
    BY <1>5, <1>7, CostOfWith
  <1>9. \A n \in N \ {G[p].tool} : RowsOf(G, s, N)[n].cost = RowsOf(G, r, N)[n].cost
    <2>1. \A n \in N \ {G[p].tool} : mine(s, n) = mine(r, n)
      BY <1>5
    <2>2. QED  BY <2>1 DEF RowsOf
  <1>10. RowsOf(G, s, N)[G[p].tool].cost = RowsOf(G, r, N)[G[p].tool].cost + G[p].cost
    <2> DEFINE t == G[p].tool
    <2>1. mine(s, t) = mine(r, t) \cup {p} /\ p \notin mine(r, t)
      BY <1>5
    <2>2. Costs(G, mine(r, t) \cup {p})
      BY <1>7, <2>1
    <2>3. /\ RowsOf(G, s, N)[t].cost = CostOf(G, mine(s, t))
          /\ RowsOf(G, r, N)[t].cost = CostOf(G, mine(r, t))
      BY <1>7 DEF RowsOf
    <2> DEFINE M == mine(r, t)
    <2>4. p \notin M /\ Costs(G, M \cup {p}) /\ mine(s, t) = M \cup {p}
      BY <2>1, <2>2
    <2>5. RowsOf(G, r, N)[t].cost = CostOf(G, M)
      BY <2>3
    <2> HIDE DEF t, mine, M
    <2>6. CostOf(G, M \cup {p}) = CostOf(G, M) + G[p].cost
      BY <2>4, CostOfWith
    <2>7. QED  BY <2>3, <2>4, <2>5, <2>6 DEF t
  <1>11. Costs(RowsOf(G, r, N), N)
    <2>1. \A n \in N : RowsOf(G, r, N)[n].cost = CostOf(G, mine(r, n))
      BY DEF RowsOf
    <2> HIDE DEF mine
    <2>2. QED  BY <1>7, <2>1, CostOfType DEF Costs
  <1>12. CostOf(RowsOf(G, s, N), N) = CostOf(RowsOf(G, r, N), N) + G[p].cost
    <2> DEFINE g == RowsOf(G, r, N)
               h == RowsOf(G, s, N)
    <2> HIDE DEF g, h
    <2>1. QED  BY <1>7, <1>9, <1>10, <1>11, CostOfRaised DEF g, h
  <1>13. QED  BY <1>3, <1>6, <1>8, <1>12

\* A sum over the rows of a table is what a field of them costs.
Column(rows, field, S) == MapThenSumSet(LAMBDA x : rows[x][field], S)

LEMMA SumOfRows ==
    ASSUME NEW rows, NEW field, NEW S, IsFiniteSet(S)
    PROVE  Column(rows, field, S) = CostOf([x \in S |-> [cost |-> rows[x][field]]], S)
  <1> DEFINE G == [x \in S |-> [cost |-> rows[x][field]]]
             P(g) == g = [s \in SUBSET S |->
                             IF s = {} THEN 0
                             ELSE rows[CHOOSE x \in s : TRUE][field] + g[s \ {CHOOSE x \in s : TRUE}]]
             c == CHOOSE g : P(g)
             d == CHOOSE g : Adds(G, S, g)
  <1>1. Column(rows, field, S) = c[S]
    BY Zenon DEF Column, MapThenSumSet, MapThenFoldSet
  <1>2. CostOf(G, S) = d[S]
    BY CostOfFold
  <1>3. ASSUME NEW g
        PROVE  [s \in SUBSET S |-> IF s = {} THEN 0
                                   ELSE rows[CHOOSE x \in s : TRUE][field] + g[s \ {CHOOSE x \in s : TRUE}]]
                   = [s \in SUBSET S |-> Round(G, g, s)]
    <2>1. ASSUME NEW s \in SUBSET S
          PROVE  (IF s = {} THEN 0
                  ELSE rows[CHOOSE x \in s : TRUE][field] + g[s \ {CHOOSE x \in s : TRUE}])
                     = Round(G, g, s)
      <3>1. CASE s = {}
        BY <3>1 DEF Round
      <3>2. CASE s # {}
        <4>1. Pick(s) \in S /\ G[Pick(s)].cost = rows[Pick(s)][field]
          BY <3>2, Picked
        <4> HIDE DEF G
        <4>2. QED  BY <3>2, <4>1 DEF Round, Pick
      <3>3. QED  BY <3>1, <3>2
    <2> HIDE DEF G
    <2>2. QED  BY <2>1
  <1> HIDE DEF G
  <1>4. PICK f : Adds(G, S, f)
    BY FoldExists
  <1>5. P(f)
    BY <1>3, <1>4 DEF Adds
  <1>6. P(c)
    <2> HIDE DEF P
    <2>1. QED  BY <1>5
  <1>7. Adds(G, S, c)
    <2> DEFINE e == c
    <2>1. e = [s \in SUBSET S |-> IF s = {} THEN 0
                                  ELSE rows[CHOOSE x \in s : TRUE][field] + e[s \ {CHOOSE x \in s : TRUE}]]
      BY <1>6
    <2> HIDE DEF e
    <2>2. e = [s \in SUBSET S |-> Round(G, e, s)]
      BY <1>3, <2>1
    <2>3. Adds(G, S, e)
      BY <2>2 DEF Adds
    <2>4. QED  BY <2>3 DEF e
  <1>8. Adds(G, S, d)
    BY <1>4
  <1> HIDE DEF c, d
  <1>9. c[S] = d[S]
    BY <1>7, <1>8, FoldsAgree
  <1>10. QED  BY <1>1, <1>2, <1>9 DEF G

\* What costs one each costs as many as there are.
LEMMA CostOfOnes ==
    ASSUME NEW G, NEW S, IsFiniteSet(S), \A x \in S : G[x].cost = 1
    PROVE  CostOf(G, S) = Cardinality(S)
  <1> DEFINE F == {s \in SUBSET S : CostOf(G, s) # Cardinality(s)}
  <1>1. SUFFICES ASSUME F # {}  PROVE FALSE
    OBVIOUS
  <1>2. F \in SUBSET SUBSET S /\ IsFiniteSet(S)
    OBVIOUS
  <1>3. PICK s \in F : IsFiniteSet(s) /\ \A u \in F : u \subseteq s => u = s
    <2> HIDE DEF F
    <2>1. QED  BY <1>1, <1>2, SmallestMember
  <1>4. s # {}
    <2>1. CostOf(G, {}) = 0 /\ Cardinality({}) = 0
      BY <1>2, CostOfPicked, FS_EmptySet
    <2>2. QED  BY <1>3, <2>1
  <1>5. Pick(s) \in s
    BY <1>4, Picked
  <1>6. CostOf(G, s \ {Pick(s)}) = Cardinality(s \ {Pick(s)}) /\ G[Pick(s)].cost = 1
    BY <1>3, <1>5
  <1>7. CostOf(G, s) = G[Pick(s)].cost + CostOf(G, s \ {Pick(s)})
    BY <1>2, <1>3, <1>4, CostOfPicked
  <1>8. Cardinality(s) \in Nat /\ Cardinality(s \ {Pick(s)}) = Cardinality(s) - 1
    BY <1>3, <1>5, FS_CardinalityType, FS_RemoveElement
  <1>9. CostOf(G, s) = Cardinality(s)
    BY <1>6, <1>7, <1>8
  <1>10. QED  BY <1>3, <1>9

\* The part of S that has key n, and what each part costs.
PartOf(S, key, n) == {x \in S : key[x] = n}
PartsOf(G, S, key, N) == [n \in N |-> [cost |-> CostOf(G, PartOf(S, key, n))]]

\* A sum is the sum over the parts of any partition.
LEMMA CostOfParts ==
    ASSUME NEW G, NEW S, Costs(G, S), NEW key, NEW N, IsFiniteSet(N), \A x \in S : key[x] \in N
    PROVE  CostOf(G, S) = CostOf(PartsOf(G, S, key, N), N)
  <1> DEFINE H == [x \in S |-> [cost |-> G[x].cost, tool |-> key[x]]]
  <1>1. \A x \in S : H[x].cost = G[x].cost /\ H[x].tool = key[x]
    OBVIOUS
  <1> HIDE DEF H
  <1>2. Costs(H, S) /\ \A x \in S : H[x].tool \in N
    BY <1>1 DEF Costs
  <1>3. CostOf(H, S) = CostOf(RowsOf(H, S, N), N)
    BY <1>2, CostOfRows
  <1>4. CostOf(H, S) = CostOf(G, S)
    BY <1>1, CostOfSame DEF Costs
  <1>5. \A n \in N : RowsOf(H, S, N)[n].cost = PartsOf(G, S, key, N)[n].cost
    <2> TAKE n \in N
    <2> DEFINE T == {x \in S : H[x].tool = n}
    <2>1. T = PartOf(S, key, n) /\ T \in SUBSET S
      BY <1>1 DEF PartOf
    <2>2. RowsOf(H, S, N)[n].cost = CostOf(H, T) /\ PartsOf(G, S, key, N)[n].cost = CostOf(G, PartOf(S, key, n))
      BY DEF RowsOf, PartsOf
    <2> HIDE DEF T
    <2>3. IsFiniteSet(T) /\ \A x \in T : H[x].cost = G[x].cost
      BY <1>1, <2>1, FS_Subset DEF Costs
    <2>4. CostOf(H, T) = CostOf(G, T)
      BY <2>3, CostOfSame
    <2>5. QED  BY <2>1, <2>2, <2>4
  <1>6. CostOf(RowsOf(H, S, N), N) = CostOf(PartsOf(G, S, key, N), N)
    BY <1>5, CostOfSame
  <1>7. QED  BY <1>3, <1>4, <1>6

\* The keys of a finite set are finitely many.
LEMMA KeysFinite ==
    ASSUME NEW S, IsFiniteSet(S), NEW key
    PROVE  IsFiniteSet({key[x] : x \in S})
  <1> DEFINE T == {key[x] : x \in S}
             f == [x \in S |-> key[x]]
  <1>1. f \in [S -> T] /\ \A t \in T : \E x \in S : f[x] = t
    OBVIOUS
  <1> HIDE DEF T, f
  <1>2. f \in Surjection(S, T)
    BY <1>1 DEF Surjection
  <1>3. QED  BY <1>2, FS_Surjection DEF T

\* A column that adds up the costs of the parts adds up to the whole,
LEMMA ColumnCosts ==
    ASSUME NEW rows, NEW field, NEW N, IsFiniteSet(N),
           NEW G, NEW S, Costs(G, S), NEW key, \A x \in S : key[x] \in N,
           \A n \in N : rows[n][field] = CostOf(G, PartOf(S, key, n))
    PROVE  Column(rows, field, N) = CostOf(G, S)
  <1> DEFINE H == [x \in N |-> [cost |-> rows[x][field]]]
  <1>1. Column(rows, field, N) = CostOf(H, N)
    BY SumOfRows
  <1>2. \A n \in N : H[n].cost = PartsOf(G, S, key, N)[n].cost
    BY DEF PartsOf
  <1> HIDE DEF H
  <1>3. CostOf(H, N) = CostOf(PartsOf(G, S, key, N), N)
    BY <1>2, CostOfSame
  <1>4. CostOf(G, S) = CostOf(PartsOf(G, S, key, N), N)
    BY CostOfParts
  <1>5. QED  BY <1>1, <1>3, <1>4

\* and one that counts the parts ...
Counting(rows, field, N, S, key) ==
    /\ IsFiniteSet(N) /\ IsFiniteSet(S)
    /\ \A x \in S : key[x] \in N
    /\ \A n \in N : rows[n][field] = Cardinality(PartOf(S, key, n))

\* ... counts the whole.
LEMMA ColumnCounts ==
    ASSUME NEW rows, NEW field, NEW N, NEW S, NEW key, Counting(rows, field, N, S, key)
    PROVE  Column(rows, field, N) = Cardinality(S)
  <1> DEFINE G == [x \in S |-> [cost |-> 1]]
  <1>1. \A x \in S : G[x].cost = 1
    OBVIOUS
  <1> HIDE DEF G
  <1>2. Costs(G, S)
    BY <1>1 DEF Costs, Counting
  <1>3. \A n \in N : rows[n][field] = CostOf(G, PartOf(S, key, n))
    <2> TAKE n \in N
    <2>1. PartOf(S, key, n) \in SUBSET S
      BY DEF PartOf
    <2> DEFINE T == PartOf(S, key, n)
    <2> HIDE DEF T
    <2>2. IsFiniteSet(T) /\ \A x \in T : G[x].cost = 1
      BY <1>1, <2>1, FS_Subset DEF T, Counting
    <2>3. CostOf(G, T) = Cardinality(T)
      BY <2>2, CostOfOnes
    <2>4. QED  BY <2>3 DEF T, Counting
  <1>4. Column(rows, field, N) = CostOf(G, S)
    <2>1. IsFiniteSet(N) /\ Costs(G, S) /\ \A x \in S : key[x] \in N
      BY <1>2 DEF Counting
    <2>2. QED  BY <1>3, <2>1, ColumnCosts
  <1>5. CostOf(G, S) = Cardinality(S)
    BY <1>1, CostOfOnes DEF Counting
  <1>6. QED  BY <1>4, <1>5

-----------------------------------------------------------------------------
(* The entries of a log in order.                                          *)

\* g lists the members of S, n of them, the least first.
Lists(g, n, S) ==
    /\ DOMAIN g = 1 .. n
    /\ \A k \in 1 .. n : g[k] \in S
    /\ \A j, k \in 1 .. n : j < k => g[j] < g[k]
    /\ \A i \in S : \E k \in 1 .. n : g[k] = i

\* How many members of S are below i.
Below(S, i) == {j \in S : j < i}

\* A number with more below it is larger.
LEMMA BelowGrows ==
    ASSUME NEW S \in SUBSET Nat, IsFiniteSet(S), NEW i \in S, NEW j \in S
    PROVE  /\ Cardinality(Below(S, i)) \in 0 .. Cardinality(S) - 1
           /\ i < j <=> Cardinality(Below(S, i)) < Cardinality(Below(S, j))
  <1>1. \A x \in S : IsFiniteSet(Below(S, x)) /\ Cardinality(Below(S, x)) \in Nat
    BY FS_Subset, FS_CardinalityType DEF Below
  <1>2. ASSUME NEW x \in S, NEW y \in S, x < y
        PROVE  Cardinality(Below(S, x)) < Cardinality(Below(S, y))
    <2>1. Below(S, x) \in SUBSET Below(S, y) /\ x \in Below(S, y) /\ x \notin Below(S, x)
      <3>1. \A z \in S : z \in Nat
        OBVIOUS
      <3>2. \A z \in S : z < x => z < y
        BY <1>2, <3>1
      <3>3. ~ (x < x)
        BY <3>1
      <3>4. QED  BY <1>2, <3>2, <3>3 DEF Below
    <2>2. Cardinality(Below(S, x)) <= Cardinality(Below(S, y))
      BY <1>1, <2>1, FS_Subset
    <2>3. Cardinality(Below(S, x)) # Cardinality(Below(S, y))
      BY <1>1, <2>1, FS_Subset
    <2>4. QED  BY <1>1, <2>2, <2>3
  <1>3. i < j <=> Cardinality(Below(S, i)) < Cardinality(Below(S, j))
    <2>1. i < j \/ i = j \/ j < i
      OBVIOUS
    <2>2. j < i => ~ (Cardinality(Below(S, i)) < Cardinality(Below(S, j)))
      BY <1>1, <1>2
    <2>3. i = j => ~ (Cardinality(Below(S, i)) < Cardinality(Below(S, j)))
      BY <1>1
    <2>4. i < j => Cardinality(Below(S, i)) < Cardinality(Below(S, j))
      BY <1>2
    <2>5. ~ (i = j /\ i < j) /\ ~ (j < i /\ i < j)
      OBVIOUS
    <2>6. QED  BY <2>1, <2>2, <2>3, <2>4, <2>5
  <1>4. Cardinality(Below(S, i)) \in 0 .. Cardinality(S) - 1
    <2>1. Below(S, i) \in SUBSET S /\ i \notin Below(S, i)
      BY DEF Below
    <2>2. /\ Cardinality(Below(S, i)) <= Cardinality(S)
          /\ Cardinality(Below(S, i)) # Cardinality(S)
      BY <2>1, FS_Subset
    <2>3. Cardinality(S) \in Nat
      BY FS_CardinalityType
    <2>4. QED  BY <1>1, <2>2, <2>3
  <1>5. QED  BY <1>3, <1>4

\* Ascending lists the members of a finite set.
LEMMA AscendingLists ==
    ASSUME NEW S \in SUBSET Nat, IsFiniteSet(S)
    PROVE  Lists(Ascending(S), Cardinality(S), S)
  <1> DEFINE n == Cardinality(S)
             rank(i) == Cardinality(Below(S, i))
             f == [i \in S |-> rank(i) + 1]
             g == [k \in 1 .. n |-> CHOOSE i \in S : rank(i) = k - 1]
  <1>1. n \in Nat
    BY FS_CardinalityType
  <1>2. \A i, j \in S : rank(i) \in 0 .. n - 1 /\ (i < j <=> rank(i) < rank(j))
    BY BelowGrows
  <1>3. Ascending(S) = g
    BY DEF Ascending, Below
  <1> HIDE DEF n, rank
  <1>4. \A i, j \in S : rank(i) = rank(j) => i = j
    <2> TAKE i, j \in S
    <2>1. i < j \/ i = j \/ j < i
      OBVIOUS
    <2>2. QED  BY <1>2, <2>1
  <1>5. \A i \in S : rank(i) + 1 \in 1 .. n
    BY <1>1, <1>2
  <1>6. f \in [S -> 1 .. n] /\ \A i \in S : f[i] = rank(i) + 1
    BY <1>5
  <1> HIDE DEF f
  <1>7. \A i, j \in S : f[i] = f[j] => i = j
    BY <1>2, <1>4, <1>6
  <1>8. f \in Injection(S, 1 .. n)
    BY <1>6, <1>7 DEF Injection, IsInjective
  <1>9. f \in Surjection(S, 1 .. n)
    <2>1. IsFiniteSet(1 .. n) /\ Cardinality(1 .. n) = n
      BY <1>1, FS_Interval
    <2>2. QED  BY <1>8, <2>1, FS_Injection DEF n
  <1>10. \A k \in 1 .. n : \E i \in S : rank(i) = k - 1
    <2> TAKE k \in 1 .. n
    <2>1. PICK i \in S : f[i] = k
      BY <1>9 DEF Surjection
    <2>2. QED  BY <1>1, <1>2, <1>6, <2>1
  <1>11. \A k \in 1 .. n : g[k] \in S /\ rank(g[k]) = k - 1
    BY <1>10
  <1>12. DOMAIN g = 1 .. n
    OBVIOUS
  <1> HIDE DEF g
  <1>13. \A j, k \in 1 .. n : j < k => g[j] < g[k]
    <2> TAKE j, k \in 1 .. n
    <2>1. /\ g[j] \in S /\ rank(g[j]) = j - 1 /\ g[k] \in S /\ rank(g[k]) = k - 1
      BY <1>11
    <2> DEFINE x == g[j]
               y == g[k]
    <2>2. x \in S /\ y \in S /\ rank(x) = j - 1 /\ rank(y) = k - 1
      BY <2>1
    <2> HIDE DEF x, y
    <2>3. rank(x) < rank(y) => x < y
      BY <1>2, <2>2
    <2>4. j < k => rank(x) < rank(y)
      BY <1>1, <2>2
    <2>5. QED  BY <2>3, <2>4 DEF x, y
  <1>14. \A i \in S : \E k \in 1 .. n : g[k] = i
    <2> TAKE i \in S
    <2>1. rank(i) + 1 \in 1 .. n /\ (rank(i) + 1) - 1 = rank(i)
      BY <1>2, <1>5
    <2>2. g[rank(i) + 1] = i
      BY <1>4, <1>11, <2>1
    <2>3. QED  BY <2>1, <2>2
  <1>15. Lists(g, n, S)
    BY <1>11, <1>12, <1>13, <1>14 DEF Lists
  <1>16. QED  BY <1>3, <1>15 DEF n

\* There is only one way to list a set.
LEMMA ListedOnce ==
    ASSUME NEW S \in SUBSET Nat, NEW n \in Nat, NEW g, NEW h, Lists(g, n, S), Lists(h, n, S)
    PROVE  \A k \in 1 .. n : g[k] = h[k]
  <1> DEFINE T == {k \in 1 .. n : g[k] # h[k]}
  <1>1. SUFFICES ASSUME T # {}  PROVE FALSE
    OBVIOUS
  <1>2. PICK m \in T : \A k \in T : m <= k
    <2>1. T \in SUBSET Nat
      OBVIOUS
    <2> HIDE DEF T
    <2>2. QED  BY <1>1, <2>1, Least
  <1>3. m \in 1 .. n /\ g[m] # h[m] /\ \A k \in 1 .. n : k < m => g[k] = h[k]
    BY <1>2
  <1>4. /\ g[m] \in S /\ h[m] \in S /\ g[m] \in Nat /\ h[m] \in Nat
        /\ \A k \in 1 .. n : g[k] \in Nat /\ h[k] \in Nat
    BY <1>3 DEF Lists
  <1>5. CASE g[m] < h[m]
    <2>1. PICK j \in 1 .. n : h[j] = g[m]
      BY <1>4 DEF Lists
    <2>2. j < m
      <3>1. m < j => h[m] < h[j]
        BY <1>3 DEF Lists
      <3>2. h[j] < h[m] /\ ~ (h[m] < h[j]) /\ j # m
        BY <1>4, <1>5, <2>1
      <3>3. QED  BY <1>3, <3>1, <3>2
    <2>3. g[j] = g[m] /\ g[j] < g[m]
      BY <1>3, <2>1, <2>2 DEF Lists
    <2>4. QED  BY <1>4, <2>3
  <1>6. CASE h[m] < g[m]
    <2>1. PICK j \in 1 .. n : g[j] = h[m]
      BY <1>4 DEF Lists
    <2>2. j < m
      <3>1. m < j => g[m] < g[j]
        BY <1>3 DEF Lists
      <3>2. g[j] < g[m] /\ ~ (g[m] < g[j]) /\ j # m
        BY <1>4, <1>6, <2>1
      <3>3. QED  BY <1>3, <3>1, <3>2
    <2>3. h[j] = h[m] /\ h[j] < h[m]
      BY <1>3, <2>1, <2>2 DEF Lists
    <2>4. QED  BY <1>4, <2>3
  <1>7. QED  BY <1>3, <1>4, <1>5, <1>6

\* A listed set has as many members as the list.
LEMMA ListedCount ==
    ASSUME NEW S \in SUBSET Nat, NEW n \in Nat, NEW g, Lists(g, n, S)
    PROVE  IsFiniteSet(S) /\ Cardinality(S) = n
  <1> DEFINE f == [k \in 1 .. n |-> g[k]]
  <1>1. f \in [1 .. n -> S] /\ \A k \in 1 .. n : f[k] = g[k]
    BY DEF Lists
  <1> HIDE DEF f
  <1>2. \A j, k \in 1 .. n : f[j] = f[k] => j = k
    <2> TAKE j, k \in 1 .. n
    <2>1. j < k \/ j = k \/ k < j
      OBVIOUS
    <2>2. g[j] \in Nat /\ g[k] \in Nat
      BY DEF Lists
    <2>3. (j < k => g[j] < g[k]) /\ (k < j => g[k] < g[j])
      BY DEF Lists
    <2>4. QED  BY <1>1, <2>1, <2>2, <2>3
  <1>3. \A i \in S : \E k \in 1 .. n : f[k] = i
    BY <1>1 DEF Lists
  <1>4. f \in Bijection(1 .. n, S)
    BY <1>1, <1>2, <1>3 DEF Bijection, Injection, Surjection, IsInjective
  <1>5. IsFiniteSet(1 .. n) /\ Cardinality(1 .. n) = n
    BY FS_Interval
  <1>6. ExistsBijection(1 .. n, S)
    BY <1>4 DEF ExistsBijection
  <1>7. QED  BY <1>5, <1>6, FS_Bijection

\* The entries at some places, in the order of the places.
LEMMA EntriesAre ==
    ASSUME NEW log, NEW S \in SUBSET Nat, IsFiniteSet(S)
    PROVE  /\ IsSeq(Entries(log, S)) /\ Len(Entries(log, S)) = Cardinality(S)
           /\ Cardinality(S) \in Nat
           /\ \A k \in 1 .. Cardinality(S) : Entries(log, S)[k] = log[Ascending(S)[k]]
  <1> DEFINE n == Cardinality(S)
             f == [k \in 1 .. n |-> log[Ascending(S)[k]]]
  <1>1. n \in Nat
    BY FS_CardinalityType
  <1>2. Entries(log, S) = [k \in 1 .. n |-> f[k]] /\ \A k \in 1 .. n : f[k] = log[Ascending(S)[k]]
    BY DEF Entries
  <1> HIDE DEF n, f
  <1>3. QED  BY <1>1, <1>2, SeqBuild DEF n

\* Where f is the same from each number to the next, it is the same throughout.
LEMMA SameThroughout ==
    ASSUME NEW f, NEW a \in Nat, NEW b \in Nat, a <= b,
           \A i \in Nat : a <= i /\ i < b => f[i] = f[i + 1]
    PROVE  f[a] = f[b]
  <1> DEFINE T == {i \in Nat : a <= i /\ i <= b /\ f[i] # f[a]}
  <1>1. SUFFICES ASSUME T # {}  PROVE FALSE
    BY <1>1
  <1>2. PICK m \in T : \A k \in T : m <= k
    <2>1. T \in SUBSET Nat
      OBVIOUS
    <2> HIDE DEF T
    <2>2. QED  BY <1>1, <2>1, Least
  <1>3. m \in Nat /\ a <= m /\ m <= b /\ f[m] # f[a]
    BY <1>2
  <1>4. m - 1 \in Nat /\ a <= m - 1 /\ m - 1 < b /\ (m - 1) + 1 = m
    BY <1>3
  <1>5. f[m - 1] = f[a]
    BY <1>2, <1>4
  <1>6. f[m - 1] = f[m]
    BY <1>4
  <1>7. QED  BY <1>3, <1>5, <1>6

\* Where f changes on its way from 1 to m.
Changes(f, m) == {i \in 1 .. m - 1 : f[i] # f[i + 1]}

\* Such places are listed.
LEMMA ChangesListed ==
    ASSUME NEW f, NEW m \in Nat
    PROVE  /\ Changes(f, m) \in SUBSET Nat /\ IsFiniteSet(Changes(f, m))
           /\ Cardinality(Changes(f, m)) \in Nat
           /\ Lists(Ascending(Changes(f, m)), Cardinality(Changes(f, m)), Changes(f, m))
  <1>1. Changes(f, m) \in SUBSET (1 .. m) /\ Changes(f, m) \in SUBSET Nat
    BY DEF Changes
  <1>2. IsFiniteSet(1 .. m)
    BY FS_Interval
  <1>3. IsFiniteSet(Changes(f, m))
    BY <1>1, <1>2, FS_Subset
  <1>4. QED  BY <1>1, <1>3, AscendingLists, FS_CardinalityType

\* From one change to the next nothing changes, ...
LEMMA ChangesJoin ==
    ASSUME NEW f, NEW m \in Nat, NEW n \in Nat, NEW c, Lists(c, n, Changes(f, m)),
           NEW k \in 1 .. n, k + 1 \in 1 .. n
    PROVE  f[c[k] + 1] = f[c[k + 1]]
  <1> DEFINE a == c[k] + 1
             b == c[k + 1]
  <1>1. /\ c[k] \in 1 .. m - 1 /\ b \in 1 .. m - 1 /\ c[k] < b
        /\ \A j \in 1 .. n : c[j] \in Nat
    BY DEF Lists, Changes
  <1>2. ASSUME NEW i \in Nat, a <= i, i < b, f[i] # f[i + 1]
        PROVE  FALSE
    <2>1. i \in Changes(f, m)
      BY <1>1, <1>2 DEF Changes
    <2>2. PICK j \in 1 .. n : c[j] = i
      BY <2>1 DEF Lists
    <2>3. c[k] < c[j] /\ c[j] < c[k + 1]
      BY <1>1, <1>2, <2>2
    <2>4. (j < k => c[j] < c[k]) /\ (k + 1 < j => c[k + 1] < c[j])
      BY DEF Lists
    <2>5. j < k \/ j = k \/ j = k + 1 \/ k + 1 < j
      OBVIOUS
    <2>6. QED  BY <1>1, <2>3, <2>4, <2>5
  <1>3. a \in Nat /\ b \in Nat /\ a <= b
    BY <1>1
  <1> HIDE DEF a, b
  <1>4. \A i \in Nat : a <= i /\ i < b => f[i] = f[i + 1]
    BY <1>2
  <1>5. f[a] = f[b]
    BY <1>3, <1>4, SameThroughout
  <1>6. QED  BY <1>5 DEF a, b

\* ... so that the places where it starts and those it turns to are all it visits.
LEMMA ChangesCover ==
    ASSUME NEW f, NEW m \in Nat, NEW n \in Nat, n # 0, NEW c, Lists(c, n, Changes(f, m))
    PROVE  {f[c[k] + 1] : k \in 1 .. n} \cup {f[c[1]]} = {f[i] : i \in 1 .. m}
  <1> DEFINE V == {f[c[k] + 1] : k \in 1 .. n} \cup {f[c[1]]}
  <1>1. \A k \in 1 .. n : c[k] \in 1 .. m - 1 /\ c[k] \in 1 .. m /\ c[k] + 1 \in 1 .. m
    BY DEF Lists, Changes
  <1>2. V \subseteq {f[i] : i \in 1 .. m}
    <2>1. 1 \in 1 .. n
      OBVIOUS
    <2>2. QED  BY <1>1, <2>1
  <1>3. f[1] \in V
    <2>1. 1 \in 1 .. n /\ c[1] \in 1 .. m - 1
      BY <1>1
    <2>2. ASSUME NEW i \in Nat, 1 <= i, i < c[1], f[i] # f[i + 1]
          PROVE  FALSE
      <3>1. i \in Changes(f, m)
        BY <2>1, <2>2 DEF Changes
      <3>2. PICK j \in 1 .. n : c[j] = i
        BY <3>1 DEF Lists
      <3>3. 1 < j => c[1] < c[j]
        BY <2>1 DEF Lists
      <3>4. QED  BY <2>1, <2>2, <3>2, <3>3
    <2>3. f[1] = f[c[1]]
      <3> DEFINE b == c[1]
      <3>1. b \in Nat /\ 1 <= b /\ \A i \in Nat : 1 <= i /\ i < b => f[i] = f[i + 1]
        BY <2>1, <2>2
      <3> HIDE DEF b
      <3>2. f[1] = f[b]
        BY <3>1, SameThroughout
      <3>3. QED  BY <3>2 DEF b
    <2>4. QED  BY <2>3
  <1>4. \A i \in 1 .. m : f[i] \in V
    <2> DEFINE T == {i \in 1 .. m : f[i] \notin V}
    <2>1. SUFFICES ASSUME T # {}  PROVE FALSE
      OBVIOUS
    <2>2. PICK l \in T : \A i \in T : l <= i
      <3>1. T \in SUBSET Nat
        OBVIOUS
      <3> HIDE DEF T
      <3>2. QED  BY <2>1, <3>1, Least
    <2>3. l \in 1 .. m /\ f[l] \notin V /\ l # 1
      BY <1>3, <2>2
    <2>4. l - 1 \in 1 .. m /\ l - 1 \in 1 .. m - 1 /\ (l - 1) + 1 = l /\ ~ (l <= l - 1)
      BY <2>3
    <2>5. f[l - 1] \in V
      BY <2>2, <2>4
    <2>6. l - 1 \in Changes(f, m)
      BY <2>3, <2>4, <2>5 DEF Changes
    <2>7. PICK k \in 1 .. n : c[k] = l - 1
      BY <2>6 DEF Lists
    <2>8. f[c[k] + 1] = f[l]
      BY <2>4, <2>7
    <2>9. QED  BY <2>3, <2>8
  <1>5. QED  BY <1>2, <1>4

\* Two sets of places one apart are listed one apart.
LEMMA ListedApart ==
    ASSUME NEW S \in SUBSET Nat, IsFiniteSet(S), NEW T \in SUBSET Nat, T = {i + 1 : i \in S}
    PROVE  /\ IsFiniteSet(T) /\ Cardinality(T) = Cardinality(S)
           /\ \A k \in 1 .. Cardinality(S) : Ascending(T)[k] = Ascending(S)[k] + 1
  <1> DEFINE n == Cardinality(S)
             g == Ascending(S)
             h == [k \in 1 .. n |-> g[k] + 1]
  <1>1. n \in Nat /\ Lists(g, n, S)
    BY AscendingLists, FS_CardinalityType
  <1>2. DOMAIN h = 1 .. n /\ \A k \in 1 .. n : h[k] = g[k] + 1
    OBVIOUS
  <1> HIDE DEF n, g, h
  <1>3. \A k \in 1 .. n : g[k] \in S /\ g[k] \in Nat
    BY <1>1 DEF Lists
  <1>4. Lists(h, n, T)
    <2>1. \A k \in 1 .. n : h[k] \in T
      BY <1>2, <1>3
    <2>2. \A j, k \in 1 .. n : j < k => h[j] < h[k]
      <3> TAKE j, k \in 1 .. n
      <3>1. j < k => g[j] < g[k]
        BY <1>1 DEF Lists
      <3>2. QED  BY <1>2, <1>3, <3>1
    <2>3. \A i \in T : \E k \in 1 .. n : h[k] = i
      <3> TAKE i \in T
      <3>1. PICK s \in S : i = s + 1
        OBVIOUS
      <3>2. PICK k \in 1 .. n : g[k] = s
        BY <1>1 DEF Lists
      <3>3. QED  BY <1>2, <3>1, <3>2
    <2>4. QED  BY <1>2, <2>1, <2>2, <2>3 DEF Lists
  <1>5. IsFiniteSet(T) /\ Cardinality(T) = n
    BY <1>1, <1>4, ListedCount
  <1>6. Lists(Ascending(T), n, T)
    BY <1>5, AscendingLists
  <1>7. \A k \in 1 .. n : Ascending(T)[k] = h[k]
    <2> DEFINE b == Ascending(T)
    <2>1. Lists(b, n, T)
      BY <1>6
    <2> HIDE DEF b
    <2>2. \A k \in 1 .. n : b[k] = h[k]
      BY <1>1, <1>4, <2>1, ListedOnce
    <2>3. QED  BY <2>2 DEF b
  <1>8. QED  BY <1>2, <1>5, <1>7 DEF n, g
=============================================================================
