--------------------------- MODULE Consistency_proofs ---------------------------
(***************************************************************************)
(* Lemmas about Consistency: whatever the receipts, their ranks and places *)
(* number them without gap or repetition, neighbours chain each instance,  *)
(* and the comparisons are as many as the receipts less one per instance.  *)
(***************************************************************************)
EXTENDS Consistency, FiniteSetTheorems, TLAPS

(* What the lemmas assume of the receipts of a batch: they are finitely    *)
(* many, and the walk yielded no two of them at once.                      *)
Receipts(R) ==
  /\ IsFiniteSet(R)
  /\ \A r \in R : r.genesis \in Nat /\ r.size \in Nat /\ r.at \in Nat
  /\ \A r, s \in R : r.at = s.at => r = s

(* A strict order in which any two are comparable.                         *)
Orders(L, R) ==
  /\ \A r \in R : <<r, r>> \notin L
  /\ \A r, s, t \in R : <<r, s>> \in L /\ <<s, t>> \in L => <<r, t>> \in L
  /\ \A r, s \in R : r = s \/ <<r, s>> \in L \/ <<s, r>> \in L

Before(L, R, r) == {s \in R : <<s, r>> \in L}

(* What comes before one comes before all that follow it.                  *)
LEMMA BeforeGrows ==
  ASSUME NEW R, NEW L, Orders(L, R), NEW r \in R, NEW s \in R
  PROVE  /\ <<r, s>> \in L => Before(L, R, r) \subseteq Before(L, R, s)
                              /\ r \in Before(L, R, s) /\ r \notin Before(L, R, r)
         /\ Before(L, R, r) \subseteq R /\ r \notin Before(L, R, r)
BY DEF Orders, Before

(* Every finite set of what is ordered has a first.                        *)
LEMMA FirstExists ==
  ASSUME NEW R, IsFiniteSet(R), NEW L, Orders(L, R), NEW A \in SUBSET R, A # {}
  PROVE  \E r \in A : \A s \in A : s = r \/ <<r, s>> \in L
<1> DEFINE T == {Before(L, R, r) : r \in A}
           W == StrictSubsetOrdering(R)
<1>1. IsWellFoundedOn(W, FiniteSubsetsOf(R))
  BY FS_StrictSubsetOrderingWellFounded
<1>2. T \subseteq FiniteSubsetsOf(R) /\ T # {}
  <2>1. FiniteSubsetsOf(R) = SUBSET R
    BY FS_FiniteSubsetsOfFinite
  <2>2. \A r \in A : Before(L, R, r) \in SUBSET R
    BY DEF Before
  <2> QED BY <2>1, <2>2
<1>3. \E B \in T : \A C \in T : ~(<<C, B>> \in W)
  <2> HIDE DEF T, W
  <2> QED BY <1>1, <1>2, WFMin
<1>4. PICK r \in A : \A s \in A : ~(<<Before(L, R, s), Before(L, R, r)>> \in W)
  BY <1>3
<1>5. ASSUME NEW s \in A, s # r PROVE <<r, s>> \in L
  <2>1. <<s, r>> \in L => <<Before(L, R, s), Before(L, R, r)>> \in W
    BY BeforeGrows DEF StrictSubsetOrdering
  <2> QED BY <1>4, <1>5, <2>1 DEF Orders
<1> QED BY <1>5

(* Counting what comes before each numbers them from 1, without gap.       *)
LEMMA PositionsNumber ==
  ASSUME NEW R, IsFiniteSet(R), NEW L, Orders(L, R)
  PROVE  LET position == [r \in R |-> 1 + Cardinality(Before(L, R, r))]
         IN /\ position \in Bijection(R, 1..Cardinality(R))
            /\ \A r, s \in R : position[r] < position[s] <=> <<r, s>> \in L
<1> DEFINE position == [r \in R |-> 1 + Cardinality(Before(L, R, r))]
           N == Cardinality(R)
<1>1. ASSUME NEW r \in R
      PROVE  /\ IsFiniteSet(Before(L, R, r)) /\ Cardinality(Before(L, R, r)) \in Nat
             /\ Cardinality(Before(L, R, r)) < N
  <2>1. Before(L, R, r) \in SUBSET R /\ Before(L, R, r) # R
    <3>1. Before(L, R, r) \subseteq R /\ r \notin Before(L, R, r)
      BY BeforeGrows
    <3> QED BY <3>1
  <2>2. /\ IsFiniteSet(Before(L, R, r)) /\ Cardinality(Before(L, R, r)) <= N
        /\ Cardinality(Before(L, R, r)) # N
    BY <2>1, FS_Subset
  <2> QED BY <2>2, FS_CardinalityType
<1>2. ASSUME NEW r \in R, NEW s \in R, <<r, s>> \in L
      PROVE  Cardinality(Before(L, R, r)) < Cardinality(Before(L, R, s))
  <2>1. Before(L, R, r) \in SUBSET Before(L, R, s) /\ Before(L, R, r) # Before(L, R, s)
    BY <1>2, BeforeGrows
  <2>2. /\ Cardinality(Before(L, R, r)) <= Cardinality(Before(L, R, s))
        /\ Cardinality(Before(L, R, r)) # Cardinality(Before(L, R, s))
    BY <1>1, <2>1, FS_Subset
  <2> QED BY <1>1, <2>2
<1>3. N \in Nat
  BY FS_CardinalityType
<1>4. position \in [R -> 1..N]
  <2> SUFFICES ASSUME NEW r \in R PROVE 1 + Cardinality(Before(L, R, r)) \in 1..N
    OBVIOUS
  <2> HIDE DEF N
  <2> QED BY <1>1, <1>3
<1>5. \A r, s \in R : <<r, s>> \in L => position[r] < position[s]
  BY <1>1, <1>2
<1>6. \A r \in R : position[r] \in Nat
  BY <1>1
<1> HIDE DEF position
<1>7. ASSUME NEW r \in R, NEW s \in R
      PROVE  /\ position[r] < position[s] <=> <<r, s>> \in L
             /\ position[r] = position[s] => r = s
  <2>1. position[r] \in Nat /\ position[s] \in Nat
    BY <1>6
  <2>2. <<r, s>> \in L => position[r] < position[s]
    BY <1>5
  <2>3. <<s, r>> \in L => position[s] < position[r]
    BY <1>5
  <2>4. r = s \/ <<r, s>> \in L \/ <<s, r>> \in L
    BY DEF Orders
  <2> QED BY <2>1, <2>2, <2>3, <2>4
<1>8. position \in Injection(R, 1..N)
  BY <1>4, <1>7 DEF Injection, IsInjective
<1>9. IsFiniteSet(1..N) /\ Cardinality(1..N) = N
  <2>1. Cardinality(1..N) = IF 1 > N THEN 0 ELSE N - 1 + 1
    BY <1>3, FS_Interval
  <2> HIDE DEF N
  <2>2. Cardinality(1..N) = N
    BY <1>3, <2>1
  <2> QED BY <1>3, <2>2, FS_Interval
<1>10. position \in Surjection(R, 1..N)
  BY <1>8, <1>9, FS_Injection
<1> QED BY <1>7, <1>8, <1>10 DEF position, Bijection

-----------------------------------------------------------------------------
(* The order in which the participants are listed.                         *)
Precedes(R) ==
  {p \in R \X R :
     \/ p[1].genesis < p[2].genesis
     \/ p[1].genesis = p[2].genesis /\ p[1].size < p[2].size
     \/ p[1].genesis = p[2].genesis /\ p[1].size = p[2].size /\ p[1].at < p[2].at}

Instance(R, g) == {r \in R : r.genesis = g}

(* It is an order of all of them, and so of those of each instance.        *)
LEMMA PrecedesOrders ==
  ASSUME NEW R, Receipts(R), NEW G \in SUBSET R
  PROVE  Orders(Precedes(R), G) /\ IsFiniteSet(G)
<1>1. \A r \in R : r.genesis \in Nat /\ r.size \in Nat /\ r.at \in Nat
  BY DEF Receipts
<1>2. \A r, s \in R : r.at = s.at => r = s
  BY DEF Receipts
<1>3. \A r, s \in R : <<r, s>> \in Precedes(R) <=>
        \/ r.genesis < s.genesis
        \/ r.genesis = s.genesis /\ r.size < s.size
        \/ r.genesis = s.genesis /\ r.size = s.size /\ r.at < s.at
  BY DEF Precedes
<1>4. \A r \in G : <<r, r>> \notin Precedes(R)
  BY <1>1, <1>3
<1>5. ASSUME NEW r \in G, NEW s \in G, NEW t \in G,
             <<r, s>> \in Precedes(R), <<s, t>> \in Precedes(R)
      PROVE  <<r, t>> \in Precedes(R)
  BY <1>1, <1>3, <1>5
<1>6. ASSUME NEW r \in G, NEW s \in G, r # s
      PROVE  <<r, s>> \in Precedes(R) \/ <<s, r>> \in Precedes(R)
  BY <1>1, <1>2, <1>3, <1>6
<1>7. IsFiniteSet(G)
  BY FS_Subset DEF Receipts
<1> QED BY <1>4, <1>5, <1>6, <1>7 DEF Orders

(* Places number the participants without gap or repetition.               *)
LEMMA PlacesNumber ==
  ASSUME NEW R, Receipts(R)
  PROVE  [r \in R |-> Place(R, r)] \in Bijection(R, 1..Cardinality(R))
<1> DEFINE L == Precedes(R)
<1>1. ASSUME NEW r \in R PROVE Place(R, r) = 1 + Cardinality(Before(L, R, r))
  <2> DEFINE lower == {s \in R : s.genesis < r.genesis}
             within == {s \in R : /\ s.genesis = r.genesis
                                  /\ \/ s.size < r.size
                                     \/ s.size = r.size /\ s.at < r.at}
  <2>1. Before(L, R, r) = lower \cup within
    BY DEF Before, Precedes
  <2>2. \A s \in R : s.genesis \in Nat
    BY DEF Receipts
  <2>3. lower \cap within = {}
    BY <2>2
  <2>4. lower \in SUBSET R /\ within \in SUBSET R
    OBVIOUS
  <2>5. Place(R, r) = Cardinality(lower) + (1 + Cardinality(within))
    BY DEF Place, Base, Rank
  <2> HIDE DEF lower, within
  <2>6. IsFiniteSet(lower) /\ IsFiniteSet(within)
    BY <2>4, FS_Subset DEF Receipts
  <2>7. Cardinality(lower) \in Nat /\ Cardinality(within) \in Nat
    BY <2>6, FS_CardinalityType
  <2>8. Cardinality(lower \cap within) = 0
    BY <2>3, FS_EmptySet
  <2>9. Cardinality(lower \cup within) =
          Cardinality(lower) + Cardinality(within) - Cardinality(lower \cap within)
    BY <2>6, FS_Union
  <2>10. Cardinality(lower \cup within) = Cardinality(lower) + Cardinality(within)
    BY <2>7, <2>8, <2>9
  <2> QED BY <2>1, <2>5, <2>7, <2>10
<1>2. Orders(L, R) /\ IsFiniteSet(R)
  BY PrecedesOrders
<1>3. [r \in R |-> 1 + Cardinality(Before(L, R, r))] \in Bijection(R, 1..Cardinality(R))
  BY <1>2, PositionsNumber
<1>4. [r \in R |-> Place(R, r)] = [r \in R |-> 1 + Cardinality(Before(L, R, r))]
  BY <1>1
<1> QED BY <1>3, <1>4

(* Ranks number the receipts of each instance, in the same order.          *)
LEMMA RanksNumber ==
  ASSUME NEW R, Receipts(R), NEW g
  PROVE  LET G == Instance(R, g)
         IN /\ [r \in G |-> Rank(R, r)] \in Bijection(G, 1..Cardinality(G))
            /\ \A r, s \in G : Rank(R, r) < Rank(R, s) <=> <<r, s>> \in Precedes(R)
<1> DEFINE L == Precedes(R)
           G == Instance(R, g)
           position == [r \in G |-> 1 + Cardinality(Before(L, G, r))]
<1>1. G \in SUBSET R
  BY DEF Instance
<1>2. ASSUME NEW r \in G PROVE Rank(R, r) = 1 + Cardinality(Before(L, G, r))
  <2>1. \A s \in R : s.genesis \in Nat
    BY DEF Receipts
  <2>2. Before(L, G, r) = {s \in R : /\ s.genesis = r.genesis
                                     /\ \/ s.size < r.size
                                        \/ s.size = r.size /\ s.at < r.at}
    BY <2>1 DEF Before, Precedes, Instance
  <2> QED BY <2>2 DEF Rank
<1>3. Orders(L, G) /\ IsFiniteSet(G)
  BY <1>1, PrecedesOrders
<1> HIDE DEF L, G
<1>4. /\ position \in Bijection(G, 1..Cardinality(G))
      /\ \A r, s \in G : position[r] < position[s] <=> <<r, s>> \in L
  BY <1>3, PositionsNumber
<1>5. [r \in G |-> Rank(R, r)] = position
  BY <1>2
<1>6. \A r \in G : Rank(R, r) = position[r]
  BY <1>2
<1> HIDE DEF position
<1>7. \A r, s \in G : Rank(R, r) < Rank(R, s) <=> <<r, s>> \in L
  BY <1>4, <1>6
<1> QED BY <1>4, <1>5, <1>7 DEF L, G

(* A receipt that is not the first of its instance follows another.        *)
LEMMA PredecessorExists ==
  ASSUME NEW R, Receipts(R), NEW t \in R, Rank(R, t) # 1
  PROVE  \E s \in R : <<s, t>> \in Windows(R) /\ <<s, t>> \in Precedes(R)
<1> DEFINE G == Instance(R, t.genesis)
           N == Cardinality(G)
           rank == [r \in G |-> Rank(R, r)]
<1>1. /\ rank \in Bijection(G, 1..N)
      /\ \A r, s \in G : Rank(R, r) < Rank(R, s) <=> <<r, s>> \in Precedes(R)
  BY RanksNumber
<1>2. t \in G /\ N \in Nat
  <2>1. IsFiniteSet(G)
    BY PrecedesOrders DEF Instance
  <2> QED BY <2>1, FS_CardinalityType DEF Instance
<1>3. \A r \in G : rank[r] = Rank(R, r)
  OBVIOUS
<1> HIDE DEF rank, N, G
<1>4. rank \in [G -> 1..N] /\ \A k \in 1..N : \E r \in G : rank[r] = k
  BY <1>1 DEF Bijection, Surjection
<1>5. rank[t] \in 1..N /\ rank[t] # 1
  BY <1>2, <1>3, <1>4
<1>6. rank[t] - 1 \in 1..N
  BY <1>2, <1>5
<1>7. PICK s \in G : rank[s] = rank[t] - 1
  BY <1>4, <1>6
<1>8. Rank(R, t) = Rank(R, s) + 1 /\ Rank(R, s) < Rank(R, t)
  BY <1>2, <1>3, <1>5, <1>7
<1>9. s \in R /\ s.genesis = t.genesis
  BY DEF G, Instance
<1> QED BY <1>1, <1>2, <1>8, <1>9 DEF Windows

(* Neighbours are enough: of any two parts of an instance some receipt of  *)
(* one is compared with some receipt of the other.                         *)
LEMMA NeighboursChain ==
  ASSUME NEW R, Receipts(R), NEW g, NEW A \in SUBSET Instance(R, g),
         A # {}, A # Instance(R, g)
  PROVE  \E w \in Windows(R) :
           \/ w[1] \in A /\ w[2] \in Instance(R, g) \ A
           \/ w[2] \in A /\ w[1] \in Instance(R, g) \ A
<1> DEFINE L == Precedes(R)
           G == Instance(R, g)
           B == G \ A
<1>1. Orders(L, G) /\ IsFiniteSet(G) /\ G \subseteq R
  BY PrecedesOrders DEF Instance
<1>2. PICK a \in A : \A s \in A : s = a \/ <<a, s>> \in L
  BY <1>1, FirstExists
<1>3. PICK b \in B : \A s \in B : s = b \/ <<b, s>> \in L
  <2>1. B \in SUBSET G /\ B # {}
    OBVIOUS
  <2> HIDE DEF B, G, L
  <2> QED BY <1>1, <2>1, FirstExists
<1>4. a \in G /\ b \in G /\ a # b
  OBVIOUS
<1>5. Rank(R, a) # 1 \/ Rank(R, b) # 1
  <2> DEFINE rank == [r \in G |-> Rank(R, r)]
  <2>1. rank \in Bijection(G, 1..Cardinality(G))
    BY RanksNumber
  <2>2. rank[a] = Rank(R, a) /\ rank[b] = Rank(R, b)
    BY <1>4
  <2> HIDE DEF rank, G
  <2> QED BY <1>4, <2>1, <2>2 DEF Bijection, Injection, IsInjective
<1>6. ASSUME NEW C, NEW D, C \cup D = G, NEW c \in C, Rank(R, c) # 1,
             \A s \in C : s = c \/ <<c, s>> \in L
      PROVE  \E w \in Windows(R) : w[1] \in D /\ w[2] \in C
  <2>1. c \in R /\ c \in G
    BY <1>1, <1>6
  <2>2. PICK s \in R : <<s, c>> \in Windows(R) /\ <<s, c>> \in L
    BY <1>6, <2>1, PredecessorExists
  <2>3. s.genesis = c.genesis
    BY <2>2 DEF Windows
  <2>4. s \in G
    BY <2>1, <2>3 DEF Instance
  <2>5. s \notin C
    BY <1>1, <1>6, <2>1, <2>2, <2>4 DEF Orders
  <2> QED BY <1>6, <2>2, <2>4, <2>5
<1>7. A \cup B = G /\ B \cup A = G
  OBVIOUS
<1>8. CASE Rank(R, a) # 1
  BY <1>2, <1>6, <1>7, <1>8
<1>9. CASE Rank(R, b) # 1
  BY <1>3, <1>6, <1>7, <1>9
<1> QED BY <1>5, <1>8, <1>9

-----------------------------------------------------------------------------
(* The list of participants has each receipt's name at its place, and      *)
(* nothing else.                                                           *)
LEMMA ParticipantsListed ==
  ASSUME NEW R, Receipts(R)
  PROVE  LET c == VerifyConsistency(R)
         IN /\ DOMAIN c.participants = 1..Cardinality(R)
            /\ Len(c.participants) = Cardinality(R)
            /\ \A r \in R : /\ Place(R, r) \in DOMAIN c.participants
                            /\ c.participants[Place(R, r)] = r.name
            /\ \A k \in DOMAIN c.participants : \E r \in R : c.participants[k] = r.name
            /\ \A r, s \in R : Place(R, r) = Place(R, s) => r = s
<1> DEFINE N == Cardinality(R)
           at(k) == CHOOSE r \in R : Place(R, r) = k
           list == [k \in 1..N |-> at(k).name]
           place == [r \in R |-> Place(R, r)]
<1>1. VerifyConsistency(R).participants = list
  BY DEF VerifyConsistency
<1>2. N \in Nat
  BY FS_CardinalityType DEF Receipts
<1>3. place \in Bijection(R, 1..N)
  BY PlacesNumber
<1>4. \A r \in R : place[r] = Place(R, r)
  OBVIOUS
<1> HIDE DEF place, N
<1>5. /\ place \in [R -> 1..N]
      /\ \A r, s \in R : place[r] = place[s] => r = s
      /\ \A k \in 1..N : \E r \in R : place[r] = k
  BY <1>3 DEF Bijection, Injection, IsInjective, Surjection
<1>6. /\ \A r \in R : Place(R, r) \in 1..N
      /\ \A r, s \in R : Place(R, r) = Place(R, s) => r = s
      /\ \A k \in 1..N : \E r \in R : Place(R, r) = k
  BY <1>4, <1>5
<1>7. \A k \in 1..N : at(k) \in R /\ Place(R, at(k)) = k
  BY <1>6
<1>8. ASSUME NEW r \in R PROVE at(Place(R, r)) = r
  BY <1>6, <1>7
<1> HIDE DEF at
<1>9. DOMAIN list = 1..N /\ \A k \in 1..N : list[k] = at(k).name
  OBVIOUS
<1>10. list \in Seq({r.name : r \in R}) /\ Len(list) = N
  <2>1. list \in [1..N -> {r.name : r \in R}]
    BY <1>7
  <2>2. list \in Seq({r.name : r \in R})
    BY <1>2, <2>1
  <2> HIDE DEF list
  <2>3. Len(list) \in Nat /\ DOMAIN list = 1..Len(list)
    BY <2>2
  <2>4. Len(list) = N
    BY <1>2, <1>9, <2>3
  <2> QED BY <2>2, <2>4
<1> HIDE DEF list
<1> QED BY <1>1, <1>6, <1>7, <1>8, <1>9, <1>10 DEF N

(* Every comparison is of two receipts of one instance, by their places.   *)
LEMMA ChecksAreOfWindows ==
  ASSUME NEW R, NEW check
  PROVE  check \in CrossResults(R) <=>
           \E w \in Windows(R) :
             check = CrossCheck(w[1], Place(R, w[1]), w[2], Place(R, w[2]))
BY DEF CrossResults

(* A window is of two receipts of one instance, the smaller tree first.    *)
LEMMA WindowMeans ==
  ASSUME NEW R, Receipts(R), NEW w \in Windows(R)
  PROVE  /\ w[1] \in R /\ w[2] \in R /\ w[1] # w[2] /\ w = <<w[1], w[2]>>
         /\ w[1].genesis = w[2].genesis /\ w[1].size <= w[2].size
         /\ Rank(R, w[2]) = Rank(R, w[1]) + 1
         /\ Rank(R, w[1]) \in Nat
<1>1. /\ w[1] \in R /\ w[2] \in R /\ w = <<w[1], w[2]>>
      /\ w[1].genesis = w[2].genesis /\ Rank(R, w[2]) = Rank(R, w[1]) + 1
  BY DEF Windows
<1> DEFINE G == Instance(R, w[1].genesis)
           rank == [r \in G |-> Rank(R, r)]
<1>2. w[1] \in G /\ w[2] \in G
  BY <1>1 DEF Instance
<1>3. /\ rank \in Bijection(G, 1..Cardinality(G))
      /\ \A r, s \in G : Rank(R, r) < Rank(R, s) <=> <<r, s>> \in Precedes(R)
  BY RanksNumber
<1>4. rank[w[1]] = Rank(R, w[1])
  BY <1>2
<1> HIDE DEF rank, G
<1>5. Rank(R, w[1]) \in Nat
  BY <1>2, <1>3, <1>4 DEF Bijection, Injection
<1>6. <<w[1], w[2]>> \in Precedes(R)
  BY <1>1, <1>2, <1>3, <1>5
<1>7. w[1].size <= w[2].size
  BY <1>1, <1>6 DEF Precedes, Receipts
<1>8. w[1] # w[2]
  BY <1>1, <1>5
<1> QED BY <1>1, <1>5, <1>7, <1>8

(* There are as many comparisons as receipts, less one per instance.       *)
LEMMA ComparisonsCounted ==
  ASSUME NEW R, Receipts(R)
  PROVE  /\ IsFiniteSet(CrossResults(R)) /\ IsFiniteSet(Instances(R))
         /\ Cardinality(CrossResults(R)) \in Nat /\ Cardinality(Instances(R)) \in Nat
         /\ Cardinality(CrossResults(R)) + Cardinality(Instances(R)) = Cardinality(R)
<1> DEFINE firsts == {r \in R : Rank(R, r) = 1}
           others == {r \in R : Rank(R, r) # 1}
<1>1. IsFiniteSet(firsts) /\ IsFiniteSet(others) /\ IsFiniteSet(R)
  BY FS_Subset DEF Receipts
<1>2. ASSUME NEW r \in R, NEW s \in R, r.genesis = s.genesis, Rank(R, r) = Rank(R, s)
      PROVE  r = s
  <2> DEFINE G == Instance(R, r.genesis)
             rank == [x \in G |-> Rank(R, x)]
  <2>1. r \in G /\ s \in G
    BY <1>2 DEF Instance
  <2>2. rank \in Bijection(G, 1..Cardinality(G))
    BY RanksNumber
  <2>3. rank[r] = rank[s]
    BY <1>2, <2>1
  <2> HIDE DEF rank, G
  <2> QED BY <2>1, <2>2, <2>3 DEF Bijection, Injection, IsInjective
<1>3. ASSUME NEW g \in Instances(R) PROVE \E r \in firsts : r.genesis = g
  <2> DEFINE G == Instance(R, g)
             rank == [x \in G |-> Rank(R, x)]
  <2>1. rank \in Bijection(G, 1..Cardinality(G))
    BY RanksNumber
  <2>2. IsFiniteSet(G) /\ G # {}
    BY PrecedesOrders DEF Instance, Instances
  <2>3. 1 \in 1..Cardinality(G)
    <3> HIDE DEF G
    <3>1. Cardinality(G) \in Nat /\ Cardinality(G) # 0
      BY <2>2, FS_CardinalityType, FS_EmptySet
    <3> QED BY <3>1
  <2>4. \E x \in G : rank[x] = 1
    <3> HIDE DEF rank
    <3> QED BY <2>1, <2>3 DEF Bijection, Surjection
  <2>5. PICK x \in G : Rank(R, x) = 1
    BY <2>4
  <2> QED BY <2>5 DEF Instance
<1>4. IsFiniteSet(Instances(R)) /\ Cardinality(Instances(R)) = Cardinality(firsts)
  <2> DEFINE f == [r \in firsts |-> r.genesis]
  <2>1. f \in [firsts -> Instances(R)]
    BY DEF Instances
  <2>2. \A r, s \in firsts : f[r] = f[s] => r = s
    BY <1>2
  <2>3. \A g \in Instances(R) : \E r \in firsts : f[r] = g
    BY <1>3
  <2> HIDE DEF f, firsts
  <2>4. f \in Bijection(firsts, Instances(R))
    BY <2>1, <2>2, <2>3 DEF Bijection, Injection, IsInjective, Surjection
  <2> QED BY <1>1, <2>4, FS_Bijection DEF ExistsBijection
<1>5. IsFiniteSet(CrossResults(R)) /\ Cardinality(CrossResults(R)) = Cardinality(others)
  <2> DEFINE before(t) == CHOOSE s \in R : <<s, t>> \in Windows(R)
             f == [t \in others |-> CrossCheck(before(t), Place(R, before(t)), t, Place(R, t))]
  <2>1. ASSUME NEW t \in others
        PROVE  before(t) \in R /\ <<before(t), t>> \in Windows(R)
    BY PredecessorExists
  <2>2. ASSUME NEW s \in R, NEW t \in R, <<s, t>> \in Windows(R)
        PROVE  t \in others /\ before(t) = s
    <3>1. /\ Rank(R, t) = Rank(R, s) + 1 /\ Rank(R, s) \in Nat /\ s.genesis = t.genesis
      BY <2>2, WindowMeans
    <3>2. Rank(R, s) # 0
      <4>1. IsFiniteSet({x \in R : /\ x.genesis = s.genesis
                                   /\ \/ x.size < s.size
                                      \/ x.size = s.size /\ x.at < s.at})
        BY FS_Subset DEF Receipts
      <4> QED BY <4>1, FS_CardinalityType DEF Rank
    <3>3. t \in others
      BY <3>1, <3>2
    <3>4. PICK x \in R : x = before(t) /\ <<x, t>> \in Windows(R)
      BY <2>1, <3>3
    <3>5. Rank(R, t) = Rank(R, x) + 1 /\ Rank(R, x) \in Nat /\ x.genesis = t.genesis
      BY <3>4, WindowMeans
    <3>6. x = s
      <4>1. Rank(R, x) = Rank(R, s)
        BY <3>1, <3>5
      <4> QED BY <1>2, <3>1, <3>5, <4>1
    <3> QED BY <3>3, <3>4, <3>6
  <2> HIDE DEF before, others
  <2>3. f \in [others -> CrossResults(R)]
    <3> SUFFICES ASSUME NEW t \in others
                 PROVE  CrossCheck(before(t), Place(R, before(t)), t, Place(R, t))
                          \in CrossResults(R)
      OBVIOUS
    <3> DEFINE w == <<before(t), t>>
    <3>1. w \in Windows(R) /\ w[1] = before(t) /\ w[2] = t
      BY <2>1
    <3> HIDE DEF w
    <3> QED BY <3>1, ChecksAreOfWindows
  <2>4. \A s, t \in others : f[s] = f[t] => s = t
    <3>1. ASSUME NEW t \in others PROVE f[t].to = Place(R, t)
      BY DEF CrossCheck
    <3>2. \A s, t \in R : Place(R, s) = Place(R, t) => s = t
      BY ParticipantsListed
    <3>3. others \subseteq R
      BY DEF others
    <3> HIDE DEF f
    <3> QED BY <3>1, <3>2, <3>3
  <2>5. \A check \in CrossResults(R) : \E t \in others : f[t] = check
    <3> SUFFICES ASSUME NEW check \in CrossResults(R)
                 PROVE  \E t \in others : f[t] = check
      OBVIOUS
    <3>1. PICK w \in Windows(R) :
            check = CrossCheck(w[1], Place(R, w[1]), w[2], Place(R, w[2]))
      BY ChecksAreOfWindows
    <3>2. w[1] \in R /\ w[2] \in R /\ <<w[1], w[2]>> \in Windows(R)
      BY WindowMeans
    <3>3. w[2] \in others /\ before(w[2]) = w[1]
      BY <2>2, <3>2
    <3> QED BY <3>1, <3>3
  <2> HIDE DEF f
  <2>6. f \in Bijection(others, CrossResults(R))
    BY <2>3, <2>4, <2>5 DEF Bijection, Injection, IsInjective, Surjection
  <2>7. IsFiniteSet(others)
    BY <1>1 DEF others
  <2> QED BY <2>6, <2>7, FS_Bijection DEF ExistsBijection, others
<1>6. Cardinality(firsts) + Cardinality(others) = Cardinality(R)
  <2>1. firsts \cup others = R /\ firsts \cap others = {}
    OBVIOUS
  <2> HIDE DEF firsts, others
  <2>2. Cardinality(firsts \cap others) = 0
    BY <2>1, FS_EmptySet
  <2>3. Cardinality(firsts \cup others) =
          Cardinality(firsts) + Cardinality(others) - Cardinality(firsts \cap others)
    BY <1>1, FS_Union
  <2>4. Cardinality(firsts) \in Nat /\ Cardinality(others) \in Nat
    BY <1>1, FS_CardinalityType
  <2> QED BY <2>1, <2>2, <2>3, <2>4
<1>7. Cardinality(firsts) \in Nat /\ Cardinality(others) \in Nat
  BY <1>1, FS_CardinalityType
<1> HIDE DEF firsts, others
<1> QED BY <1>4, <1>5, <1>6, <1>7
=============================================================================
