--------------------------- MODULE LatexTreeProofs ---------------------------
(***************************************************************************)
(* Proofs about reading a resume, for any text whose groups are closed and *)
(* any profile: every list of the tree has ids that tell its members apart *)
(* and, in a tidy text, the spans of the parts are nested as the tree is.  *)
(* Also lemmas on texts that are joined of pieces.                         *)
(***************************************************************************)
EXTENDS LatexTree, FiniteSetTheorems, SequenceTheorems, WellFoundedInduction, TLAPS

\* Min is the least member of a set of naturals.
LEMMA Smallest ==
  ASSUME NEW S, S \subseteq Nat, S # {}
  PROVE  Min(S) \in S /\ \A x \in S : Min(S) <= x
<1> DEFINE R == OpToRel(<, Nat)
<1>1. \E x \in S : \A y \in S : ~(<<y, x>> \in R)
  <2>1. IsWellFoundedOn(R, Nat)
    BY NatLessThanWellFounded
  <2> HIDE DEF R
  <2> QED BY <2>1, WFMin
<1>2. \A x, y \in Nat : y < x => <<y, x>> \in R
  BY DEF OpToRel
<1> HIDE DEF R
<1>3. PICK x \in S : \A y \in S : ~(<<y, x>> \in R)
  BY <1>1
<1>4. ASSUME NEW y \in S PROVE x <= y
  <2>1. x \in Nat /\ y \in Nat /\ ~(y < x)
    BY <1>2, <1>3
  <2> QED BY <2>1
<1> QED BY <1>3, <1>4 DEF Min

\* A sequence whatever its members are.
IsSeq(s) == Len(s) \in Nat /\ DOMAIN s = 1..Len(s) /\ s = [i \in DOMAIN s |-> s[i]]

\* A function on 1..n is a sequence of length n.
LEMMA AsSequence ==
  ASSUME NEW n \in Nat, NEW f, f = [i \in 1..n |-> f[i]]
  PROVE  IsSeq(f) /\ Len(f) = n
<1>1. f \in [1..n -> {f[i] : i \in 1..n}]
  OBVIOUS
<1>2. f \in Seq({f[i] : i \in 1..n})
  BY <1>1
<1>3. DOMAIN f = 1..n
  OBVIOUS
<1>4. Len(f) = n
  BY <1>1, <1>2, <1>3
<1> QED BY <1>3, <1>4 DEF IsSeq

\* Nodes that can be told apart by their ids.
Listed(nodes) ==
  /\ IsSeq(nodes)
  /\ \A i, j \in DOMAIN nodes : nodes[i].id = nodes[j].id => i = j

\* Numbering the repetitions makes the ids of a list unique.
LEMMA Numbered ==
  ASSUME NEW nodes, IsSeq(nodes), \A i \in DOMAIN nodes : "id" \in DOMAIN nodes[i]
  PROVE  Listed(Disambiguate(nodes)) /\ Len(Disambiguate(nodes)) = Len(nodes)
<1> DEFINE Same(i) == {j \in 1..(i - 1) : nodes[j].id = nodes[i].id}
           old == [i \in DOMAIN nodes |-> nodes[i].id]
           new == Disambiguate(nodes)
<1>1. /\ DOMAIN new = DOMAIN nodes /\ new = [i \in 1..Len(nodes) |-> new[i]]
      /\ \A i \in DOMAIN nodes : new[i].id = <<nodes[i].id, Cardinality(Same(i))>>
  BY DEF Disambiguate, IsSeq
<1> HIDE DEF new
<1>6. PICK id : \A i \in DOMAIN nodes : id[i] = nodes[i].id
  <2>1. \A i \in DOMAIN nodes : old[i] = nodes[i].id
    OBVIOUS
  <2> HIDE DEF old
  <2> QED BY <2>1
<1>7. \A i, j \in DOMAIN nodes : nodes[i].id = nodes[j].id <=> id[i] = id[j]
  BY <1>6, Zenon
<1>8. PICK number : \A i \in DOMAIN nodes : number[i] = Cardinality(Same(i))
  <2> DEFINE n == [i \in DOMAIN nodes |-> Cardinality(Same(i))]
  <2>1. \A i \in DOMAIN nodes : n[i] = Cardinality(Same(i))
    OBVIOUS
  <2> HIDE DEF n
  <2> QED BY <2>1
<1>2. \A i \in DOMAIN nodes : new[i].id = <<id[i], number[i]>>
  <2> HIDE DEF Same
  <2> QED BY <1>1, <1>6, <1>8, Zenon
<1>3. ASSUME NEW i \in DOMAIN nodes, NEW j \in DOMAIN nodes, i < j, id[i] = id[j]
      PROVE  number[i] # number[j]
  <2>1. /\ i \in Nat /\ j \in Nat
        /\ \A m \in 1..(i - 1) : m \in DOMAIN nodes /\ m \in 1..(j - 1) /\ m # i
        /\ \A m \in 1..(j - 1) : m \in DOMAIN nodes
        /\ i \in 1..(j - 1)
    BY <1>3 DEF IsSeq
  <2>2. Same(i) = {m \in 1..(i - 1) : id[m] = id[i]} /\ Same(j) = {m \in 1..(j - 1) : id[m] = id[j]}
    BY <1>7, <2>1, Zenon
  <2> HIDE DEF Same
  <2>3. IsFiniteSet(1..(i - 1)) /\ IsFiniteSet(1..(j - 1))
    BY <2>1, FS_Interval
  <2>4. IsFiniteSet(Same(i)) /\ IsFiniteSet(Same(j))
    <3>1. Same(i) \in SUBSET (1..(i - 1)) /\ Same(j) \in SUBSET (1..(j - 1))
      BY <2>2
    <3> QED BY <2>3, <3>1, FS_Subset
  <2>5. Same(i) \cup {i} \in SUBSET Same(j) /\ i \notin Same(i)
    BY <1>3, <2>1, <2>2
  <2>6. Cardinality(Same(i) \cup {i}) = Cardinality(Same(i)) + 1
    BY <2>4, <2>5, FS_AddElement
  <2>7. Cardinality(Same(i) \cup {i}) <= Cardinality(Same(j))
    BY <2>4, <2>5, FS_Subset
  <2>8. Cardinality(Same(i)) \in Nat /\ Cardinality(Same(j)) \in Nat
    BY <2>4, FS_CardinalityType
  <2> QED BY <1>8, <2>6, <2>7, <2>8
<1> HIDE DEF new, old
<1>4. ASSUME NEW i \in DOMAIN nodes, NEW j \in DOMAIN nodes, new[i].id = new[j].id PROVE i = j
  <2>1. <<id[i], number[i]>> = <<id[j], number[j]>>
    BY <1>2, <1>4, Zenon
  <2>2. id[i] = id[j] /\ number[i] = number[j]
    BY <2>1
  <2>3. i \in Nat /\ j \in Nat
    BY DEF IsSeq
  <2> QED BY <1>3, <2>2, <2>3
<1>5. IsSeq(new) /\ Len(new) = Len(nodes)
  BY <1>1, AsSequence DEF IsSeq
<1> QED BY <1>1, <1>4, <1>5 DEF Listed, new

\* The ids of nodes, in their order.
LEMMA IdsOf ==
  ASSUME NEW nodes, IsSeq(nodes)
  PROVE  /\ IsSeq(Ids(nodes)) /\ Len(Ids(nodes)) = Len(nodes)
         /\ \A i \in DOMAIN nodes : Ids(nodes)[i] = nodes[i].id
<1> DEFINE ids == Ids(nodes)
<1>1. ids = [i \in 1..Len(nodes) |-> ids[i]] /\ \A i \in DOMAIN nodes : ids[i] = nodes[i].id
  BY DEF Ids, Each, IsSeq
<1> HIDE DEF ids
<1>2. IsSeq(ids) /\ Len(ids) = Len(nodes)
  BY <1>1, AsSequence DEF IsSeq
<1> QED BY <1>1, <1>2 DEF ids

\* The image of a finite set under a function is finite.
LEMMA ImageIsFinite ==
  ASSUME NEW S, IsFiniteSet(S), NEW f
  PROVE  IsFiniteSet({f[x] : x \in S})
<1> DEFINE T == {f[x] : x \in S}
           g == [x \in S |-> f[x]]
<1>1. g \in Surjection(S, T)
  BY DEF Surjection
<1> QED BY <1>1, FS_Surjection

\* InOrder lists a finite set by a sequence of its cardinality.
LEMMA InOrderIsSeq ==
  ASSUME NEW S, NEW R, IsFiniteSet(S)
  PROVE  IsSeq(InOrder(S, R)) /\ Len(InOrder(S, R)) = Cardinality(S)
<1>1. Cardinality(S) \in Nat
  BY FS_CardinalityType
<1> DEFINE f == InOrder(S, R)
           e(n) == CHOOSE x \in S : Cardinality({y \in S : <<y, x>> \in R}) = n - 1
<1>2. f = [n \in 1..Cardinality(S) |-> f[n]]
  <2>1. f = [n \in 1..Cardinality(S) |-> e(n)]
    BY DEF InOrder
  <2> HIDE DEF e, f
  <2> QED BY <2>1
<1> HIDE DEF f
<1>3. IsSeq(f) /\ Len(f) = Cardinality(S)
  BY <1>1, <1>2, AsSequence
<1> QED BY <1>3 DEF f

\* What is made of each member of a sequence is a sequence of the same length.
LEMMA EachIsSeq ==
  ASSUME NEW s, IsSeq(s), NEW f, DOMAIN f = DOMAIN s, f = [i \in DOMAIN f |-> f[i]]
  PROVE  IsSeq(f) /\ Len(f) = Len(s)
BY AsSequence DEF IsSeq

\* What is found in a text is finite.
LEMMA HitsAreFinite ==
  ASSUME NEW text, NEW mask, mask \subseteq 1..Len(text), Len(text) \in Nat,
         NEW names, NEW region
  PROVE  IsFiniteSet(FindAll(text, mask, names, region))
<1>1. IsFiniteSet(1..Len(text))
  BY FS_Interval
<1>2. FindAll(text, mask, names, region) \in SUBSET (1..Len(text))
  BY DEF FindAll
<1> QED BY <1>1, <1>2, FS_Subset

\* Finitely many bullets are found as macros.
LEMMA MacrosAreFinite ==
  ASSUME NEW text, NEW mask, mask \subseteq 1..Len(text), Len(text) \in Nat,
         NEW profile, NEW region, NEW scope
  PROVE  IsFiniteSet(MacroBullets(text, mask, profile, region, scope))
<1> DEFINE Arg(i) == ReadArgument(text, mask, i + 1)
           H == {h \in FindAll(text, mask, profile.bullets, region) : Arg(h).args # <<>>}
           f == [i \in H |-> <<1, Bullet(text, scope, Arg(i).args[1], <<i, Arg(i).next>>)>>]
<1>1. IsFiniteSet(H)
  <2>1. H \in SUBSET FindAll(text, mask, profile.bullets, region)
    OBVIOUS
  <2> HIDE DEF H
  <2> QED BY <2>1, HitsAreFinite, FS_Subset
<1>2. MacroBullets(text, mask, profile, region, scope) = {f[i] : i \in H}
  BY DEF MacroBullets
<1> HIDE DEF H, f
<1> QED BY <1>1, <1>2, ImageIsFinite

\* Finitely many bullets are found as items of the lists of one name.
LEMMA ListsAreFinite ==
  ASSUME NEW text, NEW mask, mask \subseteq 1..Len(text), Len(text) \in Nat,
         NEW n, NEW name, NEW region, NEW scope
  PROVE  IsFiniteSet(ItemsOf(text, mask, n, FindEnvironments(text, mask, name, region), scope))
<1> DEFINE begins == Named(text, mask, "\\begin", name, region)
           ends   == Named(text, mask, "\\end", name, region)
           envs   == FindEnvironments(text, mask, name, region)
           nested == {e \in envs : e.depth > 0}
           Behind(i) == ReadArgument(text, mask, i + 1).next
           End(i) == Closing(begins, ends, i)
           Environment(i, end) ==
             [span  |-> <<i, Behind(end)>>, body  |-> <<Behind(i), end>>,
              depth |-> Cardinality({b \in begins : b < i /\ End(b) \notin 1..i})]
           env == [i \in {b \in begins : End(b) # 0} |-> Environment(i, End(i))]
<1>1. IsFiniteSet(envs)
  <2>1. begins \in SUBSET FindAll(text, mask, {"\\begin"}, region)
    BY DEF Named
  <2>2. IsFiniteSet(begins)
    BY <2>1, HitsAreFinite, FS_Subset
  <2>3. IsFiniteSet({b \in begins : End(b) # 0})
    BY <2>2, FS_Subset
  <2>4. envs = {env[i] : i \in {b \in begins : End(b) # 0}}
    BY DEF FindEnvironments, Matched
  <2> HIDE DEF env, begins, ends, End
  <2> QED BY <2>3, <2>4, ImageIsFinite
<1> DEFINE Item(span) == <<n, Bullet(text, scope, TrimSpan(text, <<span[1] + 1, span[2]>>), TrimSpan(text, span))>>
           Items(offsets, end) == {Item(<<i, NextHit(offsets, i, end)>>) : i \in offsets}
           Offsets(e) == {i \in FindAll(text, mask, {"\\item"}, e.body) : ~Inside(i, nested)}
           outermost == {e \in envs : e.depth = 0}
           all == {Items(Offsets(e), e.body[2]) : e \in outermost}
<1>2. ASSUME NEW offsets, IsFiniteSet(offsets), NEW end
      PROVE  IsFiniteSet(Items(offsets, end))
  <2> DEFINE f == [i \in offsets |-> Item(<<i, NextHit(offsets, i, end)>>)]
  <2>1. Items(offsets, end) = {f[i] : i \in offsets}
    OBVIOUS
  <2> HIDE DEF f
  <2> QED BY <1>2, <2>1, ImageIsFinite
<1>3. ASSUME NEW e \in outermost PROVE IsFiniteSet(Items(Offsets(e), e.body[2]))
  <2>1. Offsets(e) \in SUBSET FindAll(text, mask, {"\\item"}, e.body)
    OBVIOUS
  <2>2. IsFiniteSet(Offsets(e))
    <3> HIDE DEF Offsets
    <3> QED BY <2>1, HitsAreFinite, FS_Subset
  <2> HIDE DEF Offsets, Items
  <2> QED BY <1>2, <2>2
<1>4. IsFiniteSet(outermost)
  <2>1. outermost \in SUBSET envs
    OBVIOUS
  <2> HIDE DEF envs, outermost
  <2> QED BY <1>1, <2>1, FS_Subset
<1>5. IsFiniteSet(all)
  <2> DEFINE f == [e \in outermost |-> Items(Offsets(e), e.body[2])]
  <2>1. all = {f[e] : e \in outermost}
    OBVIOUS
  <2> HIDE DEF f, outermost, all
  <2> QED BY <1>4, <2>1, ImageIsFinite
<1>6. IsFiniteSet(UNION all)
  <2> HIDE DEF Items, Offsets, outermost
  <2>1. \A T \in all : IsFiniteSet(T)
    BY <1>3
  <2> HIDE DEF all
  <2> QED BY <1>5, <2>1, FS_UNION
<1>7. ItemsOf(text, mask, n, envs, scope) = {f \in UNION all : f[2].inner[1] < f[2].inner[2]}
  BY DEF ItemsOf
<1> HIDE DEF all, envs
<1>8. ItemsOf(text, mask, n, envs, scope) \in SUBSET (UNION all)
  BY <1>7
<1>9. IsFiniteSet(ItemsOf(text, mask, n, envs, scope))
  BY <1>6, <1>8, FS_Subset
<1> QED BY <1>9 DEF envs

(* ------------------------- Enumerating in an order ------------------------ *)

Rank(S, R, x) == Cardinality({y \in S : <<y, x>> \in R})

StrictOrder(S, R) ==
  /\ \A x \in S : <<x, x>> \notin R
  /\ \A x, y, z \in S : <<x, y>> \in R /\ <<y, z>> \in R => <<x, z>> \in R
  /\ \A x, y \in S : x # y => <<x, y>> \in R \/ <<y, x>> \in R

\* In a strict order, more members of a finite set are below what is greater.
LEMMA RankGrows ==
  ASSUME NEW S, IsFiniteSet(S), NEW R, StrictOrder(S, R)
  PROVE  /\ \A x \in S : Rank(S, R, x) \in 0..(Cardinality(S) - 1)
         /\ \A x, y \in S : <<x, y>> \in R => Rank(S, R, x) < Rank(S, R, y)
<1> DEFINE Below(x) == {y \in S : <<y, x>> \in R}
<1>1. ASSUME NEW x \in S
      PROVE  /\ Below(x) \in SUBSET S /\ IsFiniteSet(Below(x)) /\ x \notin Below(x)
             /\ Rank(S, R, x) = Cardinality(Below(x)) /\ Cardinality(Below(x)) \in Nat
  <2>1. Below(x) \in SUBSET S /\ x \notin Below(x) /\ Rank(S, R, x) = Cardinality(Below(x))
    BY DEF StrictOrder, Rank
  <2> HIDE DEF Below
  <2> QED BY <2>1, FS_Subset, FS_CardinalityType
<1>2. ASSUME NEW x \in S PROVE Rank(S, R, x) \in 0..(Cardinality(S) - 1)
  <2>1. Below(x) \cup {x} \in SUBSET S
    OBVIOUS
  <2> HIDE DEF Below
  <2>2. Cardinality(Below(x) \cup {x}) = Cardinality(Below(x)) + 1
    BY <1>1, FS_AddElement
  <2>3. Cardinality(Below(x) \cup {x}) <= Cardinality(S)
    BY <2>1, FS_Subset
  <2>4. Cardinality(S) \in Nat
    BY FS_CardinalityType
  <2> QED BY <1>1, <2>2, <2>3, <2>4
<1>3. ASSUME NEW x \in S, NEW y \in S, <<x, y>> \in R PROVE Rank(S, R, x) < Rank(S, R, y)
  <2>1. Below(x) \cup {x} \in SUBSET Below(y)
    BY <1>3 DEF StrictOrder
  <2> HIDE DEF Below
  <2>2. Cardinality(Below(x) \cup {x}) = Cardinality(Below(x)) + 1
    BY <1>1, FS_AddElement
  <2>3. Cardinality(Below(x) \cup {x}) <= Cardinality(Below(y))
    BY <1>1, <2>1, FS_Subset
  <2> QED BY <1>1, <2>2, <2>3
<1> QED BY <1>2, <1>3

\* In a strict order on a finite set every member gets its place.
LEMMA InOrderSorts ==
  ASSUME NEW S, IsFiniteSet(S), NEW R, StrictOrder(S, R)
  PROVE  LET s == InOrder(S, R) IN
         /\ IsSeq(s) /\ Len(s) = Cardinality(S)
         /\ \A i \in DOMAIN s : s[i] \in S
         /\ \A x \in S : \E i \in DOMAIN s : s[i] = x
         /\ \A i, j \in DOMAIN s : i < j => <<s[i], s[j]>> \in R
<1>1. PICK n : n = Cardinality(S) /\ n \in Nat
  BY FS_CardinalityType
<1>2. PICK s : s = InOrder(S, R)
  OBVIOUS
<1>3. PICK rank : rank = [x \in S |-> Rank(S, R, x)]
  OBVIOUS
<1>4. /\ \A x \in S : rank[x] \in 0..(n - 1)
      /\ \A x, y \in S : <<x, y>> \in R => rank[x] < rank[y]
  BY <1>1, <1>3, RankGrows
<1>5. rank \in Injection(S, 0..(n - 1))
  <2>1. rank \in [S -> 0..(n - 1)]
    BY <1>3, <1>4
  <2>2. ASSUME NEW x \in S, NEW y \in S, rank[x] = rank[y] PROVE x = y
    <3>1. rank[x] \in Int /\ rank[y] \in Int
      BY <1>4
    <3>2. <<x, y>> \notin R /\ <<y, x>> \notin R
      BY <1>4, <2>2, <3>1
    <3> QED BY <3>2 DEF StrictOrder
  <2> QED BY <2>1, <2>2 DEF Injection, IsInjective
<1>6. IsFiniteSet(0..(n - 1)) /\ Cardinality(0..(n - 1)) = n
  <2>1. PICK m \in Int : m = n - 1
    BY <1>1
  <2>2. IsFiniteSet(0..m) /\ Cardinality(0..m) = IF 0 > m THEN 0 ELSE m - 0 + 1
    BY FS_Interval
  <2> QED BY <1>1, <2>1, <2>2
<1>7. rank \in Surjection(S, 0..(n - 1))
  BY <1>1, <1>5, <1>6, FS_Injection
<1>8. \A m \in 0..(n - 1) : \E x \in S : rank[x] = m
  BY <1>7 DEF Surjection
<1>9. IsSeq(s) /\ Len(s) = n
  BY <1>1, <1>2, InOrderIsSeq
<1>10. ASSUME NEW i \in DOMAIN s PROVE s[i] \in S /\ rank[s[i]] = i - 1
  <2>1. i \in 1..n /\ i - 1 \in 0..(n - 1)
    BY <1>1, <1>9 DEF IsSeq
  <2>2. s[i] = CHOOSE x \in S : Cardinality({y \in S : <<y, x>> \in R}) = i - 1
    BY <1>1, <1>2, <2>1 DEF InOrder
  <2>3. \E x \in S : Cardinality({y \in S : <<y, x>> \in R}) = i - 1
    <3>1. PICK x \in S : rank[x] = i - 1
      BY <1>8, <2>1
    <3>2. rank[x] = Rank(S, R, x)
      BY <1>3
    <3> QED BY <3>1, <3>2 DEF Rank
  <2>4. s[i] \in S /\ Cardinality({y \in S : <<y, s[i]>> \in R}) = i - 1
    BY <2>2, <2>3
  <2>5. rank[s[i]] = Rank(S, R, s[i])
    BY <1>3, <2>4
  <2> QED BY <2>4, <2>5 DEF Rank
<1>11. ASSUME NEW x \in S PROVE \E i \in DOMAIN s : s[i] = x
  <2>1. rank[x] + 1 \in DOMAIN s
    BY <1>1, <1>4, <1>9 DEF IsSeq
  <2>2. PICK i \in DOMAIN s : i = rank[x] + 1
    BY <2>1
  <2>3. s[i] \in S /\ rank[s[i]] = rank[x]
    BY <1>4, <1>10, <2>2
  <2>4. s[i] = x
    BY <1>5, <2>3 DEF Injection, IsInjective
  <2> QED BY <2>4
<1>12. ASSUME NEW i \in DOMAIN s, NEW j \in DOMAIN s, i < j PROVE <<s[i], s[j]>> \in R
  <2>1. i \in Nat /\ j \in Nat
    BY <1>9 DEF IsSeq
  <2>2. rank[s[i]] < rank[s[j]] /\ s[i] \in S /\ s[j] \in S
    BY <1>10, <1>12, <2>1
  <2>3. rank[s[i]] \in Int /\ rank[s[j]] \in Int
    BY <1>4, <2>2
  <2>4. s[i] # s[j] /\ <<s[j], s[i]>> \notin R
    BY <1>4, <2>2, <2>3
  <2> QED BY <2>2, <2>4 DEF StrictOrder
<1> QED BY <1>1, <1>2, <1>9, <1>10, <1>11, <1>12

(* --------------------------- What the scanner finds ----------------------- *)

\* A text whose groups are all closed, and the positions of it that count.
Readable(text, mask) ==
  /\ Len(text) \in Nat /\ mask \subseteq 1..Len(text)
  /\ \A i \in mask : text[i] = "{" => MatchGroup(text, mask, i) # 0

\* What closes something stands behind it.
LEMMA ClosedBehind ==
  ASSUME NEW opening, NEW closing, closing \subseteq Nat \ {0}, NEW i \in Nat
  PROVE  \/ Closing(opening, closing, i) = 0
         \/ Closing(opening, closing, i) \in closing /\ Closing(opening, closing, i) > i
<1> DEFINE balanced == {j \in closing : /\ j > i
                                        /\ Cardinality({k \in opening : i <= k /\ k < j})
                                             = Cardinality({k \in closing : i <= k /\ k <= j})}
<1>1. Closing(opening, closing, i) = IF balanced = {} THEN 0 ELSE Min(balanced)
  BY DEF Closing
<1>2. balanced \subseteq Nat /\ \A j \in balanced : j \in closing /\ j > i
  OBVIOUS
<1> HIDE DEF balanced
<1>3. balanced # {} => Min(balanced) \in balanced
  BY <1>2, Smallest
<1> QED BY <1>1, <1>2, <1>3

\* Skipping layout ends in the text or at its end.
LEMMA Skipped ==
  ASSUME NEW text, Len(text) \in Nat, NEW mask, NEW i \in Nat
  PROVE  SkipWs(text, mask, i) = Len(text) + 1 \/ SkipWs(text, mask, i) \in i..Len(text)
<1> DEFINE Stop(j) == j \in mask \/ (text[j] = "esc" /\ ~InComment(text, j))
           stops == {j \in i..Len(text) : text[j] \notin Space /\ Stop(j)}
<1>1. SkipWs(text, mask, i) = IF stops = {} THEN Len(text) + 1 ELSE Min(stops)
  BY DEF SkipWs
<1>2. stops \subseteq Nat /\ stops \subseteq i..Len(text)
  OBVIOUS
<1> HIDE DEF stops
<1>3. stops # {} => Min(stops) \in stops
  BY <1>2, Smallest
<1> QED BY <1>1, <1>2, <1>3

\* An argument is behind the place it is read from and ends with its brace.
LEMMA ArgumentBehind ==
  ASSUME NEW text, NEW mask, Readable(text, mask), NEW after \in 1..(Len(text) + 1)
  PROVE  LET r == ReadArgument(text, mask, after) IN
         \/ r.args = <<>> /\ r.next = after
         \/ \E a, b \in Nat : /\ r.args = << <<a, b>> >> /\ r.next = b + 1
                              /\ after < a /\ a <= b /\ b <= Len(text)
<1> DEFINE j == SkipWs(text, mask, after)
           close == MatchGroup(text, mask, j)
<1>1. CASE ~(j \in mask /\ text[j] = "{")
  <2>1. ReadArgument(text, mask, after) = [args |-> <<>>, next |-> after]
    BY <1>1 DEF ReadArgument
  <2> QED BY <2>1
<1>2. CASE j \in mask /\ text[j] = "{"
  <2>1. ReadArgument(text, mask, after) = [args |-> << <<j + 1, close>> >>, next |-> close + 1]
    BY <1>2 DEF ReadArgument
  <2>2. j \in 1..Len(text) /\ j >= after
    <3>4. Len(text) \in Nat /\ mask \subseteq 1..Len(text)
      BY DEF Readable
    <3>1. Len(text) \in Nat /\ j \in 1..Len(text) /\ after \in Nat
      <4>1. Len(text) \in Nat
        BY <3>4
      <4>2. j \in mask
        BY <1>2
      <4>3. j \in 1..Len(text)
        <5> HIDE DEF j
        <5> QED BY <4>2, <3>4
      <4>4. after \in Nat
        BY <4>1
      <4> QED BY <4>1, <4>3, <4>4
    <3>2. j = Len(text) + 1 \/ j \in after..Len(text)
      BY <3>1, Skipped
    <3> HIDE DEF j
    <3> QED BY <3>1, <3>2
  <2>3. close \in mask /\ close > j
    <3>1. {i \in mask : text[i] = "}"} \subseteq Nat \ {0}
      <4>1. mask \subseteq 1..Len(text) /\ Len(text) \in Nat
        BY DEF Readable
      <4>2. \A i \in 1..Len(text) : i \in Nat \ {0}
        OBVIOUS
      <4> QED BY <4>1, <4>2
    <3>2. close # 0
      BY <1>2 DEF Readable
    <3>3. close = Closing({i \in mask : text[i] = "{"}, {i \in mask : text[i] = "}"}, j)
      BY DEF MatchGroup
    <3>4. close \in {i \in mask : text[i] = "}"} /\ close > j
      <4>1. j \in Nat
        BY <2>2
      <4> HIDE DEF j, close
      <4> QED BY <4>1, <3>1, <3>2, <3>3, ClosedBehind
    <3> QED BY <3>4
  <2>4. close \in 1..Len(text)
    BY <2>3 DEF Readable
  <2> HIDE DEF j, close
  <2> DEFINE r == ReadArgument(text, mask, after)
  <2>5. r.args = << <<j + 1, close>> >> /\ r.next = close + 1
    BY <2>1
  <2>6. j + 1 \in Nat /\ close \in Nat /\ after < j + 1 /\ j + 1 <= close /\ close <= Len(text)
    BY <2>2, <2>3, <2>4
  <2> HIDE DEF r
  <2>7. \E a, b \in Nat : /\ r.args = << <<a, b>> >> /\ r.next = b + 1
                          /\ after < a /\ a <= b /\ b <= Len(text)
    BY <2>5, <2>6
  <2> QED BY <2>7 DEF r
<1> QED BY <1>1, <1>2

\* The same, of the end alone.
LEMMA NextBehind ==
  ASSUME NEW text, NEW mask, Readable(text, mask), NEW after \in 1..(Len(text) + 1)
  PROVE  ReadArgument(text, mask, after).next \in after..(Len(text) + 1)
<1> DEFINE r == ReadArgument(text, mask, after)
<1>1. \/ r.args = <<>> /\ r.next = after
      \/ \E a, b \in Nat : /\ r.args = << <<a, b>> >> /\ r.next = b + 1
                           /\ after < a /\ a <= b /\ b <= Len(text)
  BY ArgumentBehind
<1>2. Len(text) \in Nat
  BY DEF Readable
<1> HIDE DEF r
<1>3. r.next \in after..(Len(text) + 1)
  BY <1>1, <1>2
<1> QED BY <1>3 DEF r

\* Least, as induction on the naturals up to n.
LEMMA UpTo ==
  ASSUME NEW n \in Nat, NEW P, 0 \in P, \A k \in 0..(n - 1) : k \in P => k + 1 \in P
  PROVE  \A k \in 0..n : k \in P
<1> DEFINE bad == {k \in 0..n : k \notin P}
<1> SUFFICES ASSUME bad # {} PROVE FALSE
  OBVIOUS
<1>1. bad \subseteq Nat
  OBVIOUS
<1>2. PICK m \in bad : m = Min(bad) /\ \A k \in bad : m <= k
  <2> HIDE DEF bad
  <2> QED BY <1>1, Smallest
<1>3. m \in 1..n
  BY <1>2
<1>4. m - 1 \in 0..(n - 1) /\ m - 1 \notin bad /\ m - 1 \in 0..n
  BY <1>2, <1>3
<1>5. m - 1 \in P
  BY <1>4
<1>6. m - 1 + 1 \in P
  BY <1>4, <1>5
<1>7. m \in P
  BY <1>3, <1>6
<1> QED BY <1>2, <1>7

\* Reading up to `count` arguments never goes back.
LEMMA ArgumentsBehind ==
  ASSUME NEW text, NEW mask, Readable(text, mask), NEW after \in 1..(Len(text) + 1), NEW count \in Nat
  PROVE  AfterArguments(text, mask, after, count) \in after..(Len(text) + 1)
<1> DEFINE Read(x) == ReadArgument(text, mask, x).next
           IsNext(f, m) == f = [k \in 0..m |-> IF k = 0 THEN after ELSE Read(f[k - 1])]
           P == {m \in Nat : \E f : IsNext(f, m)}
           next == CHOOSE f : IsNext(f, count)
<1>1. AfterArguments(text, mask, after, count) = next[count]
  BY DEF AfterArguments
<1> HIDE DEF Read
<1>2. 0 \in P
  <2>1. IsNext([k \in 0..0 |-> after], 0)
    OBVIOUS
  <2> QED BY <2>1
<1>3. ASSUME NEW m \in 0..(count - 1), m \in P PROVE m + 1 \in P
  <2>1. PICK f : IsNext(f, m)
    BY <1>3
  <2> DEFINE g == [k \in 0..(m + 1) |-> IF k <= m THEN f[k] ELSE Read(f[m])]
  <2>2. \A k \in 0..m : f[k] = IF k = 0 THEN after ELSE Read(f[k - 1])
    BY <2>1
  <2>3. \A k \in 0..m : g[k] = f[k]
    BY <1>3
  <2>4. g[m + 1] = Read(f[m]) /\ f[m] = g[m]
    BY <1>3
  <2>5. g = [k \in 0..(m + 1) |-> g[k]]
    OBVIOUS
  <2> HIDE DEF g
  <2>6. ASSUME NEW k \in 0..(m + 1) PROVE g[k] = IF k = 0 THEN after ELSE Read(g[k - 1])
    <3>1. CASE k = m + 1
      BY <1>3, <2>4, <3>1
    <3>2. CASE k # m + 1
      <4>1. k \in 0..m /\ (k # 0 => k - 1 \in 0..m)
        BY <1>3, <3>2
      <4> QED BY <2>2, <2>3, <4>1
    <3> QED BY <3>1, <3>2
  <2>7. IsNext(g, m + 1)
    BY <2>5, <2>6
  <2>8. m + 1 \in Nat
    BY <1>3
  <2> HIDE DEF IsNext
  <2> QED BY <2>7, <2>8
<1>4. count \in P
  <2> HIDE DEF P
  <2>1. \A k \in 0..count : k \in P
    BY <1>2, <1>3, UpTo
  <2> QED BY <2>1
<1>5. IsNext(next, count)
  BY <1>4
<1> HIDE DEF next
<1> DEFINE Q == {k \in 0..count : next[k] \in after..(Len(text) + 1)}
<1>6. Len(text) \in Nat
  BY DEF Readable
<1>7. 0 \in Q
  BY <1>5, <1>6
<1>8. ASSUME NEW k \in 0..(count - 1), k \in Q PROVE k + 1 \in Q
  <2>1. next[k + 1] = Read(next[k])
    BY <1>5
  <2>2. next[k] \in after..(Len(text) + 1) /\ next[k] \in 1..(Len(text) + 1)
    BY <1>6, <1>8
  <2>3. Read(next[k]) \in next[k]..(Len(text) + 1)
    BY <2>2, NextBehind DEF Read
  <2> QED BY <1>6, <2>1, <2>2, <2>3
<1>9. count \in Q
  <2> HIDE DEF Q
  <2>1. \A k \in 0..count : k \in Q
    BY <1>7, <1>8, UpTo
  <2> QED BY <2>1
<1> QED BY <1>1, <1>9

\* The next hit is behind its start, and no hit is in between.
LEMMA NextHitBehind ==
  ASSUME NEW hits, hits \subseteq Nat, NEW i \in Nat, NEW end \in Nat, i < end
  PROVE  /\ NextHit(hits, i, end) \in Nat
         /\ i < NextHit(hits, i, end) /\ NextHit(hits, i, end) <= end
         /\ NextHit(hits, i, end) \in hits \cup {end}
         /\ \A j \in hits : i < j => NextHit(hits, i, end) <= j
<1> DEFINE S == {j \in hits : j > i} \cup {end}
<1>1. NextHit(hits, i, end) = Min(S)
  BY DEF NextHit
<1>2. S \subseteq Nat /\ S # {} /\ end \in S /\ (\A j \in S : i < j /\ j \in hits \cup {end})
        /\ \A j \in hits : i < j => j \in S
  OBVIOUS
<1> HIDE DEF S
<1>3. Min(S) \in S /\ \A x \in S : Min(S) <= x
  BY <1>2, Smallest
<1> QED BY <1>1, <1>2, <1>3

\* Max is the greatest member of a bounded set of naturals.
LEMMA Greatest ==
  ASSUME NEW S, S # {}, NEW n \in Nat, S \subseteq 0..n
  PROVE  Max(S) \in S /\ \A x \in S : x <= Max(S)
<1> DEFINE T == {n - x : x \in S}
<1>1. T \subseteq Nat /\ T # {}
  <2>1. ASSUME NEW x \in S PROVE n - x \in Nat
    <3>1. x \in 0..n
      OBVIOUS
    <3> QED BY <3>1
  <2> QED BY <2>1
<1>2. PICK m \in T : \A y \in T : m <= y
  <2> HIDE DEF T
  <2> QED BY <1>1, Smallest
<1>3. PICK x \in S : m = n - x
  OBVIOUS
<1>4. ASSUME NEW y \in S PROVE x >= y
  <2>1. n - y \in T
    OBVIOUS
  <2>2. m <= n - y /\ x \in 0..n /\ y \in 0..n
    BY <1>2, <2>1
  <2> QED BY <1>3, <2>2
<1>5. Max(S) \in S /\ \A y \in S : Max(S) >= y
  BY <1>4 DEF Max
<1>6. ASSUME NEW y \in S PROVE y <= Max(S)
  <2>1. Max(S) \in 0..n /\ y \in 0..n /\ Max(S) >= y
    BY <1>5
  <2> QED BY <2>1
<1> QED BY <1>5, <1>6

\* A span that starts with something solid keeps its start when it is trimmed.
LEMMA Trimmed ==
  ASSUME NEW text, NEW a \in Nat, NEW b \in Nat, a < b, text[a] \notin Space
  PROVE  \E c \in Nat : TrimSpan(text, <<a, b>>) = <<a, c>> /\ a < c /\ c <= b
<1> DEFINE solid == {i \in a..(b - 1) : text[i] \notin Space}
<1>1. TrimSpan(text, <<a, b>>) = IF solid = {} THEN <<b, b>> ELSE <<Min(solid), Max(solid) + 1>>
  BY DEF TrimSpan
<1>2. a \in solid /\ solid \subseteq Nat /\ solid \subseteq 0..b /\ \A i \in solid : a <= i /\ i < b
  OBVIOUS
<1> HIDE DEF solid
<1>3. Min(solid) \in solid /\ \A x \in solid : Min(solid) <= x
  BY <1>2, Smallest
<1>4. Max(solid) \in solid /\ \A x \in solid : x <= Max(solid)
  BY <1>2, Greatest
<1>5. PICK lo, hi \in Nat : lo = Min(solid) /\ hi = Max(solid)
  BY <1>2, <1>3, <1>4
<1>6. lo = a /\ a <= hi /\ hi < b
  BY <1>2, <1>3, <1>4, <1>5
<1>7. TrimSpan(text, <<a, b>>) = <<a, hi + 1>>
  BY <1>1, <1>2, <1>5, <1>6
<1> QED BY <1>6, <1>7

(* ------------------------------- Environments ----------------------------- *)

\* A named command stands in the region it is looked for in.
LEMMA NamedWithin ==
  ASSUME NEW text, NEW mask, Readable(text, mask), NEW command, NEW name,
         NEW lo \in Nat, NEW hi \in Nat,
         NEW i \in Named(text, mask, command, name, <<lo, hi>>)
  PROVE  i \in mask /\ i \in 1..Len(text) /\ text[i] = command /\ lo <= i /\ i < hi
<1>1. i \in FindAll(text, mask, {command}, <<lo, hi>>)
  BY DEF Named
<1>2. mask \subseteq 1..Len(text)
  BY DEF Readable
<1> QED BY <1>1, <1>2 DEF FindAll, Within

Begins(text, mask, name, region) == Named(text, mask, "\\begin", name, region)

EndOf(text, mask, name, region, i) ==
  Closing(Begins(text, mask, name, region), Named(text, mask, "\\end", name, region), i)

\* The environments around position i that are not closed before it.
Around(text, mask, name, region, i) ==
  {b \in Begins(text, mask, name, region) : b < i /\ EndOf(text, mask, name, region, b) \notin 1..i}

\* An environment begins at a begin that has an end.
LEMMA EnvironmentAt ==
  ASSUME NEW text, NEW mask, NEW name, NEW region,
         NEW e \in FindEnvironments(text, mask, name, region)
  PROVE  \E i \in Begins(text, mask, name, region) :
            LET end == EndOf(text, mask, name, region, i) IN
            /\ end # 0
            /\ e = [span  |-> <<i, ReadArgument(text, mask, end + 1).next>>,
                    body  |-> <<ReadArgument(text, mask, i + 1).next, end>>,
                    depth |-> Cardinality(Around(text, mask, name, region, i))]
<1> DEFINE begins == Begins(text, mask, name, region)
           End(i) == EndOf(text, mask, name, region, i)
           Deep(i) == Cardinality(Around(text, mask, name, region, i))
           Environment(i, end) ==
               [span  |-> <<i, ReadArgument(text, mask, end + 1).next>>,
                body  |-> <<ReadArgument(text, mask, i + 1).next, end>>,
                depth |-> Deep(i)]
<1>1. FindEnvironments(text, mask, name, region)
        = {Environment(i, End(i)) : i \in {b \in begins : End(b) # 0}}
  BY DEF FindEnvironments, Matched, Begins, EndOf, Around
<1> HIDE DEF begins, End, Deep
<1>2. PICK i \in begins : End(i) # 0 /\ e = Environment(i, End(i))
  BY <1>1
<1> QED BY <1>2 DEF begins, End, Deep

\* An environment found in a region lies within it, its body behind its begin.
LEMMA EnvironmentBounds ==
  ASSUME NEW text, NEW mask, Readable(text, mask), NEW name, NEW lo \in Nat, NEW hi \in Nat,
         NEW i \in Begins(text, mask, name, <<lo, hi>>), EndOf(text, mask, name, <<lo, hi>>, i) # 0
  PROVE  LET a == ReadArgument(text, mask, i + 1).next
             b == EndOf(text, mask, name, <<lo, hi>>, i)
         IN  /\ i \in Nat /\ a \in Nat /\ b \in Nat
             /\ lo <= i /\ i < a /\ i < b /\ b < hi
             /\ b \in Named(text, mask, "\\end", name, <<lo, hi>>)
<1> DEFINE ends == Named(text, mask, "\\end", name, <<lo, hi>>)
<1>1. PICK a, b : a = ReadArgument(text, mask, i + 1).next /\ b = EndOf(text, mask, name, <<lo, hi>>, i)
  OBVIOUS
<1>2. i \in 1..Len(text) /\ lo <= i /\ i < hi
  BY NamedWithin DEF Begins
<1>3. Len(text) \in Nat
  BY DEF Readable
<1>4. \A j \in ends : j \in 1..Len(text) /\ lo <= j /\ j < hi
  BY NamedWithin
<1>5. b \in ends /\ b > i
  <2>1. ends \subseteq Nat \ {0}
    BY <1>3, <1>4
  <2>2. i \in Nat
    BY <1>2, <1>3
  <2>3. b = Closing(Begins(text, mask, name, <<lo, hi>>), ends, i)
    BY <1>1 DEF EndOf
  <2> HIDE DEF ends
  <2> QED BY <1>1, <2>1, <2>2, <2>3, ClosedBehind
<1>6. i + 1 \in 1..(Len(text) + 1)
  BY <1>2, <1>3
<1>7. a \in (i + 1)..(Len(text) + 1)
  BY <1>1, <1>6, NextBehind
<1>8. /\ i \in Nat /\ a \in Nat /\ b \in Nat /\ lo <= i /\ i < a /\ i < b /\ b < hi
  BY <1>2, <1>3, <1>4, <1>5, <1>7
<1> QED BY <1>1, <1>5, <1>8

\* Two lists that stand in no other of their kind follow each other.
LEMMA OutermostApart ==
  ASSUME NEW text, NEW mask, Readable(text, mask), NEW name, NEW lo \in Nat, NEW hi \in Nat,
         NEW i \in Begins(text, mask, name, <<lo, hi>>),
         NEW j \in Begins(text, mask, name, <<lo, hi>>), i < j,
         Cardinality(Around(text, mask, name, <<lo, hi>>, j)) = 0
  PROVE  EndOf(text, mask, name, <<lo, hi>>, i) \in 1..j
<1> DEFINE around == Around(text, mask, name, <<lo, hi>>, j)
<1>1. around \in SUBSET FindAll(text, mask, {"\\begin"}, <<lo, hi>>)
  BY DEF Around, Begins, Named
<1>2. IsFiniteSet(around)
  <2>1. IsFiniteSet(FindAll(text, mask, {"\\begin"}, <<lo, hi>>))
    BY HitsAreFinite DEF Readable
  <2> HIDE DEF around
  <2> QED BY <1>1, <2>1, FS_Subset
<1>3. around = {}
  BY <1>2, FS_EmptySet
<1> QED BY <1>3 DEF Around

(* --------------------------------- Bullets -------------------------------- *)

ItemsIn(text, mask, envs, e) ==
  {i \in FindAll(text, mask, {"\\item"}, e.body) : ~Inside(i, {d \in envs : d.depth > 0})}

ItemEnd(text, mask, envs, e, i) == NextHit(ItemsIn(text, mask, envs, e), i, e.body[2])

ItemAt(text, mask, n, envs, scope, e, i) ==
  LET end == ItemEnd(text, mask, envs, e, i)
  IN  <<n, Bullet(text, scope, TrimSpan(text, <<i + 1, end>>), TrimSpan(text, <<i, end>>))>>

\* f is what is found for item i of the outermost list e.
IsItem(text, mask, n, envs, scope, f, e, i) ==
  /\ e \in envs /\ e.depth = 0 /\ i \in ItemsIn(text, mask, envs, e)
  /\ f = ItemAt(text, mask, n, envs, scope, e, i)

\* A bullet found as an item is an item of some outermost list.
LEMMA ItemFound ==
  ASSUME NEW text, NEW mask, NEW n, NEW envs, NEW scope, NEW f \in ItemsOf(text, mask, n, envs, scope)
  PROVE  \E e, i : IsItem(text, mask, n, envs, scope, f, e, i)
<1> DEFINE nested == {e \in envs : e.depth > 0}
           Item(span) == <<n, Bullet(text, scope, TrimSpan(text, <<span[1] + 1, span[2]>>), TrimSpan(text, span))>>
           Items(offsets, end) == {Item(<<i, NextHit(offsets, i, end)>>) : i \in offsets}
           Offsets(e) == {i \in FindAll(text, mask, {"\\item"}, e.body) : ~Inside(i, nested)}
           found == UNION {Items(Offsets(e), e.body[2]) : e \in {o \in envs : o.depth = 0}}
<1>1. ItemsOf(text, mask, n, envs, scope) = {g \in found : g[2].inner[1] < g[2].inner[2]}
  BY DEF ItemsOf
<1>2. f \in found
  <2> HIDE DEF found
  <2> QED BY <1>1
<1>3. PICK e \in {o \in envs : o.depth = 0} : f \in Items(Offsets(e), e.body[2])
  <2> HIDE DEF Items, Offsets
  <2> QED BY <1>2
<1>4. PICK i \in Offsets(e) : f = Item(<<i, NextHit(Offsets(e), i, e.body[2])>>)
  <2> HIDE DEF Item, Offsets
  <2> QED BY <1>3
<1>5. Offsets(e) = ItemsIn(text, mask, envs, e)
  BY DEF ItemsIn
<1>6. Item(<<i, NextHit(Offsets(e), i, e.body[2])>>) = ItemAt(text, mask, n, envs, scope, e, i)
  <2> HIDE DEF Offsets
  <2> QED BY <1>5 DEF ItemAt, ItemEnd
<1> HIDE DEF Item, Offsets
<1> QED BY <1>3, <1>4, <1>5, <1>6 DEF IsItem

\* An item lies in its list, and ends where the next one starts.
LEMMA ItemBounds ==
  ASSUME NEW text, NEW mask, Readable(text, mask), NEW n, NEW envs, NEW scope, NEW f, NEW e, NEW i,
         IsItem(text, mask, n, envs, scope, f, e, i), e.body[1] \in Nat, e.body[2] \in Nat
  PROVE  /\ i \in Nat /\ e.body[1] <= i /\ i < e.body[2] /\ f[1] = n /\ DOMAIN f[2] = {"id", "inner", "outer"}
         /\ \E c \in Nat : /\ f[2].outer = <<i, c>> /\ i < c /\ c <= e.body[2]
                           /\ \A j \in ItemsIn(text, mask, envs, e) : i < j => c <= j
<1> DEFINE offsets == ItemsIn(text, mask, envs, e)
<1>1. \A j \in offsets : j \in mask /\ text[j] = "\\item" /\ e.body[1] <= j /\ j < e.body[2]
  BY DEF ItemsIn, FindAll, Within
<1>2. Len(text) \in Nat /\ mask \subseteq 1..Len(text)
  BY DEF Readable
<1>3. offsets \subseteq Nat
  <2> HIDE DEF offsets
  <2>1. ASSUME NEW j \in offsets PROVE j \in Nat
    <3>1. j \in 1..Len(text)
      BY <1>1, <1>2
    <3> QED BY <1>2, <3>1
  <2> QED BY <2>1
<1>4. PICK q : q = NextHit(offsets, i, e.body[2])
  OBVIOUS
<1> HIDE DEF offsets
<1>5. i \in offsets /\ i \in Nat
  BY <1>3 DEF offsets, IsItem
<1>6. i < e.body[2] /\ e.body[1] <= i
  BY <1>1, <1>5
<1>7. q \in Nat /\ i < q /\ q <= e.body[2] /\ \A j \in offsets : i < j => q <= j
  <2>1. PICK b \in Nat : b = e.body[2]
    OBVIOUS
  <2>2. q = NextHit(offsets, i, b) /\ i < b
    BY <1>4, <1>6, <2>1
  <2>3. q \in Nat /\ i < q /\ q <= b /\ \A j \in offsets : i < j => q <= j
    BY <1>3, <1>5, <2>2, NextHitBehind
  <2> QED BY <2>1, <2>3
<1>8. text[i] \notin Space
  BY <1>1, <1>5 DEF Space
<1>9. PICK c \in Nat : TrimSpan(text, <<i, q>>) = <<i, c>> /\ i < c /\ c <= q
  BY <1>5, <1>7, <1>8, Trimmed
<1>10. ASSUME NEW j \in offsets, i < j PROVE c <= j
  <2>1. j \in Nat /\ q <= j
    BY <1>3, <1>7, <1>10
  <2> QED BY <1>7, <1>9, <2>1
<1>11. c <= e.body[2]
  BY <1>7, <1>9
<1>12. f = <<n, Bullet(text, scope, TrimSpan(text, <<i + 1, q>>), TrimSpan(text, <<i, q>>))>>
  BY <1>4 DEF IsItem, ItemAt, ItemEnd, offsets
<1> DEFINE g == Bullet(text, scope, TrimSpan(text, <<i + 1, q>>), TrimSpan(text, <<i, q>>))
<1>13. g.outer = <<i, c>> /\ DOMAIN g = {"id", "inner", "outer"}
  BY <1>9 DEF Bullet
<1> HIDE DEF g
<1>14. f[1] = n /\ f[2] = g
  BY <1>12 DEF g
<1> QED BY <1>5, <1>6, <1>9, <1>10, <1>11, <1>13, <1>14 DEF offsets

\* An environment: where it begins, and its body.
IsList(text, mask, name, region, e, s) ==
  LET end == EndOf(text, mask, name, region, s) IN
  /\ s \in Begins(text, mask, name, region)
  /\ e = [span  |-> <<s, ReadArgument(text, mask, end + 1).next>>,
          body  |-> <<ReadArgument(text, mask, s + 1).next, end>>,
          depth |-> Cardinality(Around(text, mask, name, region, s))]

\* Where a list stands, and how deep.
LEMMA ListPlace ==
  ASSUME NEW text, NEW mask, Readable(text, mask), NEW name, NEW lo \in Nat, NEW hi \in Nat,
         NEW e \in FindEnvironments(text, mask, name, <<lo, hi>>)
  PROVE  /\ e.body[1] \in Nat /\ e.body[2] \in Nat
         /\ \E s \in Nat : /\ IsList(text, mask, name, <<lo, hi>>, e, s)
                           /\ lo <= s /\ s < e.body[1] /\ s < e.body[2] /\ e.body[2] < hi
                           /\ e.body[2] \in Named(text, mask, "\\end", name, <<lo, hi>>)
                           /\ e.body[2] = EndOf(text, mask, name, <<lo, hi>>, s)
                           /\ e.depth = Cardinality(Around(text, mask, name, <<lo, hi>>, s))
<1>1. PICK s \in Begins(text, mask, name, <<lo, hi>>) :
        LET end == EndOf(text, mask, name, <<lo, hi>>, s) IN
        /\ end # 0
        /\ e = [span  |-> <<s, ReadArgument(text, mask, end + 1).next>>,
                body  |-> <<ReadArgument(text, mask, s + 1).next, end>>,
                depth |-> Cardinality(Around(text, mask, name, <<lo, hi>>, s))]
  BY EnvironmentAt
<1>2. PICK a, b : a = ReadArgument(text, mask, s + 1).next /\ b = EndOf(text, mask, name, <<lo, hi>>, s)
  OBVIOUS
<1>3. /\ s \in Nat /\ a \in Nat /\ b \in Nat /\ lo <= s /\ s < a /\ s < b /\ b < hi
      /\ b \in Named(text, mask, "\\end", name, <<lo, hi>>)
  BY <1>1, <1>2, EnvironmentBounds
<1>4. IsList(text, mask, name, <<lo, hi>>, e, s)
  BY <1>1 DEF IsList
<1>5. e.body[1] = a /\ e.body[2] = b /\ e.depth = Cardinality(Around(text, mask, name, <<lo, hi>>, s))
  BY <1>1, <1>2
<1> QED BY <1>2, <1>3, <1>4, <1>5

\* Spans of which one ends before the other starts.
Apart(x, y) == x[2] <= y[1] \/ y[2] <= x[1]

\* The items of the outermost lists of one name do not meet.
LEMMA ItemsApart ==
  ASSUME NEW text, NEW mask, Readable(text, mask), NEW name, NEW lo \in Nat, NEW hi \in Nat,
         NEW n, NEW scope,
         NEW f \in ItemsOf(text, mask, n, FindEnvironments(text, mask, name, <<lo, hi>>), scope),
         NEW g \in ItemsOf(text, mask, n, FindEnvironments(text, mask, name, <<lo, hi>>), scope),
         f # g
  PROVE  Apart(f[2].outer, g[2].outer)
<1>0. PICK envs : envs = FindEnvironments(text, mask, name, <<lo, hi>>)
  OBVIOUS
<1>1. PICK e, i : IsItem(text, mask, n, envs, scope, f, e, i)
  BY <1>0, ItemFound
<1>2. PICK d, j : IsItem(text, mask, n, envs, scope, g, d, j)
  BY <1>0, ItemFound
<1>3. e \in envs /\ d \in envs /\ e.depth = 0 /\ d.depth = 0
  BY <1>1, <1>2 DEF IsItem
<1>4. e.body[1] \in Nat /\ e.body[2] \in Nat /\ d.body[1] \in Nat /\ d.body[2] \in Nat
  BY <1>0, <1>3, ListPlace
<1>5. PICK s \in Nat : /\ IsList(text, mask, name, <<lo, hi>>, e, s) /\ s < e.body[1]
                       /\ e.body[2] = EndOf(text, mask, name, <<lo, hi>>, s)
                       /\ e.depth = Cardinality(Around(text, mask, name, <<lo, hi>>, s))
  BY <1>0, <1>3, ListPlace
<1>6. PICK t \in Nat : /\ IsList(text, mask, name, <<lo, hi>>, d, t) /\ t < d.body[1]
                       /\ d.body[2] = EndOf(text, mask, name, <<lo, hi>>, t)
                       /\ d.depth = Cardinality(Around(text, mask, name, <<lo, hi>>, t))
  BY <1>0, <1>3, ListPlace
<1>7. i \in Nat /\ j \in Nat /\ e.body[1] <= i /\ i < e.body[2] /\ d.body[1] <= j /\ j < d.body[2]
  BY <1>1, <1>2, <1>4, ItemBounds
<1>8. PICK x \in Nat : /\ f[2].outer = <<i, x>> /\ i < x /\ x <= e.body[2]
                       /\ \A k \in ItemsIn(text, mask, envs, e) : i < k => x <= k
  BY <1>1, <1>4, ItemBounds
<1>9. PICK y \in Nat : /\ g[2].outer = <<j, y>> /\ j < y /\ y <= d.body[2]
                       /\ \A k \in ItemsIn(text, mask, envs, d) : j < k => y <= k
  BY <1>2, <1>4, ItemBounds
<1>10. s \in Begins(text, mask, name, <<lo, hi>>) /\ t \in Begins(text, mask, name, <<lo, hi>>)
  BY <1>5, <1>6 DEF IsList
<1>11. x <= j \/ y <= i
  <2>1. CASE s = t
    <3>1. e = d
      BY <1>5, <1>6, <2>1 DEF IsList
    <3>2. /\ i \in ItemsIn(text, mask, envs, e) /\ j \in ItemsIn(text, mask, envs, e)
          /\ f = ItemAt(text, mask, n, envs, scope, e, i) /\ g = ItemAt(text, mask, n, envs, scope, e, j)
      BY <1>1, <1>2, <3>1 DEF IsItem
    <3>3. i # j
      BY <3>2
    <3> QED BY <1>7, <1>8, <1>9, <3>1, <3>2, <3>3
  <2>2. CASE s < t
    <3>1. e.body[2] \in 1..t
      BY <1>3, <1>5, <1>6, <1>10, <2>2, OutermostApart
    <3> QED BY <1>4, <1>6, <1>7, <1>8, <3>1
  <2>3. CASE t < s
    <3>1. d.body[2] \in 1..s
      BY <1>3, <1>5, <1>6, <1>10, <2>3, OutermostApart
    <3> QED BY <1>4, <1>5, <1>7, <1>9, <3>1
  <2> QED BY <2>1, <2>2, <2>3
<1>12. f[2].outer[1] = i /\ f[2].outer[2] = x /\ g[2].outer[1] = j /\ g[2].outer[2] = y
  BY <1>8, <1>9
<1> QED BY <1>11, <1>12 DEF Apart

\* Where an environment ends does not depend on the region it is looked for in.
LEMMA SameEnd ==
  ASSUME NEW text, NEW mask, Readable(text, mask), NEW name, NEW lo \in Nat, NEW hi \in Nat,
         NEW i \in Begins(text, mask, name, <<lo, hi>>), EndOf(text, mask, name, <<lo, hi>>, i) # 0
  PROVE  /\ i \in Begins(text, mask, name, Whole(text))
         /\ EndOf(text, mask, name, Whole(text), i) = EndOf(text, mask, name, <<lo, hi>>, i)
<1> DEFINE begins == Begins(text, mask, name, <<lo, hi>>)
           ends   == Named(text, mask, "\\end", name, <<lo, hi>>)
           allBegins == Begins(text, mask, name, Whole(text))
           allEnds   == Named(text, mask, "\\end", name, Whole(text))
           Balanced(opening, closing) ==
             {j \in closing : /\ j > i
                              /\ Cardinality({k \in opening : i <= k /\ k < j})
                                   = Cardinality({k \in closing : i <= k /\ k <= j})}
           here  == Balanced(begins, ends)
           there == Balanced(allBegins, allEnds)
<1>1. Len(text) \in Nat /\ mask \subseteq 1..Len(text)
  BY DEF Readable
<1>2. \A j \in mask : j \in Nat /\ 1 <= j /\ j < Len(text) + 1
  <2>1. ASSUME NEW j \in mask PROVE j \in Nat /\ 1 <= j /\ j < Len(text) + 1
    <3>1. j \in 1..Len(text)
      BY <1>1
    <3> QED BY <1>1, <3>1
  <2> QED BY <2>1
<1>3. /\ begins = {k \in allBegins : lo <= k /\ k < hi} /\ ends = {k \in allEnds : lo <= k /\ k < hi}
      /\ allBegins \subseteq Nat /\ allEnds \subseteq Nat
  <2>1. \A j \in mask : Within(j, Whole(text)) /\ (Within(j, <<lo, hi>>) <=> lo <= j /\ j < hi)
    BY <1>2 DEF Within, Whole
  <2>2. ASSUME NEW command
        PROVE  /\ Named(text, mask, command, name, <<lo, hi>>)
                    = {k \in Named(text, mask, command, name, Whole(text)) : lo <= k /\ k < hi}
               /\ Named(text, mask, command, name, Whole(text)) \subseteq mask
    BY <2>1 DEF Named, FindAll
  <2> QED BY <1>2, <2>2 DEF Begins
<1>4. i \in Nat /\ lo <= i /\ i < hi /\ i \in allBegins
  BY <1>3
<1> HIDE DEF begins, ends, allBegins, allEnds
<1>5. ASSUME NEW j \in ends
      PROVE  /\ {k \in begins : i <= k /\ k < j} = {k \in allBegins : i <= k /\ k < j}
             /\ {k \in ends : i <= k /\ k <= j} = {k \in allEnds : i <= k /\ k <= j}
  <2>1. j \in Nat /\ j < hi
    BY <1>3
  <2>2. \A k \in allBegins : i <= k /\ k < j => k \in begins
    BY <1>3, <1>4, <2>1
  <2>3. \A k \in allEnds : i <= k /\ k <= j => k \in ends
    BY <1>3, <1>4, <2>1
  <2>4. begins \subseteq allBegins /\ ends \subseteq allEnds
    BY <1>3
  <2> QED BY <2>2, <2>3, <2>4
<1>6. here = {j \in there : j < hi}
  <2>1. \A j \in allEnds : j > i /\ j < hi => j \in ends
    BY <1>3, <1>4
  <2>2. ends \subseteq allEnds /\ \A j \in ends : j < hi
    BY <1>3
  <2> QED BY <1>5, <2>1, <2>2
<1>7. EndOf(text, mask, name, <<lo, hi>>, i) = (IF here = {} THEN 0 ELSE Min(here))
  BY DEF EndOf, Closing, begins, ends
<1>8. EndOf(text, mask, name, Whole(text), i) = (IF there = {} THEN 0 ELSE Min(there))
  BY DEF EndOf, Closing, allBegins, allEnds
<1>9. there \subseteq Nat
  BY <1>3
<1> HIDE DEF here, there
<1>10. here # {} /\ here \subseteq Nat /\ there # {}
  BY <1>6, <1>7, <1>9
<1>11. Min(here) \in here /\ \A x \in here : Min(here) <= x
  BY <1>10, Smallest
<1>12. Min(there) \in there /\ \A x \in there : Min(there) <= x
  BY <1>9, <1>10, Smallest
<1>13. PICK m, w \in Nat : m = Min(here) /\ w = Min(there)
  BY <1>9, <1>10, <1>11, <1>12
<1>14. m = w
  <2>1. m \in there /\ m < hi /\ w <= m
    BY <1>6, <1>11, <1>12, <1>13
  <2>2. w \in here
    BY <1>6, <1>12, <1>13, <2>1
  <2>3. m <= w
    BY <1>11, <1>13, <2>2
  <2> QED BY <2>1, <2>3
<1>15. i \in Begins(text, mask, name, Whole(text))
  BY <1>4 DEF allBegins
<1> QED BY <1>7, <1>8, <1>10, <1>13, <1>14, <1>15

\* An environment found in a region has the body it has in the whole text.
LEMMA SameBody ==
  ASSUME NEW text, NEW mask, Readable(text, mask), NEW name, NEW lo \in Nat, NEW hi \in Nat,
         NEW e \in FindEnvironments(text, mask, name, <<lo, hi>>)
  PROVE  \E d \in FindEnvironments(text, mask, name, Whole(text)) : d.body = e.body
<1>1. PICK s \in Begins(text, mask, name, <<lo, hi>>) :
        LET end == EndOf(text, mask, name, <<lo, hi>>, s) IN
        /\ end # 0
        /\ e = [span  |-> <<s, ReadArgument(text, mask, end + 1).next>>,
                body  |-> <<ReadArgument(text, mask, s + 1).next, end>>,
                depth |-> Cardinality(Around(text, mask, name, <<lo, hi>>, s))]
  BY EnvironmentAt
<1>2. /\ s \in Begins(text, mask, name, Whole(text))
      /\ EndOf(text, mask, name, Whole(text), s) = EndOf(text, mask, name, <<lo, hi>>, s)
  BY <1>1, SameEnd
<1> DEFINE End(i) == EndOf(text, mask, name, Whole(text), i)
           Deep(i) == Cardinality(Around(text, mask, name, Whole(text), i))
           Environment(i, end) ==
               [span  |-> <<i, ReadArgument(text, mask, end + 1).next>>,
                body  |-> <<ReadArgument(text, mask, i + 1).next, end>>,
                depth |-> Deep(i)]
           d == Environment(s, End(s))
<1>3. FindEnvironments(text, mask, name, Whole(text))
        = {Environment(i, End(i)) : i \in {b \in Begins(text, mask, name, Whole(text)) : End(b) # 0}}
  BY DEF FindEnvironments, Matched, Begins, EndOf, Around
<1>4. d \in FindEnvironments(text, mask, name, Whole(text))
  <2> HIDE DEF Environment, Deep
  <2> QED BY <1>1, <1>2, <1>3
<1>5. d.body = e.body
  BY <1>1, <1>2
<1> QED BY <1>4, <1>5

\* What the bullets of a region are made of.
BulletsFound(text, mask, profile, region, scope) ==
  LET macros == MacroBullets(text, mask, profile, region, scope)
  IN  IF macros # {} THEN macros ELSE ListBullets(text, mask, profile, region, scope)

\* f stands at <<p, c>>, in a region that starts at lo.
Stands(f, lo, p, c) ==
  /\ f[1] \in Nat /\ DOMAIN f[2] = {"id", "inner", "outer"} /\ f[2].outer = <<p, c>> /\ lo <= p /\ p < c

\* f is the bullet whose macro is at p, and whose argument ends before c.
IsMacro(text, mask, profile, scope, f, p, c) ==
  /\ p \in mask /\ text[p] \in profile.bullets
  /\ c = ReadArgument(text, mask, p + 1).next /\ c <= Len(text) + 1
  /\ f = <<1, Bullet(text, scope, ReadArgument(text, mask, p + 1).args[1], <<p, c>>)>>

\* What is found as a macro stands where the macro does.
LEMMA MacroStands ==
  ASSUME NEW text, NEW mask, Readable(text, mask), NEW profile, NEW scope, NEW lo \in Nat, NEW hi \in Nat,
         NEW f \in MacroBullets(text, mask, profile, <<lo, hi>>, scope)
  PROVE  \E p, c \in Nat : /\ Stands(f, lo, p, c) /\ p < hi
                           /\ IsMacro(text, mask, profile, scope, f, p, c)
<1> DEFINE Arg(i) == ReadArgument(text, mask, i + 1)
           Found1(i, r) == <<1, Bullet(text, scope, r.args[1], <<i, r.next>>)>>
           hits == {h \in FindAll(text, mask, profile.bullets, <<lo, hi>>) : Arg(h).args # <<>>}
<1>1. MacroBullets(text, mask, profile, <<lo, hi>>, scope) = {Found1(i, Arg(i)) : i \in hits}
  BY DEF MacroBullets
<1>2. PICK p \in hits : f = Found1(p, Arg(p))
  <2> HIDE DEF Found1, Arg, hits
  <2> QED BY <1>1
<1>3. p \in mask /\ text[p] \in profile.bullets /\ lo <= p /\ p < hi
  BY DEF FindAll, Within
<1>4. Len(text) \in Nat /\ mask \subseteq 1..Len(text)
  BY DEF Readable
<1>5. p \in Nat /\ p + 1 \in 1..(Len(text) + 1)
  <2>1. p \in 1..Len(text)
    BY <1>3, <1>4
  <2> QED BY <1>4, <2>1
<1>6. PICK c : c = ReadArgument(text, mask, p + 1).next
  OBVIOUS
<1>7. c \in (p + 1)..(Len(text) + 1)
  BY <1>5, <1>6, NextBehind
<1>8. c \in Nat /\ p < c /\ c <= Len(text) + 1
  BY <1>4, <1>5, <1>7
<1> DEFINE b == Bullet(text, scope, ReadArgument(text, mask, p + 1).args[1], <<p, c>>)
<1>9. f = <<1, b>>
  BY <1>2, <1>6
<1>10. b.outer = <<p, c>> /\ DOMAIN b = {"id", "inner", "outer"}
  BY DEF Bullet
<1> HIDE DEF b
<1>11. f[1] = 1 /\ f[2] = b
  BY <1>9
<1>12. Stands(f, lo, p, c)
  BY <1>3, <1>8, <1>10, <1>11 DEF Stands
<1>13. IsMacro(text, mask, profile, scope, f, p, c)
  BY <1>3, <1>6, <1>8, <1>9 DEF IsMacro, b
<1> QED BY <1>3, <1>5, <1>8, <1>12, <1>13

\* A bullet found as an item stands within the body of a list of its name.
LEMMA ItemStands ==
  ASSUME NEW text, NEW mask, Readable(text, mask), NEW profile, IsSeq(profile.lists), NEW scope,
         NEW lo \in Nat, NEW hi \in Nat,
         NEW f \in ListBullets(text, mask, profile, <<lo, hi>>, scope)
  PROVE  \E n \in DOMAIN profile.lists, p, c \in Nat :
           /\ f \in ItemsOf(text, mask, n, FindEnvironments(text, mask, profile.lists[n], <<lo, hi>>), scope)
           /\ f[1] = n /\ Stands(f, lo, p, c) /\ c < hi
           /\ \E e \in FindEnvironments(text, mask, profile.lists[n], <<lo, hi>>) :
                 e.body[1] \in Nat /\ e.body[2] \in Nat /\ e.body[1] <= p /\ c <= e.body[2]
<1> DEFINE Envs(n) == FindEnvironments(text, mask, profile.lists[n], <<lo, hi>>)
           Items(n) == ItemsOf(text, mask, n, Envs(n), scope)
<1>1. ListBullets(text, mask, profile, <<lo, hi>>, scope) = UNION {Items(n) : n \in DOMAIN profile.lists}
  BY DEF ListBullets
<1>2. PICK n \in DOMAIN profile.lists : f \in Items(n)
  <2> HIDE DEF Items
  <2> QED BY <1>1
<1>3. PICK envs : envs = FindEnvironments(text, mask, profile.lists[n], <<lo, hi>>)
  OBVIOUS
<1>4. PICK e, p : IsItem(text, mask, n, envs, scope, f, e, p)
  BY <1>2, <1>3, ItemFound
<1>5. e \in envs
  BY <1>4 DEF IsItem
<1>6. e.body[1] \in Nat /\ e.body[2] \in Nat
  BY <1>3, <1>5, ListPlace
<1>7. PICK s \in Nat : lo <= s /\ s < e.body[1] /\ e.body[2] < hi
  BY <1>3, <1>5, ListPlace
<1>8. p \in Nat /\ e.body[1] <= p /\ p < e.body[2] /\ f[1] = n /\ DOMAIN f[2] = {"id", "inner", "outer"}
  BY <1>4, <1>6, ItemBounds
<1>9. PICK c \in Nat : f[2].outer = <<p, c>> /\ p < c /\ c <= e.body[2]
  BY <1>4, <1>6, ItemBounds
<1>10. n \in Nat
  BY DEF IsSeq
<1>11. lo <= p /\ c < hi
  BY <1>6, <1>7, <1>8, <1>9
<1>12. Stands(f, lo, p, c)
  BY <1>8, <1>9, <1>10, <1>11 DEF Stands
<1> QED BY <1>2, <1>3, <1>5, <1>6, <1>8, <1>9, <1>11, <1>12

\* Finitely many bullets are found in a region.
LEMMA BulletsFinite ==
  ASSUME NEW text, NEW mask, Readable(text, mask), NEW profile, IsSeq(profile.lists), NEW scope, NEW region
  PROVE  IsFiniteSet(BulletsFound(text, mask, profile, region, scope))
<1>0. Len(text) \in Nat /\ mask \subseteq 1..Len(text)
  BY DEF Readable
<1> DEFINE items(n) == ItemsOf(text, mask, n, FindEnvironments(text, mask, profile.lists[n], region), scope)
           lists  == ListBullets(text, mask, profile, region, scope)
           f == [n \in DOMAIN profile.lists |-> items(n)]
           all == {items(n) : n \in DOMAIN profile.lists}
<1>1. IsFiniteSet(DOMAIN profile.lists)
  BY FS_Interval DEF IsSeq
<1>2. all = {f[n] : n \in DOMAIN profile.lists}
  OBVIOUS
<1>3. IsFiniteSet(all)
  <2> HIDE DEF f, all
  <2> QED BY <1>1, <1>2, ImageIsFinite
<1>4. \A T \in all : IsFiniteSet(T)
  BY <1>0, ListsAreFinite
<1>5. lists = UNION all
  BY DEF ListBullets
<1>6. IsFiniteSet(lists)
  <2> HIDE DEF all, lists
  <2> QED BY <1>3, <1>4, <1>5, FS_UNION
<1>7. IsFiniteSet(MacroBullets(text, mask, profile, region, scope))
  BY <1>0, MacrosAreFinite
<1> QED BY <1>6, <1>7 DEF BulletsFound

\* What is found as a bullet stands somewhere in the region, one lexeme long at least.
LEMMA FoundStands ==
  ASSUME NEW text, NEW mask, Readable(text, mask), NEW profile, IsSeq(profile.lists), NEW scope,
         NEW lo \in Nat, NEW hi \in Nat,
         NEW f \in BulletsFound(text, mask, profile, <<lo, hi>>, scope)
  PROVE  \E p, c \in Nat : Stands(f, lo, p, c) /\ p < hi
<1>1. CASE f \in MacroBullets(text, mask, profile, <<lo, hi>>, scope)
  BY <1>1, MacroStands
<1>2. CASE f \in ListBullets(text, mask, profile, <<lo, hi>>, scope)
  <2>1. PICK p, c \in Nat : Stands(f, lo, p, c) /\ c < hi
    BY <1>2, ItemStands
  <2>2. p < hi
    BY <2>1 DEF Stands
  <2> QED BY <2>1, <2>2
<1> QED BY <1>1, <1>2 DEF BulletsFound

\* Two bullets of a region do not start at the same place in the same form.
LEMMA FoundDiffer ==
  ASSUME NEW text, NEW mask, Readable(text, mask), NEW profile, IsSeq(profile.lists), NEW scope,
         NEW lo \in Nat, NEW hi \in Nat,
         NEW f \in BulletsFound(text, mask, profile, <<lo, hi>>, scope),
         NEW g \in BulletsFound(text, mask, profile, <<lo, hi>>, scope), f # g
  PROVE  f[1] # g[1] \/ f[2].outer[1] # g[2].outer[1]
<1> DEFINE macros == MacroBullets(text, mask, profile, <<lo, hi>>, scope)
           items  == ListBullets(text, mask, profile, <<lo, hi>>, scope)
<1>1. (f \in macros /\ g \in macros) \/ (f \in items /\ g \in items)
  BY DEF BulletsFound
<1>2. CASE f \in macros /\ g \in macros
  <2>1. g \in MacroBullets(text, mask, profile, <<lo, hi>>, scope)
    BY <1>2
  <2>2. PICK p, c \in Nat : Stands(f, lo, p, c) /\ IsMacro(text, mask, profile, scope, f, p, c)
    BY <1>2, MacroStands
  <2>3. PICK q, d \in Nat : Stands(g, lo, q, d) /\ IsMacro(text, mask, profile, scope, g, q, d)
    BY <2>1, MacroStands
  <2>4. p # q
    BY <2>2, <2>3 DEF IsMacro
  <2> QED BY <2>2, <2>3, <2>4 DEF Stands
<1>3. CASE f \in items /\ g \in items
  <2>1. PICK n \in DOMAIN profile.lists, p, c \in Nat :
          /\ f \in ItemsOf(text, mask, n, FindEnvironments(text, mask, profile.lists[n], <<lo, hi>>), scope)
          /\ f[1] = n /\ Stands(f, lo, p, c)
    BY <1>3, ItemStands
  <2>2. PICK m \in DOMAIN profile.lists, q, d \in Nat :
          /\ g \in ItemsOf(text, mask, m, FindEnvironments(text, mask, profile.lists[m], <<lo, hi>>), scope)
          /\ g[1] = m /\ Stands(g, lo, q, d)
    BY <1>3, ItemStands
  <2>3. CASE n = m
    <3>1. Apart(f[2].outer, g[2].outer)
      BY <2>1, <2>2, <2>3, ItemsApart
    <3>2. p # q
      BY <2>1, <2>2, <3>1 DEF Apart, Stands
    <3> QED BY <2>1, <2>2, <3>2 DEF Stands
  <2> QED BY <2>1, <2>2, <2>3
<1> QED BY <1>1, <1>2, <1>3

InOrderOf(found) == {p \in found \X found : Earlier(p[1], p[2])}

\* The bullets found are strictly ordered by their place in the source.
LEMMA SourceOrder ==
  ASSUME NEW text, NEW mask, Readable(text, mask), NEW profile, IsSeq(profile.lists), NEW scope,
         NEW lo \in Nat, NEW hi \in Nat
  PROVE  LET found == BulletsFound(text, mask, profile, <<lo, hi>>, scope)
         IN  StrictOrder(found, InOrderOf(found)) /\ IsFiniteSet(found)
<1> DEFINE found == BulletsFound(text, mask, profile, <<lo, hi>>, scope)
           R == InOrderOf(found)
<1>1. PICK at, kind : \A f \in found : /\ at[f] = f[2].outer[1] /\ kind[f] = f[1]
                                       /\ at[f] \in Nat /\ kind[f] \in Nat
  <2> DEFINE at == [f \in found |-> f[2].outer[1]]
             kind == [f \in found |-> f[1]]
  <2>1. ASSUME NEW f \in found PROVE f[2].outer[1] \in Nat /\ f[1] \in Nat
    <3>1. PICK p, c \in Nat : Stands(f, lo, p, c)
      BY FoundStands
    <3> QED BY <3>1 DEF Stands
  <2> HIDE DEF found
  <2>2. \A f \in found : at[f] = f[2].outer[1] /\ kind[f] = f[1]
    OBVIOUS
  <2>3. \A f \in found : at[f] \in Nat /\ kind[f] \in Nat
    <3> HIDE DEF at, kind
    <3> QED BY <2>1, <2>2, Zenon
  <2> HIDE DEF at, kind
  <2> QED BY <2>2, <2>3
<1>2. \A f, g \in found : f # g => kind[f] # kind[g] \/ at[f] # at[g]
  BY <1>1, FoundDiffer
<1> HIDE DEF found
<1>3. \A f, g \in found : <<f, g>> \in R <=> at[f] < at[g] \/ (at[f] = at[g] /\ kind[f] < kind[g])
  <2>1. \A f, g \in found : <<f, g>> \in R <=> Earlier(f, g)
    BY DEF InOrderOf
  <2>2. ASSUME NEW f \in found, NEW g \in found
        PROVE  Earlier(f, g) <=> at[f] < at[g] \/ (at[f] = at[g] /\ kind[f] < kind[g])
    <3>1. at[f] = f[2].outer[1] /\ kind[f] = f[1] /\ at[g] = g[2].outer[1] /\ kind[g] = g[1]
      BY <1>1
    <3> QED BY <3>1, Zenon DEF Earlier
  <2> QED BY <2>1, <2>2
<1> HIDE DEF R
<1>4. StrictOrder(found, R)
  <2>1. \A f \in found : <<f, f>> \notin R
    BY <1>1, <1>3
  <2>2. ASSUME NEW f \in found, NEW g \in found, NEW h \in found, <<f, g>> \in R, <<g, h>> \in R
        PROVE  <<f, h>> \in R
    BY <1>1, <1>3, <2>2
  <2>3. ASSUME NEW f \in found, NEW g \in found, f # g PROVE <<f, g>> \in R \/ <<g, f>> \in R
    <3>1. at[f] \in Nat /\ kind[f] \in Nat /\ at[g] \in Nat /\ kind[g] \in Nat
      BY <1>1
    <3>2. kind[f] # kind[g] \/ at[f] # at[g]
      BY <1>2, <2>3
    <3>3. \/ at[f] < at[g] \/ (at[f] = at[g] /\ kind[f] < kind[g])
          \/ at[g] < at[f] \/ (at[g] = at[f] /\ kind[g] < kind[f])
      BY <3>1, <3>2
    <3> QED BY <1>3, <3>3
  <2> QED BY <2>1, <2>2, <2>3 DEF StrictOrder
<1>5. IsFiniteSet(found)
  BY BulletsFinite DEF found
<1> QED BY <1>4, <1>5 DEF found, R

\* The bullets of a region as they are found, in the order of the source.
LEMMA BulletsOf ==
  ASSUME NEW text, NEW mask, Readable(text, mask), NEW profile, IsSeq(profile.lists), NEW scope,
         NEW lo \in Nat, NEW hi \in Nat
  PROVE  LET found   == BulletsFound(text, mask, profile, <<lo, hi>>, scope)
             order   == InOrder(found, InOrderOf(found))
             bullets == ParseBullets(text, mask, profile, <<lo, hi>>, scope)
         IN  /\ Listed(bullets) /\ IsSeq(order) /\ Len(bullets) = Len(order)
             /\ \A i \in DOMAIN bullets :
                   /\ order[i] \in found
                   /\ bullets[i].outer = order[i][2].outer /\ bullets[i].inner = order[i][2].inner
             /\ \A i, j \in DOMAIN bullets : i < j => Earlier(order[i], order[j]) /\ order[i] # order[j]
<1> DEFINE found   == BulletsFound(text, mask, profile, <<lo, hi>>, scope)
           order   == InOrder(found, InOrderOf(found))
           nodes   == [i \in DOMAIN order |-> order[i][2]]
           bullets == ParseBullets(text, mask, profile, <<lo, hi>>, scope)
<1>1. StrictOrder(found, InOrderOf(found)) /\ IsFiniteSet(found)
  BY SourceOrder
<1>2. \A f \in found : DOMAIN f[2] = {"id", "inner", "outer"}
  <2>1. ASSUME NEW f \in found PROVE DOMAIN f[2] = {"id", "inner", "outer"}
    <3>1. PICK p, c \in Nat : Stands(f, lo, p, c)
      BY FoundStands
    <3> QED BY <3>1 DEF Stands
  <2> QED BY <2>1
<1>3. bullets = Disambiguate(nodes)
  BY DEF ParseBullets, BulletsFound, InSourceOrder, InOrderOf, Each
<1> HIDE DEF found
<1>4. /\ IsSeq(order) /\ \A i \in DOMAIN order : order[i] \in found
      /\ \A i, j \in DOMAIN order : i < j => <<order[i], order[j]>> \in InOrderOf(found)
  BY <1>1, InOrderSorts
<1>5. \A i, j \in DOMAIN order : i < j => Earlier(order[i], order[j]) /\ order[i] # order[j]
  <2>1. \A f \in found : <<f, f>> \notin InOrderOf(found)
    BY <1>1 DEF StrictOrder
  <2>2. \A f, g : <<f, g>> \in InOrderOf(found) => Earlier(f, g)
    BY DEF InOrderOf
  <2> HIDE DEF order
  <2> QED BY <1>4, <2>1, <2>2, Zenon
<1> HIDE DEF order, bullets
<1>6. IsSeq(nodes) /\ Len(nodes) = Len(order) /\ DOMAIN nodes = DOMAIN order
  <2>1. DOMAIN nodes = DOMAIN order /\ nodes = [i \in DOMAIN nodes |-> nodes[i]]
    OBVIOUS
  <2> HIDE DEF nodes
  <2> QED BY <1>4, <2>1, EachIsSeq
<1>7. \A i \in DOMAIN nodes : nodes[i] = order[i][2]
  OBVIOUS
<1> HIDE DEF nodes
<1>8. \A i \in DOMAIN nodes : {"id", "inner", "outer"} \subseteq DOMAIN nodes[i]
  <2>1. \A i \in DOMAIN nodes : DOMAIN nodes[i] = {"id", "inner", "outer"}
    BY <1>2, <1>4, <1>6, <1>7, Zenon
  <2> QED BY <2>1
<1>9. Listed(bullets) /\ Len(bullets) = Len(nodes)
  <2>1. \A i \in DOMAIN nodes : "id" \in DOMAIN nodes[i]
    BY <1>8
  <2> QED BY <1>3, <1>6, <2>1, Numbered
<1>10. /\ DOMAIN bullets = DOMAIN order
       /\ \A i \in DOMAIN nodes : bullets[i].outer = nodes[i].outer /\ bullets[i].inner = nodes[i].inner
  BY <1>3, <1>6, <1>8 DEF Disambiguate
<1>11. \A i \in DOMAIN bullets :
         /\ order[i] \in found
         /\ bullets[i].outer = order[i][2].outer /\ bullets[i].inner = order[i][2].inner
  BY <1>4, <1>6, <1>7, <1>10, Zenon
<1>12. Len(bullets) = Len(order)
  BY <1>6, <1>9
<1>13. \A i, j \in DOMAIN bullets : i < j => Earlier(order[i], order[j]) /\ order[i] # order[j]
  BY <1>5, <1>10, Zenon
<1> QED BY <1>4, <1>9, <1>11, <1>12, <1>13 DEF found, order, bullets

\* Where a region of bullets may end.
EndsAtStop(text, mask, profile, hi) == hi = Len(text) + 1 \/ hi \in Stops(text, mask, profile)

\* In a tidy text the bullets of a region do not meet and end with the region.
LEMMA FoundApart ==
  ASSUME NEW text, NEW mask, Readable(text, mask), NEW profile, IsSeq(profile.lists), NEW scope,
         Tidy(text, mask, profile),
         NEW lo \in Nat, NEW hi \in Nat, EndsAtStop(text, mask, profile, hi),
         NEW f \in BulletsFound(text, mask, profile, <<lo, hi>>, scope)
  PROVE  /\ f[2].outer[2] <= hi
         /\ \A g \in BulletsFound(text, mask, profile, <<lo, hi>>, scope) :
               f # g => Apart(f[2].outer, g[2].outer)
<1> DEFINE macros == MacroBullets(text, mask, profile, <<lo, hi>>, scope)
           items  == ListBullets(text, mask, profile, <<lo, hi>>, scope)
           bullets == {i \in mask : text[i] \in profile.bullets}
<1>0. Len(text) \in Nat
  BY DEF Readable
<1>1. CASE f \in macros
  <2>1. PICK p, c \in Nat :
          Stands(f, lo, p, c) /\ p < hi /\ IsMacro(text, mask, profile, scope, f, p, c)
    BY <1>1, MacroStands
  <2>2. \A j \in bullets \cup Stops(text, mask, profile) : p < j => c <= j
    BY <2>1 DEF Tidy, BulletsEnd, IsMacro
  <2>3. c <= hi
    BY <1>0, <2>1, <2>2 DEF EndsAtStop, IsMacro
  <2>4. ASSUME NEW g \in macros, f # g PROVE Apart(f[2].outer, g[2].outer)
    <3>0. g \in MacroBullets(text, mask, profile, <<lo, hi>>, scope)
      OBVIOUS
    <3>1. PICK q, d \in Nat :
            Stands(g, lo, q, d) /\ q < hi /\ IsMacro(text, mask, profile, scope, g, q, d)
      BY <3>0, MacroStands
    <3>2. p # q
      BY <2>1, <2>4, <3>1 DEF IsMacro
    <3>3. p < q => c <= q
      BY <2>2, <3>1 DEF IsMacro
    <3>4. q < p => d <= p
      BY <2>1, <3>1 DEF Tidy, BulletsEnd, IsMacro
    <3>5. c <= q \/ d <= p
      BY <3>2, <3>3, <3>4
    <3> QED BY <2>1, <3>1, <3>5 DEF Apart, Stands
  <2>5. BulletsFound(text, mask, profile, <<lo, hi>>, scope) = macros
    BY <1>1 DEF BulletsFound
  <2>6. f[2].outer[2] = c
    BY <2>1 DEF Stands
  <2> QED BY <2>3, <2>4, <2>5, <2>6
<1>2. CASE f \in items /\ f \notin macros
  <2>1. PICK n \in DOMAIN profile.lists, p, c \in Nat :
          /\ f \in ItemsOf(text, mask, n, FindEnvironments(text, mask, profile.lists[n], <<lo, hi>>), scope)
          /\ Stands(f, lo, p, c) /\ c < hi
          /\ \E e \in FindEnvironments(text, mask, profile.lists[n], <<lo, hi>>) :
                e.body[1] \in Nat /\ e.body[2] \in Nat /\ e.body[1] <= p /\ c <= e.body[2]
    BY <1>2, ItemStands
  <2>2. ASSUME NEW g \in items, f # g PROVE Apart(f[2].outer, g[2].outer)
    <3>1. PICK m \in DOMAIN profile.lists, q, d \in Nat :
            /\ g \in ItemsOf(text, mask, m, FindEnvironments(text, mask, profile.lists[m], <<lo, hi>>), scope)
            /\ Stands(g, lo, q, d)
            /\ \E e \in FindEnvironments(text, mask, profile.lists[m], <<lo, hi>>) :
                  e.body[1] \in Nat /\ e.body[2] \in Nat /\ e.body[1] <= q /\ d <= e.body[2]
      BY ItemStands
    <3>2. CASE n = m
      BY <2>1, <2>2, <3>1, <3>2, ItemsApart
    <3>3. CASE n # m
      <4>1. PICK x \in FindEnvironments(text, mask, profile.lists[n], <<lo, hi>>) :
              x.body[1] \in Nat /\ x.body[2] \in Nat /\ x.body[1] <= p /\ c <= x.body[2]
        BY <2>1
      <4>2. PICK y \in FindEnvironments(text, mask, profile.lists[m], <<lo, hi>>) :
              y.body[1] \in Nat /\ y.body[2] \in Nat /\ y.body[1] <= q /\ d <= y.body[2]
        BY <3>1
      <4>3. PICK u \in FindEnvironments(text, mask, profile.lists[n], Whole(text)) : u.body = x.body
        BY SameBody
      <4>4. PICK v \in FindEnvironments(text, mask, profile.lists[m], Whole(text)) : v.body = y.body
        BY SameBody
      <4>5. ~Overlaps(u.body, v.body)
        BY <3>3 DEF Tidy, ListsApart
      <4>6. ~(x.body[1] < y.body[2] /\ y.body[1] < x.body[2])
        BY <4>3, <4>4, <4>5 DEF Overlaps
      <4>7. c <= q \/ d <= p
        BY <2>1, <3>1, <4>1, <4>2, <4>6 DEF Stands
      <4> QED BY <2>1, <3>1, <4>7 DEF Apart, Stands
    <3> QED BY <3>2, <3>3
  <2>3. BulletsFound(text, mask, profile, <<lo, hi>>, scope) = items \/ f \in macros
    BY <1>2 DEF BulletsFound
  <2>4. f[2].outer[2] = c
    BY <2>1 DEF Stands
  <2> QED BY <1>2, <2>1, <2>2, <2>3, <2>4
<1> QED BY <1>1, <1>2 DEF BulletsFound

\* In a tidy text the bullets of a region follow each other within it.
LEMMA BulletsChain ==
  ASSUME NEW text, NEW mask, Readable(text, mask), NEW profile, IsSeq(profile.lists), NEW scope,
         Tidy(text, mask, profile),
         NEW lo \in Nat, NEW hi \in Nat, EndsAtStop(text, mask, profile, hi)
  PROVE  Chain(Outers(ParseBullets(text, mask, profile, <<lo, hi>>, scope)), <<lo, hi>>)
<1>1. PICK found : found = BulletsFound(text, mask, profile, <<lo, hi>>, scope)
  OBVIOUS
<1>2. PICK order : order = InOrder(found, InOrderOf(found))
  OBVIOUS
<1>3. PICK bullets : bullets = ParseBullets(text, mask, profile, <<lo, hi>>, scope)
  OBVIOUS
<1>4. /\ \A i \in DOMAIN bullets : order[i] \in found /\ bullets[i].outer = order[i][2].outer
      /\ \A i, j \in DOMAIN bullets : i < j => Earlier(order[i], order[j]) /\ order[i] # order[j]
  BY <1>1, <1>2, <1>3, BulletsOf
<1>5. PICK spans : spans = Outers(bullets)
  OBVIOUS
<1>6. DOMAIN spans = DOMAIN bullets /\ \A i \in DOMAIN spans : spans[i] = bullets[i].outer
  BY <1>5 DEF Outers
<1>7. ASSUME NEW i \in DOMAIN spans
      PROVE  \E p, c \in Nat : spans[i] = <<p, c>> /\ lo <= p /\ p < c /\ c <= hi
  <2>1. order[i] \in found /\ spans[i] = order[i][2].outer
    BY <1>4, <1>6
  <2>2. PICK p, c \in Nat : Stands(order[i], lo, p, c)
    BY <1>1, <2>1, FoundStands
  <2>3. order[i][2].outer[2] <= hi
    BY <1>1, <2>1, FoundApart
  <2> QED BY <2>1, <2>2, <2>3 DEF Stands
<1>8. ASSUME NEW i \in DOMAIN spans, NEW j \in DOMAIN spans, i < j
      PROVE  spans[i][2] <= spans[j][1]
  <2>1. /\ order[i] \in found /\ spans[i] = order[i][2].outer
        /\ order[j] \in found /\ spans[j] = order[j][2].outer
    BY <1>4, <1>6
  <2>2. Earlier(order[i], order[j]) /\ order[i] # order[j]
    BY <1>4, <1>6, <1>8
  <2>3. Apart(order[i][2].outer, order[j][2].outer)
    BY <1>1, <2>1, <2>2, FoundApart
  <2>4. spans[i][1] <= spans[j][1]
    <3>1. spans[i][1] < spans[j][1] \/ spans[i][1] = spans[j][1]
      BY <2>1, <2>2 DEF Earlier
    <3> QED BY <1>7, <3>1
  <2>5. spans[i][2] <= spans[j][1] \/ spans[j][2] <= spans[i][1]
    BY <2>1, <2>3 DEF Apart
  <2>6. PICK p, c \in Nat : spans[i] = <<p, c>> /\ p < c
    BY <1>7
  <2>7. PICK q, d \in Nat : spans[j] = <<q, d>> /\ q < d
    BY <1>7
  <2> QED BY <2>4, <2>5, <2>6, <2>7
<1>9. \A i \in DOMAIN spans : spans[i][1] < spans[i][2] /\ Contains2(<<lo, hi>>, spans[i])
  <2>1. ASSUME NEW i \in DOMAIN spans
        PROVE  spans[i][1] < spans[i][2] /\ Contains2(<<lo, hi>>, spans[i])
    <3>1. PICK p, c \in Nat : spans[i] = <<p, c>> /\ lo <= p /\ p < c /\ c <= hi
      BY <1>7
    <3> QED BY <3>1 DEF Contains2
  <2> QED BY <2>1
<1>10. Chain(spans, <<lo, hi>>)
  BY <1>8, <1>9 DEF Chain
<1> QED BY <1>3, <1>5, <1>10

\* Ascending lists the members of a set, the smaller before the greater.
LEMMA AscendingSorts ==
  ASSUME NEW S, S \subseteq Nat, IsFiniteSet(S)
  PROVE  LET s == Ascending(S) IN
         /\ IsSeq(s)
         /\ \A i \in DOMAIN s : s[i] \in S
         /\ \A x \in S : \E i \in DOMAIN s : s[i] = x
         /\ \A i, j \in DOMAIN s : i < j => s[i] < s[j]
<1> DEFINE R == {p \in S \X S : p[1] < p[2]}
<1>1. \A x, y \in S : <<x, y>> \in R <=> x < y
  OBVIOUS
<1>2. PICK s : s = Ascending(S) /\ s = InOrder(S, R)
  BY DEF Ascending
<1>3. \A x, y : <<x, y>> \in R => x < y
  OBVIOUS
<1> HIDE DEF R
<1>4. StrictOrder(S, R)
  BY <1>1 DEF StrictOrder
<1>5. /\ IsSeq(s) /\ \A i \in DOMAIN s : s[i] \in S
      /\ \A x \in S : \E i \in DOMAIN s : s[i] = x
      /\ \A i, j \in DOMAIN s : i < j => <<s[i], s[j]>> \in R
  BY <1>2, <1>4, InOrderSorts
<1> QED BY <1>2, <1>3, <1>5

\* Parts that begin at hits and end at the next one, or at the end, follow each other.
LEMMA HitsChain ==
  ASSUME NEW hits, hits \subseteq Nat, NEW lo \in Nat, NEW end \in Nat,
         \A h \in hits : lo <= h /\ h < end, NEW spans,
         \A i \in DOMAIN spans : \E h \in hits : spans[i] = <<h, NextHit(hits, h, end)>>,
         \A i, j \in DOMAIN spans : i < j => spans[i][1] < spans[j][1]
  PROVE  Chain(spans, <<lo, end>>)
<1>1. ASSUME NEW i \in DOMAIN spans
      PROVE  \E p, c \in Nat : /\ spans[i] = <<p, c>> /\ p \in hits /\ lo <= p /\ p < c /\ c <= end
                               /\ \A h \in hits : p < h => c <= h
  <2>1. PICK h \in hits : spans[i] = <<h, NextHit(hits, h, end)>>
    OBVIOUS
  <2>2. h \in Nat /\ lo <= h /\ h < end
    OBVIOUS
  <2>3. PICK c : c = NextHit(hits, h, end)
    OBVIOUS
  <2>4. c \in Nat /\ h < c /\ c <= end /\ \A j \in hits : h < j => c <= j
    BY <2>2, <2>3, NextHitBehind
  <2> QED BY <2>1, <2>2, <2>3, <2>4
<1>2. ASSUME NEW i \in DOMAIN spans
      PROVE  spans[i][1] < spans[i][2] /\ Contains2(<<lo, end>>, spans[i])
  <2>1. PICK p, c \in Nat : spans[i] = <<p, c>> /\ lo <= p /\ p < c /\ c <= end
    BY <1>1
  <2> QED BY <2>1 DEF Contains2
<1>3. ASSUME NEW i \in DOMAIN spans, NEW j \in DOMAIN spans, i < j
      PROVE  spans[i][2] <= spans[j][1]
  <2>1. PICK p, c \in Nat : spans[i] = <<p, c>> /\ \A h \in hits : p < h => c <= h
    BY <1>1
  <2>2. PICK q, d \in Nat : spans[j] = <<q, d>> /\ q \in hits
    BY <1>1
  <2>3. spans[i][1] < spans[j][1]
    BY <1>3
  <2> QED BY <2>1, <2>2, <2>3
<1> QED BY <1>2, <1>3 DEF Chain

\* Numbering leaves everything but the ids.
LEMMA NumberedKeeps ==
  ASSUME NEW nodes, IsSeq(nodes), NEW field, field # "id",
         \A i \in DOMAIN nodes : field \in DOMAIN nodes[i]
  PROVE  \A i \in DOMAIN nodes : Disambiguate(nodes)[i][field] = nodes[i][field]
BY DEF Disambiguate

\* Hits are places of the text in the region.
LEMMA HitsOf ==
  ASSUME NEW text, NEW mask, Readable(text, mask), NEW names, NEW lo \in Nat, NEW hi \in Nat
  PROVE  LET hits == FindAll(text, mask, names, <<lo, hi>>) IN
         /\ hits \subseteq Nat /\ IsFiniteSet(hits)
         /\ \A h \in hits : /\ h \in mask /\ text[h] \in names /\ lo <= h /\ h < hi
                            /\ h \in Nat /\ h + 1 \in 1..(Len(text) + 1)
<1> DEFINE hits == FindAll(text, mask, names, <<lo, hi>>)
<1>1. Len(text) \in Nat /\ mask \subseteq 1..Len(text)
  BY DEF Readable
<1>2. IsFiniteSet(hits)
  BY <1>1, HitsAreFinite
<1>3. ASSUME NEW h \in hits
      PROVE  /\ h \in mask /\ text[h] \in names /\ lo <= h /\ h < hi
             /\ h \in Nat /\ h + 1 \in 1..(Len(text) + 1)
  <2>1. h \in mask /\ text[h] \in names /\ lo <= h /\ h < hi
    BY DEF FindAll, Within
  <2>2. h \in 1..Len(text)
    BY <1>1, <2>1
  <2> QED BY <1>1, <2>1, <2>2
<1> QED BY <1>2, <1>3

\* The bullets of a region, whatever their ids are scoped by.
ReadIn(text, mask, profile, bullets, lo, hi) ==
  \E scope : bullets = ParseBullets(text, mask, profile, <<lo, hi>>, scope)

\* The entries of a section whose body is from lo to hi.
LEMMA EntriesOf ==
  ASSUME NEW text, NEW mask, Readable(text, mask), NEW profile, NEW id, profile.entryArgs \in Nat,
         NEW lo \in Nat, NEW hi \in Nat
  PROVE  LET hits    == FindAll(text, mask, profile.entries, <<lo, hi>>)
             entries == ParseEntries(text, mask, profile, id, <<lo, hi>>)
         IN  /\ Listed(entries)
             /\ \A k \in DOMAIN entries : \E h \in hits, from \in Nat :
                  /\ entries[k].span = <<h, NextHit(hits, h, hi)>> /\ h < from
                  /\ ReadIn(text, mask, profile, entries[k].bullets, from, NextHit(hits, h, hi))
             /\ \A k, l \in DOMAIN entries : k < l => entries[k].span[1] < entries[l].span[1]
<1> DEFINE hits == FindAll(text, mask, profile.entries, <<lo, hi>>)
           order == Ascending(hits)
           Name(k, i) == ContentId("e", id, Label(text, ReadArgument(text, mask, i + 1).args, k))
           From(i) == AfterArguments(text, mask, i + 1, profile.entryArgs)
           End(i) == NextHit(hits, i, hi)
           Bullets(k, i) == ParseBullets(text, mask, profile, <<From(i), End(i)>>, Name(k, i))
           nodes == [k \in DOMAIN order |->
                       [id |-> Name(k, order[k]), span |-> <<order[k], End(order[k])>>,
                        bullets |-> Bullets(k, order[k])]]
           entries == ParseEntries(text, mask, profile, id, <<lo, hi>>)
<1>1. entries = Disambiguate(nodes)
  BY DEF ParseEntries
<1>2. /\ IsSeq(order) /\ \A k \in DOMAIN order : order[k] \in hits
      /\ \A k, l \in DOMAIN order : k < l => order[k] < order[l]
  <2>1. hits \subseteq Nat /\ IsFiniteSet(hits)
    BY HitsOf
  <2> HIDE DEF hits
  <2> QED BY <2>1, AscendingSorts
<1> HIDE DEF order, entries, Name, From, End, Bullets
<1>3. /\ DOMAIN nodes = DOMAIN order /\ nodes = [k \in DOMAIN nodes |-> nodes[k]]
      /\ \A k \in DOMAIN nodes : /\ {"id", "span", "bullets"} \subseteq DOMAIN nodes[k]
                                 /\ nodes[k].span = <<order[k], End(order[k])>>
                                 /\ nodes[k].bullets = Bullets(k, order[k])
  OBVIOUS
<1> HIDE DEF nodes
<1>4. IsSeq(nodes) /\ Len(nodes) = Len(order)
  BY <1>2, <1>3, EachIsSeq
<1>5. Listed(entries) /\ Len(entries) = Len(nodes)
  <2>1. \A k \in DOMAIN nodes : "id" \in DOMAIN nodes[k]
    BY <1>3
  <2> QED BY <1>1, <1>4, <2>1, Numbered
<1>6. DOMAIN entries = DOMAIN nodes
  BY <1>4, <1>5 DEF Listed, IsSeq
<1>7. \A k \in DOMAIN nodes : entries[k].span = nodes[k].span
  <2>1. \A k \in DOMAIN nodes : "span" \in DOMAIN nodes[k]
    BY <1>3
  <2>2. \A k \in DOMAIN nodes : Disambiguate(nodes)[k]["span"] = nodes[k]["span"]
    BY <1>4, <2>1, NumberedKeeps
  <2> QED BY <1>1, <2>2
<1>8. \A k \in DOMAIN nodes : entries[k].bullets = nodes[k].bullets
  <2>1. \A k \in DOMAIN nodes : "bullets" \in DOMAIN nodes[k]
    BY <1>3
  <2>2. \A k \in DOMAIN nodes : Disambiguate(nodes)[k]["bullets"] = nodes[k]["bullets"]
    BY <1>4, <2>1, NumberedKeeps
  <2> QED BY <1>1, <2>2
<1>9. ASSUME NEW k \in DOMAIN entries
      PROVE  \E h \in hits, from \in Nat :
               /\ entries[k].span = <<h, NextHit(hits, h, hi)>> /\ h < from
               /\ ReadIn(text, mask, profile, entries[k].bullets, from, NextHit(hits, h, hi))
  <2>1. order[k] \in hits
    BY <1>2, <1>3, <1>6
  <2>2. order[k] \in Nat /\ order[k] + 1 \in 1..(Len(text) + 1)
    BY <2>1, HitsOf
  <2>3. From(order[k]) \in (order[k] + 1)..(Len(text) + 1)
    BY <2>2, ArgumentsBehind DEF From
  <2>4. From(order[k]) \in Nat /\ order[k] < From(order[k])
    BY <2>2, <2>3
  <2>5. /\ entries[k].span = <<order[k], NextHit(hits, order[k], hi)>>
        /\ entries[k].bullets = ParseBullets(text, mask, profile,
                                  <<From(order[k]), NextHit(hits, order[k], hi)>>, Name(k, order[k]))
    BY <1>3, <1>6, <1>7, <1>8 DEF End, Bullets
  <2>6. ReadIn(text, mask, profile, entries[k].bullets, From(order[k]), NextHit(hits, order[k], hi))
    BY <2>5 DEF ReadIn
  <2> QED BY <2>1, <2>4, <2>5, <2>6
<1>10. ASSUME NEW k \in DOMAIN entries, NEW l \in DOMAIN entries, k < l
       PROVE  entries[k].span[1] < entries[l].span[1]
  BY <1>2, <1>3, <1>6, <1>7, <1>10
<1> QED BY <1>5, <1>9, <1>10 DEF entries

\* Sections have unique ids, begin at a hit each, and end where the next hit is.
LEMMA SectionsOf ==
  ASSUME NEW text, NEW mask, Readable(text, mask), NEW profile, NEW lo \in Nat, NEW hi \in Nat
  PROVE  LET hits     == FindAll(text, mask, profile.sections, <<lo, hi>>)
             sections == Sections(text, mask, profile, <<lo, hi>>)
         IN  /\ Listed(sections)
             /\ \A k \in DOMAIN sections : \E h \in hits, from \in Nat :
                  /\ sections[k].span = <<h, NextHit(hits, h, hi)>> /\ h < from
                  /\ sections[k].body = <<from, NextHit(hits, h, hi)>>
             /\ \A k, l \in DOMAIN sections : k < l => sections[k].span[1] < sections[l].span[1]
<1> DEFINE hits == FindAll(text, mask, profile.sections, <<lo, hi>>)
           Arg(i) == ReadArgument(text, mask, i + 1)
           Name(i) == ContentId("s", "", Text(text, Arg(i).args[1]))
           Next1(i) == Arg(i).next
           End(i) == NextHit(hits, i, hi)
           titled == {h \in hits : Arg(h).args # <<>>}
           order == Ascending(titled)
           nodes == [k \in DOMAIN order |->
                       [id |-> Name(order[k]), span |-> <<order[k], End(order[k])>>,
                        body |-> <<Next1(order[k]), End(order[k])>>]]
           sections == Sections(text, mask, profile, <<lo, hi>>)
<1>1. sections = Disambiguate(nodes)
  BY DEF Sections, Each
<1>2. /\ IsSeq(order) /\ \A k \in DOMAIN order : order[k] \in hits
      /\ \A k, l \in DOMAIN order : k < l => order[k] < order[l]
  <2>1. hits \subseteq Nat /\ IsFiniteSet(hits)
    BY HitsOf
  <2>2. titled \subseteq hits /\ titled \in SUBSET hits
    OBVIOUS
  <2> HIDE DEF hits, titled
  <2>3. titled \subseteq Nat /\ IsFiniteSet(titled)
    BY <2>1, <2>2, FS_Subset
  <2> QED BY <2>2, <2>3, AscendingSorts
<1> HIDE DEF order, sections, Name, Next1, End
<1>3. /\ DOMAIN nodes = DOMAIN order /\ nodes = [k \in DOMAIN nodes |-> nodes[k]]
      /\ \A k \in DOMAIN nodes : /\ {"id", "span", "body"} \subseteq DOMAIN nodes[k]
                                 /\ nodes[k].span = <<order[k], End(order[k])>>
                                 /\ nodes[k].body = <<Next1(order[k]), End(order[k])>>
  OBVIOUS
<1> HIDE DEF nodes
<1>4. IsSeq(nodes) /\ Len(nodes) = Len(order)
  BY <1>2, <1>3, EachIsSeq
<1>5. Listed(sections) /\ Len(sections) = Len(nodes)
  <2>1. \A k \in DOMAIN nodes : "id" \in DOMAIN nodes[k]
    BY <1>3
  <2> QED BY <1>1, <1>4, <2>1, Numbered
<1>6. DOMAIN sections = DOMAIN nodes
  BY <1>4, <1>5 DEF Listed, IsSeq
<1>7. \A k \in DOMAIN nodes : sections[k].span = nodes[k].span
  <2>1. \A k \in DOMAIN nodes : "span" \in DOMAIN nodes[k]
    BY <1>3
  <2>2. \A k \in DOMAIN nodes : Disambiguate(nodes)[k]["span"] = nodes[k]["span"]
    BY <1>4, <2>1, NumberedKeeps
  <2> QED BY <1>1, <2>2
<1>8. \A k \in DOMAIN nodes : sections[k].body = nodes[k].body
  <2>1. \A k \in DOMAIN nodes : "body" \in DOMAIN nodes[k]
    BY <1>3
  <2>2. \A k \in DOMAIN nodes : Disambiguate(nodes)[k]["body"] = nodes[k]["body"]
    BY <1>4, <2>1, NumberedKeeps
  <2> QED BY <1>1, <2>2
<1>9. ASSUME NEW k \in DOMAIN sections
      PROVE  \E h \in hits, from \in Nat :
               /\ sections[k].span = <<h, NextHit(hits, h, hi)>> /\ h < from
               /\ sections[k].body = <<from, NextHit(hits, h, hi)>>
  <2>1. order[k] \in hits
    BY <1>2, <1>3, <1>6
  <2>2. order[k] \in Nat /\ order[k] + 1 \in 1..(Len(text) + 1)
    BY <2>1, HitsOf
  <2>3. Next1(order[k]) \in (order[k] + 1)..(Len(text) + 1)
    BY <2>2, NextBehind DEF Next1
  <2>4. Next1(order[k]) \in Nat /\ order[k] < Next1(order[k])
    BY <2>2, <2>3
  <2>5. /\ sections[k].span = <<order[k], NextHit(hits, order[k], hi)>>
        /\ sections[k].body = <<Next1(order[k]), NextHit(hits, order[k], hi)>>
    BY <1>3, <1>6, <1>7, <1>8 DEF End
  <2> QED BY <2>1, <2>4, <2>5
<1>10. ASSUME NEW k \in DOMAIN sections, NEW l \in DOMAIN sections, k < l
       PROVE  sections[k].span[1] < sections[l].span[1]
  BY <1>2, <1>3, <1>6, <1>7, <1>10
<1> QED BY <1>5, <1>9, <1>10 DEF sections

\* The text of a document ends at its end, or where the document does.
LEMMA BodyBounds ==
  ASSUME NEW text, NEW mask, Readable(text, mask), NEW profile
  PROVE  \E lo, hi \in Nat :
            /\ DocumentBody(text, FindEnvironments(text, mask, "document", Whole(text))) = <<lo, hi>>
            /\ 1 <= lo /\ hi <= Len(text) + 1 /\ EndsAtStop(text, mask, profile, hi)
<1>0. Len(text) \in Nat
  BY DEF Readable
<1>1. PICK docs : docs = FindEnvironments(text, mask, "document", Whole(text))
  OBVIOUS
<1>2. PICK n \in Nat : n = Len(text) + 1 /\ Whole(text) = <<1, n>>
  BY <1>0 DEF Whole
<1>3. CASE docs = {}
  <2>1. DocumentBody(text, docs) = <<1, n>>
    BY <1>2, <1>3 DEF DocumentBody
  <2> QED BY <1>1, <1>2, <2>1 DEF EndsAtStop
<1>4. CASE docs # {}
  <2>1. ASSUME NEW d \in docs
        PROVE  /\ d.span[1] \in Nat
               /\ \E lo, hi \in Nat : /\ d.body = <<lo, hi>> /\ 1 <= lo /\ hi <= n
                                      /\ EndsAtStop(text, mask, profile, hi)
    <3>1. d \in FindEnvironments(text, mask, "document", <<1, n>>)
      BY <1>1, <1>2
    <3>2. d.body[1] \in Nat /\ d.body[2] \in Nat
      BY <3>1, ListPlace
    <3>3. PICK s \in Nat : /\ IsList(text, mask, "document", <<1, n>>, d, s)
                           /\ 1 <= s /\ s < d.body[1] /\ d.body[2] < n
                           /\ d.body[2] \in Named(text, mask, "\\end", "document", <<1, n>>)
      BY <3>1, ListPlace
    <3>4. d.span[1] = s /\ d.body = <<d.body[1], d.body[2]>>
      BY <3>3 DEF IsList
    <3>5. d.body[2] \in Stops(text, mask, profile)
      BY <1>2, <3>3 DEF Stops
    <3>6. 1 <= d.body[1] /\ d.body[2] <= n
      BY <3>2, <3>3
    <3> QED BY <3>2, <3>4, <3>5, <3>6 DEF EndsAtStop
  <2> DEFINE starts == {d.span[1] : d \in docs}
  <2>2. starts \subseteq Nat /\ starts # {}
    BY <1>4, <2>1
  <2>3. PICK m \in starts : \A x \in starts : m <= x
    <3> HIDE DEF starts
    <3> QED BY <2>2, Smallest
  <2>4. PICK first \in docs : \A e \in docs : first.span[1] <= e.span[1]
    BY <2>3
  <2>5. PICK d : d = (CHOOSE x \in docs : \A e \in docs : x.span[1] <= e.span[1])
    OBVIOUS
  <2>6. d \in docs
    BY <2>4, <2>5
  <2>7. DocumentBody(text, docs) = d.body
    BY <1>4, <2>5 DEF DocumentBody
  <2> QED BY <1>1, <1>2, <2>1, <2>6, <2>7
<1> QED BY <1>3, <1>4

\* A member of a concatenation is a member of one of its parts.
LEMMA PartsJoined ==
  ASSUME NEW a, NEW b, IsSeq(a), IsSeq(b)
  PROVE  \A i \in DOMAIN (a \o b) :
            \/ i \in DOMAIN a /\ (a \o b)[i] = a[i]
            \/ \E j \in DOMAIN b : i = Len(a) + j /\ (a \o b)[i] = b[j]
<1> DEFINE S == {a[i] : i \in DOMAIN a} \cup {b[i] : i \in DOMAIN b}
<1>1. \A i \in DOMAIN a : a[i] \in S
  OBVIOUS
<1>2. \A i \in DOMAIN b : b[i] \in S
  OBVIOUS
<1> HIDE DEF S
<1>3. a \in Seq(S) /\ b \in Seq(S)
  BY <1>1, <1>2 DEF IsSeq
<1>4. DOMAIN (a \o b) = 1..(Len(a) + Len(b)) /\ DOMAIN a = 1..Len(a) /\ DOMAIN b = 1..Len(b)
  BY <1>3
<1>5. \A i \in 1..(Len(a) + Len(b)) : (a \o b)[i] = IF i <= Len(a) THEN a[i] ELSE b[i - Len(a)]
  BY <1>3
<1>6. Len(a) \in Nat /\ Len(b) \in Nat
  BY <1>3
<1>7. ASSUME NEW i \in DOMAIN (a \o b)
      PROVE  \/ i \in DOMAIN a /\ (a \o b)[i] = a[i]
             \/ \E j \in DOMAIN b : i = Len(a) + j /\ (a \o b)[i] = b[j]
  <2>1. i \in 1..(Len(a) + Len(b))
    BY <1>4
  <2>2. CASE i <= Len(a)
    BY <1>4, <1>5, <1>6, <2>1, <2>2
  <2>3. CASE ~(i <= Len(a))
    <3>1. i - Len(a) \in DOMAIN b /\ i = Len(a) + (i - Len(a))
      BY <1>4, <1>6, <2>1, <2>3
    <3>2. (a \o b)[i] = b[i - Len(a)]
      BY <1>5, <2>1, <2>3
    <3> QED BY <3>1, <3>2
  <2> QED BY <2>2, <2>3
<1> QED BY <1>7

\* Chains that follow each other are one chain.
LEMMA ChainJoined ==
  ASSUME NEW a, NEW b, IsSeq(a), IsSeq(b), NEW lo \in Nat, NEW mid \in Nat, NEW hi \in Nat, mid <= hi,
         \A i \in DOMAIN a : a[i][1] \in Nat /\ a[i][2] \in Nat,
         \A i \in DOMAIN b : b[i][1] \in Nat /\ b[i][2] \in Nat,
         Chain(a, <<lo, mid>>), Chain(b, <<lo, hi>>), \A j \in DOMAIN b : mid <= b[j][1]
  PROVE  Chain(a \o b, <<lo, hi>>)
<1> DEFINE s == a \o b
<1>0. Len(a) \in Nat /\ DOMAIN a = 1..Len(a) /\ DOMAIN b = 1..Len(b) /\ Len(b) \in Nat
  BY DEF IsSeq
<1>1. \A i \in DOMAIN s : \/ i \in DOMAIN a /\ s[i] = a[i]
                          \/ \E j \in DOMAIN b : i = Len(a) + j /\ s[i] = b[j]
  BY PartsJoined
<1> HIDE DEF s
<1>2. \A i \in DOMAIN a : a[i][1] < a[i][2] /\ lo <= a[i][1] /\ a[i][2] <= mid
  BY DEF Chain, Contains2
<1>3. \A j \in DOMAIN b : b[j][1] < b[j][2] /\ lo <= b[j][1] /\ b[j][2] <= hi /\ mid <= b[j][1]
  BY DEF Chain, Contains2
<1>4. ASSUME NEW i \in DOMAIN s PROVE s[i][1] < s[i][2] /\ Contains2(<<lo, hi>>, s[i])
  <2>1. s[i][1] < s[i][2] /\ lo <= s[i][1] /\ s[i][2] <= hi
    <3>1. CASE i \in DOMAIN a /\ s[i] = a[i]
      BY <1>2, <3>1
    <3>2. ASSUME NEW j \in DOMAIN b, s[i] = b[j] PROVE s[i][1] < s[i][2] /\ lo <= s[i][1] /\ s[i][2] <= hi
      BY <1>3, <3>2
    <3> QED BY <1>1, <3>1, <3>2
  <2> QED BY <2>1 DEF Contains2
<1>5. ASSUME NEW i \in DOMAIN s, NEW j \in DOMAIN s, i < j PROVE s[i][2] <= s[j][1]
  <2>1. CASE i \in DOMAIN a /\ s[i] = a[i]
    <3>1. CASE j \in DOMAIN a /\ s[j] = a[j]
      BY <1>5, <2>1, <3>1 DEF Chain
    <3>2. ASSUME NEW l \in DOMAIN b, s[j] = b[l] PROVE s[i][2] <= s[j][1]
      <4>1. a[i][2] <= mid /\ mid <= b[l][1] /\ a[i][2] \in Nat /\ b[l][1] \in Nat
        BY <1>2, <1>3, <2>1
      <4>2. PICK x, y \in Nat : x = a[i][2] /\ y = b[l][1]
        BY <4>1
      <4> QED BY <2>1, <3>2, <4>1, <4>2
    <3> QED BY <1>1, <3>1, <3>2
  <2>2. ASSUME NEW k \in DOMAIN b, i = Len(a) + k, s[i] = b[k] PROVE s[i][2] <= s[j][1]
    <3>1. j \notin DOMAIN a
      BY <1>0, <1>5, <2>2
    <3>2. PICK l \in DOMAIN b : j = Len(a) + l /\ s[j] = b[l]
      BY <1>1, <3>1
    <3>3. k < l
      BY <1>0, <1>5, <2>2, <3>2
    <3> QED BY <2>2, <3>2, <3>3 DEF Chain
  <2> QED BY <1>1, <2>1, <2>2
<1>6. Chain(s, <<lo, hi>>)
  BY <1>4, <1>5 DEF Chain
<1> QED BY <1>6 DEF s

\* The part that begins at a hit ends at one too, or where the region does.
LEMMA HitsEndAtStops ==
  ASSUME NEW text, NEW mask, Readable(text, mask), NEW profile, NEW hits, hits \subseteq Nat,
         \A h \in hits : h \in mask /\ text[h] \in profile.sections \cup profile.entries,
         NEW hi \in Nat, EndsAtStop(text, mask, profile, hi), NEW h \in Nat, h < hi
  PROVE  /\ NextHit(hits, h, hi) \in Nat /\ EndsAtStop(text, mask, profile, NextHit(hits, h, hi))
         /\ NextHit(hits, h, hi) <= hi
<1>1. hits \subseteq Stops(text, mask, profile)
  BY DEF Stops
<1>2. NextHit(hits, h, hi) \in hits \cup {hi}
  <2> DEFINE later == {j \in hits : j > h} \cup {hi}
  <2>1. later \subseteq Nat /\ later # {} /\ later \subseteq hits \cup {hi} /\ hi \in later
    OBVIOUS
  <2>2. NextHit(hits, h, hi) = Min(later)
    BY DEF NextHit
  <2> HIDE DEF later
  <2>3. Min(later) \in later
    BY <2>1, Smallest
  <2> QED BY <2>1, <2>2, <2>3
<1>3. NextHit(hits, h, hi) \in Nat /\ NextHit(hits, h, hi) <= hi
  BY NextHitBehind
<1> QED BY <1>1, <1>2, <1>3 DEF EndsAtStop

\* What lies in a region lies in a larger one.
LEMMA ChainWithin ==
  ASSUME NEW spans, \A i \in DOMAIN spans : spans[i][1] \in Nat,
         NEW lo \in Nat, NEW from \in Nat, NEW hi, lo <= from, Chain(spans, <<from, hi>>)
  PROVE  Chain(spans, <<lo, hi>>)
<1>1. ASSUME NEW i \in DOMAIN spans PROVE Contains2(<<lo, hi>>, spans[i])
  <2>1. from <= spans[i][1] /\ spans[i][2] <= hi
    BY DEF Chain, Contains2
  <2> QED BY <2>1 DEF Contains2
<1> QED BY <1>1 DEF Chain

\* The bullets of a region are a list, each with a span.
LEMMA BulletsAreListed ==
  ASSUME NEW text, NEW mask, Readable(text, mask), NEW profile, IsSeq(profile.lists), NEW scope,
         NEW lo \in Nat, NEW hi \in Nat
  PROVE  LET bullets == ParseBullets(text, mask, profile, <<lo, hi>>, scope) IN
         /\ Listed(bullets) /\ IsSeq(Outers(bullets)) /\ DOMAIN Outers(bullets) = DOMAIN bullets
         /\ \A i \in DOMAIN bullets : Outers(bullets)[i][1] \in Nat /\ Outers(bullets)[i][2] \in Nat
<1>1. PICK found : found = BulletsFound(text, mask, profile, <<lo, hi>>, scope)
  OBVIOUS
<1>2. PICK order : order = InOrder(found, InOrderOf(found))
  OBVIOUS
<1>3. PICK bullets : bullets = ParseBullets(text, mask, profile, <<lo, hi>>, scope)
  OBVIOUS
<1>4. /\ Listed(bullets) /\ IsSeq(order) /\ Len(bullets) = Len(order)
      /\ \A i \in DOMAIN bullets : order[i] \in found /\ bullets[i].outer = order[i][2].outer
      /\ \A i, j \in DOMAIN bullets : i < j => Earlier(order[i], order[j]) /\ order[i] # order[j]
  BY <1>1, <1>2, <1>3, BulletsOf
<1>5. PICK spans : spans = Outers(bullets)
  OBVIOUS
<1>6. /\ DOMAIN spans = DOMAIN bullets /\ spans = [i \in DOMAIN spans |-> spans[i]]
      /\ \A i \in DOMAIN bullets : spans[i] = bullets[i].outer
  BY <1>5 DEF Outers
<1>7. IsSeq(spans)
  BY <1>4, <1>6, EachIsSeq DEF Listed
<1>8. ASSUME NEW i \in DOMAIN bullets PROVE spans[i][1] \in Nat /\ spans[i][2] \in Nat
  <2>1. PICK p, c \in Nat : Stands(order[i], lo, p, c)
    BY <1>1, <1>4, FoundStands
  <2> QED BY <1>4, <1>6, <2>1 DEF Stands
<1>9. /\ Listed(bullets) /\ IsSeq(spans) /\ DOMAIN spans = DOMAIN bullets
      /\ \A i \in DOMAIN bullets : spans[i][1] \in Nat /\ spans[i][2] \in Nat
  BY <1>4, <1>6, <1>7, <1>8
<1> QED BY <1>3, <1>5, <1>9

\* The bullets of each entry are a list.
LEMMA EntriesAreListed ==
  ASSUME NEW text, NEW mask, Readable(text, mask), NEW profile, IsSeq(profile.lists),
         profile.entryArgs \in Nat, NEW id, NEW lo \in Nat, NEW hi \in Nat
  PROVE  LET entries == ParseEntries(text, mask, profile, id, <<lo, hi>>) IN
         Listed(entries) /\ \A e \in DOMAIN entries : Listed(entries[e].bullets)
<1> DEFINE hits    == FindAll(text, mask, profile.entries, <<lo, hi>>)
           entries == ParseEntries(text, mask, profile, id, <<lo, hi>>)
<1>3. /\ Listed(entries)
      /\ \A k \in DOMAIN entries : \E h \in hits, from \in Nat :
           /\ entries[k].span = <<h, NextHit(hits, h, hi)>> /\ h < from
           /\ ReadIn(text, mask, profile, entries[k].bullets, from, NextHit(hits, h, hi))
      /\ \A k, l \in DOMAIN entries : k < l => entries[k].span[1] < entries[l].span[1]
  BY EntriesOf
<1>4. hits \subseteq Nat /\ \A h \in hits : h \in Nat /\ h < hi
  BY HitsOf
<1> HIDE DEF hits, entries
<1>5. ASSUME NEW e \in DOMAIN entries PROVE Listed(entries[e].bullets)
  <2>1. PICK h \in hits, from \in Nat :
          ReadIn(text, mask, profile, entries[e].bullets, from, NextHit(hits, h, hi))
    BY <1>3
  <2>2. NextHit(hits, h, hi) \in Nat
    BY <1>4, NextHitBehind
  <2>3. PICK scope :
          entries[e].bullets = ParseBullets(text, mask, profile, <<from, NextHit(hits, h, hi)>>, scope)
    BY <2>1 DEF ReadIn
  <2>4. Listed(ParseBullets(text, mask, profile, <<from, NextHit(hits, h, hi)>>, scope))
    BY <2>2, BulletsAreListed
  <2> QED BY <2>3, <2>4
<1>6. Listed(entries) /\ \A e \in DOMAIN entries : Listed(entries[e].bullets)
  BY <1>3, <1>5
<1> QED BY <1>6 DEF entries

\* The spans of the entries of a section, and of the bullets of each of them.
LEMMA EntriesChain ==
  ASSUME NEW text, NEW mask, Readable(text, mask), NEW profile, IsSeq(profile.lists),
         profile.entryArgs \in Nat, Tidy(text, mask, profile),
         NEW id, NEW lo \in Nat, NEW hi \in Nat, EndsAtStop(text, mask, profile, hi)
  PROVE  LET entries == ParseEntries(text, mask, profile, id, <<lo, hi>>)
             spans   == Spans(entries)
         IN  /\ IsSeq(spans) /\ DOMAIN spans = DOMAIN entries
             /\ \A e \in DOMAIN entries : /\ spans[e] = entries[e].span
                                          /\ spans[e][1] \in Nat /\ spans[e][2] \in Nat
                                          /\ spans[e][1] <= hi
                                          /\ EndsAtStop(text, mask, profile, spans[e][1])
             /\ Chain(spans, <<lo, hi>>)
             /\ \A e \in DOMAIN entries : Chain(Outers(entries[e].bullets), entries[e].span)
<1> DEFINE hits    == FindAll(text, mask, profile.entries, <<lo, hi>>)
           entries == ParseEntries(text, mask, profile, id, <<lo, hi>>)
<1>3. /\ Listed(entries)
      /\ \A k \in DOMAIN entries : \E h \in hits, from \in Nat :
           /\ entries[k].span = <<h, NextHit(hits, h, hi)>> /\ h < from
           /\ ReadIn(text, mask, profile, entries[k].bullets, from, NextHit(hits, h, hi))
      /\ \A k, l \in DOMAIN entries : k < l => entries[k].span[1] < entries[l].span[1]
  BY EntriesOf
<1>4. /\ hits \subseteq Nat
      /\ \A h \in hits : h \in Nat /\ lo <= h /\ h < hi /\ h \in mask /\ text[h] \in profile.entries
  BY HitsOf
<1> HIDE DEF hits, entries
<1>5. PICK spans : spans = Spans(entries)
  OBVIOUS
<1>6. /\ DOMAIN spans = DOMAIN entries /\ spans = [i \in DOMAIN spans |-> spans[i]]
      /\ \A e \in DOMAIN entries : spans[e] = entries[e].span
  BY <1>5 DEF Spans
<1>7. IsSeq(spans)
  BY <1>3, <1>6, EachIsSeq DEF Listed
<1>8. Chain(spans, <<lo, hi>>)
  <2>1. \A i \in DOMAIN spans : \E h \in hits : spans[i] = <<h, NextHit(hits, h, hi)>>
    BY <1>3, <1>6
  <2>2. \A i, j \in DOMAIN spans : i < j => spans[i][1] < spans[j][1]
    BY <1>3, <1>6
  <2>3. \A h \in hits : lo <= h /\ h < hi
    BY <1>4
  <2> QED BY <1>4, <2>1, <2>2, <2>3, HitsChain
<1>9. ASSUME NEW e \in DOMAIN entries
      PROVE  /\ spans[e][1] \in Nat /\ spans[e][2] \in Nat /\ spans[e][1] <= hi
             /\ EndsAtStop(text, mask, profile, spans[e][1])
             /\ Chain(Outers(entries[e].bullets), entries[e].span)
  <2>1. PICK h \in hits, from \in Nat :
          /\ entries[e].span = <<h, NextHit(hits, h, hi)>> /\ h < from
          /\ ReadIn(text, mask, profile, entries[e].bullets, from, NextHit(hits, h, hi))
    BY <1>3
  <2>2. PICK end : end = NextHit(hits, h, hi)
    OBVIOUS
  <2>3. h \in Nat /\ h < hi /\ h <= hi
    BY <1>4
  <2>4. end \in Nat /\ EndsAtStop(text, mask, profile, end)
    <3>1. \A x \in hits : x \in mask /\ text[x] \in profile.sections \cup profile.entries
      BY <1>4
    <3> QED BY <1>4, <2>2, <2>3, <3>1, HitsEndAtStops
  <2>5. h \in Stops(text, mask, profile)
    BY <1>4 DEF Stops
  <2>6. PICK bullets : bullets = entries[e].bullets
    OBVIOUS
  <2>7. PICK scope : bullets = ParseBullets(text, mask, profile, <<from, end>>, scope)
    BY <2>1, <2>2, <2>6 DEF ReadIn
  <2>8. Chain(Outers(bullets), <<from, end>>)
    BY <2>4, <2>7, BulletsChain
  <2>9. \A i \in DOMAIN Outers(bullets) : Outers(bullets)[i][1] \in Nat
    BY <2>4, <2>7, BulletsAreListed
  <2>10. h <= from
    BY <2>1, <2>3
  <2>11. Chain(Outers(bullets), <<h, end>>)
    BY <2>3, <2>8, <2>9, <2>10, ChainWithin
  <2>12. entries[e].bullets = bullets /\ entries[e].span = <<h, end>>
    BY <2>1, <2>2, <2>6
  <2> QED BY <1>6, <2>3, <2>4, <2>5, <2>11, <2>12 DEF EndsAtStop
<1>10. /\ IsSeq(spans) /\ DOMAIN spans = DOMAIN entries
       /\ \A e \in DOMAIN entries : /\ spans[e] = entries[e].span
                                    /\ spans[e][1] \in Nat /\ spans[e][2] \in Nat
                                    /\ spans[e][1] <= hi
                                    /\ EndsAtStop(text, mask, profile, spans[e][1])
       /\ Chain(spans, <<lo, hi>>)
       /\ \A e \in DOMAIN entries : Chain(Outers(entries[e].bullets), entries[e].span)
  BY <1>6, <1>7, <1>8, <1>9
<1> QED BY <1>5, <1>10 DEF entries

\* A sequence with a member has a first one.
LEMMA SomeIn ==
  ASSUME NEW s, IsSeq(s), s # <<>>
  PROVE  1 \in DOMAIN s
<1>1. Len(s) \in Nat /\ DOMAIN s = 1..Len(s) /\ s = [i \in DOMAIN s |-> s[i]]
  BY DEF IsSeq
<1>2. ASSUME Len(s) = 0 PROVE s = <<>>
  <2>1. DOMAIN s = {}
    BY <1>1, <1>2
  <2> QED BY <1>1, <2>1
<1> QED BY <1>1, <1>2

\* Every entry begins somewhere.
LEMMA EntriesBegin ==
  ASSUME NEW text, NEW mask, Readable(text, mask), NEW profile, NEW id, profile.entryArgs \in Nat,
         NEW lo \in Nat, NEW hi \in Nat
  PROVE  LET entries == ParseEntries(text, mask, profile, id, <<lo, hi>>)
         IN  \A e \in DOMAIN entries : entries[e].span[1] \in Nat
<1> DEFINE hits    == FindAll(text, mask, profile.entries, <<lo, hi>>)
           entries == ParseEntries(text, mask, profile, id, <<lo, hi>>)
<1>1. /\ Listed(entries)
      /\ \A k \in DOMAIN entries : \E h \in hits, from \in Nat :
           /\ entries[k].span = <<h, NextHit(hits, h, hi)>> /\ h < from
           /\ ReadIn(text, mask, profile, entries[k].bullets, from, NextHit(hits, h, hi))
      /\ \A k, l \in DOMAIN entries : k < l => entries[k].span[1] < entries[l].span[1]
  BY EntriesOf
<1>2. hits \subseteq Nat
  BY HitsOf
<1> HIDE DEF hits, entries
<1>3. \A e \in DOMAIN entries : \E h \in hits : entries[e].span = <<h, NextHit(hits, h, hi)>>
  BY <1>1
<1>4. \A e \in DOMAIN entries : entries[e].span[1] \in Nat
  BY <1>2, <1>3
<1> QED BY <1>4 DEF entries

\* Every list of the tree of a text has ids that tell its members apart.
TreeListed(t) ==
  /\ Listed(t)
  /\ \A s \in DOMAIN t : /\ Listed(t[s].entries) /\ Listed(t[s].loose)
                         /\ \A e \in DOMAIN t[s].entries : Listed(t[s].entries[e].bullets)

\* The tree is the sections of the text, with what is read in the body of each.
LEMMA TreeOfSections ==
  ASSUME NEW text, NEW mask, Readable(text, mask), NEW profile
  PROVE  \E lo, hi \in Nat :
           /\ 1 <= lo /\ hi <= Len(text) + 1 /\ EndsAtStop(text, mask, profile, hi)
           /\ ParseMasked(text, mask, profile) = ParseBody(text, mask, profile, <<lo, hi>>)
<1>1. PICK lo, hi \in Nat :
        /\ DocumentBody(text, FindEnvironments(text, mask, "document", Whole(text))) = <<lo, hi>>
        /\ 1 <= lo /\ hi <= Len(text) + 1 /\ EndsAtStop(text, mask, profile, hi)
  BY BodyBounds
<1>2. ParseMasked(text, mask, profile) = ParseBody(text, mask, profile, <<lo, hi>>)
  BY <1>1 DEF ParseMasked
<1> QED BY <1>1, <1>2

\* Reading any text whose groups are closed (parser.py, parse_resume) gives a tree in which the
\* sections, the entries of a section and the bullets of a group have unique ids, however often a
\* text is repeated (parser.py:175, _disambiguate).
THEOREM TreeIsListed ==
  ASSUME NEW text, NEW mask, Readable(text, mask), NEW profile, IsSeq(profile.lists),
         profile.entryArgs \in Nat
  PROVE  TreeListed(ParseMasked(text, mask, profile))
<1>1. PICK lo, hi \in Nat :
        /\ hi <= Len(text) + 1
        /\ ParseMasked(text, mask, profile) = ParseBody(text, mask, profile, <<lo, hi>>)
  BY TreeOfSections
<1> DEFINE hits  == FindAll(text, mask, profile.sections, <<lo, hi>>)
           found == Sections(text, mask, profile, <<lo, hi>>)
<1>2. PICK t : t = ParseBody(text, mask, profile, <<lo, hi>>)
  OBVIOUS
<1>3. /\ DOMAIN t = DOMAIN found /\ t = [s \in DOMAIN t |-> t[s]]
      /\ \A s \in DOMAIN t : t[s] =
           WithEntries(text, mask, profile, found[s],
                       ParseEntries(text, mask, profile, found[s].id, found[s].body))
  BY <1>2 DEF ParseBody, Each
<1>4. /\ Listed(found)
      /\ \A k \in DOMAIN found : \E h \in hits, from \in Nat :
           /\ found[k].span = <<h, NextHit(hits, h, hi)>> /\ h < from
           /\ found[k].body = <<from, NextHit(hits, h, hi)>>
      /\ \A k, l \in DOMAIN found : k < l => found[k].span[1] < found[l].span[1]
  BY SectionsOf
<1>5. hits \subseteq Nat /\ \A h \in hits : h \in Nat /\ h < hi
  BY HitsOf
<1> HIDE DEF hits, found
<1>6. ASSUME NEW s \in DOMAIN t
      PROVE  /\ t[s].id = found[s].id
             /\ Listed(t[s].entries) /\ Listed(t[s].loose)
             /\ \A e \in DOMAIN t[s].entries : Listed(t[s].entries[e].bullets)
  <2>1. PICK h \in hits, from \in Nat : found[s].body = <<from, NextHit(hits, h, hi)>>
    BY <1>3, <1>4
  <2>2. PICK end \in Nat : end = NextHit(hits, h, hi)
    BY <1>5, NextHitBehind
  <2>3. PICK entries : entries = ParseEntries(text, mask, profile, found[s].id, <<from, end>>)
    OBVIOUS
  <2>4. Listed(entries) /\ \A e \in DOMAIN entries : Listed(entries[e].bullets)
    BY <2>3, EntriesAreListed
  <2>5. found[s].body = <<from, end>>
    BY <2>1, <2>2
  <2>6. t[s] = WithEntries(text, mask, profile, found[s], entries)
    BY <1>3, <2>3, <2>5
  <2>7. t[s].id = found[s].id /\ t[s].entries = entries
    BY <2>6 DEF WithEntries
  <2>8. \E x \in Nat : t[s].loose = ParseBullets(text, mask, profile, <<from, x>>, found[s].id)
    <3>1. t[s].loose = ParseBullets(text, mask, profile,
             <<from, IF entries = <<>> THEN end ELSE entries[1].span[1]>>, found[s].id)
      BY <2>5, <2>6 DEF WithEntries
    <3>2. CASE entries = <<>>
      BY <3>1, <3>2
    <3>3. CASE entries # <<>>
      <4>1. 1 \in DOMAIN entries
        BY <2>4, <3>3, SomeIn DEF Listed
      <4>2. entries[1].span[1] \in Nat
        BY <2>3, <4>1, EntriesBegin
      <4> QED BY <3>1, <3>3, <4>2
    <3> QED BY <3>2, <3>3
  <2>9. Listed(t[s].loose)
    BY <2>8, BulletsAreListed
  <2> QED BY <2>4, <2>7, <2>9
<1>7. Listed(t)
  <2>1. IsSeq(t)
    BY <1>3, <1>4, EachIsSeq DEF Listed
  <2> QED BY <1>3, <1>4, <1>6, <2>1 DEF Listed
<1>8. TreeListed(t)
  BY <1>6, <1>7 DEF TreeListed
<1> QED BY <1>1, <1>2, <1>8

\* The parts of a section whose body is `lo` to `hi`, in a tidy text.
LEMMA SectionIsNested ==
  ASSUME NEW text, NEW mask, Readable(text, mask), NEW profile, IsSeq(profile.lists),
         profile.entryArgs \in Nat, Tidy(text, mask, profile),
         NEW s, NEW lo \in Nat, NEW hi \in Nat, s.body = <<lo, hi>>, EndsAtStop(text, mask, profile, hi)
  PROVE  LET node == WithEntries(text, mask, profile, s,
                                 ParseEntries(text, mask, profile, s.id, s.body))
         IN  /\ node.body = s.body /\ node.span = s.span
             /\ Chain(Spans(node.entries), node.body)
             /\ Chain(Outers(node.loose) \o Spans(node.entries), node.body)
             /\ \A e \in DOMAIN node.entries :
                   Chain(Outers(node.entries[e].bullets), node.entries[e].span)
<1> DEFINE found == ParseEntries(text, mask, profile, s.id, <<lo, hi>>)
<1>1. /\ IsSeq(Spans(found)) /\ DOMAIN Spans(found) = DOMAIN found
      /\ \A e \in DOMAIN found : /\ Spans(found)[e] = found[e].span
                                 /\ Spans(found)[e][1] \in Nat /\ Spans(found)[e][2] \in Nat
                                 /\ Spans(found)[e][1] <= hi
                                 /\ EndsAtStop(text, mask, profile, Spans(found)[e][1])
      /\ Chain(Spans(found), <<lo, hi>>)
      /\ \A e \in DOMAIN found : Chain(Outers(found[e].bullets), found[e].span)
  BY EntriesChain
<1>2. Listed(found)
  BY EntriesAreListed
<1>3. PICK entries : entries = found /\ entries = ParseEntries(text, mask, profile, s.id, s.body)
  OBVIOUS
<1> HIDE DEF found
<1>4. PICK node : node = WithEntries(text, mask, profile, s, entries)
  OBVIOUS
<1>5. PICK end : end = IF entries = <<>> THEN hi ELSE entries[1].span[1]
  OBVIOUS
<1>6. /\ node.body = <<lo, hi>> /\ node.span = s.span /\ node.entries = entries
      /\ node.loose = ParseBullets(text, mask, profile, <<lo, end>>, s.id)
  BY <1>4, <1>5 DEF WithEntries
<1>7. entries # <<>> => 1 \in DOMAIN entries
  BY <1>2, <1>3, SomeIn DEF Listed
<1>8. end \in Nat /\ end <= hi /\ EndsAtStop(text, mask, profile, end)
  <2>1. CASE entries = <<>>
    BY <1>5, <2>1
  <2>2. CASE entries # <<>>
    BY <1>1, <1>3, <1>5, <1>7, <2>2
  <2> QED BY <2>1, <2>2
<1>9. PICK spans : spans = Spans(entries)
  OBVIOUS
<1>10. /\ IsSeq(spans) /\ Chain(spans, <<lo, hi>>)
       /\ \A e \in DOMAIN spans : spans[e][1] \in Nat /\ spans[e][2] \in Nat
  BY <1>1, <1>3, <1>9
<1>11. \A e \in DOMAIN spans : end <= spans[e][1]
  <2>1. SUFFICES ASSUME NEW e \in DOMAIN spans PROVE end <= spans[e][1]
    OBVIOUS
  <2>2. entries # <<>>
    BY <1>1, <1>3, <1>9
  <2>3. 1 \in DOMAIN spans /\ end = spans[1][1]
    BY <1>1, <1>3, <1>5, <1>7, <1>9, <2>2
  <2>4. e \in Nat /\ 1 <= e
    BY <1>10 DEF IsSeq
  <2>5. CASE e = 1
    BY <1>8, <2>3, <2>5
  <2>6. CASE e # 1
    <3>1. 1 < e
      BY <2>4, <2>6
    <3>2. spans[1][1] < spans[1][2] /\ spans[1][2] <= spans[e][1]
      BY <1>10, <2>3, <3>1 DEF Chain
    <3>3. PICK x, y, z \in Nat : x = spans[1][1] /\ y = spans[1][2] /\ z = spans[e][1]
      BY <1>10, <2>3
    <3> QED BY <2>3, <3>2, <3>3
  <2> QED BY <2>5, <2>6
<1>12. PICK outers : outers = Outers(node.loose)
  OBVIOUS
<1>13. /\ IsSeq(outers) /\ \A i \in DOMAIN outers : outers[i][1] \in Nat /\ outers[i][2] \in Nat
  BY <1>6, <1>8, <1>12, BulletsAreListed
<1>14. Chain(outers, <<lo, end>>)
  BY <1>6, <1>8, <1>12, BulletsChain
<1>15. Chain(outers \o spans, <<lo, hi>>)
  BY <1>8, <1>10, <1>11, <1>13, <1>14, ChainJoined
<1>16. \A e \in DOMAIN node.entries : Chain(Outers(node.entries[e].bullets), node.entries[e].span)
  BY <1>1, <1>3, <1>6
<1>17. /\ node.body = s.body /\ node.span = s.span
       /\ Chain(Spans(node.entries), node.body)
       /\ Chain(Outers(node.loose) \o Spans(node.entries), node.body)
  BY <1>6, <1>9, <1>10, <1>12, <1>15
<1> QED BY <1>3, <1>4, <1>16, <1>17

\* The sections of any text follow each other within it.
LEMMA SectionsFollow ==
  ASSUME NEW text, NEW mask, Readable(text, mask), NEW profile, IsSeq(profile.lists),
         profile.entryArgs \in Nat
  PROVE  LET t == ParseMasked(text, mask, profile) IN
         /\ Chain(Spans(t), Whole(text))
         /\ \A s \in DOMAIN t : t[s].span[1] \in Nat /\ t[s].span[2] \in Nat
<1>1. PICK lo, hi \in Nat :
        /\ 1 <= lo /\ hi <= Len(text) + 1 /\ EndsAtStop(text, mask, profile, hi)
        /\ ParseMasked(text, mask, profile) = ParseBody(text, mask, profile, <<lo, hi>>)
  BY TreeOfSections
<1> DEFINE hits  == FindAll(text, mask, profile.sections, <<lo, hi>>)
           found == Sections(text, mask, profile, <<lo, hi>>)
<1>2. PICK t : t = ParseBody(text, mask, profile, <<lo, hi>>)
  OBVIOUS
<1>3. DOMAIN t = DOMAIN found /\ \A s \in DOMAIN t : t[s].span = found[s].span
  BY <1>2 DEF ParseBody, Each, WithEntries
<1>4. /\ Listed(found)
      /\ \A k \in DOMAIN found : \E h \in hits, from \in Nat :
           /\ found[k].span = <<h, NextHit(hits, h, hi)>> /\ h < from
           /\ found[k].body = <<from, NextHit(hits, h, hi)>>
      /\ \A k, l \in DOMAIN found : k < l => found[k].span[1] < found[l].span[1]
  BY SectionsOf
<1>5. hits \subseteq Nat /\ \A h \in hits : /\ h \in Nat /\ lo <= h /\ h < hi
                                            /\ h \in mask /\ text[h] \in profile.sections
  BY HitsOf
<1> HIDE DEF hits, found
<1>6. ASSUME NEW s \in DOMAIN t PROVE t[s].span = found[s].span
  BY <1>3
<1>7. Chain(Spans(t), <<lo, hi>>)
  <2>1. PICK spans : spans = Spans(t)
    OBVIOUS
  <2>2. DOMAIN spans = DOMAIN t /\ \A i \in DOMAIN spans : spans[i] = found[i].span
    BY <1>6, <2>1 DEF Spans
  <2>3. \A i \in DOMAIN spans : \E h \in hits : spans[i] = <<h, NextHit(hits, h, hi)>>
    BY <1>3, <1>4, <2>2
  <2>4. \A i, j \in DOMAIN spans : i < j => spans[i][1] < spans[j][1]
    BY <1>3, <1>4, <2>2
  <2>5. \A h \in hits : lo <= h /\ h < hi
    BY <1>5
  <2>6. Chain(spans, <<lo, hi>>)
    BY <1>5, <2>3, <2>4, <2>5, HitsChain
  <2> QED BY <2>1, <2>6
<1>8. Chain(Spans(t), Whole(text))
  <2>1. Len(text) + 1 \in Nat
    <3>1. Len(text) \in Nat
      BY DEF Readable
    <3> QED BY <3>1
  <2>2. PICK n \in Nat : n = Len(text) + 1 /\ Whole(text) = <<1, n>>
    BY <2>1 DEF Whole
  <2>3. PICK spans : spans = Spans(t)
    OBVIOUS
  <2>4. ASSUME NEW i \in DOMAIN spans
        PROVE  \E p, c \in Nat : spans[i] = <<p, c>> /\ lo <= p /\ c <= hi
    <3>1. i \in DOMAIN t /\ spans[i] = found[i].span
      BY <1>6, <2>3, <2>4 DEF Spans
    <3>2. PICK h \in hits : found[i].span = <<h, NextHit(hits, h, hi)>>
      BY <1>3, <1>4, <3>1
    <3>3. NextHit(hits, h, hi) \in Nat /\ NextHit(hits, h, hi) <= hi /\ h \in Nat /\ lo <= h
      BY <1>5, NextHitBehind
    <3> QED BY <3>1, <3>2, <3>3
  <2>5. ASSUME NEW i \in DOMAIN spans
        PROVE  Contains2(<<1, n>>, spans[i])
    <3>1. PICK p, c \in Nat : spans[i] = <<p, c>> /\ lo <= p /\ c <= hi
      BY <2>4
    <3>2. 1 <= p /\ c <= n
      BY <1>1, <2>2, <3>1
    <3> QED BY <3>1, <3>2 DEF Contains2
  <2> QED BY <1>7, <2>2, <2>3, <2>5 DEF Chain
<1>9. ASSUME NEW s \in DOMAIN t PROVE t[s].span[1] \in Nat /\ t[s].span[2] \in Nat
  <2>1. PICK h \in hits : t[s].span = <<h, NextHit(hits, h, hi)>>
    BY <1>3, <1>4
  <2>2. NextHit(hits, h, hi) \in Nat /\ h \in Nat
    BY <1>5, NextHitBehind
  <2> QED BY <2>1, <2>2
<1> QED BY <1>1, <1>2, <1>8, <1>9

\* A tidy text is read as parts nested in parts: sections, entries and bullets follow each other
\* within what they are part of, and loose bullets come before the first entry (parser.py; what
\* apply.py:384-437 splices by).
THEOREM TreeIsNested ==
  ASSUME NEW text, NEW mask, Readable(text, mask), NEW profile, IsSeq(profile.lists),
         profile.entryArgs \in Nat, Tidy(text, mask, profile)
  PROVE  Nested(ParseMasked(text, mask, profile), text)
<1>1. PICK lo, hi \in Nat :
        /\ 1 <= lo /\ hi <= Len(text) + 1 /\ EndsAtStop(text, mask, profile, hi)
        /\ ParseMasked(text, mask, profile) = ParseBody(text, mask, profile, <<lo, hi>>)
  BY TreeOfSections
<1> DEFINE hits  == FindAll(text, mask, profile.sections, <<lo, hi>>)
           found == Sections(text, mask, profile, <<lo, hi>>)
<1>2. PICK t : t = ParseBody(text, mask, profile, <<lo, hi>>)
  OBVIOUS
<1>3. /\ DOMAIN t = DOMAIN found
      /\ \A s \in DOMAIN t : t[s] =
           WithEntries(text, mask, profile, found[s],
                       ParseEntries(text, mask, profile, found[s].id, found[s].body))
  BY <1>2 DEF ParseBody, Each
<1>4. /\ Listed(found)
      /\ \A k \in DOMAIN found : \E h \in hits, from \in Nat :
           /\ found[k].span = <<h, NextHit(hits, h, hi)>> /\ h < from
           /\ found[k].body = <<from, NextHit(hits, h, hi)>>
      /\ \A k, l \in DOMAIN found : k < l => found[k].span[1] < found[l].span[1]
  BY SectionsOf
<1>5. hits \subseteq Nat /\ \A h \in hits : /\ h \in Nat /\ lo <= h /\ h < hi
                                            /\ h \in mask /\ text[h] \in profile.sections
  BY HitsOf
<1> HIDE DEF hits, found
<1>6. ASSUME NEW s \in DOMAIN t
      PROVE  /\ Chain(Spans(t[s].entries), t[s].body)
             /\ Chain(Outers(t[s].loose) \o Spans(t[s].entries), t[s].body)
             /\ \A e \in DOMAIN t[s].entries :
                   Chain(Outers(t[s].entries[e].bullets), t[s].entries[e].span)
  <2>1. PICK h \in hits, from \in Nat : found[s].body = <<from, NextHit(hits, h, hi)>>
    BY <1>3, <1>4
  <2>2. h \in Nat /\ h < hi
    BY <1>5
  <2>3. NextHit(hits, h, hi) \in Nat /\ EndsAtStop(text, mask, profile, NextHit(hits, h, hi))
    <3>1. \A x \in hits : x \in mask /\ text[x] \in profile.sections \cup profile.entries
      BY <1>5
    <3> QED BY <1>1, <1>5, <2>2, <3>1, HitsEndAtStops
  <2>4. PICK sec : sec = found[s]
    OBVIOUS
  <2>5. PICK node : node = WithEntries(text, mask, profile, sec,
                                       ParseEntries(text, mask, profile, sec.id, sec.body))
    OBVIOUS
  <2>6. /\ Chain(Spans(node.entries), node.body)
        /\ Chain(Outers(node.loose) \o Spans(node.entries), node.body)
        /\ \A e \in DOMAIN node.entries :
              Chain(Outers(node.entries[e].bullets), node.entries[e].span)
    BY <2>1, <2>3, <2>4, <2>5, SectionIsNested
  <2>7. t[s] = node
    BY <1>3, <2>4, <2>5
  <2> QED BY <2>6, <2>7
<1>7. Chain(Spans(t), Whole(text))
  BY <1>1, <1>2, SectionsFollow
<1>8. Nested(t, text)
  BY <1>6, <1>7 DEF Nested
<1> QED BY <1>1, <1>2, <1>8

(* --------------------------------- Pieces --------------------------------- *)

\* f[n] is what the pieces from place a on put together come to, n of them.
GluedBy(f, P, a, n) == f = [i \in 0..n |-> IF i = 0 THEN <<>> ELSE f[i - 1] \o P[a + i - 1]]

\* The pieces at the places a .. b-1, put together.
Glue(P, a, b) == LET f == CHOOSE g : GluedBy(g, P, a, b - a) IN f[b - a]

\* There is such a function, for any number of pieces.
LEMMA GlueIsThere ==
  ASSUME NEW P, NEW a, NEW n \in Nat
  PROVE  \E f : GluedBy(f, P, a, n)
<1> DEFINE Q == {m \in Nat : \E f : GluedBy(f, P, a, m)}
<1>1. 0 \in Q
  <2>1. GluedBy([i \in 0..0 |-> <<>>], P, a, 0)
    BY DEF GluedBy
  <2> QED BY <2>1
<1>2. ASSUME NEW m \in 0..(n - 1), m \in Q PROVE m + 1 \in Q
  <2>1. PICK f : GluedBy(f, P, a, m)
    BY <1>2
  <2>2. \A i \in 0..m : f[i] = IF i = 0 THEN <<>> ELSE f[i - 1] \o P[a + i - 1]
    BY <2>1 DEF GluedBy
  <2> DEFINE g == [i \in 0..(m + 1) |-> IF i <= m THEN f[i] ELSE f[m] \o P[a + i - 1]]
  <2>3. \A i \in 0..m : g[i] = f[i]
    BY <1>2
  <2>4. g[m + 1] = g[m] \o P[a + (m + 1) - 1]
    BY <1>2
  <2>5. g = [i \in 0..(m + 1) |-> g[i]]
    OBVIOUS
  <2> HIDE DEF g
  <2>6. ASSUME NEW i \in 0..(m + 1) PROVE g[i] = IF i = 0 THEN <<>> ELSE g[i - 1] \o P[a + i - 1]
    <3>1. CASE i = m + 1
      <4>1. i - 1 = m /\ i # 0
        BY <1>2, <3>1
      <4> QED BY <2>4, <3>1, <4>1
    <3>2. CASE i # m + 1
      <4>1. i \in 0..m /\ (i # 0 => i - 1 \in 0..m)
        BY <1>2, <3>2
      <4> QED BY <2>2, <2>3, <4>1
    <3> QED BY <3>1, <3>2
  <2>7. GluedBy(g, P, a, m + 1)
    BY <2>5, <2>6 DEF GluedBy
  <2>8. m + 1 \in Nat
    BY <1>2
  <2> QED BY <2>7, <2>8
<1>3. n \in Q
  <2> HIDE DEF Q
  <2>1. \A k \in 0..n : k \in Q
    BY <1>1, <1>2, UpTo
  <2> QED BY <2>1
<1> QED BY <1>3

\* And only one, whose values do not depend on how far it goes.
LEMMA GlueIsUnique ==
  ASSUME NEW P, NEW a, NEW n \in Nat, NEW m \in Nat, n <= m,
         NEW f, GluedBy(f, P, a, n), NEW g, GluedBy(g, P, a, m)
  PROVE  \A i \in 0..n : f[i] = g[i]
<1> DEFINE Q == {i \in 0..n : f[i] = g[i]}
<1>1. \A i \in 0..n : f[i] = IF i = 0 THEN <<>> ELSE f[i - 1] \o P[a + i - 1]
  BY DEF GluedBy
<1>2. \A i \in 0..m : g[i] = IF i = 0 THEN <<>> ELSE g[i - 1] \o P[a + i - 1]
  BY DEF GluedBy
<1>3. 0 \in Q
  BY <1>1, <1>2
<1>4. ASSUME NEW k \in 0..(n - 1), k \in Q PROVE k + 1 \in Q
  <2>1. PICK j : j = k + 1
    OBVIOUS
  <2>2. j \in 0..n /\ j \in 0..m /\ j # 0 /\ j - 1 = k
    BY <2>1
  <2>3. f[j] = f[k] \o P[a + j - 1]
    BY <1>1, <2>2
  <2>4. g[j] = g[k] \o P[a + j - 1]
    BY <1>2, <2>2
  <2> QED BY <1>4, <2>1, <2>2, <2>3, <2>4
<1>5. \A k \in 0..n : k \in Q
  <2> HIDE DEF Q
  <2> QED BY <1>3, <1>4, UpTo
<1> QED BY <1>5

\* No pieces come to nothing.
LEMMA GlueNone == ASSUME NEW P, NEW a \in Int PROVE Glue(P, a, a) = <<>>
<1>1. PICK f : f = CHOOSE g : GluedBy(g, P, a, a - a)
  OBVIOUS
<1>2. a - a = 0
  OBVIOUS
<1>3. GluedBy(f, P, a, 0)
  BY <1>1, <1>2, GlueIsThere
<1>4. f[0] = <<>>
  BY <1>3 DEF GluedBy
<1> QED BY <1>1, <1>2, <1>4 DEF Glue

\* One more piece is put behind.
LEMMA GlueStep ==
  ASSUME NEW P, NEW a \in Int, NEW b \in Int, a <= b
  PROVE  Glue(P, a, b + 1) = Glue(P, a, b) \o P[b]
<1>1. PICK f : f = CHOOSE g : GluedBy(g, P, a, b - a)
  OBVIOUS
<1>2. PICK h : h = CHOOSE g : GluedBy(g, P, a, b + 1 - a)
  OBVIOUS
<1>3. PICK n \in Nat : n = b - a /\ n + 1 = b + 1 - a /\ a + (n + 1) - 1 = b
  OBVIOUS
<1>4. GluedBy(f, P, a, n)
  <2>1. \E g : GluedBy(g, P, a, n)
    BY GlueIsThere
  <2> QED BY <1>1, <1>3, <2>1
<1>5. GluedBy(h, P, a, n + 1)
  <2>1. \E g : GluedBy(g, P, a, n + 1)
    BY GlueIsThere
  <2> QED BY <1>2, <1>3, <2>1
<1>6. f[n] = h[n]
  BY <1>4, <1>5, GlueIsUnique
<1>7. h[n + 1] = h[n] \o P[b]
  <2>1. \A i \in 0..(n + 1) : h[i] = IF i = 0 THEN <<>> ELSE h[i - 1] \o P[a + i - 1]
    BY <1>5 DEF GluedBy
  <2>2. n + 1 \in 0..(n + 1) /\ n + 1 # 0 /\ (n + 1) - 1 = n
    OBVIOUS
  <2> QED BY <1>3, <2>1, <2>2
<1>8. Glue(P, a, b + 1) = h[n + 1] /\ Glue(P, a, b) = f[n]
  BY <1>1, <1>2, <1>3 DEF Glue
<1> QED BY <1>6, <1>7, <1>8

\* Induction upwards from a.
LEMMA Upward ==
  ASSUME NEW a \in Int, NEW b \in Int, a <= b, NEW Q, a \in Q,
         \A k \in a..(b - 1) : k \in Q => k + 1 \in Q
  PROVE  b \in Q
<1> DEFINE N == {i \in Nat : a + i \in Q}
<1>1. PICK n \in Nat : n = b - a /\ a + n = b
  OBVIOUS
<1>2. 0 \in N
  OBVIOUS
<1>3. ASSUME NEW i \in 0..(n - 1), i \in N PROVE i + 1 \in N
  <2>1. a + i \in a..(b - 1) /\ a + i \in Q /\ (a + i) + 1 = a + (i + 1) /\ i + 1 \in Nat
    BY <1>1, <1>3
  <2> QED BY <2>1
<1>4. \A i \in 0..n : i \in N
  <2> HIDE DEF N
  <2> QED BY <1>2, <1>3, UpTo
<1> QED BY <1>1, <1>4

\* Pieces that are sequences come to a sequence.
LEMMA GlueType ==
  ASSUME NEW S, NEW P, NEW a \in Int, NEW b \in Int, a <= b, \A i \in a..(b - 1) : P[i] \in Seq(S)
  PROVE  Glue(P, a, b) \in Seq(S)
<1> DEFINE Q == {k \in Int : Glue(P, a, k) \in Seq(S)}
<1>1. a \in Q
  BY GlueNone, EmptySeq
<1>2. ASSUME NEW k \in a..(b - 1), k \in Q PROVE k + 1 \in Q
  <2>0. k \in Int /\ a <= k
    OBVIOUS
  <2>1. Glue(P, a, k + 1) = Glue(P, a, k) \o P[k]
    BY <2>0, GlueStep
  <2>2. Glue(P, a, k) \in Seq(S) /\ P[k] \in Seq(S)
    BY <1>2
  <2>3. Glue(P, a, k + 1) \in Seq(S)
    BY <2>1, <2>2, ConcatProperties
  <2> QED BY <2>0, <2>3
<1>3. b \in Q
  <2> HIDE DEF Q
  <2> QED BY <1>1, <1>2, Upward
<1> QED BY <1>3

\* What is put together in two parts is what is put together at once.
LEMMA GlueJoin ==
  ASSUME NEW S, NEW P, NEW a \in Int, NEW b \in Int, NEW c \in Int, a <= b, b <= c,
         \A i \in a..(c - 1) : P[i] \in Seq(S)
  PROVE  Glue(P, a, c) = Glue(P, a, b) \o Glue(P, b, c)
<1> DEFINE Q == {k \in Int : Glue(P, a, k) = Glue(P, a, b) \o Glue(P, b, k)}
<1>0. Glue(P, a, b) \in Seq(S)
  BY GlueType
<1>1. b \in Q
  <2>1. Glue(P, b, b) = <<>>
    BY GlueNone
  <2> QED BY <1>0, <2>1
<1>2. ASSUME NEW k \in b..(c - 1), k \in Q PROVE k + 1 \in Q
  <2>0. k \in Int /\ a <= k /\ b <= k
    OBVIOUS
  <2>1. PICK x, y, z, p : x = Glue(P, a, b) /\ y = Glue(P, b, k) /\ z = Glue(P, a, k) /\ p = P[k]
    OBVIOUS
  <2>2. Glue(P, a, k + 1) = z \o p /\ Glue(P, b, k + 1) = y \o p
    BY <2>0, <2>1, GlueStep
  <2>3. y \in Seq(S)
    BY <2>1, GlueType
  <2>4. x \in Seq(S) /\ p \in Seq(S)
    BY <1>0, <2>1
  <2>5. (x \o y) \o p = x \o (y \o p)
    BY <2>3, <2>4, ConcatAssociative
  <2>6. z = x \o y
    BY <1>2, <2>1
  <2>7. k + 1 \in Int
    OBVIOUS
  <2> QED BY <2>1, <2>2, <2>5, <2>6, <2>7
<1>3. c \in Q
  <2> HIDE DEF Q
  <2> QED BY <1>1, <1>2, Upward
<1> QED BY <1>3

\* The same pieces come to the same.
LEMMA GlueSame ==
  ASSUME NEW P, NEW R, NEW a \in Int, NEW b \in Int, a <= b, \A i \in a..(b - 1) : P[i] = R[i]
  PROVE  Glue(P, a, b) = Glue(R, a, b)
<1> DEFINE Q == {k \in Int : Glue(P, a, k) = Glue(R, a, k)}
<1>1. a \in Q
  BY GlueNone
<1>2. ASSUME NEW k \in a..(b - 1), k \in Q PROVE k + 1 \in Q
  <2>0. k \in Int /\ a <= k
    OBVIOUS
  <2>1. Glue(P, a, k + 1) = Glue(P, a, k) \o P[k] /\ Glue(R, a, k + 1) = Glue(R, a, k) \o R[k]
    BY <2>0, GlueStep
  <2>2. P[k] = R[k] /\ Glue(P, a, k) = Glue(R, a, k) /\ k + 1 \in Int
    BY <1>2
  <2> QED BY <2>1, <2>2
<1>3. b \in Q
  <2> HIDE DEF Q
  <2> QED BY <1>1, <1>2, Upward
<1> QED BY <1>3

\* FlattenSeq puts all pieces together.
LEMMA FlattenIsGlue ==
  ASSUME NEW S, NEW n \in Nat, NEW s \in [1..n -> Seq(S)]
  PROVE  FlattenSeq(s) = Glue(s, 1, n + 1)
<1>0. Len(s) = n /\ \A i \in 1..n : s[i] \in Seq(S)
  OBVIOUS
<1>1. CASE n = 0
  <2>1. s = <<>> /\ FlattenSeq(s) = s
    BY <1>0, <1>1 DEF FlattenSeq
  <2>2. Glue(s, 1, 1) = <<>>
    BY GlueNone
  <2> QED BY <1>1, <2>1, <2>2
<1>2. CASE n # 0
  <2> DEFINE Is(f) == f = [i \in 1..n |-> IF i = 1 THEN s[i] ELSE f[i - 1] \o s[i]]
             g == [i \in 1..n |-> Glue(s, 1, i + 1)]
  <2>1. PICK f : f = CHOOSE h : Is(h)
    OBVIOUS
  <2>2. FlattenSeq(s) = f[n]
    BY <1>0, <1>2, <2>1 DEF FlattenSeq
  <2>3. Is(g)
    <3>1. ASSUME NEW i \in 1..n PROVE g[i] = IF i = 1 THEN s[i] ELSE g[i - 1] \o s[i]
      <4>0. 1 \in Int /\ i \in Int /\ 1 <= i
        OBVIOUS
      <4>1. Glue(s, 1, i + 1) = Glue(s, 1, i) \o s[i]
        BY <4>0, GlueStep
      <4>2. CASE i = 1
        <5>1. Glue(s, 1, 1) = <<>>
          BY GlueNone
        <5>2. s[1] \in Seq(S) /\ g[1] = Glue(s, 1, 1 + 1)
          BY <1>0, <4>2
        <5>3. <<>> \o s[1] = s[1]
          BY <5>2, ConcatEmptySeq
        <5> QED BY <4>1, <4>2, <5>1, <5>2, <5>3
      <4>3. CASE i # 1
        <5>1. i - 1 \in 1..n /\ (i - 1) + 1 = i
          BY <4>3
        <5>2. g[i - 1] = Glue(s, 1, i)
          BY <5>1
        <5> QED BY <4>1, <4>3, <5>2
      <4> QED BY <4>2, <4>3
    <3>2. g = [i \in 1..n |-> g[i]]
      OBVIOUS
    <3> HIDE DEF g
    <3> QED BY <3>1, <3>2
  <2>4. Is(f)
    <3> HIDE DEF Is
    <3> QED BY <2>1, <2>3
  <2>5. \A i \in 1..n : f[i] = IF i = 1 THEN s[i] ELSE f[i - 1] \o s[i]
    BY <2>4
  <2>6. \A i \in 1..n : g[i] = IF i = 1 THEN s[i] ELSE g[i - 1] \o s[i]
    BY <2>3
  <2> HIDE DEF Is, g
  <2> DEFINE Q == {k \in 1..n : f[k] = g[k]}
  <2>7. 1 \in Q
    BY <1>2, <2>5, <2>6
  <2>8. ASSUME NEW k \in 1..(n - 1), k \in Q PROVE k + 1 \in Q
    <3>1. PICK j : j = k + 1
      OBVIOUS
    <3>2. j \in 1..n /\ j # 1 /\ j - 1 = k
      BY <3>1
    <3> QED BY <2>5, <2>6, <2>8, <3>1, <3>2
  <2>9. n \in Q
    <3> HIDE DEF Q
    <3> QED BY <1>2, <2>7, <2>8, Upward
  <2>10. g[n] = Glue(s, 1, n + 1)
    BY <1>2 DEF g
  <2> QED BY <2>2, <2>9, <2>10
<1> QED BY <1>1, <1>2

\* The lexemes of a text, one by one, come to the text.
LEMMA GlueText ==
  ASSUME NEW S, NEW text \in Seq(S), NEW a \in Nat \ {0}, NEW b \in Nat, a <= b, b <= Len(text) + 1,
         NEW P, \A i \in a..(b - 1) : P[i] = <<text[i]>>
  PROVE  Glue(P, a, b) = Text(text, <<a, b>>)
<1> DEFINE Q == {k \in Int : Glue(P, a, k) = Text(text, <<a, k>>)}
<1>1. a \in Q
  <2>1. SubSeq(text, a, a - 1) = <<>>
    <3>1. a \in Int /\ a - 1 \in Int /\ a - 1 < a
      OBVIOUS
    <3> QED BY <3>1, SubSeqEmpty
  <2>2. Glue(P, a, a) = <<>> /\ a \in Int
    <3>1. a \in Int
      OBVIOUS
    <3> QED BY <3>1, GlueNone
  <2> QED BY <2>1, <2>2 DEF Text
<1>2. ASSUME NEW k \in a..(b - 1), k \in Q PROVE k + 1 \in Q
  <2>0. a \in Int /\ k \in Int /\ a <= k
    OBVIOUS
  <2>1. Glue(P, a, k + 1) = Glue(P, a, k) \o <<text[k]>>
    <3>1. P[k] = <<text[k]>>
      OBVIOUS
    <3> QED BY <2>0, <3>1, GlueStep
  <2>2. a \in 1..Len(text) /\ k \in a..Len(text)
    OBVIOUS
  <2>3. SubSeq(text, a, k) = SubSeq(text, a, k - 1) \o <<text[k]>>
    BY <2>2, SubSeqRecursiveSecond
  <2>4. (k + 1) - 1 = k /\ k + 1 \in Int
    OBVIOUS
  <2> QED BY <1>2, <2>1, <2>3, <2>4 DEF Text
<1>3. b \in Q
  <2> HIDE DEF Q
  <2> QED BY <1>1, <1>2, Upward
<1> QED BY <1>3

\* Empty pieces come to nothing.
LEMMA GlueNothing ==
  ASSUME NEW P, NEW a \in Int, NEW b \in Int, a <= b, \A i \in a..(b - 1) : P[i] = <<>>
  PROVE  Glue(P, a, b) = <<>>
<1> DEFINE Q == {k \in Int : Glue(P, a, k) = <<>>}
<1>1. a \in Q
  BY GlueNone
<1>2. ASSUME NEW k \in a..(b - 1), k \in Q PROVE k + 1 \in Q
  <2>0. k \in Int /\ a <= k
    OBVIOUS
  <2>1. Glue(P, a, k + 1) = <<>> \o <<>>
    BY <1>2, <2>0, GlueStep
  <2>2. <<>> \o <<>> = <<>>
    BY EmptySeq, ConcatEmptySeq
  <2> QED BY <2>1, <2>2
<1>3. b \in Q
  <2> HIDE DEF Q
  <2> QED BY <1>1, <1>2, Upward
<1> QED BY <1>3

(* ----------------------- The numbers a tree is made of -------------------- *)

\* What is left of a span without the whitespace at its ends is within it.
LEMMA TrimmedWithin ==
  ASSUME NEW text, NEW a \in Nat, NEW b \in Nat, a <= b
  PROVE  \E c, d \in Nat : TrimSpan(text, <<a, b>>) = <<c, d>> /\ c <= b /\ a <= d
<1> DEFINE solid == {i \in a..(b - 1) : text[i] \notin Space}
<1>1. TrimSpan(text, <<a, b>>) = IF solid = {} THEN <<b, b>> ELSE <<Min(solid), Max(solid) + 1>>
  BY DEF TrimSpan
<1>2. solid \subseteq Nat /\ solid \subseteq 0..b /\ \A i \in solid : a <= i /\ i < b
  OBVIOUS
<1> HIDE DEF solid
<1>3. CASE solid = {}
  BY <1>1, <1>3
<1>4. CASE solid # {}
  <2>1. Min(solid) \in solid
    BY <1>2, <1>4, Smallest
  <2>2. Max(solid) \in solid
    BY <1>2, <1>4, Greatest
  <2>3. PICK lo, hi \in Nat : lo = Min(solid) /\ hi = Max(solid) /\ lo < b /\ a <= hi
    BY <1>2, <2>1, <2>2
  <2> QED BY <1>1, <1>4, <2>3
<1> QED BY <1>3, <1>4

\* Where the text of a bullet starts and ends, in a source of n - 1 lexemes.
InnerFits(b, n) == b.inner[1] \in Nat /\ b.inner[2] \in Nat /\ b.inner[1] <= n /\ 1 <= b.inner[2]

\* What is between the ends of a bullet that was found lies in the text.
LEMMA FoundFits ==
  ASSUME NEW text, NEW mask, Readable(text, mask), NEW profile, IsSeq(profile.lists), NEW scope,
         NEW lo \in Nat, NEW hi \in Nat, hi <= Len(text) + 1,
         NEW f \in BulletsFound(text, mask, profile, <<lo, hi>>, scope)
  PROVE  InnerFits(f[2], Len(text) + 1)
<1>1. CASE f \in MacroBullets(text, mask, profile, <<lo, hi>>, scope)
  <2> DEFINE Arg(i) == ReadArgument(text, mask, i + 1)
             Found1(i, r) == <<1, Bullet(text, scope, r.args[1], <<i, r.next>>)>>
             hits == {h \in FindAll(text, mask, profile.bullets, <<lo, hi>>) : Arg(h).args # <<>>}
  <2>1. MacroBullets(text, mask, profile, <<lo, hi>>, scope) = {Found1(i, Arg(i)) : i \in hits}
    BY DEF MacroBullets
  <2>2. PICK p \in hits : f = Found1(p, Arg(p))
    <3> HIDE DEF Found1, Arg, hits
    <3> QED BY <1>1, <2>1
  <2>3. Arg(p).args # <<>> /\ p \in FindAll(text, mask, profile.bullets, <<lo, hi>>)
    OBVIOUS
  <2>4. p + 1 \in 1..(Len(text) + 1)
    BY <2>3, HitsOf
  <2>5. PICK a, b \in Nat : Arg(p).args = << <<a, b>> >> /\ p + 1 < a /\ a <= b /\ b <= Len(text)
    BY <2>3, <2>4, ArgumentBehind
  <2>6. f[2].inner = <<a, b>>
    BY <2>2, <2>5 DEF Bullet
  <2>7. Len(text) \in Nat
    BY DEF Readable
  <2>8. a <= Len(text) + 1 /\ 1 <= b
    BY <2>4, <2>5, <2>7
  <2> QED BY <2>6, <2>8 DEF InnerFits
<1>2. CASE f \in ListBullets(text, mask, profile, <<lo, hi>>, scope)
  <2> DEFINE Envs(n) == FindEnvironments(text, mask, profile.lists[n], <<lo, hi>>)
             Items(n) == ItemsOf(text, mask, n, Envs(n), scope)
  <2>1. ListBullets(text, mask, profile, <<lo, hi>>, scope) = UNION {Items(n) : n \in DOMAIN profile.lists}
    BY DEF ListBullets
  <2>2. PICK n \in DOMAIN profile.lists : f \in Items(n)
    <3> HIDE DEF Items
    <3> QED BY <1>2, <2>1
  <2>3. PICK envs : envs = FindEnvironments(text, mask, profile.lists[n], <<lo, hi>>)
    OBVIOUS
  <2>4. PICK e, i : IsItem(text, mask, n, envs, scope, f, e, i)
    BY <2>2, <2>3, ItemFound
  <2>5. e \in envs
    BY <2>4 DEF IsItem
  <2>6. e.body[1] \in Nat /\ e.body[2] \in Nat /\ e.body[2] < hi
    BY <2>3, <2>5, ListPlace
  <2>7. i \in Nat /\ i < e.body[2]
    BY <2>4, <2>6, ItemBounds
  <2> DEFINE offsets == ItemsIn(text, mask, envs, e)
  <2>8. offsets \subseteq Nat
    <3>1. Len(text) \in Nat /\ mask \subseteq 1..Len(text)
      BY DEF Readable
    <3>2. mask \subseteq Nat
      BY <3>1
    <3> QED BY <3>2 DEF ItemsIn, FindAll
  <2>9. PICK q \in Nat : q = NextHit(offsets, i, e.body[2]) /\ i < q /\ q <= e.body[2]
    <3> HIDE DEF offsets
    <3>1. PICK b \in Nat : b = e.body[2]
      BY <2>6
    <3>2. i \in Nat /\ i < b
      BY <2>7, <3>1
    <3>3. NextHit(offsets, i, b) \in Nat /\ i < NextHit(offsets, i, b) /\ NextHit(offsets, i, b) <= b
      BY <2>8, <3>2, NextHitBehind
    <3> QED BY <3>1, <3>3
  <2>10. f = <<n, Bullet(text, scope, TrimSpan(text, <<i + 1, q>>), TrimSpan(text, <<i, q>>))>>
    BY <2>4, <2>9 DEF IsItem, ItemAt, ItemEnd
  <2>11. f[2].inner = TrimSpan(text, <<i + 1, q>>)
    BY <2>10 DEF Bullet
  <2>12. PICK c, d \in Nat : f[2].inner = <<c, d>> /\ c <= q /\ i + 1 <= d
    <3>1. i + 1 \in Nat /\ i + 1 <= q
      BY <2>7, <2>9
    <3> QED BY <2>9, <2>11, <3>1, TrimmedWithin
  <2>13. Len(text) \in Nat
    BY DEF Readable
  <2>14. c <= Len(text) + 1 /\ 1 <= d
    BY <2>6, <2>7, <2>9, <2>12, <2>13
  <2> QED BY <2>12, <2>14 DEF InnerFits
<1> QED BY <1>1, <1>2 DEF BulletsFound

\* Where bullets stand, and where their texts do.
BulletsFit(bullets, n) ==
  \A i \in DOMAIN bullets :
    bullets[i].outer[1] \in Nat /\ bullets[i].outer[2] \in Nat /\ InnerFits(bullets[i], n)

\* So it does for the bullets a region is parsed into.
LEMMA BulletsAreFit ==
  ASSUME NEW text, NEW mask, Readable(text, mask), NEW profile, IsSeq(profile.lists), NEW scope,
         NEW lo \in Nat, NEW hi \in Nat, hi <= Len(text) + 1
  PROVE  BulletsFit(ParseBullets(text, mask, profile, <<lo, hi>>, scope), Len(text) + 1)
<1>1. PICK found : found = BulletsFound(text, mask, profile, <<lo, hi>>, scope)
  OBVIOUS
<1>2. PICK order : order = InOrder(found, InOrderOf(found))
  OBVIOUS
<1>3. PICK bullets : bullets = ParseBullets(text, mask, profile, <<lo, hi>>, scope)
  OBVIOUS
<1>4. \A i \in DOMAIN bullets :
        /\ order[i] \in found
        /\ bullets[i].outer = order[i][2].outer /\ bullets[i].inner = order[i][2].inner
  BY <1>1, <1>2, <1>3, BulletsOf
<1>5. ASSUME NEW i \in DOMAIN bullets
      PROVE  bullets[i].outer[1] \in Nat /\ bullets[i].outer[2] \in Nat /\ InnerFits(bullets[i], Len(text) + 1)
  <2>1. PICK p, c \in Nat : Stands(order[i], lo, p, c)
    BY <1>1, <1>4, FoundStands
  <2>2. InnerFits(order[i][2], Len(text) + 1)
    BY <1>1, <1>4, FoundFits
  <2> QED BY <1>4, <2>1, <2>2 DEF Stands, InnerFits
<1> QED BY <1>3, <1>5 DEF BulletsFit

\* The numbers of an entry of a section that ends at `hi`.
EntriesFit(entries, n) ==
  \A e \in DOMAIN entries : /\ entries[e].span[1] \in Nat /\ entries[e].span[2] \in Nat
                            /\ BulletsFit(entries[e].bullets, n)

\* The entries of a section begin in the text, and their bullets lie in it.
LEMMA EntriesAreFit ==
  ASSUME NEW text, NEW mask, Readable(text, mask), NEW profile, IsSeq(profile.lists),
         profile.entryArgs \in Nat, NEW id, NEW lo \in Nat, NEW hi \in Nat, hi <= Len(text) + 1
  PROVE  LET entries == ParseEntries(text, mask, profile, id, <<lo, hi>>)
         IN  /\ EntriesFit(entries, Len(text) + 1)
             /\ \A e \in DOMAIN entries : entries[e].span[1] <= Len(text) + 1
<1> DEFINE hits    == FindAll(text, mask, profile.entries, <<lo, hi>>)
           entries == ParseEntries(text, mask, profile, id, <<lo, hi>>)
<1>1. /\ Listed(entries)
      /\ \A k \in DOMAIN entries : \E h \in hits, from \in Nat :
           /\ entries[k].span = <<h, NextHit(hits, h, hi)>> /\ h < from
           /\ ReadIn(text, mask, profile, entries[k].bullets, from, NextHit(hits, h, hi))
      /\ \A k, l \in DOMAIN entries : k < l => entries[k].span[1] < entries[l].span[1]
  BY EntriesOf
<1>2. hits \subseteq Nat /\ \A h \in hits : h \in Nat /\ h < hi
  BY HitsOf
<1>3. Len(text) \in Nat
  BY DEF Readable
<1> HIDE DEF hits, entries
<1>4. ASSUME NEW e \in DOMAIN entries
      PROVE  /\ entries[e].span[1] \in Nat /\ entries[e].span[2] \in Nat
             /\ BulletsFit(entries[e].bullets, Len(text) + 1)
             /\ entries[e].span[1] <= Len(text) + 1
  <2>1. PICK h \in hits, from \in Nat :
          /\ entries[e].span = <<h, NextHit(hits, h, hi)>>
          /\ ReadIn(text, mask, profile, entries[e].bullets, from, NextHit(hits, h, hi))
    BY <1>1
  <2>2. PICK end \in Nat : end = NextHit(hits, h, hi) /\ end <= hi
    BY <1>2, NextHitBehind
  <2>3. PICK scope : entries[e].bullets = ParseBullets(text, mask, profile, <<from, end>>, scope)
    BY <2>1, <2>2 DEF ReadIn
  <2>4. end <= Len(text) + 1
    BY <1>3, <2>2
  <2>5. BulletsFit(entries[e].bullets, Len(text) + 1)
    BY <2>3, <2>4, BulletsAreFit
  <2>6. h \in Nat /\ h <= Len(text) + 1
    BY <1>2, <1>3
  <2> QED BY <2>1, <2>2, <2>5, <2>6
<1>5. /\ EntriesFit(entries, Len(text) + 1)
      /\ \A e \in DOMAIN entries : entries[e].span[1] <= Len(text) + 1
  BY <1>4 DEF EntriesFit
<1> QED BY <1>5 DEF entries

\* The numbers of the tree of a text of n - 1 lexemes: the body of a section is its span without
\* the heading.
TreeFits(t, n) ==
  \A s \in DOMAIN t :
    /\ t[s].span[1] \in Nat /\ t[s].span[2] \in Nat /\ t[s].body[1] \in Nat
    /\ t[s].span[1] < t[s].body[1] /\ t[s].body[2] = t[s].span[2]
    /\ EntriesFit(t[s].entries, n) /\ BulletsFit(t[s].loose, n)

\* A tree is made of numbers that fit the text it was parsed from.
LEMMA TreeIsFit ==
  ASSUME NEW text, NEW mask, Readable(text, mask), NEW profile, IsSeq(profile.lists),
         profile.entryArgs \in Nat
  PROVE  TreeFits(ParseMasked(text, mask, profile), Len(text) + 1)
<1>1. PICK lo, hi \in Nat :
        /\ hi <= Len(text) + 1
        /\ ParseMasked(text, mask, profile) = ParseBody(text, mask, profile, <<lo, hi>>)
  BY TreeOfSections
<1> DEFINE hits  == FindAll(text, mask, profile.sections, <<lo, hi>>)
           found == Sections(text, mask, profile, <<lo, hi>>)
<1>2. PICK t : t = ParseBody(text, mask, profile, <<lo, hi>>)
  OBVIOUS
<1>3. /\ DOMAIN t = DOMAIN found
      /\ \A s \in DOMAIN t : t[s] =
           WithEntries(text, mask, profile, found[s],
                       ParseEntries(text, mask, profile, found[s].id, found[s].body))
  BY <1>2 DEF ParseBody, Each
<1>4. /\ Listed(found)
      /\ \A k \in DOMAIN found : \E h \in hits, from \in Nat :
           /\ found[k].span = <<h, NextHit(hits, h, hi)>> /\ h < from
           /\ found[k].body = <<from, NextHit(hits, h, hi)>>
      /\ \A k, l \in DOMAIN found : k < l => found[k].span[1] < found[l].span[1]
  BY SectionsOf
<1>5. hits \subseteq Nat /\ \A h \in hits : h \in Nat /\ h < hi
  BY HitsOf
<1>6. Len(text) \in Nat
  BY DEF Readable
<1> HIDE DEF hits, found
<1>7. ASSUME NEW s \in DOMAIN t
      PROVE  /\ t[s].span[1] \in Nat /\ t[s].span[2] \in Nat /\ t[s].body[1] \in Nat
             /\ t[s].span[1] < t[s].body[1] /\ t[s].body[2] = t[s].span[2]
             /\ EntriesFit(t[s].entries, Len(text) + 1) /\ BulletsFit(t[s].loose, Len(text) + 1)
  <2>1. PICK h \in hits, from \in Nat : /\ found[s].span = <<h, NextHit(hits, h, hi)>> /\ h < from
                                        /\ found[s].body = <<from, NextHit(hits, h, hi)>>
    BY <1>3, <1>4
  <2>2. PICK end \in Nat : end = NextHit(hits, h, hi) /\ end <= hi
    BY <1>5, NextHitBehind
  <2>3. end <= Len(text) + 1 /\ h \in Nat
    BY <1>1, <1>5, <1>6, <2>2
  <2>4. PICK entries : entries = ParseEntries(text, mask, profile, found[s].id, <<from, end>>)
    OBVIOUS
  <2>5. /\ EntriesFit(entries, Len(text) + 1)
        /\ \A e \in DOMAIN entries : entries[e].span[1] <= Len(text) + 1
    BY <2>3, <2>4, EntriesAreFit
  <2>6. found[s].body = <<from, end>> /\ found[s].span = <<h, end>>
    BY <2>1, <2>2
  <2>7. t[s] = WithEntries(text, mask, profile, found[s], entries)
    BY <1>3, <2>4, <2>6
  <2>8. t[s].span = <<h, end>> /\ t[s].body = <<from, end>> /\ t[s].entries = entries
    BY <2>6, <2>7 DEF WithEntries
  <2>9. \E x \in Nat : /\ t[s].loose = ParseBullets(text, mask, profile, <<from, x>>, found[s].id)
                       /\ x <= Len(text) + 1
    <3>1. t[s].loose = ParseBullets(text, mask, profile,
             <<from, IF entries = <<>> THEN end ELSE entries[1].span[1]>>, found[s].id)
      BY <2>6, <2>7 DEF WithEntries
    <3>2. CASE entries = <<>>
      BY <2>3, <3>1, <3>2
    <3>3. CASE entries # <<>>
      <4>1. Listed(entries)
        BY <2>4, EntriesAreListed
      <4>2. 1 \in DOMAIN entries
        BY <3>3, <4>1, SomeIn DEF Listed
      <4>3. entries[1].span[1] \in Nat /\ entries[1].span[1] <= Len(text) + 1
        BY <2>5, <4>2 DEF EntriesFit
      <4> QED BY <3>1, <3>3, <4>3
    <3> QED BY <3>2, <3>3
  <2>10. BulletsFit(t[s].loose, Len(text) + 1)
    BY <2>9, BulletsAreFit
  <2> QED BY <2>1, <2>3, <2>5, <2>8, <2>10
<1>8. TreeFits(t, Len(text) + 1)
  BY <1>7 DEF TreeFits
<1> QED BY <1>1, <1>2, <1>8
=============================================================================
