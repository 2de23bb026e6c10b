------------------------- MODULE ExplorerToolsProofs -------------------------
(***************************************************************************)
(* Theorems about ExplorerTools: rankings and listings of any document are *)
(* exact, what one tool names another finds, and URLs are filled in.       *)
(***************************************************************************)
EXTENDS ExplorerTools, FiniteSetTheorems, SequenceTheorems, TLAPS
-----------------------------------------------------------------------------
(***************************************************************************)
(* Sorting by places.                                                      *)
(***************************************************************************)
\* In a finite set with a strict total order, where below[x] is what comes before x, each
\* place is that of exactly one element.
LEMMA PlacesAreTaken ==
  ASSUME NEW S, IsFiniteSet(S), NEW below \in [S -> SUBSET S],
         \A x, y \in S : y \in below[x] => x \notin below[y],
         \A x, y \in S : x # y => x \in below[y] \/ y \in below[x],
         \A x, y, z \in S : x \in below[y] /\ y \in below[z] => x \in below[z]
  PROVE  /\ Cardinality(S) \in Nat
         /\ \A x \in S : Cardinality(below[x]) \in 0..Cardinality(S) - 1
         /\ \A x, y \in S : x \in below[y] <=> Cardinality(below[x]) < Cardinality(below[y])
         /\ \A n \in 1..Cardinality(S) : \E x \in S : Cardinality(below[x]) = n - 1
<1> DEFINE size == Cardinality(S)
           place == [x \in S |-> Cardinality(below[x]) + 1]
<1>1. size \in Nat
  BY FS_CardinalityType
<1>2. \A x \in S : IsFiniteSet(below[x]) /\ Cardinality(below[x]) \in Nat
  BY FS_Subset, FS_CardinalityType
<1>3. \A x \in S : Cardinality(below[x]) < size
  <2> SUFFICES ASSUME NEW x \in S PROVE Cardinality(below[x]) < size
    OBVIOUS
  <2>1. below[x] \in SUBSET S /\ below[x] # S
    OBVIOUS
  <2>2. Cardinality(below[x]) <= size /\ Cardinality(below[x]) # size
    BY <2>1, FS_Subset
  <2> QED  BY <1>1, <1>2, <2>2
<1>4. ASSUME NEW x \in S, NEW y \in S, x \in below[y]
      PROVE  Cardinality(below[x]) < Cardinality(below[y])
  <2>1. below[x] \in SUBSET below[y] /\ below[x] # below[y]
    BY <1>4
  <2>2. Cardinality(below[x]) <= Cardinality(below[y])
        /\ Cardinality(below[x]) # Cardinality(below[y])
    BY <1>2, <2>1, FS_Subset
  <2> QED  BY <1>2, <2>2
<1>5. ASSUME NEW x \in S, NEW y \in S
      PROVE  x \in below[y] <=> Cardinality(below[x]) < Cardinality(below[y])
  <2>1. CASE x \in below[y]
    BY <1>4, <2>1
  <2>2. CASE y \in below[x]
    <3>1. Cardinality(below[y]) < Cardinality(below[x])
      BY <1>4, <2>2
    <3> QED  BY <1>2, <2>2, <3>1
  <2>3. CASE x = y
    BY <1>2, <2>3
  <2> QED  BY <2>1, <2>2, <2>3
<1>6. place \in [S -> 1..size]
  BY <1>1, <1>2, <1>3
<1>7. \A x, y \in S : place[x] = place[y] => x = y
  BY <1>2, <1>5
<1>8. place \in Injection(S, 1..size)
  BY <1>6, <1>7 DEF Injection, IsInjective
<1>9. IsFiniteSet(1..size) /\ Cardinality(1..size) = size
  BY <1>1, FS_Interval
<1>10. place \in Surjection(S, 1..size)
  BY <1>8, <1>9, FS_Injection
<1>11. \A n \in 1..size : \E x \in S : place[x] = n
  BY <1>10 DEF Surjection
<1>12. \A n \in 1..size : \E x \in S : Cardinality(below[x]) = n - 1
  BY <1>1, <1>2, <1>11
<1> QED  BY <1>1, <1>2, <1>3, <1>5, <1>12
-----------------------------------------------------------------------------
(***************************************************************************)
(* Rankings and listings are in order.                                     *)
(***************************************************************************)
\* The methods that are listed have a place, however the document spells them.
LEMMA MethodsArePlaced ==
  ASSUME NEW k \in Spellings, Lower[k] \in ListedMethods
  PROVE  MethodPlace[Upper[k]] \in Int
<1>1. ListedMethods = DOMAIN MethodNames
  BY DEF ListedMethods, MethodNames
<1>2. Upper[Lower[k]] = Upper[k] /\ Upper[Lower[k]] = MethodNames[Lower[k]]
  BY <1>1, ToolsAssumption
<1>3. \A m \in ListedMethods : MethodPlace[MethodNames[m]] \in Int
  BY DEF ListedMethods, MethodNames, MethodPlace
<1> QED  BY <1>2, <1>3

\* Tags have a place, and so has the lack of one.
ShownTags == Tags \cup {""}

LEMMA TagsArePlaced == \A t \in ShownTags : TagPlace(t) \in Int
<1>1. DOMAIN TagOrder \subseteq Nat \ {0}
  BY ToolsAssumption
<1>2. DOMAIN TagOrder \subseteq Int /\ 0 \in Int
  BY <1>1
<1>3. TagPlace("") = 0
  BY DEF TagPlace
<1>4. ASSUME NEW t \in Tags, t # ""
      PROVE  TagPlace(t) \in DOMAIN TagOrder
  <2>1. \E i \in DOMAIN TagOrder : TagOrder[i] = t
    BY DEF Tags
  <2> QED  BY <1>4, <2>1 DEF TagPlace
<1>5. \A t \in ShownTags : t # "" => t \in Tags
  BY DEF ShownTags
<1> QED  BY <1>2, <1>3, <1>4, <1>5, Zenon

\* A ranking holds what is made of every entry, once: each before what comes after it, and
\* what no score, path or method tells apart as in the document.
LEMMA RankedInOrder ==
  ASSUME NEW D \in SUBSET Int, IsFiniteSet(D), NEW items, DOMAIN items = D,
         \A i \in D : /\ items[i].path \in Int /\ MethodPlace[items[i].method] \in Int
                      /\ items[i].score \in Int
  PROVE  /\ Cardinality(D) \in Nat
         /\ \E entry \in [1..Cardinality(D) -> D] :
              /\ Sorted(items, Better) = [n \in 1..Cardinality(D) |-> items[entry[n]]]
              /\ \A i \in D : \E n \in 1..Cardinality(D) : entry[n] = i
              /\ \A m, n \in 1..Cardinality(D) : m < n =>
                   /\ ~Better(items[entry[n]], items[entry[m]])
                   /\ Better(items[entry[m]], items[entry[n]]) \/ entry[m] < entry[n]
<1> DEFINE below == [i \in D |-> {j \in D : Precedes(items, Better, j, i)}]
           entry == [n \in 1..Cardinality(D) |->
                       CHOOSE i \in D : Cardinality({j \in D : Precedes(items, Better, j, i)}) = n - 1]
<1>1. below \in [D -> SUBSET D]
  OBVIOUS
<1>2. \A i, j \in D : j \in below[i] <=>
        Better(items[j], items[i]) \/ (~Better(items[i], items[j]) /\ j < i)
  BY DEF Precedes
<1>3. \A i \in D : below[i] = {j \in D : Precedes(items, Better, j, i)}
  OBVIOUS
<1> HIDE DEF below
<1>4. /\ \A x, y \in D : y \in below[x] => x \notin below[y]
      /\ \A x, y \in D : x # y => x \in below[y] \/ y \in below[x]
      /\ \A x, y, z \in D : x \in below[y] /\ y \in below[z] => x \in below[z]
  <2> DEFINE Placed(i) == /\ i \in Int /\ items[i].path \in Int
                          /\ MethodPlace[items[i].method] \in Int
                          /\ items[i].score \in Int
             Comes(i, j) == \/ Better(items[i], items[j])
                            \/ ~Better(items[j], items[i]) /\ i < j
  <2>0. /\ \A i \in D : Placed(i)
        /\ \A i, j \in D : i \in below[j] <=> Comes(i, j)
    BY <1>2
  <2>1. ASSUME NEW x \in D, NEW y \in D, y \in below[x]
        PROVE  x \notin below[y]
    <3>1. Placed(x) /\ Placed(y) /\ Comes(y, x)
      BY <2>0, <2>1
    <3>2. ~Comes(x, y)
      BY <3>1 DEF Better, Earlier
    <3> QED  BY <2>0, <3>2
  <2>2. ASSUME NEW x \in D, NEW y \in D, x # y
        PROVE  x \in below[y] \/ y \in below[x]
    <3>1. Placed(x) /\ Placed(y)
      BY <2>0
    <3>2. Comes(x, y) \/ Comes(y, x)
      BY <2>2, <3>1 DEF Better, Earlier
    <3> QED  BY <2>0, <3>2
  <2>3. ASSUME NEW x \in D, NEW y \in D, NEW z \in D, x \in below[y], y \in below[z]
        PROVE  x \in below[z]
    <3>1. Placed(x) /\ Placed(y) /\ Placed(z) /\ Comes(x, y) /\ Comes(y, z)
      BY <2>0, <2>3
    <3>2. Comes(x, z)
      BY <3>1 DEF Better, Earlier
    <3> QED  BY <2>0, <3>2
  <2> QED  BY <2>1, <2>2, <2>3
<1>5. /\ Cardinality(D) \in Nat
      /\ \A x \in D : Cardinality(below[x]) \in 0..Cardinality(D) - 1
      /\ \A x, y \in D : x \in below[y] <=> Cardinality(below[x]) < Cardinality(below[y])
      /\ \A n \in 1..Cardinality(D) : \E x \in D : Cardinality(below[x]) = n - 1
  BY <1>1, <1>4, PlacesAreTaken
<1>6. \A n \in 1..Cardinality(D) :
        \E i \in D : Cardinality({j \in D : Precedes(items, Better, j, i)}) = n - 1
  BY <1>3, <1>5
<1>7. entry \in [1..Cardinality(D) -> D]
  BY <1>6
<1>8. \A n \in 1..Cardinality(D) :
        Cardinality({j \in D : Precedes(items, Better, j, entry[n])}) = n - 1
  BY <1>6
<1>9. Sorted(items, Better) = [n \in 1..Cardinality(D) |-> items[entry[n]]]
  BY DEF Sorted
<1> HIDE DEF entry
<1>10. \A n \in 1..Cardinality(D) : Cardinality(below[entry[n]]) = n - 1
  BY <1>3, <1>7, <1>8
<1>11. ASSUME NEW i \in D
       PROVE  \E n \in 1..Cardinality(D) : entry[n] = i
  <2> DEFINE n == Cardinality(below[i]) + 1
  <2>1. n \in 1..Cardinality(D) /\ Cardinality(below[i]) = n - 1
    BY <1>5
  <2> HIDE DEF n
  <2>2. entry[n] \in D /\ Cardinality(below[entry[n]]) = Cardinality(below[i])
    BY <1>7, <1>10, <2>1
  <2>3. entry[n] \notin below[i] /\ i \notin below[entry[n]]
    <3>1. ~(Cardinality(below[i]) < Cardinality(below[entry[n]]))
          /\ ~(Cardinality(below[entry[n]]) < Cardinality(below[i]))
      BY <1>5, <2>2
    <3> QED  BY <1>5, <2>2, <3>1, Zenon
  <2>4. entry[n] = i
    BY <1>4, <2>2, <2>3
  <2> QED  BY <2>1, <2>4
<1>12. \A i, j \in D : Better(items[i], items[j]) => ~Better(items[j], items[i])
  BY <1>2, <1>4
<1>13. ASSUME NEW m \in 1..Cardinality(D), NEW n \in 1..Cardinality(D), m < n
       PROVE  /\ ~Better(items[entry[n]], items[entry[m]])
              /\ Better(items[entry[m]], items[entry[n]]) \/ entry[m] < entry[n]
  <2>1. entry[m] \in D /\ entry[n] \in D
    BY <1>7
  <2>2. Cardinality(below[entry[m]]) < Cardinality(below[entry[n]])
    BY <1>5, <1>10, <1>13
  <2>3. entry[m] \in below[entry[n]]
    BY <1>5, <2>1, <2>2
  <2> QED  BY <1>2, <1>12, <2>1, <2>3
<1> QED  BY <1>5, <1>7, <1>9, <1>11, <1>13

\* A listing holds what is made of every entry, once: each before what comes after it, and
\* what no tag, path or method tells apart as in the document.
LEMMA ListedInOrder ==
  ASSUME NEW D \in SUBSET Int, IsFiniteSet(D), NEW items, DOMAIN items = D,
         \A i \in D : /\ items[i].path \in Int /\ MethodPlace[items[i].method] \in Int
                      /\ TagPlace(items[i].tag) \in Int
  PROVE  /\ Cardinality(D) \in Nat
         /\ \E entry \in [1..Cardinality(D) -> D] :
              /\ Sorted(items, ByTag) = [n \in 1..Cardinality(D) |-> items[entry[n]]]
              /\ \A i \in D : \E n \in 1..Cardinality(D) : entry[n] = i
              /\ \A m, n \in 1..Cardinality(D) : m < n =>
                   /\ ~ByTag(items[entry[n]], items[entry[m]])
                   /\ ByTag(items[entry[m]], items[entry[n]]) \/ entry[m] < entry[n]
<1> DEFINE below == [i \in D |-> {j \in D : Precedes(items, ByTag, j, i)}]
           entry == [n \in 1..Cardinality(D) |->
                       CHOOSE i \in D : Cardinality({j \in D : Precedes(items, ByTag, j, i)}) = n - 1]
<1>1. below \in [D -> SUBSET D]
  OBVIOUS
<1>2. \A i, j \in D : j \in below[i] <=>
        ByTag(items[j], items[i]) \/ (~ByTag(items[i], items[j]) /\ j < i)
  BY DEF Precedes
<1>3. \A i \in D : below[i] = {j \in D : Precedes(items, ByTag, j, i)}
  OBVIOUS
<1> HIDE DEF below
<1>4. /\ \A x, y \in D : y \in below[x] => x \notin below[y]
      /\ \A x, y \in D : x # y => x \in below[y] \/ y \in below[x]
      /\ \A x, y, z \in D : x \in below[y] /\ y \in below[z] => x \in below[z]
  <2> DEFINE Placed(i) == /\ i \in Int /\ items[i].path \in Int
                          /\ MethodPlace[items[i].method] \in Int
                          /\ TagPlace(items[i].tag) \in Int
             Comes(i, j) == \/ ByTag(items[i], items[j])
                            \/ ~ByTag(items[j], items[i]) /\ i < j
  <2>0. /\ \A i \in D : Placed(i)
        /\ \A i, j \in D : i \in below[j] <=> Comes(i, j)
    BY <1>2
  <2>1. ASSUME NEW x \in D, NEW y \in D, y \in below[x]
        PROVE  x \notin below[y]
    <3>1. Placed(x) /\ Placed(y) /\ Comes(y, x)
      BY <2>0, <2>1
    <3>2. ~Comes(x, y)
      BY <3>1 DEF ByTag, Earlier
    <3> QED  BY <2>0, <3>2
  <2>2. ASSUME NEW x \in D, NEW y \in D, x # y
        PROVE  x \in below[y] \/ y \in below[x]
    <3>1. Placed(x) /\ Placed(y)
      BY <2>0
    <3>2. Comes(x, y) \/ Comes(y, x)
      BY <2>2, <3>1 DEF ByTag, Earlier
    <3> QED  BY <2>0, <3>2
  <2>3. ASSUME NEW x \in D, NEW y \in D, NEW z \in D, x \in below[y], y \in below[z]
        PROVE  x \in below[z]
    <3>1. Placed(x) /\ Placed(y) /\ Placed(z) /\ Comes(x, y) /\ Comes(y, z)
      BY <2>0, <2>3
    <3>2. Comes(x, z)
      BY <3>1 DEF ByTag, Earlier
    <3> QED  BY <2>0, <3>2
  <2> QED  BY <2>1, <2>2, <2>3
<1>5. /\ Cardinality(D) \in Nat
      /\ \A x \in D : Cardinality(below[x]) \in 0..Cardinality(D) - 1
      /\ \A x, y \in D : x \in below[y] <=> Cardinality(below[x]) < Cardinality(below[y])
      /\ \A n \in 1..Cardinality(D) : \E x \in D : Cardinality(below[x]) = n - 1
  BY <1>1, <1>4, PlacesAreTaken
<1>6. \A n \in 1..Cardinality(D) :
        \E i \in D : Cardinality({j \in D : Precedes(items, ByTag, j, i)}) = n - 1
  BY <1>3, <1>5
<1>7. entry \in [1..Cardinality(D) -> D]
  BY <1>6
<1>8. \A n \in 1..Cardinality(D) :
        Cardinality({j \in D : Precedes(items, ByTag, j, entry[n])}) = n - 1
  BY <1>6
<1>9. Sorted(items, ByTag) = [n \in 1..Cardinality(D) |-> items[entry[n]]]
  BY DEF Sorted
<1> HIDE DEF entry
<1>10. \A n \in 1..Cardinality(D) : Cardinality(below[entry[n]]) = n - 1
  BY <1>3, <1>7, <1>8
<1>11. ASSUME NEW i \in D
       PROVE  \E n \in 1..Cardinality(D) : entry[n] = i
  <2> DEFINE n == Cardinality(below[i]) + 1
  <2>1. n \in 1..Cardinality(D) /\ Cardinality(below[i]) = n - 1
    BY <1>5
  <2> HIDE DEF n
  <2>2. entry[n] \in D /\ Cardinality(below[entry[n]]) = Cardinality(below[i])
    BY <1>7, <1>10, <2>1
  <2>3. entry[n] \notin below[i] /\ i \notin below[entry[n]]
    <3>1. ~(Cardinality(below[i]) < Cardinality(below[entry[n]]))
          /\ ~(Cardinality(below[entry[n]]) < Cardinality(below[i]))
      BY <1>5, <2>2
    <3> QED  BY <1>5, <2>2, <3>1, Zenon
  <2>4. entry[n] = i
    BY <1>4, <2>2, <2>3
  <2> QED  BY <2>1, <2>4
<1>12. \A i, j \in D : ByTag(items[i], items[j]) => ~ByTag(items[j], items[i])
  BY <1>2, <1>4
<1>13. ASSUME NEW m \in 1..Cardinality(D), NEW n \in 1..Cardinality(D), m < n
       PROVE  /\ ~ByTag(items[entry[n]], items[entry[m]])
              /\ ByTag(items[entry[m]], items[entry[n]]) \/ entry[m] < entry[n]
  <2>1. entry[m] \in D /\ entry[n] \in D
    BY <1>7
  <2>2. Cardinality(below[entry[m]]) < Cardinality(below[entry[n]])
    BY <1>5, <1>10, <1>13
  <2>3. entry[m] \in below[entry[n]]
    BY <1>5, <2>1, <2>2
  <2> QED  BY <1>2, <1>12, <2>1, <2>3
<1> QED  BY <1>5, <1>7, <1>9, <1>11, <1>13

-----------------------------------------------------------------------------
(***************************************************************************)
(* What the entries of a document are.                                     *)
(***************************************************************************)
\* Operations are entries of paths, under listed methods in any spelling.
LEMMA DocumentsAreKeyed ==
  ASSUME NEW d \in Documents
  PROVE  /\ Operations(d) \subseteq DOMAIN d /\ DOMAIN d \subseteq Int
         /\ IsFiniteSet(Operations(d))
         /\ \A i \in DOMAIN d : d[i].path \in Int /\ d[i].key \in Spellings
         /\ \A i \in Operations(d) : MethodPlace[Upper[d[i].key]] \in Int
         /\ \A i \in Operations(d) : d[i].value # NoOperation /\ d[i].value.tags \in Seq(Tags)
         /\ \A i, j \in DOMAIN d : d[i].path = d[j].path /\ d[i].key = d[j].key => i = j
<1>1. /\ d \in Seq(Range(d))
      /\ \A i, j \in DOMAIN d : d[i].path = d[j].path /\ d[i].key = d[j].key => i = j
      /\ \A i \in DOMAIN d : /\ d[i].path \in DOMAIN Paths
                             /\ d[i].key \in Spellings
                             /\ d[i].value # NoOperation => d[i].value.tags \in Seq(Tags)
  BY ToolsAssumption
<1>2. DOMAIN Paths \subseteq Int
  BY ToolsAssumption
<1>3. DOMAIN d = 1..Len(d) /\ Len(d) \in Nat
  BY <1>1
<1>4. Operations(d) \subseteq DOMAIN d
  BY DEF Operations
<1>5. IsFiniteSet(Operations(d))
  <2>1. IsFiniteSet(1..Len(d))
    BY <1>3, FS_Interval
  <2> QED  BY <1>3, <1>4, <2>1, FS_Subset
<1>6. \A i \in Operations(d) : Lower[d[i].key] \in ListedMethods /\ d[i].value # NoOperation
  BY DEF Operations
<1>7. \A i \in Operations(d) : MethodPlace[Upper[d[i].key]] \in Int
  BY <1>1, <1>4, <1>6, MethodsArePlaced
<1>8. \A i \in DOMAIN d : d[i].path \in Int
  BY <1>1, <1>2
<1> QED  BY <1>1, <1>3, <1>4, <1>5, <1>6, <1>7, <1>8

\* Scores are natural numbers.
LEMMA ScoresAreNatural ==
  ASSUME NEW words \in Queries, NEW e
  PROVE  Score(Tokenize(words), e) \in Nat
<1> DEFINE query == Tokenize(words)
           shared == query \cap Tokenize(e.value.words \cup PathWords(e.path))
<1>1. IsFiniteSet(words)
  BY ToolsAssumption
<1>2. shared \in SUBSET words
  BY DEF Tokenize
<1> HIDE DEF shared
<1>3. Cardinality(shared) \in Nat
  BY <1>1, <1>2, FS_Subset, FS_CardinalityType
<1>4. Score(query, e) = IF query = {} THEN 0
        ELSE 10 * Cardinality(shared) + IF query \cap MethodAliases(Upper[e.key]) # {} THEN 5 ELSE 0
  BY DEF Score, shared
<1> QED  BY <1>3, <1>4
-----------------------------------------------------------------------------
(***************************************************************************)
(* Rankings.                                                               *)
(***************************************************************************)
\* The places that are within a limit are the first ones.
LEMMA LimitsAreClamped ==
  ASSUME NEW limit \in Int, NEW k \in Nat
  PROVE  \E m \in Nat :
           /\ {n \in 1..k : n <= Clamp(limit)} = 1..m
           /\ {n \in 1..k : n <= MaxLimit /\ (n = 1 \/ n <= limit)} = 1..m
<1> DEFINE c == Clamp(limit)
           m == IF k <= c THEN k ELSE c
<1>1. MaxLimit \in Nat \ {0}
  BY ToolsAssumption
<1>2. c \in Nat \ {0} /\ m \in Nat /\ m <= k /\ m <= c
  BY <1>1 DEF Clamp
<1>3. \A n \in 1..k : n <= c <=> n <= m
  BY <1>2
<1>4. \A n \in 1..k : n <= MaxLimit /\ (n = 1 \/ n <= limit) <=> n <= c
  BY <1>1 DEF Clamp
<1> HIDE DEF c, m
<1>5. {n \in 1..k : n <= c} = 1..m
  BY <1>2, <1>3
<1>6. {n \in 1..k : n <= MaxLimit /\ (n = 1 \/ n <= limit)} = 1..m
  BY <1>4, <1>5
<1> QED  BY <1>2, <1>5, <1>6 DEF c

\* The ranking property of a result: RankingExact without its variables.
RankingFits(d, words, limit, result) ==
  LET query == Tokenize(words)
      matching == {i \in Operations(d) : Score(query, d[i]) > 0}
  IN /\ Arranged(result, [i \in matching |-> Scored(query, d[i])], Better)
     /\ Len(result) = Cardinality({n \in 1..Cardinality(matching) :
                                     n <= MaxLimit /\ (n = 1 \/ n <= limit)})

\* Every ranking has it.
LEMMA RankingsFit ==
  ASSUME NEW d \in Documents, NEW words \in Queries, NEW limit \in Limits
  PROVE  RankingFits(d, words, limit, Ranking(d, words, limit))
<1> DEFINE query == Tokenize(words)
           matching == {i \in Operations(d) : Score(query, d[i]) > 0}
           items == [i \in matching |-> Scored(query, d[i])]
           k == Cardinality(matching)
           result == Ranking(d, words, limit)
<1>1. limit \in Int
  BY ToolsAssumption
<1>2. matching \in SUBSET Int /\ IsFiniteSet(matching) /\ DOMAIN items = matching
  BY DocumentsAreKeyed, FS_Subset
<1>3. ASSUME NEW i \in matching
      PROVE  /\ items[i].path \in Int /\ MethodPlace[items[i].method] \in Int
             /\ items[i].score \in Int
  <2>1. d[i].path \in Int /\ MethodPlace[Upper[d[i].key]] \in Int
    BY DocumentsAreKeyed
  <2>2. Score(query, d[i]) \in Int
    BY ScoresAreNatural
  <2> QED  BY <2>1, <2>2 DEF Scored
<1>4. result = First(Sorted(items, Better), limit)
  BY DEF Ranking, Matches
<1> HIDE DEF matching, items, result
<1>5. /\ k \in Nat
      /\ \E entry \in [1..k -> matching] :
           /\ Sorted(items, Better) = [n \in 1..k |-> items[entry[n]]]
           /\ \A i \in matching : \E n \in 1..k : entry[n] = i
           /\ \A m, n \in 1..k : m < n =>
                /\ ~Better(items[entry[n]], items[entry[m]])
                /\ Better(items[entry[m]], items[entry[n]]) \/ entry[m] < entry[n]
  BY <1>2, <1>3, RankedInOrder
<1> HIDE DEF k
<1>6. PICK entry \in [1..k -> matching] :
        /\ Sorted(items, Better) = [n \in 1..k |-> items[entry[n]]]
        /\ \A i \in matching : \E n \in 1..k : entry[n] = i
        /\ \A m, n \in 1..k : m < n =>
             /\ ~Better(items[entry[n]], items[entry[m]])
             /\ Better(items[entry[m]], items[entry[n]]) \/ entry[m] < entry[n]
  BY <1>5
<1>7. PICK c \in Nat :
        /\ {n \in 1..k : n <= Clamp(limit)} = 1..c
        /\ {n \in 1..k : n <= MaxLimit /\ (n = 1 \/ n <= limit)} = 1..c
  BY <1>1, <1>5, LimitsAreClamped
<1>8. 1..c \subseteq 1..k
  BY <1>7
<1>9. result = [n \in 1..c |-> items[entry[n]]]
  BY <1>4, <1>6, <1>7, <1>8 DEF First
<1>10. Arranged(result, items, Better)
  <2> DEFINE first == [n \in 1..c |-> entry[n]]
  <2>1. first \in [DOMAIN result -> DOMAIN items]
    BY <1>2, <1>8, <1>9
  <2>2. \A n \in DOMAIN result : result[n] = items[first[n]]
    BY <1>9
  <2>3. \A m, n \in DOMAIN result : m < n =>
          /\ ~Better(result[n], result[m])
          /\ Better(result[m], result[n]) \/ first[m] < first[n]
    BY <1>6, <1>8, <1>9
  <2>4. ASSUME NEW n \in DOMAIN result, NEW i \in DOMAIN items \ Range(first)
        PROVE  /\ ~Better(items[i], result[n])
               /\ Better(result[n], items[i]) \/ first[n] < i
    <3>1. PICK l \in 1..k : entry[l] = i
      BY <1>2, <1>6
    <3>2. l \notin 1..c
      BY <3>1 DEF Range
    <3>3. n \in 1..k /\ n < l /\ result[n] = items[entry[n]] /\ first[n] = entry[n]
      BY <1>8, <1>9, <3>2
    <3> QED  BY <1>6, <3>1, <3>3
  <2> HIDE DEF first
  <2> QED  BY <2>1, <2>2, <2>3, <2>4 DEF Arranged
<1>11. Len(result) = Cardinality(1..c)
  <2>1. DOMAIN result = 1..c
    BY <1>9
  <2>2. Len(result) = c
    BY <2>1, <1>9
  <2> QED  BY <2>2, FS_Interval
<1> QED  BY <1>7, <1>10, <1>11 DEF RankingFits, items, k, matching, result
-----------------------------------------------------------------------------
(***************************************************************************)
(* Listings.                                                               *)
(***************************************************************************)
\* The listing property of a result: ListingExact without its variables.
ListingFits(d, tag, method, result) ==
  LET asked == {i \in Operations(d) :
                  /\ method = "" \/ Lower[method] = Lower[d[i].key]
                  /\ tag \in {""} \cup Range(d[i].value.tags)}
  IN /\ Arranged(result, [i \in asked |-> Summary(d[i])], ByTag)
     /\ Len(result) = Cardinality(asked)

\* Methods to list by, or none.
AskedMethods == Spellings \cup {""}

\* Every listing has it.
LEMMA ListingsFit ==
  ASSUME NEW d \in Documents, NEW tag, NEW method \in AskedMethods
  PROVE  ListingFits(d, tag, method, Listing(d, tag, method))
<1> DEFINE chosen == {i \in Operations(d) :
                        (method # "" => Upper[d[i].key] = Upper[method]) /\ HasTag(d[i], tag)}
           asked == {i \in Operations(d) :
                       /\ method = "" \/ Lower[method] = Lower[d[i].key]
                       /\ tag \in {""} \cup Range(d[i].value.tags)}
           items == [i \in asked |-> Summary(d[i])]
           k == Cardinality(asked)
           result == Listing(d, tag, method)
<1>1. ASSUME NEW i \in Operations(d)
      PROVE  /\ HasTag(d[i], tag) <=> tag \in {""} \cup Range(d[i].value.tags)
             /\ (method # "" => Upper[d[i].key] = Upper[method])
                  <=> method = "" \/ Lower[method] = Lower[d[i].key]
  <2>1. d[i].key \in Spellings
    BY DocumentsAreKeyed
  <2>2. ASSUME method # ""
        PROVE  Upper[d[i].key] = Upper[method] <=> Lower[method] = Lower[d[i].key]
    <3>1. method \in Spellings
      BY <2>2 DEF AskedMethods
    <3>2. /\ Lower[Upper[method]] = Lower[method] /\ Lower[Upper[d[i].key]] = Lower[d[i].key]
          /\ Upper[Lower[method]] = Upper[method] /\ Upper[Lower[d[i].key]] = Upper[d[i].key]
      BY <2>1, <3>1, ToolsAssumption
    <3> QED  BY <3>2
  <2>3. HasTag(d[i], tag) <=> tag \in {""} \cup Range(d[i].value.tags)
    BY DEF HasTag, Range
  <2> QED  BY <2>2, <2>3
<1>2. chosen = asked
  BY <1>1
<1>3. asked \in SUBSET Int /\ IsFiniteSet(asked) /\ DOMAIN items = asked
  BY DocumentsAreKeyed, FS_Subset
<1>4. ASSUME NEW i \in asked
      PROVE  /\ items[i].path \in Int /\ MethodPlace[items[i].method] \in Int
             /\ TagPlace(items[i].tag) \in Int
  <2>1. /\ d[i].path \in Int /\ MethodPlace[Upper[d[i].key]] \in Int
        /\ d[i].value.tags \in Seq(Tags)
    BY DocumentsAreKeyed
  <2>2. d[i].value.tags # << >> => Head(d[i].value.tags) \in Tags
    BY <2>1, HeadTailProperties
  <2>3. (IF d[i].value.tags = << >> THEN "" ELSE Head(d[i].value.tags)) \in ShownTags
    BY <2>2 DEF ShownTags
  <2>4. items[i].tag = IF d[i].value.tags = << >> THEN "" ELSE Head(d[i].value.tags)
    BY DEF Summary
  <2>5. TagPlace(items[i].tag) \in Int
    BY <2>3, <2>4, TagsArePlaced
  <2> QED  BY <2>1, <2>5 DEF Summary
<1>5. result = Sorted(items, ByTag)
  BY <1>2 DEF Listing
<1> HIDE DEF chosen, asked, items, result
<1>6. /\ k \in Nat
      /\ \E entry \in [1..k -> asked] :
           /\ Sorted(items, ByTag) = [n \in 1..k |-> items[entry[n]]]
           /\ \A i \in asked : \E n \in 1..k : entry[n] = i
           /\ \A m, n \in 1..k : m < n =>
                /\ ~ByTag(items[entry[n]], items[entry[m]])
                /\ ByTag(items[entry[m]], items[entry[n]]) \/ entry[m] < entry[n]
  BY <1>3, <1>4, ListedInOrder
<1> HIDE DEF k
<1>7. PICK entry \in [1..k -> asked] :
        /\ Sorted(items, ByTag) = [n \in 1..k |-> items[entry[n]]]
        /\ \A i \in asked : \E n \in 1..k : entry[n] = i
        /\ \A m, n \in 1..k : m < n =>
             /\ ~ByTag(items[entry[n]], items[entry[m]])
             /\ ByTag(items[entry[m]], items[entry[n]]) \/ entry[m] < entry[n]
  BY <1>6
<1>8. result = [n \in 1..k |-> items[entry[n]]]
  BY <1>5, <1>7
<1>9. Arranged(result, items, ByTag)
  <2>1. entry \in [DOMAIN result -> DOMAIN items] /\ DOMAIN items \ Range(entry) = {}
    BY <1>3, <1>7, <1>8 DEF Range
  <2>2. \A n \in DOMAIN result : result[n] = items[entry[n]]
    BY <1>8
  <2>3. \A m, n \in DOMAIN result : m < n =>
          /\ ~ByTag(result[n], result[m])
          /\ ByTag(result[m], result[n]) \/ entry[m] < entry[n]
    BY <1>7, <1>8
  <2> QED  BY <2>1, <2>2, <2>3 DEF Arranged
<1>10. Len(result) = k
  <2>1. DOMAIN result = 1..k
    BY <1>8
  <2>2. k \in Nat
    BY <1>6
  <2>3. result \in Seq({items[i] : i \in asked})
    BY <1>7, <1>8, <2>2
  <2>4. DOMAIN result = 1..Len(result) /\ Len(result) \in Nat
    BY <2>3, LenProperties
  <2> QED  BY <2>1, <2>2, <2>4
<1> QED  BY <1>9, <1>10 DEF ListingFits, items, k, asked, result
-----------------------------------------------------------------------------
(***************************************************************************)
(* Details and examples.                                                   *)
(***************************************************************************)
\* find_operation finds an operation that the document writes in lower case, however its
\* method is spelled by who asks.
LEMMA OperationsAreFound ==
  ASSUME NEW d \in Documents, NEW i \in Operations(d), NEW method \in Spellings,
         d[i].key = Lower[d[i].key], Upper[method] = Upper[d[i].key]
  PROVE  FindOperation(d, d[i].path, method) = d[i].value
<1> DEFINE found == {j \in DOMAIN d : d[j].path = d[i].path /\ d[j].key = Lower[method]}
<1>1. i \in DOMAIN d /\ d[i].key \in Spellings
  BY DocumentsAreKeyed
<1>2. Lower[method] = d[i].key
  <2>1. Lower[Upper[method]] = Lower[method] /\ Lower[Upper[d[i].key]] = Lower[d[i].key]
    BY <1>1, ToolsAssumption
  <2> QED  BY <2>1
<1>3. found = {i}
  BY <1>1, <1>2, DocumentsAreKeyed
<1>4. (CHOOSE j \in found : TRUE) = i
  BY <1>3
<1>5. FindOperation(d, d[i].path, method) = d[CHOOSE j \in found : TRUE].value
  BY <1>3 DEF FindOperation
<1> QED  BY <1>4, <1>5

\* Clients spell methods of the document.
LEMMA KeysAreSpelled == doc \in Documents => Keys \subseteq Spellings
<1> SUFFICES ASSUME doc \in Documents
             PROVE  Keys \subseteq Spellings
  OBVIOUS
<1>1. \A i \in DOMAIN doc : doc[i].key \in Spellings
  BY DocumentsAreKeyed
<1>2. \A k \in Spellings : {k, Lower[k], Upper[k]} \subseteq Spellings
  BY ToolsAssumption
<1> QED  BY <1>1, <1>2 DEF Keys

\* The URL property of an example: UrlComplete without its variables.
UrlFits(path, op, result) ==
  LET declared == {p \in Range(op.parameters) : p.in = "path"} IN
    /\ \A i \in DOMAIN Paths[path] :
         LET segment == Paths[path][i] IN
           IF \E p \in declared : segment = <<"param", p.name>>
           THEN result.url[i][1] = "text"
           ELSE result.url[i] = segment
    /\ \A p \in Range(op.parameters) :
         p.in = "query" /\ p.required =>
           \E i \in DOMAIN result.query : result.query[i][1] = p.name

\* Every example has it.
LEMMA UrlsFit ==
  ASSUME NEW op, NEW path
  PROVE  UrlFits(path, op, Example(op, path))
<1> DEFINE parameters == op.parameters
           declared == {p \in Range(parameters) : p.in = "path"}
           result == Example(op, path)
<1>1. Range(parameters) = {parameters[i] : i \in DOMAIN parameters}
  BY DEF Range
<1>2. /\ result.url = [i \in DOMAIN Paths[path] |-> Fill(Paths[path][i], parameters)]
      /\ result.query = QueryPart(parameters)
  BY DEF Example
<1> HIDE DEF parameters, result
<1>3. ASSUME NEW segment
      PROVE  IF \E p \in declared : segment = <<"param", p.name>>
             THEN Fill(segment, parameters)[1] = "text"
             ELSE Fill(segment, parameters) = segment
  <2> DEFINE given == {i \in DOMAIN parameters :
                        parameters[i].in = "path" /\ segment = <<"param", parameters[i].name>>}
  <2>1. (\E p \in declared : segment = <<"param", p.name>>) <=> given # {}
    BY <1>1
  <2>2. CASE given = {}
    <3>1. Fill(segment, parameters) = segment
      BY <2>2 DEF Fill
    <3> QED  BY <2>1, <2>2, <3>1
  <2>3. CASE given # {}
    <3>1. Fill(segment, parameters) = <<"text", PathExample(parameters[Min(given)].schema)>>
      BY <2>3 DEF Fill
    <3> QED  BY <2>1, <2>3, <3>1
  <2> QED  BY <2>2, <2>3
<1>4. ASSUME NEW p \in Range(parameters), p.in = "query", p.required
      PROVE  \E i \in DOMAIN result.query : result.query[i][1] = p.name
  <2>1. PICK i \in DOMAIN parameters : p = parameters[i]
    BY <1>1
  <2>2. i \in DOMAIN QueryPart(parameters) /\ QueryPart(parameters)[i][1] = p.name
    BY <1>4, <2>1 DEF QueryPart
  <2> QED  BY <1>2, <2>2
<1> QED  BY <1>2, <1>3, <1>4 DEF UrlFits, parameters, result
-----------------------------------------------------------------------------
(***************************************************************************)
(* Every answer that is given.                                             *)
(***************************************************************************)
\* An answer that is given has been made from a document in the cache.
AnswerInv ==
  /\ doc \in Documents
  /\ RankingExact /\ ListingExact /\ UrlComplete

\* Nothing has been answered at first.
LEMMA NothingIsAnswered == Init => AnswerInv
BY DEF Init, AnswerInv, RankingExact, ListingExact, UrlComplete, ExampleShown

\* Each tool answers so.
LEMMA ToolsAnswer == AnswerInv /\ [Next]_vars => AnswerInv'
<1> SUFFICES ASSUME AnswerInv, [Next]_vars
             PROVE  AnswerInv'
  OBVIOUS
<1>1. doc \in Documents
  BY DEF AnswerInv
<1>2. ASSUME NEW tag, NEW method \in Keys \cup {""}, ListEndpoints(tag, method)
      PROVE  AnswerInv'
  <2>1. /\ doc' = doc
        /\ answer' = [tool |-> "list", tag |-> tag, method |-> method,
                      result |-> Listing(doc, tag, method)]
    BY <1>2 DEF ListEndpoints
  <2>2. ListingFits(doc', answer'.tag, answer'.method, answer'.result)
    <3>1. method \in AskedMethods
      BY <1>1, KeysAreSpelled DEF AskedMethods
    <3>2. ListingFits(doc, tag, method, Listing(doc, tag, method))
      BY <1>1, <3>1, ListingsFit
    <3> QED  BY <2>1, <3>2
  <2>3. answer'.tool = "list"
    BY <2>1
  <2>4. ListingExact'
    BY <2>2 DEF ListingExact, ListingFits
  <2> QED
    BY <1>1, <2>1, <2>3, <2>4
    DEF AnswerInv, RankingExact, UrlComplete, ExampleShown
<1>3. ASSUME NEW words \in Queries, NEW limit \in Limits, FindEndpointByIntent(words, limit)
      PROVE  AnswerInv'
  <2>1. /\ doc' = doc
        /\ answer' = [tool |-> "find", words |-> words, limit |-> limit,
                      result |-> Ranking(doc, words, limit)]
    BY <1>3 DEF FindEndpointByIntent
  <2>2. RankingFits(doc', answer'.words, answer'.limit, answer'.result)
    BY <1>1, <2>1, RankingsFit
  <2>3. answer'.tool = "find"
    BY <2>1
  <2>4. RankingExact'
    BY <2>2 DEF RankingExact, RankingFits
  <2> QED
    BY <1>1, <2>1, <2>3, <2>4
    DEF AnswerInv, ListingExact, UrlComplete, ExampleShown
<1>4. ASSUME NEW path, NEW method, GetEndpointDetails(path, method)
      PROVE  AnswerInv'
  <2>1. doc' = doc /\ answer'.tool = "details"
    BY <1>4 DEF GetEndpointDetails
  <2> QED
    BY <1>1, <2>1 DEF AnswerInv, ListingExact, RankingExact, UrlComplete, ExampleShown
<1>5. ASSUME NEW path, NEW method, ShowRequestExample(path, method)
      PROVE  AnswerInv'
  <2> DEFINE op == FindOperation(doc, path, method)
             result == IF op = NoOperation THEN NoOperation ELSE Example(op, path)
  <2>1. /\ doc' = doc
        /\ answer' = [tool |-> "example", path |-> path, method |-> method, op |-> op,
                      result |-> result]
    BY <1>5 DEF ShowRequestExample
  <2>2. /\ answer'.tool = "example" /\ answer'.path = path /\ answer'.method = method
        /\ answer'.op = op /\ answer'.result = result
    BY <2>1
  <2>4. ASSUME ExampleShown'
        PROVE  UrlFits(answer'.path, answer'.op, answer'.result)
    <3>1. result = Example(op, path)
      BY <2>2, <2>4 DEF ExampleShown
    <3>2. UrlFits(path, op, Example(op, path))
      BY UrlsFit
    <3> QED  BY <2>2, <3>1, <3>2
  <2>5. UrlComplete'
    BY <2>4 DEF UrlComplete, UrlFits
  <2> QED
    BY <1>1, <2>1, <2>2, <2>5 DEF AnswerInv, ListingExact, RankingExact
<1>6. CASE UNCHANGED vars
  BY <1>6 DEF vars, AnswerInv, RankingExact, ListingExact, UrlComplete, ExampleShown
<1> QED
  BY <1>2, <1>3, <1>4, <1>5, <1>6 DEF Next

\* In every state the answer fits the document.
LEMMA AnswersFit == Spec => []AnswerInv
BY NothingIsAnswered, ToolsAnswer, PTL DEF Spec

\* find_endpoint_by_intent (server.py, intent.py) returns, of any document for any query and
\* limit, the best endpoints in their strict order, as many as the clamped limit grants.
THEOREM RankingIsExact == Spec => []RankingExact
<1>1. AnswerInv => RankingExact
  BY DEF AnswerInv
<1> QED  BY <1>1, AnswersFit, PTL

\* list_endpoints (server.py) returns, of any document, each endpoint that has the tag and the
\* method asked for, once and in the order of tag, path and method.
THEOREM ListingIsExact == Spec => []ListingExact
<1>1. AnswerInv => ListingExact
  BY DEF AnswerInv
<1> QED  BY <1>1, AnswersFit, PTL

\* What has been listed or ranked is of operations of the document.
LEMMA ShownAreOperations ==
  ASSUME AnswerInv, answer.tool \in {"list", "find"}, NEW shown \in Range(answer.result)
  PROVE  \E i \in Operations(doc) :
           /\ shown.path = doc[i].path /\ shown.method = Upper[doc[i].key]
           /\ shown.op = doc[i].value
<1>1. CASE answer.tool = "list"
  <2> DEFINE asked == {i \in Operations(doc) :
                         /\ answer.method = "" \/ Lower[answer.method] = Lower[doc[i].key]
                         /\ answer.tag \in {""} \cup Range(doc[i].value.tags)}
             items == [i \in asked |-> Summary(doc[i])]
  <2>1. Arranged(answer.result, items, ByTag)
    BY <1>1 DEF AnswerInv, ListingExact
  <2> HIDE DEF items
  <2>2. PICK i \in DOMAIN items : shown = items[i]
    BY <2>1 DEF Arranged, Range
  <2>3. i \in Operations(doc) /\ shown = Summary(doc[i])
    BY <2>2 DEF items
  <2> QED  BY <2>3 DEF Summary
<1>2. CASE answer.tool = "find"
  <2> DEFINE query == Tokenize(answer.words)
             matching == {i \in Operations(doc) : Score(query, doc[i]) > 0}
             items == [i \in matching |-> Scored(query, doc[i])]
  <2>1. Arranged(answer.result, items, Better)
    BY <1>2 DEF AnswerInv, RankingExact
  <2> HIDE DEF items
  <2>2. PICK i \in DOMAIN items : shown = items[i]
    BY <2>1 DEF Arranged, Range
  <2>3. i \in Operations(doc) /\ shown = Scored(query, doc[i])
    BY <2>2 DEF items
  <2> QED  BY <2>3 DEF Scored
<1> QED  BY <1>1, <1>2

\* The next answer is that operation, under its name.
Shows(shown) ==
  /\ answer'.op = shown.op /\ answer'.op # NoOperation
  /\ answer'.tool = "details" =>
       answer'.result = [path |-> shown.path, method |-> shown.method, op |-> shown.op]

\* A step to details or an example looks up what the answer before it has shown.
LEMMA ShownAreLookedUp == AnswerInv /\ [Next]_vars => [LooksUpShown]_vars
<1> SUFFICES ASSUME AnswerInv, Next, answer.tool \in {"list", "find"},
                    answer'.tool \in {"details", "example"}, LowerCase(answer'.path),
                    NEW shown \in Range(answer.result),
                    shown.path = answer'.path, shown.method = Upper[answer'.method]
             PROVE  Shows(shown)
  BY DEF LooksUpShown, Shows
<1>1. PICK i \in Operations(doc) : /\ shown.path = doc[i].path
                                   /\ shown.method = Upper[doc[i].key]
                                   /\ shown.op = doc[i].value
  BY ShownAreOperations
<1>2. doc \in Documents
  BY DEF AnswerInv
<1>3. i \in DOMAIN doc /\ doc[i].key \in Spellings /\ doc[i].value # NoOperation
  BY <1>2, DocumentsAreKeyed
<1>4. doc[i].key = Lower[doc[i].key]
  BY <1>1, <1>3 DEF LowerCase, Operations
<1>5. ASSUME NEW method \in Keys, Upper[method] = Upper[doc[i].key]
      PROVE  FindOperation(doc, doc[i].path, method) = doc[i].value
  BY <1>2, <1>4, <1>5, KeysAreSpelled, OperationsAreFound
<1>6. ASSUME NEW path, NEW method \in Keys, GetEndpointDetails(path, method)
      PROVE  Shows(shown)
  <2> DEFINE op == FindOperation(doc, path, method)
             result == IF op = NoOperation THEN NoOperation
                       ELSE [path |-> path, method |-> Upper[method], op |-> op]
  <2>1. answer' = [tool |-> "details", path |-> path, method |-> method, op |-> op,
                   result |-> result]
    BY <1>6 DEF GetEndpointDetails
  <2>2. /\ answer'.path = path /\ answer'.method = method /\ answer'.op = op
        /\ answer'.result = result
    BY <2>1
  <2> HIDE DEF op, result
  <2>3. path = doc[i].path /\ Upper[method] = Upper[doc[i].key]
    BY <1>1, <2>2
  <2>4. op = doc[i].value
    BY <1>5, <2>3 DEF op
  <2>5. result = [path |-> path, method |-> Upper[method], op |-> op]
    BY <1>3, <2>4 DEF result
  <2> QED  BY <1>1, <1>3, <2>2, <2>3, <2>4, <2>5 DEF Shows
<1>7. ASSUME NEW path, NEW method \in Keys, ShowRequestExample(path, method)
      PROVE  Shows(shown)
  <2> DEFINE op == FindOperation(doc, path, method)
  <2>1. /\ answer'.tool = "example" /\ answer'.path = path /\ answer'.method = method
        /\ answer'.op = op
    BY <1>7 DEF ShowRequestExample
  <2> HIDE DEF op
  <2>2. path = doc[i].path /\ Upper[method] = Upper[doc[i].key]
    BY <1>1, <2>1
  <2>3. op = doc[i].value
    BY <1>5, <2>2 DEF op
  <2> QED  BY <1>1, <1>3, <2>1, <2>3 DEF Shows
<1>8. ASSUME NEW tag, NEW method, ListEndpoints(tag, method)
      PROVE  FALSE
  <2>1. answer'.tool = "list"
    BY <1>8 DEF ListEndpoints
  <2> QED  BY <2>1
<1>9. ASSUME NEW words, NEW limit, FindEndpointByIntent(words, limit)
      PROVE  FALSE
  <2>1. answer'.tool = "find"
    BY <1>9 DEF FindEndpointByIntent
  <2> QED  BY <2>1
<1> QED  BY <1>6, <1>7, <1>8, <1>9 DEF Next

\* get_endpoint_details and show_request_example (server.py) answer with the operation that
\* list_endpoints or find_endpoint_by_intent has just shown under that path and method, however
\* the client spells the method, in any document that writes its methods in lower case.
THEOREM WhatIsShownIsFound == Spec => ShownIsFound
<1>1. Spec => []AnswerInv /\ [][Next]_vars
  BY AnswersFit, PTL DEF Spec
<1> QED  BY <1>1, ShownAreLookedUp, PTL DEF ShownIsFound

\* build_example (examples.py) fills in every declared placeholder of any path, keeps the rest,
\* and gives every required query parameter, whatever the examples of schemas are.
THEOREM UrlIsComplete == Spec => []UrlComplete
<1>1. AnswerInv => UrlComplete
  BY DEF AnswerInv
<1> QED  BY <1>1, AnswersFit, PTL
=============================================================================
