------------------------ MODULE HandlerSelectionProofs ------------------------
(***************************************************************************)
(* Which handler gets a channel, for any clients, filters, channels and    *)
(* requests: the order of the possible handlers (MostSpecificFirst), the   *)
(* handler that is told of a request (PredictedIsPossible) and the one     *)
(* that gets a handled channel again (RedispatchToHandler).                *)
(***************************************************************************)
EXTENDS HandlerSelection, FiniteSetTheorems, FunctionTheorems, NaturalsInduction,
        WellFoundedInduction, TLAPS

-----------------------------------------------------------------------------
(* Finite sets                                                              *)

(* A nonempty set of naturals has a least element.                          *)
LEMMA LeastIs ==
  ASSUME NEW I, I \subseteq Nat, I # {}
  PROVE  Min(I) \in I /\ \A j \in I : Min(I) <= j
<1>1. PICK i \in I : \A j \in I : ~(<<j, i>> \in OpToRel(<, Nat))
  BY NatLessThanWellFounded, WFMin
<1>2. \A j \in I : ~(j < i)
  BY <1>1 DEF OpToRel
<1>3. \A j \in I : i <= j
  BY <1>2
<1> QED BY <1>3 DEF Min

(* A finite one has a greatest: that with the fewest above it.              *)
LEMMA GreatestIs ==
  ASSUME NEW I, I \subseteq Nat, I # {}, IsFiniteSet(I)
  PROVE  Max(I) \in I /\ \A j \in I : j <= Max(I)
<1> DEFINE Above(i) == {j \in I : j > i}
           sizes == {Cardinality(Above(i)) : i \in I}
<1>1. \A i : Above(i) \in SUBSET I /\ IsFiniteSet(Above(i)) /\ Cardinality(Above(i)) \in Nat
  <2> TAKE i
  <2>1. Above(i) \in SUBSET I
    OBVIOUS
  <2> QED BY <2>1, FS_Subset, FS_CardinalityType
<1>2. PICK i \in I : \A j \in I : Cardinality(Above(i)) <= Cardinality(Above(j))
  <2> HIDE DEF Above
  <2>1. sizes \subseteq Nat /\ sizes # {}
    BY <1>1
  <2>2. Min(sizes) \in sizes /\ \A n \in sizes : Min(sizes) <= n
    BY <2>1, LeastIs
  <2> QED BY <2>2
<1>3. \A j \in I : j <= i
  <2> SUFFICES ASSUME NEW j \in I, j > i
               PROVE  FALSE
    OBVIOUS
  <2>1. /\ Above(j) \in SUBSET Above(i) /\ Above(j) # Above(i)
        /\ IsFiniteSet(Above(i)) /\ Cardinality(Above(i)) \in Nat /\ Cardinality(Above(j)) \in Nat
    <3>1. i \in Nat /\ j \in Nat /\ \A m \in I : m \in Nat
      OBVIOUS
    <3>2. j \in Above(i) /\ j \notin Above(j)
      BY <3>1
    <3>3. \A m \in Above(j) : m \in Above(i)
      <4> SUFFICES ASSUME NEW m \in I, m > j
                   PROVE  m > i
        OBVIOUS
      <4> QED BY <3>1
    <3> QED BY <1>1, <3>2, <3>3
  <2> HIDE DEF Above
  <2>2. /\ Cardinality(Above(j)) <= Cardinality(Above(i))
        /\ Cardinality(Above(j)) # Cardinality(Above(i))
    BY <2>1, FS_Subset
  <2> QED BY <1>2, <2>1, <2>2
<1>4. \A j \in I : i >= j
  BY <1>3
<1>5. Max(I) \in I /\ \A j \in I : Max(I) >= j
  BY <1>4 DEF Max
<1> QED BY <1>5

-----------------------------------------------------------------------------
(* The order of the handlers                                                *)

(* What is sorted: clients, each with one quality.                          *)
Candidates(H) ==
  /\ IsFiniteSet(H)
  /\ H \subseteq [client : Client, bypass : BOOLEAN, quality : Nat]
  /\ \A a, b \in H : a.client = b.client => a = b

(* The clients have different positions in the hash table.                  *)
LEMMA PositionIs ==
  /\ IsFiniteSet(Client)
  /\ \A c \in Client : Position(c) \in Nat
  /\ \A c, d \in Client : Position(c) = Position(d) => c = d
<1>1. /\ Client = {HashOrder[i] : i \in DOMAIN HashOrder}
      /\ HashOrder \in [1..Len(HashOrder) -> Client] /\ Len(HashOrder) \in Nat
  BY SelectionAssumption DEF Client, ToSet
<1>2. \A c \in Client : Position(c) \in 1..Len(HashOrder) /\ HashOrder[Position(c)] = c
  <2> TAKE c \in Client
  <2>1. \E i \in DOMAIN HashOrder : HashOrder[i] = c
    BY <1>1
  <2> QED BY <1>1, <2>1 DEF Position
<1>3. IsFiniteSet(Client)
  <2>1. HashOrder \in Surjection(1..Len(HashOrder), Client)
    BY <1>1, <1>2, Fun_IsSurj
  <2> QED BY <1>1, <2>1, FS_Interval, FS_Surjection
<1>4. \A c \in Client : Position(c) \in Nat
  BY <1>1, <1>2
<1>5. \A c, d \in Client : Position(c) = Position(d) => c = d
  BY <1>2
<1> QED BY <1>3, <1>4, <1>5

(* possible_handler_cmp, with the order of the hash table for those that    *)
(* it takes for equal, is a strict linear order.                            *)
LEMMA PrecedesIsLinear ==
  ASSUME NEW H, Candidates(H)
  PROVE  /\ \A a \in H : ~Precedes(a, a)
         /\ \A a, b \in H : a = b \/ Precedes(a, b) \/ Precedes(b, a)
         /\ \A a, b, c \in H : Precedes(a, b) /\ Precedes(b, c) => Precedes(a, c)
<1>1. \A a \in H : /\ a.client \in Client /\ a.bypass \in BOOLEAN /\ a.quality \in Nat
                   /\ Position(a.client) \in Nat
  BY PositionIs DEF Candidates
<1>2. \A a, b \in H : Position(a.client) = Position(b.client) => a = b
  BY <1>1, PositionIs DEF Candidates
<1>3. \A a \in H : ~Precedes(a, a)
  BY <1>1 DEF Precedes
<1>4. \A a, b \in H : a = b \/ Precedes(a, b) \/ Precedes(b, a)
  BY <1>1, <1>2 DEF Precedes
<1>5. \A a, b, c \in H : Precedes(a, b) /\ Precedes(b, c) => Precedes(a, c)
  BY <1>1 DEF Precedes
<1> QED BY <1>3, <1>4, <1>5

(* There is a sorted list of the handlers, and Sorted is one: the place of  *)
(* a handler in it is the number of those that do not come after it.        *)
LEMMA SortedIs ==
  ASSUME NEW H, Candidates(H)
  PROVE  /\ Cardinality(H) \in Nat
         /\ Sorted(H) \in Bijection(1..Cardinality(H), H)
         /\ \A i, j \in 1..Cardinality(H) : i < j => Precedes(Sorted(H)[i], Sorted(H)[j])
<1> DEFINE k == Cardinality(H)
           Upto(h) == {g \in H : g = h \/ Precedes(g, h)}
           place == [h \in H |-> Cardinality(Upto(h))]
           list == [i \in 1..k |-> CHOOSE h \in H : place[h] = i]
<1>1. IsFiniteSet(H) /\ k \in Nat
  BY FS_CardinalityType DEF Candidates
<1>2. \A h : Upto(h) \in SUBSET H /\ IsFiniteSet(Upto(h)) /\ Cardinality(Upto(h)) \in Nat
  <2> TAKE h
  <2>1. Upto(h) \in SUBSET H
    OBVIOUS
  <2> QED BY <1>1, <2>1, FS_Subset, FS_CardinalityType
<1>3. \A h \in H : place[h] \in 1..k
  <2> TAKE h \in H
  <2>1. h \in Upto(h) /\ place[h] = Cardinality(Upto(h))
    OBVIOUS
  <2>2. Upto(h) \in SUBSET H /\ IsFiniteSet(Upto(h)) /\ Cardinality(Upto(h)) \in Nat
    BY <1>2
  <2> HIDE DEF Upto, place
  <2>3. Cardinality(Upto(h)) # 0
    BY <2>1, <2>2, FS_EmptySet
  <2>4. Cardinality(Upto(h)) <= k
    BY <1>1, <2>2, FS_Subset
  <2> QED BY <1>1, <2>1, <2>2, <2>3, <2>4
<1>4. \A g, h \in H : Precedes(g, h) => place[g] < place[h]
  <2> SUFFICES ASSUME NEW g \in H, NEW h \in H, Precedes(g, h)
               PROVE  place[g] < place[h]
    OBVIOUS
  <2>1. Upto(g) \subseteq Upto(h)
    <3> SUFFICES ASSUME NEW x \in H, x = g \/ Precedes(x, g)
                 PROVE  Precedes(x, h)
      OBVIOUS
    <3> QED BY PrecedesIsLinear
  <2>2. h \in Upto(h) /\ h \notin Upto(g)
    <3>1. ~Precedes(h, g) /\ g # h
      BY PrecedesIsLinear
    <3> QED BY <3>1
  <2>3. place[g] = Cardinality(Upto(g)) /\ place[h] = Cardinality(Upto(h))
    OBVIOUS
  <2>4. /\ IsFiniteSet(Upto(h)) /\ Cardinality(Upto(h)) \in Nat /\ Cardinality(Upto(g)) \in Nat
    BY <1>2
  <2> HIDE DEF Upto, place
  <2>5. Upto(g) \in SUBSET Upto(h) /\ Upto(g) # Upto(h)
    BY <2>1, <2>2
  <2>6. Cardinality(Upto(g)) <= Cardinality(Upto(h)) /\ Cardinality(Upto(g)) # Cardinality(Upto(h))
    BY <2>4, <2>5, FS_Subset
  <2> QED BY <2>3, <2>4, <2>6
<1>5. DOMAIN place = H
  OBVIOUS
<1> HIDE DEF place
<1>6. \A g, h \in H : place[g] = place[h] => g = h
  <2> SUFFICES ASSUME NEW g \in H, NEW h \in H, place[g] = place[h]
               PROVE  g = h
    OBVIOUS
  <2>1. place[g] \in Nat /\ place[h] \in Nat
    BY <1>1, <1>3
  <2>2. ~Precedes(g, h) /\ ~Precedes(h, g)
    BY <1>4, <2>1
  <2> QED BY <2>2, PrecedesIsLinear
<1>7. \A i \in 1..k : \E h \in H : place[h] = i
  <2>1. place \in [H -> 1..k]
    BY <1>3, <1>5 DEF place
  <2>2. place \in Injection(H, 1..k)
    BY <1>6, <2>1, Fun_IsInj
  <2>3. IsFiniteSet(1..k) /\ Cardinality(1..k) = k
    BY <1>1, FS_Interval
  <2> HIDE DEF k
  <2>4. place \in Surjection(H, 1..k)
    BY <2>2, <2>3, FS_Injection DEF k
  <2> QED BY <2>4, Fun_SurjectionProperties
<1>8. \A i \in 1..k : list[i] \in H /\ place[list[i]] = i
  <2> TAKE i \in 1..k
  <2>1. list[i] = CHOOSE h \in H : place[h] = i
    OBVIOUS
  <2> HIDE DEF list
  <2> QED BY <1>7, <2>1
<1>9. list \in Bijection(1..k, H)
  <2>1. list \in [1..k -> H]
    BY <1>8
  <2> HIDE DEF list
  <2>2. \A i, j \in 1..k : list[i] = list[j] => i = j
    BY <1>8
  <2>3. \A h \in H : \E i \in 1..k : list[i] = h
    BY <1>3, <1>6, <1>8
  <2> QED BY <2>1, <2>2, <2>3, Fun_IsBij
<1> HIDE DEF list
<1>10. \A i, j \in 1..k : i < j => Precedes(list[i], list[j])
  <2> SUFFICES ASSUME NEW i \in 1..k, NEW j \in 1..k, i < j
               PROVE  Precedes(list[i], list[j])
    OBVIOUS
  <2>1. list[i] \in H /\ list[j] \in H /\ place[list[i]] = i /\ place[list[j]] = j
    BY <1>8
  <2>2. ~Precedes(list[j], list[i])
    BY <1>1, <1>4, <2>1
  <2>3. list[i] # list[j]
    BY <1>1, <2>1
  <2> QED BY <2>1, <2>2, <2>3, PrecedesIsLinear
<1>11. \A l \in Bijection(1..k, H) : DOMAIN l = 1..k
  BY Fun_BijectionProperties
<1>12. \E l \in Bijection(1..k, H) : \A i, j \in DOMAIN l : i < j => Precedes(l[i], l[j])
  BY <1>9, <1>10, <1>11
<1> DEFINE s == Sorted(H)
<1>13. s \in Bijection(1..k, H) /\ \A i, j \in DOMAIN s : i < j => Precedes(s[i], s[j])
  BY <1>12 DEF Sorted
<1> HIDE DEF s
<1> QED BY <1>1, <1>11, <1>13 DEF s

-----------------------------------------------------------------------------
(* Filters                                                                  *)

(* The values that a function has on a finite set.                          *)
LEMMA ImageIsFinite ==
  ASSUME NEW S, IsFiniteSet(S), NEW g, S \subseteq DOMAIN g
  PROVE  IsFiniteSet({g[x] : x \in S})
<1> DEFINE T == {g[x] : x \in S}
           h == [x \in S |-> g[x]]
<1>1. h \in Surjection(S, T)
  <2>1. h \in [S -> T] /\ \A y \in T : \E x \in S : h[x] = y
    OBVIOUS
  <2> QED BY <2>1, Fun_IsSurj
<1> QED BY <1>1, FS_Surjection

(* _mcd_client_match_filters returns more than 0 if a filter matches, and   *)
(* then one more than the best that does has conditions.                    *)
LEMMA MatchIs ==
  ASSUME NEW F, IsFiniteSet(F), \A f \in F : IsFiniteSet(DOMAIN f), NEW props, NEW a
  PROVE  LET q == MatchFilters(props, F, a) IN
         /\ q \in Nat
         /\ \A f \in F : FilterMatched(props, f, a) => Cardinality(DOMAIN f) + 1 <= q
         /\ q > 0 => \E f \in F : FilterMatched(props, f, a) /\ q = Cardinality(DOMAIN f) + 1
<1> DEFINE M == {f \in F : FilterMatched(props, f, a)}
           size == [f \in F |-> Cardinality(DOMAIN f) + 1]
           sizes == {size[f] : f \in M}
           I == {0} \cup sizes
<1>1. \A f \in F : Cardinality(DOMAIN f) \in Nat
  BY FS_CardinalityType
<1>2. M \in SUBSET F /\ IsFiniteSet(M)
  <2>1. M \in SUBSET F
    OBVIOUS
  <2> QED BY <2>1, FS_Subset
<1>3. IsFiniteSet(sizes)
  <2>1. M \subseteq DOMAIN size
    OBVIOUS
  <2> HIDE DEF M, size
  <2> QED BY <1>2, <2>1, ImageIsFinite
<1>4. \A f \in F : size[f] = Cardinality(DOMAIN f) + 1 /\ size[f] \in Nat /\ size[f] > 0
  BY <1>1
<1>5. IsFiniteSet(I) /\ I # {} /\ I \subseteq Nat
  <2>1. sizes \subseteq Nat
    BY <1>4
  <2> HIDE DEF sizes
  <2> QED BY <1>3, <2>1, FS_AddElement
<1>6. MatchFilters(props, F, a) = Max(I)
  <2>1. sizes = {Cardinality(DOMAIN f) + 1 : f \in M}
    BY <1>4
  <2> QED BY <2>1 DEF MatchFilters
<1>7. Max(I) \in I /\ \A j \in I : j <= Max(I)
  <2> HIDE DEF I
  <2> QED BY <1>5, GreatestIs
<1>8. \A f \in F : FilterMatched(props, f, a) => size[f] \in I
  OBVIOUS
<1>9. Max(I) > 0 => \E f \in F : FilterMatched(props, f, a) /\ Max(I) = size[f]
  <2> DEFINE m == Max(I)
  <2>1. m \in I
    BY <1>7
  <2> HIDE DEF size, m
  <2>2. m > 0 => \E f \in M : m = size[f]
    BY <2>1
  <2> QED BY <2>2 DEF m
<1>10. Max(I) \in Nat
  BY <1>5, <1>7
<1> HIDE DEF size, I
<1> QED BY <1>4, <1>6, <1>7, <1>8, <1>9, <1>10

(* The filters of a client are finitely many, of finitely many conditions.  *)
LEMMA FiltersAre ==
  ASSUME NEW d \in Descriptions
  PROVE  /\ IsFiniteSet(HandlerFilters(d))
         /\ \A f \in HandlerFilters(d) : IsFiniteSet(DOMAIN f)
<1>1. IsFiniteSet(d.filters) /\ \A w \in d.filters : IsFiniteSet(DOMAIN w)
  BY SelectionAssumption
<1>2. CASE d.from = "bus"
  <2> DEFINE V == {w \in d.filters : \A k \in DOMAIN w : w[k].type # "d"}
             g == [w \in V |-> ReadFilter(w)]
  <2>1. HandlerFilters(d) = {g[w] : w \in V}
    BY <1>2 DEF HandlerFilters, SetFilters
  <2>2. V \in SUBSET d.filters
    OBVIOUS
  <2>3. IsFiniteSet(V)
    BY <1>1, <2>2, FS_Subset
  <2>4. \A w \in V : DOMAIN g[w] = DOMAIN w
    BY DEF ReadFilter
  <2> HIDE DEF V
  <2>5. V = DOMAIN g
    OBVIOUS
  <2> HIDE DEF g
  <2> QED BY <1>1, <2>1, <2>2, <2>3, <2>4, <2>5, ImageIsFinite
<1>3. CASE d.from # "bus"
  <2> DEFINE V == d.filters
             g == [w \in V |-> ParseClientFilter(w)]
  <2>1. HandlerFilters(d) = {g[w] : w \in V}
    BY <1>3 DEF HandlerFilters
  <2>2. \A w \in V : DOMAIN g[w] \in SUBSET DOMAIN w
    BY DEF ParseClientFilter
  <2>3. \A w \in V : IsFiniteSet(DOMAIN g[w])
    BY <1>1, <2>2, FS_Subset
  <2> HIDE DEF V
  <2>4. V = DOMAIN g
    OBVIOUS
  <2> HIDE DEF g
  <2>5. IsFiniteSet({g[w] : w \in V})
    BY <1>1, <2>4, ImageIsFinite DEF V
  <2> QED BY <2>1, <2>3, <2>5
<1> QED BY <1>2, <1>3

(* The filter that MC makes of a readable one matches the channels that     *)
(* have what the client wrote.                                              *)
LEMMA ReadsAsWritten ==
  ASSUME NEW d \in Descriptions, Readable(d), NEW props \in Channels, NEW w \in d.filters
  PROVE  LET f == IF d.from = "bus" THEN ReadFilter(w) ELSE ParseClientFilter(w) IN
         /\ f \in HandlerFilters(d) /\ DOMAIN f = DOMAIN w
         /\ FilterMatched(props, f, FALSE) <=> Means(props, w)
<1> DEFINE f == IF d.from = "bus" THEN ReadFilter(w) ELSE ParseClientFilter(w)
<1>1. \A k \in DOMAIN w : w[k].type \in Numbers \cup {"b", "s", "o"}
  BY SelectionAssumption DEF Readable, Typed
<1>2. DOMAIN f = DOMAIN w
  BY <1>1 DEF ReadFilter, ParseClientFilter, Numbers, Unsigned, Signed
<1>3. f \in HandlerFilters(d)
  BY <1>1 DEF HandlerFilters, SetFilters, Numbers, Unsigned, Signed
<1>4. ASSUME NEW k \in DOMAIN w
      PROVE  /\ f[k].value = w[k].value
             /\ w[k].type \in Numbers => f[k].type \in Numbers
             /\ w[k].type \notin Numbers => f[k].type = w[k].type
  <2>1. CASE d.from = "bus"
    <3>1. f[k] = CASE w[k].type \in Unsigned -> [type |-> "t", value |-> w[k].value]
                   [] w[k].type \in Signed   -> [type |-> "x", value |-> w[k].value]
                   [] OTHER                  -> w[k]
      BY <2>1 DEF ReadFilter
    <3> HIDE DEF f
    <3> QED BY <1>1, <3>1 DEF Numbers, Unsigned, Signed
  <2>2. CASE d.from # "bus"
    <3>1. f[k] = CASE w[k].type \in {"q", "u", "t"}      -> [type |-> "t", value |-> ToGuint(w[k].value)]
                   [] w[k].type \in {"y", "n", "i", "x"} -> [type |-> "x", value |-> ToGint(w[k].value)]
                   [] OTHER                              -> w[k]
      BY <1>1, <2>2 DEF ParseClientFilter, Numbers, Unsigned, Signed
    <3>2. /\ w[k].type \in {"q", "u", "t"} => ToGuint(w[k].value) = w[k].value
          /\ w[k].type \in {"y", "n", "i", "x"} => ToGint(w[k].value) = w[k].value
      <4>1. d.from = "file"
        BY <2>2, SelectionAssumption
      <4> QED BY <4>1 DEF Readable, Signed
    <3> HIDE DEF f
    <3> QED BY <1>1, <3>1, <3>2 DEF Numbers, Unsigned, Signed
  <2> QED BY <2>1, <2>2
<1> HIDE DEF f
<1>5. ASSUME NEW k \in DOMAIN w, k \in DOMAIN props
      PROVE  MatchProperty(props, k, f[k]) <=>
               /\ props[k].type = w[k].type \/ {props[k].type, w[k].type} \subseteq Numbers
               /\ props[k].value = w[k].value
  <2>1. props[k].type \in Numbers \cup {"b", "s", "o", "d"}
    BY <1>5, SelectionAssumption DEF Typed
  <2>2. Numbers \cap {"b", "s", "o"} = {}
    BY DEF Numbers, Unsigned, Signed
  <2>3. CASE w[k].type \in Numbers
    BY <1>4, <1>5, <2>1, <2>2, <2>3 DEF MatchProperty
  <2>4. CASE w[k].type \notin Numbers
    BY <1>1, <1>4, <1>5, <2>1, <2>2, <2>4 DEF MatchProperty
  <2> QED BY <2>3, <2>4
<1>6. FilterMatched(props, f, FALSE) <=> Means(props, w)
  <2>1. FilterMatched(props, f, FALSE) <=> \A k \in DOMAIN w : MatchProperty(props, k, f[k])
    BY <1>2 DEF FilterMatched
  <2>2. \A k \in DOMAIN w : MatchProperty(props, k, f[k]) => k \in DOMAIN props
    BY DEF MatchProperty
  <2> QED BY <1>5, <2>1, <2>2 DEF Means
<1> QED BY <1>2, <1>3, <1>6 DEF f

(* Each filter of a readable client stands for one that the client wrote.   *)
LEMMA FiltersWritten ==
  ASSUME NEW d \in Descriptions, NEW f \in HandlerFilters(d)
  PROVE  \E w \in d.filters : f = IF d.from = "bus" THEN ReadFilter(w) ELSE ParseClientFilter(w)
BY DEF HandlerFilters, SetFilters

-----------------------------------------------------------------------------
(* Possible handlers                                                        *)

ClientsTyped == clients \in [Client -> Descriptions \cup {None}]

(* The quality of a client is a number.                                     *)
LEMMA QualityIs ==
  ASSUME ClientsTyped, NEW c \in Registered, NEW request_props, NEW props
  PROVE  Quality(c, request_props, props) \in Nat
<1>1. clients[c] \in Descriptions
  BY DEF ClientsTyped, Registered
<1> QED BY <1>1, FiltersAre, MatchIs DEF Quality

(* PossibleHandlers has each suitable client once.                          *)
LEMMA PossibleAre ==
  ASSUME ClientsTyped, NEW request_props, NEW props, NEW u
  PROVE  LET H == PossibleHandlers(request_props, props, u) IN
         /\ Candidates(H)
         /\ \A h \in H :
              /\ h.client \in Registered /\ h.bypass = clients[h.client].bypass
              /\ clients[h.client].is_handler /\ u \in {None, clients[h.client].process}
              /\ h.quality = Quality(h.client, request_props, props) /\ h.quality > 0
         /\ \A c \in Registered :
              /\ clients[c].is_handler /\ u \in {None, clients[c].process}
              /\ Quality(c, request_props, props) > 0
              => \E h \in H : h.client = c
<1> DEFINE C == {c \in Registered : /\ u \in {None, clients[c].process}
                                    /\ clients[c].is_handler
                                    /\ Quality(c, request_props, props) > 0}
           g == [c \in C |-> [client |-> c, bypass |-> clients[c].bypass,
                              quality |-> Quality(c, request_props, props)]]
           H == PossibleHandlers(request_props, props, u)
<1>1. H = {g[c] : c \in C}
  BY DEF PossibleHandlers
<1>2. \A c \in C : /\ c \in Registered /\ u \in {None, clients[c].process}
                   /\ clients[c].is_handler /\ Quality(c, request_props, props) > 0
  OBVIOUS
<1>3. \A c \in Registered :
        /\ clients[c].is_handler /\ u \in {None, clients[c].process}
        /\ Quality(c, request_props, props) > 0
        => c \in C
  OBVIOUS
<1>4. \A c \in C : c \in Client /\ clients[c].bypass \in BOOLEAN
  BY SelectionAssumption DEF ClientsTyped, Registered
<1>5. \A c \in C : /\ g[c].client = c /\ g[c].bypass = clients[c].bypass
                   /\ g[c].quality = Quality(c, request_props, props)
                   /\ g[c] \in [client : Client, bypass : BOOLEAN, quality : Nat]
  BY <1>2, <1>4, QualityIs
<1>6. IsFiniteSet(C)
  <2>1. C \in SUBSET Client
    BY <1>4
  <2> QED BY <2>1, PositionIs, FS_Subset
<1>7. DOMAIN g = C
  OBVIOUS
<1> HIDE DEF C, g, H
<1>8. IsFiniteSet(H)
  BY <1>1, <1>6, <1>7, ImageIsFinite
<1>9. Candidates(H)
  BY <1>1, <1>5, <1>8 DEF Candidates
<1>10. \A h \in H : \E c \in C : h = g[c]
  BY <1>1
<1>11. \A h \in H :
         /\ h.client \in Registered /\ h.bypass = clients[h.client].bypass
         /\ clients[h.client].is_handler /\ u \in {None, clients[h.client].process}
         /\ h.quality = Quality(h.client, request_props, props) /\ h.quality > 0
  BY <1>2, <1>5, <1>10
<1>12. \A c \in Registered :
         /\ clients[c].is_handler /\ u \in {None, clients[c].process}
         /\ Quality(c, request_props, props) > 0
         => \E h \in H : h.client = c
  BY <1>1, <1>3, <1>5
<1> QED BY <1>9, <1>11, <1>12 DEF H

(* The list of the possible handlers has them all, in their order; if there *)
(* are none, it has the preferred handler if that is there.                 *)
LEMMA ListIs ==
  ASSUME ClientsTyped, NEW request_props, NEW props, NEW u, NEW preferred
  PROVE  LET H == PossibleHandlers(request_props, props, u)
             list == ListPossibleHandlers(preferred, request_props, props, u) IN
         /\ list \in Seq(Client)
         /\ H = {} => list = Fallback(preferred)
         /\ H # {} =>
              /\ ToSet(list) = {h.client : h \in H}
              /\ \A i, j \in DOMAIN list : i < j =>
                   \E a, b \in H : a.client = list[i] /\ b.client = list[j] /\ Precedes(a, b)
<1> DEFINE H == PossibleHandlers(request_props, props, u)
           list == ListPossibleHandlers(preferred, request_props, props, u)
           k == Cardinality(H)
           sorted == Sorted(H)
<1>1. list = IF H = {} THEN Fallback(preferred) ELSE [i \in DOMAIN sorted |-> sorted[i].client]
  BY DEF ListPossibleHandlers
<1>2. Candidates(H)
  BY PossibleAre
<1> HIDE DEF H, list
<1>3. /\ k \in Nat /\ sorted \in Bijection(1..k, H)
      /\ \A i, j \in 1..k : i < j => Precedes(sorted[i], sorted[j])
  BY <1>2, SortedIs
<1> HIDE DEF k, sorted
<1>4. /\ sorted \in [1..k -> H] /\ DOMAIN sorted = 1..k
      /\ \A h \in H : \E i \in 1..k : sorted[i] = h
  BY <1>3, Fun_BijectionProperties
<1>5. \A h \in H : h.client \in Client
  BY <1>2 DEF Candidates
<1>6. CASE H = {}
  <2>1. Fallback(preferred) \in Seq(Client)
    BY DEF Fallback, Registered
  <2> QED BY <1>1, <1>6, <2>1 DEF H, list
<1>7. CASE H # {}
  <2>1. list = [i \in 1..k |-> sorted[i].client]
    BY <1>1, <1>4, <1>7
  <2>2. list \in Seq(Client)
    <3>1. \A i \in 1..k : sorted[i].client \in Client
      BY <1>4, <1>5
    <3> QED BY <1>3, <2>1, <3>1
  <2>3. DOMAIN list = 1..k /\ \A i \in 1..k : list[i] = sorted[i].client
    BY <2>1
  <2>4. ToSet(list) = {h.client : h \in H}
    BY <1>4, <2>3 DEF ToSet
  <2>5. \A i, j \in DOMAIN list : i < j =>
          \E a, b \in H : a.client = list[i] /\ b.client = list[j] /\ Precedes(a, b)
    BY <1>3, <1>4, <2>3
  <2> QED BY <1>7, <2>2, <2>4, <2>5 DEF H, list
<1> QED BY <1>6, <1>7

(* The first of them is one of them, if there is one.                       *)
LEMMA FirstIs ==
  ASSUME NEW list \in Seq(Client)
  PROVE  /\ First(list) \in Client \cup {None}
         /\ First(list) # None => First(list) \in ToSet(list)
         /\ list # <<>> => First(list) \in ToSet(list)
<1>1. CASE list = <<>>
  BY <1>1 DEF First
<1>2. CASE list # <<>>
  <2>1. First(list) = list[1] /\ 1 \in DOMAIN list /\ list[1] \in Client
    BY <1>2 DEF First
  <2> QED BY <1>2, <2>1 DEF ToSet
<1> QED BY <1>1, <1>2

(* Whom ListPossibleHandlers names is registered; and it suits, and is in   *)
(* the process that is demanded, or it is the preferred handler.            *)
LEMMA ListedIs ==
  ASSUME ClientsTyped, NEW request_props, NEW props, NEW u, NEW preferred,
         NEW c \in ToSet(ListPossibleHandlers(preferred, request_props, props, u))
  PROVE  /\ c \in Registered
         /\ \/ c = preferred
            \/ /\ clients[c].is_handler /\ u \in {None, clients[c].process}
               /\ Quality(c, request_props, props) > 0
<1> DEFINE H == PossibleHandlers(request_props, props, u)
           list == ListPossibleHandlers(preferred, request_props, props, u)
<1>1. CASE H = {}
  <2>1. list = Fallback(preferred)
    BY <1>1, ListIs
  <2>2. c \in ToSet(Fallback(preferred))
    BY <2>1
  <2> QED BY <2>2 DEF Fallback, ToSet
<1>2. CASE H # {}
  <2>1. ToSet(list) = {h.client : h \in H}
    BY <1>2, ListIs
  <2>2. PICK h \in H : c = h.client
    BY <2>1
  <2> QED BY <2>2, PossibleAre
<1> QED BY <1>1, <1>2

(* _mcd_dispatcher_lookup_handler finds the handler that has the channel,   *)
(* another client of its process, or the one that the request prefers.      *)
LEMMA LookupIs ==
  ASSUME ClientsTyped, handled_by.client \in Client \cup {None}, handled_by.process # None, NEW r
  PROVE  LET c == LookupHandler(r) IN
         /\ c \in Client \cup {None}
         /\ c # None =>
              /\ c \in Registered
              /\ \/ clients[c].process = handled_by.process
                 \/ c \in {handled_by.client, r.preferred}
<1>1. CASE handled_by.client \in Registered
  BY <1>1 DEF LookupHandler
<1>2. CASE handled_by.client \notin Registered
  <2> DEFINE list == ListPossibleHandlers(r.preferred, r.props, channel, handled_by.process)
  <2>1. LookupHandler(r) = First(list)
    BY <1>2 DEF LookupHandler
  <2>2. list \in Seq(Client)
    BY ListIs
  <2>3. \A c \in ToSet(list) :
          /\ c \in Registered
          /\ c = r.preferred \/ clients[c].process = handled_by.process
    BY ListedIs
  <2> HIDE DEF list
  <2> QED BY <2>1, <2>2, <2>3, FirstIs
<1> QED BY <1>1, <1>2

(* A condition of the type "b" has a truth value, also as MC keeps it.      *)
LEMMA RequestedIsBoolean ==
  ASSUME NEW d \in Descriptions, NEW f \in HandlerFilters(d), NEW k \in DOMAIN f, f[k].type = "b"
  PROVE  f[k].value \in BOOLEAN
<1>1. PICK w \in d.filters : f = IF d.from = "bus" THEN ReadFilter(w) ELSE ParseClientFilter(w)
  BY FiltersWritten
<1>2. k \in DOMAIN w /\ f[k] = w[k]
  <2>1. CASE d.from = "bus"
    <3>1. k \in DOMAIN w
      BY <1>1, <2>1 DEF ReadFilter
    <3>2. f[k] = CASE w[k].type \in Unsigned -> [type |-> "t", value |-> w[k].value]
                   [] w[k].type \in Signed   -> [type |-> "x", value |-> w[k].value]
                   [] OTHER                  -> w[k]
      BY <1>1, <2>1, <3>1 DEF ReadFilter
    <3> QED BY <3>1, <3>2
  <2>2. CASE d.from # "bus"
    <3>1. k \in DOMAIN w
      BY <1>1, <2>2 DEF ParseClientFilter
    <3>2. f[k] = CASE w[k].type \in {"q", "u", "t"}      -> [type |-> "t", value |-> ToGuint(w[k].value)]
                   [] w[k].type \in {"y", "n", "i", "x"} -> [type |-> "x", value |-> ToGint(w[k].value)]
                   [] OTHER                              -> w[k]
      BY <1>1, <2>2 DEF ParseClientFilter
    <3> QED BY <3>1, <3>2
  <2> QED BY <2>1, <2>2
<1> QED BY <1>2, SelectionAssumption DEF Typed

(* What suits a request suits each channel that satisfies it.               *)
LEMMA StillSuits ==
  ASSUME ClientsTyped, NEW c \in Registered, NEW r, NEW props \in Channels,
         Satisfies(props, r), Quality(c, r.props, None) > 0
  PROVE  Quality(c, r.props, props) > 0
<1> DEFINE F == HandlerFilters(clients[c])
<1>1. clients[c] \in Descriptions
  BY DEF ClientsTyped, Registered
<1>2. IsFiniteSet(F) /\ \A f \in F : IsFiniteSet(DOMAIN f)
  BY <1>1, FiltersAre
<1>3. Quality(c, r.props, None) = MatchFilters(r.props, F, TRUE)
  BY DEF Quality
<1>4. Quality(c, r.props, props) = MatchFilters(props, F, FALSE)
  <2>1. props # None
    BY SelectionAssumption
  <2> QED BY <2>1 DEF Quality
<1> HIDE DEF F
<1>5. PICK f \in F : FilterMatched(r.props, f, TRUE)
  BY <1>2, <1>3, MatchIs
<1>6. /\ "Requested" \in DOMAIN props /\ props["Requested"].type = "b"
      /\ props["Requested"].value = TRUE
  BY SelectionAssumption DEF Satisfies, Typed
<1>7. ASSUME NEW k \in DOMAIN f
      PROVE  MatchProperty(props, k, f[k])
  <2>1. CASE k = "Requested"
    <3>1. f[k].type = "b" /\ f[k].value
      BY <1>5, <2>1 DEF FilterMatched
    <3>2. f[k].value = TRUE
      BY <1>1, <3>1, RequestedIsBoolean DEF F
    <3> QED BY <1>6, <2>1, <3>1, <3>2 DEF MatchProperty
  <2>2. CASE k # "Requested"
    <3>1. MatchProperty(r.props, k, f[k])
      BY <1>5, <2>2 DEF FilterMatched
    <3> QED BY <3>1 DEF MatchProperty, Satisfies
  <2> QED BY <2>1, <2>2
<1>8. FilterMatched(props, f, FALSE)
  BY <1>7 DEF FilterMatched
<1>9. Cardinality(DOMAIN f) \in Nat
  BY <1>2, FS_CardinalityType
<1> DEFINE q == MatchFilters(props, F, FALSE)
<1>10. q \in Nat /\ \A g \in F : FilterMatched(props, g, FALSE) => Cardinality(DOMAIN g) + 1 <= q
  BY <1>2, MatchIs
<1> HIDE DEF q
<1>11. Cardinality(DOMAIN f) + 1 <= q
  BY <1>8, <1>10
<1>12. q > 0
  BY <1>9, <1>10, <1>11
<1> QED BY <1>4, <1>12 DEF q

(* The quality of a readable client comes from what it wrote.               *)
LEMMA QualityIsSize ==
  ASSUME ClientsTyped, NEW c \in Registered, Readable(clients[c]),
         NEW props \in Channels, NEW request_props
  PROVE  LET q == Quality(c, request_props, props)
             S == FilterSizes(props, clients[c]) IN
         /\ q \in Nat
         /\ q > 0 <=> S # {}
         /\ S # {} => Max(S) \in Nat /\ q = Max(S) + 1
<1> DEFINE d == clients[c]
           F == HandlerFilters(d)
           q == Quality(c, request_props, props)
           M == {w \in d.filters : Means(props, w)}
           size == [w \in d.filters |-> Cardinality(DOMAIN w)]
           S == FilterSizes(props, d)
<1>1. d \in Descriptions /\ Readable(d)
  BY DEF ClientsTyped, Registered
<1>2. q = MatchFilters(props, F, FALSE)
  <2>1. props # None
    BY SelectionAssumption
  <2> QED BY <2>1 DEF Quality
<1>3. IsFiniteSet(d.filters) /\ \A w \in d.filters : IsFiniteSet(DOMAIN w)
  BY <1>1, SelectionAssumption
<1> HIDE DEF d, q
<1>4. \A w \in d.filters : size[w] = Cardinality(DOMAIN w) /\ size[w] \in Nat
  BY <1>3, FS_CardinalityType
<1>5. S = {size[w] : w \in M}
  BY <1>4 DEF FilterSizes
<1>6. IsFiniteSet(S) /\ S \subseteq Nat
  <2>1. M \in SUBSET d.filters /\ DOMAIN size = d.filters
    OBVIOUS
  <2>2. IsFiniteSet(M)
    BY <1>3, <2>1, FS_Subset
  <2>3. \A w \in M : size[w] \in Nat
    BY <1>4
  <2> HIDE DEF M, size, S
  <2>4. IsFiniteSet({size[w] : w \in M})
    BY <2>1, <2>2, ImageIsFinite
  <2> QED BY <1>5, <2>3, <2>4
<1>7. /\ IsFiniteSet(F) /\ \A f \in F : IsFiniteSet(DOMAIN f)
  BY <1>1, FiltersAre
<1> HIDE DEF F
<1>8. /\ q \in Nat
      /\ \A f \in F : FilterMatched(props, f, FALSE) => Cardinality(DOMAIN f) + 1 <= q
      /\ q > 0 => \E f \in F : FilterMatched(props, f, FALSE) /\ q = Cardinality(DOMAIN f) + 1
  <2> DEFINE m == MatchFilters(props, F, FALSE)
  <2>1. m \in Nat /\ \A f \in F : FilterMatched(props, f, FALSE) => Cardinality(DOMAIN f) + 1 <= m
    BY <1>7, MatchIs
  <2>2. m > 0 => \E f \in F : FilterMatched(props, f, FALSE) /\ m = Cardinality(DOMAIN f) + 1
    <3>1. \A a : MatchFilters(props, F, a) > 0 =>
            \E f \in F : /\ FilterMatched(props, f, a)
                        /\ MatchFilters(props, F, a) = Cardinality(DOMAIN f) + 1
      BY <1>7, MatchIs
    <3> QED BY <3>1
  <2> QED BY <1>2, <2>1, <2>2
<1>9. \A n \in S : n + 1 <= q
  <2> SUFFICES ASSUME NEW w \in M
               PROVE  size[w] + 1 <= q
    BY <1>5
  <2>1. w \in d.filters /\ Means(props, w)
    OBVIOUS
  <2>2. \E f \in F : DOMAIN f = DOMAIN w /\ FilterMatched(props, f, FALSE)
    BY <1>1, <2>1, ReadsAsWritten DEF F
  <2> HIDE DEF size
  <2> QED BY <1>4, <1>8, <2>1, <2>2
<1>10. q > 0 => \E n \in S : q = n + 1
  <2> SUFFICES ASSUME q > 0
               PROVE  \E n \in S : q = n + 1
    OBVIOUS
  <2>1. PICK f \in F : FilterMatched(props, f, FALSE) /\ q = Cardinality(DOMAIN f) + 1
    BY <1>8
  <2>2. PICK w \in d.filters : f = IF d.from = "bus" THEN ReadFilter(w) ELSE ParseClientFilter(w)
    BY <1>1, FiltersWritten DEF F
  <2>3. DOMAIN f = DOMAIN w /\ Means(props, w)
    BY <1>1, <2>1, <2>2, ReadsAsWritten
  <2>4. size[w] \in S
    BY <1>5, <2>3
  <2> HIDE DEF size, S
  <2> QED BY <1>4, <2>1, <2>3, <2>4
<1> HIDE DEF S
<1>11. S # {} => Max(S) \in S /\ \A n \in S : n <= Max(S)
  BY <1>6, GreatestIs
<1>12. q > 0 <=> S # {}
  <2>1. q > 0 => S # {}
    BY <1>10
  <2>2. ASSUME S # {}
        PROVE  q > 0
    <3>1. PICK n \in S : n + 1 <= q
      BY <1>9, <2>2
    <3>2. n \in Nat
      BY <1>6
    <3> QED BY <1>8, <3>1, <3>2
  <2> QED BY <2>1, <2>2
<1>13. S # {} => Max(S) \in Nat /\ q = Max(S) + 1
  <2> DEFINE m == Max(S)
  <2> SUFFICES ASSUME S # {}
               PROVE  m \in Nat /\ q = m + 1
    OBVIOUS
  <2>1. m \in S /\ m \in Nat /\ \A n \in S : n <= m
    BY <1>6, <1>11
  <2> HIDE DEF m
  <2>2. PICK n \in S : q = n + 1
    BY <1>10, <1>12
  <2>3. n \in Nat
    BY <1>6
  <2> QED BY <1>8, <1>9, <2>1, <2>2, <2>3
<1> QED BY <1>8, <1>12, <1>13 DEF d, q, S

-----------------------------------------------------------------------------
(* The invariant                                                            *)

Types ==
  /\ ClientsTyped
  /\ request \in [props : Requests \cup {None}, preferred : Client \cup {None},
                  predicted : Client \cup {None}]
  /\ channel \in Channels \cup {None}
  /\ operation \in [possible : Seq(Client), failed : SUBSET Client]
  /\ handled_by \in [process : Process \cup {None}, client : Client \cup {None}]
  /\ invoked \in [client : Client \cup {None}, why : Client \cup {None, "none", "dispatch"}]

(* Who handles the channel has a process.                                   *)
HandledByProcess == handled_by.process = None => handled_by = Nobody

(* The handler that was told of the request is still there, and suits the   *)
(* request as it did when it was told, unless it was the preferred one.     *)
PredictedSuits ==
  LET p == request.predicted IN
  p \notin {None, request.preferred} =>
    /\ p \in Registered /\ clients[p].is_handler
    /\ Quality(p, request.props, None) > 0

(* What RedispatchToHandler says besides the types.                         *)
Redispatched ==
  invoked.client # None /\ invoked.why # "dispatch" =>
    /\ invoked.client \in Registered
    /\ \/ clients[invoked.client].process = handled_by.process
       \/ invoked.client \in {handled_by.client, invoked.why}

IInv == Types /\ HandledByProcess /\ PredictedSuits /\ Redispatched

LEMMA TypesAre == Types => TypeOK
<1> SUFFICES ASSUME Types
             PROVE  TypeOK
  OBVIOUS
<1>1. operation.possible \in Seq(Client) /\ operation.failed \subseteq Client
  BY DEF Types
<1>2. ToSet(operation.possible) \subseteq Client
  BY <1>1 DEF ToSet
<1> QED BY <1>1, <1>2 DEF Types, ClientsTyped, TypeOK

LEMMA InitHolds == Init => IInv
<1> SUFFICES ASSUME Init
             PROVE  IInv
  OBVIOUS
<1>1. Types
  BY DEF Init, Types, ClientsTyped, NoRequest, NoOperation, Nobody, Nothing
<1>2. HandledByProcess /\ PredictedSuits /\ Redispatched
  BY DEF Init, HandledByProcess, PredictedSuits, Redispatched, NoRequest, Nobody, Nothing
<1> QED BY <1>1, <1>2 DEF IInv

(* The client that was told suits the request as long as it is there.       *)
LEMMA SuitsStill ==
  ASSUME PredictedSuits, UNCHANGED request, request.predicted \in Client \cup {None},
         request.predicted \in Registered => clients'[request.predicted] = clients[request.predicted]
  PROVE  PredictedSuits'
<1> DEFINE p == request.predicted
<1> SUFFICES ASSUME p \notin {None, request.preferred}
             PROVE  /\ p \in Registered' /\ clients'[p].is_handler
                    /\ Quality(p, request.props, None)' > 0
  BY DEF PredictedSuits
<1>1. /\ p \in Registered /\ clients[p].is_handler
      /\ Quality(p, request.props, None) > 0
  BY DEF PredictedSuits
<1>2. Quality(p, request.props, None)' = Quality(p, request.props, None)
  BY <1>1 DEF Quality
<1> QED BY <1>1, <1>2 DEF Registered

(* A name is taken: not that of the client that was told.                   *)
LEMMA RegistersKeeps ==
  ASSUME IInv, NEW c \in Client, Registers(c)
  PROVE  IInv'
<1>1. PICK d \in Descriptions : clients' = [clients EXCEPT ![c] = d]
  BY DEF Registers
<1>2. /\ c \notin Registered /\ invoked' = Nothing
      /\ UNCHANGED <<request, channel, operation, handled_by>>
  BY DEF Registers
<1>3. Types'
  BY <1>1, <1>2 DEF IInv, Types, ClientsTyped, Nothing
<1>4. HandledByProcess'
  BY <1>2 DEF IInv, HandledByProcess
<1>5. PredictedSuits'
  <2>1. \A p \in Registered : clients'[p] = clients[p]
    BY <1>1, <1>2 DEF IInv, Types, ClientsTyped, Registered
  <2> QED BY <1>2, <2>1, SuitsStill DEF IInv, Types
<1>6. Redispatched'
  BY <1>2 DEF Redispatched, Nothing
<1> QED BY <1>3, <1>4, <1>5, <1>6 DEF IInv

(* A name is released; if it is that of the client that was told, another   *)
(* client may be.                                                           *)
LEMMA LeavesKeeps ==
  ASSUME IInv, NEW c \in Client, Leaves(c)
  PROVE  IInv'
<1>1. /\ clients' = [clients EXCEPT ![c] = None]
      /\ request' = [request EXCEPT !.predicted = IF request.predicted = c THEN None
                                                  ELSE request.predicted]
      /\ invoked' = Nothing /\ UNCHANGED <<channel, operation, handled_by>>
  BY DEF Leaves
<1>2. Types'
  BY <1>1 DEF IInv, Types, ClientsTyped, Nothing
<1>3. HandledByProcess'
  BY <1>1 DEF IInv, HandledByProcess
<1>4. PredictedSuits'
  <2>1. CASE request.predicted = c
    <3>1. request'.predicted = None
      BY <1>1, <2>1 DEF IInv, Types
    <3> QED BY <3>1 DEF PredictedSuits
  <2>2. CASE request.predicted # c
    <3>1. UNCHANGED request
      BY <1>1, <2>2 DEF IInv, Types
    <3>2. request.predicted \in Client => clients'[request.predicted] = clients[request.predicted]
      BY <1>1, <2>2 DEF IInv, Types, ClientsTyped
    <3> QED BY <3>1, <3>2, SuitsStill DEF IInv, Types, Registered
  <2> QED BY <2>1, <2>2
<1>5. Redispatched'
  BY <1>1 DEF Redispatched, Nothing
<1> QED BY <1>2, <1>3, <1>4, <1>5 DEF IInv

(* _mcd_request_predict_handler tells the preferred handler, or one that    *)
(* suits the request.                                                       *)
LEMMA MakeRequestKeeps ==
  ASSUME IInv, MakeRequest
  PROVE  IInv'
<1>1. PICK props \in Requests, preferred \in Client \cup {None} :
        LET r == [NoRequest EXCEPT !.props = props, !.preferred = preferred]
        IN  request' = [r EXCEPT !.predicted = GuessRequestHandler(r)]
  BY DEF MakeRequest
<1>2. invoked' = Nothing /\ UNCHANGED <<clients, channel, operation, handled_by>>
  BY DEF MakeRequest
<1> DEFINE r == [NoRequest EXCEPT !.props = props, !.preferred = preferred]
           g == GuessRequestHandler(r)
           list == ListPossibleHandlers(preferred, props, None, None)
<1>3. /\ r.props = props /\ r.preferred = preferred
      /\ r \in [props : Requests \cup {None}, preferred : Client \cup {None},
               predicted : Client \cup {None}]
      /\ request' = [r EXCEPT !.predicted = g]
  BY <1>1 DEF NoRequest
<1> HIDE DEF r
<1>4. g = IF preferred \in Registered THEN preferred ELSE First(list)
  BY <1>3 DEF GuessRequestHandler
<1> HIDE DEF g, list
<1>5. ClientsTyped
  BY DEF IInv, Types
<1>6. list \in Seq(Client)
  BY <1>5, ListIs DEF list
<1>7. \A c \in ToSet(list) : /\ c \in Registered
                            /\ \/ c = preferred
                               \/ clients[c].is_handler /\ Quality(c, props, None) > 0
  BY <1>5, ListedIs DEF list
<1>8. g \in Client \cup {None}
  BY <1>4, <1>6, FirstIs
<1>9. g \notin {None, preferred} =>
        g \in Registered /\ clients[g].is_handler /\ Quality(g, props, None) > 0
  BY <1>4, <1>6, <1>7, FirstIs
<1>10. Types'
  BY <1>2, <1>3, <1>8 DEF IInv, Types, ClientsTyped, Nothing
<1>11. HandledByProcess'
  BY <1>2 DEF IInv, HandledByProcess
<1>12. PredictedSuits'
  <2>1. request'.predicted = g /\ request'.preferred = preferred /\ request'.props = props
    BY <1>3, <1>8
  <2>2. Quality(request.predicted, request.props, None)' = Quality(g, props, None)
    BY <1>2, <2>1 DEF Quality
  <2> QED BY <1>2, <1>9, <2>1, <2>2 DEF PredictedSuits, Registered
<1>13. Redispatched'
  BY <1>2 DEF Redispatched, Nothing
<1> QED BY <1>10, <1>11, <1>12, <1>13 DEF IInv

(* A dispatch operation starts, or the channel is undispatchable.           *)
LEMMA ChannelAppearsKeeps ==
  ASSUME IInv, ChannelAppears
  PROVE  IInv'
<1>1. PICK props \in Channels :
        LET possible == ListPossibleHandlers(request.preferred, request.props, props, None)
        IN  /\ channel' = IF possible = <<>> THEN None ELSE props
            /\ request' = IF possible = <<>> THEN NoRequest ELSE request
            /\ operation' = [NoOperation EXCEPT !.possible = possible]
  BY DEF ChannelAppears
<1>2. invoked' = Nothing /\ UNCHANGED <<clients, handled_by>>
  BY DEF ChannelAppears
<1>3. ListPossibleHandlers(request.preferred, request.props, props, None) \in Seq(Client)
  BY ListIs DEF IInv, Types
<1>4. request' \in {NoRequest, request} /\ channel' \in Channels \cup {None}
  BY <1>1
<1>5. operation' \in [possible : Seq(Client), failed : SUBSET Client]
  BY <1>1, <1>3 DEF NoOperation
<1>6. Types'
  BY <1>2, <1>4, <1>5 DEF IInv, Types, ClientsTyped, NoRequest, Nothing
<1>7. HandledByProcess'
  BY <1>2 DEF IInv, HandledByProcess
<1>8. PredictedSuits'
  <2>1. CASE request' = NoRequest
    BY <2>1 DEF PredictedSuits, NoRequest
  <2>2. CASE UNCHANGED request
    BY <1>2, <2>2, SuitsStill DEF IInv, Types
  <2> QED BY <1>4, <2>1, <2>2
<1>9. Redispatched'
  BY <1>2 DEF Redispatched, Nothing
<1> QED BY <1>6, <1>7, <1>8, <1>9 DEF IInv

(* The handler that is tried is registered.                                 *)
LEMMA NextHandlerIs ==
  ASSUME Types
  PROVE  NextHandler = None \/ NextHandler \in Registered
<1> DEFINE left == {i \in DOMAIN operation.possible :
                      operation.possible[i] \in Registered \ operation.failed}
<1>1. CASE request.preferred \in Registered \ operation.failed
  BY <1>1 DEF NextHandler
<1>2. CASE request.preferred \notin Registered \ operation.failed /\ left # {}
  <2>1. NextHandler = operation.possible[Min(left)]
    BY <1>2 DEF NextHandler
  <2>2. left \subseteq Nat
    BY DEF Types
  <2>3. Min(left) \in left
    BY <1>2, <2>2, LeastIs
  <2> QED BY <2>1, <2>3
<1>3. CASE request.preferred \notin Registered \ operation.failed /\ left = {}
  BY <1>3 DEF NextHandler
<1> QED BY <1>1, <1>2, <1>3

(* It handles the channel, or has failed, or there is none.                 *)
LEMMA TryNextHandlerKeeps ==
  ASSUME IInv, TryNextHandler
  PROVE  IInv'
<1> DEFINE c == NextHandler
<1>1. UNCHANGED clients
  BY DEF TryNextHandler
<1>2. NoOperation \in [possible : Seq(Client), failed : SUBSET Client]
  BY DEF NoOperation
<1>3. ClientsTyped'
  BY <1>1 DEF IInv, Types, ClientsTyped
<1>4. CASE c # None
  <2>1. /\ invoked' = [client |-> c, why |-> "dispatch"]
        /\ \/ /\ handled_by' = [process |-> clients[c].process, client |-> c]
              /\ operation' = NoOperation
              /\ UNCHANGED <<request, channel>>
           \/ /\ operation' = [operation EXCEPT !.failed = @ \cup {c}]
              /\ UNCHANGED <<request, channel, handled_by>>
    BY <1>4 DEF TryNextHandler
  <2>2. c \in Client /\ clients[c] \in Descriptions
    <3>1. c \in Registered
      BY <1>4, NextHandlerIs DEF IInv
    <3> QED BY <3>1 DEF IInv, Types, ClientsTyped, Registered
  <2>3. clients[c].process \in Process /\ clients[c].process # None
    BY <2>2, SelectionAssumption
  <2> HIDE DEF c
  <2>4. operation' \in [possible : Seq(Client), failed : SUBSET Client]
    BY <1>2, <2>1, <2>2 DEF IInv, Types
  <2>5. /\ handled_by' \in [process : Process \cup {None}, client : Client \cup {None}]
        /\ handled_by'.process = None => handled_by' = Nobody
    BY <2>1, <2>2, <2>3 DEF IInv, Types, HandledByProcess
  <2>6. Types'
    BY <1>3, <2>1, <2>2, <2>4, <2>5 DEF IInv, Types
  <2>7. HandledByProcess'
    BY <2>5 DEF HandledByProcess
  <2>8. PredictedSuits'
    BY <1>1, <2>1, SuitsStill DEF IInv, Types
  <2>9. Redispatched'
    BY <2>1 DEF Redispatched
  <2> QED BY <2>6, <2>7, <2>8, <2>9 DEF IInv
<1>5. CASE c = None
  <2>1. Undispatchable /\ invoked' = Nothing /\ UNCHANGED handled_by
    BY <1>5 DEF TryNextHandler
  <2>2. Types'
    BY <1>2, <1>3, <2>1 DEF IInv, Types, Undispatchable, NoRequest, Nothing
  <2>3. HandledByProcess'
    BY <2>1 DEF IInv, HandledByProcess
  <2>4. PredictedSuits'
    BY <2>1 DEF PredictedSuits, Undispatchable, NoRequest
  <2>5. Redispatched'
    BY <2>1 DEF Redispatched, Nothing
  <2> QED BY <2>2, <2>3, <2>4, <2>5 DEF IInv
<1> QED BY <1>4, <1>5

(* A process that claims the channel handles it.                            *)
LEMMA ClaimKeeps ==
  ASSUME IInv, NEW u \in Process, Claim(u)
  PROVE  IInv'
<1>1. /\ handled_by' = [process |-> u, client |-> None]
      /\ operation' = NoOperation /\ invoked' = Nothing
      /\ UNCHANGED <<clients, request, channel>>
  BY DEF Claim
<1>2. u # None
  BY SelectionAssumption
<1>3. Types'
  BY <1>1 DEF IInv, Types, ClientsTyped, NoOperation, Nothing
<1>4. HandledByProcess'
  BY <1>1, <1>2 DEF HandledByProcess
<1>5. PredictedSuits'
  BY <1>1, SuitsStill DEF IInv, Types
<1>6. Redispatched'
  BY <1>1 DEF Redispatched, Nothing
<1> QED BY <1>3, <1>4, <1>5, <1>6 DEF IInv

(* The clients of the process go with it, and so does the request.          *)
LEMMA HandlerExitsKeeps ==
  ASSUME IInv, HandlerExits
  PROVE  IInv'
<1>1. /\ clients' = [c \in Client |->
           IF c \in Registered /\ clients[c].process = handled_by.process THEN None
           ELSE clients[c]]
      /\ handled_by' = Nobody /\ Undispatchable /\ invoked' = Nothing
  BY DEF HandlerExits
<1>2. ClientsTyped'
  BY <1>1 DEF IInv, Types, ClientsTyped
<1>3. Types'
  BY <1>1, <1>2 DEF IInv, Types, Undispatchable, NoRequest, NoOperation, Nobody, Nothing
<1>4. HandledByProcess'
  BY <1>1 DEF HandledByProcess
<1>5. PredictedSuits'
  BY <1>1 DEF PredictedSuits, Undispatchable, NoRequest
<1>6. Redispatched'
  BY <1>1 DEF Redispatched, Nothing
<1> QED BY <1>3, <1>4, <1>5, <1>6 DEF IInv

(* The handler that is looked up is told of the channel once more.          *)
LEMMA InvokesKeeps ==
  ASSUME IInv, handled_by # Nobody, NEW r, r.preferred \in Client \cup {None},
         invoked' = [client |-> LookupHandler(r), why |-> r.preferred],
         UNCHANGED <<clients, request, channel, operation, handled_by>>
  PROVE  IInv'
<1> DEFINE c == LookupHandler(r)
<1>1. handled_by.process # None
  BY DEF IInv, HandledByProcess
<1>2. /\ c \in Client \cup {None}
      /\ c # None =>
           /\ c \in Registered
           /\ \/ clients[c].process = handled_by.process
              \/ c \in {handled_by.client, r.preferred}
  BY <1>1, LookupIs DEF IInv, Types
<1> HIDE DEF c
<1>3. invoked' = [client |-> c, why |-> r.preferred]
  BY DEF c
<1>4. Types'
  BY <1>2, <1>3 DEF IInv, Types, ClientsTyped
<1>5. HandledByProcess'
  BY DEF IInv, HandledByProcess
<1>6. PredictedSuits'
  BY SuitsStill DEF IInv, Types
<1>7. Redispatched'
  BY <1>2, <1>3 DEF Redispatched, Registered
<1> QED BY <1>4, <1>5, <1>6, <1>7 DEF IInv

LEMMA ReinvokeKeeps ==
  ASSUME IInv, Reinvoke
  PROVE  IInv'
<1>1. PICK props \in Requests, preferred \in Client \cup {None} :
        LET r == [NoRequest EXCEPT !.props = props, !.preferred = preferred]
        IN  invoked' = [client |-> LookupHandler(r), why |-> preferred]
  BY DEF Reinvoke
<1> DEFINE r == [NoRequest EXCEPT !.props = props, !.preferred = preferred]
<1>2. r.preferred = preferred
  BY DEF NoRequest
<1>3. invoked' = [client |-> LookupHandler(r), why |-> r.preferred]
  BY <1>1, <1>2
<1>4. handled_by # Nobody /\ UNCHANGED <<clients, request, channel, operation, handled_by>>
  BY DEF Reinvoke
<1> HIDE DEF r
<1> QED BY <1>2, <1>3, <1>4, InvokesKeeps

LEMMA PresentChannelKeeps ==
  ASSUME IInv, PresentChannel
  PROVE  IInv'
<1>1. request.preferred \in Client \cup {None}
  BY DEF IInv, Types
<1> QED BY <1>1, InvokesKeeps DEF PresentChannel

(* One step for each action.                                                *)
LEMMA NextKeeps == IInv /\ [Next]_vars => IInv'
<1> SUFFICES ASSUME IInv, [Next]_vars
             PROVE  IInv'
  OBVIOUS
<1>1. ASSUME NEW c \in Client, Registers(c)
      PROVE  IInv'
  BY <1>1, RegistersKeeps
<1>2. ASSUME NEW c \in Client, Leaves(c)
      PROVE  IInv'
  BY <1>2, LeavesKeeps
<1>3. ASSUME NEW u \in Process, Claim(u)
      PROVE  IInv'
  BY <1>3, ClaimKeeps
<1>4. CASE MakeRequest
  BY <1>4, MakeRequestKeeps
<1>5. CASE ChannelAppears
  BY <1>5, ChannelAppearsKeeps
<1>6. CASE TryNextHandler
  BY <1>6, TryNextHandlerKeeps
<1>7. CASE HandlerExits
  BY <1>7, HandlerExitsKeeps
<1>8. CASE Reinvoke
  BY <1>8, ReinvokeKeeps
<1>9. CASE PresentChannel
  BY <1>9, PresentChannelKeeps
<1>10. CASE UNCHANGED vars
  <2>1. UNCHANGED <<clients, request, channel, operation, handled_by, invoked>>
    BY <1>10 DEF vars
  <2>2. PredictedSuits'
    BY <2>1, SuitsStill DEF IInv, Types
  <2> QED BY <2>1, <2>2 DEF IInv, Types, ClientsTyped, HandledByProcess, Redispatched, Registered
<1> QED BY <1>1, <1>2, <1>3, <1>4, <1>5, <1>6, <1>7, <1>8, <1>9, <1>10 DEF Next

-----------------------------------------------------------------------------
(* The theorems                                                             *)

(* The tables keep their types, who handles the channel is known by its     *)
(* process, the handler that a request was told of still suits it, and a    *)
(* channel that was given again went to its handler: what each callback of  *)
(* the registry, the request and the dispatcher keeps true.                 *)
THEOREM InductiveInvariant == Spec => []IInv
BY InitHolds, NextKeeps, PTL DEF Spec

(* Whatever clients come and go, a channel that is handled is given again   *)
(* only to the process that handles it, to the name that it was given to,   *)
(* or to the client that the new request prefers; in any case to a client   *)
(* that is registered (RedispatchToHandler; _mcd_dispatcher_lookup_handler).*)
THEOREM RedispatchesToHandler == Spec => []RedispatchToHandler
<1>1. IInv => RedispatchToHandler
  BY TypesAre DEF IInv, Redispatched, RedispatchToHandler
<1> QED BY InductiveInvariant, <1>1, PTL

(* What a step that adds a channel to the operation does.                   *)
LEMMA OnlyChannelAppears ==
  ASSUME IInv, [Next]_vars, channel = None, channel' # None
  PROVE  /\ channel' \in Channels /\ UNCHANGED <<clients, request>>
         /\ request = NoRequest \/ Satisfies(channel', request)
         /\ operation'.possible =
              ListPossibleHandlers(request.preferred, request.props, channel', None)
<1>1. ChannelAppears
  <2>1. ASSUME NEW c \in Client, Registers(c) \/ Leaves(c)
        PROVE  FALSE
    BY <2>1 DEF Registers, Leaves
  <2>2. ASSUME NEW u \in Process, Claim(u)
        PROVE  FALSE
    BY <2>2 DEF Claim
  <2>3. ~MakeRequest /\ ~TryNextHandler /\ ~HandlerExits /\ ~Reinvoke /\ ~PresentChannel
        /\ ~UNCHANGED vars
    BY DEF MakeRequest, TryNextHandler, HandlerExits, Undispatchable, Reinvoke, PresentChannel, vars
  <2> QED BY <2>1, <2>2, <2>3 DEF Next
<1>2. PICK props \in Channels :
        /\ IF request = NoRequest THEN ~props["Requested"].value ELSE Satisfies(props, request)
        /\ LET possible == ListPossibleHandlers(request.preferred, request.props, props, None)
           IN  /\ channel' = IF possible = <<>> THEN None ELSE props
               /\ request' = IF possible = <<>> THEN NoRequest ELSE request
               /\ operation' = [NoOperation EXCEPT !.possible = possible]
  BY <1>1 DEF ChannelAppears
<1>3. UNCHANGED clients
  BY <1>1 DEF ChannelAppears
<1>4. channel' = props /\ UNCHANGED request
  BY <1>2
<1>5. operation'.possible = ListPossibleHandlers(request.preferred, request.props, props, None)
  BY <1>2 DEF NoOperation
<1> QED BY <1>2, <1>3, <1>4, <1>5

(* The client that was told of the request, if it is still there when the   *)
(* channel comes, may get it, whatever properties the channel has besides   *)
(* the requested ones (PredictedIsPossible; _mcd_request_predict_handler    *)
(* against mcd_dispatcher_dup_possible_handlers).                           *)
THEOREM PredictedMayGetIt == Spec => PredictedIsPossible
<1>1. ASSUME IInv, [Next]_vars, channel = None, channel' # None, request.predicted # None,
             request.predicted # request.preferred
      PROVE  request.predicted \in ToSet(operation'.possible)
  <2> DEFINE p == request.predicted
             H == PossibleHandlers(request.props, channel', None)
  <2>1. /\ channel' \in Channels
        /\ request = NoRequest \/ Satisfies(channel', request)
        /\ operation'.possible =
             ListPossibleHandlers(request.preferred, request.props, channel', None)
    BY <1>1, OnlyChannelAppears
  <2>2. /\ p \in Registered /\ clients[p].is_handler
        /\ Quality(p, request.props, None) > 0
    BY <1>1 DEF IInv, PredictedSuits
  <2>3. Satisfies(channel', request)
    BY <1>1, <2>1 DEF NoRequest
  <2>4. ClientsTyped
    BY <1>1 DEF IInv, Types
  <2>5. Quality(p, request.props, channel') > 0
    BY <2>1, <2>2, <2>3, <2>4, StillSuits
  <2>6. \E h \in H : h.client = p
    BY <2>2, <2>4, <2>5, PossibleAre
  <2>7. ToSet(operation'.possible) = {h.client : h \in H}
    BY <2>1, <2>4, <2>6, ListIs
  <2> QED BY <2>6, <2>7
<1>2. IInv /\ [Next]_vars =>
        [channel = None /\ channel' # None /\ request.predicted # None =>
           LET p == request.predicted IN
           p \in ToSet(operation'.possible) \/ p = request.preferred]_vars
  BY <1>1
<1> QED BY InductiveInvariant, <1>2, PTL DEF Spec, PredictedIsPossible

(* The list of a channel: what MostSpecificFirst says of it.                *)
LEMMA MostSpecificListed ==
  ASSUME ClientsTyped, NEW props \in Channels, NEW request_props, NEW preferred
  PROVE  LET list == ListPossibleHandlers(preferred, request_props, props, None)
             Wants(c) == clients[c].is_handler /\ FilterSizes(props, clients[c]) # {}
             known == {c \in Registered : Readable(clients[c])}
             Biggest(c) == Max(FilterSizes(props, clients[c]))
         IN  /\ \A c \in known : Wants(c) => c \in ToSet(list)
             /\ \A c \in known \cap ToSet(list) : Wants(c) \/ list = <<preferred>>
             /\ \A i, j \in DOMAIN list :
                  i < j /\ {list[i], list[j]} \subseteq known =>
                    LET a == list[i]  b == list[j] IN
                    IF clients[a].bypass = clients[b].bypass THEN Biggest(a) >= Biggest(b)
                    ELSE clients[a].bypass
<1> DEFINE list == ListPossibleHandlers(preferred, request_props, props, None)
           H == PossibleHandlers(request_props, props, None)
           q(c) == Quality(c, request_props, props)
           Wants(c) == clients[c].is_handler /\ FilterSizes(props, clients[c]) # {}
           known == {c \in Registered : Readable(clients[c])}
           Biggest(c) == Max(FilterSizes(props, clients[c]))
<1>1. \A c \in known :
        /\ c \in Registered
        /\ q(c) > 0 <=> FilterSizes(props, clients[c]) # {}
        /\ q(c) > 0 => Biggest(c) \in Nat /\ q(c) = Biggest(c) + 1
  BY QualityIsSize
<1>2. /\ list \in Seq(Client)
      /\ H = {} => list = Fallback(preferred)
      /\ H # {} =>
           /\ ToSet(list) = {h.client : h \in H}
           /\ \A i, j \in DOMAIN list : i < j =>
                \E a, b \in H : a.client = list[i] /\ b.client = list[j] /\ Precedes(a, b)
  BY ListIs
<1>3. /\ \A h \in H :
           /\ h.client \in Registered /\ h.bypass = clients[h.client].bypass
           /\ clients[h.client].is_handler
           /\ h.quality = q(h.client) /\ h.quality > 0
      /\ \A c \in Registered : clients[c].is_handler /\ q(c) > 0 => \E h \in H : h.client = c
  BY PossibleAre
<1>4. \A h \in H : h.bypass \in BOOLEAN /\ h.quality \in Nat
  BY PossibleAre DEF Candidates
<1> HIDE DEF list, H, q, known, Biggest
<1>5. ASSUME NEW c \in known, Wants(c)
      PROVE  c \in ToSet(list)
  <2>1. \E h \in H : h.client = c
    BY <1>1, <1>3, <1>5
  <2> QED BY <1>2, <2>1
<1>6. ASSUME NEW c \in known, c \in ToSet(list)
      PROVE  Wants(c) \/ list = <<preferred>>
  <2>1. CASE H = {}
    <3>1. list # <<>>
      BY <1>6 DEF ToSet
    <3> QED BY <1>2, <2>1, <3>1 DEF Fallback
  <2>2. CASE H # {}
    <3>1. PICK h \in H : h.client = c
      BY <1>2, <1>6, <2>2
    <3> QED BY <1>1, <1>3, <3>1
  <2> QED BY <2>1, <2>2
<1>7. ASSUME NEW i \in DOMAIN list, NEW j \in DOMAIN list, i < j,
             list[i] \in known, list[j] \in known
      PROVE  IF clients[list[i]].bypass = clients[list[j]].bypass
             THEN Biggest(list[i]) >= Biggest(list[j]) ELSE clients[list[i]].bypass
  <2>1. H # {}
    <3> SUFFICES ASSUME H = {}
                 PROVE  FALSE
      OBVIOUS
    <3>1. Len(list) <= 1
      BY <1>2 DEF Fallback
    <3> QED BY <1>2, <1>7, <3>1
  <2>2. PICK a \in H, b \in H : a.client = list[i] /\ b.client = list[j] /\ Precedes(a, b)
    BY <1>2, <1>7, <2>1
  <2>3. /\ a.bypass = clients[list[i]].bypass /\ b.bypass = clients[list[j]].bypass
        /\ a.bypass \in BOOLEAN /\ b.bypass \in BOOLEAN
    BY <1>3, <1>4, <2>2
  <2>4. /\ Biggest(list[i]) \in Nat /\ a.quality = Biggest(list[i]) + 1
        /\ Biggest(list[j]) \in Nat /\ b.quality = Biggest(list[j]) + 1
    BY <1>1, <1>3, <1>7, <2>2
  <2>5. CASE a.bypass = b.bypass
    <3>1. a.quality >= b.quality
      BY <1>4, <2>2, <2>5 DEF Precedes
    <3> QED BY <2>3, <2>4, <2>5, <3>1
  <2>6. CASE a.bypass # b.bypass
    BY <2>2, <2>3, <2>6 DEF Precedes
  <2> QED BY <2>5, <2>6
<1>8. \A i, j \in DOMAIN list :
        i < j /\ {list[i], list[j]} \subseteq known =>
          IF clients[list[i]].bypass = clients[list[j]].bypass
          THEN Biggest(list[i]) >= Biggest(list[j]) ELSE clients[list[i]].bypass
  BY <1>7
<1> QED BY <1>5, <1>6, <1>8 DEF list, known, Biggest

(* Of two clients that MC understands and that want the channel, the one    *)
(* that bypasses approval, and else the one with the more specific filter,  *)
(* is asked first; all that want it are asked, and no others unless the     *)
(* request names them (MostSpecificFirst; possible_handler_cmp and          *)
(* _mcd_client_match_filters).                                              *)
THEOREM MostSpecificIsFirst == Spec => MostSpecificFirst
<1>1. ASSUME IInv, [Next]_vars, channel = None, channel' # None
      PROVE  LET list == operation'.possible
                 Wants(c) == clients[c].is_handler /\ FilterSizes(channel', clients[c]) # {}
                 known == {c \in Registered : Readable(clients[c])}
                 Biggest(c) == Max(FilterSizes(channel', clients[c]))
             IN  /\ \A c \in known : Wants(c) => c \in ToSet(list)
                 /\ \A c \in known \cap ToSet(list) : Wants(c) \/ list = <<request.preferred>>
                 /\ \A i, j \in DOMAIN list :
                      i < j /\ {list[i], list[j]} \subseteq known =>
                        LET a == list[i]  b == list[j] IN
                        IF clients[a].bypass = clients[b].bypass THEN Biggest(a) >= Biggest(b)
                        ELSE clients[a].bypass
  <2>1. /\ channel' \in Channels
        /\ operation'.possible =
             ListPossibleHandlers(request.preferred, request.props, channel', None)
    BY <1>1, OnlyChannelAppears
  <2>2. ClientsTyped
    BY <1>1 DEF IInv, Types
  <2> QED BY <2>1, <2>2, MostSpecificListed
<1>2. IInv /\ [Next]_vars =>
        [channel = None /\ channel' # None =>
           LET list == operation'.possible
               Wants(c) == clients[c].is_handler /\ FilterSizes(channel', clients[c]) # {}
               known == {c \in Registered : Readable(clients[c])}
               Biggest(c) == Max(FilterSizes(channel', clients[c]))
           IN  /\ \A c \in known : Wants(c) => c \in ToSet(list)
               /\ \A c \in known \cap ToSet(list) : Wants(c) \/ list = <<request.preferred>>
               /\ \A i, j \in DOMAIN list :
                    i < j /\ {list[i], list[j]} \subseteq known =>
                      LET a == list[i]  b == list[j] IN
                      IF clients[a].bypass = clients[b].bypass THEN Biggest(a) >= Biggest(b)
                      ELSE clients[a].bypass]_vars
  BY <1>1
<1> QED BY InductiveInvariant, <1>2, PTL DEF Spec, MostSpecificFirst
=============================================================================
