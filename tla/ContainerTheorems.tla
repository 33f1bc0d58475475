------------------------- MODULE ContainerTheorems --------------------------
(***************************************************************************)
(* What the containers of the code preserve and return, for all elements:  *)
(* Put and Erase on maps, Append and Tail on queues, and how many threads  *)
(* are at a place, or entries in a queue, before and after a step.         *)
(* The last part is about queues of handlers, some of which carry what is  *)
(* to be sent, in order.                                                   *)
(***************************************************************************)
EXTENDS Maps, Integers, Sequences, FiniteSetTheorems, SequenceTheorems, TLAPS

\* The empty map is a map of any type: the registries start out empty
\* (RoomService.h:36-37).
LEMMA NoEntriesType ==
  ASSUME NEW K, NEW V
  PROVE  IsMap(NoEntries, K, V) /\ DOMAIN NoEntries = {}
BY DEF IsMap, NoEntries

\* m[k] = v adds k to the keys, gives it the value v and leaves the value of
\* every other key alone.
LEMMA PutValue ==
  ASSUME NEW m, NEW k, NEW v
  PROVE  /\ DOMAIN Put(m, k, v) = DOMAIN m \cup {k}
         /\ Put(m, k, v)[k] = v
         /\ \A x \in DOMAIN m : x # k => Put(m, k, v)[x] = m[x]
BY DEF Put

\* m[k] = v keeps the type of the map.
LEMMA PutType ==
  ASSUME NEW K, NEW V, NEW m, IsMap(m, K, V), NEW k \in K, NEW v \in V
  PROVE  IsMap(Put(m, k, v), K, V)
BY DEF IsMap, Put

\* m.erase(k) removes k from the keys and leaves the other entries alone.
LEMMA EraseValue ==
  ASSUME NEW m, NEW k
  PROVE  /\ DOMAIN Erase(m, k) = DOMAIN m \ {k}
         /\ \A x \in DOMAIN m : x # k => Erase(m, k)[x] = m[x]
BY DEF Erase, Restrict

\* m.erase(k) keeps the type of the map.
LEMMA EraseType ==
  ASSUME NEW K, NEW V, NEW m, IsMap(m, K, V), NEW k
  PROVE  IsMap(Erase(m, k), K, V)
BY DEF IsMap, Erase, Restrict

\* The enumerated set of maps and the predicate agree.
LEMMA MapsIntoIsMap ==
  ASSUME NEW K, NEW V, NEW m
  PROVE  m \in MapsInto(K, V) <=> IsMap(m, K, V)
BY DEF IsMap, MapsInto

-----------------------------------------------------------------------------
(* Queues.                                                                 *)

Positions(q, x) == {i \in DOMAIN q : q[i] = x}

\* The places of x in a queue are finitely many.
LEMMA PositionsFinite ==
  ASSUME NEW S, NEW q \in Seq(S), NEW x
  PROVE  IsFiniteSet(Positions(q, x)) /\ Cardinality(Positions(q, x)) \in Nat
<1>1. Len(q) \in Int /\ Positions(q, x) \in SUBSET (1..Len(q))
  BY DEF Positions
<1>2. IsFiniteSet(1..Len(q))
  BY <1>1, FS_Interval
<1> QED
  BY <1>1, <1>2, FS_Subset, FS_CardinalityType

\* push_back adds one, of its own kind.
LEMMA AppendCount ==
  ASSUME NEW S, NEW q \in Seq(S), NEW e \in S, NEW x
  PROVE  Cardinality(Positions(Append(q, e), x)) =
           Cardinality(Positions(q, x)) + (IF e = x THEN 1 ELSE 0)
<1>1. Len(q) + 1 \notin Positions(q, x)
  BY DEF Positions
<1>2. Positions(Append(q, e), x) =
        IF e = x THEN Positions(q, x) \cup {Len(q) + 1} ELSE Positions(q, x)
  BY DEF Positions
<1>3. IsFiniteSet(Positions(q, x)) /\ Cardinality(Positions(q, x)) \in Nat
  BY PositionsFinite
<1>4. Cardinality(Positions(q, x) \cup {Len(q) + 1}) = Cardinality(Positions(q, x)) + 1
  BY <1>1, <1>3, FS_AddElement
<1> QED
  BY <1>2, <1>3, <1>4

\* pop_front takes one away, of the kind of the front.
LEMMA TailCount ==
  ASSUME NEW S, NEW q \in Seq(S), q # <<>>, NEW x
  PROVE  Cardinality(Positions(Tail(q), x)) =
           Cardinality(Positions(q, x)) - (IF Head(q) = x THEN 1 ELSE 0)
<1> DEFINE rest == Positions(q, x) \ {1}
           shift == [i \in rest |-> i - 1]
<1>1. shift \in Bijection(rest, Positions(Tail(q), x))
  <2>1. \A i \in rest : i \in 2..Len(q) /\ q[i] = x
    BY DEF Positions
  <2>2. \A i \in rest : shift[i] \in Positions(Tail(q), x)
    BY <2>1 DEF Positions
  <2>3. \A i, j \in rest : i # j => shift[i] # shift[j]
    BY <2>1
  <2>4. \A j \in Positions(Tail(q), x) : j + 1 \in rest /\ shift[j + 1] = j
    BY DEF Positions
  <2> QED
    BY <2>2, <2>3, <2>4 DEF Bijection, Injection, Surjection, IsInjective
<1>2. IsFiniteSet(Positions(q, x)) /\ Cardinality(Positions(q, x)) \in Nat
  BY PositionsFinite
<1>3. IsFiniteSet(rest)
  BY <1>2, FS_RemoveElement
<1>4. Cardinality(rest) = Cardinality(Positions(Tail(q), x))
  BY <1>1, <1>3, FS_Bijection DEF ExistsBijection
<1>5. 1 \in Positions(q, x) <=> Head(q) = x
  BY DEF Positions
<1>6. Cardinality(rest) =
        IF 1 \in Positions(q, x) THEN Cardinality(Positions(q, x)) - 1
        ELSE Cardinality(Positions(q, x))
  BY <1>2, FS_RemoveElement
<1> QED
  BY <1>2, <1>4, <1>5, <1>6

\* What is left of a sequence grows by what is appended to it.
LEMMA AppendSubSeq ==
  ASSUME NEW S, NEW q \in Seq(S), NEW e \in S, NEW k \in 1..(Len(q) + 1)
  PROVE  SubSeq(Append(q, e), k, Len(Append(q, e))) = Append(SubSeq(q, k, Len(q)), e)
<1> DEFINE left == SubSeq(q, k, Len(q))
           more == SubSeq(Append(q, e), k, Len(q) + 1)
<1>1. /\ left \in Seq(S) /\ Len(left) = Len(q) - k + 1
      /\ \A i \in 1..(Len(q) - k + 1) : left[i] = q[k + i - 1]
  BY SubSeqProperties
<1>2. /\ more \in Seq(S) /\ Len(more) = Len(q) - k + 2
      /\ \A i \in 1..(Len(q) - k + 2) : more[i] = Append(q, e)[k + i - 1]
  <2>1. \A i \in k..(Len(q) + 1) : Append(q, e)[i] \in S
    OBVIOUS
  <2> QED
    BY <2>1, SubSeqProperties
<1>3. Append(left, e) \in Seq(S) /\ Len(Append(left, e)) = Len(more)
  BY <1>1, <1>2
<1>4. \A i \in 1..Len(more) : more[i] = Append(left, e)[i]
  BY <1>1, <1>2
<1>5. more = Append(left, e)
  BY <1>2, <1>3, <1>4, SeqEqual
<1> QED
  BY <1>5

-----------------------------------------------------------------------------
(* Threads.                                                                *)

\* The members of W that f places at x.
Placed(f, W, x) == {w \in W : f[w] = x}

\* They are finitely many.
LEMMA PlacedFinite ==
  ASSUME NEW W, IsFiniteSet(W), NEW f, NEW x
  PROVE  IsFiniteSet(Placed(f, W, x)) /\ Cardinality(Placed(f, W, x)) \in Nat
<1>1. Placed(f, W, x) \in SUBSET W
  BY DEF Placed
<1> QED
  BY <1>1, FS_Subset, FS_CardinalityType

OnlyMoves(f, g, I, i) == i \in I /\ \A j \in I \ {i} : g[j] = f[j]

\* Who moves from one place to another is one less there and one more here.
LEMMA MoveCount ==
  ASSUME NEW I, IsFiniteSet(I), NEW f, NEW g, NEW i, OnlyMoves(f, g, I, i), NEW x
  PROVE  Cardinality(Placed(g, I, x)) =
           Cardinality(Placed(f, I, x))
             - (IF f[i] = x THEN 1 ELSE 0) + (IF g[i] = x THEN 1 ELSE 0)
<1> DEFINE others == Placed(f, I, x) \ {i}
<1>1. IsFiniteSet(Placed(f, I, x)) /\ Cardinality(Placed(f, I, x)) \in Nat
  BY PlacedFinite
<1>2. /\ IsFiniteSet(others)
      /\ Cardinality(others) =
           IF i \in Placed(f, I, x) THEN Cardinality(Placed(f, I, x)) - 1
           ELSE Cardinality(Placed(f, I, x))
  BY <1>1, FS_RemoveElement
<1>3. i \in Placed(f, I, x) <=> f[i] = x
  BY DEF Placed, OnlyMoves
<1>4. Placed(g, I, x) = IF g[i] = x THEN others \cup {i} ELSE others
  BY DEF Placed, OnlyMoves
<1>5. Cardinality(others \cup {i}) = Cardinality(others) + 1
  BY <1>2, FS_AddElement
<1> QED
  BY <1>1, <1>2, <1>3, <1>4, <1>5

-----------------------------------------------------------------------------
(* Handlers that wait for their turn, records with a kind, of which those  *)
(* of kind "send" carry an envelope m (Session.cpp:84-91,                  *)
(* client.cpp:114-128).                                                    *)

\* How many handlers of a kind wait.
KindsOf(q) == [i \in DOMAIN q |-> q[i].kind]
Waiting(q, k) == Cardinality(Positions(KindsOf(q), k))

\* Handler h carries the k-th of the envelopes in a.
Carries(h, a, k) == h.kind = "send" /\ h.m = a[k]

\* The handlers in q carry the envelopes in a after the first b of them, each
\* once and in their order.
Lined(a, q, b) ==
  /\ b \in 0..Len(a)
  /\ \A k, l \in DOMAIN a : a[k] = a[l] => k = l
  /\ \A i \in DOMAIN q : q[i].kind = "send" => \E k \in (b + 1)..Len(a) : Carries(q[i], a, k)
  /\ \A k \in (b + 1)..Len(a) : \E i \in DOMAIN q : Carries(q[i], a, k)
  /\ \A i, j \in DOMAIN q : \A k, l \in DOMAIN a :
       i < j /\ Carries(q[i], a, k) /\ Carries(q[j], a, l) => k < l


\* A handler that is posted is counted.
LEMMA PostCount ==
  ASSUME NEW H, NEW q \in Seq(H), NEW h \in H, NEW k
  PROVE  /\ Waiting(Append(q, h), k) = Waiting(q, k) + (IF h.kind = k THEN 1 ELSE 0)
         /\ Waiting(q, k) \in Nat
<1> DEFINE K == {g.kind : g \in H}
<1>1. KindsOf(q) \in Seq(K) /\ h.kind \in K
  BY DEF KindsOf
<1>2. KindsOf(Append(q, h)) = Append(KindsOf(q), h.kind)
  BY DEF KindsOf
<1> QED
  BY <1>1, <1>2, AppendCount, PositionsFinite DEF Waiting

\* So is the one that gets its turn.
LEMMA TurnCount ==
  ASSUME NEW H, NEW q \in Seq(H), q # <<>>, NEW k
  PROVE  Waiting(Tail(q), k) = Waiting(q, k) - (IF Head(q).kind = k THEN 1 ELSE 0)
<1> DEFINE K == {g.kind : g \in H}
<1>1. KindsOf(q) \in Seq(K) /\ KindsOf(q) # <<>> /\ Head(KindsOf(q)) = Head(q).kind
  BY DEF KindsOf
<1>2. KindsOf(Tail(q)) = Tail(KindsOf(q))
  BY DEF KindsOf
<1> QED
  BY <1>1, <1>2, TailCount DEF Waiting

\* A completion carries nothing.
LEMMA LinedOther ==
  ASSUME NEW M, NEW H, NEW a \in Seq(M), NEW q \in Seq(H), NEW b, Lined(a, q, b),
         NEW h \in H, h.kind # "send"
  PROVE  Lined(a, Append(q, h), b)
<1> DEFINE r == Append(q, h)
<1>1. /\ Len(r) = Len(q) + 1 /\ r[Len(q) + 1] = h
      /\ \A i \in DOMAIN q : i \in DOMAIN r /\ r[i] = q[i]
      /\ \A i \in DOMAIN r : i \in DOMAIN q \/ r[i] = h
      /\ DOMAIN r = 1..(Len(q) + 1) /\ DOMAIN q = 1..Len(q)
  OBVIOUS
<1>2. \A k : ~Carries(h, a, k)
  BY DEF Carries
<1> HIDE DEF r
<1>3. \A i \in DOMAIN r : r[i].kind = "send" => \E k \in (b + 1)..Len(a) : Carries(r[i], a, k)
  BY <1>1 DEF Lined
<1>4. \A k \in (b + 1)..Len(a) : \E i \in DOMAIN r : Carries(r[i], a, k)
  BY <1>1 DEF Lined
<1>5. \A i, j \in DOMAIN r : \A k, l \in DOMAIN a :
        i < j /\ Carries(r[i], a, k) /\ Carries(r[j], a, l) => k < l
  <2> SUFFICES ASSUME NEW i \in DOMAIN r, NEW j \in DOMAIN r, NEW k \in DOMAIN a,
                      NEW l \in DOMAIN a, i < j, Carries(r[i], a, k), Carries(r[j], a, l)
               PROVE  k < l
    OBVIOUS
  <2>1. i \in DOMAIN q /\ j \in DOMAIN q
    BY <1>1, <1>2
  <2> QED
    BY <1>1, <2>1 DEF Lined
<1>6. Lined(a, r, b)
  BY <1>3, <1>4, <1>5 DEF Lined
<1> QED
  BY <1>6 DEF r

\* What is given to send() comes last on both sides.
LEMMA LinedSend ==
  ASSUME NEW M, NEW H, NEW a \in Seq(M), NEW q \in Seq(H), NEW b, Lined(a, q, b),
         NEW m \in M, m \notin Range(a), [kind |-> "send", m |-> m] \in H
  PROVE  Lined(Append(a, m), Append(q, [kind |-> "send", m |-> m]), b)
<1> DEFINE h == [kind |-> "send", m |-> m]
           c == Append(a, m)
           r == Append(q, h)
<1>1. /\ Len(r) = Len(q) + 1 /\ r[Len(q) + 1] = h
      /\ \A i \in DOMAIN q : i \in DOMAIN r /\ r[i] = q[i]
      /\ \A i \in DOMAIN r : i \in DOMAIN q \/ i = Len(q) + 1
      /\ DOMAIN r = 1..(Len(q) + 1) /\ DOMAIN q = 1..Len(q)
  OBVIOUS
<1>2. /\ Len(c) = Len(a) + 1 /\ c[Len(a) + 1] = m
      /\ \A k \in DOMAIN a : k \in DOMAIN c /\ c[k] = a[k] /\ a[k] # m
      /\ \A k \in DOMAIN c : k \in DOMAIN a \/ k = Len(a) + 1
      /\ DOMAIN c = 1..(Len(a) + 1) /\ DOMAIN a = 1..Len(a)
  BY DEF Range
<1>3. h.kind = "send" /\ h.m = m
  OBVIOUS
<1>4. \A k \in DOMAIN a : (\A g : Carries(g, c, k) <=> Carries(g, a, k)) /\ ~Carries(h, c, k)
  BY <1>2, <1>3 DEF Carries
<1>5. Carries(h, c, Len(a) + 1)
  BY <1>2, <1>3 DEF Carries
<1>6. b \in 0..Len(a) /\ Len(a) \in Nat
  BY DEF Lined
<1> HIDE DEF h, c, r
<1>7. \A i \in DOMAIN q : ~Carries(q[i], c, Len(a) + 1)
  <2> SUFFICES ASSUME NEW i \in DOMAIN q, Carries(q[i], c, Len(a) + 1) PROVE FALSE
    OBVIOUS
  <2>1. q[i].kind = "send" /\ q[i].m = m
    BY <1>2 DEF Carries
  <2>2. PICK k \in (b + 1)..Len(a) : Carries(q[i], a, k)
    BY <2>1 DEF Lined
  <2>3. k \in DOMAIN a /\ a[k] = m
    BY <1>2, <1>6, <2>1, <2>2 DEF Carries
  <2> QED
    BY <1>2, <2>3
<1>8. \A k, l \in DOMAIN c : c[k] = c[l] => k = l
  BY <1>2 DEF Lined
<1>9. ASSUME NEW i \in DOMAIN r, r[i].kind = "send"
      PROVE  \E k \in (b + 1)..Len(c) : Carries(r[i], c, k)
  <2>1. CASE i \in DOMAIN q
    <3>1. PICK k \in (b + 1)..Len(a) : Carries(q[i], a, k)
      BY <1>1, <1>9, <2>1 DEF Lined
    <3>2. k \in DOMAIN a /\ k \in (b + 1)..Len(c)
      BY <1>2, <1>6
    <3> QED
      BY <1>1, <1>4, <2>1, <3>1, <3>2
  <2>2. CASE i = Len(q) + 1
    BY <1>1, <1>2, <1>5, <1>6, <2>2
  <2> QED
    BY <1>1, <2>1, <2>2
<1>10. ASSUME NEW k \in (b + 1)..Len(c)
       PROVE  \E i \in DOMAIN r : Carries(r[i], c, k)
  <2>1. CASE k \in (b + 1)..Len(a)
    <3>1. PICK i \in DOMAIN q : Carries(q[i], a, k)
      BY <2>1 DEF Lined
    <3>2. k \in DOMAIN a
      BY <1>2, <1>6, <2>1
    <3> QED
      BY <1>1, <1>4, <3>1, <3>2
  <2>2. CASE k = Len(a) + 1
    <3>1. Len(q) + 1 \in DOMAIN r
      BY <1>1
    <3> QED
      BY <1>1, <1>5, <2>2, <3>1
  <2> QED
    BY <1>2, <1>6, <2>1, <2>2
<1>11. ASSUME NEW i \in DOMAIN r, NEW j \in DOMAIN r, NEW k \in DOMAIN c, NEW l \in DOMAIN c,
              i < j, Carries(r[i], c, k), Carries(r[j], c, l)
       PROVE  k < l
  <2>1. i \in DOMAIN q /\ r[i] = q[i]
    BY <1>1, <1>11
  <2>2. k \in DOMAIN a
    BY <1>2, <1>7, <1>11, <2>1
  <2>3. CASE j \in DOMAIN q
    <3>1. l \in DOMAIN a /\ r[j] = q[j]
      BY <1>1, <1>2, <1>7, <1>11, <2>3
    <3> QED
      BY <1>4, <1>11, <2>1, <2>2, <2>3, <3>1 DEF Lined
  <2>4. CASE j = Len(q) + 1
    <3>1. l = Len(a) + 1
      BY <1>1, <1>2, <1>4, <1>11, <2>4
    <3> QED
      BY <1>2, <2>2, <3>1
  <2> QED
    BY <1>1, <2>3, <2>4
<1>12. Lined(c, r, b)
  BY <1>2, <1>6, <1>8, <1>9, <1>10, <1>11 DEF Lined
<1> QED
  BY <1>12 DEF h, c, r

\* Handlers behind one that gets its turn keep their order.
LEMMA LinedTail ==
  ASSUME NEW M, NEW H, NEW a \in Seq(M), NEW q \in Seq(H), q # <<>>, NEW b, Lined(a, q, b)
  PROVE  /\ Head(q).kind # "send" => Lined(a, Tail(q), b)
         /\ Head(q).kind = "send" =>
              b < Len(a) /\ Head(q).m = a[b + 1] /\ Lined(a, Tail(q), b + 1)
<1> DEFINE r == Tail(q)
<1>1. /\ Len(r) = Len(q) - 1 /\ DOMAIN r = 1..(Len(q) - 1) /\ DOMAIN q = 1..Len(q)
      /\ Len(q) \in Nat \ {0} /\ Head(q) = q[1]
      /\ \A i \in DOMAIN r : i + 1 \in DOMAIN q /\ r[i] = q[i + 1]
      /\ \A i \in DOMAIN q : i = 1 \/ (i - 1 \in DOMAIN r /\ r[i - 1] = q[i])
  OBVIOUS
<1>2. b \in 0..Len(a) /\ Len(a) \in Nat /\ DOMAIN a = 1..Len(a)
  BY DEF Lined
<1> HIDE DEF r
<1>3. ASSUME NEW i \in DOMAIN r, NEW j \in DOMAIN r, NEW k \in DOMAIN a, NEW l \in DOMAIN a,
             i < j, Carries(r[i], a, k), Carries(r[j], a, l)
      PROVE  k < l
  <2>1. i + 1 < j + 1 /\ i + 1 \in DOMAIN q /\ j + 1 \in DOMAIN q
    BY <1>1, <1>3
  <2> QED
    BY <1>1, <1>3, <2>1 DEF Lined
<1>4. CASE Head(q).kind # "send"
  <2>1. \A k : ~Carries(q[1], a, k)
    BY <1>1, <1>4 DEF Carries
  <2>2. \A i \in DOMAIN r : r[i].kind = "send" => \E k \in (b + 1)..Len(a) : Carries(r[i], a, k)
    BY <1>1 DEF Lined
  <2>3. ASSUME NEW k \in (b + 1)..Len(a) PROVE \E i \in DOMAIN r : Carries(r[i], a, k)
    <3>1. PICK i \in DOMAIN q : Carries(q[i], a, k)
      BY DEF Lined
    <3> QED
      BY <1>1, <2>1, <3>1
  <2>4. Lined(a, r, b)
    BY <1>3, <2>2, <2>3 DEF Lined
  <2> QED
    BY <1>4, <2>4 DEF r
<1>5. CASE Head(q).kind = "send"
  <2>1. PICK k \in (b + 1)..Len(a) : Carries(q[1], a, k)
    BY <1>1, <1>5 DEF Lined
  <2>2. b < Len(a) /\ b + 1 \in (b + 1)..Len(a) /\ b + 1 \in DOMAIN a /\ k \in DOMAIN a
    BY <1>2, <2>1
  <2>3. PICK i \in DOMAIN q : Carries(q[i], a, b + 1)
    BY <2>2 DEF Lined
  <2>4. k = b + 1
    <3>1. CASE i = 1
      BY <2>1, <2>2, <2>3, <3>1 DEF Carries, Lined
    <3>2. CASE i # 1
      <4>1. 1 < i /\ 1 \in DOMAIN q
        BY <1>1, <3>2
      <4>2. k < b + 1
        BY <2>1, <2>2, <2>3, <4>1 DEF Lined
      <4> QED
        BY <1>2, <2>1, <4>2
    <3> QED
      BY <3>1, <3>2
  <2>5. Head(q).m = a[b + 1]
    BY <1>1, <2>1, <2>4 DEF Carries
  <2>6. ASSUME NEW j \in DOMAIN r, r[j].kind = "send"
        PROVE  \E l \in (b + 2)..Len(a) : Carries(r[j], a, l)
    <3>1. j + 1 \in DOMAIN q /\ r[j] = q[j + 1] /\ 1 < j + 1 /\ 1 \in DOMAIN q
      BY <1>1
    <3>2. PICK l \in (b + 1)..Len(a) : Carries(q[j + 1], a, l)
      BY <2>6, <3>1 DEF Lined
    <3>3. l \in DOMAIN a
      BY <1>2
    <3>4. k < l
      BY <2>1, <2>2, <3>1, <3>2, <3>3 DEF Lined
    <3>5. l \in (b + 2)..Len(a)
      BY <1>2, <2>4, <3>4
    <3> QED
      BY <3>1, <3>2, <3>5
  <2>7. ASSUME NEW l \in (b + 2)..Len(a) PROVE \E j \in DOMAIN r : Carries(r[j], a, l)
    <3>1. l \in (b + 1)..Len(a) /\ l \in DOMAIN a /\ l # b + 1
      BY <1>2
    <3>2. PICK j \in DOMAIN q : Carries(q[j], a, l)
      BY <3>1 DEF Lined
    <3>3. j # 1
      BY <2>1, <2>2, <2>4, <3>1, <3>2 DEF Carries, Lined
    <3> QED
      BY <1>1, <3>2, <3>3
  <2>8. b + 1 \in 0..Len(a) /\ (b + 1) + 1 = b + 2
    BY <1>2, <2>2
  <2>9. \A x, y \in DOMAIN a : a[x] = a[y] => x = y
    BY DEF Lined
  <2>10. Lined(a, r, b + 1)
    BY <1>3, <2>6, <2>7, <2>8, <2>9 DEF Lined
  <2> QED
    BY <1>5, <2>2, <2>5, <2>10 DEF r
<1> QED
  BY <1>4, <1>5
=============================================================================
