------------------------- MODULE MemoryStore_proofs -------------------------
(***************************************************************************)
(* Proofs about MemoryStore, for any keys, values, lifetimes and cap: the  *)
(* slice lists the keys of the map, only the oldest live entry of a full   *)
(* store makes room for a new one, and the store implements TtlMap.        *)
(*                                                                         *)
(* The slice is a sequence of any length that a loop filters.  Induction   *)
(* over its length goes through sets: a set of numbers that holds 0 and    *)
(* with each number the next one holds them all (NatInSet), because        *)
(* otherwise it would miss a least one (Least), and NatLessThanWellFounded *)
(* gives that.                                                             *)
(***************************************************************************)
EXTENDS MemoryStore, SequenceTheorems, FiniteSetTheorems, WellFoundedInduction, TLAPS

-----------------------------------------------------------------------------
(***************************************************************************)
(* Induction.                                                              *)
(***************************************************************************)

\* A set of natural numbers that is not empty has a least element.
LEMMA Least ==
  ASSUME NEW S, S \subseteq Nat, S # {}
  PROVE  \E n \in S : \A m \in S : n <= m
<1> DEFINE less == OpToRel(<, Nat)
<1>1. less = {p \in Nat \X Nat : p[1] < p[2]}
  BY DEF OpToRel
<1>2. IsWellFoundedOn(less, Nat)
  BY NatLessThanWellFounded
<1> HIDE DEF less
<1>3. PICK n \in S : \A m \in S : <<m, n>> \notin less
  BY <1>2, WFMin
<1>4. ASSUME NEW m \in S
      PROVE  n <= m
  <2>1. <<m, n>> \in Nat \X Nat
    OBVIOUS
  <2>2. ~(m < n)
    BY <1>1, <1>3, <2>1
  <2> QED
    BY <2>2
<1> QED
  BY <1>4

\* Induction over the natural numbers, for a predicate given as a set.
LEMMA NatInSet ==
  ASSUME NEW S, 0 \in S, \A n \in Nat : n \in S => n + 1 \in S
  PROVE  Nat \subseteq S
<1> SUFFICES ASSUME ~(Nat \subseteq S)
             PROVE  FALSE
  OBVIOUS
<1>1. PICK n \in Nat \ S : \A m \in Nat \ S : n <= m
  BY Least
<1> QED
  BY <1>1

-----------------------------------------------------------------------------
(***************************************************************************)
(* Sequences that list a set.                                              *)
(***************************************************************************)

\* Each element of S has exactly one place in q.
Lists(q, S) ==
    /\ q \in Seq(S)
    /\ \A x \in S : \E i \in 1..Len(q) : q[i] = x
    /\ \A i, j \in 1..Len(q) : q[i] = q[j] => i = j

\* What a sequence holds makes its type.
LEMMA SeqInto ==
  ASSUME NEW T, NEW q \in Seq(T), NEW S, \A i \in 1..Len(q) : q[i] \in S
  PROVE  q \in Seq(S)
<1>1. Len(q) \in Nat /\ q \in [1..Len(q) -> T]
  BY LenProperties
<1>2. q \in [1..Len(q) -> S]
  BY <1>1
<1> QED
  BY <1>1, <1>2, SeqDef

\* The same by range and injectivity.
LEMMA ListsByRange ==
  ASSUME NEW T, NEW q \in Seq(T), NEW S
  PROVE  Lists(q, S) <=> Range(q) = S /\ IsInjective(q)
<1>1. /\ Len(q) \in Nat /\ DOMAIN q = 1..Len(q)
      /\ q \in [1..Len(q) -> T]
  BY LenProperties
<1>2. Range(q) = {q[i] : i \in 1..Len(q)}
  BY <1>1 DEF Range
<1>3. Range(q) = S => q \in Seq(S)
  BY <1>1, <1>2, SeqInto
<1>4. Lists(q, S) => Range(q) = S
  <2> SUFFICES ASSUME Lists(q, S)
               PROVE  Range(q) = S
    OBVIOUS
  <2>1. \A i \in 1..Len(q) : q[i] \in S
    BY ElementOfSeq DEF Lists
  <2> QED
    BY <1>2, <2>1 DEF Lists
<1> QED
  BY <1>1, <1>2, <1>3, <1>4 DEF Lists, IsInjective

\* As long as it has elements.
LEMMA ListsCount ==
  ASSUME NEW S, NEW q, Lists(q, S)
  PROVE  IsFiniteSet(S) /\ Cardinality(S) = Len(q) /\ Len(q) \in Nat
<1>1. Len(q) \in Nat /\ q \in [1..Len(q) -> S]
  BY LenProperties DEF Lists
<1>2. IsFiniteSet(1..Len(q)) /\ Cardinality(1..Len(q)) = Len(q)
  BY <1>1, FS_Interval
<1>3. q \in Bijection(1..Len(q), S)
  BY <1>1 DEF Lists, Bijection, Injection, Surjection, IsInjective
<1> QED
  BY <1>1, <1>2, <1>3, FS_Bijection DEF ExistsBijection

\* The empty sequence lists the empty set.
LEMMA ListsNothing == Lists(<<>>, {})
  BY DEF Lists

\* A new element at the end.
LEMMA ListsAppend ==
  ASSUME NEW S, NEW q, Lists(q, S), NEW e, e \notin S
  PROVE  Lists(Append(q, e), S \cup {e})
<1>1. q \in Seq(S \cup {e}) /\ Len(q) \in Nat
  BY LenProperties, SeqMonotonic DEF Lists
<1>2. /\ Append(q, e) \in Seq(S \cup {e})
      /\ Len(Append(q, e)) = Len(q) + 1
      /\ \A i \in 1..Len(q) : Append(q, e)[i] = q[i]
      /\ Append(q, e)[Len(q) + 1] = e
  BY <1>1, AppendProperties
<1>3. \A i \in 1..Len(q) : q[i] \in S
  BY ElementOfSeq DEF Lists
<1>4. ASSUME NEW x \in S \cup {e}
      PROVE  \E i \in 1..(Len(q) + 1) : Append(q, e)[i] = x
  BY <1>1, <1>2 DEF Lists
<1>5. ASSUME NEW i \in 1..(Len(q) + 1), NEW j \in 1..(Len(q) + 1),
             Append(q, e)[i] = Append(q, e)[j]
      PROVE  i = j
  BY <1>1, <1>2, <1>3, <1>5 DEF Lists
<1> QED
  BY <1>2, <1>4, <1>5 DEF Lists

\* Without its first element.
LEMMA ListsTail ==
  ASSUME NEW S, NEW q, Lists(q, S), q # <<>>
  PROVE  /\ q[1] \in S /\ Head(q) = q[1]
         /\ Lists(SubSeq(q, 2, Len(q)), S \ {q[1]})
<1> DEFINE t == SubSeq(q, 2, Len(q))
<1>1. /\ q \in Seq(S) /\ Len(q) \in Nat /\ Len(q) >= 1
      /\ q[1] \in S /\ Head(q) = q[1]
  BY LenProperties, HeadTailProperties, ElementOfSeq, EmptySeq DEF Lists
<1>2. t \in Seq(S) /\ Len(t) = Len(q) - 1 /\ \A i \in 1..(Len(q) - 1) : t[i] = q[i + 1]
  <2>1. /\ 2 \in 1..(Len(q) + 1) /\ Len(q) \in (2 - 1)..Len(q)
        /\ Len(q) - 2 + 1 = Len(q) - 1
    BY <1>1
  <2>2. /\ t \in Seq(S) /\ Len(t) = Len(q) - 2 + 1
        /\ \A i \in 1..(Len(q) - 2 + 1) : t[i] = q[2 + i - 1]
    BY <1>1, <2>1, SubSeqProperties
  <2> HIDE DEF t
  <2>3. \A i \in 1..(Len(q) - 1) : 2 + i - 1 = i + 1
    BY <1>1
  <2> QED
    BY <2>1, <2>2, <2>3
<1> HIDE DEF t
<1>3. \A i \in 1..Len(t) : t[i] \in S \ {q[1]}
  <2> SUFFICES ASSUME NEW i \in 1..Len(t)
               PROVE  t[i] \in S \ {q[1]}
    OBVIOUS
  <2>1. i \in 1..(Len(q) - 1) /\ i + 1 \in 1..Len(q) /\ 1 \in 1..Len(q) /\ i + 1 # 1
    BY <1>1, <1>2
  <2> QED
    BY <1>1, <1>2, <2>1, ElementOfSeq DEF Lists
<1>4. t \in Seq(S \ {q[1]})
  BY <1>2, <1>3, SeqInto
<1>5. ASSUME NEW x \in S \ {q[1]}
      PROVE  \E i \in 1..Len(t) : t[i] = x
  <2>1. PICK i \in 1..Len(q) : q[i] = x
    BY DEF Lists
  <2>2. i # 1 /\ i - 1 \in 1..Len(t) /\ (i - 1) + 1 = i
    BY <1>1, <1>2, <2>1
  <2> QED
    BY <1>2, <2>1, <2>2
<1>6. ASSUME NEW i \in 1..Len(t), NEW j \in 1..Len(t), t[i] = t[j]
      PROVE  i = j
  <2>1. i + 1 \in 1..Len(q) /\ j + 1 \in 1..Len(q) /\ q[i + 1] = q[j + 1]
    BY <1>1, <1>2, <1>6
  <2>2. i + 1 = j + 1
    BY <2>1 DEF Lists
  <2> QED
    BY <2>2
<1> QED
  BY <1>1, <1>4, <1>5, <1>6 DEF Lists, t

\* The scan of Memory.remove stops at the one place of the key.
LEMMA ListsRemove ==
  ASSUME NEW S, NEW q, Lists(q, S), NEW e
  PROVE  Lists(RemoveFirst(q, e), S \ {e})
<1>1. q \in Seq(S) /\ Len(q) \in Nat
  BY LenProperties DEF Lists
<1>2. CASE ~\E i \in 1..Len(q) : q[i] = e
  <2>1. RemoveFirst(q, e) = q /\ S \ {e} = S
    BY <1>2 DEF RemoveFirst, Lists
  <2> QED
    BY <2>1
<1>3. ASSUME NEW i \in 1..Len(q), q[i] = e
      PROVE  Lists(RemoveFirst(q, e), S \ {e})
  <2> DEFINE front == SubSeq(q, 1, i - 1)
             back == SubSeq(q, i + 1, Len(q))
             r == front \o back
  <2>1. RemoveFirst(q, e) = r
    <3>1. {j \in 1..Len(q) : q[j] = e} = {i}
      BY <1>3 DEF Lists
    <3>2. Min({i}) = i
      BY DEF Min
    <3>3. SelectInSeq(q, LAMBDA v : v = e) = i
      BY <3>1, <3>2 DEF SelectInSeq
    <3> QED
      BY <1>3, <3>3 DEF RemoveFirst, RemoveAt
  <2>2. /\ front \in Seq(S) /\ Len(front) = i - 1
        /\ \A j \in 1..(i - 1) : front[j] = q[j]
    BY <1>1, SubSeqProperties
  <2>3. /\ back \in Seq(S) /\ Len(back) = Len(q) - i
        /\ \A j \in 1..(Len(q) - i) : back[j] = q[i + j]
    BY <1>1, SubSeqProperties
  <2> HIDE DEF front, back
  <2>4. /\ r \in Seq(S) /\ Len(r) = Len(q) - 1
        /\ \A j \in 1..(Len(q) - 1) : r[j] = IF j < i THEN q[j] ELSE q[j + 1]
    <3>1. /\ r \in Seq(S) /\ Len(r) = Len(front) + Len(back)
          /\ \A j \in 1..(Len(front) + Len(back)) :
               r[j] = IF j <= Len(front) THEN front[j] ELSE back[j - Len(front)]
      BY <2>2, <2>3, ConcatProperties
    <3> HIDE DEF r
    <3>2. Len(r) = Len(q) - 1
      BY <1>1, <2>2, <2>3, <3>1
    <3>3. ASSUME NEW j \in 1..(Len(q) - 1)
          PROVE  r[j] = IF j < i THEN q[j] ELSE q[j + 1]
      <4>1. CASE j < i
        BY <1>1, <2>2, <2>3, <3>1, <4>1
      <4>2. CASE ~(j < i)
        <5>1. /\ j \in 1..(Len(front) + Len(back)) /\ ~(j <= Len(front))
              /\ j - Len(front) \in 1..(Len(q) - i)
              /\ i + (j - Len(front)) = j + 1
          BY <1>1, <2>2, <2>3, <4>2
        <5> QED
          BY <2>3, <3>1, <4>2, <5>1
      <4> QED
        BY <4>1, <4>2
    <3> QED
      BY <3>1, <3>2, <3>3
  <2> DEFINE from(j) == IF j < i THEN j ELSE j + 1
  <2> HIDE DEF r
  <2>5. \A j \in 1..Len(r) : from(j) \in 1..Len(q) \ {i} /\ r[j] = q[from(j)]
    BY <1>1, <2>4
  <2>6. \A j, k \in 1..Len(r) : from(j) = from(k) => j = k
    BY <1>1, <2>4
  <2>7. \A j \in 1..Len(q) \ {i} : \E k \in 1..Len(r) : from(k) = j
    <3> SUFFICES ASSUME NEW j \in 1..Len(q) \ {i}
                 PROVE  \E k \in 1..Len(r) : from(k) = j
      OBVIOUS
    <3>1. CASE j < i
      BY <1>1, <2>4, <3>1
    <3>2. CASE ~(j < i)
      <4>1. j - 1 \in 1..Len(r) /\ from(j - 1) = j
        BY <1>1, <2>4, <3>2
      <4> QED
        BY <4>1
    <3> QED
      BY <3>1, <3>2
  <2> HIDE DEF from
  <2>8. \A j \in 1..Len(q) \ {i} : q[j] \in S \ {e}
    BY <1>1, <1>3, ElementOfSeq DEF Lists
  <2>9. r \in Seq(S \ {e})
    BY <2>4, <2>5, <2>8, SeqInto
  <2>10. ASSUME NEW x \in S \ {e}
         PROVE  \E k \in 1..Len(r) : r[k] = x
    <3>1. PICK j \in 1..Len(q) : q[j] = x
      BY DEF Lists
    <3>2. PICK k \in 1..Len(r) : from(k) = j
      BY <1>3, <2>7, <3>1
    <3> QED
      BY <2>5, <3>1, <3>2
  <2>11. ASSUME NEW j \in 1..Len(r), NEW k \in 1..Len(r), r[j] = r[k]
         PROVE  j = k
    <3>1. q[from(j)] = q[from(k)] /\ from(j) \in 1..Len(q) /\ from(k) \in 1..Len(q)
      BY <2>5, <2>11
    <3>2. from(j) = from(k)
      BY <3>1 DEF Lists
    <3> QED
      BY <2>6, <3>2
  <2> QED
    BY <2>1, <2>9, <2>10, <2>11 DEF Lists
<1> QED
  BY <1>2, <1>3

-----------------------------------------------------------------------------
(***************************************************************************)
(* The loop of PurgeExpired.                                               *)
(***************************************************************************)

\* f is what the loop has kept after each of its first last rounds.
IsLoop(f, last, order, present) ==
    f = [n \in 0..last |->
           IF n = 0 THEN <<>>
           ELSE IF order[n] \in present THEN Append(f[n - 1], order[n]) ELSE f[n - 1]]

\* The loop has that many rounds, for any number of them.
LEMMA LoopExists ==
  ASSUME NEW order, NEW present, NEW last \in Nat
  PROVE  \E f : IsLoop(f, last, order, present)
<1> DEFINE S == {n \in Nat : \E f : IsLoop(f, n, order, present)}
<1>1. 0 \in S
  <2> DEFINE f == [n \in 0..0 |-> <<>>]
  <2>1. IsLoop(f, 0, order, present)
    BY DEF IsLoop
  <2> QED
    BY <2>1
<1>2. ASSUME NEW n \in Nat, n \in S
      PROVE  n + 1 \in S
  <2>1. PICK f : IsLoop(f, n, order, present)
    BY <1>2
  <2> DEFINE next == IF order[n + 1] \in present THEN Append(f[n], order[n + 1]) ELSE f[n]
             g == [i \in 0..(n + 1) |-> IF i = n + 1 THEN next ELSE f[i]]
  <2>2. \A i \in 0..n : f[i] = IF i = 0 THEN <<>>
          ELSE IF order[i] \in present THEN Append(f[i - 1], order[i]) ELSE f[i - 1]
    BY <2>1 DEF IsLoop
  <2>3. g[n + 1] = next /\ \A i \in 0..n : g[i] = f[i]
    <3> HIDE DEF next
    <3> QED
      OBVIOUS
  <2>4. \A i \in 0..(n + 1) : g[i] = IF i = 0 THEN <<>>
          ELSE IF order[i] \in present THEN Append(g[i - 1], order[i]) ELSE g[i - 1]
    <3> HIDE DEF g
    <3> QED
      BY <2>2, <2>3
  <2>5. IsLoop(g, n + 1, order, present)
    BY <2>4 DEF IsLoop
  <2> QED
    BY <2>5
<1>3. Nat \subseteq S
  <2> HIDE DEF S
  <2> QED
    BY <1>1, <1>2, NatInSet
<1> QED
  BY <1>3

\* Rebuilt is where the loop ends.
LEMMA RebuiltIsLoop ==
  ASSUME NEW order, NEW present, Len(order) \in Nat
  PROVE  \E f : /\ IsLoop(f, Len(order), order, present)
                /\ Rebuilt(order, present) = f[Len(order)]
<1> DEFINE f == CHOOSE f : IsLoop(f, Len(order), order, present)
<1>1. IsLoop(f, Len(order), order, present)
  BY LoopExists
<1>2. Rebuilt(order, present) = f[Len(order)]
  BY DEF Rebuilt, IsLoop
<1> QED
  BY <1>1, <1>2

\* The rebuilt order lists the keys that are present: after n rounds the loop
\* has listed those among the first n.
LEMMA ListsRebuilt ==
  ASSUME NEW S, NEW q, Lists(q, S), NEW P, P \subseteq S
  PROVE  Lists(Rebuilt(q, P), P)
<1>1. Len(q) \in Nat /\ \A i \in 1..Len(q) : q[i] \in S
  BY LenProperties, ElementOfSeq DEF Lists
<1>2. PICK f : IsLoop(f, Len(q), q, P) /\ Rebuilt(q, P) = f[Len(q)]
  BY <1>1, RebuiltIsLoop
<1>3. /\ f[0] = <<>>
      /\ \A n \in 0..Len(q) : n # 0 => f[n] = IF q[n] \in P THEN Append(f[n - 1], q[n]) ELSE f[n - 1]
  <2> DEFINE last == Len(q)
             step(n) == IF n = 0 THEN <<>>
                        ELSE IF q[n] \in P THEN Append(f[n - 1], q[n]) ELSE f[n - 1]
  <2>1. last \in Nat /\ f = [n \in 0..last |-> step(n)]
    BY <1>1, <1>2 DEF IsLoop
  <2>2. \A n \in 0..last : f[n] = step(n)
    <3> HIDE DEF step, last
    <3> QED
      BY <2>1
  <2>3. 0 \in 0..last
    BY <2>1
  <2> QED
    BY <2>2, <2>3
<1> DEFINE seen(n) == {q[i] : i \in 1..n} \cap P
           done == {n \in Nat : n <= Len(q) => Lists(f[n], seen(n))}
<1>4. 0 \in done
  <2>1. seen(0) = {}
    OBVIOUS
  <2> QED
    BY <1>3, <2>1, ListsNothing
<1>5. ASSUME NEW n \in Nat, n \in done
      PROVE  n + 1 \in done
  <2> SUFFICES ASSUME n + 1 <= Len(q)
               PROVE  Lists(f[n + 1], seen(n + 1))
    OBVIOUS
  <2>1. Lists(f[n], seen(n)) /\ n + 1 \in 1..Len(q)
    BY <1>1, <1>5
  <2>2. f[n + 1] = IF q[n + 1] \in P THEN Append(f[n], q[n + 1]) ELSE f[n]
    BY <1>1, <1>3, <2>1
  <2>3. q[n + 1] \notin {q[i] : i \in 1..n}
    <3> SUFFICES ASSUME NEW i \in 1..n, q[n + 1] = q[i]
                 PROVE  FALSE
      OBVIOUS
    <3>1. i \in 1..Len(q) /\ i # n + 1
      BY <1>1, <2>1
    <3> QED
      BY <2>1, <3>1 DEF Lists
  <2>4. {q[i] : i \in 1..(n + 1)} = {q[i] : i \in 1..n} \cup {q[n + 1]}
    BY <2>1
  <2>5. CASE q[n + 1] \in P
    <3>1. seen(n + 1) = seen(n) \cup {q[n + 1]} /\ q[n + 1] \notin seen(n)
      BY <2>3, <2>4, <2>5
    <3> HIDE DEF seen
    <3> QED
      BY <2>1, <2>2, <2>5, <3>1, ListsAppend
  <2>6. CASE q[n + 1] \notin P
    <3>1. seen(n + 1) = seen(n)
      BY <2>4, <2>6
    <3> HIDE DEF seen
    <3> QED
      BY <2>1, <2>2, <2>6, <3>1
  <2> QED
    BY <2>5, <2>6
<1>6. Len(q) \in done
  <2> HIDE DEF done
  <2> QED
    BY <1>1, <1>4, <1>5, NatInSet
<1>7. seen(Len(q)) = P
  <2>1. S \subseteq {q[i] : i \in 1..Len(q)}
    BY DEF Lists
  <2> QED
    BY <2>1
<1>8. Lists(f[Len(q)], seen(Len(q)))
  BY <1>1, <1>6
<1> HIDE DEF seen, done
<1> QED
  BY <1>2, <1>7, <1>8

-----------------------------------------------------------------------------
(***************************************************************************)
(* The operators of Store.                                                 *)
(***************************************************************************)

\* A store whose slice lists the keys of its map.
Ordered(s) == IsStore(s) /\ Lists(s.order, Keys(s))

\* The store t holds rows of the store s and no others.
Shrinks(s, t) ==
    /\ Keys(t) \subseteq Keys(s)
    /\ \A k \in Keys(t) : t.entries[k] = s.entries[k]

\* Rows taken out of map and slice leave an ordered store.
LEMMA TakenOut ==
  ASSUME NEW s, NEW S, NEW o, Lists(o, Keys(s) \ S)
  PROVE  LET t == [entries |-> Without(s.entries, S), order |-> o]
         IN  Ordered(t) /\ Shrinks(s, t) /\ Keys(t) = Keys(s) \ S
  BY DEF Without, Restrict, Keys, Shrinks, IsStore, Ordered

\* Removing a key takes it out of both.
LEMMA RemovedIsOrdered ==
  ASSUME NEW s, Ordered(s), NEW key
  PROVE  LET t == Removed(s, key)
         IN  Ordered(t) /\ Shrinks(s, t) /\ Keys(t) = Keys(s) \ {key}
<1>1. Lists(RemoveFirst(s.order, key), Keys(s) \ {key})
  BY ListsRemove DEF Ordered
<1> QED
  BY <1>1, TakenOut DEF Removed

\* A get removes its key or nothing, and its key only when it has expired.
LEMMA GetIsOrdered ==
  ASSUME NEW s, Ordered(s), NEW key, NEW t
  PROVE  LET r == AfterGet(s, key, t)
         IN  /\ Ordered(r) /\ Shrinks(s, r)
             /\ \A k \in Keys(s) : ~Expired(s.entries[k], t) => k \in Keys(r)
<1>1. CASE key \in Keys(s) /\ ~Found(s, key, t)
  <2>1. AfterGet(s, key, t) = Removed(s, key) /\ Expired(s.entries[key], t)
    BY <1>1 DEF AfterGet, Found
  <2> QED
    BY <2>1, RemovedIsOrdered
<1>2. CASE ~(key \in Keys(s) /\ ~Found(s, key, t))
  BY <1>2 DEF AfterGet, Shrinks
<1> QED
  BY <1>1, <1>2

\* A sweep takes out the expired keys.
LEMMA PurgeIsOrdered ==
  ASSUME NEW s, Ordered(s), NEW t
  PROVE  LET r == AfterPurge(s, t)
         IN  /\ Ordered(r) /\ Shrinks(s, r)
             /\ Keys(r) = {k \in Keys(s) : ~Expired(s.entries[k], t)}
<1> DEFINE dead == {k \in Keys(s) : Expired(s.entries[k], t)}
<1>1. Keys(s) \ dead = {k \in Keys(s) : ~Expired(s.entries[k], t)}
  OBVIOUS
<1>2. CASE dead = {}
  <2>1. AfterPurge(s, t) = s
    BY <1>2 DEF AfterPurge
  <2> QED
    BY <1>1, <1>2, <2>1 DEF Shrinks
<1>3. CASE dead # {}
  <2>1. AfterPurge(s, t) = [entries |-> Without(s.entries, dead),
                            order   |-> Rebuilt(s.order, Keys(s) \ dead)]
    BY <1>3 DEF AfterPurge
  <2>2. Lists(Rebuilt(s.order, Keys(s) \ dead), Keys(s) \ dead)
    BY ListsRebuilt DEF Ordered
  <2> HIDE DEF dead
  <2>3. LET r == AfterPurge(s, t)
        IN  Ordered(r) /\ Shrinks(s, r) /\ Keys(r) = Keys(s) \ dead
    BY <2>1, <2>2, TakenOut
  <2> QED
    BY <1>1, <2>3
<1> QED
  BY <1>2, <1>3

\* The least element of a set of numbers that is known to have it.
LEMMA MinIs ==
  ASSUME NEW S, S \subseteq Nat, NEW n \in S, \A m \in S : n <= m
  PROVE  Min(S) = n
<1>1. Min(S) \in S /\ \A m \in S : Min(S) <= m
  <2>1. \E x \in S : \A y \in S : x =< y
    OBVIOUS
  <2> QED
    BY <2>1 DEF Min
<1>2. Min(S) <= n /\ n <= Min(S) /\ Min(S) \in Nat /\ n \in Nat
  BY <1>1
<1> QED
  BY <1>2

\* A full store gives up its oldest key, and no other; one with room nothing.
LEMMA EvictedIsOrdered ==
  ASSUME NEW s, Ordered(s), NEW cap \in Nat \ {0}, Cardinality(Keys(s)) <= cap
  PROVE  LET r == Evicted(s, cap)
             full == Cardinality(Keys(s)) = cap
         IN  /\ Ordered(r) /\ Shrinks(s, r)
             /\ Cardinality(Keys(r)) < cap
             /\ ~full => r = s
             /\ full => /\ Keys(r) = Keys(s) \ {Head(s.order)}
                        /\ Head(s.order) \in Keys(s)
<1>1. /\ IsFiniteSet(Keys(s)) /\ Cardinality(Keys(s)) = Len(s.order)
      /\ Len(s.order) \in Nat
  BY ListsCount DEF Ordered
<1>2. CASE Cardinality(Keys(s)) < cap
  <2>1. Evicted(s, cap) = s
    BY <1>2 DEF Evicted
  <2> QED
    BY <1>1, <1>2, <2>1 DEF Shrinks
<1>3. CASE ~(Cardinality(Keys(s)) < cap)
  <2> DEFINE oldest(n) == {s.order[i] : i \in 1..n}
             enough == {n \in 0..Len(s.order) :
                          Cardinality(Keys(s) \ oldest(n)) < cap \/ n = Len(s.order)}
             head == s.order[1]
             tail == SubSeq(s.order, 2, Len(s.order))
             r == [entries |-> Without(s.entries, {head}), order |-> tail]
  <2>1. Cardinality(Keys(s)) = cap /\ Len(s.order) = cap /\ Len(s.order) >= 1
    BY <1>1, <1>3
  <2>2. /\ head \in Keys(s) /\ Head(s.order) = head
        /\ Lists(tail, Keys(s) \ {head})
    <3>1. s.order # <<>>
      BY <2>1, EmptySeq
    <3> QED
      BY <3>1, ListsTail DEF Ordered
  <2>3. Ordered(r) /\ Shrinks(s, r) /\ Keys(r) = Keys(s) \ {head}
    BY <2>2, TakenOut
  <2>4. Cardinality(Keys(s) \ {head}) = cap - 1
    <3> HIDE DEF head
    <3>1. Cardinality(Keys(s) \ {head}) = Cardinality(Keys(s)) - 1
      BY <1>1, <2>2, FS_RemoveElement
    <3> QED
      BY <2>1, <3>1
  <2>5. oldest(0) = {} /\ oldest(1) = {head}
    <3>1. 1..0 = {} /\ 1..1 = {1}
      OBVIOUS
    <3> QED
      BY <3>1
  <2>6. 0 \notin enough /\ 1 \in enough
    <3>1. Keys(s) \ oldest(0) = Keys(s) /\ Keys(s) \ oldest(1) = Keys(s) \ {head}
      BY <2>5
    <3>2. Cardinality(Keys(s) \ oldest(0)) = cap /\ Cardinality(Keys(s) \ oldest(1)) = cap - 1
      BY <2>1, <2>4, <3>1
    <3> HIDE DEF oldest, head, tail, r
    <3> QED
      BY <2>1, <3>2
  <2>7. Min(enough) = 1
    <3>1. enough \subseteq Nat
      BY <1>1
    <3> HIDE DEF enough
    <3>2. \A n \in enough : 1 <= n
      BY <2>6, <3>1
    <3> QED
      BY <2>6, <3>1, <3>2, MinIs
  <2>8. Evicted(s, cap) = [entries |-> Without(s.entries, oldest(Min(enough))),
                           order   |-> SubSeq(s.order, Min(enough) + 1, Len(s.order))]
    BY <1>3 DEF Evicted
  <2>9. Evicted(s, cap) = r
    <3>1. 1 + 1 = 2
      OBVIOUS
    <3> HIDE DEF enough, oldest
    <3>2. Evicted(s, cap) = [entries |-> Without(s.entries, oldest(1)),
                             order   |-> SubSeq(s.order, 2, Len(s.order))]
      BY <2>7, <2>8, <3>1
    <3> QED
      BY <2>5, <3>2
  <2>10. Cardinality(Keys(r)) < cap
    <3> HIDE DEF r, head
    <3> QED
      BY <2>3, <2>4
  <2> HIDE DEF r, head, tail, enough, oldest
  <2> QED
    BY <2>1, <2>2, <2>3, <2>9, <2>10
<1> QED
  BY <1>2, <1>3

\* A set writes its row.  A known key keeps its place and costs nothing; a new
\* one goes to the end, and costs a full store its oldest key.
LEMMA SetIsOrdered ==
  ASSUME NEW s, Ordered(s), NEW key, NEW v, NEW ttl \in Int, ttl > 0, NEW t \in Int,
         NEW cap \in Nat \ {0}, Cardinality(Keys(s)) <= cap
  PROVE  LET r    == AfterSet(s, key, v, ttl, t, cap)
             row  == [value |-> v, expiresAt |-> t + ttl]
             full == key \notin Keys(s) /\ Cardinality(Keys(s)) = cap
         IN  /\ Ordered(r) /\ Cardinality(Keys(r)) <= cap
             /\ key \in Keys(r) /\ r.entries[key] = row
             /\ \A k \in Keys(r) \ {key} : r.entries[k] = s.entries[k]
             /\ ~full => Keys(r) = Keys(s) \cup {key}
             /\ full => /\ Keys(r) = (Keys(s) \ {Head(s.order)}) \cup {key}
                        /\ Head(s.order) \in Keys(s)
             /\ key \notin Keys(s) => Last(r.order) = key
<1> DEFINE r   == AfterSet(s, key, v, ttl, t, cap)
           row == [value |-> v, expiresAt |-> t + ttl]
           e   == Evicted(s, cap)
<1>1. IsFiniteSet(Keys(s)) /\ Cardinality(Keys(s)) \in Nat /\ ~(ttl <= 0)
  BY ListsCount DEF Ordered
<1>2. CASE key \in Keys(s)
  <2>1. r = [s EXCEPT !.entries[key] = row]
    BY <1>1, <1>2 DEF AfterSet
  <2>2. r = [entries |-> [s.entries EXCEPT ![key] = row], order |-> s.order]
    BY <2>1 DEF IsStore, Ordered
  <2>3. r.entries = [k \in Keys(s) |-> IF k = key THEN row ELSE s.entries[k]]
        /\ r.order = s.order
    BY <2>2 DEF IsStore, Ordered
  <2> HIDE DEF r, row
  <2>4. Keys(r) = Keys(s) /\ Keys(s) \cup {key} = Keys(s)
    BY <1>2, <2>3 DEF Keys
  <2>5. IsStore(r)
    BY <2>2, <2>3, <2>4 DEF IsStore
  <2>6. Ordered(r)
    BY <2>3, <2>4, <2>5 DEF Ordered
  <2> QED
    BY <1>2, <2>3, <2>4, <2>6 DEF r, row
<1>3. CASE key \notin Keys(s)
  <2>1. /\ Ordered(e) /\ Shrinks(s, e) /\ Cardinality(Keys(e)) < cap
        /\ Cardinality(Keys(s)) # cap => e = s
        /\ Cardinality(Keys(s)) = cap => /\ Keys(e) = Keys(s) \ {Head(s.order)}
                                         /\ Head(s.order) \in Keys(s)
    BY EvictedIsOrdered
  <2>2. r = [entries |-> [k \in {key} \cup Keys(e) |-> IF k = key THEN row ELSE e.entries[k]],
             order   |-> Append(e.order, key)]
    BY <1>1, <1>3 DEF AfterSet
  <2>3. /\ r.entries = [k \in {key} \cup Keys(e) |-> IF k = key THEN row ELSE e.entries[k]]
        /\ r.order = Append(e.order, key)
    BY <2>2
  <2> HIDE DEF r, row, e
  <2>4. IsStore(r) /\ Keys(r) = Keys(e) \cup {key} /\ key \notin Keys(e)
    BY <1>3, <2>1, <2>2, <2>3 DEF IsStore, Keys, Shrinks
  <2>5. Ordered(r)
    BY <2>1, <2>3, <2>4, ListsAppend DEF Ordered
  <2>6. IsFiniteSet(Keys(e)) /\ Cardinality(Keys(e)) \in Nat
    BY <2>1, ListsCount DEF Ordered
  <2>7. Cardinality(Keys(r)) <= cap
    <3>1. Cardinality(Keys(r)) = Cardinality(Keys(e)) + 1
      BY <2>4, <2>6, FS_AddElement
    <3> QED
      BY <2>1, <2>6, <3>1
  <2>8. Last(r.order) = key
    <3>1. e.order \in Seq(Keys(e) \cup {key}) /\ Len(e.order) \in Nat
      BY <2>1, SeqMonotonic, LenProperties DEF Ordered, Lists
    <3>2. Len(r.order) = Len(e.order) + 1 /\ r.order[Len(e.order) + 1] = key
      BY <2>3, <3>1, AppendProperties
    <3> QED
      BY <3>2 DEF Last
  <2>9. /\ key \in Keys(r) /\ r.entries[key] = row
        /\ \A k \in Keys(r) \ {key} : r.entries[k] = s.entries[k]
    BY <2>1, <2>3, <2>4 DEF Shrinks
  <2> QED
    BY <1>3, <2>1, <2>4, <2>5, <2>7, <2>8, <2>9 DEF r, row
<1> QED
  BY <1>2, <1>3

-----------------------------------------------------------------------------
(***************************************************************************)
(* The invariant.                                                          *)
(***************************************************************************)

\* What StoreInv says of the store.
Held(s) ==
    /\ Ordered(s)
    /\ Keys(s) \subseteq MapKeys
    /\ \A k \in Keys(s) : s.entries[k] \in [value : Values, expiresAt : Int]
    /\ Cardinality(Keys(s)) <= MaxEntries

\* What the run checks of a store says just that.
LEMMA HeldByProperties ==
  ASSUME NEW s, Keys(s) \subseteq MapKeys
  PROVE  /\ IsStore(s) /\ s.order \in Seq(MapKeys) /\ Range(s.order) = Keys(s)
              /\ IsInjective(s.order) => Ordered(s)
         /\ Held(s) => /\ IsStore(s) /\ s.order \in Seq(MapKeys)
                       /\ Len(s.order) <= MaxEntries
                       /\ Range(s.order) = Keys(s) /\ IsInjective(s.order)
<1>1. ASSUME IsStore(s), s.order \in Seq(MapKeys), Range(s.order) = Keys(s),
             IsInjective(s.order)
      PROVE  Ordered(s)
  BY <1>1, ListsByRange DEF Ordered
<1>2. ASSUME Held(s)
      PROVE  /\ IsStore(s) /\ s.order \in Seq(MapKeys)
             /\ Len(s.order) <= MaxEntries
             /\ Range(s.order) = Keys(s) /\ IsInjective(s.order)
  <2>1. IsStore(s) /\ Lists(s.order, Keys(s)) /\ s.order \in Seq(Keys(s))
    BY <1>2 DEF Held, Ordered, Lists
  <2>2. s.order \in Seq(MapKeys)
    BY <2>1, SeqMonotonic
  <2>3. Len(s.order) <= MaxEntries
    BY <1>2, <2>1, ListsCount DEF Held
  <2> QED
    BY <2>1, <2>2, <2>3, ListsByRange
<1> QED
  BY <1>1, <1>2

\* StoreInv by the store it speaks of.
LEMMA InvIsHeld ==
  /\ StoreInv <=> now \in 0..MaxTime /\ answer \in Values \cup {Absent} /\ Held(store)
  /\ StoreInv' <=> now' \in 0..MaxTime /\ answer' \in Values \cup {Absent} /\ Held(store')
  BY HeldByProperties DEF StoreInv, TypeOK, OrderMatchesMap, Held, Ordered

\* Taking keys out keeps the rest as it was.
LEMMA ShrunkIsHeld ==
  ASSUME NEW s, NEW t, Held(s), Ordered(t), Shrinks(s, t)
  PROVE  Held(t)
<1>1. /\ IsFiniteSet(Keys(s)) /\ IsFiniteSet(Keys(t))
      /\ Cardinality(Keys(s)) \in Nat /\ Cardinality(Keys(t)) \in Nat
  BY ListsCount DEF Held, Ordered
<1>2. Cardinality(Keys(t)) <= Cardinality(Keys(s))
  BY <1>1, FS_Subset DEF Shrinks
<1> QED
  BY <1>1, <1>2, StoreAssumption DEF Held, Shrinks

\* Every step keeps the slice and the map together.
LEMMA NextHeld == StoreInv /\ [Next]_vars => StoreInv'
<1> SUFFICES ASSUME StoreInv, [Next]_vars
             PROVE  StoreInv'
  OBVIOUS
<1>1. now \in 0..MaxTime /\ answer \in Values \cup {Absent} /\ Held(store) /\ Ordered(store)
  BY InvIsHeld DEF Held
<1>2. ASSUME NEW k \in MapKeys, Get(k)
      PROVE  StoreInv'
  <2>1. Ordered(store') /\ Shrinks(store, store')
    BY <1>1, <1>2, GetIsOrdered DEF Get
  <2>2. answer' \in Values \cup {Absent}
    BY <1>1, <1>2 DEF Get, Got, Found, Held
  <2> QED
    BY <1>1, <1>2, <2>1, <2>2, ShrunkIsHeld, InvIsHeld DEF Get
<1>3. ASSUME NEW k \in MapKeys, Delete(k)
      PROVE  StoreInv'
  <2>1. Ordered(store') /\ Shrinks(store, store')
    BY <1>1, <1>3, RemovedIsOrdered DEF Delete, AfterDelete
  <2> QED
    BY <1>1, <1>3, <2>1, ShrunkIsHeld, InvIsHeld DEF Delete
<1>4. ASSUME NEW k \in MapKeys, NEW v \in Values, NEW ttl \in Ttls, Set(k, v, ttl)
      PROVE  StoreInv'
  <2>1. CASE ttl <= 0
    <3>1. store' = store
      BY <1>4, <2>1 DEF Set, AfterSet
    <3> QED
      BY <1>1, <1>4, <3>1, InvIsHeld DEF Set
  <2>2. CASE ~(ttl <= 0)
    <3> DEFINE row == [value |-> v, expiresAt |-> now + ttl]
    <3>1. ttl \in Int /\ ttl > 0 /\ now \in Int /\ MaxEntries \in Nat \ {0}
      BY <1>1, <2>2, StoreAssumption
    <3>2. /\ Ordered(store') /\ Cardinality(Keys(store')) <= MaxEntries
          /\ Keys(store') \subseteq Keys(store) \cup {k}
          /\ store'.entries[k] = row
          /\ \A j \in Keys(store') \ {k} : store'.entries[j] = store.entries[j]
      <4>1. store' = AfterSet(store, k, v, ttl, now, MaxEntries)
        BY <1>4 DEF Set
      <4> HIDE DEF row
      <4> QED
        BY <1>1, <3>1, <4>1, SetIsOrdered DEF Held, row
    <3>3. row \in [value : Values, expiresAt : Int]
      BY <3>1
    <3> HIDE DEF row
    <3>4. Held(store')
      BY <1>1, <3>2, <3>3 DEF Held
    <3> QED
      BY <1>1, <1>4, <3>4, InvIsHeld DEF Set
  <2> QED
    BY <2>1, <2>2
<1>5. CASE PurgeExpired
  <2>1. Ordered(store') /\ Shrinks(store, store')
    BY <1>1, <1>5, PurgeIsOrdered DEF PurgeExpired
  <2> QED
    BY <1>1, <1>5, <2>1, ShrunkIsHeld, InvIsHeld DEF PurgeExpired
<1>6. CASE Tick \/ UNCHANGED vars
  <2>1. store' = store /\ answer' = answer /\ now' \in 0..MaxTime
    BY <1>1, <1>6, StoreAssumption DEF Tick, vars
  <2> QED
    BY <1>1, <2>1, InvIsHeld
<1> QED
  BY <1>2, <1>3, <1>4, <1>5, <1>6 DEF Next

\* The invariant holds of the empty store.
LEMMA InitHeld == Init => StoreInv
<1> SUFFICES ASSUME Init
             PROVE  StoreInv
  OBVIOUS
<1>1. /\ Keys(store) = {} /\ store.order = <<>> /\ IsStore(store)
  BY DEF Init, EmptyStore, Keys, IsStore
<1>2. Held(store)
  BY <1>1, ListsNothing, FS_EmptySet, StoreAssumption DEF Held, Ordered
<1> QED
  BY <1>2, InvIsHeld, StoreAssumption DEF Init

\* The invariant holds throughout.
THEOREM Invariance == Spec => []StoreInv
<1> QED
  BY InitHeld, NextHeld, PTL DEF Spec

\* The cap, the clock and the rows keep their types.
THEOREM TypeCorrect == Spec => []TypeOK
<1>1. StoreInv => TypeOK
  BY DEF StoreInv
<1> QED
  BY <1>1, Invariance, PTL

\* The slice lists the keys of the map, each once, and the cap holds, whatever
\* mixture of lazy expiry, sweep, deletion and eviction ran.
THEOREM OrderHolds == Spec => []OrderMatchesMap
<1>1. StoreInv => OrderMatchesMap
  BY DEF StoreInv
<1> QED
  BY <1>1, Invariance, PTL

-----------------------------------------------------------------------------
(***************************************************************************)
(* What becomes of the live entries.                                       *)
(***************************************************************************)

\* What each method but Set does to the live entries: a Get, a sweep and the
\* clock take none that is live afterwards.
LEMMA LiveStays ==
  ASSUME StoreInv,
         PurgeExpired \/ Tick \/ UNCHANGED vars \/ \E k \in MapKeys : Get(k)
  PROVE  /\ Shrinks(store, store')
         /\ \A k \in Live(store, now') : k \in Keys(store')
<1>1. now \in 0..MaxTime /\ Held(store) /\ Ordered(store)
  BY InvIsHeld DEF Held
<1>2. CASE PurgeExpired
  <2>1. /\ Shrinks(store, store') /\ now' = now
        /\ Keys(store') = {k \in Keys(store) : ~Expired(store.entries[k], now)}
    BY <1>1, <1>2, PurgeIsOrdered DEF PurgeExpired
  <2> QED
    BY <2>1 DEF Live
<1>3. CASE Tick \/ UNCHANGED vars
  <2>1. store' = store
    BY <1>3 DEF Tick, vars
  <2> QED
    BY <2>1 DEF Live, Shrinks
<1>4. ASSUME NEW k \in MapKeys, Get(k)
      PROVE  /\ Shrinks(store, store')
             /\ \A j \in Live(store, now') : j \in Keys(store')
  <2>1. /\ Shrinks(store, store') /\ now' = now
        /\ \A j \in Keys(store) : ~Expired(store.entries[j], now) => j \in Keys(store')
    BY <1>1, <1>4, GetIsOrdered DEF Get
  <2> QED
    BY <2>1 DEF Live
<1> QED
  BY <1>2, <1>3, <1>4

\* What Set does, for a key that lives.
LEMMA SetStep ==
  ASSUME StoreInv, NEW key \in MapKeys, NEW v \in Values, NEW ttl \in Ttls, Set(key, v, ttl)
  PROVE  LET full == key \notin Keys(store) /\ Cardinality(Keys(store)) = MaxEntries
         IN  /\ ttl <= 0 => store' = store
             /\ ~(ttl <= 0) =>
                  /\ key \in Keys(store')
                  /\ store'.entries[key] = [value |-> v, expiresAt |-> now + ttl]
                  /\ \A k \in Keys(store') \ {key} : store'.entries[k] = store.entries[k]
                  /\ ~full => Keys(store') = Keys(store) \cup {key}
                  /\ full => Keys(store') = (Keys(store) \ {Head(store.order)}) \cup {key}
                  /\ key \notin Keys(store) => Last(store'.order) = key
<1>1. now \in Int /\ Held(store) /\ Ordered(store) /\ ttl \in Int /\ MaxEntries \in Nat \ {0}
      /\ Cardinality(Keys(store)) <= MaxEntries
  BY InvIsHeld, StoreAssumption DEF Held
<1>2. store' = AfterSet(store, key, v, ttl, now, MaxEntries)
  BY DEF Set
<1>3. CASE ttl <= 0
  BY <1>2, <1>3 DEF AfterSet
<1>4. CASE ~(ttl <= 0)
  <2> DEFINE row == [value |-> v, expiresAt |-> now + ttl]
             oldest == Head(store.order)
  <2>1. ttl > 0
    BY <1>1, <1>4
  <2>2. /\ key \in Keys(store') /\ store'.entries[key] = row
        /\ \A k \in Keys(store') \ {key} : store'.entries[k] = store.entries[k]
        /\ ~(key \notin Keys(store) /\ Cardinality(Keys(store)) = MaxEntries)
             => Keys(store') = Keys(store) \cup {key}
        /\ key \notin Keys(store) /\ Cardinality(Keys(store)) = MaxEntries
             => Keys(store') = (Keys(store) \ {oldest}) \cup {key}
        /\ key \notin Keys(store) => Last(store'.order) = key
    <3> HIDE DEF row, oldest
    <3> QED
      BY <1>1, <1>2, <2>1, SetIsOrdered DEF row, oldest
  <2> QED
    BY <1>4, <2>2
<1> QED
  BY <1>3, <1>4

\* A live entry goes only by its deletion, or as the oldest of a full store that
\* takes in a new key.
THEOREM OldestGoes == Spec => LosesOnlyTheOldest
<1> DEFINE Goes(k) == \/ Delete(k)
                      \/ /\ Cardinality(Keys(store)) = MaxEntries
                         /\ Head(store.order) = k
                         /\ Last(store'.order) \notin Keys(store)
           A == \A k \in Live(store, now') \ Keys(store') : Goes(k)
<1>1. ASSUME StoreInv, [Next]_vars
      PROVE  A
  <2> SUFFICES ASSUME NEW k \in Live(store, now') \ Keys(store')
               PROVE  Goes(k)
    OBVIOUS
  <2>0. k \in Keys(store)
    BY DEF Live
  <2>1. CASE PurgeExpired \/ Tick \/ UNCHANGED vars \/ \E j \in MapKeys : Get(j)
    BY <1>1, <2>1, LiveStays
  <2>2. ASSUME NEW j \in MapKeys, Delete(j)
        PROVE  Goes(k)
    <3>1. Keys(store') = Keys(store) \ {j}
      BY <1>1, <2>2, InvIsHeld, RemovedIsOrdered DEF Delete, AfterDelete, Held
    <3> QED
      BY <2>0, <2>2, <3>1
  <2>3. ASSUME NEW key \in MapKeys, NEW v \in Values, NEW ttl \in Ttls, Set(key, v, ttl)
        PROVE  Goes(k)
    <3>1. ~(ttl <= 0)
      BY <1>1, <2>0, <2>3, SetStep
    <3>2. key \notin Keys(store) /\ Cardinality(Keys(store)) = MaxEntries
      BY <1>1, <2>0, <2>3, <3>1, SetStep
    <3>3. k = Head(store.order)
      BY <1>1, <2>0, <2>3, <3>1, <3>2, SetStep
    <3>4. Last(store'.order) = key
      BY <1>1, <2>3, <3>1, <3>2, SetStep
    <3> QED
      BY <3>2, <3>3, <3>4
  <2> QED
    BY <1>1, <2>1, <2>2, <2>3 DEF Next
<1>2. StoreInv /\ [Next]_vars => [A]_vars
  BY <1>1
<1> QED
  BY <1>2, Invariance, PTL DEF Spec, LosesOnlyTheOldest

-----------------------------------------------------------------------------
(***************************************************************************)
(* The refinement of TtlMap.                                               *)
(***************************************************************************)

\* The entries a Get would find at time t.
LiveMap(s, t) == Restrict(s.entries, Live(s, t))

\* The map of live entries has the live keys, with the entries of the store.
LEMMA LiveMapIs ==
  ASSUME NEW s, NEW t
  PROVE  /\ DOMAIN LiveMap(s, t) = Live(s, t)
         /\ LiveMap(s, t) = [k \in Live(s, t) |-> s.entries[k]]
         /\ \A k \in Live(s, t) : LiveMap(s, t)[k] = s.entries[k]
  BY DEF LiveMap, Restrict

\* Two stores with the same live entries are the same map.
LEMMA SameLive ==
  ASSUME NEW s, NEW t, NEW u, NEW w, Live(s, u) = Live(t, w),
         \A k \in Live(s, u) : s.entries[k] = t.entries[k]
  PROVE  LiveMap(s, u) = LiveMap(t, w)
<1>1. [k \in Live(s, u) |-> s.entries[k]] = [k \in Live(t, w) |-> t.entries[k]]
  OBVIOUS
<1> QED
  BY <1>1, LiveMapIs

\* A get finds what is live, and what it throws out was not.
LEMMA GetRefines ==
  ASSUME StoreInv, NEW k \in MapKeys, Get(k)
  PROVE  Map!Find(k)
<1>1. now' = now /\ store' = AfterGet(store, k, now) /\ answer' = Got(store, k, now)
  BY DEF Get
<1>2. Shrinks(store, store') /\ \A j \in Live(store, now') : j \in Keys(store')
  BY LiveStays
<1>3. LiveMap(store', now') = LiveMap(store, now)
  <2>1. Live(store', now') = Live(store, now)
    BY <1>1, <1>2 DEF Live, Shrinks
  <2>2. \A j \in Live(store', now') : store'.entries[j] = store.entries[j]
    BY <1>2 DEF Live, Shrinks
  <2> QED
    BY <2>1, <2>2, SameLive
<1>4. answer' = IF k \in DOMAIN LiveMap(store, now) THEN LiveMap(store, now)[k].value ELSE Absent
  <2> DEFINE m == LiveMap(store, now)
  <2>1. DOMAIN m = Live(store, now) /\ \A j \in Live(store, now) : m[j] = store.entries[j]
    BY LiveMapIs
  <2>2. k \in Live(store, now) <=> Found(store, k, now)
    BY DEF Live, Found
  <2> HIDE DEF m
  <2>3. answer' = IF k \in DOMAIN m THEN m[k].value ELSE Absent
    BY <1>1, <2>1, <2>2 DEF Got
  <2> QED
    BY <2>3 DEF m
<1> QED
  BY <1>1, <1>3, <1>4 DEF Map!Find, LiveMap

\* A deletion takes the entry out, live or not.
LEMMA DeleteRefines ==
  ASSUME StoreInv, NEW k \in MapKeys, Delete(k)
  PROVE  Map!Drop(k)
<1> DEFINE before == LiveMap(store, now)
           after  == LiveMap(store', now')
<1>1. /\ now' = now /\ answer' = answer
      /\ Shrinks(store, store') /\ Keys(store') = Keys(store) \ {k}
  <2>1. Ordered(store)
    BY InvIsHeld DEF Held
  <2> QED
    BY <2>1, RemovedIsOrdered DEF Delete, AfterDelete
<1>2. Live(store', now') = Live(store, now) \ {k}
  BY <1>1 DEF Live, Shrinks
<1>3. after = [j \in Live(store, now) \ {k} |-> store'.entries[j]]
  BY <1>2, LiveMapIs
<1>4. \A j \in Live(store, now) \ {k} : store'.entries[j] = before[j]
  <2>1. \A j \in Live(store, now) : before[j] = store.entries[j]
    BY LiveMapIs
  <2> HIDE DEF before
  <2>2. \A j \in Live(store, now) \ {k} : j \in Keys(store')
    BY <1>1 DEF Live
  <2> QED
    BY <1>1, <2>1, <2>2 DEF Shrinks
<1>5. after = [j \in DOMAIN before \ {k} |-> before[j]]
  <2>1. DOMAIN before = Live(store, now)
    BY LiveMapIs
  <2> HIDE DEF before, after
  <2> QED
    BY <1>3, <1>4, <2>1
<1> QED
  BY <1>1, <1>5 DEF Map!Drop, Map!Sub, LiveMap

\* A set puts its entry and costs the map at most one other.
LEMMA SetRefines ==
  ASSUME StoreInv, NEW key \in MapKeys, NEW v \in Values, NEW ttl \in Ttls, Set(key, v, ttl)
  PROVE  Map!Put(key, v, ttl) \/ UNCHANGED Map!mapVars
<1> DEFINE before == LiveMap(store, now)
           after  == LiveMap(store', now')
           row    == [value |-> v, expiresAt |-> now + ttl]
           oldest == Head(store.order)
           full   == key \notin Keys(store) /\ Cardinality(Keys(store)) = MaxEntries
           lost   == IF full THEN {oldest} \cap Live(store, now) ELSE {}
<1>0. /\ now' = now /\ answer' = answer /\ now \in Int /\ ttl \in Int
      /\ Ordered(store)
  BY InvIsHeld, StoreAssumption DEF Set, Held
<1>1. CASE ttl <= 0
  <2>1. store' = store
    BY <1>1, SetStep
  <2> QED
    BY <1>0, <2>1 DEF Map!mapVars, Live, Keys
<1>2. CASE ~(ttl <= 0)
  <2>1. /\ key \in Keys(store') /\ store'.entries[key] = row
        /\ \A k \in Keys(store') \ {key} : store'.entries[k] = store.entries[k]
        /\ ~full => Keys(store') = Keys(store) \cup {key}
        /\ full => Keys(store') = (Keys(store) \ {oldest}) \cup {key}
    BY <1>2, SetStep
  <2>2. ttl > 0 /\ ~Expired(row, now)
    <3>1. row.expiresAt = now + ttl
      OBVIOUS
    <3> HIDE DEF row
    <3> QED
      BY <1>0, <1>2, <3>1 DEF Expired
  <2> HIDE DEF row, oldest, before, after
  <2>3. Live(store', now') = (Live(store, now) \ lost) \cup {key}
    <3>1. ~Expired(store'.entries[key], now)
      BY <2>1, <2>2
    <3>2. full => oldest # key \/ oldest \notin Keys(store)
      OBVIOUS
    <3> QED
      BY <1>0, <2>1, <3>1, <3>2 DEF Live
  <2>4. /\ DOMAIN before = Live(store, now)
        /\ \A k \in Live(store, now) : before[k] = store.entries[k]
        /\ after = [k \in Live(store', now') |-> store'.entries[k]]
    BY LiveMapIs DEF before, after
  <2>5. after = [j \in (DOMAIN before \ lost) \cup {key} |-> IF j = key THEN row ELSE before[j]]
    <3>1. \A j \in (Live(store, now) \ lost) \cup {key} :
            store'.entries[j] = IF j = key THEN row ELSE before[j]
      BY <2>1, <2>3, <2>4 DEF Live
    <3> HIDE DEF lost
    <3> QED
      BY <2>3, <2>4, <3>1
  <2>6. /\ lost \in SUBSET (DOMAIN before \ {key})
        /\ key \in DOMAIN before => lost = {}
    BY <2>4 DEF Live
  <2>7. Cardinality(lost) <= 1
    <3>1. lost = {} \/ lost = {oldest}
      OBVIOUS
    <3> HIDE DEF lost
    <3> QED
      BY <3>1, FS_EmptySet, FS_Singleton
  <2> HIDE DEF lost
  <2>8. Map!Put(key, v, ttl)
    BY <1>0, <2>2, <2>5, <2>6, <2>7 DEF Map!Put, Map!Cardinality, Cardinality, before, after, row, LiveMap
  <2> QED
    BY <2>8
<1> QED
  BY <1>1, <1>2

\* Time takes the entries that end.
LEMMA TickRefines ==
  ASSUME StoreInv, Tick
  PROVE  Map!Pass
<1> DEFINE before == LiveMap(store, now)
           after  == LiveMap(store', now')
<1>1. /\ now' = now + 1 /\ answer' = answer /\ store' = store /\ now \in Int
      /\ \A k \in Keys(store) : store.entries[k].expiresAt \in Int
  BY InvIsHeld, StoreAssumption DEF Tick, Held
<1>2. /\ DOMAIN before = Live(store, now)
      /\ \A k \in Live(store, now) : before[k] = store.entries[k]
      /\ after = [k \in Live(store, now + 1) |-> store.entries[k]]
  BY <1>1, LiveMapIs
<1>3. Live(store, now + 1) = {k \in DOMAIN before : before[k].expiresAt > now + 1}
  <2>1. \A k \in Keys(store) : /\ ~Expired(store.entries[k], now + 1)
                                    <=> store.entries[k].expiresAt > now + 1
                               /\ ~Expired(store.entries[k], now + 1)
                                    => ~Expired(store.entries[k], now)
    BY <1>1 DEF Expired
  <2> HIDE DEF before, after
  <2> QED
    BY <1>2, <2>1 DEF Live
<1>4. after = [k \in {k \in DOMAIN before : before[k].expiresAt > now + 1} |-> before[k]]
  <2>1. \A k \in Live(store, now + 1) : before[k] = store.entries[k]
    <3>1. Live(store, now + 1) \subseteq DOMAIN before
      BY <1>3
    <3> QED
      BY <1>2, <3>1
  <2> HIDE DEF before, after
  <2> QED
    BY <1>2, <1>3, <2>1
<1> QED
  BY <1>1, <1>4 DEF Map!Pass, Map!Sub, LiveMap

\* The store implements the map of live entries: an expired entry still in
\* memory and the sweep that takes it out can not be noticed.
THEOREM Refines == Spec => ImplementsTtlMap
<1>1. Init => Map!MapInit
  <2> SUFFICES ASSUME Init
               PROVE  Map!MapInit
    OBVIOUS
  <2>1. Live(store, now) = {}
    BY DEF Init, EmptyStore, Live, Keys
  <2>2. Restrict(store.entries, Live(store, now)) = <<>>
    BY <2>1 DEF Restrict
  <2> QED
    BY <2>2 DEF Init, Map!MapInit
<1>2. StoreInv /\ [Next]_vars => [Map!MapNext]_(Map!mapVars)
  <2> SUFFICES ASSUME StoreInv, [Next]_vars
               PROVE  Map!MapNext \/ UNCHANGED Map!mapVars
    OBVIOUS
  <2>1. ASSUME NEW k \in MapKeys, Get(k) \/ Delete(k)
        PROVE  Map!MapNext
    BY <2>1, GetRefines, DeleteRefines DEF Map!MapNext
  <2>2. ASSUME NEW k \in MapKeys, NEW v \in Values, NEW ttl \in Ttls, Set(k, v, ttl)
        PROVE  Map!MapNext \/ UNCHANGED Map!mapVars
    BY <2>2, SetRefines DEF Map!MapNext
  <2>3. CASE Tick
    BY <2>3, TickRefines DEF Map!MapNext
  <2>4. CASE PurgeExpired
    <3>1. /\ now' = now /\ answer' = answer
          /\ Shrinks(store, store') /\ \A k \in Live(store, now') : k \in Keys(store')
      BY <2>4, LiveStays DEF PurgeExpired
    <3>2. Live(store', now') = Live(store, now)
      BY <3>1 DEF Live, Shrinks
    <3>3. LiveMap(store', now') = LiveMap(store, now)
      BY <3>1, <3>2, SameLive DEF Live, Shrinks
    <3> QED
      BY <3>1, <3>3 DEF LiveMap, Map!mapVars
  <2>5. CASE UNCHANGED vars
    BY <2>5 DEF vars, Map!mapVars, Live, Keys
  <2> QED
    BY <2>1, <2>2, <2>3, <2>4, <2>5 DEF Next
<1> QED
  BY <1>1, <1>2, Invariance, PTL DEF Spec, ImplementsTtlMap, Map!MapSpec
=============================================================================
