--------------------------- MODULE FtcCache_proof ---------------------------
(***************************************************************************)
(* Proofs about the sector cache of FATFTC.LIB (FtcCache): type            *)
(* correctness, that no sector is in the cache twice, that the LRU list is *)
(* complete, that a busy entry is in the list of its device, and, for      *)
(* drivers that do not fail, that page buffers are released, for any       *)
(* number of devices, entries, page buffers and sectors.                   *)
(***************************************************************************)
EXTENDS FtcCache, WellFoundedInduction, FiniteSetTheorems, SequenceTheorems, TLAPS

-----------------------------------------------------------------------------
(* Numbers and finite sets *)

\* Every set of numbers has a smallest one.
LEMMA LeastNat ==
  ASSUME NEW T \in SUBSET Nat, T # {}
  PROVE  \E m \in T : \A k \in T : m <= k
<1> DEFINE R == OpToRel(<, Nat)
<1>1. \E x \in T : \A y \in T : ~ (<<y, x>> \in R)
  BY NatLessThanWellFounded, WFMin
<1>2. R = {ss \in Nat \X Nat : ss[1] < ss[2]}
  BY Zenon DEF OpToRel
<1> HIDE DEF R
<1>3. \A x, y \in Nat : <<y, x>> \notin R => x <= y
  BY <1>2
<1> QED BY <1>1, <1>3

LEMMA MinIn ==
  ASSUME NEW T \in SUBSET Nat, T # {}
  PROVE  Min(T) \in T
<1>1. \E m \in T : \A k \in T : m <= k
  BY LeastNat
<1>2. \E x \in T : \A y \in T : x <= y
  BY <1>1
<1> QED BY <1>2, Zenon DEF Min

\* The numbers of one page.
LEMMA Quotient ==
  ASSUME NEW w \in Nat \ {0}, NEW s \in Nat, NEW q \in Nat
  PROVE  s \div w = q <=> s \in q * w .. q * w + w - 1
<1>1. s \div w \in Nat /\ (s \div w) * w <= s /\ s < (s \div w) * w + w
  BY Z3
<1> DEFINE p == s \div w
<1>2. p \in Nat /\ p * w <= s /\ s < p * w + w
  BY <1>1
<1> HIDE DEF p
<1>3. ASSUME p < q PROVE s < q * w
  <2>1. q = p + 1 + (q - p - 1) /\ q - p - 1 \in Nat
    BY <1>2, <1>3
  <2> QED BY <2>1, <1>2, Z3
<1>4. ASSUME q < p PROVE q * w + w <= s
  <2>1. p = q + 1 + (p - q - 1) /\ p - q - 1 \in Nat
    BY <1>2, <1>4
  <2> QED BY <2>1, <1>2, Z3
<1>5. p = q <=> s \in q * w .. q * w + w - 1
  BY <1>2, <1>3, <1>4, Z3
<1> QED BY <1>5 DEF p

-----------------------------------------------------------------------------
(* Ordered *)

Rank(S, key, x) == Cardinality({y \in S : key[y] < key[x]})

\* The members of a finite set have the ranks 0, 1, ..., each one once.
LEMMA Ranks ==
  ASSUME NEW U, NEW key \in [U -> Int], NEW S \in SUBSET U, IsFiniteSet(S),
         \A x, y \in S : key[x] = key[y] => x = y
  PROVE  \A n \in 1 .. Cardinality(S) :
            \E x \in S : /\ Rank(S, key, x) = n - 1
                         /\ \A y \in S : Rank(S, key, y) = n - 1 => y = x
<1> DEFINE below(x) == {y \in S : key[y] < key[x]}
           r == [x \in S |-> Rank(S, key, x)]
           c == Cardinality(S)
<1>1. c \in Nat
  BY FS_CardinalityType
<1>2. \A x \in S : IsFiniteSet(below(x)) /\ Cardinality(below(x)) \in Nat
  BY FS_Subset, FS_CardinalityType
<1>3. ASSUME NEW x \in S PROVE Cardinality(below(x)) \in 0 .. c - 1
  <2>1. below(x) \in SUBSET (S \ {x})
    OBVIOUS
  <2>2. IsFiniteSet(S \ {x}) /\ Cardinality(S \ {x}) = c - 1
    BY FS_RemoveElement
  <2>3. Cardinality(below(x)) <= c - 1
    <3> HIDE DEF below
    <3> QED BY <2>1, <2>2, FS_Subset
  <2> HIDE DEF below, c
  <2> QED BY <1>1, <1>2, <2>3
<1>4. ASSUME NEW x \in S, NEW y \in S, key[x] < key[y]
      PROVE  Cardinality(below(x)) < Cardinality(below(y))
  <2>1. below(x) \cup {x} \in SUBSET below(y) /\ x \notin below(x)
    <3>1. key[x] \in Int /\ key[y] \in Int /\ \A z \in S : key[z] \in Int
      OBVIOUS
    <3> QED BY <1>4, <3>1
  <2>2. Cardinality(below(x) \cup {x}) = Cardinality(below(x)) + 1
    <3> HIDE DEF below
    <3> QED BY <1>2, <2>1, FS_AddElement
  <2>3. Cardinality(below(x) \cup {x}) <= Cardinality(below(y))
    <3> HIDE DEF below
    <3> QED BY <1>2, <2>1, FS_Subset
  <2> QED BY <1>2, <2>2, <2>3
<1>5. \A x \in S : r[x] = Cardinality(below(x))
  BY DEF Rank
<1> HIDE DEF below
<1>6. \A x, y \in S : r[x] = r[y] => x = y
  <2> SUFFICES ASSUME NEW x \in S, NEW y \in S, r[x] = r[y], x # y PROVE FALSE
    OBVIOUS
  <2>1. key[x] \in Int /\ key[y] \in Int /\ key[x] # key[y]
    OBVIOUS
  <2>2. key[x] < key[y] \/ key[y] < key[x]
    BY <2>1
  <2> QED BY <1>2, <1>4, <1>5, <2>2
<1>7. r \in Injection(S, 0 .. c - 1)
  <2>1. r \in [S -> 0 .. c - 1]
    BY <1>3, <1>5
  <2> QED BY <1>6, <2>1 DEF Injection, IsInjective
<1>8. r \in Surjection(S, 0 .. c - 1)
  <2>1. IsFiniteSet(0 .. c - 1) /\ Cardinality(0 .. c - 1) = c
    BY <1>1, FS_Interval
  <2> QED BY <1>7, <2>1, FS_Injection
<1>9. \A n \in 1 .. c : \E x \in S : r[x] = n - 1
  <2> TAKE n \in 1 .. c
  <2>1. n - 1 \in 0 .. c - 1
    BY <1>1
  <2> QED BY <1>8, <2>1 DEF Surjection
<1>10. \A x \in S : r[x] = Rank(S, key, x)
  OBVIOUS
<1> HIDE DEF r
<1> QED BY <1>6, <1>9, <1>10

\* Ordered(S, key) has every member of S once, in the order of the keys.
LEMMA OrderedFacts ==
  ASSUME NEW U, NEW key \in [U -> Int], NEW S \in SUBSET U, IsFiniteSet(S),
         \A x, y \in S : key[x] = key[y] => x = y
  PROVE  /\ Ordered(S, key) \in Seq(S)
         /\ Len(Ordered(S, key)) = Cardinality(S)
         /\ DOMAIN Ordered(S, key) = 1 .. Cardinality(S)
         /\ \A x \in S : \E n \in 1 .. Cardinality(S) : Ordered(S, key)[n] = x
         /\ \A n, m \in 1 .. Cardinality(S) : Ordered(S, key)[n] = Ordered(S, key)[m] => n = m
<1> DEFINE c == Cardinality(S)
           o == Ordered(S, key)
<1>1. c \in Nat
  BY FS_CardinalityType
<1>2. \A n \in 1 .. c : \E x \in S : /\ Rank(S, key, x) = n - 1
                                     /\ \A y \in S : Rank(S, key, y) = n - 1 => y = x
  BY Ranks
<1>3. o = [n \in 1 .. c |-> CHOOSE x \in S : Rank(S, key, x) = n - 1]
  BY Zenon DEF Ordered, Rank
<1> HIDE DEF o
<1>4. \A n \in 1 .. c : /\ o[n] \in S /\ Rank(S, key, o[n]) = n - 1
                        /\ \A y \in S : Rank(S, key, y) = n - 1 => y = o[n]
  <2> TAKE n \in 1 .. c
  <2>1. o[n] = CHOOSE x \in S : Rank(S, key, x) = n - 1
    BY <1>3
  <2>2. o[n] \in S /\ Rank(S, key, o[n]) = n - 1
    BY <1>2, <2>1
  <2> QED BY <1>2, <2>2
<1>5. o \in Seq(S) /\ Len(o) = c /\ DOMAIN o = 1 .. c
  <2>1. o \in [1 .. c -> S]
    BY <1>3, <1>4
  <2>2. o \in Seq(S)
    BY <1>1, <2>1, SeqDef
  <2>3. DOMAIN o = 1 .. c
    BY <2>1
  <2> QED BY <1>1, <2>2, <2>3, LenProperties
<1>6. \A n, m \in 1 .. c : o[n] = o[m] => n = m
  BY <1>1, <1>4
<1>7. \A x \in S : Rank(S, key, x) \in 0 .. c - 1
  <2> TAKE x \in S
  <2>1. {y \in S : key[y] < key[x]} \in SUBSET (S \ {x})
    OBVIOUS
  <2>2. IsFiniteSet(S \ {x}) /\ Cardinality(S \ {x}) = c - 1
    BY FS_RemoveElement
  <2> HIDE DEF c
  <2>3. Rank(S, key, x) <= c - 1 /\ Rank(S, key, x) \in Nat
    BY <2>1, <2>2, FS_Subset, FS_CardinalityType DEF Rank
  <2> QED BY <1>1, <2>3
<1>8. \A x \in S : \E n \in 1 .. c : o[n] = x
  <2> TAKE x \in S
  <2>1. Rank(S, key, x) + 1 \in 1 .. c
    BY <1>1, <1>7
  <2> QED BY <1>4, <1>7, <2>1
<1> QED BY <1>5, <1>6, <1>8 DEF o

-----------------------------------------------------------------------------
(* The LRU list *)

Entries(q) == {q[k] : k \in DOMAIN q}
Once(q) == \A k, m \in DOMAIN q : q[k] = q[m] => k = m

LEMMA SeqFacts ==
  ASSUME NEW S, NEW q \in Seq(S)
  PROVE  /\ Len(q) \in Nat /\ DOMAIN q = 1 .. Len(q)
         /\ \A k \in 1 .. Len(q) : q[k] \in S
         /\ Entries(q) \subseteq S
BY LenProperties, ElementOfSeq DEF Entries

\* Keeping leaves what it is to keep, and each entry as often as before.
LEMMA KeepingFacts ==
  ASSUME lru \in Seq(Idx), NEW S
  PROVE  /\ Keeping(S) \in Seq(Idx)
         /\ Entries(Keeping(S)) = Listed \cap S
         /\ Once(lru) => Once(Keeping(S))
<1> DEFINE at0 == {k \in DOMAIN lru : lru[k] \in S}
           key == [k \in DOMAIN lru |-> k]
           at == Ordered(at0, key)
           q == Keeping(S)
<1>1. Len(lru) \in Nat /\ DOMAIN lru = 1 .. Len(lru) /\
      \A k \in 1 .. Len(lru) : lru[k] \in Idx
  BY SeqFacts
<1>2. IsFiniteSet(at0) /\ at0 \in SUBSET DOMAIN lru
  <2>1. IsFiniteSet(1 .. Len(lru))
    BY <1>1, FS_Interval
  <2> QED BY <1>1, <2>1, FS_Subset
<1>3. key \in [DOMAIN lru -> Int] /\ \A x, y \in at0 : key[x] = key[y] => x = y
  BY <1>1
<1>4. q = [n \in DOMAIN at |-> lru[at[n]]]
  BY Zenon DEF Keeping
<1>5. \A k \in at0 : k \in DOMAIN lru /\ lru[k] \in S
  OBVIOUS
<1>6. \A k \in DOMAIN lru : lru[k] \in S => k \in at0
  OBVIOUS
<1> HIDE DEF at0, key
<1>7. /\ at \in Seq(at0) /\ Len(at) \in Nat /\ DOMAIN at = 1 .. Len(at)
      /\ \A n \in 1 .. Len(at) : at[n] \in at0
      /\ \A x \in at0 : \E n \in 1 .. Len(at) : at[n] = x
      /\ \A n, m \in 1 .. Len(at) : at[n] = at[m] => n = m
  <2>1. /\ at \in Seq(at0) /\ Len(at) = Cardinality(at0)
        /\ DOMAIN at = 1 .. Cardinality(at0)
        /\ \A x \in at0 : \E n \in 1 .. Cardinality(at0) : at[n] = x
        /\ \A n, m \in 1 .. Cardinality(at0) : at[n] = at[m] => n = m
    <3> DEFINE U == DOMAIN lru
    <3>1. IsFiniteSet(at0) /\ at0 \in SUBSET U /\ key \in [U -> Int]
      BY <1>2, <1>3
    <3> HIDE DEF U, q
    <3> QED BY <1>3, <3>1, OrderedFacts
  <2> HIDE DEF at
  <2> QED BY <2>1, SeqFacts
<1> HIDE DEF at, q
<1>8. /\ q \in [1 .. Len(at) -> Idx] /\ DOMAIN q = 1 .. Len(at)
      /\ \A n \in 1 .. Len(at) : q[n] = lru[at[n]]
  BY <1>1, <1>4, <1>5, <1>7
<1>9. q \in Seq(Idx)
  BY <1>7, <1>8, SeqDef
<1>10. Entries(q) = Listed \cap S
  <2>1. \A n \in 1 .. Len(at) : q[n] \in Listed \cap S
    BY <1>5, <1>7, <1>8 DEF Listed
  <2>2. ASSUME NEW j \in Listed \cap S PROVE \E n \in 1 .. Len(at) : q[n] = j
    <3>1. PICK k \in DOMAIN lru : lru[k] = j
      BY DEF Listed
    <3>2. PICK n \in 1 .. Len(at) : at[n] = k
      BY <1>6, <1>7, <3>1
    <3> QED BY <1>8, <3>1, <3>2
  <2> QED BY <1>8, <2>1, <2>2 DEF Entries
<1>11. Once(lru) => Once(q)
  BY <1>5, <1>7, <1>8 DEF Once
<1> QED BY <1>9, <1>10, <1>11 DEF q

LEMMA AddEntryFacts ==
  ASSUME lru \in Seq(Idx), NEW i \in Idx, AddEntry(i)
  PROVE  /\ lru' \in Seq(Idx)
         /\ Entries(lru') = Listed \cup {i}
         /\ Once(lru) => Once(lru')
<1> DEFINE q == Without(i)
<1>1. /\ q \in Seq(Idx) /\ Entries(q) = Listed \ {i}
      /\ Once(lru) => Once(q)
  <2>1. Listed \subseteq Idx
    BY SeqFacts DEF Listed, Entries
  <2> QED BY <2>1, KeepingFacts DEF Without
<1>2. lru' = Append(q, i) \/ lru' = <<i>> \o q
  BY DEF AddEntry
<1> HIDE DEF q
<1>3. Len(q) \in Nat /\ DOMAIN q = 1 .. Len(q) /\ \A k \in 1 .. Len(q) : q[k] # i
  BY <1>1, SeqFacts DEF Entries
<1>4. CASE lru' = Append(q, i)
  <2>1. /\ lru' \in Seq(Idx) /\ DOMAIN lru' = 1 .. Len(q) + 1
        /\ \A k \in 1 .. Len(q) : lru'[k] = q[k]
        /\ lru'[Len(q) + 1] = i
    BY <1>1, <1>3, <1>4, AppendProperties, SeqFacts
  <2>2. Entries(lru') = Entries(q) \cup {i}
    BY <1>3, <2>1 DEF Entries
  <2>3. Once(q) => Once(lru')
    BY <1>3, <2>1 DEF Once
  <2> QED BY <1>1, <2>1, <2>2, <2>3
<1>5. CASE lru' = <<i>> \o q
  <2>1. /\ lru' \in Seq(Idx) /\ DOMAIN lru' = 1 .. Len(q) + 1
        /\ \A k \in 1 .. Len(q) : lru'[k + 1] = q[k]
        /\ lru'[1] = i
    BY <1>1, <1>3, <1>5, ConcatProperties, SeqFacts
  <2>2. \A k \in 1 .. Len(q) + 1 : k = 1 \/ (k - 1 \in 1 .. Len(q) /\ lru'[k] = q[k - 1])
    BY <1>3, <2>1
  <2>3. Entries(lru') = Entries(q) \cup {i}
    <3>1. \A k \in 1 .. Len(q) : k + 1 \in 1 .. Len(q) + 1
      BY <1>3
    <3>2. 1 \in 1 .. Len(q) + 1
      BY <1>3
    <3>3. \A j \in Entries(q) : \E k \in DOMAIN lru' : lru'[k] = j
      BY <1>3, <2>1, <3>1 DEF Entries
    <3>4. \A k \in DOMAIN lru' : lru'[k] \in Entries(q) \cup {i}
      BY <1>3, <2>1, <2>2 DEF Entries
    <3>5. Entries(lru') = {lru'[k] : k \in DOMAIN lru'}
      BY DEF Entries
    <3>6. i \in Entries(lru') /\ Entries(q) \subseteq Entries(lru')
      BY <2>1, <3>2, <3>3, <3>5
    <3>7. Entries(lru') \subseteq Entries(q) \cup {i}
      BY <3>4, <3>5
    <3> QED BY <3>6, <3>7
  <2>4. ASSUME Once(q) PROVE Once(lru')
    <3> SUFFICES ASSUME NEW k \in 1 .. Len(q) + 1, NEW m \in 1 .. Len(q) + 1,
                        lru'[k] = lru'[m]
                 PROVE  k = m
      BY <2>1 DEF Once
    <3>1. CASE k = 1 \/ m = 1
      BY <1>3, <2>1, <2>2, <3>1
    <3>2. CASE k # 1 /\ m # 1
      <4>1. k - 1 \in DOMAIN q /\ m - 1 \in DOMAIN q /\ q[k - 1] = q[m - 1]
        BY <1>3, <2>2, <3>2
      <4>2. k - 1 = m - 1
        BY <2>4, <4>1 DEF Once
      <4> QED BY <1>3, <4>2
    <3> QED BY <3>1, <3>2
  <2> QED BY <1>1, <2>1, <2>3, <2>4
<1> QED BY <1>2, <1>4, <1>5 DEF q

\* The entry _fatftc_getfree takes is not busy.
LEMMA ChosenFacts ==
  ASSUME lru \in Seq(Idx), status \in [Buf -> SUBSET {"USED", "BUSY", "DIRTY"}],
         Free \cup Clean \cup Flushable # {}
  PROVE  /\ Chosen \in Idx
         /\ "BUSY" \notin status[Chosen]
<1>1. Len(lru) \in Nat /\ DOMAIN lru = 1 .. Len(lru) /\ Listed \subseteq Idx
  BY SeqFacts DEF Listed, Entries
<1>2. \A S : S \subseteq Listed /\ S # {} => Oldest(S) \in S
  <2> SUFFICES ASSUME NEW S, S \subseteq Listed, S # {} PROVE Oldest(S) \in S
    OBVIOUS
  <2> DEFINE at == {k \in DOMAIN lru : lru[k] \in S}
  <2>1. at # {} /\ at \in SUBSET Nat
    BY <1>1 DEF Listed
  <2>2. Min(at) \in at
    BY <2>1, MinIn
  <2> QED BY <2>2 DEF Oldest
<1>3. CASE Free # {}
  <2>1. Free \in SUBSET Nat
    BY DEF Free, Idx
  <2>2. Min(Free) \in Free
    BY <1>3, <2>1, MinIn
  <2> QED BY <1>3, <2>2 DEF Chosen, Free, Unused
<1>4. CASE Free = {} /\ Clean # {}
  <2>1. Clean \subseteq Listed
    BY DEF Clean
  <2> QED BY <1>1, <1>2, <1>4, <2>1 DEF Chosen, Clean
<1>5. CASE Free = {} /\ Clean = {}
  <2>1. Flushable \subseteq Listed
    BY DEF Flushable
  <2> QED BY <1>1, <1>2, <1>5, <2>1 DEF Chosen, Flushable
<1> QED BY <1>3, <1>4, <1>5

-----------------------------------------------------------------------------
(* The list of a write *)

LEMMA FiniteIdx ==
  /\ IsFiniteSet(Idx) /\ Idx \subseteq Nat \ {0} /\ Idx \subseteq Buf /\ Page \subseteq Buf
  /\ Idx \cap Page = {} /\ IsFiniteSet(Sec) /\ Sec \subseteq Nat
<1>1. IsFiniteSet(Idx) /\ IsFiniteSet(Sec)
  BY SizeAssumption, FS_Interval DEF Idx, Sec
<1> QED BY <1>1, SizeAssumption DEF Idx, Buf, Page, Sec

\* The scan of _fatftc_devwrite comes to every entry once.
LEMMA ScanKeys ==
  ASSUME NEW i \in Idx
  PROVE  /\ [j \in Idx |-> (j - i) % MaxBufs] \in [Idx -> Int]
         /\ \A j, k \in Idx : (j - i) % MaxBufs = (k - i) % MaxBufs => j = k
<1>1. ASSUME NEW j \in Idx PROVE (j - i) % MaxBufs \in Int
  BY SizeAssumption DEF Idx
<1>2. ASSUME NEW j \in Idx, NEW k \in Idx, (j - i) % MaxBufs = (k - i) % MaxBufs
      PROVE  j = k
  <2> DEFINE m == MaxBufs
             a == j - i
             b == k - i
  <2>1. m \in Nat \ {0} /\ a \in Int /\ b \in Int /\ a - b < m /\ b - a < m /\ a % m = b % m
    BY <1>2, SizeAssumption DEF Idx
  <2> HIDE DEF m, a, b
  <2>2. /\ a = m * (a \div m) + (a % m) /\ a \div m \in Int
        /\ b = m * (b \div m) + (b % m) /\ b \div m \in Int
    BY <2>1, Z3
  <2>3. a - b = m * ((a \div m) - (b \div m))
    BY <2>1, <2>2, Z3
  <2> DEFINE e == (a \div m) - (b \div m)
  <2>4. e \in Int /\ a - b = m * e
    BY <2>1, <2>3, Z3
  <2> HIDE DEF e
  <2>5. e < 1
    <3>1. e >= 1 => m * e >= m
      BY <2>1, <2>4, Z3
    <3> QED BY <2>1, <2>4, <3>1
  <2>6. e > -1
    <3>1. e <= -1 => b - a >= m
      BY <2>1, <2>4, Z3
    <3> QED BY <2>1, <2>4, <3>1
  <2>7. a - b = 0
    <3>1. e = 0
      BY <2>4, <2>5, <2>6
    <3> QED BY <2>1, <2>4, <3>1
  <2> QED BY <2>7 DEF Idx, a, b
<1> QED BY <1>1, <1>2

\* The sectors of the page that sector t is on.
PageOf(t) == {s \in Sec : Lbn(s) = Lbn(t)}

LEMMA PageSize ==
  ASSUME NEW t \in Sec
  PROVE  IsFiniteSet(PageOf(t)) /\ Cardinality(PageOf(t)) = WriteSize
<1> DEFINE w == WriteSize
           q == t \div w
           n == Sectors \div w
<1>1. w \in Nat \ {0} /\ t \in Nat /\ t < Sectors /\ Sectors \in Nat
  BY SizeAssumption DEF Sec
<1>2. Sectors % w = 0
  BY SizeAssumption
<1> HIDE DEF w
<1>3. q \in Nat /\ n \in Nat
  BY <1>1, Z3
<1>4. Sectors = n * w
  BY <1>1, <1>2, Z3
<1> HIDE DEF q, n
<1>5. t \in q * w .. q * w + w - 1
  BY <1>1, <1>3, Quotient DEF q
<1>6. q < n
  <2>1. q * w < n * w
    BY <1>1, <1>3, <1>4, <1>5, Z3
  <2> QED BY <1>1, <1>3, <2>1, Z3
<1>7. q * w + w <= n * w
  <2>1. n = q + 1 + (n - q - 1) /\ n - q - 1 \in Nat
    BY <1>3, <1>6
  <2> QED BY <2>1, <1>1, <1>3, Z3
<1>8. q * w \in Nat
  BY <1>1, <1>3, Z3
<1>9. PageOf(t) = q * w .. q * w + w - 1
  <2>1. \A s \in Nat : s \div w = q <=> s \in q * w .. q * w + w - 1
    BY <1>1, <1>3, Quotient
  <2>2. PageOf(t) = {s \in Sec : s \div w = q}
    BY DEF PageOf, Lbn, q, w
  <2>3. \A s \in q * w .. q * w + w - 1 : s \in Sec
    BY <1>1, <1>4, <1>7, <1>8 DEF Sec
  <2>4. \A s \in Sec : s \in Nat
    BY FiniteIdx
  <2> QED BY <2>1, <2>2, <2>3, <2>4
<1>10. IsFiniteSet(q * w .. q * w + w - 1) /\ Cardinality(q * w .. q * w + w - 1) = w
  <2>1. q * w + w - 1 \in Int /\ ~ (q * w > q * w + w - 1) /\ (q * w + w - 1) - q * w + 1 = w
    BY <1>1, <1>8
  <2> QED BY <1>8, <2>1, FS_Interval
<1> QED BY <1>9, <1>10 DEF w

\* The entries a write of the page of entry i takes, and the sectors it has to
\* read to fill the page: together they are as many as the page has.
LEMMA ListFacts ==
  ASSUME status \in [Buf -> SUBSET {"USED", "BUSY", "DIRTY"}],
         of \in [Buf -> [dev : Dev, sec : Sec]],
         \A j \in Idx : status[j] # {} => "USED" \in status[j],
         NoDuplicates, NEW i \in Idx, "DIRTY" \in status[i]
  PROVE  /\ DirtyList(i) \in Seq(Idx) /\ Len(DirtyList(i)) >= 1 /\ DirtyList(i)[1] = i
         /\ \A k \in 1 .. Len(DirtyList(i)) : /\ "DIRTY" \in status[DirtyList(i)[k]]
                                              /\ DevOf(DirtyList(i)[k]) = DevOf(i)
         /\ \A k, m \in 1 .. Len(DirtyList(i)) : DirtyList(i)[k] = DirtyList(i)[m] => k = m
         /\ Missing(i) \in Seq(Sec)
         /\ Len(DirtyList(i)) + Len(Missing(i)) = WriteSize
<1> DEFINE A == Mates(i)
           key == [j \in Idx |-> (j - i) % MaxBufs]
           scan == Ordered(A, key)
           D == DirtyList(i)
           P == PageOf(SecOf(i))
           T == A \cup {i}
<1>0. i \in Buf /\ SecOf(i) \in Sec /\ \A j \in Idx : j \in Buf /\ SecOf(j) \in Sec /\
      DevOf(j) \in Dev
  BY FiniteIdx DEF SecOf, DevOf
<1>1. /\ A \in SUBSET Idx /\ i \notin A /\ IsFiniteSet(A) /\ T \subseteq Idx
      /\ \A j \in T : "DIRTY" \in status[j] /\ DevOf(j) = DevOf(i) /\ SecOf(j) \in P
  <2>1. A \in SUBSET Idx /\ i \notin A
    BY DEF Mates
  <2>2. \A j \in T : "DIRTY" \in status[j] /\ DevOf(j) = DevOf(i) /\ SecOf(j) \in P
    BY <1>0, <2>1 DEF Mates, PageOf
  <2> QED BY <2>1, <2>2, FiniteIdx, FS_Subset
<1>2. \A j, k \in T : SecOf(j) = SecOf(k) => j = k
  <2> SUFFICES ASSUME NEW j \in T, NEW k \in T, SecOf(j) = SecOf(k) PROVE j = k
    OBVIOUS
  <2>1. j \in Idx /\ k \in Idx /\ of[j] \in [dev : Dev, sec : Sec] /\
        of[k] \in [dev : Dev, sec : Sec]
    BY <1>1, FiniteIdx
  <2>2. of[j] = of[k]
    BY <1>1, <2>1 DEF DevOf, SecOf
  <2>3. "USED" \in status[j] /\ "USED" \in status[k]
    BY <1>1, <2>1
  <2> QED BY <2>1, <2>2, <2>3 DEF NoDuplicates
<1>3. /\ IsFiniteSet(P) /\ Cardinality(P) = WriteSize
      /\ Cardinality(A) \in Nat /\ Cardinality(A) + 1 <= WriteSize
  <2>1. IsFiniteSet(P) /\ Cardinality(P) = WriteSize
    BY <1>0, PageSize
  <2>2. Cardinality(A) \in Nat /\ Cardinality(T) = Cardinality(A) + 1
    <3> HIDE DEF A
    <3> QED BY <1>1, FS_AddElement, FS_CardinalityType
  <2>3. [j \in T |-> SecOf(j)] \in Injection(T, P)
    <3> DEFINE f == [j \in T |-> SecOf(j)]
    <3>1. f \in [T -> P]
      BY <1>1
    <3>2. \A j, k \in T : f[j] = f[k] => j = k
      BY <1>2
    <3> HIDE DEF f
    <3> QED BY <3>1, <3>2 DEF f, Injection, IsInjective
  <2>4. Cardinality(T) <= Cardinality(P)
    <3> HIDE DEF T, P
    <3> QED BY <2>1, <2>3, FS_Injection
  <2> QED BY <2>1, <2>2, <2>4
<1>4. /\ scan \in Seq(A) /\ Len(scan) = Cardinality(A) /\ DOMAIN scan = 1 .. Len(scan)
      /\ \A x \in A : \E n \in 1 .. Len(scan) : scan[n] = x
      /\ \A n, m \in 1 .. Len(scan) : scan[n] = scan[m] => n = m
      /\ \A n \in 1 .. Len(scan) : scan[n] \in A
  <2>1. key \in [Idx -> Int] /\ \A x, y \in A : key[x] = key[y] => x = y
    BY <1>1, ScanKeys
  <2> HIDE DEF key, A
  <2>2. /\ scan \in Seq(A) /\ Len(scan) = Cardinality(A) /\ DOMAIN scan = 1 .. Cardinality(A)
        /\ \A x \in A : \E n \in 1 .. Cardinality(A) : scan[n] = x
        /\ \A n, m \in 1 .. Cardinality(A) : scan[n] = scan[m] => n = m
    BY <1>1, <2>1, OrderedFacts
  <2> HIDE DEF scan
  <2> QED BY <2>2, SeqFacts
<1>5. D = <<i>> \o scan
  <2>1. D = <<i>> \o SubSeq(scan, 1, Min({Len(scan), WriteSize - 1}))
    BY Zenon DEF DirtyList
  <2>2. Min({Len(scan), WriteSize - 1}) = Len(scan)
    <3> DEFINE x == Len(scan)
               y == WriteSize - 1
    <3>1. x \in Nat /\ y \in Nat /\ x <= y
      BY <1>3, <1>4, SizeAssumption
    <3> HIDE DEF x, y
    <3>2. Min({x, y}) \in {x, y} /\ \A z \in {x, y} : Min({x, y}) <= z
      <4>1. \E u \in {x, y} : \A z \in {x, y} : u <= z
        BY <3>1
      <4> QED BY <4>1, Zenon DEF Min
    <3>3. Min({x, y}) <= x
      BY <3>2
    <3> QED BY <3>1, <3>2, <3>3 DEF x, y
  <2>3. SubSeq(scan, 1, Len(scan)) = scan
    <3> HIDE DEF scan
    <3> QED BY <1>4, SubSeqFull
  <2> QED BY <2>1, <2>2, <2>3
<1> HIDE DEF key, scan, A, D, P
<1>6. /\ D \in Seq(Idx) /\ Len(D) = Len(scan) + 1 /\ Len(D) \in Nat /\ DOMAIN D = 1 .. Len(D)
      /\ D[1] = i /\ Len(scan) \in Nat
      /\ \A k \in 1 .. Len(D) : k = 1 \/ (k - 1 \in 1 .. Len(scan) /\ D[k] = scan[k - 1])
  <2>1. scan \in Seq(Idx) /\ <<i>> \in Seq(Idx) /\ Len(scan) \in Nat /\ Len(<<i>>) = 1 /\
        <<i>>[1] = i
    <3>1. \A n \in 1 .. Len(scan) : scan[n] \in Idx
      BY <1>1, <1>4
    <3>2. scan \in [1 .. Len(scan) -> Idx] /\ Len(scan) \in Nat
      BY <1>3, <1>4, <3>1, LenProperties
    <3> QED BY <3>2, SeqDef
  <2>2. /\ D \in Seq(Idx) /\ Len(D) = 1 + Len(scan)
        /\ \A k \in 1 .. 1 + Len(scan) : D[k] = IF k <= 1 THEN <<i>>[k] ELSE scan[k - 1]
    BY <1>5, <2>1, ConcatProperties
  <2>3. Len(D) \in Nat /\ DOMAIN D = 1 .. Len(D) /\ 1 \in 1 .. 1 + Len(scan)
    BY <2>1, <2>2, SeqFacts
  <2>4. D[1] = i
    BY <2>1, <2>2, <2>3
  <2>5. \A k \in 1 .. Len(D) : k = 1 \/ (k - 1 \in 1 .. Len(scan) /\ D[k] = scan[k - 1])
    BY <2>1, <2>2, <2>3
  <2> QED BY <2>1, <2>2, <2>3, <2>4, <2>5
<1>7. \A k \in 1 .. Len(D) : D[k] \in T
  BY <1>4, <1>6
<1>8. \A k, m \in 1 .. Len(D) : D[k] = D[m] => k = m
  <2> SUFFICES ASSUME NEW k \in 1 .. Len(D), NEW m \in 1 .. Len(D), D[k] = D[m] PROVE k = m
    OBVIOUS
  <2>1. CASE k = 1 \/ m = 1
    BY <1>1, <1>4, <1>6, <2>1
  <2>2. CASE k # 1 /\ m # 1
    <3>1. k - 1 = m - 1
      BY <1>4, <1>6, <2>2
    <3> QED BY <1>6, <3>1
  <2> QED BY <2>1, <2>2
<1> DEFINE Q == {SecOf(D[k]) : k \in 1 .. Len(D)}
<1>9. Q \subseteq P /\ IsFiniteSet(Q) /\ Cardinality(Q) = Len(D)
  <2> DEFINE f == [k \in 1 .. Len(D) |-> SecOf(D[k])]
  <2>1. f \in [1 .. Len(D) -> Q] /\ \A x \in Q : \E k \in 1 .. Len(D) : f[k] = x
    OBVIOUS
  <2>2. \A k, m \in 1 .. Len(D) : f[k] = f[m] => k = m
    BY <1>2, <1>7, <1>8
  <2>3. Q \subseteq P
    BY <1>1, <1>7
  <2> HIDE DEF f, Q
  <2>4. f \in Injection(1 .. Len(D), Q) /\ f \in Surjection(1 .. Len(D), Q)
    BY <2>1, <2>2 DEF Injection, IsInjective, Surjection
  <2>5. f \in Bijection(1 .. Len(D), Q)
    BY <2>4 DEF Bijection
  <2>6. IsFiniteSet(1 .. Len(D)) /\ Cardinality(1 .. Len(D)) = Len(D)
    BY <1>6, FS_Interval
  <2> QED BY <2>3, <2>5, <2>6, FS_Bijection DEF ExistsBijection
<1> DEFINE R == {s \in Sec : /\ Lbn(s) = Lbn(SecOf(i))
                             /\ \A k \in DOMAIN DirtyList(i) : SecOf(DirtyList(i)[k]) # s}
           skey == [s \in Sec |-> s]
<1>10. R \in SUBSET Sec /\ R = P \ Q
  BY <1>6 DEF P, D, PageOf
<1>11. IsFiniteSet(R) /\ Cardinality(R) = WriteSize - Len(D)
  <2>1. P \cap Q = Q
    BY <1>9
  <2> HIDE DEF Q, R
  <2>2. IsFiniteSet(P \ Q) /\ Cardinality(P \ Q) = Cardinality(P) - Cardinality(P \cap Q)
    BY <1>3, FS_Difference
  <2>3. Cardinality(P \cap Q) = Len(D)
    BY <1>9, <2>1
  <2> QED BY <1>3, <1>10, <2>2, <2>3
<1>12. Missing(i) \in Seq(Sec) /\ Len(Missing(i)) = Cardinality(R)
  <2>1. Missing(i) = Ordered(R, skey)
    BY Zenon DEF Missing
  <2>2. skey \in [Sec -> Int] /\ \A x, y \in R : skey[x] = skey[y] => x = y
    BY <1>10, FiniteIdx
  <2> HIDE DEF skey, R
  <2>3. Missing(i) \in Seq(R) /\ Len(Missing(i)) = Cardinality(R)
    BY <1>10, <1>11, <2>1, <2>2, OrderedFacts
  <2>4. Seq(R) \subseteq Seq(Sec)
    BY <1>10
  <2> QED BY <2>3, <2>4
<1>13. Len(D) + Len(Missing(i)) = WriteSize
  BY <1>6, <1>11, <1>12, SizeAssumption
<1>14. \A k \in 1 .. Len(D) : "DIRTY" \in status[D[k]] /\ DevOf(D[k]) = DevOf(i)
  BY <1>1, <1>7
<1>15. Len(D) >= 1
  BY <1>6
<1> QED BY <1>6, <1>8, <1>12, <1>13, <1>14, <1>15 DEF D

-----------------------------------------------------------------------------
(* The invariant *)

\* Calls that ask for a sector, from _fatftc_find to fatftc_makedirty.
Asking == {"find", "lookup", "hit", "miss", "getfree", "evict", "fill", "filled",
           "copy", "overwrite", "mark"}
Storing == {"copy", "overwrite", "mark"}
Flushing == {"flwait", "flbusy", "flush"}

\* Entry i is in the list of device d.
AtList(d, i) == \E k \in DOMAIN list[d] : list[d][k] = i

\* A call is where calls of its kind come to.  While data is stored nothing is polled.
CallOK == /\ pc \in Asking => call.op \in {"read", "write", "overwrite"}
          /\ pc \in Flushing => call.op = "flush"
          /\ pc \in Storing => Writing /\ poll = 0 /\ wr = NoWr
          /\ pc \in {"fill", "filled"} => ~Overwriting

\* An entry that is marked is used.
MarksUsed == \A i \in Idx : status[i] # {} => "USED" \in status[i]

\* What _fatftc_find did not find stays so until _fatftc_getfree has an entry for it.
NotCached == pc \in {"miss", "getfree", "evict"} =>
                \A i \in Idx : "USED" \in status[i] =>
                   of[i] # [dev |-> call.dev, sec |-> call.sec]

\* The entry _fatftc_getfree has chosen is not being read, and the device it
\* is wanted for becomes busy with that entry only.
Chose == /\ pc = "getfree" => Overwriting \/ busy[call.dev] = 0
         /\ pc = "evict" => /\ "BUSY" \in status[ent] => "DIRTY" \in status[ent]
                            /\ Overwriting \/ busy[call.dev] = 0 \/ AtList(call.dev, ent)

\* The entry a sector is read into.
Filling == /\ pc \in {"fill", "filled"} => status[ent] = {"USED"}
           /\ pc = "fill" => /\ of[ent] = [dev |-> call.dev, sec |-> call.sec]
                             /\ busy[call.dev] = 0

\* What a device is busy with: nothing, the read of one entry, or the write of
\* one page, of different entries all dirty.
ReadList(d) == /\ busy[d] = READ /\ Len(list[d]) = 1 /\ list[d][1] \in Idx
               /\ DevOf(list[d][1]) = d /\ Reading(list[d][1])
WriteList(d) == /\ busy[d] = WriteSize /\ Len(list[d]) = WriteSize
                /\ \A k, m \in 1 .. WriteSize : list[d][k] = list[d][m] => k = m
                /\ \A k \in 1 .. WriteSize : list[d][k] \in Idx =>
                      DevOf(list[d][k]) = d /\ "DIRTY" \in status[list[d][k]]
Lists == \A d \in Dev : (busy[d] = 0 /\ list[d] = <<>>) \/ ReadList(d) \/ WriteList(d)

\* In a write only the sector the device has been given last can be marked busy.
Progress == /\ wr # NoWr => busy[wr.dev] = WriteSize
            /\ \A d \in Dev : busy[d] = WriteSize => \A k \in 1 .. WriteSize :
                  list[d][k] \in Idx /\ "BUSY" \in status[list[d][k]] =>
                     IF wr.dev = d THEN k = wr.len ELSE k \in {bcount[d], bcount[d] + 1}

\* An entry out of the LRU list is free, being read, or about to be filled.
Unlisted == \A i \in Idx : i \notin Entries(lru) =>
               /\ "DIRTY" \notin status[i]
               /\ "USED" \in status[i] =>
                     Reading(i) \/ (ent = i /\ pc \in {"fill", "filled"})
ToStore == pc \in Storing => ent \in Entries(lru)

Control == CallOK /\ NotCached /\ Chose /\ Filling /\ Unlisted /\ ToStore
Data == MarksUsed /\ NoDuplicates /\ Lists /\ Progress /\ BusyListed /\ Once(lru)
CacheInv == TypeOK /\ Control /\ Data

LEMMA InitInv == Init => CacheInv
<1> SUFFICES ASSUME Init PROVE CacheInv
  OBVIOUS
<1>1. TypeOK
  <2>1. 1 \in Dev /\ 0 \in Sec /\ 1 \in Idx /\ 0 \in 0 .. WriteSize /\ 0 \in 0 .. MaxDevs
    BY SizeAssumption DEF Dev, Sec, Idx
  <2>2. <<>> \in Seq(Idx) /\ <<>> \in Seq(Buf)
    OBVIOUS
  <2> QED BY <2>1, <2>2 DEF Init, TypeOK, Unused
<1>2. Control
  BY FiniteIdx DEF Init, Control, CallOK, NotCached, Chose, Filling, Unlisted, ToStore,
     Asking, Flushing, Storing, Unused
<1>3. Data
  <2>1. Once(<<>>)
    BY DEF Once
  <2>2. WriteSize # 0
    BY SizeAssumption
  <2> QED BY <2>1, <2>2, FiniteIdx DEF Init, Data, MarksUsed, NoDuplicates, Lists, Progress,
             BusyListed, Unused
<1> QED BY <1>1, <1>2, <1>3 DEF CacheInv

LEMMA Sizes ==
  /\ MaxDevs \in Nat /\ 1 \in Dev /\ Dev \subseteq Nat \ {0} /\ 0 \notin Dev
  /\ WriteSize \in Nat /\ WriteSize >= 1 /\ WriteSize # 0 /\ WriteSize # READ /\ READ # 0
  /\ 1 \in Idx /\ PageBufs \in Nat /\ WriteSize <= PageBufs + 1 /\ MaxBufs \in Nat
BY SizeAssumption DEF Dev, Idx, READ

\* The sector and the device a call is about.
LEMMA CallFacts ==
  ASSUME TypeOK, CallOK
  PROVE  /\ pc \in Asking \cup Flushing => call.dev \in Dev /\ call.wait \in BOOLEAN
         /\ pc \in Asking => /\ call.sec \in Sec
                             /\ [dev |-> call.dev, sec |-> call.sec] \in [dev : Dev, sec : Sec]
         /\ pc \in Storing => call.val \in Val
<1>1. /\ call.op \in {"write", "overwrite"} =>
            call.dev \in Dev /\ call.sec \in Sec /\ call.val \in Val /\ call.wait \in BOOLEAN
      /\ call.op = "read" => call.dev \in Dev /\ call.sec \in Sec /\ call.wait \in BOOLEAN
      /\ call.op = "flush" => call.dev \in Dev /\ call.wait \in BOOLEAN
  BY FlagAssumption DEF TypeOK, Calls, NoCall
<1> QED BY <1>1 DEF CallOK, Asking, Flushing, Storing, Writing

\* What is in the list of a device.
LEMMA AtListFacts ==
  ASSUME TypeOK, Lists, NEW d \in Dev, NEW k \in DOMAIN list[d]
  PROVE  /\ list[d] \in Seq(Buf) /\ Len(list[d]) \in Nat /\ DOMAIN list[d] = 1 .. Len(list[d])
         /\ k \in 1 .. Len(list[d]) /\ list[d][k] \in Buf
         /\ \/ ReadList(d) /\ k = 1
            \/ WriteList(d) /\ k \in 1 .. WriteSize
         /\ list[d][k] \in Idx => /\ DevOf(list[d][k]) = d
                                 /\ {"BUSY", "DIRTY"} \cap status[list[d][k]] # {}
<1>1. list[d] \in Seq(Buf)
  BY DEF TypeOK
<1>2. /\ Len(list[d]) \in Nat /\ DOMAIN list[d] = 1 .. Len(list[d])
      /\ k \in 1 .. Len(list[d]) /\ list[d][k] \in Buf
  BY <1>1, SeqFacts
<1>3. list[d] # <<>>
  BY <1>2
<1>4. ReadList(d) \/ WriteList(d)
  BY <1>3 DEF Lists
<1>5. CASE ReadList(d)
  <2>1. k = 1
    BY <1>2, <1>5 DEF ReadList
  <2> QED BY <1>1, <1>2, <1>5, <2>1 DEF ReadList, Reading
<1>6. CASE WriteList(d)
  BY <1>1, <1>2, <1>6 DEF WriteList
<1> QED BY <1>4, <1>5, <1>6

-----------------------------------------------------------------------------
(* Steps that change no entry and no list *)

Steps == {"idle", "ticked"} \cup Asking \cup Flushing

ControlTyped == /\ call \in Calls \cup {NoCall} /\ pc \in Steps /\ ent \in Idx
                /\ res \in {"none", "ok", "busy", "err"} /\
                   ret \in {"none", "ok", "busy", "err"}
                /\ poll \in 0 .. MaxDevs

LEMMA QuietData ==
  ASSUME CacheInv, UNCHANGED <<bbvars, lru, drvars, devvars, wr>>
  PROVE  /\ Data'
         /\ ControlTyped' => TypeOK'
         /\ \A i \in Idx : Reading(i) <=> Reading(i)'
<1>1. UNCHANGED <<status, of, buf, lru, busy, list, bcount, bpurge, disk, chip, inflight, wr>>
  BY DEF bbvars, drvars, devvars
<1>2. Data'
  BY <1>1 DEF CacheInv, Data, MarksUsed, NoDuplicates, Lists, ReadList, WriteList, Progress,
     BusyListed, Once, Reading, DevOf
<1>3. ControlTyped' => TypeOK'
  BY <1>1 DEF CacheInv, TypeOK, ControlTyped, Steps, Asking, Flushing
<1> QED BY <1>1, <1>2, <1>3 DEF Reading

LEMMA PollTyped ==
  ASSUME TypeOK
  PROVE  /\ ControlTyped
         /\ 0 \in 0 .. MaxDevs /\ 1 \in 0 .. MaxDevs /\ 1 \in Idx
         /\ poll # 0 => (IF poll = MaxDevs THEN 0 ELSE poll + 1) \in 0 .. MaxDevs
         /\ poll # 0 => poll \in Dev
BY Sizes DEF TypeOK, ControlTyped, Dev, Steps, Asking, Flushing

LEMMA QuietStep ==
  ASSUME CacheInv,
         \/ Begin \/ Ticked \/ Find \/ Lookup \/ Miss \/ GetFree
         \/ FlushWait \/ FlushBusy \/ FlushPoll \/ FlushNext \/ PollIdle
  PROVE  CacheInv'
<1>a. TypeOK /\ CallOK /\ NotCached /\ Chose /\ Filling /\ Unlisted /\ ToStore
  BY DEF CacheInv, Control
<1>b. UNCHANGED <<bbvars, lru, drvars, devvars, wr>>
  BY DEF Begin, Ticked, Find, Lookup, Miss, GetFree, FlushWait, FlushBusy, FlushPoll,
     FlushNext, PollIdle
<1>c. /\ UNCHANGED <<status, of, buf, lru, busy, list, bcount, bpurge, wr>>
      /\ \A i \in Idx : Reading(i) <=> Reading(i)'
  BY <1>b, QuietData DEF bbvars, drvars
<1>d. SUFFICES ControlTyped' /\ Control'
  BY <1>b, QuietData DEF CacheInv
<1>e. ControlTyped /\ 1 \in Idx /\ 0 \in 0 .. MaxDevs /\ 1 \in 0 .. MaxDevs
  BY <1>a, PollTyped
<1>1. CASE Begin
  <2>1. call' \in Calls /\ pc' \in {"ticked", "flwait", "find"} /\ ret' = "none" /\
        poll' \in {0, 1}
        /\ UNCHANGED <<ent, res>> /\ pc = "idle"
        /\ (pc' = "find" => call'.op \notin {"tick", "flush"}) /\
           (pc' = "flwait" => call'.op = "flush")
    BY <1>1 DEF Begin, Tick, NoTick, AtStep
  <2>2. call'.op \in {"read", "write", "overwrite", "flush", "tick"}
    BY <2>1, FlagAssumption DEF Calls
  <2> QED BY <1>a, <1>c, <1>e, <2>1, <2>2 DEF ControlTyped, Steps, Asking, Flushing, Storing,
             Control, CallOK, NotCached, Chose, Filling, Unlisted, ToStore
<1>2. CASE Ticked
  BY <1>a, <1>c, <1>e, <1>2 DEF Ticked, AtStep, Return, ControlTyped, Steps, Asking, Flushing,
     Storing, Control, CallOK, NotCached, Chose, Filling, Unlisted, ToStore
<1>3. CASE Find
  BY <1>a, <1>c, <1>e, <1>3 DEF Find, AtStep, Tick, NoTick, Goto, GotoWith, ControlTyped,
     Steps, Asking, Flushing, Storing, Control, CallOK, NotCached, Chose, Filling, Unlisted,
     ToStore
<1>4. CASE Lookup
  <2> DEFINE S == Cached(call.dev, call.sec)
  <2>1. /\ pc = "lookup" /\ pc' \in {"miss", "hit", "find", "idle"} /\ UNCHANGED <<call, res>>
        /\ poll' \in {0, 1} /\ ret' \in {ret, "busy"} /\ ent' \in {ent, 1, Max(S)}
        /\ ent' = Max(S) => S # {} \/ ent' \in {ent, 1}
        /\ pc' = "miss" => S = {}
    BY <1>4, Zenon DEF Lookup, AtStep, Tick, NoTick, Goto, GotoWith, Return
  <2>2. S \subseteq Idx /\ S \in SUBSET Nat
    BY FiniteIdx DEF Cached
  <2>3. S # {} => Max(S) \in S
    <3> SUFFICES ASSUME S # {} PROVE Max(S) \in S
      OBVIOUS
    <3> DEFINE T == {n \in 0 .. MaxBufs : MaxBufs - n \in S}
    <3>1. T \in SUBSET Nat /\ T # {}
      <4>1. \A x \in S : x \in 0 .. MaxBufs /\ MaxBufs - x \in 0 .. MaxBufs /\
            MaxBufs - (MaxBufs - x) = x
        BY <2>2, Sizes DEF Idx
      <4> QED BY <4>1, Sizes
    <3>2. PICK m \in T : \A k \in T : m <= k
      BY <3>1, LeastNat
    <3>3. \A x \in S : MaxBufs - m >= x
      <4> SUFFICES ASSUME NEW x \in S PROVE MaxBufs - m >= x
        OBVIOUS
      <4>1. MaxBufs - x \in T
        BY <2>2, Sizes DEF Idx
      <4> QED BY <2>2, <3>1, <3>2, <4>1, Sizes
    <3>4. \E y \in S : \A x \in S : y >= x
      BY <3>2, <3>3
    <3> QED BY <3>4, Zenon DEF Max
  <2>4. ent' \in Idx
    BY <1>e, <2>1, <2>2, <2>3 DEF ControlTyped
  <2>5. pc' = "miss" => \A i \in Idx : "USED" \in status[i] =>
           of[i] # [dev |-> call.dev, sec |-> call.sec]
    BY <2>1 DEF Cached
  <2> HIDE DEF S
  <2> QED BY <1>a, <1>c, <1>e, <2>1, <2>4, <2>5 DEF ControlTyped, Steps, Asking, Flushing,
             Storing, Control, CallOK, NotCached, Chose, Filling, Unlisted, ToStore
<1>5. CASE Miss
  BY <1>a, <1>c, <1>e, <1>5 DEF Miss, AtStep, Tick, NoTick, Goto, GotoWith, Stay, Return,
     Overwriting, Writing, ControlTyped, Steps, Asking, Flushing, Storing, Control, CallOK,
     NotCached, Chose, Filling, Unlisted, ToStore
<1>6. CASE GetFree
  <2>1. /\ pc = "getfree" /\ pc' \in {"evict", "getfree", "idle"} /\ UNCHANGED <<call, res>>
        /\ poll' \in {0, 1} /\ ret' \in {ret, "busy", "err"}
        /\ pc' = "evict" => ent' = Chosen /\ Free \cup Clean \cup Flushable # {}
        /\ pc' = "getfree" => ent' = ent
        /\ pc' = "idle" => ent' = 1
    BY <1>6 DEF GetFree, AtStep, Tick, NoTick, Goto, GotoWith, Stay, Return
  <2>2. pc' = "evict" => ent' \in Idx /\ "BUSY" \notin status[ent']
    BY <1>a, <2>1, ChosenFacts DEF TypeOK
  <2> QED BY <1>a, <1>c, <1>e, <2>1, <2>2 DEF ControlTyped, Steps, Asking, Flushing, Storing,
             Control, CallOK, NotCached, Chose, Filling, Unlisted, ToStore, Overwriting,
             Writing
<1>7. CASE FlushWait
  BY <1>a, <1>c, <1>e, <1>7 DEF FlushWait, AtStep, Tick, NoTick, Goto, GotoWith, ControlTyped,
     Steps, Asking, Flushing, Storing, Control, CallOK, NotCached, Chose, Filling, Unlisted,
     ToStore
<1>8. CASE FlushBusy
  BY <1>a, <1>c, <1>e, <1>8 DEF FlushBusy, AtStep, Return, ControlTyped, Steps, Asking,
     Flushing, Storing, Control, CallOK, NotCached, Chose, Filling, Unlisted, ToStore
<1>9. CASE FlushPoll
  BY <1>a, <1>c, <1>e, <1>9 DEF FlushPoll, AtStep, Tick, NoTick, Stay, Goto, GotoWith, Return,
     ControlTyped, Steps, Asking, Flushing, Storing, Control, CallOK, NotCached, Chose,
     Filling, Unlisted, ToStore
<1>10. CASE FlushNext
  <2>1. /\ pc = "flush" /\ pc' \in {"flush", "idle"} /\ UNCHANGED <<call, poll>>
        /\ res' = "none" /\ ret' \in {"ok", "err"} /\ ent' \in Idx
    BY <1>10, <1>e, Sizes DEF FlushNext, AtStep, Return, ControlTyped, Idx
  <2> QED BY <1>a, <1>c, <1>e, <2>1 DEF ControlTyped, Steps, Asking, Flushing, Storing,
             Control, CallOK, NotCached, Chose, Filling, Unlisted, ToStore
<1>11. CASE PollIdle
  <2>1. poll' \in 0 .. MaxDevs /\ UNCHANGED <<call, pc, ent, res, ret>> /\ poll # 0
    BY <1>11, <1>a, PollTyped DEF PollIdle, Polling, NextPoll, cvars
  <2> QED BY <1>a, <1>c, <1>e, <2>1 DEF ControlTyped, Steps, Asking, Flushing, Storing,
             Control, CallOK, NotCached, Chose, Filling, Unlisted, ToStore, Writing,
             Overwriting, AtList
<1> QED BY <1>1, <1>2, <1>3, <1>4, <1>5, <1>6, <1>7, <1>8, <1>9, <1>10, <1>11

-----------------------------------------------------------------------------
(* Devices *)

LEMMA DeviceStep ==
  ASSUME CacheInv, NEW d \in Dev, Device(d) \/ BackgroundBegins(d)
  PROVE  CacheInv'
<1>a. UNCHANGED <<status, of, buf, lru, busy, list, bcount, bpurge, wr, call, pc, ent, res,
         ret, poll>>
  BY DEF Device, Programmed, BackgroundDone, BackgroundBegins, bbvars, drvars, cvars
<1>b. TypeOK /\ Control /\ Data
  BY DEF CacheInv
<1>1. /\ disk' \in [Dev -> [Sec -> Val]]
      /\ chip' \in [Dev -> {"idle", "loading", "program", "background"}]
      /\ inflight' \in [Dev -> SUBSET [sec : Sec, val : Val]]
  <2>1. CASE Programmed(d)
    <3>1. \A s \in Sec : (IF \E r \in inflight[d] : r.sec = s
                         THEN (CHOOSE r \in inflight[d] : r.sec = s).val ELSE disk[d][s]) \in Val
      <4> SUFFICES ASSUME NEW s \in Sec
                   PROVE  (IF \E r \in inflight[d] : r.sec = s
                           THEN (CHOOSE r \in inflight[d] : r.sec = s).val ELSE disk[d][s]) \in Val
        OBVIOUS
      <4>1. inflight[d] \subseteq [sec : Sec, val : Val] /\ disk[d][s] \in Val
        BY <1>b DEF TypeOK
      <4>2. (\E r \in inflight[d] : r.sec = s) =>
               (CHOOSE r \in inflight[d] : r.sec = s) \in inflight[d]
        OBVIOUS
      <4> QED BY <4>1, <4>2
    <3> DEFINE new == [s \in Sec |-> IF \E r \in inflight[d] : r.sec = s
                         THEN (CHOOSE r \in inflight[d] : r.sec = s).val ELSE disk[d][s]]
    <3>2. new \in [Sec -> Val]
      BY <3>1
    <3>3. /\ disk' = [disk EXCEPT ![d] = new] /\ chip' = [chip EXCEPT ![d] = "idle"]
          /\ inflight' = [inflight EXCEPT ![d] = {}]
      BY <2>1 DEF Programmed
    <3> HIDE DEF new
    <3> QED BY <1>b, <3>2, <3>3 DEF TypeOK
  <2>2. CASE BackgroundDone(d) \/ BackgroundBegins(d)
    BY <1>b, <2>2 DEF TypeOK, BackgroundDone, BackgroundBegins
  <2> QED BY <2>1, <2>2 DEF Device
<1>2. TypeOK'
  BY <1>a, <1>b, <1>1 DEF TypeOK
<1>3. Control'
  BY <1>a, <1>b DEF Control, CallOK, NotCached, Chose, Filling, Unlisted, ToStore, Reading,
     Overwriting, Writing, AtList
<1>4. Data'
  BY <1>a, <1>b DEF Data, MarksUsed, NoDuplicates, Lists, ReadList, WriteList, Progress,
     BusyListed, Once, Reading, DevOf
<1> QED BY <1>2, <1>3, <1>4 DEF CacheInv

-----------------------------------------------------------------------------
(* _fatftc_devwrite *)

\* Reading sectors into page buffers leaves the cache entries alone.
LEMMA MakeListFacts ==
  ASSUME TypeOK, NEW i \in Idx, NEW n \in Nat, Missing(i) \in Seq(Sec), n <= Len(Missing(i)),
         MakeList(i, n)
  PROVE  /\ status' \in [Buf -> SUBSET {"USED", "BUSY", "DIRTY"}]
         /\ of' \in [Buf -> [dev : Dev, sec : Sec]] /\ buf' \in [Buf -> Val]
         /\ \A j \in Idx : status'[j] = status[j] /\ of'[j] = of[j]
         /\ \A j \in Page : status'[j] \in {status[j], {"USED", "BUSY"}}
         /\ \A j \in Page : j > MaxBufs + n => status'[j] = status[j]
<1> DEFINE used == (MaxBufs + 1) .. (MaxBufs + n)
<1>1. \A j \in used : Missing(i)[j - MaxBufs] \in Sec
  <2> SUFFICES ASSUME NEW j \in used PROVE Missing(i)[j - MaxBufs] \in Sec
    OBVIOUS
  <2>1. Len(Missing(i)) \in Nat /\ \A k \in 1 .. Len(Missing(i)) : Missing(i)[k] \in Sec
    BY SeqFacts
  <2>2. j - MaxBufs \in 1 .. Len(Missing(i))
    BY <2>1, Sizes
  <2> QED BY <2>1, <2>2
<1>2. DevOf(i) \in Dev
  BY FiniteIdx DEF TypeOK, DevOf
<1>3. /\ status' = [j \in Buf |-> IF j \in used THEN {"USED", "BUSY"} ELSE status[j]]
      /\ of' = [j \in Buf |-> IF j \in used THEN [of[j] EXCEPT !.sec = Missing(i)[j - MaxBufs]]
                              ELSE of[j]]
      /\ buf' = [j \in Buf |-> IF j \in used THEN disk[DevOf(i)][Missing(i)[j - MaxBufs]]
                               ELSE buf[j]]
  BY DEF MakeList, PageData
<1>4. \A j \in Idx : j \notin used /\ j \in Buf
  BY FiniteIdx, Sizes DEF Idx
<1>5. \A j \in Page : j \in Buf /\ (j > MaxBufs + n => j \notin used)
  BY FiniteIdx, Sizes DEF Page
<1> HIDE DEF used
<1>6. status' \in [Buf -> SUBSET {"USED", "BUSY", "DIRTY"}]
  BY <1>3 DEF TypeOK
<1>7. of' \in [Buf -> [dev : Dev, sec : Sec]]
  <2>1. \A r \in [dev : Dev, sec : Sec],
        x \in Sec : [r EXCEPT !.sec = x] \in [dev : Dev, sec : Sec]
    OBVIOUS
  <2>2. \A j \in Buf : (IF j \in used THEN [of[j] EXCEPT !.sec = Missing(i)[j - MaxBufs]]
                         ELSE of[j]) \in [dev : Dev, sec : Sec]
    BY <1>1, <2>1 DEF TypeOK
  <2> QED BY <1>3, <2>2
<1>8. buf' \in [Buf -> Val]
  BY <1>1, <1>2, <1>3 DEF TypeOK
<1> QED BY <1>3, <1>4, <1>5, <1>6, <1>7, <1>8

\* A page that is used after a step has been before, or is in the list of a write.
Taken(p) == \/ status'[p] = status[p]
            \/ \E d \in Dev : /\ busy'[d] = WriteSize
                              /\ \E k \in DOMAIN list'[d] : list'[d][k] = p

\* A write that begins: the entry it is for is at the head of the device's list.
LEMMA DevWriteFacts ==
  ASSUME CacheInv, NEW i \in Idx, NEW purge \in BOOLEAN, wr = NoWr, DevWrite(i, purge),
         UNCHANGED <<bcount, bpurge, devvars>>
  PROVE  /\ Data' /\ (ControlTyped' => TypeOK')
         /\ \A j \in Idx : status'[j] = status[j] /\ of'[j] = of[j]
         /\ \A d \in Dev : \/ busy'[d] = busy[d] /\ list'[d] = list[d]
                           \/ busy[d] = 0 /\ AtList(d, i)'
         /\ lru' = lru
         /\ res' \in {res, "ok", "busy", "err"}
         /\ ~ IoErrors => \A p \in Page : Taken(p)
<1>c. DevOf(i) \in Dev /\ i \in Buf
  BY FiniteIdx DEF CacheInv, TypeOK, DevOf
<1>d. PICK d \in Dev : d = DevOf(i)
  BY <1>c
<1> DEFINE D == DirtyList(i)
           M == Missing(i)
           n == Len(M)
           L == D \o [k \in 1 .. n |-> MaxBufs + k]
<1>a. TypeOK /\ Control /\ Data
  BY DEF CacheInv
<1>b. MarksUsed /\ NoDuplicates /\ Lists /\ Progress /\ BusyListed /\ Once(lru)
  BY <1>a DEF Data
<1>1. CASE UNCHANGED <<bbvars, lru, busy, list, wr>> /\ res' \in {"ok", "busy"}
  <2>1. UNCHANGED <<bbvars, lru, drvars, devvars, wr>>
    BY <1>1 DEF drvars
  <2>2. UNCHANGED <<status, of, lru, busy, list>>
    BY <1>1 DEF bbvars
  <2>3. Data' /\ (ControlTyped' => TypeOK')
    BY <1>1, <2>1, QuietData
  <2>4. \A j \in Idx : status'[j] = status[j] /\ of'[j] = of[j]
    BY <2>2
  <2>5. \A x \in Dev : busy'[x] = busy[x] /\ list'[x] = list[x]
    BY <2>2
  <2>6. \A p \in Page : Taken(p)
    BY <2>2 DEF Taken
  <2>7. \A x \in Dev : \/ busy'[x] = busy[x] /\ list'[x] = list[x]
                       \/ busy[x] = 0 /\ AtList(x, i)'
    BY <2>5
  <2>8. lru' = lru /\ res' \in {res, "ok", "busy", "err"}
    BY <1>1
  <2> QED BY <2>3, <2>4, <2>6, <2>7, <2>8
<1>2. ASSUME "DIRTY" \in status[i]
      PROVE  /\ D \in Seq(Idx) /\ Len(D) \in Nat /\ Len(D) >= 1 /\ D[1] = i
             /\ \A k \in 1 .. Len(D) : "DIRTY" \in status[D[k]] /\ DevOf(D[k]) = d /\
                D[k] \in Idx
             /\ \A k, m \in 1 .. Len(D) : D[k] = D[m] => k = m
             /\ M \in Seq(Sec) /\ n \in Nat /\ Len(D) + n = WriteSize /\ n <= PageBufs
  <2>1. /\ status \in [Buf -> SUBSET {"USED", "BUSY", "DIRTY"}]
        /\ of \in [Buf -> [dev : Dev, sec : Sec]]
        /\ \A j \in Idx : status[j] # {} => "USED" \in status[j]
    BY <1>a, <1>b DEF TypeOK, MarksUsed
  <2>2. /\ D \in Seq(Idx) /\ Len(D) >= 1 /\ D[1] = i
        /\ \A k \in 1 .. Len(D) : "DIRTY" \in status[D[k]] /\ DevOf(D[k]) = d
        /\ \A k, m \in 1 .. Len(D) : D[k] = D[m] => k = m
        /\ M \in Seq(Sec) /\ Len(D) + n = WriteSize
    BY <1>2, <1>b, <1>d, <2>1, ListFacts
  <2> HIDE DEF D, M
  <2>3. Len(D) \in Nat /\ n \in Nat /\ \A k \in 1 .. Len(D) : D[k] \in Idx
    BY <2>2, SeqFacts
  <2>4. n <= PageBufs
    <3> HIDE DEF n
    <3> QED BY <2>2, <2>3, Sizes
  <2> QED BY <2>2, <2>3, <2>4
<1>3. ASSUME NEW j \in Idx, "BUSY" \in status[j], busy[d] = 0 PROVE DevOf(j) # d
  BY <1>3, <1>b DEF BusyListed
<1>4. ASSUME NEW k \in Nat, k <= n, MakeList(i, k), "DIRTY" \in status[i],
             UNCHANGED <<lru, busy, list, wr>>,
             res' = "err"
      PROVE  /\ Data' /\ (ControlTyped' => TypeOK')
             /\ \A j \in Idx : status'[j] = status[j] /\ of'[j] = of[j]
             /\ \A e \in Dev : busy'[e] = busy[e] /\ list'[e] = list[e]
  <2>1. /\ status' \in [Buf -> SUBSET {"USED", "BUSY", "DIRTY"}]
        /\ of' \in [Buf -> [dev : Dev, sec : Sec]] /\ buf' \in [Buf -> Val]
        /\ \A j \in Idx : status'[j] = status[j] /\ of'[j] = of[j]
    BY <1>a, <1>2, <1>4, MakeListFacts
  <2>2. UNCHANGED <<lru, busy, list, wr, bcount, bpurge, disk, chip, inflight>>
    BY <1>4 DEF devvars
  <2>3. ControlTyped' => TypeOK'
    BY <1>a, <2>1, <2>2 DEF TypeOK, ControlTyped, Steps, Asking, Flushing
  <2>4. MarksUsed' /\ NoDuplicates' /\ Once(lru)'
    BY <1>b, <2>1, <2>2 DEF MarksUsed, NoDuplicates, Once
  <2>5. Lists'
    BY <1>b, <2>1, <2>2 DEF Lists, ReadList, WriteList, Reading, DevOf
  <2>6. Progress' /\ BusyListed'
    BY <1>b, <2>1, <2>2 DEF Progress, BusyListed, DevOf
  <2> QED BY <2>1, <2>2, <2>3, <2>4, <2>5, <2>6 DEF Data
<1>5. ASSUME MakeList(i, n), "DIRTY" \in status[i], busy[d] = 0,
             list' = [list EXCEPT ![d] = L],
             busy' = [busy EXCEPT ![d] = Len(D) + n],
             wr' = [dev |-> d, len |-> Len(D) + n, purge |-> purge], UNCHANGED <<lru, res>>
      PROVE  /\ Data' /\ (ControlTyped' => TypeOK')
             /\ \A j \in Idx : status'[j] = status[j] /\ of'[j] = of[j]
             /\ \A e \in Dev \ {d} : busy'[e] = busy[e] /\ list'[e] = list[e]
             /\ AtList(d, i)' /\ busy'[d] = WriteSize
             /\ \A p \in Page : \/ status'[p] = status[p]
                                \/ \E k \in DOMAIN list'[d] : list'[d][k] = p
  <2>1. /\ status' \in [Buf -> SUBSET {"USED", "BUSY", "DIRTY"}]
        /\ of' \in [Buf -> [dev : Dev, sec : Sec]] /\ buf' \in [Buf -> Val]
        /\ \A j \in Idx : status'[j] = status[j] /\ of'[j] = of[j]
        /\ \A j \in Page : j > MaxBufs + n => status'[j] = status[j]
    BY <1>a, <1>2, <1>5, MakeListFacts
  <2>2. /\ L \in Seq(Buf) /\ Len(L) = WriteSize /\ DOMAIN L = 1 .. WriteSize
        /\ \A k \in 1 .. WriteSize :
              \/ k \in 1 .. Len(D) /\ L[k] = D[k]
              \/ k - Len(D) \in 1 .. n /\ L[k] = MaxBufs + (k - Len(D)) /\ L[k] \notin Idx
    <3> DEFINE pages == [k \in 1 .. n |-> MaxBufs + k]
    <3>1. /\ D \in Seq(Buf) /\ Len(D) \in Nat
          /\ pages \in Seq(Buf) /\ Len(pages) = n /\ \A k \in 1 .. n : pages[k] = MaxBufs + k
      <4>1. \A k \in 1 .. n : MaxBufs + k \in Buf
        BY <1>2, <1>5, Sizes DEF Buf, Page
      <4>2. pages \in [1 .. n -> Buf] /\ n \in Nat
        BY <1>2, <1>5, <4>1
      <4>3. pages \in Seq(Buf) /\ DOMAIN pages = 1 .. n
        BY <4>2, SeqDef
      <4>4. Len(pages) = n
        BY <4>2, <4>3, LenProperties
      <4>5. D \in Seq(Buf)
        <5>1. D \in Seq(Idx) /\ Idx \subseteq Buf
          BY <1>2, <1>5, FiniteIdx
        <5> HIDE DEF D
        <5> QED BY <5>1
      <4> QED BY <1>2, <1>5, <4>3, <4>4, <4>5
    <3> HIDE DEF pages, D, M
    <3>2. /\ D \o pages \in Seq(Buf) /\ Len(D \o pages) = Len(D) + Len(pages)
          /\ \A k \in 1 .. Len(D) + Len(pages) :
                 (D \o pages)[k] = IF k <= Len(D) THEN D[k] ELSE pages[k - Len(D)]
      BY <3>1, ConcatProperties
    <3>3. L = D \o pages
      BY DEF pages
    <3> HIDE DEF L
    <3>4. L \in Seq(Buf) /\ Len(L) = WriteSize /\ DOMAIN L = 1 .. WriteSize
      BY <1>2, <1>5, <3>1, <3>2, <3>3, SeqFacts
    <3>5. ASSUME NEW k \in 1 .. WriteSize
          PROVE  \/ k \in 1 .. Len(D) /\ L[k] = D[k]
                 \/ k - Len(D) \in 1 .. n /\ L[k] = MaxBufs + (k - Len(D)) /\ L[k] \notin Idx
      <4>1. CASE k <= Len(D)
        BY <1>2, <1>5, <3>1, <3>2, <3>3, <4>1, Sizes
      <4>2. CASE k > Len(D)
        <5>1. k - Len(D) \in 1 .. n /\ L[k] = MaxBufs + (k - Len(D))
          BY <1>2, <1>5, <3>1, <3>2, <3>3, <4>2, Sizes
        <5> QED BY <5>1, Sizes DEF Idx
      <4> QED BY <1>2, <1>5, <4>1, <4>2, Sizes
    <3> QED BY <3>4, <3>5
  <2>3. /\ \A k, m \in 1 .. WriteSize : L[k] = L[m] => k = m
        /\ \A k \in 1 .. WriteSize : L[k] \in Idx =>
              DevOf(L[k]) = d /\ "DIRTY" \in status[L[k]]
        /\ 1 \in 1 .. WriteSize /\ L[1] = i
    <3> HIDE DEF L, D, M
    <3>a. /\ Len(D) \in Nat /\ n \in Nat /\ Len(D) + n = WriteSize
          /\ \A k \in 1 .. Len(D) : D[k] \in Idx
          /\ \A k, m \in 1 .. Len(D) : D[k] = D[m] => k = m
      BY <1>2, <1>5
    <3> HIDE DEF n
    <3>b. \A k \in 1 .. Len(D) : L[k] = D[k]
      <4> SUFFICES ASSUME NEW k \in 1 .. Len(D) PROVE L[k] = D[k]
        OBVIOUS
      <4>1. k \in 1 .. WriteSize /\ k - Len(D) \notin 1 .. n
        BY <3>a, Sizes
      <4> QED BY <2>2, <4>1
    <3>1. ASSUME NEW k \in 1 .. WriteSize, NEW m \in 1 .. WriteSize, L[k] = L[m] PROVE k = m
      <4>1. CASE k \in 1 .. Len(D)
        <5>1. L[k] = D[k] /\ m \in 1 .. Len(D) /\ L[m] = D[m]
          BY <2>2, <3>1, <3>a, <3>b, <4>1
        <5> QED BY <3>1, <3>a, <4>1, <5>1
      <4>2. CASE k \notin 1 .. Len(D)
        <5>1. L[k] = MaxBufs + (k - Len(D)) /\ L[k] \notin Idx
          BY <2>2, <4>2
        <5>2. L[m] = MaxBufs + (m - Len(D))
          <6>1. m \notin 1 .. Len(D)
            BY <3>1, <3>a, <3>b, <5>1
          <6> QED BY <2>2, <6>1
        <5>3. MaxBufs + (k - Len(D)) = MaxBufs + (m - Len(D))
          BY <3>1, <5>1, <5>2
        <5>4. k \in Nat /\ m \in Nat /\ MaxBufs \in Nat
          BY Sizes
        <5> QED BY <3>a, <5>3, <5>4
      <4> QED BY <4>1, <4>2
    <3>2. 1 \in 1 .. WriteSize /\ L[1] = i
      BY <1>2, <1>5, <2>2, Sizes
    <3> QED BY <1>2, <1>5, <2>2, <3>1, <3>2
  <2>4. busy' = [busy EXCEPT ![d] = WriteSize] /\
        wr' = [dev |-> d, len |-> WriteSize, purge |-> purge]
    BY <1>2, <1>5
  <2> HIDE DEF L, D, M
  <2>5. UNCHANGED <<lru, bcount, bpurge, disk, chip, inflight>>
    BY <1>5 DEF devvars
  <2>6. /\ busy'[d] = WriteSize /\ list'[d] = L
        /\ \A e \in Dev \ {d} : busy'[e] = busy[e] /\ list'[e] = list[e]
    BY <1>5, <1>a, <1>c, <2>4 DEF TypeOK
  <2>7. ControlTyped' => TypeOK'
    <3>1. WriteSize \in 0 .. WriteSize
      BY Sizes
    <3>2. wr' \in [dev : Dev, len : 0 .. WriteSize, purge : BOOLEAN]
      BY <2>4, <3>1
    <3>3. busy' \in [Dev -> (0 .. WriteSize) \cup {READ}] /\ list' \in [Dev -> Seq(Buf)]
      BY <1>a, <1>5, <2>2, <2>4, <3>1 DEF TypeOK
    <3> QED BY <1>a, <1>5, <2>1, <2>5, <3>2, <3>3 DEF TypeOK, ControlTyped, Steps, Asking,
               Flushing
  <2>8. MarksUsed' /\ NoDuplicates' /\ Once(lru)'
    BY <1>b, <2>1, <2>5 DEF MarksUsed, NoDuplicates, Once
  <2>9. Lists'
    <3> SUFFICES ASSUME NEW e \in Dev
                 PROVE  (busy'[e] = 0 /\ list'[e] = <<>>) \/ ReadList(e)' \/ WriteList(e)'
      BY DEF Lists
    <3>1. CASE e = d
      BY <2>1, <2>2, <2>3, <2>6, <3>1 DEF WriteList, DevOf
    <3>2. CASE e # d
      BY <1>b, <2>1, <2>6, <3>2 DEF Lists, ReadList, WriteList, Reading, DevOf
    <3> QED BY <3>1, <3>2
  <2>10. Progress'
    <3>1. wr' # NoWr => busy'[wr'.dev] = WriteSize
      BY <2>4, <2>6
    <3> SUFFICES ASSUME NEW e \in Dev, busy'[e] = WriteSize, NEW k \in 1 .. WriteSize,
                        list'[e][k] \in Idx, "BUSY" \in status'[list'[e][k]]
                 PROVE  IF wr'.dev = e THEN k = wr'.len
                        ELSE k \in {bcount'[e], bcount'[e] + 1}
      BY <3>1 DEF Progress
    <3>2. e # d
      BY <1>3, <1>5, <2>1, <2>3, <2>6
    <3>3. wr.dev # e /\ wr'.dev # e
      BY <2>4, <3>2, Sizes DEF NoWr
    <3> QED BY <1>b, <2>1, <2>5, <2>6, <3>2, <3>3 DEF Progress
  <2>11. BusyListed'
    <3> SUFFICES ASSUME NEW j \in Idx, "BUSY" \in status'[j]
                 PROVE  busy'[DevOf(j)'] # 0 /\
                        \E k \in DOMAIN list'[DevOf(j)'] : list'[DevOf(j)'][k] = j
      BY DEF BusyListed
    <3>1. DevOf(j)' = DevOf(j) /\ DevOf(j) \in Dev /\ "BUSY" \in status[j]
      BY <1>a, <2>1, FiniteIdx DEF DevOf, TypeOK
    <3>2. DevOf(j) # d
      BY <1>3, <1>5, <3>1
    <3> QED BY <1>b, <2>6, <3>1, <3>2 DEF BusyListed
  <2>12. AtList(d, i)'
    BY <2>2, <2>3, <2>6 DEF AtList
  <2>13. ASSUME NEW p \in Page, status'[p] # status[p]
         PROVE  \E k \in DOMAIN list'[d] : list'[d][k] = p
    <3>1. p \in Nat /\ p > MaxBufs /\ p <= MaxBufs + n
      <4>1. p \in Nat /\ p > MaxBufs
        BY Sizes DEF Page
      <4> QED BY <1>2, <1>5, <2>1, <2>13, <4>1, Sizes
    <3>2. PICK k \in 1 .. WriteSize : k = p - MaxBufs + Len(D) /\ k \notin 1 .. Len(D)
      <4>1. Len(D) \in Nat /\ n \in Nat /\ Len(D) + n = WriteSize
        BY <1>2, <1>5
      <4> HIDE DEF n
      <4> QED BY <3>1, <4>1, Sizes
    <3>3. L[k] = p
      BY <1>2, <1>5, <2>2, <3>1, <3>2, Sizes
    <3> QED BY <2>2, <2>6, <3>3
  <2> QED BY <2>1, <2>6, <2>7, <2>8, <2>9, <2>10, <2>11, <2>12, <2>13 DEF Data
<1>6. \/ UNCHANGED <<bbvars, lru, busy, list, wr>> /\ res' \in {"ok", "busy"}
      \/ /\ "DIRTY" \in status[i] /\ busy[d] = 0 /\ MakeList(i, n)
         /\ list' = [list EXCEPT ![d] = L] /\ busy' = [busy EXCEPT ![d] = Len(D) + n]
         /\ wr' = [dev |-> d, len |-> Len(D) + n, purge |-> purge] /\ UNCHANGED <<lru, res>>
      \/ /\ "DIRTY" \in status[i] /\ IoErrors /\ \E k \in 1 .. n : MakeList(i, k)
         /\ UNCHANGED <<lru, busy, list, wr>> /\ res' = "err"
  <2> HIDE DEF D, M
  <2> QED BY <1>d, Zenon DEF DevWrite, D, M
<1>7. CASE /\ "DIRTY" \in status[i] /\ IoErrors /\ \E k \in 1 .. n : MakeList(i, k)
           /\ UNCHANGED <<lru, busy, list, wr>> /\ res' = "err"
  <2>1. PICK k \in 1 .. n : MakeList(i, k)
    BY <1>7
  <2>2. k \in Nat /\ k <= n
    BY <1>2, <1>7
  <2> QED BY <1>4, <1>7, <2>1, <2>2
<1>8. CASE /\ "DIRTY" \in status[i] /\ busy[d] = 0 /\ MakeList(i, n)
           /\ list' = [list EXCEPT ![d] = L] /\ busy' = [busy EXCEPT ![d] = Len(D) + n]
           /\ wr' = [dev |-> d, len |-> Len(D) + n, purge |-> purge] /\ UNCHANGED <<lru, res>>
  <2> HIDE DEF L, D, M
  <2>1. /\ Data' /\ (ControlTyped' => TypeOK')
        /\ \A j \in Idx : status'[j] = status[j] /\ of'[j] = of[j]
        /\ \A e \in Dev \ {d} : busy'[e] = busy[e] /\ list'[e] = list[e]
        /\ AtList(d, i)' /\ busy'[d] = WriteSize
        /\ \A p \in Page : \/ status'[p] = status[p]
                           \/ \E k \in DOMAIN list'[d] : list'[d][k] = p
    BY <1>5, <1>8
  <2>2. \A p \in Page : Taken(p)
    BY <2>1 DEF Taken
  <2> QED BY <1>8, <2>1, <2>2
<1> QED BY <1>1, <1>6, <1>7, <1>8

-----------------------------------------------------------------------------
(* Steps of fatftc_read and fatftc_write that change entries *)

LEMMA WriteOutStep ==
  ASSUME CacheInv, Evict \/ FlushEntry
  PROVE  CacheInv'
<1>a. TypeOK /\ CallOK /\ NotCached /\ Chose /\ Filling /\ Unlisted /\ ToStore
  BY DEF CacheInv, Control
<1>b. ControlTyped /\ 1 \in Idx /\ 0 \in 0 .. MaxDevs /\ 1 \in 0 .. MaxDevs /\ ent \in Idx
  BY <1>a, PollTyped DEF ControlTyped
<1>1. CASE /\ DevWrite(ent, TRUE) \/ DevWrite(ent, FALSE)
           /\ wr = NoWr /\ pc \in {"evict", "flush"}
           /\ UNCHANGED <<bcount, bpurge, devvars, call, pc, ent, ret, poll>>
  <2>1. /\ Data' /\ (ControlTyped' => TypeOK')
        /\ \A j \in Idx : status'[j] = status[j] /\ of'[j] = of[j]
        /\ \A d \in Dev : \/ busy'[d] = busy[d] /\ list'[d] = list[d]
                          \/ busy[d] = 0 /\ AtList(d, ent)'
        /\ lru' = lru /\ res' \in {res, "ok", "busy", "err"}
    BY <1>1, <1>b, DevWriteFacts
  <2>2. ControlTyped'
    BY <1>1, <1>b, <2>1 DEF ControlTyped
  <2>3. Chose'
    <3>1. pc = "evict" => call.dev \in Dev
      BY <1>a, CallFacts DEF Asking
    <3>2. CASE pc = "evict" /\ AtList(call.dev, ent)'
      BY <1>1, <1>a, <1>b, <2>1, <3>2 DEF Chose, AtList
    <3>3. CASE pc = "evict" /\ ~ AtList(call.dev, ent)'
      <4>1. busy'[call.dev] = busy[call.dev] /\ list'[call.dev] = list[call.dev]
        BY <1>1, <2>1, <3>1, <3>3 DEF AtList
      <4> QED BY <1>1, <1>a, <1>b, <2>1, <3>3, <4>1 DEF Chose, AtList, Overwriting
    <3>4. CASE pc # "evict"
      BY <1>1, <3>4 DEF Chose
    <3> QED BY <3>2, <3>3, <3>4
  <2>4. CallOK' /\ NotCached' /\ Filling' /\ Unlisted' /\ ToStore'
    BY <1>1, <1>a, <2>1 DEF CallOK, NotCached, Filling, Unlisted, ToStore, Reading, Storing,
       Asking, Flushing
  <2> QED BY <2>1, <2>2, <2>3, <2>4 DEF CacheInv, Control
<1>2. CASE Evict /\ UNCHANGED <<bbvars, lru, busy, list, wr>> /\ res \in {"busy", "err"}
  <2>1. /\ UNCHANGED <<bbvars, lru, drvars, devvars, wr, call>> /\ pc = "evict"
        /\ pc' \in {"evict", "idle"} /\ ent' \in {ent, 1} /\ (pc' = "evict" => ent' = ent)
        /\ res' = "none" /\ ret' \in {ret, "err"} /\ poll' \in {poll, 1}
    BY <1>2 DEF Evict, AtStep, Tick, Stay, Goto, GotoWith, Return, drvars
  <2>2. Data' /\ (ControlTyped' => TypeOK') /\ \A i \in Idx : Reading(i) <=> Reading(i)'
    BY <2>1, QuietData
  <2>3. UNCHANGED <<status, of, lru, busy, list>>
    BY <2>1 DEF bbvars, drvars
  <2>4. ControlTyped'
    BY <1>b, <2>1 DEF ControlTyped, Steps, Asking
  <2>5. Control'
    BY <1>a, <2>1, <2>2, <2>3 DEF Control, CallOK, NotCached, Chose, Filling, Unlisted,
       ToStore, Storing, Asking, Flushing, AtList, Overwriting
  <2> QED BY <2>2, <2>4, <2>5 DEF CacheInv
<1>3. CASE Evict
  BY <1>1, <1>2, <1>3 DEF Evict, AtStep, Stay, Goto, GotoWith
<1>4. CASE FlushEntry
  BY <1>1, <1>4 DEF FlushEntry, AtStep
<1> QED BY <1>3, <1>4

\* An entry that is neither busy nor dirty is in no list.
LEMMA IdleInNoList ==
  ASSUME TypeOK, Lists, NEW e \in Idx, {"BUSY", "DIRTY"} \cap status[e] = {}
  PROVE  \A d \in Dev : ~ AtList(d, e)
BY AtListFacts DEF AtList

\* Such an entry may change as long as it does not become busy.
LEMMA EntryChange ==
  ASSUME TypeOK, Lists, Progress, BusyListed, NEW e \in Idx, \A d \in Dev : ~ AtList(d, e),
         \A j \in Buf \ {e} : status'[j] = status[j] /\ of'[j] = of[j],
         "BUSY" \notin status'[e], UNCHANGED <<busy, list, bcount, wr>>
  PROVE  Lists' /\ Progress' /\ BusyListed'
<1>1. \A d \in Dev : \A k \in DOMAIN list[d] : list[d][k] # e /\ list[d][k] \in Buf
  BY AtListFacts DEF AtList
<1>2. \A d \in Dev : ReadList(d) => 1 \in DOMAIN list[d]
  BY SeqFacts DEF TypeOK, ReadList
<1>3. \A d \in Dev : WriteList(d) => \A k \in 1 .. WriteSize : k \in DOMAIN list[d]
  BY SeqFacts DEF TypeOK, WriteList
<1>4. \A d \in Dev : busy[d] = WriteSize => WriteList(d)
  BY Sizes DEF Lists, ReadList
<1>5. Lists'
  <2> SUFFICES ASSUME NEW d \in Dev
               PROVE  (busy'[d] = 0 /\ list'[d] = <<>>) \/ ReadList(d)' \/ WriteList(d)'
    BY DEF Lists
  <2>1. CASE ReadList(d)
    BY <1>1, <1>2, <2>1, FiniteIdx DEF ReadList, Reading, DevOf
  <2>2. CASE WriteList(d)
    BY <1>1, <1>3, <2>2 DEF WriteList, DevOf
  <2> QED BY <2>1, <2>2 DEF Lists
<1>6. Progress'
  BY <1>1, <1>3, <1>4 DEF Progress
<1>7. BusyListed'
  BY FiniteIdx DEF BusyListed, DevOf
<1> QED BY <1>5, <1>6, <1>7

LEMMA HitStep ==
  ASSUME CacheInv, Hit
  PROVE  CacheInv'
<1>a. TypeOK /\ CallOK /\ NotCached /\ Chose /\ Filling /\ Unlisted /\ ToStore /\ Data
  BY DEF CacheInv, Control
<1>b. ControlTyped /\ 1 \in Idx /\ ent \in Idx
  BY <1>a, PollTyped DEF ControlTyped
<1>1. /\ pc = "hit" /\ poll = 0 /\ wr = NoWr /\ AddEntry(ent)
      /\ UNCHANGED <<status, of, buf, busy, list, bcount, bpurge, disk, chip, inflight, call,
            res, wr, poll>>
      /\ \/ Writing /\ pc' = "copy" /\ ent' = ent /\ ret' = ret
         \/ pc' = "idle" /\ ent' = 1 /\ ret' = "ok"
  BY DEF Hit, AtStep, Deliver, Goto, GotoWith, Return, bbvars, drvars, devvars
<1>2. lru' \in Seq(Idx) /\ Entries(lru') = Entries(lru) \cup {ent} /\
      (Once(lru) => Once(lru'))
  BY <1>1, <1>a, <1>b, AddEntryFacts DEF TypeOK, Listed, Entries
<1>3. TypeOK'
  BY <1>1, <1>2, <1>a, <1>b DEF TypeOK
<1>4. Data'
  BY <1>1, <1>2, <1>a DEF Data, MarksUsed, NoDuplicates, Lists, ReadList, WriteList, Progress,
     BusyListed, Once, Reading, DevOf
<1>5. Control'
  BY <1>1, <1>2, <1>a DEF Control, CallOK, NotCached, Chose, Filling, Unlisted, ToStore,
     Reading, Storing, Asking, Flushing, Writing
<1> QED BY <1>3, <1>4, <1>5 DEF CacheInv

LEMMA AssignStep ==
  ASSUME CacheInv, Assign
  PROVE  CacheInv'
<1>a. TypeOK /\ CallOK /\ NotCached /\ Chose /\ Filling /\ Unlisted /\ ToStore
  BY DEF CacheInv, Control
<1>b. MarksUsed /\ NoDuplicates /\ Lists /\ Progress /\ BusyListed /\ Once(lru)
  BY DEF CacheInv, Data
<1>c. ControlTyped /\ ent \in Idx /\ ent \in Buf /\ Idx \subseteq Buf
  BY <1>a, PollTyped, FiniteIdx DEF ControlTyped
<1> DEFINE here == [dev |-> call.dev, sec |-> call.sec]
<1>1. /\ pc = "evict" /\ poll = 0 /\ wr = NoWr /\ "DIRTY" \notin status[ent]
      /\ status' = [status EXCEPT ![ent] = {"USED"}] /\ of' = [of EXCEPT ![ent] = here]
      /\ \/ Overwriting /\ AddEntry(ent) /\ pc' = "overwrite"
         \/ ~Overwriting /\ lru' = lru /\ pc' = "fill"
      /\ ent' = ent /\ ret' = ret /\ res' = "none"
      /\ UNCHANGED <<buf, busy, list, bcount, bpurge, disk, chip, inflight, call, wr, poll>>
  BY DEF Assign, AtStep, Goto, GotoWith, drvars, devvars
<1>2. here \in [dev : Dev, sec : Sec] /\ call.dev \in Dev
  BY <1>1, <1>a, CallFacts DEF Asking
<1> HIDE DEF here
<1>3. \A d \in Dev : ~ AtList(d, ent)
  <2>1. {"BUSY", "DIRTY"} \cap status[ent] = {}
    BY <1>1, <1>a DEF Chose
  <2> QED BY <1>a, <1>b, <1>c, <2>1, IdleInNoList
<1>4. /\ status'[ent] = {"USED"} /\ of'[ent] = here
      /\ \A j \in Buf \ {ent} : status'[j] = status[j] /\ of'[j] = of[j]
  BY <1>1, <1>a, <1>c DEF TypeOK
<1>5. /\ lru' \in Seq(Idx) /\ Once(lru')
      /\ \/ lru' = lru /\ pc' = "fill"
         \/ Entries(lru') = Entries(lru) \cup {ent} /\ pc' = "overwrite"
  BY <1>1, <1>a, <1>b, <1>c, AddEntryFacts DEF TypeOK, Listed, Entries
<1>6. TypeOK'
  BY <1>1, <1>2, <1>5, <1>a, <1>c DEF TypeOK
<1>7. MarksUsed'
  BY <1>4, <1>b, <1>c DEF MarksUsed
<1>8. NoDuplicates'
  <2> SUFFICES ASSUME NEW i \in Idx, NEW j \in Idx, "USED" \in status'[i],
                      "USED" \in status'[j],
                      of'[i] = of'[j], i # j
               PROVE  FALSE
    BY DEF NoDuplicates
  <2>1. \A k \in Idx \ {ent} : "USED" \in status'[k] => of'[k] # here
    BY <1>1, <1>4, <1>a, <1>c DEF NotCached, here
  <2>2. i # ent /\ j # ent
    BY <1>4, <2>1
  <2> QED BY <1>4, <1>b, <1>c, <2>2 DEF NoDuplicates
<1>9. Lists' /\ Progress' /\ BusyListed'
  <2>1. "BUSY" \notin status'[ent]
    BY <1>4
  <2> QED BY <1>1, <1>3, <1>4, <1>a, <1>b, <1>c, <2>1, EntryChange
<1>10. CallOK' /\ ToStore'
  BY <1>1, <1>5, <1>a DEF CallOK, ToStore, Storing, Asking, Flushing, Writing, Overwriting
<1>11. NotCached' /\ Chose'
  BY <1>1 DEF NotCached, Chose
<1>12. Filling'
  BY <1>1, <1>2, <1>3, <1>4, <1>a DEF Filling, Chose, here
<1>13. Unlisted'
  <2> SUFFICES ASSUME NEW i \in Idx, i \notin Entries(lru')
               PROVE  /\ "DIRTY" \notin status'[i]
                      /\ "USED" \in status'[i] => Reading(i)' \/
                         (ent' = i /\ pc' \in {"fill", "filled"})
    BY DEF Unlisted
  <2>1. CASE i = ent
    BY <1>1, <1>4, <1>5, <2>1
  <2>2. CASE i # ent
    BY <1>1, <1>4, <1>5, <1>a, <1>c, <2>2 DEF Unlisted, Reading
  <2> QED BY <2>1, <2>2
<1> QED BY <1>5, <1>6, <1>7, <1>8, <1>9, <1>10, <1>11, <1>12, <1>13 DEF CacheInv, Control,
           Data

LEMMA FillStep ==
  ASSUME CacheInv, Fill
  PROVE  CacheInv'
<1>a. TypeOK /\ CallOK /\ NotCached /\ Chose /\ Filling /\ Unlisted /\ ToStore
  BY DEF CacheInv, Control
<1>b. MarksUsed /\ NoDuplicates /\ Lists /\ Progress /\ BusyListed /\ Once(lru)
  BY DEF CacheInv, Data
<1>c. /\ ControlTyped /\ ent \in Idx /\ ent \in Buf /\ Idx \subseteq Buf /\ 1 \in Idx
      /\ 0 \in 0 .. MaxDevs /\ 1 \in 0 .. MaxDevs
  BY <1>a, PollTyped, FiniteIdx DEF ControlTyped
<1> DEFINE d == call.dev
<1>d. pc = "fill" /\ poll = 0 /\ wr = NoWr
  BY DEF Fill, AtStep
<1>e. d \in Dev /\ call.sec \in Sec
  BY <1>a, <1>d, CallFacts DEF Asking
<1>f. /\ status[ent] = {"USED"} /\ of[ent] = [dev |-> d, sec |-> call.sec] /\ busy[d] = 0
      /\ \A e \in Dev : ~ AtList(e, ent)
  <2>1. status[ent] = {"USED"} /\ of[ent] = [dev |-> d, sec |-> call.sec] /\ busy[d] = 0
    BY <1>a, <1>d DEF Filling
  <2>2. {"BUSY", "DIRTY"} \cap status[ent] = {}
    BY <2>1
  <2> QED BY <1>a, <1>b, <1>c, <2>1, <2>2, IdleInNoList
<1>g. UNCHANGED <<of, lru, bcount, bpurge, disk, chip, inflight, call, res, wr>>
  BY DEF Fill, devvars
<1>h. \/ /\ buf' = [buf EXCEPT ![ent] = disk[d][call.sec]] /\ poll' = 1 /\ pc' = "filled"
         /\ UNCHANGED <<ent, ret, status, busy, list>>
      \/ /\ poll' = 1 /\ pc' = "fill" /\ UNCHANGED <<ent, ret, status, buf, busy, list>>
      \/ /\ busy' = [busy EXCEPT ![d] = READ] /\ list' = [list EXCEPT ![d] = <<ent>>]
         /\ status' = [status EXCEPT ![ent] = @ \cup {"BUSY"}]
         /\ poll' = 0 /\ pc' = "idle" /\ ret' = "busy" /\ ent' = 1 /\ UNCHANGED buf
      \/ /\ status' = [status EXCEPT ![ent] = Unused]
         /\ poll' = 0 /\ pc' = "idle" /\ ret' = "err" /\ ent' = 1 /\
            UNCHANGED <<buf, busy, list>>
  BY <1>d DEF Fill, Tick, NoTick, Goto, GotoWith, Stay, Return
<1> HIDE DEF d
<1>1. ASSUME buf' \in [Buf -> Val], UNCHANGED <<ent, ret, status, busy, list>>, poll' = 1,
             pc' \in {"fill", "filled"}
      PROVE  CacheInv'
  <2>1. TypeOK'
    BY <1>1, <1>a, <1>c, <1>g DEF TypeOK
  <2>2. Data'
    BY <1>1, <1>b, <1>g DEF Data, MarksUsed, NoDuplicates, Lists, ReadList, WriteList,
       Progress, BusyListed, Once, Reading, DevOf
  <2>3. Control'
    BY <1>1, <1>a, <1>d, <1>g DEF Control, CallOK, NotCached, Chose, Filling, Unlisted,
       ToStore, Reading, Storing, Asking, Flushing, Overwriting
  <2> QED BY <2>1, <2>2, <2>3 DEF CacheInv
<1>2. CASE /\ buf' = [buf EXCEPT ![ent] = disk[d][call.sec]] /\ poll' = 1 /\ pc' = "filled"
           /\ UNCHANGED <<ent, ret, status, busy, list>>
  <2>1. disk[d][call.sec] \in Val
    BY <1>a, <1>e DEF TypeOK
  <2>2. buf' \in [Buf -> Val]
    BY <1>2, <1>a, <2>1 DEF TypeOK
  <2> QED BY <1>1, <1>2, <2>2
<1>3. CASE poll' = 1 /\ pc' = "fill" /\ UNCHANGED <<ent, ret, status, buf, busy, list>>
  <2>1. buf' \in [Buf -> Val]
    BY <1>3, <1>a DEF TypeOK
  <2> QED BY <1>1, <1>3, <2>1
<1>4. CASE /\ busy' = [busy EXCEPT ![d] = READ] /\ list' = [list EXCEPT ![d] = <<ent>>]
           /\ status' = [status EXCEPT ![ent] = @ \cup {"BUSY"}]
           /\ poll' = 0 /\ pc' = "idle" /\ ret' = "busy" /\ ent' = 1 /\ UNCHANGED buf
  <2>1. /\ status'[ent] = {"USED", "BUSY"} /\ busy'[d] = READ /\ list'[d] = <<ent>>
        /\ \A j \in Buf \ {ent} : status'[j] = status[j]
        /\ \A e \in Dev \ {d} : busy'[e] = busy[e] /\ list'[e] = list[e]
    BY <1>4, <1>a, <1>c, <1>e, <1>f DEF TypeOK
  <2>2. TypeOK'
    <3>1. <<ent>> \in Seq(Buf)
      BY <1>c
    <3> QED BY <1>4, <1>a, <1>c, <1>g, <3>1 DEF TypeOK
  <2>3. MarksUsed' /\ NoDuplicates' /\ Once(lru)'
    BY <1>b, <1>c, <1>f, <1>g, <2>1 DEF MarksUsed, NoDuplicates, Once
  <2>4. \A e \in Dev \ {d} : \A k \in DOMAIN list[e] : list[e][k] # ent /\ list[e][k] \in Buf
    BY <1>a, <1>b, <1>f, AtListFacts DEF AtList
  <2>5. Lists'
    <3> SUFFICES ASSUME NEW e \in Dev
                 PROVE  (busy'[e] = 0 /\ list'[e] = <<>>) \/ ReadList(e)' \/ WriteList(e)'
      BY DEF Lists
    <3>1. CASE e = d
      <4>1. Len(list'[d]) = 1 /\ list'[d][1] = ent
        BY <2>1
      <4>2. "BUSY" \in status'[ent] /\ "DIRTY" \notin status'[ent] /\ of'[ent].dev = d
        BY <1>f, <1>g, <2>1
      <4>3. busy'[d] = READ
        BY <2>1
      <4> QED BY <1>c, <3>1, <4>1, <4>2, <4>3 DEF ReadList, Reading, DevOf
    <3>2. CASE e # d /\ ReadList(e)
      <4>1. 1 \in DOMAIN list[e]
        BY <1>a, <3>2, SeqFacts DEF TypeOK, ReadList
      <4> QED BY <1>g, <2>1, <2>4, <3>2, <4>1 DEF ReadList, Reading, DevOf
    <3>3. CASE e # d /\ WriteList(e)
      <4>1. DOMAIN list[e] = 1 .. WriteSize
        BY <1>a, <3>3, SeqFacts DEF TypeOK, WriteList
      <4> QED BY <1>g, <2>1, <2>4, <3>3, <4>1 DEF WriteList, DevOf
    <3> QED BY <1>b, <2>1, <3>1, <3>2, <3>3 DEF Lists
  <2>6. Progress'
    <3> SUFFICES ASSUME NEW e \in Dev, busy'[e] = WriteSize, NEW k \in 1 .. WriteSize,
                        list'[e][k] \in Idx, "BUSY" \in status'[list'[e][k]]
                 PROVE  IF wr'.dev = e THEN k = wr'.len
                        ELSE k \in {bcount'[e], bcount'[e] + 1}
      BY <1>d, <1>g DEF Progress
    <3>1. e # d /\ WriteList(e)
      BY <1>b, <2>1, Sizes DEF Lists, ReadList
    <3>2. k \in DOMAIN list[e]
      BY <1>a, <3>1, SeqFacts DEF TypeOK, WriteList
    <3> QED BY <1>b, <1>g, <2>1, <2>4, <3>1, <3>2 DEF Progress
  <2>7. BusyListed'
    <3> SUFFICES ASSUME NEW j \in Idx, "BUSY" \in status'[j]
                 PROVE  busy'[DevOf(j)'] # 0 /\
                        \E k \in DOMAIN list'[DevOf(j)'] : list'[DevOf(j)'][k] = j
      BY DEF BusyListed
    <3>1. CASE j = ent
      <4>1. DevOf(j)' = d /\ 1 \in DOMAIN <<ent>> /\ <<ent>>[1] = ent
        BY <1>f, <1>g, <3>1 DEF DevOf
      <4> QED BY <2>1, <3>1, <4>1, Sizes
    <3>2. CASE j # ent
      <4>1. DevOf(j)' = DevOf(j) /\ DevOf(j) \in Dev /\ "BUSY" \in status[j]
        BY <1>a, <1>c, <1>g, <2>1, <3>2 DEF DevOf, TypeOK
      <4>2. DevOf(j) # d
        BY <1>b, <1>f, <4>1 DEF BusyListed
      <4> QED BY <1>b, <2>1, <4>1, <4>2 DEF BusyListed
    <3> QED BY <3>1, <3>2
  <2>8. CallOK' /\ NotCached' /\ Chose' /\ Filling' /\ ToStore'
    BY <1>4 DEF CallOK, NotCached, Chose, Filling, ToStore, Storing, Asking, Flushing
  <2>9. Unlisted'
    BY <1>a, <1>c, <1>d, <1>g, <2>1 DEF Unlisted, Reading
  <2> QED BY <2>2, <2>3, <2>5, <2>6, <2>7, <2>8, <2>9 DEF CacheInv, Control, Data
<1>5. CASE /\ status' = [status EXCEPT ![ent] = Unused]
           /\ poll' = 0 /\ pc' = "idle" /\ ret' = "err" /\ ent' = 1 /\
              UNCHANGED <<buf, busy, list>>
  <2>1. /\ status'[ent] = {} /\ \A j \in Buf \ {ent} : status'[j] = status[j] /\
           of'[j] = of[j]
    BY <1>5, <1>a, <1>c, <1>g DEF TypeOK, Unused
  <2>2. TypeOK'
    BY <1>5, <1>a, <1>c, <1>g DEF TypeOK, Unused
  <2>3. MarksUsed' /\ NoDuplicates' /\ Once(lru)'
    BY <1>b, <1>c, <1>g, <2>1 DEF MarksUsed, NoDuplicates, Once
  <2>4. Lists' /\ Progress' /\ BusyListed'
    <3>1. "BUSY" \notin status'[ent]
      BY <2>1
    <3> QED BY <1>5, <1>a, <1>b, <1>c, <1>f, <1>g, <2>1, <3>1, EntryChange
  <2>5. CallOK' /\ NotCached' /\ Chose' /\ Filling' /\ ToStore'
    BY <1>5 DEF CallOK, NotCached, Chose, Filling, ToStore, Storing, Asking, Flushing
  <2>6. Unlisted'
    BY <1>a, <1>c, <1>d, <1>g, <2>1 DEF Unlisted, Reading
  <2> QED BY <2>2, <2>3, <2>4, <2>5, <2>6 DEF CacheInv, Control, Data
<1> QED BY <1>h, <1>2, <1>3, <1>4, <1>5

LEMMA FilledStep ==
  ASSUME CacheInv, Filled
  PROVE  CacheInv'
<1>a. TypeOK /\ CallOK /\ NotCached /\ Chose /\ Filling /\ Unlisted /\ ToStore /\ Data
  BY DEF CacheInv, Control
<1>b. ControlTyped /\ 1 \in Idx /\ ent \in Idx /\ ent \in Buf
  BY <1>a, PollTyped, FiniteIdx DEF ControlTyped
<1>1. /\ pc = "filled" /\ poll = 0 /\ wr = NoWr /\ AddEntry(ent)
      /\ status' = [status EXCEPT ![ent] = @ \ {"BUSY"}]
      /\ UNCHANGED <<of, buf, busy, list, bcount, bpurge, disk, chip, inflight, call, res,
            wr, poll>>
      /\ \/ Writing /\ pc' = "copy" /\ ent' = ent /\ ret' = ret
         \/ pc' = "idle" /\ ent' = 1 /\ ret' = "ok"
  BY DEF Filled, AtStep, ClearBusy, Deliver, Goto, GotoWith, Return, drvars, devvars
<1>2. status' = status
  <2>1. status[ent] = {"USED"}
    BY <1>1, <1>a DEF Filling
  <2> QED BY <1>1, <1>a, <1>b, <2>1 DEF TypeOK
<1>3. lru' \in Seq(Idx) /\ Entries(lru') = Entries(lru) \cup {ent} /\
      (Once(lru) => Once(lru'))
  BY <1>1, <1>a, <1>b, AddEntryFacts DEF TypeOK, Listed, Entries
<1>4. TypeOK'
  BY <1>1, <1>2, <1>3, <1>a, <1>b DEF TypeOK
<1>5. Data'
  BY <1>1, <1>2, <1>3, <1>a DEF Data, MarksUsed, NoDuplicates, Lists, ReadList, WriteList,
     Progress, BusyListed, Once, Reading, DevOf
<1>6. Control'
  BY <1>1, <1>2, <1>3, <1>a DEF Control, CallOK, NotCached, Chose, Filling, Unlisted, ToStore,
     Reading, Storing, Asking, Flushing, Writing
<1> QED BY <1>4, <1>5, <1>6 DEF CacheInv

LEMMA CopyStep ==
  ASSUME CacheInv, Copy
  PROVE  CacheInv'
<1>a. TypeOK /\ Control /\ Data
  BY DEF CacheInv
<1>1. /\ pc \in {"copy", "overwrite"} /\ buf' = [buf EXCEPT ![ent] = call.val] /\ pc' = "mark"
      /\ UNCHANGED <<status, of, lru, busy, list, bcount, bpurge, disk, chip, inflight, call,
            res,
                     wr, poll, ent, ret>>
  BY DEF Copy, AtStep, Goto, GotoWith, drvars, devvars
<1>2. call.val \in Val
  BY <1>1, <1>a, CallFacts DEF Control, Storing
<1>3. TypeOK'
  BY <1>1, <1>2, <1>a DEF TypeOK
<1>4. Data'
  BY <1>1, <1>a DEF Data, MarksUsed, NoDuplicates, Lists, ReadList, WriteList, Progress,
     BusyListed, Once, Reading, DevOf
<1>5. Control'
  BY <1>1, <1>a DEF Control, CallOK, NotCached, Chose, Filling, Unlisted, ToStore, Reading,
     Storing, Asking, Flushing, Writing
<1> QED BY <1>3, <1>4, <1>5 DEF CacheInv

LEMMA MarkStep ==
  ASSUME CacheInv, Mark
  PROVE  CacheInv'
<1>a. TypeOK /\ CallOK /\ NotCached /\ Chose /\ Filling /\ Unlisted /\ ToStore
  BY DEF CacheInv, Control
<1>b. MarksUsed /\ NoDuplicates /\ Lists /\ Progress /\ BusyListed /\ Once(lru)
  BY DEF CacheInv, Data
<1>c. ControlTyped /\ 1 \in Idx /\ ent \in Idx /\ ent \in Buf /\ Idx \subseteq Buf
  BY <1>a, PollTyped, FiniteIdx DEF ControlTyped
<1>1. /\ pc = "mark" /\ pc' = "idle" /\ ret' = "ok" /\ ent' = 1
      /\ UNCHANGED <<of, buf, lru, busy, list, bcount, bpurge, disk, chip, inflight, call,
            res, wr, poll>>
  BY DEF Mark, AtStep, Return, drvars, devvars
<1>2. /\ status' \in [Buf -> SUBSET {"USED", "BUSY", "DIRTY"}]
      /\ \A j \in Buf \ {ent} : status'[j] = status[j]
      /\ \/ status'[ent] = status[ent]
         \/ /\ status'[ent] = status[ent] \cup {"DIRTY"}
            /\ "USED" \in status[ent] /\ "BUSY" \notin status[ent]
  BY <1>a, <1>c DEF Mark, Markable, TypeOK
<1>3. TypeOK'
  BY <1>1, <1>2, <1>a, <1>c DEF TypeOK
<1>4. MarksUsed' /\ NoDuplicates' /\ Once(lru)'
  BY <1>1, <1>2, <1>b, <1>c DEF MarksUsed, NoDuplicates, Once
<1>5. ASSUME NEW j \in Idx
      PROVE  /\ "BUSY" \in status'[j] => "BUSY" \in status[j]
             /\ "DIRTY" \in status[j] => "DIRTY" \in status'[j]
             /\ Reading(j) => "BUSY" \in status'[j] /\ "DIRTY" \notin status'[j]
  <2>1. CASE j = ent
    BY <1>2, <2>1 DEF Reading
  <2>2. CASE j # ent
    BY <1>2, <1>c, <2>2 DEF Reading
  <2> QED BY <2>1, <2>2
<1>6. Lists'
  <2> SUFFICES ASSUME NEW d \in Dev
               PROVE  (busy'[d] = 0 /\ list'[d] = <<>>) \/ ReadList(d)' \/ WriteList(d)'
    BY DEF Lists
  <2>1. CASE ReadList(d)
    BY <1>1, <1>5, <2>1 DEF ReadList, DevOf, Reading
  <2>2. CASE WriteList(d)
    BY <1>1, <1>5, <2>2 DEF WriteList, DevOf
  <2> QED BY <1>1, <1>b, <2>1, <2>2 DEF Lists
<1>7. Progress'
  BY <1>1, <1>5, <1>b DEF Progress
<1>7a. BusyListed'
  BY <1>1, <1>5, <1>b DEF BusyListed, DevOf
<1>8. CallOK' /\ NotCached' /\ Chose' /\ Filling' /\ ToStore'
  BY <1>1 DEF CallOK, NotCached, Chose, Filling, ToStore, Storing, Asking, Flushing
<1>9. Unlisted'
  <2> SUFFICES ASSUME NEW i \in Idx, i \notin Entries(lru)
               PROVE  "DIRTY" \notin status'[i] /\ ("USED" \in status'[i] => Reading(i)')
    BY <1>1 DEF Unlisted
  <2>1. i # ent
    BY <1>1, <1>a DEF ToStore, Storing
  <2> QED BY <1>1, <1>2, <1>a, <1>c, <2>1 DEF Unlisted, Reading
<1> QED BY <1>3, <1>4, <1>6, <1>7, <1>7a, <1>8, <1>9 DEF CacheInv, Control, Data

-----------------------------------------------------------------------------
(* Steps of a write in progress *)

\* What such a step has to leave alone for the call in progress.
LEMMA ControlFrame ==
  ASSUME TypeOK, Control, UNCHANGED <<call, pc, ent>>, \A j \in Idx : of'[j] = of[j],
         \A j \in Idx : "USED" \in status'[j] => "USED" \in status[j],
         pc \in {"evict", "fill", "filled"} /\ "DIRTY" \notin status[ent] =>
            status'[ent] = status[ent],
         "DIRTY" \in status[ent] /\ "BUSY" \in status'[ent] => "DIRTY" \in status'[ent],
         \A d \in Dev : busy'[d] = 0 \/ (busy'[d] = busy[d] /\ list'[d] = list[d]),
         pc \notin Storing, Unlisted'
  PROVE  Control'
<1>a. CallOK /\ NotCached /\ Chose /\ Filling /\ ent \in Idx
  BY DEF Control, TypeOK
<1>1. pc \in {"getfree", "evict", "fill"} => call.dev \in Dev
  BY <1>a, CallFacts DEF Asking
<1>2. CallOK' /\ ToStore'
  BY <1>a DEF CallOK, ToStore, Overwriting, Writing, Asking, Flushing
<1>3. NotCached'
  BY <1>a DEF NotCached
<1>4. Chose'
  <2>1. pc = "getfree" => Overwriting \/ busy'[call.dev] = 0
    BY <1>a, <1>1 DEF Chose
  <2>2. pc = "evict" => ("BUSY" \in status'[ent] => "DIRTY" \in status'[ent])
    BY <1>a DEF Chose
  <2>3. pc = "evict" => \/ Overwriting \/ busy'[call.dev] = 0
                        \/ \E k \in DOMAIN list'[call.dev] : list'[call.dev][k] = ent
    BY <1>a, <1>1 DEF Chose, AtList
  <2> QED BY <2>1, <2>2, <2>3 DEF Chose, AtList, Overwriting
<1>5. Filling'
  <2>1. pc \in {"fill", "filled"} => status[ent] = {"USED"}
    BY <1>a DEF Filling
  <2>2. pc \in {"fill", "filled"} => status'[ent] = {"USED"}
    BY <2>1
  <2> QED BY <1>a, <1>1, <2>2 DEF Filling
<1> QED BY <1>2, <1>3, <1>4, <1>5 DEF Control

\* The end of a write, for a call or for fat_tick.
LEMMA EndWriteTyped ==
  ASSUME TypeOK, NEW r \in {"ok", "busy", "err"}, EndWrite(r)
  PROVE  /\ wr' = NoWr /\ res' \in {"none", "ok", "busy", "err"} /\ poll' \in 0 .. MaxDevs
<1>1. CASE poll = 0
  BY <1>1 DEF EndWrite, TypeOK
<1>2. CASE poll # 0
  BY <1>2, PollTyped DEF EndWrite, TypeOK, NextPoll
<1> QED BY <1>1, <1>2

\* The write in progress.
LEMMA WritingFacts ==
  ASSUME CacheInv, wr # NoWr
  PROVE  /\ wr \in [dev : Dev, len : 0 .. WriteSize, purge : BOOLEAN] /\ wr.dev \in Dev
         /\ wr.len \in 0 .. WriteSize /\ wr.purge \in BOOLEAN
         /\ WriteList(wr.dev) /\ pc \notin Storing
         /\ \A k \in 1 .. WriteSize : list[wr.dev][k] \in Buf
         /\ \A k \in 1 .. WriteSize : list[wr.dev][k] \in Idx /\
               "BUSY" \in status[list[wr.dev][k]] => k = wr.len
<1>1. wr.dev \in Dev /\ wr.len \in 0 .. WriteSize /\ wr.purge \in BOOLEAN
      /\ wr \in [dev : Dev, len : 0 .. WriteSize, purge : BOOLEAN]
  BY DEF CacheInv, TypeOK
<1>2. busy[wr.dev] = WriteSize /\ Lists /\ Progress
  BY DEF CacheInv, Data, Progress
<1>3. WriteList(wr.dev)
  BY <1>1, <1>2, Sizes DEF Lists, ReadList
<1>4. \A k \in 1 .. WriteSize : list[wr.dev][k] \in Buf
  BY <1>1, <1>3, SeqFacts DEF CacheInv, TypeOK, WriteList
<1>5. pc \notin Storing
  BY DEF CacheInv, Control, CallOK
<1> QED BY <1>1, <1>2, <1>3, <1>4, <1>5 DEF Progress

\* Every step of WriteEntry: entries on other devices, and clean ones, stay as they are.
LEMMA WriteFrame ==
  ASSUME CacheInv, wr # NoWr, NEW d \in Dev, d = wr.dev,
         UNCHANGED <<of, lru, call, pc, ent>>,
         status' \in [Buf -> SUBSET {"USED", "BUSY", "DIRTY"}],
         \A j \in Idx : status'[j] # status[j] => \E k \in 1 .. WriteSize : list[d][k] = j,
         \A j \in Idx : "USED" \in status'[j] <=> "USED" \in status[j],
         \A j \in Idx : "BUSY" \in status'[j] /\ "BUSY" \notin status[j] =>
            "DIRTY" \in status'[j],
         \A j \in Idx : "DIRTY" \in status[j] /\ "BUSY" \in status'[j] =>
            "DIRTY" \in status'[j],
         \A e \in Dev \ {d} : busy'[e] = busy[e] /\ list'[e] = list[e],
         busy'[d] = 0 \/ (busy'[d] = busy[d] /\ list'[d] = list[d])
  PROVE  /\ Control' /\ MarksUsed' /\ NoDuplicates' /\ Once(lru)'
         /\ \A j \in Idx : DevOf(j) # d => status'[j] = status[j]
<1>a. TypeOK /\ Control /\ MarksUsed /\ NoDuplicates /\ Once(lru) /\ Unlisted /\ ent \in Idx
  BY DEF CacheInv, Control, Data, TypeOK
<1>1. /\ WriteList(d) /\ pc \notin Storing
  BY WritingFacts
<1>2. \A j \in Idx : status'[j] # status[j] => DevOf(j) = d /\ "DIRTY" \in status[j]
  BY <1>1 DEF WriteList
<1>3. Unlisted'
  BY <1>a, <1>2 DEF Unlisted, Reading
<1>4. Control'
  BY <1>a, <1>1, <1>2, <1>3, ControlFrame
<1>5. MarksUsed'
  <2> SUFFICES ASSUME NEW j \in Idx, status'[j] # {} PROVE "USED" \in status'[j]
    BY DEF MarksUsed
  <2>1. CASE status'[j] = status[j]
    BY <1>a, <2>1 DEF MarksUsed
  <2>2. CASE status'[j] # status[j]
    BY <1>a, <1>2, <2>2 DEF MarksUsed
  <2> QED BY <2>1, <2>2
<1>6. NoDuplicates' /\ Once(lru)'
  BY <1>a DEF NoDuplicates, Once
<1> QED BY <1>2, <1>4, <1>5, <1>6

\* A write that goes on, or is left to fat_tick: the list stays, and the entry at
\* wr.len is the only one whose marks change.
LEMMA WriteGoesOn ==
  ASSUME CacheInv, wr # NoWr, wr.len > 0, NEW d \in Dev, d = wr.dev, NEW e \in Buf,
         e = list[d][wr.len], status' \in [Buf -> SUBSET {"USED", "BUSY", "DIRTY"}],
         \A j \in Buf \ {e} : status'[j] = status[j],
         \/ /\ status'[e] = status[e] \ {"BUSY"} /\ wr' = [wr EXCEPT !.len = @ - 1]
         \/ /\ status'[e] = status[e] \cup {"BUSY"} /\ wr' = NoWr
            /\ wr.len \in {bcount'[d], bcount'[d] + 1},
         \A x \in Dev \ {d} : bcount'[x] = bcount[x],
         UNCHANGED <<of, lru, busy, list, call, pc, ent>>
  PROVE  Control' /\ Data'
<1>a. /\ TypeOK /\ Lists /\ Progress /\ BusyListed
  BY DEF CacheInv, Data
<1>1. /\ wr.len \in 1 .. WriteSize /\ WriteList(d)
      /\ \A k \in 1 .. WriteSize : list[d][k] \in Idx /\ "BUSY" \in status[list[d][k]] =>
            k = wr.len
      /\ wr \in [dev : Dev, len : 0 .. WriteSize, purge : BOOLEAN]
  BY WritingFacts
<1>2. e \in Idx => DevOf(e) = d /\ "DIRTY" \in status[e] /\ "USED" \in status[e]
  BY <1>1 DEF WriteList, CacheInv, Data, MarksUsed
<1>3. Control' /\ MarksUsed' /\ NoDuplicates' /\ Once(lru)'
  <2>1. \A j \in Idx : j # e => status'[j] = status[j]
    BY FiniteIdx
  <2>2. \A j \in Idx : status'[j] # status[j] => \E k \in 1 .. WriteSize : list[d][k] = j
    BY <1>1, <2>1
  <2>3. \A j \in Idx : "USED" \in status'[j] <=> "USED" \in status[j]
    BY <1>2, <2>1
  <2>4. \A j \in Idx : "BUSY" \in status'[j] /\ "BUSY" \notin status[j] =>
           "DIRTY" \in status'[j]
    BY <1>2, <2>1
  <2>5. \A j \in Idx : "DIRTY" \in status[j] /\ "BUSY" \in status'[j] =>
           "DIRTY" \in status'[j]
    BY <1>2, <2>1
  <2> QED BY <2>2, <2>3, <2>4, <2>5, WriteFrame
<1>4. Lists'
  <2> SUFFICES ASSUME NEW x \in Dev
               PROVE  (busy'[x] = 0 /\ list'[x] = <<>>) \/ ReadList(x)' \/ WriteList(x)'
    BY DEF Lists
  <2>1. CASE ReadList(x)
    <3>1. x # d /\ list[x][1] # e
      BY <1>1, <1>2, <2>1, Sizes DEF ReadList, WriteList
    <3> QED BY <2>1, <3>1, FiniteIdx DEF ReadList, Reading, DevOf
  <2>2. CASE WriteList(x)
    <3>1. \A j \in Idx : "DIRTY" \in status[j] => "DIRTY" \in status'[j]
      BY <1>2, FiniteIdx
    <3> QED BY <2>2, <3>1 DEF WriteList, DevOf
  <2> QED BY <1>a, <2>1, <2>2 DEF Lists
<1>5. Progress'
  <2>1. wr' # NoWr => busy'[wr'.dev] = WriteSize
    BY <1>1 DEF WriteList
  <2> SUFFICES ASSUME NEW x \in Dev, busy'[x] = WriteSize, NEW k \in 1 .. WriteSize,
                      list'[x][k] \in Idx, "BUSY" \in status'[list'[x][k]]
               PROVE  IF wr'.dev = x THEN k = wr'.len ELSE k \in {bcount'[x], bcount'[x] + 1}
    BY <2>1 DEF Progress
  <2>2. CASE x # d
    <3>1. WriteList(x)
      BY <1>a, Sizes DEF Lists, ReadList
    <3>2. list[x][k] # e
      BY <1>2, <2>2, <3>1 DEF WriteList
    <3>3. "BUSY" \in status[list[x][k]]
      BY <3>2, FiniteIdx
    <3>4. k \in {bcount[x], bcount[x] + 1}
      BY <1>a, <2>2, <3>3 DEF Progress
    <3>5. bcount'[x] = bcount[x]
      BY <2>2
    <3>6. wr'.dev # x
      BY <1>1, <2>2, Sizes DEF NoWr
    <3> QED BY <3>4, <3>5, <3>6
  <2>3. CASE x = d
    <3>1. k = wr.len
      BY <1>1, <2>3, FiniteIdx DEF WriteList
    <3>2. "BUSY" \in status'[e]
      BY <2>3, <3>1
    <3>3. wr' = NoWr /\ wr.len \in {bcount'[d], bcount'[d] + 1}
      BY <3>2
    <3>4. wr'.dev # d
      BY <3>3, Sizes DEF NoWr
    <3> QED BY <2>3, <3>1, <3>3, <3>4
  <2> QED BY <2>2, <2>3
<1>6. BusyListed'
  <2> SUFFICES ASSUME NEW j \in Idx, "BUSY" \in status'[j]
               PROVE  busy'[DevOf(j)'] # 0 /\
                      \E k \in DOMAIN list'[DevOf(j)'] : list'[DevOf(j)'][k] = j
    BY DEF BusyListed
  <2>1. CASE j = e
    <3>1. DOMAIN list[d] = 1 .. WriteSize
      BY <1>1, <1>a, SeqFacts DEF WriteList, TypeOK
    <3> QED BY <1>1, <1>2, <2>1, <3>1, Sizes DEF WriteList, DevOf
  <2>2. CASE j # e
    <3>1. "BUSY" \in status[j]
      BY <2>2, FiniteIdx
    <3> QED BY <1>a, <3>1 DEF BusyListed, DevOf
  <2> QED BY <2>1, <2>2
<1> QED BY <1>3, <1>4, <1>5, <1>6 DEF Data

\* The list of device d is dropped: its cache entries are not busy any more.
LEMMA Released ==
  ASSUME TypeOK, Lists, Progress, BusyListed, NEW d \in Dev, busy'[d] = 0, list'[d] = <<>>,
         \A e \in Dev \ {d} : busy'[e] = busy[e] /\ list'[e] = list[e] /\
         bcount'[e] = bcount[e],
         \A j \in Idx : of'[j] = of[j],
         \A j \in Idx : AtList(d, j) => "BUSY" \notin status'[j],
         \A j \in Idx : ~ AtList(d, j) => status'[j] = status[j],
         wr' = NoWr, wr \in {NoWr} \/ wr.dev = d
  PROVE  Lists' /\ Progress' /\ BusyListed'
<1>1. \A j \in Idx : DevOf(j) # d => status'[j] = status[j]
  BY AtListFacts DEF AtList
<1>2. Lists'
  <2> SUFFICES ASSUME NEW e \in Dev
               PROVE  (busy'[e] = 0 /\ list'[e] = <<>>) \/ ReadList(e)' \/ WriteList(e)'
    BY DEF Lists
  <2>1. CASE e = d
    BY <2>1
  <2>2. CASE e # d /\ ReadList(e)
    BY <1>1, <2>2 DEF ReadList, Reading, DevOf
  <2>3. CASE e # d /\ WriteList(e)
    <3>1. busy'[e] = busy[e] /\ list'[e] = list[e]
      BY <2>3
    <3> QED BY <1>1, <2>3, <3>1 DEF WriteList, DevOf
  <2> QED BY <2>1, <2>2, <2>3 DEF Lists
<1>3. Progress'
  <2> SUFFICES ASSUME NEW e \in Dev, busy'[e] = WriteSize, NEW k \in 1 .. WriteSize,
                      list'[e][k] \in Idx, "BUSY" \in status'[list'[e][k]]
               PROVE  IF wr'.dev = e THEN k = wr'.len ELSE k \in {bcount'[e], bcount'[e] + 1}
    BY DEF Progress
  <2>1. e # d /\ busy[e] = WriteSize /\ list'[e] = list[e] /\ bcount'[e] = bcount[e]
    BY Sizes
  <2>2. WriteList(e)
    BY <2>1, Sizes DEF Lists, ReadList
  <2>3. DevOf(list[e][k]) = e
    BY <2>1, <2>2 DEF WriteList
  <2>4. "BUSY" \in status[list[e][k]]
    BY <1>1, <2>1, <2>3
  <2>5. wr'.dev # e /\ wr.dev # e
    BY <2>1, Sizes DEF NoWr
  <2> QED BY <2>1, <2>4, <2>5 DEF Progress
<1>4. BusyListed'
  <2> SUFFICES ASSUME NEW j \in Idx, "BUSY" \in status'[j]
               PROVE  busy'[DevOf(j)'] # 0 /\
                      \E k \in DOMAIN list'[DevOf(j)'] : list'[DevOf(j)'][k] = j
    BY DEF BusyListed
  <2>1. "BUSY" \in status[j] /\ ~ AtList(d, j)
    OBVIOUS
  <2>2. DevOf(j)' = DevOf(j) /\ DevOf(j) \in Dev
    BY FiniteIdx DEF DevOf, TypeOK
  <2>3. DevOf(j) # d
    BY <2>1 DEF BusyListed, AtList
  <2> QED BY <2>1, <2>2, <2>3 DEF BusyListed
<1> QED BY <1>2, <1>3, <1>4

LEMMA ReleaseFacts ==
  ASSUME TypeOK, NEW d \in Dev, Release(d)
  PROVE  /\ busy'[d] = 0 /\ list'[d] = <<>> /\ bcount'[d] = 0
         /\ \A e \in Dev \ {d} : busy'[e] = busy[e] /\ list'[e] = list[e] /\
            bcount'[e] = bcount[e]
         /\ busy' \in [Dev -> (0 .. WriteSize) \cup {READ}] /\ list' \in [Dev -> Seq(Buf)]
         /\ bcount' \in [Dev -> 0 .. WriteSize] /\ bpurge' \in [Dev -> BOOLEAN]
<1>1. 0 \in 0 .. WriteSize /\ <<>> \in Seq(Buf)
  BY Sizes
<1> QED BY <1>1 DEF Release, TypeOK

LEMMA WriteEntryStep ==
  ASSUME CacheInv, WriteEntry
  PROVE  CacheInv'
<1>a. TypeOK /\ Lists /\ Progress /\ BusyListed /\ MarksUsed
  BY DEF CacheInv, Data
<1>b. wr # NoWr /\ wr.len > 0 /\ UNCHANGED <<of, buf, lru, call, pc, ent, ret>>
  BY DEF WriteEntry
<1>c. /\ wr.dev \in Dev /\ wr.len \in 1 .. WriteSize /\ wr.purge \in BOOLEAN
      /\ wr \in [dev : Dev, len : 0 .. WriteSize, purge : BOOLEAN]
      /\ WriteList(wr.dev) /\ pc \notin Storing
      /\ \A k \in 1 .. WriteSize : list[wr.dev][k] \in Buf
      /\ \A k \in 1 .. WriteSize : list[wr.dev][k] \in Idx /\
            "BUSY" \in status[list[wr.dev][k]] => k = wr.len
  BY <1>b, WritingFacts
<1>d. PICK d \in Dev, e \in Buf : d = wr.dev /\ e = list[wr.dev][wr.len]
  BY <1>c
<1>e. /\ of[e] \in [dev : Dev, sec : Sec] /\ SecOf(e) \in Sec /\ buf[e] \in Val
      /\ [sec |-> SecOf(e), val |-> buf[e]] \in [sec : Sec, val : Val]
  BY <1>a DEF TypeOK, SecOf
<1> DEFINE sector == [sec |-> SecOf(e), val |-> buf[e]]
<1>1. ASSUME status' = ClearBusy(e), wr' = [wr EXCEPT !.len = @ - 1],
             UNCHANGED <<drvars, res, poll>>,
             disk' \in [Dev -> [Sec -> Val]],
             chip' \in [Dev -> {"idle", "loading", "program", "background"}],
             inflight' \in [Dev -> SUBSET [sec : Sec, val : Val]]
      PROVE  CacheInv'
  <2>1. /\ status' \in [Buf -> SUBSET {"USED", "BUSY", "DIRTY"}]
        /\ status'[e] = status[e] \ {"BUSY"} /\ \A j \in Buf \ {e} : status'[j] = status[j]
    BY <1>1, <1>a DEF ClearBusy, TypeOK
  <2>2. wr' \in [dev : Dev, len : 0 .. WriteSize, purge : BOOLEAN]
    <3>1. wr.len - 1 \in 0 .. WriteSize
      BY <1>c, Sizes
    <3> QED BY <1>1, <1>c, <3>1
  <2>3. UNCHANGED <<busy, list, bcount, bpurge>>
    BY <1>1 DEF drvars
  <2>4. TypeOK'
    BY <1>1, <1>a, <1>b, <2>1, <2>2, <2>3 DEF TypeOK
  <2>5. Control' /\ Data'
    BY <1>1, <1>b, <1>d, <2>1, <2>3, WriteGoesOn
  <2> QED BY <2>4, <2>5 DEF CacheInv
<1>2. ASSUME status' = [status EXCEPT ![e] = @ \cup {"BUSY"}], UNCHANGED <<busy, list>>,
             NEW n \in {0, wr.len}, n = 0 => wr.len = 1, Suspend(d, n),
             disk' \in [Dev -> [Sec -> Val]],
             chip' \in [Dev -> {"idle", "loading", "program", "background"}],
             inflight' \in [Dev -> SUBSET [sec : Sec, val : Val]]
      PROVE  CacheInv'
  <2>1. /\ status' \in [Buf -> SUBSET {"USED", "BUSY", "DIRTY"}]
        /\ status'[e] = status[e] \cup {"BUSY"} /\ \A j \in Buf \ {e} : status'[j] = status[j]
    BY <1>2, <1>a DEF TypeOK
  <2>2. /\ wr' = NoWr /\ res' \in {"none", "ok", "busy", "err"} /\ poll' \in 0 .. MaxDevs
        /\ bcount' = [bcount EXCEPT ![d] = n] /\ bpurge' = [bpurge EXCEPT ![d] = wr.purge]
    BY <1>2, <1>a, EndWriteTyped DEF Suspend
  <2>3. /\ wr.len \in {bcount'[d], bcount'[d] + 1} /\
           \A x \in Dev \ {d} : bcount'[x] = bcount[x]
        /\ bcount' \in [Dev -> 0 .. WriteSize] /\ bpurge' \in [Dev -> BOOLEAN]
    <3>1. n \in 0 .. WriteSize /\ wr.len \in {n, n + 1}
      BY <1>2, <1>c, Sizes
    <3> QED BY <1>a, <1>c, <2>2, <3>1 DEF TypeOK
  <2>4. TypeOK'
    BY <1>2, <1>a, <1>b, <2>1, <2>2, <2>3 DEF TypeOK
  <2>5. Control' /\ Data'
    BY <1>2, <1>b, <1>d, <2>1, <2>2, <2>3, WriteGoesOn
  <2> QED BY <2>4, <2>5 DEF CacheInv
<1>3. ASSUME NEW drop \in SUBSET {"BUSY", "DIRTY"}, "BUSY" \in drop,
             status' = [i \in Buf |-> IF \E k \in wr.len .. busy[d] : list[d][k] = i
                                     THEN status[i] \ drop ELSE status[i]],
             Release(d), EndWrite("err"), UNCHANGED devvars
      PROVE  CacheInv'
  <2>1. /\ status' \in [Buf -> SUBSET {"USED", "BUSY", "DIRTY"}]
        /\ \A j \in Buf : status'[j] \in {status[j], status[j] \ drop}
    BY <1>3, <1>a DEF TypeOK
  <2>2. wr' = NoWr /\ res' \in {"none", "ok", "busy", "err"} /\ poll' \in 0 .. MaxDevs
    BY <1>3, <1>a, EndWriteTyped
  <2>3. /\ busy'[d] = 0 /\ list'[d] = <<>>
        /\ \A x \in Dev \ {d} : busy'[x] = busy[x] /\ list'[x] = list[x] /\
           bcount'[x] = bcount[x]
        /\ busy' \in [Dev -> (0 .. WriteSize) \cup {READ}] /\ list' \in [Dev -> Seq(Buf)]
        /\ bcount' \in [Dev -> 0 .. WriteSize] /\ bpurge' \in [Dev -> BOOLEAN]
    BY <1>3, <1>a, ReleaseFacts
  <2>4. DOMAIN list[d] = 1 .. WriteSize /\ busy[d] = WriteSize
    BY <1>a, <1>c, <1>d, SeqFacts DEF TypeOK, WriteList
  <2>5. TypeOK'
    BY <1>3, <1>a, <1>b, <2>1, <2>2, <2>3 DEF TypeOK, devvars
  <2>6. \A j \in Idx : j \in Buf /\ (~ AtList(d, j) => status'[j] = status[j])
    <3>1. \A k \in wr.len .. WriteSize : k \in 1 .. WriteSize
      BY <1>c, Sizes
    <3> QED BY <1>3, <1>c, <2>4, <3>1, FiniteIdx DEF AtList
  <2>7. ASSUME NEW j \in Idx, AtList(d, j) PROVE "BUSY" \notin status'[j]
    <3>1. CASE "BUSY" \notin status[j]
      BY <2>1, <2>6, <3>1
    <3>2. CASE "BUSY" \in status[j]
      <4>1. list[d][wr.len] = j /\ wr.len \in wr.len .. WriteSize
        BY <1>c, <1>d, <2>4, <2>7, <3>2, Sizes DEF AtList
      <4>2. status'[j] = status[j] \ drop
        BY <1>3, <2>4, <2>6, <4>1
      <4> QED BY <1>3, <4>2
    <3> QED BY <3>1, <3>2
  <2>8. Lists' /\ Progress' /\ BusyListed'
    BY <1>a, <1>b, <1>d, <2>2, <2>3, <2>6, <2>7, Released
  <2>9. Control' /\ MarksUsed' /\ NoDuplicates' /\ Once(lru)'
    <3>1. \A j \in Idx : status'[j] # status[j] => \E k \in 1 .. WriteSize : list[d][k] = j
      BY <2>4, <2>6 DEF AtList
    <3>2. \A j \in Idx : "USED" \in status'[j] <=> "USED" \in status[j]
      BY <1>3, <2>1, <2>6
    <3>3. ASSUME NEW j \in Idx, "BUSY" \in status'[j] PROVE status'[j] = status[j]
      <4>1. status'[j] \in {status[j], status[j] \ drop} /\ "BUSY" \notin status[j] \ drop
        BY <1>3, <2>1, <2>6
      <4> QED BY <3>3, <4>1
    <3>4. \A j \in Idx : "BUSY" \in status'[j] /\ "BUSY" \notin status[j] =>
             "DIRTY" \in status'[j]
      BY <3>3
    <3>5. \A j \in Idx : "DIRTY" \in status[j] /\ "BUSY" \in status'[j] =>
             "DIRTY" \in status'[j]
      BY <3>3
    <3>6. busy'[d] = 0 \/ (busy'[d] = busy[d] /\ list'[d] = list[d])
      BY <2>3
    <3>7. \A x \in Dev \ {d} : busy'[x] = busy[x] /\ list'[x] = list[x]
      BY <2>3
    <3>8. status' \in [Buf -> SUBSET {"USED", "BUSY", "DIRTY"}] /\ d = wr.dev
      BY <1>d, <2>1
    <3> QED BY <1>b, <3>1, <3>2, <3>4, <3>5, <3>6, <3>7, <3>8, WriteFrame
  <2> QED BY <2>5, <2>8, <2>9 DEF CacheInv, Data
<1>4. \/ /\ disk' = [disk EXCEPT ![d][sector.sec] = sector.val]
         /\ status' = ClearBusy(e) /\ wr' = [wr EXCEPT !.len = @ - 1]
         /\ UNCHANGED <<chip, inflight, drvars, res, poll>>
      \/ /\ inflight' = [inflight EXCEPT ![d] = @ \cup {sector}] /\
            chip' = [chip EXCEPT ![d] = "loading"]
         /\ status' = ClearBusy(e) /\ wr' = [wr EXCEPT !.len = @ - 1]
         /\ UNCHANGED <<disk, drvars, res, poll>>
      \/ /\ wr.len = 1
         /\ inflight' = [inflight EXCEPT ![d] = @ \cup {sector}] /\
            chip' = [chip EXCEPT ![d] = "program"]
         /\ status' = [status EXCEPT ![e] = @ \cup {"BUSY"}] /\ Suspend(d, 0)
         /\ UNCHANGED <<disk, busy, list>>
      \/ /\ status' = [status EXCEPT ![e] = @ \cup {"BUSY"}] /\ Suspend(d, wr.len)
         /\ UNCHANGED <<devvars, busy, list>>
      \/ /\ \E drop \in {{"BUSY", "DIRTY"}, {"BUSY"}} :
               status' = [i \in Buf |-> IF \E k \in wr.len .. busy[d] : list[d][k] = i
                                       THEN status[i] \ drop ELSE status[i]]
         /\ Release(d) /\ EndWrite("err") /\ UNCHANGED devvars
  <2>1. LET f == wr.dev
           g == list[f][wr.len]
           sec == [sec |-> SecOf(g), val |-> buf[g]]
       IN \/ /\ f \notin Queueing \cup ReadOnly /\ chip[f] = "idle"
             /\ disk' = [disk EXCEPT ![f][sec.sec] = sec.val]
             /\ status' = ClearBusy(g)
             /\ wr' = [wr EXCEPT !.len = @ - 1]
             /\ UNCHANGED <<chip, inflight, drvars, res, poll>>
          \/ /\ f \in Queueing \ ReadOnly /\ wr.len > 1 /\ chip[f] \in {"idle", "loading"}
             /\ inflight' = [inflight EXCEPT ![f] = @ \cup {sec}]
             /\ chip' = [chip EXCEPT ![f] = "loading"]
             /\ status' = ClearBusy(g)
             /\ wr' = [wr EXCEPT !.len = @ - 1]
             /\ UNCHANGED <<disk, drvars, res, poll>>
          \/ /\ f \in Queueing \ ReadOnly /\ wr.len = 1 /\ chip[f] \in {"idle", "loading"}
             /\ inflight' = [inflight EXCEPT ![f] = @ \cup {sec}]
             /\ chip' = [chip EXCEPT ![f] = "program"]
             /\ status' = [status EXCEPT ![g] = @ \cup {"BUSY"}]
             /\ Suspend(f, 0)
             /\ UNCHANGED <<disk, busy, list>>
          \/ /\ chip[f] = "background"
             /\ status' = [status EXCEPT ![g] = @ \cup {"BUSY"}]
             /\ Suspend(f, wr.len)
             /\ UNCHANGED <<devvars, busy, list>>
          \/ /\ IoErrors \/ f \in ReadOnly
             /\ chip[f] = "idle"
             /\ LET drop == IF f \in ReadOnly THEN {"BUSY", "DIRTY"} ELSE {"BUSY"}
                IN status' = [i \in Buf |-> IF \E k \in wr.len .. busy[f] : list[f][k] = i
                                            THEN status[i] \ drop ELSE status[i]]
             /\ Release(f)
             /\ EndWrite("err")
             /\ UNCHANGED devvars
    BY Zenon DEF WriteEntry
  <2> DEFINE f == wr.dev
             g == list[f][wr.len]
             Failing(x, drop) ==
                status' = [i \in Buf |-> IF \E k \in wr.len .. busy[x] : list[x][k] = i
                                         THEN status[i] \ drop ELSE status[i]]
  <2>2. d = f /\ e = g
    BY <1>d
  <2>3. \A drop : Failing(f, drop) => Failing(d, drop)
    <3> HIDE DEF f
    <3> QED BY <2>2
  <2>4. (IF f \in ReadOnly THEN {"BUSY", "DIRTY"} ELSE {"BUSY"})
           \in {{"BUSY", "DIRTY"}, {"BUSY"}}
    OBVIOUS
  <2> HIDE DEF Failing
  <2>5. \/ /\ disk' = [disk EXCEPT ![f][sector.sec] = sector.val]
           /\ status' = ClearBusy(g) /\ wr' = [wr EXCEPT !.len = @ - 1]
           /\ UNCHANGED <<chip, inflight, drvars, res, poll>>
        \/ /\ inflight' = [inflight EXCEPT ![f] = @ \cup {sector}]
           /\ chip' = [chip EXCEPT ![f] = "loading"]
           /\ status' = ClearBusy(g) /\ wr' = [wr EXCEPT !.len = @ - 1]
           /\ UNCHANGED <<disk, drvars, res, poll>>
        \/ /\ wr.len = 1
           /\ inflight' = [inflight EXCEPT ![f] = @ \cup {sector}]
           /\ chip' = [chip EXCEPT ![f] = "program"]
           /\ status' = [status EXCEPT ![g] = @ \cup {"BUSY"}] /\ Suspend(f, 0)
           /\ UNCHANGED <<disk, busy, list>>
        \/ /\ status' = [status EXCEPT ![g] = @ \cup {"BUSY"}] /\ Suspend(f, wr.len)
           /\ UNCHANGED <<devvars, busy, list>>
        \/ /\ \E drop \in {{"BUSY", "DIRTY"}, {"BUSY"}} : Failing(f, drop)
           /\ Release(f) /\ EndWrite("err") /\ UNCHANGED devvars
    BY <2>1, <2>2, <2>4 DEF Failing
  <2> HIDE DEF f, g
  <2> QED BY <2>2, <2>3, <2>5 DEF Failing
<1>5. /\ disk \in [Dev -> [Sec -> Val]]
      /\ chip \in [Dev -> {"idle", "loading", "program", "background"}]
      /\ inflight \in [Dev -> SUBSET [sec : Sec, val : Val]]
  BY <1>a DEF TypeOK
<1>6. sector \in [sec : Sec, val : Val] /\ sector.sec \in Sec /\ sector.val \in Val
  BY <1>e
<1> HIDE DEF sector
<1>7. /\ [disk EXCEPT ![d][sector.sec] = sector.val] \in [Dev -> [Sec -> Val]]
      /\ [inflight EXCEPT ![d] = @ \cup {sector}] \in [Dev -> SUBSET [sec : Sec, val : Val]]
      /\ \A c \in {"loading", "program"} :
            [chip EXCEPT ![d] = c] \in [Dev -> {"idle", "loading", "program", "background"}]
  BY <1>5, <1>6
<1>8. CASE /\ disk' = [disk EXCEPT ![d][sector.sec] = sector.val]
           /\ status' = ClearBusy(e) /\ wr' = [wr EXCEPT !.len = @ - 1]
           /\ UNCHANGED <<chip, inflight, drvars, res, poll>>
  BY <1>1, <1>5, <1>7, <1>8
<1>9. CASE /\ inflight' = [inflight EXCEPT ![d] = @ \cup {sector}] /\
              chip' = [chip EXCEPT ![d] = "loading"]
           /\ status' = ClearBusy(e) /\ wr' = [wr EXCEPT !.len = @ - 1]
           /\ UNCHANGED <<disk, drvars, res, poll>>
  BY <1>1, <1>5, <1>7, <1>9
<1>10. CASE /\ wr.len = 1
            /\ inflight' = [inflight EXCEPT ![d] = @ \cup {sector}] /\
               chip' = [chip EXCEPT ![d] = "program"]
            /\ status' = [status EXCEPT ![e] = @ \cup {"BUSY"}] /\ Suspend(d, 0)
            /\ UNCHANGED <<disk, busy, list>>
  BY <1>2, <1>5, <1>7, <1>10
<1>11. CASE /\ status' = [status EXCEPT ![e] = @ \cup {"BUSY"}] /\ Suspend(d, wr.len)
            /\ UNCHANGED <<devvars, busy, list>>
  BY <1>2, <1>5, <1>b, <1>11 DEF devvars
<1>12. CASE /\ \E drop \in {{"BUSY", "DIRTY"}, {"BUSY"}} :
                 status' = [i \in Buf |-> IF \E k \in wr.len .. busy[d] : list[d][k] = i
                                         THEN status[i] \ drop ELSE status[i]]
            /\ Release(d) /\ EndWrite("err") /\ UNCHANGED devvars
  <2>1. PICK drop \in {{"BUSY", "DIRTY"}, {"BUSY"}} :
                 status' = [i \in Buf |-> IF \E k \in wr.len .. busy[d] : list[d][k] = i
                                         THEN status[i] \ drop ELSE status[i]]
    BY <1>12
  <2>2. drop \in SUBSET {"BUSY", "DIRTY"} /\ "BUSY" \in drop
    BY <2>1
  <2> QED BY <1>3, <1>12, <2>1, <2>2
<1> QED BY <1>4, <1>8, <1>9, <1>10, <1>11, <1>12

LEMMA WriteDoneStep ==
  ASSUME CacheInv, WriteDone
  PROVE  CacheInv'
<1>a. /\ TypeOK /\ Control /\ Unlisted /\ ent \in Idx
      /\ MarksUsed /\ NoDuplicates /\ Lists /\ Progress /\ BusyListed /\ Once(lru)
  BY DEF CacheInv, Control, Data, TypeOK
<1>b. wr # NoWr /\ wr.len = 0 /\
      UNCHANGED <<of, buf, disk, chip, inflight, call, pc, ent, ret>>
  BY DEF WriteDone, devvars
<1>c. /\ wr.dev \in Dev /\ WriteList(wr.dev) /\ pc \notin Storing
      /\ \A k \in 1 .. WriteSize : list[wr.dev][k] \in Buf
      /\ \A k \in 1 .. WriteSize : list[wr.dev][k] \in Idx =>
            "BUSY" \notin status[list[wr.dev][k]]
  <2>1. \A k \in 1 .. WriteSize : k # 0
    BY Sizes
  <2> QED BY <1>b, <2>1, WritingFacts
<1>d. PICK d \in Dev : d = wr.dev
  BY <1>c
<1>e. PICK done \in SUBSET Buf : done = {list[wr.dev][k] : k \in 1 .. busy[wr.dev]}
  <2>1. \A k \in 1 .. busy[wr.dev] : list[wr.dev][k] \in Buf
    BY <1>c DEF WriteList
  <2> QED BY <2>1
<1>f. PICK gone \in SUBSET done : gone = Gone(done)
  BY DEF Gone
<1>1. /\ status' = [i \in Buf |-> CASE i \in gone        -> Unused
                                 [] i \in done \ gone -> status[i] \ {"DIRTY"}
                                 [] OTHER             -> status[i]]
      /\ lru' = Keeping(Idx \ gone) /\ Release(d) /\ EndWrite("ok")
  BY <1>d, <1>e, <1>f DEF WriteDone
<1>2. ASSUME NEW j \in Idx
      PROVE j \in Buf /\ (AtList(d, j) => j \in done) /\ (j \in done => AtList(d, j))
  <2>1. DOMAIN list[d] = 1 .. WriteSize /\ busy[d] = WriteSize
    BY <1>a, <1>c, <1>d, SeqFacts DEF TypeOK, WriteList
  <2> QED BY <1>d, <1>e, <2>1, FiniteIdx DEF AtList
<1>3. ASSUME NEW j \in Idx, j \in done
      PROVE  DevOf(j) = d /\ "DIRTY" \in status[j] /\ "BUSY" \notin status[j]
  <2>1. PICK k \in 1 .. WriteSize : list[wr.dev][k] = j
    BY <1>c, <1>e, <1>3 DEF WriteList
  <2> QED BY <1>c, <1>d, <2>1 DEF WriteList
<1>4. /\ status' \in [Buf -> SUBSET {"USED", "BUSY", "DIRTY"}]
      /\ \A j \in gone : status'[j] = {}
      /\ \A j \in done \ gone : status'[j] = status[j] \ {"DIRTY"}
      /\ \A j \in Buf \ done : status'[j] = status[j]
  BY <1>1, <1>a DEF TypeOK, Unused
<1>5. lru' \in Seq(Idx) /\ Entries(lru') = Entries(lru) \cap (Idx \ gone) /\ Once(lru')
  <2>1. lru \in Seq(Idx) /\ Listed = Entries(lru)
    BY <1>a DEF TypeOK, Listed, Entries
  <2> DEFINE S == Idx \ gone
  <2> HIDE DEF S
  <2>2. Keeping(S) \in Seq(Idx) /\ Entries(Keeping(S)) = Listed \cap S /\ Once(Keeping(S))
    BY <2>1, <1>a, KeepingFacts
  <2> QED BY <1>1, <2>1, <2>2 DEF S
<1>6. wr' = NoWr /\ res' \in {"none", "ok", "busy", "err"} /\ poll' \in 0 .. MaxDevs
  BY <1>1, <1>a, EndWriteTyped
<1>7. /\ busy'[d] = 0 /\ list'[d] = <<>>
      /\ \A x \in Dev \ {d} : busy'[x] = busy[x] /\ list'[x] = list[x] /\
         bcount'[x] = bcount[x]
      /\ busy' \in [Dev -> (0 .. WriteSize) \cup {READ}] /\ list' \in [Dev -> Seq(Buf)]
      /\ bcount' \in [Dev -> 0 .. WriteSize] /\ bpurge' \in [Dev -> BOOLEAN]
  BY <1>1, <1>a, ReleaseFacts
<1>8. TypeOK'
  BY <1>1, <1>4, <1>5, <1>6, <1>7, <1>a, <1>b DEF TypeOK
<1>9. Lists' /\ Progress' /\ BusyListed'
  <2>1. \A j \in Idx : AtList(d, j) => "BUSY" \notin status'[j]
    BY <1>2, <1>3, <1>4
  <2>2. \A j \in Idx : ~ AtList(d, j) => status'[j] = status[j]
    BY <1>2, <1>4
  <2> QED BY <1>a, <1>b, <1>d, <1>6, <1>7, <2>1, <2>2, Released
<1>10. MarksUsed' /\ NoDuplicates'
  <2>1. ASSUME NEW j \in Idx PROVE status'[j] \in {{}, status[j], status[j] \ {"DIRTY"}}
    BY <1>2, <1>4
  <2>2. MarksUsed'
    BY <1>a, <2>1 DEF MarksUsed
  <2>3. NoDuplicates'
    BY <1>a, <1>b, <2>1 DEF NoDuplicates
  <2> QED BY <2>2, <2>3
<1>11. Unlisted'
  <2> SUFFICES ASSUME NEW i \in Idx, i \notin Entries(lru')
               PROVE  /\ "DIRTY" \notin status'[i]
                      /\ "USED" \in status'[i] =>
                            Reading(i)' \/ (ent' = i /\ pc' \in {"fill", "filled"})
    BY DEF Unlisted
  <2>1. CASE i \in gone
    BY <1>2, <1>4, <2>1
  <2>2. CASE i \notin gone
    <3>1. i \notin Entries(lru)
      BY <1>5, <2>2
    <3>2. i \notin done
      BY <1>3, <1>a, <3>1 DEF Unlisted
    <3>3. status'[i] = status[i]
      BY <1>2, <1>4, <3>2
    <3> QED BY <1>a, <1>b, <3>1, <3>3 DEF Unlisted, Reading
  <2> QED BY <2>1, <2>2
<1>12. Control'
  <2>1. ent \in Buf /\ (ent \in done => "DIRTY" \in status[ent] /\ "BUSY" \notin status[ent])
    BY <1>2, <1>3, <1>a
  <2>2. \A j \in Idx : "USED" \in status'[j] => "USED" \in status[j]
    BY <1>2, <1>4
  <2>3. "DIRTY" \notin status[ent] => status'[ent] = status[ent]
    BY <1>4, <2>1
  <2>4. "DIRTY" \in status[ent] /\ "BUSY" \in status'[ent] => "DIRTY" \in status'[ent]
    BY <1>4, <2>1
  <2>5. \A x \in Dev : busy'[x] = 0 \/ (busy'[x] = busy[x] /\ list'[x] = list[x])
    BY <1>7
  <2> QED BY <1>a, <1>b, <1>c, <1>11, <2>2, <2>3, <2>4, <2>5, ControlFrame
<1> QED BY <1>5, <1>8, <1>9, <1>10, <1>12 DEF CacheInv, Data

-----------------------------------------------------------------------------
(* Steps of fat_tick *)

LEMMA PollWriteStep ==
  ASSUME CacheInv, PollWrite
  PROVE  CacheInv'
<1>a. /\ TypeOK /\ Control /\ CallOK /\ Unlisted /\ ent \in Idx
      /\ MarksUsed /\ NoDuplicates /\ Lists /\ Progress /\ BusyListed /\ Once(lru)
  BY DEF CacheInv, Control, Data, TypeOK
<1>b. /\ poll # 0 /\ wr = NoWr /\ busy[poll] \in 1 .. WriteSize
      /\ UNCHANGED <<of, buf, lru, busy, list, bcount, bpurge, disk, chip, inflight, call,
            pc, ent,
                     res, ret, poll>>
  BY DEF PollWrite, Polling, drvars, devvars, cvars
<1>c. PICK d \in Dev : d = poll
  BY <1>a, <1>b, PollTyped
<1>d. WriteList(d) /\ busy[d] = WriteSize /\ pc \notin Storing
  <2>1. busy[d] # READ /\ busy[d] # 0
    BY <1>b, <1>c, SizeAssumption, Sizes
  <2> QED BY <1>a, <1>b, <2>1 DEF Lists, ReadList, WriteList, CallOK
<1>e. /\ \A k \in 1 .. WriteSize : list[d][k] \in Buf
      /\ bcount[d] \in 0 .. WriteSize /\ bpurge[d] \in BOOLEAN
      /\ bcount[d] < WriteSize => bcount[d] + 1 \in 1 .. WriteSize
  BY <1>a, <1>d, Sizes, SeqFacts DEF TypeOK, WriteList
<1>1. /\ bcount[d] < WriteSize => status' = ClearBusy(list[d][bcount[d] + 1])
      /\ ~ (bcount[d] < WriteSize) => status' = status
      /\ wr' = [dev |-> d, len |-> bcount[d], purge |-> bpurge[d]]
  BY <1>c DEF PollWrite
<1>2. status' \in [Buf -> SUBSET {"USED", "BUSY", "DIRTY"}]
  <2>1. CASE bcount[d] < WriteSize
    <3> DEFINE e == list[d][bcount[d] + 1]
    <3>1. e \in Buf /\ status' = [status EXCEPT ![e] = @ \ {"BUSY"}]
      BY <1>1, <1>e, <2>1 DEF ClearBusy
    <3> HIDE DEF e
    <3> QED BY <1>a, <3>1 DEF TypeOK
  <2>2. CASE ~ (bcount[d] < WriteSize)
    BY <1>1, <1>a, <2>2 DEF TypeOK
  <2> QED BY <2>1, <2>2
<1>3. ASSUME NEW j \in Idx
      PROVE  /\ j \in Buf
             /\ status'[j] = status[j] \/
                (status'[j] = status[j] \ {"BUSY"} /\ "DIRTY" \in status[j])
  <2>1. CASE bcount[d] < WriteSize
    BY <1>1, <1>2, <1>a, <1>d, <1>e, <2>1, FiniteIdx DEF WriteList, ClearBusy, TypeOK
  <2>2. CASE ~ (bcount[d] < WriteSize)
    BY <1>1, <2>2, FiniteIdx
  <2> QED BY <2>1, <2>2
<1>4. TypeOK'
  BY <1>1, <1>2, <1>a, <1>b, <1>e DEF TypeOK
<1>5. MarksUsed' /\ NoDuplicates' /\ Once(lru)'
  <2>1. MarksUsed'
    BY <1>3, <1>a DEF MarksUsed
  <2>2. NoDuplicates'
    BY <1>3, <1>a, <1>b DEF NoDuplicates
  <2> QED BY <1>a, <1>b, <2>1, <2>2 DEF Once
<1>6. Lists'
  <2> SUFFICES ASSUME NEW x \in Dev
               PROVE  (busy'[x] = 0 /\ list'[x] = <<>>) \/ ReadList(x)' \/ WriteList(x)'
    BY DEF Lists
  <2>1. CASE ReadList(x)
    BY <1>b, <1>3, <2>1 DEF ReadList, Reading, DevOf
  <2>2. CASE WriteList(x)
    BY <1>b, <1>3, <2>2 DEF WriteList, DevOf
  <2> QED BY <1>a, <1>b, <2>1, <2>2 DEF Lists
<1>7. Progress'
  <2>1. wr' # NoWr => busy'[wr'.dev] = WriteSize
    BY <1>1, <1>b, <1>d
  <2> SUFFICES ASSUME NEW x \in Dev, busy'[x] = WriteSize, NEW k \in 1 .. WriteSize,
                      list'[x][k] \in Idx, "BUSY" \in status'[list'[x][k]]
               PROVE  IF wr'.dev = x THEN k = wr'.len ELSE k \in {bcount'[x], bcount'[x] + 1}
    BY <2>1 DEF Progress
  <2>2. list'[x][k] = list[x][k] /\ "BUSY" \in status[list[x][k]] /\ wr.dev # x
    BY <1>b, <1>3, Sizes DEF NoWr
  <2>3. k \in {bcount[x], bcount[x] + 1}
    BY <1>a, <1>b, <2>2 DEF Progress
  <2>4. CASE x = d
    <3>1. ASSUME k = bcount[d] + 1 PROVE FALSE
      <4>1. bcount[d] < WriteSize
        BY <1>e, <3>1, Sizes
      <4> QED BY <1>1, <1>a, <1>e, <2>2, <2>4, <3>1, <4>1 DEF ClearBusy, TypeOK
    <3> QED BY <1>1, <2>3, <2>4, <3>1
  <2>5. CASE x # d
    BY <1>1, <1>b, <2>3, <2>5
  <2> QED BY <2>4, <2>5
<1>8. BusyListed'
  BY <1>a, <1>b, <1>3 DEF BusyListed, DevOf
<1>9. Unlisted'
  <2> SUFFICES ASSUME NEW i \in Idx, i \notin Entries(lru)
               PROVE  /\ "DIRTY" \notin status'[i]
                      /\ "USED" \in status'[i] =>
                            Reading(i)' \/ (ent' = i /\ pc' \in {"fill", "filled"})
    BY <1>b DEF Unlisted
  <2>1. status'[i] = status[i]
    BY <1>3, <1>a DEF Unlisted
  <2> QED BY <1>a, <1>b, <2>1 DEF Unlisted, Reading
<1>10. Control'
  <2>1. \A j \in Idx : "USED" \in status'[j] => "USED" \in status[j]
    BY <1>3
  <2>2. "DIRTY" \notin status[ent] => status'[ent] = status[ent]
    BY <1>3, <1>a
  <2>3. "DIRTY" \in status[ent] /\ "BUSY" \in status'[ent] => "DIRTY" \in status'[ent]
    BY <1>3, <1>a
  <2> QED BY <1>a, <1>b, <1>d, <1>9, <2>1, <2>2, <2>3, ControlFrame
<1> QED BY <1>4, <1>5, <1>6, <1>7, <1>8, <1>10 DEF CacheInv, Data

LEMMA PollReadStep ==
  ASSUME CacheInv, PollRead
  PROVE  CacheInv'
<1>a. /\ TypeOK /\ Control /\ CallOK /\ Chose /\ Filling /\ Unlisted /\ ent \in Idx
      /\ MarksUsed /\ NoDuplicates /\ Lists /\ Progress /\ BusyListed /\ Once(lru)
  BY DEF CacheInv, Control, Data, TypeOK
<1>b. /\ poll # 0 /\ wr = NoWr /\ busy[poll] = READ /\ Release(poll)
      /\ UNCHANGED <<of, disk, chip, inflight, call, pc, ent, res, ret, wr>>
  BY DEF PollRead, Polling, devvars, cvars
<1>c. PICK d \in Dev, i \in {list[poll][1]} : d = poll /\ i = list[poll][1]
  BY <1>a, <1>b, PollTyped
<1>d. /\ ReadList(d) /\ i \in Idx /\ i \in Buf /\ DevOf(i) = d /\ Reading(i) /\
         pc \notin Storing
      /\ \A j \in Idx : AtList(d, j) => j = i
      /\ AtList(d, i)
  <2>1. ReadList(d)
    BY <1>a, <1>b, <1>c, Sizes DEF Lists, WriteList
  <2>2. i \in Idx /\ DevOf(i) = d /\ Reading(i)
    BY <1>c, <2>1 DEF ReadList
  <2>3. DOMAIN list[d] = {1}
    BY <1>a, <2>1, SeqFacts DEF ReadList, TypeOK
  <2> QED BY <1>a, <1>b, <1>c, <2>1, <2>2, <2>3, FiniteIdx DEF AtList, CallOK
<1>1. \/ /\ buf' = [buf EXCEPT ![i] = disk[d][SecOf(i)]]
         /\ status' = ClearBusy(i) /\ AddEntry(i) /\ poll' = 1
      \/ /\ status' = [status EXCEPT ![i] = {}] /\ NextPoll /\ UNCHANGED <<buf, lru>>
  BY <1>c DEF PollRead, Tick, Unused
<1>2. /\ status' \in [Buf -> SUBSET {"USED", "BUSY", "DIRTY"}]
      /\ \A j \in Buf \ {i} : status'[j] = status[j]
      /\ status'[i] = {} \/ status'[i] = status[i] \ {"BUSY"}
      /\ buf' \in [Buf -> Val] /\ poll' \in 0 .. MaxDevs
  <2>1. SecOf(i) \in Sec /\ disk[d][SecOf(i)] \in Val
    BY <1>a, <1>d DEF TypeOK, SecOf
  <2>2. CASE status' = ClearBusy(i) /\ buf' = [buf EXCEPT ![i] = disk[d][SecOf(i)]] /\
             poll' = 1
    BY <1>a, <1>d, <2>1, <2>2, PollTyped DEF ClearBusy, TypeOK
  <2>3. CASE status' = [status EXCEPT ![i] = {}] /\ NextPoll /\ UNCHANGED <<buf, lru>>
    BY <1>a, <1>b, <1>d, <2>3, PollTyped DEF NextPoll, TypeOK
  <2> QED BY <1>1, <2>2, <2>3
<1>3. /\ lru' \in Seq(Idx) /\ Once(lru') /\ Entries(lru) \subseteq Entries(lru')
      /\ status'[i] = {} \/ i \in Entries(lru')
  <2>1. CASE AddEntry(i)
    <3>1. lru \in Seq(Idx) /\ Listed = Entries(lru)
      BY <1>a DEF TypeOK, Listed, Entries
    <3>2. lru' \in Seq(Idx) /\ Entries(lru') = Listed \cup {i} /\ (Once(lru) => Once(lru'))
      BY <1>d, <2>1, <3>1, AddEntryFacts
    <3> QED BY <1>a, <3>1, <3>2
  <2>2. CASE status' = [status EXCEPT ![i] = {}] /\ lru' = lru
    BY <1>a, <1>d, <2>2 DEF TypeOK
  <2> QED BY <1>1, <2>1, <2>2
<1>4. /\ busy'[d] = 0 /\ list'[d] = <<>>
      /\ \A x \in Dev \ {d} : busy'[x] = busy[x] /\ list'[x] = list[x] /\
         bcount'[x] = bcount[x]
      /\ busy' \in [Dev -> (0 .. WriteSize) \cup {READ}] /\ list' \in [Dev -> Seq(Buf)]
      /\ bcount' \in [Dev -> 0 .. WriteSize] /\ bpurge' \in [Dev -> BOOLEAN]
  <2>1. Release(d)
    BY <1>b, <1>c
  <2> QED BY <1>a, <2>1, ReleaseFacts
<1>5. TypeOK'
  BY <1>2, <1>3, <1>4, <1>a, <1>b DEF TypeOK
<1>6. ASSUME NEW j \in Idx, j # i PROVE status'[j] = status[j] /\ ~ AtList(d, j)
  BY <1>2, <1>d, <1>6, FiniteIdx
<1>7. Lists' /\ Progress' /\ BusyListed'
  <2>1. \A j \in Idx : AtList(d, j) => "BUSY" \notin status'[j]
    BY <1>2, <1>d
  <2>2. \A j \in Idx : ~ AtList(d, j) => status'[j] = status[j]
    BY <1>6, <1>d
  <2> QED BY <1>a, <1>b, <1>4, <2>1, <2>2, Released
<1>8. MarksUsed' /\ NoDuplicates'
  <2>1. ASSUME NEW j \in Idx PROVE status'[j] \in {{}, status[j], status[j] \ {"BUSY"}}
    BY <1>2, <1>6
  <2>2. MarksUsed'
    BY <1>a, <2>1 DEF MarksUsed
  <2>3. NoDuplicates'
    BY <1>a, <1>b, <2>1 DEF NoDuplicates
  <2> QED BY <2>2, <2>3
<1>9. Unlisted'
  <2> SUFFICES ASSUME NEW j \in Idx, j \notin Entries(lru')
               PROVE  /\ "DIRTY" \notin status'[j]
                      /\ "USED" \in status'[j] =>
                            Reading(j)' \/ (ent' = j /\ pc' \in {"fill", "filled"})
    BY DEF Unlisted
  <2>1. CASE j = i
    BY <1>3, <2>1
  <2>2. CASE j # i
    BY <1>3, <1>6, <1>a, <1>b, <2>2 DEF Unlisted, Reading
  <2> QED BY <2>1, <2>2
<1>10. Control'
  <2>1. \A j \in Idx : "USED" \in status'[j] => "USED" \in status[j]
    BY <1>2, <1>6
  <2>2. pc \in {"evict", "fill", "filled"} /\ "DIRTY" \notin status[ent] =>
           status'[ent] = status[ent]
    <3>1. pc \in {"evict", "fill", "filled"} => ent # i
      BY <1>a, <1>d DEF Chose, Filling, Reading
    <3> QED BY <1>6, <1>a, <3>1
  <2>3. "DIRTY" \in status[ent] /\ "BUSY" \in status'[ent] => "DIRTY" \in status'[ent]
    BY <1>2, <1>6, <1>a, <1>d DEF Reading
  <2>4. \A x \in Dev : busy'[x] = 0 \/ (busy'[x] = busy[x] /\ list'[x] = list[x])
    BY <1>4
  <2> QED BY <1>a, <1>b, <1>d, <1>9, <2>1, <2>2, <2>3, <2>4, ControlFrame
<1> QED BY <1>3, <1>5, <1>7, <1>8, <1>10 DEF CacheInv, Data

-----------------------------------------------------------------------------
(* Power failures *)

LEMMA PowerFailStep ==
  ASSUME CacheInv, PowerFail
  PROVE  CacheInv'
<1>a. TypeOK /\ MarksUsed /\ NoDuplicates
  BY DEF CacheInv, Data
<1>1. PICK f \in Dev :
         /\ status' = [i \in Buf |-> AfterRegdev(i, f)]
         /\ lru' = Ordered({i \in Idx : AfterRegdev(i, f) # Unused},
                           [i \in Idx |-> IF DevOf(i) = f THEN i ELSE MaxBufs + i])
  BY DEF PowerFail
<1>2. /\ disk' \in [Dev -> [Sec -> Val]]
      /\ busy' = [d \in Dev |-> 0] /\ list' = [d \in Dev |-> <<>>]
      /\ bcount' = [d \in Dev |-> 0] /\ bpurge' = [d \in Dev |-> FALSE]
      /\ chip' = [d \in Dev |-> "idle"] /\ inflight' = [d \in Dev |-> {}]
      /\ call' = NoCall /\ pc' = "idle" /\ ent' = 1
      /\ res' = "none" /\ ret' = "none" /\ wr' = NoWr /\ poll' = 0
      /\ UNCHANGED <<of, buf>>
  BY DEF PowerFail
<1>3. ASSUME NEW i \in Idx PROVE AfterRegdev(i, f) \in {{}, status[i] \ {"BUSY"}}
  BY DEF AfterRegdev, AfterInit, Unused
<1>4. ASSUME NEW i \in Buf \ Idx PROVE AfterRegdev(i, f) = status[i]
  BY DEF AfterRegdev, AfterInit
<1>5. ASSUME NEW i \in Idx
      PROVE  i \in Buf /\ status'[i] = AfterRegdev(i, f) /\
             status'[i] \in {{}, status[i] \ {"BUSY"}}
  BY <1>1, <1>3, FiniteIdx
<1>6. status' \in [Buf -> SUBSET {"USED", "BUSY", "DIRTY"}]
  <2>1. ASSUME NEW i \in Buf PROVE AfterRegdev(i, f) \in SUBSET {"USED", "BUSY", "DIRTY"}
    <3>1. status[i] \in SUBSET {"USED", "BUSY", "DIRTY"}
      BY <1>a DEF TypeOK
    <3>2. AfterRegdev(i, f) \in {{}, status[i] \ {"BUSY"}, status[i]}
      BY <1>3, <1>4
    <3> QED BY <3>1, <3>2
  <2> QED BY <1>1, <2>1
<1>7. /\ lru' \in Seq(Idx) /\ Once(lru')
      /\ \A i \in Idx : status'[i] # {} => i \in Entries(lru')
  <2> DEFINE S == {i \in Idx : AfterRegdev(i, f) # Unused}
             key == [i \in Idx |-> IF DevOf(i) = f THEN i ELSE MaxBufs + i]
  <2>1. /\ IsFiniteSet(Idx) /\ S \in SUBSET Idx
        /\ \A i \in Idx : i \in Nat /\ i >= 1 /\ i <= MaxBufs
    BY FiniteIdx, SizeAssumption DEF Idx
  <2>2. IsFiniteSet(S)
    BY <2>1, FS_Subset
  <2>3. key \in [Idx -> Int] /\ \A x, y \in S : key[x] = key[y] => x = y
    BY <2>1, Sizes
  <2>4. \A i \in Idx : status'[i] # {} => i \in S
    BY <1>5 DEF Unused
  <2>5. lru' = Ordered(S, key)
    BY <1>1
  <2> HIDE DEF S, key
  <2>6. /\ lru' \in Seq(S) /\ DOMAIN lru' = 1 .. Cardinality(S)
        /\ \A x \in S : \E n \in 1 .. Cardinality(S) : lru'[n] = x
        /\ \A n, m \in 1 .. Cardinality(S) : lru'[n] = lru'[m] => n = m
    BY <2>1, <2>2, <2>3, <2>5, OrderedFacts
  <2>7. lru' \in Seq(Idx)
    BY <2>1, <2>6
  <2> QED BY <2>4, <2>6, <2>7 DEF Entries, Once
<1>8. TypeOK'
  <2>1. 1 \in Idx /\ 0 \in 0 .. WriteSize /\ 0 \in 0 .. MaxDevs /\ <<>> \in Seq(Buf)
    BY Sizes
  <2> QED BY <1>2, <1>6, <1>7, <1>a, <2>1 DEF TypeOK
<1>9. Control'
  <2>1. Unlisted'
    BY <1>7 DEF Unlisted
  <2> QED BY <1>2, <2>1 DEF Control, CallOK, NotCached, Chose, Filling, ToStore, Asking,
             Flushing, Storing
<1>10. Data'
  <2>1. MarksUsed'
    BY <1>5, <1>a DEF MarksUsed
  <2>2. NoDuplicates'
    BY <1>2, <1>5, <1>a DEF NoDuplicates
  <2>3. Lists' /\ Progress'
    BY <1>2, Sizes DEF Lists, Progress
  <2>4. BusyListed'
    BY <1>5 DEF BusyListed
  <2> QED BY <1>7, <2>1, <2>2, <2>3, <2>4 DEF Data
<1> QED BY <1>8, <1>9, <1>10 DEF CacheInv

-----------------------------------------------------------------------------
(* Every step *)

LEMMA NextInv ==
  ASSUME CacheInv, [Next]_vars
  PROVE  CacheInv'
<1>1. CASE \/ Begin \/ Ticked \/ Find \/ Lookup \/ Miss \/ GetFree
           \/ FlushWait \/ FlushBusy \/ FlushPoll \/ FlushNext \/ PollIdle
  BY <1>1, QuietStep
<1>2. CASE Hit
  BY <1>2, HitStep
<1>3. CASE Evict \/ FlushEntry
  BY <1>3, WriteOutStep
<1>4. CASE Assign
  BY <1>4, AssignStep
<1>5. CASE Fill
  BY <1>5, FillStep
<1>6. CASE Filled
  BY <1>6, FilledStep
<1>7. CASE Copy
  BY <1>7, CopyStep
<1>8. CASE Mark
  BY <1>8, MarkStep
<1>9. CASE WriteEntry
  BY <1>9, WriteEntryStep
<1>10. CASE WriteDone
  BY <1>10, WriteDoneStep
<1>11. CASE PollWrite
  BY <1>11, PollWriteStep
<1>12. CASE PollRead
  BY <1>12, PollReadStep
<1>13. CASE PowerFail
  BY <1>13, PowerFailStep
<1>14. CASE \E d \in Dev : Device(d) \/ BackgroundBegins(d)
  BY <1>14, DeviceStep DEF Device
<1>15. CASE UNCHANGED vars
  BY <1>15 DEF vars, bbvars, drvars, devvars, cvars, CacheInv, TypeOK, Control, CallOK,
     NotCached, Chose, Filling, Unlisted, ToStore, Data, MarksUsed, NoDuplicates, Lists,
     ReadList, WriteList, Progress, BusyListed, Once, Entries, Reading, DevOf, AtList,
     Writing, Overwriting
<1> QED BY <1>1, <1>2, <1>3, <1>4, <1>5, <1>6, <1>7, <1>8, <1>9, <1>10, <1>11, <1>12, <1>13,
           <1>14,
        <1>15 DEF Next, Run

\* Used pages are in the list of a write in progress.
Pages == \A p \in Page : status[p] # {} =>
            \E d \in Dev : busy[d] = WriteSize /\ AtList(d, p)

\* A step keeps that if the pages it leaves in use were used and keep their
\* list, or are in the list of a write.
LEMMA PagesFrame ==
  ASSUME Pages,
         \A p \in Page : status'[p] # {} =>
            \/ Taken(p) /\ status'[p] # status[p]
            \/ status[p] # {} /\ \A d \in Dev : busy[d] = WriteSize /\ AtList(d, p) =>
                                   busy'[d] = busy[d] /\ list'[d] = list[d]
  PROVE  Pages'
<1> SUFFICES ASSUME NEW p \in Page, status'[p] # {}
             PROVE  \E d \in Dev : /\ busy'[d] = WriteSize
                                  /\ \E k \in DOMAIN list'[d] : list'[d][k] = p
  BY DEF Pages, AtList
<1>1. CASE Taken(p) /\ status'[p] # status[p]
  BY <1>1 DEF Taken
<1>2. CASE status[p] # {} /\ \A d \in Dev : busy[d] = WriteSize /\ AtList(d, p) =>
                                 busy'[d] = busy[d] /\ list'[d] = list[d]
  <2>1. PICK d \in Dev : busy[d] = WriteSize /\ AtList(d, p)
    BY <1>2 DEF Pages
  <2> QED BY <1>2, <2>1 DEF AtList
<1> QED BY <1>1, <1>2

LEMMA PagesStep ==
  ASSUME CacheInv, Pages, [Next]_vars, ~ IoErrors, ~ PowerFails, ReadOnly = {}
  PROVE  Pages'
<1>a. TypeOK /\ Control /\ Data /\ Lists /\ Filling /\ CallOK /\ ent \in Idx /\
      \A p \in Page : p \notin Idx /\ p \in Buf
  <2>1. \A p \in Page : p \notin Idx /\ p \in Buf
    BY FiniteIdx, Sizes DEF Idx, Page, Buf
  <2> QED BY <2>1 DEF CacheInv, Control, Data, TypeOK
<1>1. CASE UNCHANGED <<status, busy, list>>
  BY <1>1 DEF Pages, AtList
<1>2. CASE Assign \/ Filled \/ Mark
  <2>1. UNCHANGED <<busy, list>>
    BY <1>2 DEF Assign, Filled, Mark, drvars
  <2>2. ASSUME NEW p \in Page PROVE status'[p] = status[p]
    <3>1. p # ent /\ p \in DOMAIN status
      BY <1>a DEF TypeOK
    <3>2. CASE Assign
      BY <3>1, <3>2 DEF Assign
    <3>3. CASE Filled
      BY <3>1, <3>3 DEF Filled, ClearBusy
    <3>4. CASE Mark
      BY <3>1, <3>4 DEF Mark
    <3> QED BY <1>2, <3>2, <3>3, <3>4
  <2> QED BY <2>1, <2>2 DEF Pages, AtList
<1>3. CASE Fill
  <2>1. call.dev \in Dev /\ busy[call.dev] = 0
    BY <1>a, <1>3, CallFacts DEF Fill, AtStep, Filling, Asking
  <2>2. /\ busy' = busy \/ busy' = [busy EXCEPT ![call.dev] = READ]
        /\ list' = list \/ list' = [list EXCEPT ![call.dev] = <<ent>>]
        /\ status' = status \/ \E x : status' = [status EXCEPT ![ent] = x]
    BY <1>3 DEF Fill
  <2>3. \A p \in Page : status'[p] = status[p]
    BY <1>a, <2>2 DEF TypeOK
  <2>4. \A d \in Dev : busy[d] = WriteSize => busy'[d] = busy[d] /\ list'[d] = list[d]
    BY <1>a, <2>1, <2>2, Sizes DEF TypeOK
  <2> QED BY <2>3, <2>4, PagesFrame
<1>4. CASE Evict \/ FlushEntry
  <2>1. CASE UNCHANGED <<bbvars, lru, busy, list, wr>>
    BY <1>1, <2>1 DEF bbvars
  <2>2. CASE /\ DevWrite(ent, TRUE) \/ DevWrite(ent, FALSE)
             /\ wr = NoWr /\ UNCHANGED <<bcount, bpurge, devvars>>
    <3>1. /\ \A d \in Dev : busy[d] = 0 \/ (busy'[d] = busy[d] /\ list'[d] = list[d])
          /\ \A p \in Page : Taken(p)
      <4>1. PICK purge \in BOOLEAN : DevWrite(ent, purge)
        BY <2>2
      <4>2. /\ \A d \in Dev : busy[d] = 0 \/ (busy'[d] = busy[d] /\ list'[d] = list[d])
            /\ ~ IoErrors => \A p \in Page : Taken(p)
        BY <1>a, <2>2, <4>1, DevWriteFacts
      <4> QED BY <4>2
    <3>2. \A d \in Dev : busy[d] = WriteSize => busy'[d] = busy[d] /\ list'[d] = list[d]
      BY <3>1, Sizes
    <3> QED BY <3>1, <3>2, PagesFrame
  <2> QED BY <1>4, <2>1, <2>2 DEF Evict, FlushEntry, AtStep
<1>5. CASE WriteEntry
  <2>1. PICK d, e : d = wr.dev /\ e = list[wr.dev][wr.len]
    OBVIOUS
  <2>2. d \in Dev /\ WriteList(d) /\ wr.len \in 1 .. WriteSize /\ e \in Buf /\ AtList(d, e)
    <3>1. /\ wr # NoWr /\ wr.len > 0 /\ d \in Dev /\ WriteList(d) /\ wr.len \in 0 .. WriteSize
          /\ \A k \in 1 .. WriteSize : list[d][k] \in Buf
      BY <1>5, <2>1, WritingFacts DEF WriteEntry
    <3>2. wr.len \in 1 .. WriteSize /\ DOMAIN list[d] = 1 .. WriteSize
      BY <1>a, <3>1, SeqFacts DEF WriteList, TypeOK
    <3> QED BY <2>1, <3>1, <3>2 DEF AtList
  <2>3. UNCHANGED <<busy, list>> /\
        (status' = ClearBusy(e) \/ status' = [status EXCEPT ![e] = @ \cup {"BUSY"}])
    BY <1>5, <2>1 DEF WriteEntry, drvars
  <2>4. ASSUME NEW p \in Page, status'[p] # {}
        PROVE \E x \in Dev : busy[x] = WriteSize /\ AtList(x, p)
    <3>1. CASE p = e
      BY <2>2, <3>1 DEF WriteList
    <3>2. CASE p # e
      BY <1>a, <2>2, <2>3, <2>4, <3>2 DEF ClearBusy, TypeOK, Pages
    <3> QED BY <3>1, <3>2
  <2> QED BY <2>3, <2>4 DEF Pages, AtList
<1>6. CASE WriteDone
  <2>1. PICK d, done : d = wr.dev /\ done = {list[d][k] : k \in 1 .. busy[d]}
    OBVIOUS
  <2>2. /\ status' = [i \in Buf |-> CASE i \in Gone(done)        -> Unused
                                   [] i \in done \ Gone(done) -> status[i] \ {"DIRTY"}
                                   [] OTHER             -> status[i]]
        /\ Release(d) /\ wr # NoWr
    BY <1>6, <2>1 DEF WriteDone
  <2>3. d \in Dev /\ WriteList(d) /\ DOMAIN list[d] = 1 .. busy[d]
    BY <1>a, <2>1, <2>2, WritingFacts, SeqFacts DEF WriteList, TypeOK
  <2>4. \A p \in Page : p \in done => p \in Gone(done)
    BY DEF Gone
  <2>5. ASSUME NEW p \in Page, status'[p] # {} PROVE status'[p] = status[p] /\ ~ AtList(d, p)
    BY <1>a, <2>1, <2>2, <2>3, <2>4, <2>5 DEF AtList, Unused
  <2>6. \A x \in Dev \ {d} : busy'[x] = busy[x] /\ list'[x] = list[x]
    BY <1>a, <2>2, <2>3, ReleaseFacts
  <2> QED BY <2>5, <2>6, PagesFrame
<1>7. CASE PollWrite
  <2>1. UNCHANGED <<busy, list>>
    BY <1>7 DEF PollWrite, drvars
  <2>2. status' = status \/ \E e : status' = ClearBusy(e)
    BY <1>7 DEF PollWrite
  <2>3. ASSUME NEW p \in Page, status'[p] # {} PROVE status[p] # {}
    <3>1. p \in DOMAIN status
      BY <1>a DEF TypeOK
    <3>2. CASE \E e : status' = ClearBusy(e)
      <4>1. PICK e : status' = [status EXCEPT ![e] = @ \ {"BUSY"}]
        BY <3>2 DEF ClearBusy
      <4>2. status'[p] = status[p] \/ status'[p] = status[p] \ {"BUSY"}
        BY <3>1, <4>1
      <4> QED BY <2>3, <4>2
    <3> QED BY <2>2, <2>3, <3>2
  <2> QED BY <2>1, <2>3 DEF Pages, AtList
<1>8. CASE PollRead
  <2>1. PICK d, i : d = poll /\ i = list[poll][1]
    OBVIOUS
  <2>2. d \in Dev /\ busy[d] = READ /\ i \in Idx /\ Release(d)
    BY <1>a, <1>8, <2>1, PollTyped, Sizes DEF PollRead, Polling, Lists, ReadList, WriteList
  <2>3. status' = ClearBusy(i) \/ status' = [status EXCEPT ![i] = Unused]
    BY <1>8, <2>1 DEF PollRead
  <2>4. \A p \in Page : status'[p] = status[p]
    BY <1>a, <2>2, <2>3 DEF ClearBusy, TypeOK
  <2>5. \A x \in Dev : busy[x] = WriteSize => busy'[x] = busy[x] /\ list'[x] = list[x]
    BY <1>a, <2>2, ReleaseFacts, Sizes
  <2> QED BY <2>4, <2>5, PagesFrame
<1>9. ~ PowerFail
  BY DEF PowerFail
<1>10. CASE \/ Begin \/ Ticked \/ Find \/ Lookup \/ Hit \/ Miss \/ GetFree \/ Copy \/ PollIdle
            \/ FlushWait \/ FlushBusy \/ FlushPoll \/ FlushNext \/ UNCHANGED vars
  <2>1. UNCHANGED <<status, busy, list>>
    BY <1>10 DEF Begin, Ticked, Find, Lookup, Hit, Miss, GetFree, Copy, PollIdle, FlushWait,
       FlushBusy, FlushPoll, FlushNext, vars, bbvars, drvars
  <2> QED BY <1>1, <2>1
<1>11. CASE \E d \in Dev : Device(d) \/ BackgroundBegins(d)
  <2>1. UNCHANGED <<status, busy, list>>
    BY <1>11 DEF Device, Programmed, BackgroundDone, BackgroundBegins, bbvars, drvars
  <2> QED BY <1>1, <2>1
<1> QED BY <1>2, <1>3, <1>4, <1>5, <1>6, <1>7, <1>8, <1>9, <1>10, <1>11 DEF Next, Run

-----------------------------------------------------------------------------
(* The theorems *)

\* Every variable of the cache has its type: the list of a device is as long as
\* the device has sectors left to write, and wr and poll stay within it.
THEOREM CacheTypes == Spec => []TypeOK
<1>1. CacheInv => TypeOK
  BY DEF CacheInv
<1> QED BY <1>1, InitInv, NextInv, PTL DEF Spec

\* Never do two used entries hold one sector, although calls and fat_tick come
\* between _fatftc_find, which did not find it, and _fatftc_getfree.
THEOREM OneEntryPerSector == Spec => []NoDuplicates
<1>1. CacheInv => NoDuplicates
  BY DEF CacheInv, Data
<1> QED BY <1>1, InitInv, NextInv, PTL DEF Spec

\* No entry is twice in the LRU list, and none is missing that _fatftc_getfree
\* has to find there, also after a power failure.
THEOREM LruListComplete == Spec => []LruComplete
<1>1. ASSUME CacheInv PROVE LruComplete
  <2>1. Once(lru) /\ Unlisted
    BY <1>1 DEF CacheInv, Data, Control
  <2>2. Entries(lru) = Listed
    BY DEF Entries, Listed
  <2>3. ASSUME NEW i \in Idx \ Listed
        PROVE  "DIRTY" \notin status[i] /\
               ("USED" \in status[i] => ~ Holds(i) \/ pc = "filled")
    BY <2>1, <2>2 DEF Unlisted, Holds, Pending
  <2> QED BY <2>1, <2>3 DEF LruComplete, Once
<1> QED BY <1>1, InitInv, NextInv, PTL DEF Spec

\* A busy entry is in the list of its device's operation, so that fat_tick
\* clears the mark: no entry stays busy for ever.
THEOREM BusyEntriesListed == Spec => []BusyListed
<1>1. CacheInv => BusyListed
  BY DEF CacheInv, Data
<1> QED BY <1>1, InitInv, NextInv, PTL DEF Spec

\* While no driver fails and power does not, page buffers are in use only for a
\* write in progress.
THEOREM PagesComeBack ==
  ASSUME ~ IoErrors, ~ PowerFails, ReadOnly = {}
  PROVE  Spec => []PagesReleased
<1>1. Init => Pages
  BY DEF Init, Pages, Unused, Buf
<1>2. CacheInv /\ Pages /\ [Next]_vars => Pages'
  BY PagesStep
<1>3. CacheInv /\ Pages => PagesReleased
  BY Sizes DEF Pages, PagesReleased, AtList, Unused
<1> QED BY <1>1, <1>2, <1>3, InitInv, NextInv, PTL DEF Spec

=============================================================================
