----------------------------- MODULE SharedLemmas ----------------------------
(***************************************************************************)
(* Facts that the proofs about the components share: about naturals, ranks *)
(* and subsequences, about lists, and about what an ingest of the gateway  *)
(* program does to its table.                                              *)
(***************************************************************************)
EXTENDS Subsequences, Functions, GatewayDb, TLAPS, WellFoundedInduction, FiniteSetTheorems

(* A set of naturals that is not empty has a least element. *)
LEMMA LeastNatural ==
  ASSUME NEW S, S \subseteq Nat, S # {}
  PROVE  \E n \in S : \A m \in S : n <= m
<1> DEFINE Less == {ss \in Nat \X Nat : ss[1] < ss[2]}
<1>1. IsWellFoundedOn(Less, Nat)
  BY NatLessThanWellFounded DEF OpToRel
<1> HIDE DEF Less
<1>2. PICK n \in S : \A m \in S : <<m, n>> \notin Less
  BY <1>1, WFMin
<1>3. ASSUME NEW m \in S
      PROVE  n <= m
  <2>1. m \in Nat /\ n \in Nat
    OBVIOUS
  <2>2. m < n => <<m, n>> \in Less
    BY <2>1 DEF Less
  <2> QED
    BY <1>2, <2>1, <2>2
<1> QED
  BY <1>3

-----------------------------------------------------------------------------
(* The elements of P that R puts at or before i. *)
UpTo(P, R, i) == {j \in P : <<j, i>> \in R}

(* Counting what comes at or before it numbers the elements of a finite     *)
(* set that is totally ordered from one up.                                 *)
LEMMA RanksAreANumbering ==
  ASSUME NEW P, IsFiniteSet(P), NEW R,
         \A i \in P : <<i, i>> \in R,
         \A i, j \in P : <<i, j>> \in R \/ <<j, i>> \in R,
         \A i, j \in P : <<i, j>> \in R /\ <<j, i>> \in R => i = j,
         \A i, j, k \in P : <<i, j>> \in R /\ <<j, k>> \in R => <<i, k>> \in R
  PROVE  /\ \A i \in P : Cardinality(UpTo(P, R, i)) \in 1..Cardinality(P)
         /\ \A i, j \in P :
               Cardinality(UpTo(P, R, i)) = Cardinality(UpTo(P, R, j)) => i = j
         /\ \A k \in 1..Cardinality(P) : \E i \in P : Cardinality(UpTo(P, R, i)) = k
<1> DEFINE n == Cardinality(P)
           rank == [i \in P |-> Cardinality(UpTo(P, R, i))]
<1>1. n \in Nat
  BY FS_CardinalityType
<1>2. ASSUME NEW i \in P
      PROVE  /\ IsFiniteSet(UpTo(P, R, i)) /\ i \in UpTo(P, R, i)
             /\ Cardinality(UpTo(P, R, i)) \in 1..n
  <2>1. UpTo(P, R, i) \in SUBSET P /\ i \in UpTo(P, R, i)
    BY DEF UpTo
  <2>2. IsFiniteSet(UpTo(P, R, i)) /\ Cardinality(UpTo(P, R, i)) <= n
    BY <2>1, FS_Subset
  <2>3. Cardinality(UpTo(P, R, i)) \in Nat /\ Cardinality(UpTo(P, R, i)) # 0
    BY <2>1, <2>2, FS_CardinalityType, FS_EmptySet
  <2> QED
    BY <1>1, <2>1, <2>2, <2>3
<1>3. ASSUME NEW i \in P, NEW j \in P, <<i, j>> \in R,
             Cardinality(UpTo(P, R, i)) = Cardinality(UpTo(P, R, j))
      PROVE  i = j
  <2>1. UpTo(P, R, i) \in SUBSET UpTo(P, R, j)
    BY <1>3 DEF UpTo
  <2>2. UpTo(P, R, i) = UpTo(P, R, j)
    BY <1>2, <1>3, <2>1, FS_Subset
  <2>3. <<j, i>> \in R
    BY <1>2, <2>2 DEF UpTo
  <2> QED
    BY <1>3, <2>3
<1>4. \A i, j \in P : Cardinality(UpTo(P, R, i)) = Cardinality(UpTo(P, R, j)) => i = j
  BY <1>3
<1>5. rank \in Injection(P, 1..n)
  BY <1>2, <1>4 DEF Injection, IsInjective
<1>6. IsFiniteSet(1..n) /\ Cardinality(1..n) = n
  BY <1>1, FS_Interval
<1>7. rank \in Surjection(P, 1..n)
  BY <1>5, <1>6, FS_Injection
<1>8. \A k \in 1..n : \E i \in P : rank[i] = k
  BY <1>7 DEF Surjection
<1> QED
  BY <1>2, <1>4, <1>8

-----------------------------------------------------------------------------
(* A subsequence holds what the sequence has at its places and nothing      *)
(* else, and in the same order.                                             *)
LEMMA SubsequenceKeeps ==
  ASSUME NEW S, NEW s \in Seq(S), NEW places, places \subseteq DOMAIN s
  PROVE  /\ Subsequence(s, places) \in Seq(S)
         /\ Len(Subsequence(s, places)) = Cardinality(places)
         /\ Cardinality(places) \in Nat
         /\ \A i \in places : /\ Rank(places, i) \in DOMAIN Subsequence(s, places)
                              /\ Subsequence(s, places)[Rank(places, i)] = s[i]
         /\ \A k \in DOMAIN Subsequence(s, places) : \E i \in places :
               Rank(places, i) = k /\ Subsequence(s, places)[k] = s[i]
<1> DEFINE R == {ij \in places \X places : ij[1] <= ij[2]}
           n == Cardinality(places)
           sub == Subsequence(s, places)
<1>1. DOMAIN s = 1..Len(s) /\ Len(s) \in Nat /\ places \subseteq Int
  OBVIOUS
<1>2. IsFiniteSet(places) /\ n \in Nat
  <2>1. IsFiniteSet(1..Len(s)) /\ places \in SUBSET (1..Len(s))
    BY <1>1, FS_Interval
  <2>2. IsFiniteSet(places)
    BY <2>1, FS_Subset
  <2> QED
    BY <2>2, FS_CardinalityType
<1>3. \A i, j \in places : <<i, j>> \in R <=> i <= j
  OBVIOUS
<1>4. \A i \in places : Rank(places, i) = Cardinality(UpTo(places, R, i))
  BY DEF Rank, UpTo
<1> HIDE DEF R
<1>5. /\ \A i \in places : <<i, i>> \in R
      /\ \A i, j \in places : <<i, j>> \in R \/ <<j, i>> \in R
      /\ \A i, j \in places : <<i, j>> \in R /\ <<j, i>> \in R => i = j
      /\ \A i, j, k \in places : <<i, j>> \in R /\ <<j, k>> \in R => <<i, k>> \in R
  BY <1>1, <1>3
<1>6. /\ \A i \in places : Rank(places, i) \in 1..n
      /\ \A i, j \in places : Rank(places, i) = Rank(places, j) => i = j
      /\ \A k \in 1..n : \E i \in places : Rank(places, i) = k
  <2>1. /\ \A i \in places : Cardinality(UpTo(places, R, i)) \in 1..n
        /\ \A i, j \in places :
              Cardinality(UpTo(places, R, i)) = Cardinality(UpTo(places, R, j)) => i = j
        /\ \A k \in 1..n : \E i \in places : Cardinality(UpTo(places, R, i)) = k
    BY <1>2, <1>5, RanksAreANumbering
  <2> QED
    BY <1>4, <2>1
<1>7. ASSUME NEW k \in 1..n
      PROVE  \E i \in places : Rank(places, i) = k /\ sub[k] = s[i]
  <2> DEFINE i == CHOOSE i \in places : Rank(places, i) = k
  <2>1. i \in places /\ Rank(places, i) = k
    BY <1>6
  <2>2. sub[k] = s[i]
    BY DEF Subsequence
  <2> QED
    BY <2>1, <2>2
<1>8. DOMAIN sub = 1..n /\ sub \in Seq(S) /\ Len(sub) = n
  <2>1. sub = [k \in 1..n |-> s[CHOOSE i \in places : Rank(places, i) = k]]
    BY DEF Subsequence
  <2>2. \A k \in 1..n : s[CHOOSE i \in places : Rank(places, i) = k] \in S
    BY <1>6
  <2> HIDE DEF sub, n
  <2>3. sub \in [1..n -> S]
    BY <2>1, <2>2
  <2> QED
    BY <1>2, <2>3
<1>9. ASSUME NEW i \in places
      PROVE  Rank(places, i) \in DOMAIN sub /\ sub[Rank(places, i)] = s[i]
  BY <1>6, <1>7, <1>8
<1> QED
  BY <1>2, <1>7, <1>8, <1>9

-----------------------------------------------------------------------------
(* What a list holds after another list, or one element, came behind it,    *)
(* and after its first element went.                                        *)
LEMMA RangeOfConcat ==
  ASSUME NEW S, NEW s \in Seq(S), NEW t \in Seq(S)
  PROVE  s \o t \in Seq(S) /\ Range(s \o t) = Range(s) \cup Range(t)
<1>1. s \o t \in Seq(S) /\ Len(s \o t) = Len(s) + Len(t)
  OBVIOUS
<1>2. \A i \in DOMAIN s : i \in DOMAIN (s \o t) /\ (s \o t)[i] = s[i]
  OBVIOUS
<1>3. \A i \in DOMAIN t : Len(s) + i \in DOMAIN (s \o t) /\ (s \o t)[Len(s) + i] = t[i]
  OBVIOUS
<1>4. ASSUME NEW i \in DOMAIN (s \o t)
      PROVE  \/ i \in DOMAIN s /\ (s \o t)[i] = s[i]
             \/ i - Len(s) \in DOMAIN t /\ (s \o t)[i] = t[i - Len(s)]
  OBVIOUS
<1>5. Range(s \o t) \subseteq Range(s) \cup Range(t)
  BY <1>4 DEF Range
<1>6. Range(s) \subseteq Range(s \o t)
  BY <1>2 DEF Range
<1>7. Range(t) \subseteq Range(s \o t)
  BY <1>3 DEF Range
<1> QED
  BY <1>1, <1>5, <1>6, <1>7

LEMMA RangeOfAppend ==
  ASSUME NEW S, NEW s \in Seq(S), NEW x \in S
  PROVE  Append(s, x) \in Seq(S) /\ Range(Append(s, x)) = Range(s) \cup {x}
<1>1. Append(s, x) \in Seq(S) /\ DOMAIN Append(s, x) = DOMAIN s \cup {Len(s) + 1}
  OBVIOUS
<1>2. /\ \A i \in DOMAIN s : Append(s, x)[i] = s[i]
      /\ Append(s, x)[Len(s) + 1] = x
  OBVIOUS
<1> QED
  BY <1>1, <1>2 DEF Range

LEMMA RangeOfTail ==
  ASSUME NEW S, NEW s \in Seq(S), s # << >>
  PROVE  /\ Head(s) \in S /\ Head(s) \in Range(s) /\ Tail(s) \in Seq(S)
         /\ Range(s) = {Head(s)} \cup Range(Tail(s))
<1>1. /\ Tail(s) \in Seq(S) /\ Len(s) \in Nat \ {0} /\ DOMAIN s = 1..Len(s)
      /\ DOMAIN Tail(s) = 1..Len(s) - 1 /\ Head(s) = s[1] /\ s[1] \in S
  OBVIOUS
<1>2. \A i \in DOMAIN Tail(s) : i + 1 \in DOMAIN s /\ Tail(s)[i] = s[i + 1]
  OBVIOUS
<1>3. Head(s) \in Range(s) /\ Range(Tail(s)) \subseteq Range(s)
  BY <1>1, <1>2 DEF Range
<1>4. ASSUME NEW i \in DOMAIN s
      PROVE  s[i] \in {Head(s)} \cup Range(Tail(s))
  <2>1. CASE i = 1
    BY <1>1, <2>1
  <2>2. CASE i # 1
    <3>1. i - 1 \in DOMAIN Tail(s) /\ Tail(s)[i - 1] = s[i]
      BY <1>1, <1>2, <2>2
    <3> QED
      BY <3>1 DEF Range
  <2> QED
    BY <2>1, <2>2
<1>5. Range(s) \subseteq {Head(s)} \cup Range(Tail(s))
  BY <1>4 DEF Range
<1> QED
  BY <1>1, <1>3, <1>5

(* One element more makes a list one longer, whatever it holds. *)
LEMMA AppendedIsNumbered ==
  ASSUME NEW s, DOMAIN s = 1..Len(s), Len(s) \in Nat, NEW x
  PROVE  /\ DOMAIN Append(s, x) = 1..Len(Append(s, x))
         /\ Len(Append(s, x)) = Len(s) + 1
         /\ \A i \in DOMAIN s : Append(s, x)[i] = s[i]
         /\ Append(s, x)[Len(s) + 1] = x
  OBVIOUS
-----------------------------------------------------------------------------
(* Of some places of a list, those that repeat what an earlier one of them  *)
(* has are as many as the places less the different values they have.       *)
LEMMA RepeatsAreTheRest ==
  ASSUME NEW f, NEW n \in Nat, NEW P, P \subseteq 1..n
  PROVE  LET values == {f[k] : k \in P}
             repeats == {k \in P : \E j \in P : j < k /\ f[j] = f[k]}
         IN /\ Cardinality(repeats) = Cardinality(P) - Cardinality(values)
            /\ Cardinality(repeats) \in Nat
<1> DEFINE values == {f[k] : k \in P}
           repeats == {k \in P : \E j \in P : j < k /\ f[j] = f[k]}
           firsts == P \ repeats
           g == [k \in firsts |-> f[k]]
<1>1. IsFiniteSet(P)
  <2>1. IsFiniteSet(1..n)
    BY FS_Interval
  <2> QED
    BY <2>1, FS_Subset
<1>2. \A v \in values : \E k \in firsts : f[k] = v
  <2> SUFFICES ASSUME NEW v \in values
               PROVE  \E k \in firsts : f[k] = v
    OBVIOUS
  <2> DEFINE places == {k \in P : f[k] = v}
  <2>1. places \subseteq Nat /\ places # {}
    <3>1. \A k \in 1..n : k \in Nat
      OBVIOUS
    <3>2. PICK k \in P : v = f[k]
      OBVIOUS
    <3> QED
      BY <3>1, <3>2
  <2>2. PICK k \in places : \A m \in places : k <= m
    BY <2>1, LeastNatural
  <2>3. \A j \in P : f[j] = f[k] => j \in Nat /\ k \in Nat /\ k <= j
    BY <2>1, <2>2
  <2>4. k \notin repeats
    BY <2>3
  <2> QED
    BY <2>2, <2>4
<1>3. \A j, k \in firsts : f[j] = f[k] => j = k
  <2> SUFFICES ASSUME NEW j \in firsts, NEW k \in firsts, f[j] = f[k]
               PROVE  j = k
    OBVIOUS
  <2>1. j \in Nat /\ k \in Nat /\ ~(j < k) /\ ~(k < j)
    OBVIOUS
  <2> QED
    BY <2>1
<1>4. ExistsBijection(firsts, values)
  <2>1. g \in [firsts -> values]
    OBVIOUS
  <2>2. g \in Injection(firsts, values)
    BY <1>3, <2>1 DEF Injection, IsInjective
  <2>3. g \in Surjection(firsts, values)
    BY <1>2, <2>1 DEF Surjection
  <2> QED
    BY <2>2, <2>3 DEF ExistsBijection, Bijection
<1>5. IsFiniteSet(firsts) /\ Cardinality(firsts) = Cardinality(P) - Cardinality(repeats)
  <2>1. P \cap repeats = repeats
    OBVIOUS
  <2>2. /\ IsFiniteSet(P \ repeats)
        /\ Cardinality(P \ repeats) = Cardinality(P) - Cardinality(P \cap repeats)
    BY <1>1, FS_Difference
  <2> QED
    BY <2>1, <2>2
<1>6. Cardinality(values) = Cardinality(firsts)
  BY <1>4, <1>5, FS_Bijection
<1>7. Cardinality(P) \in Nat /\ Cardinality(repeats) \in Nat
  <2>1. IsFiniteSet(repeats)
    BY <1>1, FS_Subset
  <2> QED
    BY <1>1, <2>1, FS_CardinalityType
<1> HIDE DEF values, repeats, firsts
<1>8. Cardinality(repeats) = Cardinality(P) - Cardinality(values)
  BY <1>5, <1>6, <1>7
<1> QED
  BY <1>7, <1>8 DEF values, repeats
-----------------------------------------------------------------------------
(* An ingest of the gateway program keeps the rows it has, and each row it   *)
(* adds is made of the first record of its event that is not garbled.        *)

(* Of every id the gateway accepts of some records there is a first record. *)
LEMMA FirstRecord ==
  ASSUME NEW S, NEW records \in Seq(S), NEW i \in IdsIn(records)
  PROVE  /\ FirstOf(i, records) \in DOMAIN records
         /\ ~records[FirstOf(i, records)].frame.garbled
         /\ records[FirstOf(i, records)].frame.event_id = i
<1> DEFINE Of == {k \in DOMAIN records : /\ ~records[k].frame.garbled
                                         /\ records[k].frame.event_id = i}
<1>1. DOMAIN records = 1..Len(records) /\ Len(records) \in Nat
  OBVIOUS
<1>2. Of \subseteq Nat /\ Of # {}
  BY <1>1 DEF IdsIn
<1>3. PICK k \in Of : \A j \in Of : k <= j
  BY <1>2, LeastNatural
<1>4. \A j \in 1..k - 1 : records[j].frame.garbled \/ records[j].frame.event_id # i
  BY <1>1, <1>3
<1> QED
  BY <1>3, <1>4 DEF FirstOf

(* The rows of a later table: those of the earlier one, and some of records. *)
AddsRows(table, records, next) ==
  /\ DOMAIN table \subseteq DOMAIN next
  /\ DOMAIN next \subseteq DOMAIN table \cup IdsIn(records)
  /\ \A i \in DOMAIN table : next[i] = table[i]
  /\ \A i \in DOMAIN next \ DOMAIN table :
        \E k \in DOMAIN records :
           /\ ~records[k].frame.garbled /\ records[k].frame.event_id = i
           /\ next[i] = RowFrom(records[k])

(* An ingest adds rows and changes none.                                    *)
LEMMA IngestAddsRows ==
  ASSUME NEW S, NEW records \in Seq(S), NEW table
  PROVE  /\ AddsRows(table, records, Ingested(table, records))
         /\ DOMAIN Ingested(table, records) = DOMAIN table \cup IdsIn(records)
<1> DEFINE next == Ingested(table, records)
<1>1. /\ DOMAIN next = DOMAIN table \cup IdsIn(records)
      /\ \A i \in DOMAIN table : next[i] = table[i]
      /\ \A i \in IdsIn(records) \ DOMAIN table :
            next[i] = RowFrom(records[FirstOf(i, records)])
  BY DEF Ingested
<1> QED
  BY <1>1, FirstRecord DEF AddsRows

(* An ingest that stops half way adds some of the rows.                     *)
LEMMA PartialIngestAddsRows ==
  ASSUME NEW S, NEW records \in Seq(S), NEW table,
         NEW next \in PartlyIngested(table, records)
  PROVE  AddsRows(table, records, next)
<1>1. PICK n \in 0..Len(records) : next = Ingested(table, SubSeq(records, 1, n))
  BY DEF PartlyIngested
<1> DEFINE some == SubSeq(records, 1, n)
<1>2. /\ some \in Seq(S) /\ DOMAIN some = 1..n /\ DOMAIN some \subseteq DOMAIN records
      /\ \A k \in DOMAIN some : some[k] = records[k]
  OBVIOUS
<1>3. IdsIn(some) \subseteq IdsIn(records)
  BY <1>2 DEF IdsIn
<1>4. AddsRows(table, some, next)
  BY <1>1, <1>2, IngestAddsRows
<1> HIDE DEF some
<1> QED
  BY <1>2, <1>3, <1>4 DEF AddsRows
=============================================================================
