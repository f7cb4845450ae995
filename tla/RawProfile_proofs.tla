-------------------------- MODULE RawProfile_proofs --------------------------
(***************************************************************************)
(* Proofs about the raw profile codec, for every profile, tier and map:    *)
(* what encode may write decode accepts and returns, torn bytes are never  *)
(* accepted, and what decode accepts means one count for each counter.     *)
(***************************************************************************)
EXTENDS RawProfile, SequenceTheorems, FiniteSetTheorems, TLAPS

-----------------------------------------------------------------------------
(* The order of the pairs. *)

Smaller(S, i) == {j \in S : j < i}
Rank(S, i)    == Cardinality(Smaller(S, i))

\* Of a finite set, each number has as many smaller ones beside it as no other.
LEMMA RankFacts ==
  ASSUME NEW S \in SUBSET Int, IsFiniteSet(S), NEW i \in S
  PROVE  /\ Rank(S, i) \in 0 .. Cardinality(S) - 1
         /\ \A j \in S : i < j => Rank(S, i) < Rank(S, j)
  <1>1. \A j \in S : IsFiniteSet(Smaller(S, j)) /\ Cardinality(Smaller(S, j)) \in Nat
    BY FS_Subset, FS_CardinalityType DEF Smaller
  <1>2. \A T \in SUBSET S : IsFiniteSet(T) /\ Cardinality(T) <= Cardinality(S)
    BY FS_Subset
  <1>3. Cardinality(Smaller(S, i) \cup {i}) = Rank(S, i) + 1 /\ IsFiniteSet(Smaller(S, i) \cup {i})
    BY <1>1, FS_AddElement DEF Smaller, Rank
  <1>4. Rank(S, i) + 1 <= Cardinality(S)
    BY <1>2, <1>3 DEF Smaller
  <1>5. ASSUME NEW j \in S, i < j PROVE Rank(S, i) < Rank(S, j)
    <2>1. Smaller(S, i) \cup {i} \in SUBSET Smaller(S, j)
      <3> SUFFICES ASSUME NEW m \in Smaller(S, i) \cup {i} PROVE m \in S /\ m < j
        BY DEF Smaller
      <3>1. m \in S /\ m \in Int /\ i \in Int /\ j \in Int
        BY DEF Smaller
      <3>2. m < i \/ m = i
        BY DEF Smaller
      <3> QED
        BY <1>5, <3>1, <3>2
    <2>2. Rank(S, i) + 1 <= Rank(S, j)
      BY <1>1, <1>3, <2>1, FS_Subset DEF Rank
    <2> QED
      BY <1>1, <2>2 DEF Rank
  <1>6. Cardinality(S) \in Nat
    BY FS_CardinalityType
  <1> QED
    BY <1>1, <1>4, <1>5, <1>6 DEF Rank

\* InOrder lists a finite set of numbers, each once, in increasing order.
LEMMA InOrderFacts ==
  ASSUME NEW S \in SUBSET Int, IsFiniteSet(S)
  PROVE  /\ InOrder(S) \in Seq(S) /\ Len(InOrder(S)) = Cardinality(S)
         /\ DOMAIN InOrder(S) = 1 .. Cardinality(S) /\ Cardinality(S) \in Nat
         /\ \A k \in 1 .. Cardinality(S) : InOrder(S)[k] \in S
         /\ \A i \in S : \E k \in 1 .. Cardinality(S) : InOrder(S)[k] = i
         /\ \A k, l \in 1 .. Cardinality(S) : k < l => InOrder(S)[k] < InOrder(S)[l]
  <1> DEFINE n == Cardinality(S)
             r == [i \in S |-> Rank(S, i)]
  <1>1. n \in Nat
    BY FS_CardinalityType
  <1>2. IsFiniteSet(0 .. n - 1) /\ Cardinality(0 .. n - 1) = n
    BY <1>1, FS_Interval
  <1>3. r \in Injection(S, 0 .. n - 1)
    <2>1. r \in [S -> 0 .. n - 1]
      BY RankFacts
    <2>2. ASSUME NEW i \in S, NEW j \in S, r[i] = r[j] PROVE i = j
      <3>1. ~(i < j) /\ ~(j < i)
        BY <2>2, RankFacts
      <3> QED
        BY <3>1
    <2> QED
      BY <2>1, <2>2 DEF Injection, IsInjective
  <1>4. r \in Surjection(S, 0 .. n - 1)
    BY <1>2, <1>3, FS_Injection
  <1>5. ASSUME NEW k \in 1 .. n PROVE InOrder(S)[k] \in S /\ Rank(S, InOrder(S)[k]) = k - 1
    <2>1. k - 1 \in 0 .. n - 1
      BY <1>1
    <2>2. \E i \in S : r[i] = k - 1
      BY <1>4, <2>1 DEF Surjection
    <2>3. InOrder(S)[k] = CHOOSE i \in S : Rank(S, i) = k - 1
      BY DEF InOrder, Rank, Smaller
    <2> QED
      BY <2>2, <2>3
  <1>6. DOMAIN InOrder(S) = 1 .. n
    BY DEF InOrder
  <1>7. InOrder(S) \in Seq(S) /\ Len(InOrder(S)) = n
    <2>1. InOrder(S) \in [1 .. n -> S]
      BY <1>5, <1>6 DEF InOrder
    <2> QED
      BY <1>1, <1>6, <2>1
  <1>8. ASSUME NEW i \in S PROVE \E k \in 1 .. n : InOrder(S)[k] = i
    <2>1. Rank(S, i) + 1 \in 1 .. n
      BY <1>1, RankFacts
    <2>2. InOrder(S)[Rank(S, i) + 1] \in S /\ Rank(S, InOrder(S)[Rank(S, i) + 1]) = Rank(S, i)
      BY <1>5, <2>1, RankFacts
    <2>3. InOrder(S)[Rank(S, i) + 1] = i
      BY <1>3, <2>2 DEF Injection, IsInjective
    <2> QED
      BY <2>1, <2>3
  <1>9. ASSUME NEW k \in 1 .. n, NEW l \in 1 .. n, k < l PROVE InOrder(S)[k] < InOrder(S)[l]
    <2>1. /\ InOrder(S)[k] \in S /\ Rank(S, InOrder(S)[k]) = k - 1
          /\ InOrder(S)[l] \in S /\ Rank(S, InOrder(S)[l]) = l - 1
      BY <1>5
    <2>2. k - 1 < l - 1 /\ ~(l - 1 < k - 1)
      BY <1>1, <1>9
    <2>3. InOrder(S)[l] < InOrder(S)[k] => Rank(S, InOrder(S)[l]) < Rank(S, InOrder(S)[k])
      BY <2>1, RankFacts
    <2>4. ~(InOrder(S)[l] < InOrder(S)[k]) /\ InOrder(S)[k] # InOrder(S)[l]
      BY <2>1, <2>2, <2>3
    <2>5. InOrder(S)[k] \in Int /\ InOrder(S)[l] \in Int
      BY <2>1
    <2> QED
      BY <2>4, <2>5
  <1> QED
    BY <1>1, <1>5, <1>6, <1>7, <1>8, <1>9

\* A finite set of numbers that is not empty has a least member.
LEMMA LeastMember ==
  ASSUME NEW S \in SUBSET Int, IsFiniteSet(S), S # {}
  PROVE  \E i \in S : \A j \in S : i <= j
  <1> DEFINE n == Cardinality(S)
  <1>1. n \in Nat /\ n # 0
    BY FS_CardinalityType, FS_EmptySet
  <1>2. /\ InOrder(S)[1] \in S
        /\ \A j \in S : \E k \in 1 .. n : InOrder(S)[k] = j /\ (k = 1 \/ InOrder(S)[1] < InOrder(S)[k])
    <2> HIDE DEF n
    <2>1. 1 \in 1 .. n /\ \A k \in 1 .. n : k = 1 \/ 1 < k
      BY <1>1
    <2> QED
      BY <2>1, InOrderFacts DEF n
  <1> QED
    <2> SUFFICES ASSUME NEW j \in S PROVE InOrder(S)[1] <= j
      BY <1>2
    <2>1. InOrder(S)[1] \in Int /\ j \in Int
      BY <1>2
    <2>2. InOrder(S)[1] = j \/ InOrder(S)[1] < j
      BY <1>2
    <2> QED
      BY <2>1, <2>2

\* Of places in a sequence there is a first.
LEMMA LeastIndex ==
  ASSUME NEW n \in Nat, NEW S \in SUBSET (1 .. n), S # {}
  PROVE  \E i \in S : \A j \in S : i <= j
  <1>1. IsFiniteSet(1 .. n) /\ S \in SUBSET Int
    <2>1. 1 \in Int /\ n \in Int
      OBVIOUS
    <2> QED
      BY <2>1, FS_Interval
  <1>2. IsFiniteSet(S)
    BY <1>1, FS_Subset
  <1> QED
    BY <1>1, <1>2, LeastMember

-----------------------------------------------------------------------------
(* What is written is read back. *)

\* A profile the writer may be asked for.
IsProfile(p) ==
    /\ p.map_id \in Nat /\ p.run_id \in Nat /\ p.profile_id \in Nat
    /\ p.context \in Nat \cup {Null} /\ p.context_length \in Nat
    /\ p.context = Null => p.context_length = 0
    /\ p.counts \in [DOMAIN p.counts -> Nat]

Widths == MaxCount \in Nat \ {0} /\ Null \notin Nat

\* The bitmap grows with the counters.
LEMMA WordsFacts ==
  ASSUME NEW m \in Nat, NEW n \in Nat, m <= n
  PROVE  Words(m) \in Nat /\ Words(m) <= Words(n)
  BY DEF Words

\* The numbers of an encoded file.
LEMMA EncodedNumbers ==
  ASSUME Widths, NEW counters \in Nat, NEW tier \in Tier, NEW p, IsProfile(p), Encodable(p, counters, tier)
  PROVE  LET f == Encode(p, counters)
             n == Cardinality(DOMAIN p.counts)
         IN  /\ DOMAIN p.counts \in SUBSET Int /\ IsFiniteSet(DOMAIN p.counts)
             /\ n \in Nat /\ n <= counters /\ counters <= tier.max_counters
             /\ f.pair_count = n /\ DOMAIN f.pairs = 1 .. n
             /\ f.word_count = IF SaturatedIn(p.counts) = {} THEN 0 ELSE Words(counters)
             /\ f.word_count \in Nat /\ f.word_count <= Words(tier.max_counters)
             /\ f.bytes = Total(f) /\ f.bytes <= tier.max_bytes
             /\ f.context_length \in Nat /\ f.context_length = p.context_length
  <1> DEFINE f == Encode(p, counters)
             S == DOMAIN p.counts
             n == Cardinality(S)
             w == IF SaturatedIn(p.counts) = {} THEN 0 ELSE Words(counters)
  <1>1. S \in SUBSET (0 .. counters - 1)
    BY DEF Encodable
  <1>2. S \in SUBSET Int
    BY <1>1
  <1>3. IsFiniteSet(0 .. counters - 1) /\ Cardinality(0 .. counters - 1) = counters
    BY FS_Interval
  <1>4. IsFiniteSet(S) /\ n <= counters /\ n \in Nat
    BY <1>1, <1>3, FS_Subset, FS_CardinalityType
  <1>5. Len(InOrder(S)) = n /\ DOMAIN InOrder(S) = 1 .. n
    BY <1>2, <1>4, InOrderFacts
  <1>6. f.pair_count = n /\ DOMAIN f.pairs = 1 .. n /\ f.word_count = w
        /\ f.context_length = p.context_length
        /\ f.bytes = EncodedLength(p.context_length, n, w)
    BY <1>5 DEF Encode
  <1>7. tier.max_counters \in Nat /\ counters <= tier.max_counters /\ f.bytes <= tier.max_bytes
    BY DEF Tier, Encodable
  <1>8. w \in Nat /\ w <= Words(tier.max_counters)
    BY <1>7, WordsFacts DEF Words
  <1>9. f.bytes = Total(f)
    BY <1>6 DEF Total
  <1> HIDE DEF f, S, n, w
  <1>10. f.context_length \in Nat
    BY <1>6 DEF IsProfile
  <1>11. f.word_count \in Nat /\ f.word_count <= Words(tier.max_counters)
    BY <1>6, <1>8
  <1> QED
    BY <1>2, <1>4, <1>6, <1>7, <1>9, <1>10, <1>11 DEF f, S, n, w

\* Its pairs are the counts, each once, in the order of the counters.
LEMMA EncodedPairs ==
  ASSUME Widths, NEW counters \in Nat, NEW tier \in Tier, NEW p, IsProfile(p), Encodable(p, counters, tier)
  PROVE  LET f == Encode(p, counters) IN
         /\ \A k \in DOMAIN f.pairs : /\ f.pairs[k].index \in DOMAIN p.counts
                                      /\ f.pairs[k].count = p.counts[f.pairs[k].index]
         /\ \A i \in DOMAIN p.counts : \E k \in DOMAIN f.pairs : f.pairs[k].index = i
         /\ \A k, l \in DOMAIN f.pairs : k < l => f.pairs[k].index < f.pairs[l].index
  <1> DEFINE f == Encode(p, counters)
             S == DOMAIN p.counts
             n == Cardinality(S)
  <1>1. S \in SUBSET Int /\ IsFiniteSet(S) /\ DOMAIN f.pairs = 1 .. n
    BY EncodedNumbers
  <1>2. DOMAIN InOrder(S) = 1 .. n
    BY <1>1, InOrderFacts
  <1>3. f.pairs = [k \in 1 .. n |-> [index |-> InOrder(S)[k], count |-> p.counts[InOrder(S)[k]]]]
    BY <1>2 DEF Encode
  <1>4. \A k \in 1 .. n : f.pairs[k].index = InOrder(S)[k] /\ f.pairs[k].count = p.counts[InOrder(S)[k]]
    BY <1>3
  <1>5. /\ \A k \in 1 .. n : InOrder(S)[k] \in S
        /\ \A i \in S : \E k \in 1 .. n : InOrder(S)[k] = i
        /\ \A k, l \in 1 .. n : k < l => InOrder(S)[k] < InOrder(S)[l]
    BY <1>1, InOrderFacts
  <1> HIDE DEF f, n
  <1>6. \A k, l \in DOMAIN f.pairs : k < l => f.pairs[k].index < f.pairs[l].index
    BY <1>1, <1>4, <1>5
  <1>7. \A i \in S : \E k \in DOMAIN f.pairs : f.pairs[k].index = i
    BY <1>1, <1>4, <1>5
  <1>8. \A k \in DOMAIN f.pairs : f.pairs[k].index \in S /\ f.pairs[k].count = p.counts[f.pairs[k].index]
    BY <1>1, <1>4, <1>5
  <1> QED
    BY <1>6, <1>7, <1>8 DEF f

\* Its flags name the backend, and a context and a bitmap where there is one.
LEMMA EncodedFlags ==
  ASSUME Widths, NEW counters, NEW tier, NEW p, IsProfile(p), Encodable(p, counters, tier)
  PROVE  LET f == Encode(p, counters) IN
         /\ BackendsOf(f) = {p.backend} /\ FlagsOK(f) /\ NamesOK(f) /\ ContextOK(f)
         /\ "context" \in f.flags <=> p.context # Null
         /\ "overflow" \in f.flags <=> SaturatedIn(p.counts) # {}
         /\ f.bits = SaturatedIn(p.counts) /\ f.magic /\ f.marker /\ f.crc
         /\ f.version = "1.0" /\ f.context = p.context /\ f.map_id = p.map_id
         /\ f.run_id = p.run_id /\ f.profile_id = p.profile_id
  <1> DEFINE f == Encode(p, counters)
  <1>1. /\ f.flags = {p.backend} \cup (IF p.context = Null THEN {} ELSE {"context"})
                                 \cup (IF SaturatedIn(p.counts) = {} THEN {} ELSE {"overflow"})
        /\ f.bits = SaturatedIn(p.counts) /\ f.magic /\ f.marker /\ f.crc
        /\ f.version = "1.0" /\ f.context = p.context /\ f.context_length = p.context_length
        /\ f.map_id = p.map_id /\ f.run_id = p.run_id /\ f.profile_id = p.profile_id
    BY DEF Encode
  <1>2. p.backend \in Backends /\ 0 \notin {p.run_id, p.profile_id} /\ p.context_length <= MaxContext
    BY DEF Encodable
  <1> HIDE DEF f
  <1>3. BackendsOf(f) = {p.backend}
    BY <1>1, <1>2 DEF BackendsOf, Backends
  <1>4. Cardinality(BackendsOf(f)) = 1
    BY <1>3, FS_Singleton
  <1>5. FlagsOK(f)
    BY <1>1, <1>2, <1>4 DEF FlagsOK, KnownFlags
  <1>6. /\ "context" \in f.flags <=> p.context # Null
        /\ "overflow" \in f.flags <=> SaturatedIn(p.counts) # {}
    BY <1>1, <1>2 DEF Backends
  <1>7. ContextOK(f)
    BY <1>1, <1>2, <1>6 DEF ContextOK, IsProfile
  <1>8. NamesOK(f)
    BY <1>1, <1>2 DEF NamesOK
  <1> QED
    BY <1>1, <1>3, <1>5, <1>6, <1>7, <1>8 DEF f

\* Its pairs and its bitmap are as the reader asks, for its map or alone.
LEMMA EncodedAgrees ==
  ASSUME Widths, NEW counters \in Nat, NEW tier \in Tier, NEW p, IsProfile(p), Encodable(p, counters, tier),
         NEW known \in {Null, counters}
  PROVE  PairsOK(Encode(p, counters), known) /\ BitmapOK(Encode(p, counters), known)
  <1> DEFINE f == Encode(p, counters)
             S == DOMAIN p.counts
             full == SaturatedIn(p.counts)
             marked == {f.pairs[k].index : k \in {j \in DOMAIN f.pairs : f.pairs[j].count = MaxCount}}
  <1>1. /\ \A k \in DOMAIN f.pairs : f.pairs[k].index \in S /\ f.pairs[k].count = p.counts[f.pairs[k].index]
        /\ \A i \in S : \E k \in DOMAIN f.pairs : f.pairs[k].index = i
        /\ \A k, l \in DOMAIN f.pairs : k < l => f.pairs[k].index < f.pairs[l].index
    BY EncodedPairs
  <1>2. \A i \in S : i \in 0 .. counters - 1 /\ p.counts[i] \in 1 .. MaxCount
    BY DEF Encodable
  <1>3. DOMAIN f.pairs = 1 .. Cardinality(S) /\ Cardinality(S) \in Nat
        /\ f.word_count = IF full = {} THEN 0 ELSE Words(counters)
    BY EncodedNumbers
  <1>4. f.bits = full /\ ("overflow" \in f.flags <=> full # {})
    BY EncodedFlags
  <1> HIDE DEF f
  <1>5. marked = full
    BY <1>1 DEF SaturatedIn
  <1>6. PairsOK(f, known)
    <2>1. ASSUME NEW k \in DOMAIN f.pairs PROVE f.pairs[k].count # 0 /\ f.pairs[k].index < counters
      <3>1. f.pairs[k].index \in S /\ f.pairs[k].count = p.counts[f.pairs[k].index]
        BY <1>1
      <3> QED
        BY <1>2, <3>1
    <2>2. ASSUME NEW k \in DOMAIN f.pairs, k > 1 PROVE f.pairs[k - 1].index < f.pairs[k].index
      <3>1. k - 1 \in DOMAIN f.pairs /\ k - 1 < k
        BY <1>3, <2>2
      <3> QED
        BY <1>1, <3>1
    <2> QED
      BY <2>1, <2>2 DEF PairsOK
  <1>7. BitmapOK(f, known)
    <2>1. CASE full = {}
      BY <1>3, <1>4, <1>5, <2>1 DEF BitmapOK
    <2>2. CASE full # {}
      BY <1>3, <1>4, <1>5, <2>2 DEF BitmapOK
    <2> QED
      BY <2>1, <2>2
  <1> QED
    BY <1>6, <1>7 DEF f

\* A file that passes every check is accepted.
LEMMA AllPass ==
  ASSUME NEW f, NEW tier, NEW counters, NEW map_id,
         f.bytes <= tier.max_bytes, f.bytes >= 12, f.magic, f.version = "1.0", f.bytes >= HeaderBytes,
         FlagsOK(f) /\ NamesOK(f) /\ ContextOK(f), f.bytes >= CountAt(f),
         f.pair_count <= tier.max_counters, f.pair_count <= Limit(tier, counters), f.bytes >= WordsAt(f),
         f.word_count <= Words(tier.max_counters) /\ Total(f) <= tier.max_bytes,
         f.bytes >= Total(f), f.bytes <= Total(f), f.marker, f.crc,
         map_id \in {Null, f.map_id}, "context" \in f.flags => f.context # Null,
         PairsOK(f, counters) /\ BitmapOK(f, counters)
  PROVE  Verdict(f, tier, counters, map_id) = "accepted"
  <1> DEFINE checks == Checks(f, tier, counters, map_id)
  <1>1. DOMAIN checks = 1 .. 18
    BY DEF Checks
  <1>2. /\ checks[1][1] /\ checks[2][1] /\ checks[3][1] /\ checks[4][1] /\ checks[5][1] /\ checks[6][1]
        /\ checks[7][1] /\ checks[8][1] /\ checks[9][1] /\ checks[10][1] /\ checks[11][1] /\ checks[12][1]
        /\ checks[13][1] /\ checks[14][1] /\ checks[15][1] /\ checks[16][1] /\ checks[17][1] /\ checks[18][1]
    BY DEF Checks
  <1> HIDE DEF checks
  <1>3. {k \in DOMAIN checks : ~checks[k][1]} = {}
    BY <1>1, <1>2
  <1> QED
    BY <1>3 DEF Verdict, checks

\* Whatever encode may write, decode accepts, alone or with its map, on every
\* tier that let it be written (formats/rawprofile.py).
THEOREM WrittenIsAccepted ==
  ASSUME Widths, NEW counters \in Nat, NEW tier \in Tier, NEW p, IsProfile(p), Encodable(p, counters, tier),
         NEW known \in {Null, counters}, NEW map_id \in {Null, p.map_id}
  PROVE  Verdict(Encode(p, counters), tier, known, map_id) = "accepted"
  <1> DEFINE f == Encode(p, counters)
             n == Cardinality(DOMAIN p.counts)
  <1>1. /\ n \in Nat /\ n <= counters /\ counters <= tier.max_counters /\ f.pair_count = n
        /\ f.word_count \in Nat /\ f.word_count <= Words(tier.max_counters)
        /\ f.bytes = Total(f) /\ f.bytes <= tier.max_bytes /\ f.context_length \in Nat
    BY EncodedNumbers
  <1>2. /\ FlagsOK(f) /\ NamesOK(f) /\ ContextOK(f) /\ f.magic /\ f.marker /\ f.crc
        /\ f.version = "1.0" /\ f.context = p.context /\ f.map_id = p.map_id
        /\ "context" \in f.flags <=> p.context # Null
    BY EncodedFlags
  <1>3. PairsOK(f, known) /\ BitmapOK(f, known)
    BY EncodedAgrees
  <1>4. tier.max_counters \in Nat /\ tier.max_bytes \in Nat
    BY DEF Tier
  <1> HIDE DEF f, n
  <1>5. /\ f.bytes >= 12 /\ f.bytes >= HeaderBytes /\ f.bytes >= CountAt(f) /\ f.bytes >= WordsAt(f)
        /\ f.bytes >= Total(f) /\ f.bytes <= Total(f) /\ Total(f) <= tier.max_bytes
    BY <1>1, <1>4 DEF HeaderBytes, CountAt, WordsAt, Total, EncodedLength
  <1>6. f.pair_count <= tier.max_counters /\ f.pair_count <= Limit(tier, known)
    BY <1>1, <1>4 DEF Limit
  <1> QED
    BY <1>1, <1>2, <1>3, <1>5, <1>6, AllPass DEF f

\* What decode returns of it is the profile that was written.
THEOREM WrittenIsReadBack ==
  ASSUME Widths, NEW counters \in Nat, NEW tier \in Tier, NEW p, IsProfile(p), Encodable(p, counters, tier)
  PROVE  Decoded(Encode(p, counters)) =
            [backend |-> p.backend, map_id |-> p.map_id, run_id |-> p.run_id, profile_id |-> p.profile_id,
             has_context |-> TRUE, context |-> p.context, counts |-> p.counts]
  <1> DEFINE f == Encode(p, counters)
             S == DOMAIN p.counts
             pairs == {f.pairs[k] : k \in DOMAIN f.pairs}
             named == {f.pairs[k].index : k \in DOMAIN f.pairs}
             CountOf(i) == (CHOOSE pair \in pairs : pair.index = i).count
             counts == [i \in named |-> CountOf(i)]
  <1>1. /\ \A k \in DOMAIN f.pairs : f.pairs[k].index \in S /\ f.pairs[k].count = p.counts[f.pairs[k].index]
        /\ \A i \in S : \E k \in DOMAIN f.pairs : f.pairs[k].index = i
    BY EncodedPairs
  <1>2. /\ BackendsOf(f) = {p.backend} /\ ("context" \in f.flags <=> p.context # Null)
        /\ f.context = p.context /\ f.map_id = p.map_id /\ f.run_id = p.run_id /\ f.profile_id = p.profile_id
    BY EncodedFlags
  <1> HIDE DEF f
  <1>3. counts = p.counts
    <2>1. named = S
      BY <1>1
    <2>2. ASSUME NEW i \in S PROVE CountOf(i) = p.counts[i]
      <3>1. \E pair \in pairs : pair.index = i
        BY <1>1
      <3>2. PICK k \in DOMAIN f.pairs : (CHOOSE pair \in pairs : pair.index = i) = f.pairs[k] /\ f.pairs[k].index = i
        BY <3>1
      <3> QED
        BY <1>1, <3>2
    <2> HIDE DEF named, CountOf
    <2>3. counts = [i \in S |-> p.counts[i]]
      BY <2>1, <2>2
    <2> QED
      BY <2>3 DEF IsProfile
  <1>4. Backend(f) = p.backend
    BY <1>2 DEF Backend
  <1>5. (IF "context" \in f.flags THEN f.context ELSE Null) = p.context
    BY <1>2
  <1> HIDE DEF counts
  <1>6. Decoded(f) = [backend |-> Backend(f), map_id |-> f.map_id, run_id |-> f.run_id,
                      profile_id |-> f.profile_id, has_context |-> TRUE,
                      context |-> IF "context" \in f.flags THEN f.context ELSE Null, counts |-> counts]
    BY DEF Decoded, counts
  <1> QED
    BY <1>2, <1>3, <1>4, <1>5, <1>6 DEF f

-----------------------------------------------------------------------------
(* What is torn is refused. *)

\* A file of which only the end is missing fails for its length first.
LEMMA ShortFails ==
  ASSUME NEW f, NEW tier, NEW counters, NEW map_id,
         f.bytes <= tier.max_bytes, f.magic, f.version = "1.0",
         FlagsOK(f) /\ NamesOK(f) /\ ContextOK(f),
         f.pair_count <= tier.max_counters, f.pair_count <= Limit(tier, counters),
         f.word_count <= Words(tier.max_counters) /\ Total(f) <= tier.max_bytes,
         ~(f.bytes >= Total(f)), f.bytes <= Total(f), f.marker, f.crc,
         map_id \in {Null, f.map_id}, "context" \in f.flags => f.context # Null,
         PairsOK(f, counters) /\ BitmapOK(f, counters)
  PROVE  Verdict(f, tier, counters, map_id) = "COV2011"
  <1> DEFINE checks == Checks(f, tier, counters, map_id)
             failed == {k \in DOMAIN checks : ~checks[k][1]}
  <1>1. DOMAIN checks = 1 .. 18
    BY DEF Checks
  <1>2. /\ checks[1][1] /\ checks[3][1] /\ checks[4][1] /\ checks[6][1]
        /\ checks[8][1] /\ checks[9][1] /\ checks[11][1] /\ ~checks[12][1]
        /\ checks[13][1] /\ checks[14][1] /\ checks[15][1] /\ checks[16][1] /\ checks[17][1] /\ checks[18][1]
    BY DEF Checks
  <1>3. \A k \in {2, 5, 7, 10, 12} : checks[k][2] = "COV2011"
    BY DEF Checks
  <1>4. Verdict(f, tier, counters, map_id) =
           IF failed = {} THEN "accepted" ELSE checks[CHOOSE k \in failed : \A j \in failed : k <= j][2]
    BY DEF Verdict
  <1> HIDE DEF checks
  <1>5. failed \subseteq {2, 5, 7, 10, 12} /\ 12 \in failed
    BY <1>1, <1>2
  <1> HIDE DEF failed
  <1>6. \E k \in failed : \A j \in failed : k <= j
    <2>1. CASE 2 \in failed  BY <1>5, <2>1
    <2>2. CASE 2 \notin failed /\ 5 \in failed  BY <1>5, <2>2
    <2>3. CASE failed \cap {2, 5} = {} /\ 7 \in failed  BY <1>5, <2>3
    <2>4. CASE failed \cap {2, 5, 7} = {} /\ 10 \in failed  BY <1>5, <2>4
    <2>5. CASE failed \cap {2, 5, 7, 10} = {}  BY <1>5, <2>5
    <2> QED
      BY <2>1, <2>2, <2>3, <2>4, <2>5
  <1>7. (CHOOSE k \in failed : \A j \in failed : k <= j) \in failed
    BY <1>6
  <1> QED
    BY <1>3, <1>4, <1>5, <1>7

\* A profile a process was killed in the middle of writing, or a part of one, is
\* refused for its length, wherever it ends: it never counts for less than it held.
THEOREM TornIsRefused ==
  ASSUME Widths, NEW counters \in Nat, NEW tier \in Tier, NEW p, IsProfile(p), Encodable(p, counters, tier),
         NEW known \in {Null, counters}, NEW map_id \in {Null, p.map_id},
         NEW end \in Nat, end < Encode(p, counters).bytes
  PROVE  Verdict([Encode(p, counters) EXCEPT !.bytes = end], tier, known, map_id) = "COV2011"
  <1> DEFINE g == Encode(p, counters)
             f == [g EXCEPT !.bytes = end]
             n == Cardinality(DOMAIN p.counts)
  <1>1. /\ n \in Nat /\ n <= counters /\ counters <= tier.max_counters /\ g.pair_count = n
        /\ g.word_count \in Nat /\ g.word_count <= Words(tier.max_counters)
        /\ g.bytes = Total(g) /\ g.bytes <= tier.max_bytes /\ g.context_length \in Nat
    BY EncodedNumbers
  <1>2. /\ FlagsOK(g) /\ NamesOK(g) /\ ContextOK(g) /\ g.magic /\ g.marker /\ g.crc
        /\ g.version = "1.0" /\ g.context = p.context /\ g.map_id = p.map_id
        /\ "context" \in g.flags <=> p.context # Null
    BY EncodedFlags
  <1>3. PairsOK(g, known) /\ BitmapOK(g, known)
    BY EncodedAgrees
  <1>4. tier.max_counters \in Nat /\ tier.max_bytes \in Nat
    BY DEF Tier
  <1>5. end < g.bytes
    OBVIOUS
  <1>6. f.bytes = end
    BY DEF Encode
  <1>7. /\ f.magic = g.magic /\ f.marker = g.marker /\ f.crc = g.crc /\ f.version = g.version
        /\ f.flags = g.flags /\ f.context = g.context /\ f.context_length = g.context_length
        /\ f.map_id = g.map_id /\ f.run_id = g.run_id /\ f.profile_id = g.profile_id
        /\ f.pair_count = g.pair_count /\ f.pairs = g.pairs
        /\ f.word_count = g.word_count /\ f.bits = g.bits
    BY DEF Encode
  <1> HIDE DEF f, g, n
  <1>8. FlagsOK(f) /\ NamesOK(f) /\ ContextOK(f)
    BY <1>2, <1>7 DEF FlagsOK, NamesOK, ContextOK, BackendsOf
  <1>9. PairsOK(f, known) /\ BitmapOK(f, known)
    BY <1>3, <1>7 DEF PairsOK, BitmapOK
  <1>10. Total(f) = Total(g)
    BY <1>7 DEF Total
  <1>11. Total(f) \in Nat
    BY <1>1, <1>7 DEF Total, EncodedLength, HeaderBytes
  <1>12. f.bytes <= tier.max_bytes /\ ~(f.bytes >= Total(f)) /\ f.bytes <= Total(f) /\ Total(f) <= tier.max_bytes
    BY <1>1, <1>4, <1>5, <1>6, <1>10, <1>11
  <1>13. f.pair_count <= tier.max_counters /\ f.pair_count <= Limit(tier, known)
    BY <1>1, <1>4, <1>7 DEF Limit
  <1>14. f.word_count <= Words(tier.max_counters)
    BY <1>1, <1>7
  <1>15. /\ f.magic /\ f.version = "1.0" /\ f.marker /\ f.crc /\ map_id \in {Null, f.map_id}
         /\ "context" \in f.flags => f.context # Null
    BY <1>2, <1>7
  <1>16. Verdict(f, tier, known, map_id) = "COV2011"
    BY <1>8, <1>9, <1>12, <1>13, <1>14, <1>15, ShortFails
  <1> QED
    BY <1>16 DEF f, g

-----------------------------------------------------------------------------
(* What is accepted means one count for each counter. *)

\* A file that is accepted passed every check.
LEMMA AcceptedPasses ==
  ASSUME NEW f, NEW tier, NEW counters, NEW map_id, Verdict(f, tier, counters, map_id) = "accepted"
  PROVE  /\ f.bytes >= Total(f) /\ f.bytes <= Total(f) /\ f.marker /\ f.crc /\ map_id \in {Null, f.map_id}
         /\ PairsOK(f, counters) /\ BitmapOK(f, counters)
  <1> DEFINE checks == Checks(f, tier, counters, map_id)
             failed == {k \in DOMAIN checks : ~checks[k][1]}
             first == CHOOSE k \in failed : \A j \in failed : k <= j
  <1>1. DOMAIN checks = 1 .. 18 /\ \A k \in 1 .. 18 : checks[k][2] # "accepted"
    BY DEF Checks
  <1>2. IF failed = {} THEN TRUE ELSE checks[first][2] = "accepted"
    BY DEF Verdict
  <1>3. /\ checks[12][1] <=> f.bytes >= Total(f)
        /\ checks[13][1] <=> f.bytes <= Total(f)
        /\ checks[14][1] = f.marker /\ checks[15][1] = f.crc
        /\ checks[16][1] <=> map_id \in {Null, f.map_id}
        /\ checks[18][1] <=> PairsOK(f, counters) /\ BitmapOK(f, counters)
    BY DEF Checks
  <1> HIDE DEF checks
  <1>4. failed = {}
    <2> SUFFICES ASSUME failed # {} PROVE FALSE
      OBVIOUS
    <2>1. failed \subseteq Nat /\ failed \subseteq 1 .. 18
      BY <1>1
    <2>2. \E k \in failed : \A j \in failed : k <= j
      <3> HIDE DEF failed
      <3>1. failed \in SUBSET (1 .. 18) /\ 18 \in Nat
        BY <2>1
      <3> QED
        BY <3>1, LeastIndex
    <2>3. first \in failed
      BY <2>2
    <2> QED
      BY <1>1, <1>2, <2>1, <2>3
  <1>5. \A k \in 1 .. 18 : checks[k][1]
    BY <1>1, <1>4
  <1> QED
    BY <1>3, <1>5

\* What the type of a file says of its pairs and its numbers.
LEMMA FileFacts ==
  ASSUME NEW f \in File
  PROVE  /\ DOMAIN f.pairs = 1 .. Len(f.pairs) /\ Len(f.pairs) \in Nat
         /\ \A j \in DOMAIN f.pairs : f.pairs[j].index \in Nat /\ f.pairs[j].count \in 0 .. MaxCount
         /\ f.bytes \in Nat /\ f.context_length \in Nat /\ f.pair_count \in Nat /\ f.word_count \in Nat
  <1>1. f.pairs \in Seq([index : Nat, count : 0 .. MaxCount])
    BY DEF File
  <1>2. DOMAIN f.pairs = 1 .. Len(f.pairs) /\ Len(f.pairs) \in Nat
    BY <1>1
  <1>3. \A j \in DOMAIN f.pairs : f.pairs[j] \in [index : Nat, count : 0 .. MaxCount]
    BY <1>1, <1>2, ElementOfSeq
  <1>4. /\ f.bytes \in Nat /\ f.context_length \in Nat /\ f.pair_count \in Nat /\ f.word_count \in Nat
    BY DEF File
  <1> QED
    BY <1>2, <1>3, <1>4

\* Pairs each after the one before it are each after all before them.
LEMMA PairsIncrease ==
  ASSUME NEW f \in File, NEW counters, PairsOK(f, counters),
         NEW k \in DOMAIN f.pairs, NEW l \in DOMAIN f.pairs, k < l
  PROVE  f.pairs[k].index < f.pairs[l].index
  <1> DEFINE Late == {j \in DOMAIN f.pairs : k < j /\ ~(f.pairs[k].index < f.pairs[j].index)}
  <1>1. /\ \A j \in DOMAIN f.pairs : f.pairs[j].index \in Nat
        /\ DOMAIN f.pairs = 1 .. Len(f.pairs) /\ Len(f.pairs) \in Nat
    BY FileFacts
  <1>2. SUFFICES ASSUME Late # {} PROVE FALSE
    OBVIOUS
  <1>3. Late \in SUBSET (1 .. Len(f.pairs))
    BY <1>1
  <1>4. PICK j \in Late : \A i \in Late : j <= i
    <2> HIDE DEF Late
    <2> QED
      BY <1>1, <1>2, <1>3, LeastIndex
  <1>5. j \in DOMAIN f.pairs /\ j > 1 /\ j - 1 \in DOMAIN f.pairs /\ j - 1 \notin Late
    <2>1. j \in 1 .. Len(f.pairs) /\ k \in 1 .. Len(f.pairs) /\ k < j /\ Len(f.pairs) \in Nat
      BY <1>1, <1>4
    <2>2. j > 1 /\ j - 1 \in 1 .. Len(f.pairs) /\ ~(j <= j - 1)
      BY <2>1
    <2> QED
      BY <1>1, <1>4, <2>2
  <1>6. f.pairs[j - 1].index < f.pairs[j].index
    BY <1>5 DEF PairsOK
  <1>7. j - 1 = k \/ f.pairs[k].index < f.pairs[j - 1].index
    BY <1>1, <1>4, <1>5
  <1> QED
    BY <1>1, <1>4, <1>5, <1>6, <1>7

\* Every pair of an accepted file is the one count of its counter, never zero;
\* the file is as long as its numbers say, ends in its marker and its checksum,
\* and the bitmap marks exactly the counters at the maximum.
THEOREM AcceptedMeansOneCount ==
  ASSUME Widths, NEW f \in File, NEW tier \in Tier, NEW counters, NEW map_id,
         Verdict(f, tier, counters, map_id) = "accepted"
  PROVE  /\ f.bytes = Total(f) /\ f.marker /\ f.crc
         /\ \A k \in DOMAIN f.pairs : Decoded(f).counts[f.pairs[k].index] = f.pairs[k].count
         /\ \A i \in DOMAIN Decoded(f).counts : /\ Decoded(f).counts[i] \in 1 .. MaxCount
                                                /\ counters # Null => i < counters
         /\ SaturatedIn(Decoded(f).counts) = IF "overflow" \in f.flags THEN f.bits ELSE {}
  <1> DEFINE pairs == {f.pairs[k] : k \in DOMAIN f.pairs}
             named == {f.pairs[k].index : k \in DOMAIN f.pairs}
             counts == Decoded(f).counts
  <1>1. /\ f.bytes >= Total(f) /\ f.bytes <= Total(f) /\ f.marker /\ f.crc
        /\ PairsOK(f, counters) /\ BitmapOK(f, counters)
    BY AcceptedPasses
  <1>2. \A k \in DOMAIN f.pairs : /\ f.pairs[k].index \in Nat /\ f.pairs[k].count \in 0 .. MaxCount
                                  /\ f.pairs[k].count # 0 /\ k \in Nat
                                  /\ counters # Null => f.pairs[k].index < counters
    BY <1>1, FileFacts DEF PairsOK
  <1>3. \A k, l \in DOMAIN f.pairs : f.pairs[k].index = f.pairs[l].index => k = l
    <2> SUFFICES ASSUME NEW k \in DOMAIN f.pairs, NEW l \in DOMAIN f.pairs, k < l
                 PROVE  f.pairs[k].index # f.pairs[l].index
      BY <1>2
    <2> QED
      BY <1>1, <1>2, PairsIncrease
  <1>4. counts = [i \in named |-> (CHOOSE pair \in pairs : pair.index = i).count]
    BY DEF Decoded
  <1>5. DOMAIN counts = named /\ \A i \in named : counts[i] = (CHOOSE pair \in pairs : pair.index = i).count
    BY <1>4
  <1> HIDE DEF counts
  <1>6. ASSUME NEW k \in DOMAIN f.pairs PROVE f.pairs[k].index \in named /\ counts[f.pairs[k].index] = f.pairs[k].count
    <2>1. f.pairs[k] \in pairs /\ f.pairs[k].index \in named
      OBVIOUS
    <2>2. PICK l \in DOMAIN f.pairs : /\ (CHOOSE pair \in pairs : pair.index = f.pairs[k].index) = f.pairs[l]
                                      /\ f.pairs[l].index = f.pairs[k].index
      BY <2>1
    <2>3. l = k
      BY <1>3, <2>2
    <2> QED
      BY <1>5, <2>1, <2>2, <2>3
  <1>7. \A i \in DOMAIN counts : counts[i] \in 1 .. MaxCount /\ (counters # Null => i < counters)
    BY <1>2, <1>5, <1>6
  <1>8. SaturatedIn(counts) = {f.pairs[k].index : k \in {j \in DOMAIN f.pairs : f.pairs[j].count = MaxCount}}
    BY <1>5, <1>6 DEF SaturatedIn
  <1>9. SaturatedIn(counts) = IF "overflow" \in f.flags THEN f.bits ELSE {}
    BY <1>1, <1>8 DEF BitmapOK
  <1>10. f.bytes = Total(f)
    <2>1. Total(f) \in Nat /\ f.bytes \in Nat
      <3>1. /\ f.bytes \in Nat /\ f.context_length \in Nat /\ f.pair_count \in Nat /\ f.word_count \in Nat
        BY FileFacts
      <3> QED
        BY <3>1 DEF Total, EncodedLength, HeaderBytes
    <2> QED
      BY <1>1, <2>1
  <1> QED
    BY <1>1, <1>6, <1>7, <1>9, <1>10 DEF counts
=============================================================================
