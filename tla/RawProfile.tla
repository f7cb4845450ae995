----------------------------- MODULE RawProfile -----------------------------
(***************************************************************************)
(* The raw profile 1.0 codec, formats/rawprofile.py: what encode writes,   *)
(* what peek_header tells of bytes that may be damaged, and why decode     *)
(* refuses.                                                                *)
(*                                                                         *)
(* A file is a record of the fields of its layout with the number of bytes *)
(* it holds; where it holds fewer than its fields need it is torn there,   *)
(* and what follows is not in it.  A version is "1.0" or another, a text   *)
(* that is not UTF-8 is Null, and crc tells whether the checksum is that   *)
(* of the bytes before it.                                                 *)
(***************************************************************************)
EXTENDS Integers, FiniteSets, Sequences

CONSTANTS
    MaxCount,   \* U64_MAX
    Null        \* None

Backends   == {"native", "vm-v1", "vm-v2"}
KnownFlags == {"context", "overflow"} \cup Backends
HeaderBytes == 84
MaxContext  == 256

Tier == [max_counters : Nat, max_bytes : Nat]

File == [bytes : Nat, magic : BOOLEAN, version : STRING, flags : SUBSET STRING,
         map_id : Nat, run_id : Nat, profile_id : Nat,
         context_length : Nat, context : Nat \cup {Null},
         pair_count : Nat, pairs : Seq([index : Nat, count : 0 .. MaxCount]),
         word_count : Nat, bits : SUBSET Nat, marker : BOOLEAN, crc : BOOLEAN]

Words(counters) == (counters + 63) \div 64

EncodedLength(context_bytes, pairs, words) ==
    HeaderBytes + context_bytes + 4 + 12 * pairs + 4 + 8 * words + 8 + 4

-----------------------------------------------------------------------------
(* The writer.  A profile is [map_id, run_id, profile_id, backend, context, *)
(* context_length, counts], counts a function on the nonzero counters.      *)

SaturatedIn(counts) == {i \in DOMAIN counts : counts[i] = MaxCount}

\* The members of a set of numbers in increasing order.
InOrder(S) ==
    [k \in 1 .. Cardinality(S) |-> CHOOSE i \in S : Cardinality({j \in S : j < i}) = k - 1]

Encode(p, counters) ==
    LET full  == SaturatedIn(p.counts)
        words == IF full = {} THEN 0 ELSE Words(counters)
        order == InOrder(DOMAIN p.counts)
    IN  [bytes          |-> EncodedLength(p.context_length, Len(order), words),
         magic          |-> TRUE,
         version        |-> "1.0",
         flags          |-> {p.backend} \cup (IF p.context = Null THEN {} ELSE {"context"})
                                        \cup (IF full = {} THEN {} ELSE {"overflow"}),
         map_id         |-> p.map_id, run_id |-> p.run_id, profile_id |-> p.profile_id,
         context_length |-> p.context_length, context |-> p.context,
         pair_count     |-> Len(order),
         pairs          |-> [k \in DOMAIN order |-> [index |-> order[k], count |-> p.counts[order[k]]]],
         word_count     |-> words, bits |-> full, marker |-> TRUE, crc |-> TRUE]

\* What encode refuses to write.
Encodable(p, counters, tier) ==
    /\ counters <= tier.max_counters
    /\ 0 \notin {p.run_id, p.profile_id} /\ p.backend \in Backends
    /\ p.context_length <= MaxContext
    /\ \A i \in DOMAIN p.counts : i \in 0 .. counters - 1 /\ p.counts[i] \in 1 .. MaxCount
    /\ Encode(p, counters).bytes <= tier.max_bytes

-----------------------------------------------------------------------------
(* The reader. *)

BackendsOf(f) == f.flags \cap Backends

\* The rules of the header that both readers ask for.
FlagsOK(f)   == f.flags \subseteq KnownFlags /\ Cardinality(BackendsOf(f)) = 1
NamesOK(f)   == 0 \notin {f.run_id, f.profile_id}
ContextOK(f) == f.context_length <= MaxContext /\ ("context" \in f.flags \/ f.context_length = 0)

\* Where each part ends that a length in the file decides.
CountAt(f) == HeaderBytes + f.context_length + 4
WordsAt(f) == CountAt(f) + 12 * f.pair_count + 4
Total(f)   == EncodedLength(f.context_length, f.pair_count, f.word_count)

\* The counters a reader allows for: those of the map, when it is known.
Limit(tier, counters) ==
    IF counters = Null THEN tier.max_counters
    ELSE IF counters < tier.max_counters THEN counters ELSE tier.max_counters

PairsOK(f, counters) ==
    /\ \A k \in DOMAIN f.pairs : f.pairs[k].count # 0 /\ (k > 1 => f.pairs[k - 1].index < f.pairs[k].index)
    /\ counters # Null => \A k \in DOMAIN f.pairs : f.pairs[k].index < counters

\* The bitmap marks exactly the pairs at the maximum, and is there only if one is.
BitmapOK(f, counters) ==
    LET full == {f.pairs[k].index : k \in {j \in DOMAIN f.pairs : f.pairs[j].count = MaxCount}} IN
    IF "overflow" \in f.flags
    THEN /\ counters # Null => f.word_count = Words(counters)
         /\ f.bits # {} /\ f.bits = full
    ELSE f.word_count = 0 /\ full = {}

\* The checks of decode in its order, each with the code it refuses with.
Checks(f, tier, counters, map_id) ==
    << <<f.bytes <= tier.max_bytes, "COV6001">>,
       <<f.bytes >= 12, "COV2011">>,
       <<f.magic, "COV2110">>,
       <<f.version = "1.0", "COV2103">>,
       <<f.bytes >= HeaderBytes, "COV2011">>,
       <<FlagsOK(f) /\ NamesOK(f) /\ ContextOK(f), "COV2110">>,
       <<f.bytes >= CountAt(f), "COV2011">>,
       <<f.pair_count <= tier.max_counters, "COV6001">>,
       <<f.pair_count <= Limit(tier, counters), "COV2110">>,
       <<f.bytes >= WordsAt(f), "COV2011">>,
       <<f.word_count <= Words(tier.max_counters) /\ Total(f) <= tier.max_bytes, "COV6001">>,
       <<f.bytes >= Total(f), "COV2011">>,
       <<f.bytes <= Total(f), "COV2110">>,
       <<f.marker, "COV2011">>,
       <<f.crc, "COV2012">>,
       <<map_id \in {Null, f.map_id}, "COV2111">>,
       <<"context" \in f.flags => f.context # Null, "COV2110">>,
       <<PairsOK(f, counters) /\ BitmapOK(f, counters), "COV2110">> >>

\* What decode says of the file: the code of its refusal, or that it is accepted;
\* counters and map_id are Null when it is read alone.
Verdict(f, tier, counters, map_id) ==
    LET checks == Checks(f, tier, counters, map_id)
        failed == {k \in DOMAIN checks : ~checks[k][1]}
    IN  IF failed = {} THEN "accepted" ELSE checks[CHOOSE k \in failed : \A j \in failed : k <= j][2]

Backend(f) == CHOOSE b \in BackendsOf(f) : TRUE

\* What decode returns of a file it does not refuse.
Decoded(f) ==
    [backend     |-> Backend(f),
     map_id      |-> f.map_id, run_id |-> f.run_id, profile_id |-> f.profile_id,
     has_context |-> TRUE,
     context     |-> IF "context" \in f.flags THEN f.context ELSE Null,
     counts      |-> [i \in {f.pairs[k].index : k \in DOMAIN f.pairs} |->
                        (CHOOSE pair \in {f.pairs[k] : k \in DOMAIN f.pairs} : pair.index = i).count]]

\* peek_header: a torn file may have lost its context.
PeekHeader(f) ==
    LET present == "context" \in f.flags
        there   == f.bytes >= HeaderBytes + f.context_length /\ (present => f.context # Null)
    IN  IF f.bytes >= HeaderBytes /\ f.magic /\ f.version = "1.0" /\ FlagsOK(f) /\ NamesOK(f) /\ ContextOK(f)
        THEN [backend     |-> Backend(f),
              map_id      |-> f.map_id, run_id |-> f.run_id, profile_id |-> f.profile_id,
              has_context |-> there,
              context     |-> IF there /\ present THEN f.context ELSE Null]
        ELSE Null
=============================================================================
