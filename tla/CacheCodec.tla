----------------------------- MODULE CacheCodec -----------------------------
(***************************************************************************)
(* How cache.cc writes the features of a namespace and reads them back:    *)
(* the difference to the index before, zig-zag, two bits for the kind of   *)
(* the value, and run length.  An unsigned int has Width bits (32), a byte *)
(* of a run carries Group values (2^7).  A feature is <<index, kind>>; a   *)
(* kind other than 1 and -1 is followed by the value itself, as one float. *)
(***************************************************************************)
EXTENDS Integers, SequencesExt

CONSTANTS Width,     \* bits of uint32_t
          Group,     \* 128
          CacheBits, \* -b of the cache
          Namespaces \* the sequences of features to write

ASSUME CodecAssumption ==
  /\ Width \in Nat \ {0} /\ Group \in Nat \ {0, 1}
  /\ CacheBits \in 0..Width
  /\ Namespaces \subseteq
       Seq((0..2 ^ CacheBits - 1) \X {"one", "minus one", "general"})

Uint(n) == n % (2 ^ Width)

(* Two's complement and unsigned: n >> 31 is the sign bit, and not copied. *)
ZigZagEncode(n) == Uint(2 * n) + n \div 2 ^ (Width - 1)
ZigZagDecode(n) == IF n % 2 = 0 THEN n \div 2 ELSE -(n \div 2) - 1

(* run_len_encode, run_len_decode: all bytes but the last are marked.      *)
RunOf[i \in 0..2 ^ Width - 1] ==
  IF i < Group THEN <<i>> ELSE <<Group + (i % Group)>> \o RunOf[i \div Group]
RunLength(run) ==
  CHOOSE n \in DOMAIN run : run[n] < Group /\ \A k \in 1..n - 1 : run[k] >= Group
Unrun(run, n) ==
  FoldLeftDomain(LAMBDA sum, k : sum + (run[k] % Group) * Group ^ (k - 1),
                 0, SubSeq(run, 1, n))

KindBits == [one |-> 0, general |-> 2] @@ ("minus one" :> 1)
KindOf(code) == IF code % 2 = 1 THEN "minus one"
                ELSE IF (code \div 2) % 2 = 1 THEN "general" ELSE "one"

(* output_features.                                                        *)
PreviousFirst(features, k) == 0
Previous(features, k) == IF k = 1 THEN 0 ELSE features[k - 1][1]
CodeOf(features, k) ==
  Uint(ZigZagEncode(Uint(features[k][1] - Previous(features, k))) * 4)
    + KindBits[features[k][2]]
Bytes(features) ==
  FlattenSeq([k \in DOMAIN features |->
    RunOf[CodeOf(features, k)]
      \o IF features[k][2] = "general" THEN <<"float">> ELSE <<>>])

(* What the bytes for the size hold: the buffer's own, zero when it is new *)
(* (reserve), because the size is copied over the pointer to them.         *)
SizeStored(size) == 0

Output(features) == <<SizeStored(Len(Bytes(features)))>> \o Bytes(features)

(* read_cached_features: a difference below 0 means out of order.          *)
RECURSIVE ReadFrom(_, _, _, _)
ReadFrom(bytes, last, features, sorted) ==
  IF bytes = <<>> THEN [features |-> features, sorted |-> sorted]
  ELSE LET n == RunLength(bytes)
           code == Uint(Unrun(bytes, n))
           diff == ZigZagDecode(code \div 4)
           index == Uint(last + diff)
           kind == KindOf(code)
       IN ReadFrom(SubSeq(bytes, n + 1 + IF kind = "general" THEN 1 ELSE 0,
                          Len(bytes)),
                   index,
                   Append(features, <<index % (2 ^ CacheBits), kind>>),
                   sorted /\ diff >= 0)

ReadNamespace(bytes) == ReadFrom(bytes, 0, <<>>, TRUE)
==============================================================================
