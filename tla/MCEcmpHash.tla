------------------------------ MODULE MCEcmpHash ------------------------------
(***************************************************************************)
(* EcmpHash over every key of up to MaxKeyLen bytes from KeyBytes, checked *)
(* against a reference murmur3_32 written over bit vectors, itself checked *)
(* against published murmur3_32 test vectors.  FiveTupleHash for one tuple *)
(* with any padding.                                                       *)
(***************************************************************************)
EXTENDS EcmpHash, FiniteSets

CONSTANTS KeyBytes, Seeds, MaxKeyLen, Pads, Junks, Protocols

VARIABLES key, seed, pad, junk

vars == <<key, seed, pad, junk>>

-----------------------------------------------------------------------------
(* Reference: a word is the sequence of its 32 bits, bit p of weight      *)
(* 2^(p-1).                                                                *)

Bit == 1..32

ToBits(a) == [p \in Bit |-> IF p <= 16 THEN (a[2] \div 2^(p - 1)) % 2
                                       ELSE (a[1] \div 2^(p - 17)) % 2]

\* Column sums col[p] reduced to bits: cs[p] is the carry into bit p,
\* built from bit 1 up (the Len guard makes each step a concrete sequence).
RECURSIVE Carries(_, _)
Carries(col, cs) ==
    IF Len(cs) = 32 THEN cs
    ELSE Carries(col, Append(cs, (col[Len(cs)] + cs[Len(cs)]) \div 2))

Normalise(col) ==
    LET c  == SubSeq(col, 1, 32)
        cs == Carries(c, <<0>>)
    IN SubSeq([p \in Bit |-> (c[p] + cs[p]) % 2], 1, 32)

BAdd(a, b) == Normalise([p \in Bit |-> a[p] + b[p]])
BXor(a, b) == [p \in Bit |-> (a[p] + b[p]) % 2]
BShr(a, r) == [p \in Bit |-> IF p + r <= 32 THEN a[p + r] ELSE 0]
BRotl(a, r) == [p \in Bit |-> a[((p - 1 - r + 32) % 32) + 1]]

\* Binary long multiplication: column p collects the products a[i] * b[j]
\* with i + j = p + 1.
BMul(a, b) ==
    Normalise([p \in Bit |-> Cardinality({i \in 1..p : a[i] = 1 /\ b[p - i + 1] = 1})])

\* The bits of bytes b[i..i+3] (missing ones 0), first byte lowest.
BChunk(b, i) ==
    [p \in Bit |-> IF i + (p - 1) \div 8 <= Len(b)
                   THEN (b[i + (p - 1) \div 8] \div 2^((p - 1) % 8)) % 2
                   ELSE 0]

BScramble(k) == BMul(BRotl(BMul(k, ToBits(<<52382, 11601>>)), 15), ToBits(<<7047, 13715>>))

RECURSIVE BBlocks(_, _, _)
BBlocks(h, b, i) ==
    IF 4 * i + 4 > Len(b) THEN h
    ELSE LET h1 == BRotl(BXor(h, BScramble(BChunk(b, 4 * i + 1))), 13)
         IN BBlocks(BAdd(BMul(h1, ToBits(<<0, 5>>)), ToBits(<<58964, 27492>>)),
                    b, i + 1)

RefMurmur3(b, s) ==
    LET nb == Len(b) \div 4
        h1 == BBlocks(ToBits(s), b, 0)
        h2 == IF Len(b) % 4 = 0 THEN h1
              ELSE BXor(h1, BScramble(BChunk(SubSeq(b, 4 * nb + 1, Len(b)), 1)))
        h3 == BXor(h2, ToBits(<<0, Len(b)>>))
        h4 == BMul(BXor(h3, BShr(h3, 16)), ToBits(<<34283, 51819>>))
        h5 == BMul(BXor(h4, BShr(h4, 13)), ToBits(<<49842, 44597>>))
    IN BXor(h5, BShr(h5, 16))

-----------------------------------------------------------------------------
\* The reference reproduces published murmur3_32 vectors: key, seed, hash.
ASSUME KnownVectors ==
    \A v \in {<< <<>>, <<0, 0>>, <<0, 0>> >>,
              << <<>>, <<0, 1>>, <<20814, 10423>> >>,
              << <<>>, <<65535, 65535>>, <<33265, 28473>> >>,
              << <<255, 255, 255, 255>>, <<0, 0>>, <<30249, 15184>> >>,
              << <<33, 67, 101>>, <<0, 0>>, <<32330, 34356>> >>,
              << <<33, 67>>, <<0, 0>>, <<41207, 45178>> >>,
              << <<33>>, <<0, 0>>, <<29286, 7412>> >>,
              << <<0, 0, 0, 0>>, <<0, 0>>, <<9058, 63966>> >>,
              << <<0, 0, 0>>, <<0, 0>>, <<34288, 46119>> >>,
              << <<0, 0>>, <<0, 0>>, <<12532, 49926>> >>,
              << <<97, 97, 97, 97>>, <<38727, 45708>>, <<23191, 32906>> >>,
              << <<72, 101, 108, 108, 111, 44, 32, 119, 111, 114, 108, 100, 33>>,
                 <<38727, 45708>>, <<9352, 19642>> >>} :
        RefMurmur3(v[1], v[2]) = ToBits(v[3])

-----------------------------------------------------------------------------
MCSeeds   == {<<0, 0>>, <<38727, 45708>>}     \* 0 and 0x9747b28c
ZeroPad   == {<<0, 0, 0>>}
AnyPad    == {<<0, 0, 0>>, <<0, 0, 1>>, <<255, 127, 0>>}
ZeroJunk  == {<<0, 0, 0, 0>>}
AnyJunk   == {<<0, 0, 0, 0>>, <<1, 0, 0, 0>>, <<0, 0, 0, 128>>}

Init ==
    /\ key = <<>>
    /\ seed \in Seeds
    /\ pad \in Pads
    /\ junk \in Junks

\* The next key: one more byte.
Extend ==
    /\ Len(key) < MaxKeyLen
    /\ \E b \in KeyBytes : key' = Append(key, b)
    /\ UNCHANGED <<seed, pad, junk>>

Spec == Init /\ [][Extend]_vars

(***************************************************************************)
(* EcmpHash, computed on 16-bit halves with the block loop, the backwards  *)
(* tail read and the finaliser of switch-node.cc, is murmur3_32 for every  *)
(* key length, including the lengths with 1, 2 and 3 tail bytes.          *)
(***************************************************************************)
EcmpHashIsMurmur3 == ToBits(EcmpHash(key, Len(key), seed)) = RefMurmur3(key, seed)

\* A flow of the telemetry (SendToDev, line 332).
Flow == [srcIp |-> <<2817, 1>>, dstIp |-> <<2817, 513>>,
         srcPort |-> 10000, dstPort |-> 100, protocol |-> 17]

(***************************************************************************)
(* operator== of FiveTuple compares only the fields, so a flow is the same *)
(* flow whatever its padding; this states that FiveTupleHash, which hashes *)
(* sizeof(FiveTuple) bytes, then puts it in the same bucket as the flow    *)
(* with zero padding.                                                      *)
(***************************************************************************)
FlowBucketIgnoresPadding == FiveTupleHash(Flow, pad) = FiveTupleHash(Flow, <<0, 0, 0>>)

(***************************************************************************)
(* ECMP flow affinity (GetOutDev): every packet of a flow, of any forwarded *)
(* protocol, takes the same one of two equal-cost next hops whatever the   *)
(* stack bytes under the key's port word hold.                             *)
(***************************************************************************)
EcmpPathPerFlow ==
    \A prot \in Protocols :
        LET k(j) == EcmpKey(Flow.srcIp, Flow.dstIp, prot, Flow.srcPort, Flow.dstPort, j)
        IN EcmpIndex(k(junk), seed, 2) = EcmpIndex(k(<<0, 0, 0, 0>>), seed, 2)

(***************************************************************************)
(* Both hashes of the switch depend only on the header fields they are     *)
(* meant to key on (FiveTupleHash on the five-tuple, GetOutDev's EcmpHash  *)
(* on addresses and ports), never on bytes the code leaves unwritten.     *)
(***************************************************************************)
HashesIgnoreUninitialisedBytes == FlowBucketIgnoresPadding /\ EcmpPathPerFlow

====
