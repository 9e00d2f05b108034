------------------------------- MODULE EcmpHash -------------------------------
(***************************************************************************)
(* SwitchNode::EcmpHash (murmur3, 32-bit) and SwitchNode::FiveTupleHash.   *)
(*                                                                         *)
(* A uint32_t is a pair <<hi, lo>> of 16-bit halves, since TLC integers    *)
(* are signed 32-bit: every operation below keeps its intermediate values  *)
(* under 2^31.  Keys are sequences of bytes, read in the x86 (little-      *)
(* endian) order in which *key_x4 loads them.                              *)
(***************************************************************************)
EXTENDS Naturals, Sequences, Bitwise

Half == 65536

\* A uint32_t literal, from its two halves.
W(hi, lo) == <<hi, lo>>

Xor32(a, b) == <<a[1] ^^ b[1], a[2] ^^ b[2]>>

Or32(a, b) == <<a[1] | b[1], a[2] | b[2]>>

Add32(a, b) ==
    LET lo == a[2] + b[2] IN <<(a[1] + b[1] + lo \div Half) % Half, lo % Half>>

\* The four bytes of a word, least significant first.
Bytes32(a) == <<a[2] % 256, a[2] \div 256, a[1] % 256, a[1] \div 256>>

\* a * b mod 2^32: schoolbook multiplication over bytes with carries.
Mul32(a, b) ==
    LET x  == Bytes32(a)
        y  == Bytes32(b)
        c0 == x[1] * y[1]
        c1 == x[1] * y[2] + x[2] * y[1] + c0 \div 256
        c2 == x[1] * y[3] + x[2] * y[2] + x[3] * y[1] + c1 \div 256
        c3 == x[1] * y[4] + x[2] * y[3] + x[3] * y[2] + x[4] * y[1] + c2 \div 256
    IN <<(c3 % 256) * 256 + (c2 % 256), (c1 % 256) * 256 + (c0 % 256)>>

\* a << r and a >> r for 0 < r < 16, and a >> 16.
Shl32(a, r) ==
    <<((a[1] * 2^r) % Half) + a[2] \div 2^(16 - r), (a[2] * 2^r) % Half>>
Shr32(a, r) ==
    IF r = 16 THEN <<0, a[1]>>
    ELSE <<a[1] \div 2^r, a[2] \div 2^r + (a[1] % 2^r) * 2^(16 - r)>>

\* (k << r) | (k >> (32 - r)) for 0 < r < 16.
Rotl32(a, r) ==
    <<((a[1] * 2^r) % Half) + a[2] \div 2^(16 - r),
      ((a[2] * 2^r) % Half) + a[1] \div 2^(16 - r)>>

\* The little-endian word of bytes b[i], ..., b[i + n - 1] (n <= 4).
LoadLE(b, i, n) ==
    LET byte(j) == IF j < n THEN b[i + j] ELSE 0
    IN <<byte(3) * 256 + byte(2), byte(1) * 256 + byte(0)>>

\* k *= 0xcc9e2d51; k = rotl(k, 15); k *= 0x1b873593
Scramble(k) == Mul32(Rotl32(Mul32(k, W(52382, 11601)), 15), W(7047, 13715))

\* One iteration of the block loop.
Block(h, k) ==
    LET h1 == Rotl32(Xor32(h, Scramble(k)), 13)
    IN Add32(h1, Add32(Shl32(h1, 2), W(58964, 27492)))

RECURSIVE Blocks(_, _, _)
Blocks(h, key, i) ==
    IF i = 0 THEN h
    ELSE Blocks(Block(h, LoadLE(key, Len(key) - (Len(key) % 4) - 4 * i + 1, 4)),
                key, i - 1)

\* Mutant: the tail gathered from the first byte up.
RECURSIVE TailWordForward(_, _, _)
TailWordForward(key, j, k) ==
    IF j < Len(key) - (Len(key) % 4) + 1 THEN k
    ELSE TailWordForward(key, j - 1,
             Or32(Shl32(k, 8), <<0, key[2 * (Len(key) - (Len(key) % 4)) + (Len(key) % 4) + 1 - j]>>))

\* The len & 3 tail bytes, gathered from the last one down (k <<= 8;
\* k |= *key--), so the first tail byte ends least significant.
RECURSIVE TailWord(_, _, _)
TailWord(key, j, k) ==
    IF j < Len(key) - (Len(key) % 4) + 1 THEN k
    ELSE TailWord(key, j - 1, Or32(Shl32(k, 8), <<0, key[j]>>))

Fmix(h) ==
    LET h1 == Mul32(Xor32(h, Shr32(h, 16)), W(34283, 51819))
        h2 == Mul32(Xor32(h1, Shr32(h1, 13)), W(49842, 44597))
    IN Xor32(h2, Shr32(h2, 16))

\* EcmpHash(key, len, seed), with len = Len(key) < 2^16.
EcmpHash(key, len, seed) ==
    LET hb == IF len > 3 THEN Blocks(seed, key, len \div 4) ELSE seed
        ht == IF len % 4 # 0
              THEN Xor32(hb, Scramble(TailWord(key, len, <<0, 0>>)))
              ELSE hb
    IN Fmix(Xor32(ht, <<0, len>>))

\* A uint32_t modulo a small n (n <= 2^15).
Mod32(a, n) == ((((a[1] % n) * Half) % n) + (a[2] % n)) % n

-----------------------------------------------------------------------------
(* GetOutDev's 12-byte key: sip, dip and the word sport | dport << 16 for  *)
(* TCP, UDP, ACK, NACK and polling packets; for any other protocol the     *)
(* third word of the union is never written, and its bytes are junk.       *)

PortProtocols == {6, 17, 252, 253, 250}   \* 0x6, 0x11, 0xFC, 0xFD, 0xFA

EcmpKey(sip, dip, l3Prot, sport, dport, junk) ==
    Bytes32(sip) \o Bytes32(dip)
    \o (IF l3Prot \in PortProtocols THEN Bytes32(<<dport, sport>>) ELSE junk)

\* EcmpHash(buf.u8, 12, m_ecmpSeed) % nexthops.size()
EcmpIndex(key, seed, n) == Mod32(EcmpHash(key, 12, seed), n)

-----------------------------------------------------------------------------
(* FiveTupleHash: the 16 bytes of a FiveTuple {srcIp, dstIp, srcPort,     *)
(* dstPort, protocol} as laid out in memory, with the 3 padding bytes      *)
(* after protocol that the designated initialiser leaves indeterminate.    *)

FlowHashSeed == W(0, 563)           \* 0x233
FlowEntryNum == 4096                \* 1 << 12

\* srcIp, dstIp as <<hi, lo>> words; pad a sequence of 3 bytes.
FiveTupleBytes(t, pad) ==
    Bytes32(t.srcIp) \o Bytes32(t.dstIp)
    \o <<t.srcPort % 256, t.srcPort \div 256, t.dstPort % 256, t.dstPort \div 256>>
    \o <<t.protocol>> \o pad

FiveTupleHash(t, pad) ==
    Mod32(EcmpHash(FiveTupleBytes(t, pad), 16, FlowHashSeed), FlowEntryNum)

====
