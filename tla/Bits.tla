-------------------------------- MODULE Bits --------------------------------
(***************************************************************************)
(* Arithmetic on bits: lib/bitops.h, math.h, bitmap.h and crc32.c,         *)
(* include/gOS/endian.h and unaligned.h, net/checksum.c.  Machine words    *)
(* have Bytes bytes of ByteBits bits each and wrap around; the CRC, which  *)
(* is tied to its width, keeps its 32 bits as two halves of 16.            *)
(***************************************************************************)
EXTENDS Integers, Sequences, SequencesExt, FiniteSets, FiniteSetsExt, Bitwise

CONSTANTS
  ByteBits,    \* the bits of a byte
  WordBytes,   \* the bytes of the widest word
  BitmapBytes  \* the bytes of the bitmap

VARIABLES
  word,        \* the numbers the functions are called with
  bitmap,      \* the bitmap, byte by byte
  members      \* the bits that its callers have set

bitsVars == <<word, bitmap, members>>

BYTE == 2 ^ ByteBits
WordBits == ByteBits * WordBytes
WORD == 2 ^ WordBits
Words == 0 .. WORD - 1
Bit(x, i) == (x \div 2 ^ i) % 2
Ones(x) == {i \in 0 .. WordBits - 1 : Bit(x, i) = 1}

\* clz64, ctz64 and popcount64 stand for both widths; the first two need x # 0
clz64(x) == WordBits - 1 - Max(Ones(x))
ctz64(x) == Min(Ones(x))
popcount64(x) == Cardinality(Ones(x))
ffs64(x) == IF x = 0 THEN 0 ELSE ctz64(x) + 1
first_set_bit(x) == IF x = 0 THEN -1 ELSE ctz64(x)
last_set_bit(x) == IF x = 0 THEN -1 ELSE WordBits - 1 - clz64(x)
rol64(x, n) == ((x * 2 ^ n) % WORD) | (x \div 2 ^ (WordBits - n))
ror64(x, n) == (x \div 2 ^ n) | ((x * 2 ^ (WordBits - n)) % WORD)

\* The shift by the whole width, which C leaves open, is a shift by 0 on x86
bit_range_mask(lo, hi) == ((2 ^ ((hi - lo + 1) % WordBits) - 1) * 2 ^ lo) % WORD

\* align_up, align_down and is_aligned mask with alignment - 1
align_down(addr, alignment) == addr & (WORD - alignment)
align_up(addr, alignment) == align_down((addr + alignment - 1) % WORD, alignment)
is_aligned(addr, alignment) == (addr & (alignment - 1)) = 0
div_round_up(a, b) == ((a + b - 1) % WORD) \div b

\* A faulty variant: exact powers of two are rounded up too
log2_ceil_exact(x) == IF x <= 1 THEN 0 ELSE WordBits - clz64(x)
log2_ceil(x) == IF x <= 1 THEN 0 ELSE WordBits - clz64(x - 1)
log2_floor(x) == IF x = 0 THEN 0 ELSE WordBits - 1 - clz64(x)

\* bswap16, bswap32 and bswap64: every byte is masked out and shifted to its place
bswap(x, bytes) ==
  SumSet({((x \div BYTE ^ i) % BYTE) * BYTE ^ (bytes - 1 - i) : i \in 0 .. bytes - 1})

\* write_unaligned_u16, u32, u64 and read_unaligned_u16, u32, u64
write_unaligned(x, bytes) == [i \in 1 .. bytes |-> (x \div BYTE ^ (i - 1)) % BYTE]
read_unaligned(b) == FoldRight(LAMBDA byte, v : byte + BYTE * v, b, 0)
-----------------------------------------------------------------------------
\* A faulty variant: the carry of the first addition is lost
net_checksum_fold_once(sum) ==
  BYTE ^ 2 - 1 - (((sum % BYTE ^ 2) + (sum \div BYTE ^ 2)) % BYTE ^ 2)

\* net_checksum_fold: words of two bytes, the sum has four
RECURSIVE net_checksum_fold(_)
net_checksum_fold(sum) ==
  IF sum \div BYTE ^ 2 # 0 THEN net_checksum_fold((sum % BYTE ^ 2) + (sum \div BYTE ^ 2))
  ELSE BYTE ^ 2 - 1 - sum

\* net_checksum_add reads words little-endian; an odd byte at the end counts as it is
net_checksum_add(data, init) ==
  LET sum == FoldLeft(LAMBDA s, i : s + data[2 * i - 1] + BYTE * data[2 * i],
                      init, [i \in 1 .. Len(data) \div 2 |-> i])
  IN net_checksum_fold(IF Len(data) % 2 = 1 THEN sum + Last(data) ELSE sum)

\* net_tcp_checksum (6) and net_udp_checksum (17): the pseudo-header starts the sum
Pseudo(src, dst, protocol, len) ==
  (src \div BYTE ^ 2) + (src % BYTE ^ 2) + (dst \div BYTE ^ 2) + (dst % BYTE ^ 2) + protocol + len
-----------------------------------------------------------------------------
\* g_crc32_table, every entry as its upper and its lower half
g_crc32_table == <<
  0, 0, 30471, 12438, 60942, 24876, 39177, 20922, 1901, 50201, 28778, 62607, 59747, 42293, 40548, 38307,
  3803, 34866, 31196, 47268, 57557, 59678, 38866, 55688, 2486, 19499, 32433, 31933, 59320, 11527, 37055, 7569,
  7607, 4196, 27312, 8434, 62393, 29000, 33982, 16862, 6874, 54397, 28125, 58603, 62676, 46417, 33747, 34247,
  4972, 38998, 25707, 43200, 64866, 63866, 35429, 51692, 5121, 23631, 25350, 27865, 64015, 15715, 36104, 3573,
  15214, 8392, 19561, 4190, 54624, 16868, 41575, 29042, 15363, 58577, 19204, 54343, 53773, 34301, 42250, 46443,
  13749, 43258, 17074, 39020, 56251, 51670, 44220, 63808, 13016, 27875, 17887, 23669, 56534, 3535, 43985, 15705,
  9945, 12460, 20958, 58, 51415, 20864, 49104, 24854, 8628, 62645, 22195, 50211, 53178, 38297, 47293, 42255,
  10242, 47262, 24325, 34824, 50700, 55730, 45323, 59684, 12143, 31879, 22632, 19473, 49505, 7595, 46694, 11581,
  30428, 16784, 475, 28934, 39122, 8380, 61397, 4138, 29105, 34185, 1718, 46367, 40895, 58533, 59576, 54323,
  30727, 51618, 3840, 63796, 38409, 43150, 57614, 38936, 32618, 3515, 2157, 15661, 37220, 27799, 58979, 23553,
  27499, 20980, 7276, 24930, 34149, 12504, 62050, 78, 27654, 38381, 6913, 42363, 33288, 62657, 62735, 50263,
  26032, 55750, 4791, 59728, 35774, 47338, 64697, 34940, 25309, 7647, 5594, 11593, 36051, 31987, 64468, 19557,
  19890, 24920, 15029, 20942, 41916, 116, 54459, 12514, 19167, 42305, 15832, 38359, 42193, 50285, 54230, 62715,
  17257, 59754, 13422, 55804, 44391, 34886, 55904, 47312, 17412, 11635, 13059, 7653, 43530, 19551, 56589, 31945,
  20485, 28988, 9986, 16810, 48651, 4112, 51468, 8326, 22376, 46373, 8303, 34227, 47462, 54281, 52833, 58527,
  24286, 63758, 10713, 51608, 45264, 38946, 51159, 43188, 22963, 15639, 11956, 3457, 47037, 23611, 49338, 27821,
  60856, 33568, 39615, 46006, 950, 57868, 29873, 53914, 60117, 18233, 40402, 30639, 1243, 9749, 29660, 5763,
  58211, 2834, 37988, 15236, 3437, 27198, 31338, 23208, 58382, 53003, 37641, 65437, 2560, 44583, 32007, 40625,
  61455, 37700, 34568, 41938, 7681, 62056, 26886, 49918, 63330, 22365, 32869, 26571, 6508, 13937, 28267, 1767,
  65236, 7030, 35283, 11232, 4314, 31322, 26589, 19148, 63929, 57199, 36542, 61433, 6071, 48707, 24752, 36565,
  54998, 41960, 41425, 37758, 14552, 49860, 20447, 62034, 53691, 26609, 42684, 22375, 16309, 1757, 18610, 13899,
  55309, 11226, 44810, 6988, 13827, 19190, 16644, 31328, 57184, 61379, 43111, 57173, 12654, 36591, 18025, 48761,
  52065, 45964, 48230, 33562, 9583, 53920, 21096, 57910, 52236, 30613, 47883, 18179, 8706, 5817, 21765, 9775,
  50618, 15294, 45757, 2856, 11188, 23186, 23731, 27140, 49879, 65447, 46544, 53041, 11481, 40587, 23518, 44573,
  39780, 49840, 60515, 61990, 30058, 41884, 621, 37642, 39945, 1705, 60174, 13887, 29191, 26501, 1280, 22291,
  38335, 19074, 58040, 31252, 31665, 11182, 3254, 6968, 37586, 36507, 58837, 48653, 31964, 61367, 3035, 57121,
  34515, 53972, 61908, 57922, 26845, 46072, 8154, 33646, 33214, 5837, 63161, 9819, 28592, 30689, 6327, 18295,
  34824, 23270, 65295, 27248, 26118, 15306, 4353, 2908, 36709, 40703, 63586, 44649, 24939, 65491, 5740, 53061,
  40970, 57976, 55053, 53998, 19972, 33620, 14595, 46018, 42855, 9825, 53344, 5879, 18793, 18253, 15982, 30683,
  44753, 27210, 55766, 23260, 16607, 2918, 14296, 15344, 43452, 44627, 57019, 40645, 18354, 53119, 12469, 65513,
  48573, 61980, 51898, 49802, 21427, 37680, 9396, 41894, 47824, 13829, 52695, 1683, 21726, 22313, 9177, 26559,
  45926, 31278, 50273, 19128, 23912, 6914, 10863, 11156, 46091, 48695, 49932, 36513, 23045, 57115, 11522, 61325>>
Entry(i) == <<g_crc32_table[2 * i + 1], g_crc32_table[2 * i + 2]>>

Xor32(c, d) == <<c[1] ^^ d[1], c[2] ^^ d[2]>>
Not32(c) == <<65535 - c[1], 65535 - c[2]>>
Shr32(c, n) == <<c[1] \div 2 ^ n, (c[2] \div 2 ^ n) + (c[1] % 2 ^ n) * 2 ^ (16 - n)>>

\* A faulty variant: the register is not complemented before the first byte
crc32_update_plain(crc, data) ==
  Not32(FoldLeft(LAMBDA c, b : Xor32(Entry((c[2] ^^ b) % 256), Shr32(c, 8)), crc, data))

crc32_update(crc, data) ==
  Not32(FoldLeft(LAMBDA c, b : Xor32(Entry((c[2] ^^ b) % 256), Shr32(c, 8)), Not32(crc), data))
-----------------------------------------------------------------------------
bitmap_get(bit) == Bit(bitmap[bit \div ByteBits], bit % ByteBits) = 1
Mask(bit) == 2 ^ (bit % ByteBits)
BitmapBits == 0 .. BitmapBytes * ByteBits - 1

bitmap_set(b, bit) == [b EXCEPT ![bit \div ByteBits] = @ | Mask(bit)]
\* A faulty variant of the one below: clearing a clear bit sets it
bitmap_clear_toggles(b, bit) == [b EXCEPT ![bit \div ByteBits] = @ ^^ Mask(bit)]
bitmap_clear(b, bit) == [b EXCEPT ![bit \div ByteBits] = @ & (BYTE - 1 - Mask(bit))]
bitmap_toggle(b, bit) == [b EXCEPT ![bit \div ByteBits] = @ ^^ Mask(bit)]

\* bitmap_find_first_set and bitmap_find_first_clear: the number of bits if there is none
bitmap_find_first(set) ==
  LET S == {i \in BitmapBits : bitmap_get(i) <=> set}
  IN IF S = {} THEN Cardinality(BitmapBits) ELSE Min(S)

\* bitmap_set_range and bitmap_clear_range
Range_of(start, count) == [i \in 1 .. count |-> start + i - 1]

Inputs == [x : Words, n : 1 .. WordBits - 1]

BitsInit(words) ==
  word \in words /\ bitmap = [i \in 0 .. BitmapBytes - 1 |-> 0] /\ members = {}

BitsNext ==
  /\ word = [x |-> 0, n |-> 1] /\ UNCHANGED word
  /\ \E bit \in BitmapBits, n \in 1 .. Cardinality(BitmapBits) :
       LET run == Range_of(bit, n) IN
       /\ bit + n - 1 \in BitmapBits
       /\ \/ /\ bitmap' = FoldLeft(bitmap_set, bitmap, run)
             /\ members' = members \cup ToSet(run)
          \/ /\ bitmap' = FoldLeft(bitmap_clear, bitmap, run)
             /\ members' = members \ ToSet(run)
          \/ /\ n = 1 /\ bitmap' = bitmap_toggle(bitmap, bit)
             /\ members' = (members \ {bit}) \cup ({bit} \ members)
-----------------------------------------------------------------------------
(* The bit functions do what their names say for every word: rotations     *)
(* undo each other, align_up and align_down give the nearest multiples     *)
(* unless the sum wraps, the logarithms bracket their argument, a mask has *)
(* exactly the bits of its range when that is not the whole word, and      *)
(* swapping bytes twice or writing and reading them is the identity.       *)
BitsAgree ==
  word.n > 0 =>
  LET x == word.x
      n == word.n
      a == 2 ^ n
  IN /\ ror64(rol64(x, n), n) = x /\ popcount64(rol64(x, n)) = popcount64(x)
     /\ Ones(bit_range_mask(0, n - 1)) = 0 .. n - 1
     /\ Ones(bit_range_mask(n, WordBits - 1)) = n .. WordBits - 1
     /\ align_down(x, a) <= x /\ x < align_down(x, a) + a /\ is_aligned(align_down(x, a), a)
     /\ x + a - 1 < WORD =>
          /\ x <= align_up(x, a) /\ align_up(x, a) < x + a /\ is_aligned(align_up(x, a), a)
          /\ align_up(x, a) = a * div_round_up(x, a)
     /\ x > 0 => /\ 2 ^ log2_floor(x) <= x /\ x < 2 ^ (log2_floor(x) + 1)
                 /\ 2 ^ log2_ceil(x) >= x /\ log2_ceil(x) - log2_floor(x) \in {0, 1}
                 /\ x = 2 ^ log2_floor(x) => log2_ceil(x) = log2_floor(x)
                 /\ x % 2 ^ first_set_bit(x) = 0 /\ Bit(x, first_set_bit(x)) = 1
                 /\ last_set_bit(x) = log2_floor(x) /\ ffs64(x) = first_set_bit(x) + 1
     /\ bswap(bswap(x, WordBytes), WordBytes) = x
     /\ write_unaligned(bswap(x, WordBytes), WordBytes) = Reverse(write_unaligned(x, WordBytes))
     /\ read_unaligned(write_unaligned(x, WordBytes)) = x

(* A packet that carries the checksum net_checksum_add computed over it,   *)
(* pseudo-header included, sums to 0 at the receiver, however many carries *)
(* the additions make and whether its length is even or odd.               *)
ChecksumVerifies ==
  word.n = 1 => \A len \in 0 .. WordBytes :
    LET data == SubSeq(write_unaligned(word.x, WordBytes), 1, len)
        init == Pseudo(word.x, WORD - 1 - word.x, 17, len)
        sum == net_checksum_add(<<0, 0>> \o data, init)
    IN net_checksum_add(write_unaligned(sum, 2) \o data, init) = 0

\* n steps of the division by the reflected polynomial 0xEDB88320, bit by bit
RECURSIVE Divide(_, _)
Divide(c, n) ==
  IF n = 0 THEN c
  ELSE Divide(IF c[2] % 2 = 1 THEN Xor32(<<60856, 33568>>, Shr32(c, 1)) ELSE Shr32(c, 1), n - 1)

(* Every entry of g_crc32_table is the remainder that the polynomial of    *)
(* IEEE 802.3 gives its index; crc32 of a byte is the complement of the    *)
(* division of its bits from all ones, and that of a message may be        *)
(* computed piece by piece with crc32_update.                              *)
CrcReference ==
  word.n = 1 /\ word.x < 256 =>
    LET x == word.x
        y == 255 - x
        crc == crc32_update(<<0, 0>>, <<x, y>>)
    IN /\ Entry(x) = Divide(<<0, x>>, 8)
       /\ crc = crc32_update(crc32_update(<<0, 0>>, <<x>>), <<y>>)
       /\ crc32_update(<<0, 0>>, <<x>>) = Not32(Divide(<<65535, 65535 - x>>, 8))

(* Bits are set, cleared and toggled one by one and in ranges across the   *)
(* bytes of the bitmap without touching their neighbours; the searches and *)
(* the count see exactly the bits that are set.                            *)
BitmapExact ==
  /\ \A bit \in BitmapBits : bitmap_get(bit) <=> bit \in members
  /\ bitmap_find_first(TRUE) = IF members = {} THEN Cardinality(BitmapBits) ELSE Min(members)
  /\ LET clear == BitmapBits \ members
     IN bitmap_find_first(FALSE) = IF clear = {} THEN Cardinality(BitmapBits) ELSE Min(clear)

(* The bit functions, checksums and bitmaps of lib and net/checksum.c give *)
(* what their references say.                                              *)
BitsSound == BitsAgree /\ ChecksumVerifies /\ CrcReference /\ BitmapExact
=============================================================================
