----------------------------- MODULE RdbEncoding -----------------------------
(***************************************************************************)
(* The bytes of a dump: what rdb.c writes for lengths, integers, strings   *)
(* and doubles, and what it reads out of them, as functions.               *)
(*                                                                         *)
(* The first two bits of the first byte are the type of a length and the   *)
(* others, a number below Rests (64 in the code), its start.  The contents *)
(* of a string are one element of the stream, a chunk with a size in bytes.*)
(***************************************************************************)
EXTENDS Integers, Sequences, SequencesExt, FiniteSets

CONSTANTS Rests,       \* 64, the numbers of the six bits after the type of a length
          IntLen,      \* 11, the longest text that is tried as an integer
          LzfLen       \* 20, the longest text that is not compressed

ASSUME EncodingAssumption == /\ Rests \in Nat /\ Rests >= 4
                             /\ IntLen \in Nat /\ LzfLen \in Nat

-----------------------------------------------------------------------------
(* Numbers in bytes.                                                       *)

Byte == 4 * Rests
Power[k \in 0 .. 7] == IF k = 0 THEN 1 ELSE Byte * Power[k - 1]
BigEndian(n, k) == [i \in 1 .. k |-> (n \div Power[k - i]) % Byte]
LittleEndian(n, k) == Reverse(BigEndian(n, k))
FromBigEndian(s) == FoldLeft(LAMBDA v, b : v * Byte + b, 0, s)
FromLittleEndian(s) == FromBigEndian(Reverse(s))
Half(k) == 2 * Rests * Power[k - 1]
Signed(v, k) == IF v >= Half(k) THEN v - Power[k] ELSE v

\* RDB_6BITLEN, RDB_14BITLEN, RDB_ENCVAL; RDB_32BITLEN and RDB_64BITLEN are
\* the first bytes with type 2 and rest 0 and 1; the RDB_ENC_* are the rests of type 3.
First(type, rest) == type * Rests + rest
INT8 == 0
INT16 == 1
INT32 == 2
LZF == 3

Failed == [ok |-> FALSE]
Read(val, rest) == [ok |-> TRUE, val |-> val, rest |-> rest]
From(s, i) == SubSeq(s, i, Len(s))

\* Mutant of SaveLen: the bounds are inclusive.
SaveLenInclusive(n) ==
  IF n <= Rests THEN <<First(0, n)>>
  ELSE IF n <= Rests * Byte THEN <<First(1, n \div Byte), n % Byte>>
  ELSE IF n < Power[4] THEN <<First(2, 0)>> \o BigEndian(n, 4)
  ELSE <<First(2, 1)>> \o BigEndian(n, 8)

\* rdbSaveLen()
SaveLen(n) ==
  IF n < Rests THEN <<First(0, n)>>
  ELSE IF n < Rests * Byte THEN <<First(1, n \div Byte), n % Byte>>
  ELSE IF n < Power[4] THEN <<First(2, 0)>> \o BigEndian(n, 4)
  ELSE <<First(2, 1)>> \o BigEndian(n, 8)

\* rdbLoadLenByRef(), with isencoded.
LoadLen(s) ==
  LET type == s[1] \div Rests
      low  == s[1] % Rests
      Length(val, used) == IF Len(s) < used THEN Failed
                           ELSE [ok |-> TRUE, val |-> val, encoded |-> type = 3,
                                 rest |-> From(s, used + 1)]
      Wide(k) == Length(FromBigEndian(SubSeq(s, 2, k + 1)), k + 1)
  IN IF s = << >> THEN Failed
     ELSE CASE type \in {0, 3} -> Length(low, 1)
            [] type = 1 -> IF Len(s) < 2 THEN Failed ELSE Length(low * Byte + s[2], 2)
            [] type = 2 /\ low = 0 -> IF Len(s) < 5 THEN Failed ELSE Wide(4)
            [] type = 2 /\ low = 1 -> IF Len(s) < 9 THEN Failed ELSE Wide(8)
            [] OTHER -> Failed

Fits(v, k) == -Half(k) <= v /\ v < Half(k)

\* rdbEncodeInteger(); nothing when the value does not fit.
EncodeInteger(v) ==
  IF Fits(v, 1) THEN <<First(3, INT8)>> \o LittleEndian(v, 1)
  ELSE IF Fits(v, 2) THEN <<First(3, INT16)>> \o LittleEndian(v, 2)
  ELSE IF Fits(v, 4) THEN <<First(3, INT32)>> \o LittleEndian(v, 4)
  ELSE << >>

\* Mutant of LoadInteger: the sign is lost.
LoadIntegerUnsigned(enc, s) ==
  LET k == IF enc = INT8 THEN 1 ELSE IF enc = INT16 THEN 2 ELSE 4
  IN IF Len(s) < k THEN Failed ELSE Read(FromLittleEndian(SubSeq(s, 1, k)), From(s, k + 1))

\* rdbLoadIntegerObject(), up to the kind of object it makes.
LoadInteger(enc, s) ==
  LET k == IF enc = INT8 THEN 1 ELSE IF enc = INT16 THEN 2 ELSE 4
  IN IF Len(s) < k THEN Failed
     ELSE Read(Signed(FromLittleEndian(SubSeq(s, 1, k)), k), From(s, k + 1))

-----------------------------------------------------------------------------
(* Strings: the canonical text of an integer, or a text that is none, with *)
(* the size lzf_compress() gives it (0 when it saves less than four bytes).*)

Chunk(str, size) == [chunk |-> str, size |-> size]
Digits(n) == 1 + Cardinality({k \in 1 .. 9 : n >= 10^k})
IntText(v) == [int |-> TRUE, val |-> v, len |-> IF v < 0 THEN 1 + Digits(-v) ELSE Digits(v)]
Text(name, len, packed) == [int |-> FALSE, val |-> name, len |-> len, packed |-> packed]
EmptyText == Text("", 0, 0)

\* The lengths a dump can hold, and the texts: the length of an empty one is all that is
\* written of it.
IsLength64(n) == n \in Nat /\ n \div Power[4] < Power[4]
IsText(str) ==
  \/ str.int = TRUE /\ str.val \in Int /\ str = IntText(str.val)
  \/ /\ str.int = FALSE /\ IsLength64(str.len) /\ IsLength64(str.packed)
     /\ str.len = 0 => str = EmptyText

\* Mutant of LzfBlob: the two sizes are swapped.
LzfBlobSwapped(str) ==
  <<First(3, LZF)>> \o SaveLen(str.len) \o SaveLen(str.packed) \o <<Chunk(str, str.packed)>>

\* rdbSaveLzfBlob()
LzfBlob(str) ==
  <<First(3, LZF)>> \o SaveLen(str.packed) \o SaveLen(str.len) \o <<Chunk(str, str.packed)>>

\* The string as it is.
Verbatim(str) ==
  SaveLen(str.len) \o (IF str.len = 0 THEN << >> ELSE <<Chunk(str, str.len)>>)

\* rdbSaveRawString() with rdbTryIntegerEncoding() and rdbSaveLzfStringObject()
SaveRawString(str, compression) ==
  IF str.int /\ str.len <= IntLen /\ EncodeInteger(str.val) # << >>
    THEN EncodeInteger(str.val)
  ELSE IF ~str.int /\ compression /\ str.len > LzfLen /\ str.packed # 0
    THEN LzfBlob(str)
  ELSE Verbatim(str)

\* rdbSaveStringObject(), rdbSaveLongLongAsStringObject()
SaveString(o, compression) ==
  IF o.encoding = "int"
    THEN IF EncodeInteger(o.str.val) # << >> THEN EncodeInteger(o.str.val) ELSE Verbatim(o.str)
    ELSE SaveRawString(o.str, compression)

\* The chunk of this many bytes, if the stream goes on.
LoadChunk(s, size) ==
  IF s = << >> THEN Failed
  ELSE IF Head(s).size # size THEN Failed
  ELSE Read(Head(s).chunk, Tail(s))

\* rdbLoadLzfStringObject(): the decompressed size must be the one announced.
LoadLzf(s) ==
  LET clen == LoadLen(s) IN
  IF ~clen.ok THEN Failed
  ELSE LET len == LoadLen(clen.rest) IN
    IF ~len.ok THEN Failed
    ELSE LET c == LoadChunk(len.rest, clen.val) IN
      IF ~c.ok THEN Failed ELSE IF c.val.len # len.val THEN Failed ELSE c

\* What the flags make of a loaded integer: text for RDB_LOAD_PLAIN and _SDS,
\* an object with a number only for RDB_LOAD_ENC.
AsLoaded(r, flag, wasInteger) ==
  IF ~r.ok THEN Failed
  ELSE Read([str |-> IF wasInteger THEN IntText(r.val) ELSE r.val,
             encoding |-> IF flag \in {"plain", "sds"} THEN "none"
                          ELSE IF flag = "enc" /\ wasInteger THEN "int" ELSE "raw"], r.rest)

\* rdbGenericLoadStringObject()
LoadString(s, flag) ==
  LET len == LoadLen(s) IN
  IF ~len.ok THEN Failed
  ELSE IF len.encoded
    THEN IF len.val \in {INT8, INT16, INT32}
           THEN AsLoaded(LoadInteger(len.val, len.rest), flag, TRUE)
         ELSE IF len.val = LZF THEN AsLoaded(LoadLzf(len.rest), flag, FALSE)
         ELSE Failed
  ELSE AsLoaded(IF len.val = 0 THEN Read(EmptyText, len.rest)
                ELSE LoadChunk(len.rest, len.val), flag, FALSE)

Double(name, len) == [double |-> name, len |-> len]
Special == <<Double("nan", 0), Double("inf", 0), Double("-inf", 0)>>

\* rdbSaveDoubleValue(): the length of the text, or one of the three numbers that are no
\* length.
SaveDouble(d) ==
  IF \E i \in 1 .. 3 : Special[i] = d THEN <<Byte - (CHOOSE i \in 1 .. 3 : Special[4 - i] = d)>>
  ELSE <<d.len, Chunk(d, d.len)>>

\* rdbLoadDoubleValue()
LoadDouble(s) ==
  IF s = << >> THEN Failed
  ELSE IF Head(s) >= Byte - 3 THEN Read(Special[Head(s) - (Byte - 4)], Tail(s))
  ELSE LoadChunk(Tail(s), Head(s))
=============================================================================
