--------------------------- MODULE JsonEncodings ---------------------------
(***************************************************************************)
(* The encodings of rapidjson (encodings.h) and the streams that read and  *)
(* write encoded bytes (encodedstream.h).  A stream in memory is a         *)
(* sequence of code units, and reading past its end gives zeros, as every  *)
(* stream of the library does.  A decoded character is the record of the   *)
(* code point, whether it is valid, and the units that it took.            *)
(***************************************************************************)
EXTENDS Integers, Sequences, SequencesExt

Byte == 0 .. 255
Word == 0 .. 65535
LastCode == 1114111                     \* 0x10FFFF
IsHigh(u) == 55296 <= u /\ u <= 56319    \* 0xD800 .. 0xDBFF
IsLow(u) == 56320 <= u /\ u <= 57343     \* 0xDC00 .. 0xDFFF
IsSurrogate(u) == IsHigh(u) \/ IsLow(u)
IsScalar(c) == 0 <= c /\ c <= LastCode /\ ~IsSurrogate(c)

\* The first n units that Take() returns, and what it leaves.
Take(s, n) == [k \in 1 .. n |-> IF k <= Len(s) THEN s[k] ELSE 0]
Rest(s, n) == SubSeq(s, n + 1, Len(s))

Decoded(code, ok, taken) == [code |-> code, ok |-> ok, taken |-> taken]

-----------------------------------------------------------------------------
(* UTF-8.                                                                  *)

TailByte(v) == 128 + (v % 64)
EncodeUTF8(c) ==
    IF c <= 127 THEN <<c>>
    ELSE IF c <= 2047 THEN <<192 + c \div 64, TailByte(c)>>
    ELSE IF c <= 65535 THEN <<224 + c \div 4096, TailByte(c \div 64), TailByte(c)>>
    ELSE <<240 + c \div 262144, TailByte(c \div 4096), TailByte(c \div 64), TailByte(c)>>

\* The class of a byte: 16, 64 and 32 are the three ranges of tail bytes.
GetRange(b) ==
    CASE b \in 0 .. 127 -> 0
      [] b \in 128 .. 143 -> 16
      [] b \in 144 .. 159 -> 64
      [] b \in 160 .. 191 -> 32
      [] b \in {192, 193} \cup 245 .. 255 -> 8
      [] b \in 194 .. 223 -> 2
      [] b = 224 -> 10
      [] b \in (225 .. 239) \ {237} -> 3
      [] b = 237 -> 4
      [] b = 240 -> 11
      [] b \in 241 .. 243 -> 6
      [] b = 244 -> 5

AnyTail == {16, 32, 64}
\* What may follow the byte ED; any tail would let in surrogates (a mutant).
NoSurrogateNot == AnyTail
NoSurrogate == {16, 64}
\* The classes that may follow a lead byte of class type, byte by byte.
Tails(type) ==
    CASE type = 2 -> <<AnyTail>>
      [] type = 3 -> <<AnyTail, AnyTail>>
      [] type = 4 -> <<NoSurrogate, AnyTail>>
      [] type = 5 -> <<{16}, AnyTail, AnyTail>>
      [] type = 6 -> <<AnyTail, AnyTail, AnyTail>>
      [] type = 10 -> <<{32}, AnyTail>>
      [] type = 11 -> <<{32, 64}, AnyTail, AnyTail>>
      [] OTHER -> <<>>

\* (0xFF >> type) & c: what a lead byte gives to the code point.
LeadMask(type) ==
    CASE type = 2 -> 63 [] type = 3 -> 31 [] type = 4 -> 15 [] type = 5 -> 7 [] type = 6 -> 3
      [] OTHER -> 0
LeadBits(b) == b % (LeadMask(GetRange(b)) + 1)

\* (codep << 6) | (c & 0x3F), byte by byte.
AddTail(code, b) == code * 64 + (b % 64)
CodeOf(taken) ==
    LET lead == LeadBits(taken[1]) IN
    CASE Len(taken) = 1 -> lead
      [] Len(taken) = 2 -> AddTail(lead, taken[2])
      [] Len(taken) = 3 -> AddTail(AddTail(lead, taken[2]), taken[3])
      [] Len(taken) = 4 -> AddTail(AddTail(AddTail(lead, taken[2]), taken[3]), taken[4])

DecodeUTF8(s) ==
    LET b == Take(s, 1)[1]
        tails == Tails(GetRange(b))
        taken == Take(s, 1 + Len(tails))
    IN  IF b < 128 THEN Decoded(b, TRUE, <<b>>)
        ELSE Decoded(CodeOf(taken),
                     tails # <<>> /\ \A k \in DOMAIN tails : GetRange(taken[k + 1]) \in tails[k],
                     taken)

\* Validate copies the bytes that it looks at.
ValidateUTF8(s) ==
    LET b == Take(s, 1)[1]
        tails == Tails(GetRange(b))
        taken == Take(s, 1 + Len(tails))
    IN  [ok |-> b < 128 \/ (tails # <<>> /\
                \A k \in DOMAIN tails : GetRange(taken[k + 1]) \in tails[k]),
         put |-> taken]

-----------------------------------------------------------------------------
(* UTF-16, UTF-32 and ASCII.                                               *)

EncodeUTF16(c) ==
    IF c <= 65535 THEN <<c>>
    ELSE LET v == c - 65536 IN <<55296 + v \div 1024, 56320 + (v % 1024)>>

PairCode(high, low) == 65536 + (high % 1024) * 1024 + (low % 1024)
DecodeUTF16(s) ==
    LET t == Take(s, 2) IN
    IF ~IsSurrogate(t[1]) THEN Decoded(t[1], TRUE, <<t[1]>>)
    ELSE IF IsHigh(t[1]) THEN Decoded(PairCode(t[1], t[2]), IsLow(t[2]), t)
    ELSE Decoded(0, FALSE, <<t[1]>>)

ValidateUTF16(s) ==
    LET t == Take(s, 2) IN
    [ok |-> ~IsSurrogate(t[1]) \/ (IsHigh(t[1]) /\ IsLow(t[2])),
     put |-> IF IsHigh(t[1]) THEN t ELSE <<t[1]>>]

EncodeUTF32(c) == <<c>>
DecodeUTF32(s) == LET c == Take(s, 1)[1] IN Decoded(c, c <= LastCode, <<c>>)
ValidateUTF32(s) == LET c == Take(s, 1)[1] IN [ok |-> c <= LastCode, put |-> <<c>>]

EncodeASCII(c) == <<c>>
DecodeASCII(s) == LET c == Take(s, 1)[1] IN Decoded(c, c <= 127, <<c>>)
ValidateASCII(s) == LET c == Take(s, 1)[1] IN [ok |-> c <= 127, put |-> <<c>>]

-----------------------------------------------------------------------------
(* The encodings by name, as AutoUTF chooses them at run time.             *)

UTFTypes == {"UTF8", "UTF16LE", "UTF16BE", "UTF32LE", "UTF32BE"}

Encode(e, c) ==
    CASE e = "UTF8" -> EncodeUTF8(c)
      [] e \in {"UTF16LE", "UTF16BE"} -> EncodeUTF16(c)
      [] e \in {"UTF32LE", "UTF32BE"} -> EncodeUTF32(c)
      [] e = "ASCII" -> EncodeASCII(c)

Decode(e, s) ==
    CASE e = "UTF8" -> DecodeUTF8(s)
      [] e \in {"UTF16LE", "UTF16BE"} -> DecodeUTF16(s)
      [] e \in {"UTF32LE", "UTF32BE"} -> DecodeUTF32(s)
      [] e = "ASCII" -> DecodeASCII(s)

Validate(e, s) ==
    CASE e = "UTF8" -> ValidateUTF8(s)
      [] e \in {"UTF16LE", "UTF16BE"} -> ValidateUTF16(s)
      [] e \in {"UTF32LE", "UTF32BE"} -> ValidateUTF32(s)
      [] e = "ASCII" -> ValidateASCII(s)

\* A character from one encoding to another; nothing is put for an invalid
\* one.  Between two streams of one encoding a single unit is copied, unseen.
Transcode(e, f, s) ==
    IF e = f THEN [ok |-> TRUE, put |-> Take(s, 1), taken |-> Take(s, 1)]
    ELSE LET d == Decode(e, s) IN
         [ok |-> d.ok, put |-> IF d.ok THEN Encode(f, d.code) ELSE <<>>, taken |-> d.taken]

\* Again and again, up to the end of the stream.
TranscodeNext(e, f, r) ==
    IF r.left = <<>> THEN r
    ELSE LET t == Transcode(e, f, r.left)
         IN  [left |-> Rest(r.left, Len(t.taken)), put |-> r.put \o t.put]
TranscodeAll(e, f, s) ==
    LET turn[k \in 0 .. Len(s)] ==
            IF k = 0 THEN [left |-> s, put |-> <<>>] ELSE TranscodeNext(e, f, turn[k - 1])
    IN  turn[Len(s)].put

-----------------------------------------------------------------------------
(* Code units as bytes, and the byte order mark.                           *)

TwoBytes(u) == <<u % 256, u \div 256>>
FourBytes(u) == TwoBytes(u % 65536) \o TwoBytes(u \div 65536)
Unit(low) ==
    CASE Len(low) = 1 -> low[1]
      [] Len(low) = 2 -> low[1] + 256 * low[2]
      [] Len(low) = 4 -> low[1] + 256 * low[2] + 65536 * low[3] + 16777216 * low[4]

UnitSize(e) ==
    CASE e \in {"UTF8", "ASCII"} -> 1
      [] e \in {"UTF16LE", "UTF16BE"} -> 2
      [] e \in {"UTF32LE", "UTF32BE"} -> 4

\* The lowest byte first, or last.
InOrder(e, low) == IF e \in {"UTF16BE", "UTF32BE"} THEN Reverse(low) ELSE low
PutUnit(e, u) ==
    InOrder(e, CASE UnitSize(e) = 1 -> <<u>>
                 [] UnitSize(e) = 2 -> TwoBytes(u)
                 [] UnitSize(e) = 4 -> FourBytes(u))
TakeUnit(e, s) == Unit(InOrder(e, Take(s, UnitSize(e))))

PutBOM(e) ==
    CASE e = "UTF8" -> <<239, 187, 191>>
      [] e = "UTF16LE" -> <<255, 254>>
      [] e = "UTF16BE" -> <<254, 255>>
      [] e = "UTF32LE" -> <<255, 254, 0, 0>>
      [] e = "UTF32BE" -> <<0, 0, 254, 255>>
      [] e = "ASCII" -> <<>>

\* How many bytes TakeBOM drops before the unit that it returns: those of the
\* mark, and in UTF-8 also those of a part of it.
BOMSize(e, s) ==
    LET t == Take(s, 3) IN
    CASE e = "ASCII" -> 0
      [] e = "UTF8" -> IF t[1] # 239 THEN 0 ELSE IF t[2] # 187 THEN 1
                       ELSE IF t[3] # 191 THEN 2 ELSE 3
      [] OTHER -> IF TakeUnit(e, s) = 65279 THEN UnitSize(e) ELSE 0

\* The MemoryStream specialization looks for each byte on its own.
BOMSizeInMemory(s) ==
    LET Skip(n, b) == IF Take(s, n + 1)[n + 1] = b THEN n + 1 ELSE n
    IN  Skip(Skip(Skip(0, 239), 187), 191)

\* The units that a stream gives before its end.
UnitsIn(e, s) == (Len(s) + UnitSize(e) - 1) \div UnitSize(e)
TakeUnits(e, s) == [k \in 1 .. UnitsIn(e, s) |-> TakeUnit(e, Rest(s, (k - 1) * UnitSize(e)))]

EncodedInput(e, s) == TakeUnits(e, Rest(s, BOMSize(e, s)))
EncodedInputInMemory(s) == TakeUnits("UTF8", Rest(s, BOMSizeInMemory(s)))
EncodedOutput(e, putBOM, units) ==
    (IF putBOM THEN PutBOM(e) ELSE <<>>) \o
    FlattenSeq([k \in DOMAIN units |-> PutUnit(e, units[k])])

-----------------------------------------------------------------------------
(* AutoUTFInputStream: the encoding found in the first four bytes.         *)

\* The mark of UTF-16LE begins that of UTF-32LE, which is asked for first.
BOMOrder == <<"UTF32BE", "UTF32LE", "UTF16BE", "UTF16LE", "UTF8">>

Marks(s) == {k \in DOMAIN BOMOrder : IsPrefix(PutBOM(BOMOrder[k]), s)}
FirstMark(s) == BOMOrder[CHOOSE k \in Marks(s) : \A j \in Marks(s) : k <= j]

ByNulls(s, type) ==
    LET null == [k \in 1 .. 4 |-> s[k] = 0] IN
    CASE null = <<TRUE, TRUE, TRUE, FALSE>> -> "UTF32BE"
      [] null = <<TRUE, FALSE, TRUE, FALSE>> -> "UTF16BE"
      [] null = <<FALSE, TRUE, TRUE, TRUE>> -> "UTF32LE"
      [] null = <<FALSE, TRUE, FALSE, TRUE>> -> "UTF16LE"
      [] null = <<FALSE, FALSE, FALSE, FALSE>> -> "UTF8"
      [] OTHER -> type

\* Peek4 gives nothing when fewer than four bytes are left.
DetectType(s, type) ==
    CASE Len(s) < 4 -> [type |-> type, hasBOM |-> FALSE]
      [] Len(s) >= 4 /\ Marks(s) # {} -> [type |-> FirstMark(s), hasBOM |-> TRUE]
      [] OTHER -> [type |-> ByNulls(s, type), hasBOM |-> FALSE]

AutoUTFInput(s, type) ==
    LET d == DetectType(s, type) IN
    TakeUnits(d.type, Rest(s, IF d.hasBOM THEN Len(PutBOM(d.type)) ELSE 0))

-----------------------------------------------------------------------------
(* What is asked of them.                                                  *)

\* The value of a UTF-8 form, and a scalar value's form by its definition: the
\* shortest one.
FormValue(t) ==
    CASE Len(t) = 1 -> t[1]
      [] Len(t) = 2 -> (t[1] - 192) * 64 + (t[2] - 128)
      [] Len(t) = 3 -> (t[1] - 224) * 4096 + (t[2] - 128) * 64 + (t[3] - 128)
      [] Len(t) = 4 -> (t[1] - 240) * 262144 + (t[2] - 128) * 4096 + (t[3] - 128) * 64 + (t[4] - 128)
IsFormOf(t, c) ==
    LET n == Len(t)
        lead == <<0, 192, 224, 240>>[n]
        least == <<0, 128, 2048, 65536>>[n]
        greatest == <<127, 2047, 65535, LastCode>>[n]
    IN  /\ least <= c /\ c <= greatest /\ ~IsSurrogate(c)
        /\ t[1] >= lead
        /\ \A k \in 2 .. n : t[k] \in 128 .. 191
        /\ c = FormValue(t)

\* A character is accepted if and only if it is the form of a scalar value,
\* and that value comes out; Validate agrees with Decode on every byte.
DecodesUTF8(s) ==
    LET d == DecodeUTF8(s)
        v == ValidateUTF8(s)
    IN  /\ v = [ok |-> d.ok, put |-> d.taken]
        /\ d.ok => IsFormOf(d.taken, d.code) /\ EncodeUTF8(d.code) = d.taken
        /\ ~d.ok => \A n \in 1 .. 4 : n <= Len(s) => ~IsFormOf(Take(s, n), FormValue(Take(s, n)))

\* The same of UTF-16.  A surrogate code point, which the reader takes from
\* a lone low one (reader.h:1005), is written in UTF-8 and is not read again.
DecodesUTF16(s) ==
    LET d == DecodeUTF16(s) IN
    /\ ValidateUTF16(s) = [ok |-> d.ok, put |-> d.taken]
    /\ d.ok <=> IsScalar(d.code) /\ EncodeUTF16(d.code) = d.taken
    /\ IsSurrogate(s[1]) => ~DecodeUTF8(EncodeUTF8(s[1])).ok

EncodeAll(e, text) == FlattenSeq([k \in DOMAIN text |-> Encode(e, text[k])])

\* Text written in one encoding and read back, or read as another one, is
\* the text, with and without its mark, and Validate takes of it what Decode
\* takes.  Without a mark, a text that begins with the mark loses it, and in
\* UTF-8 one that begins with its first byte, a character from U+F000 to
\* U+FFFF, loses a part of the character.
Carries(e, f, text, bom) ==
    LET As(g) == EncodeAll(g, text)
        out == EncodedOutput(e, bom, As(e))
        in == EncodedInput(e, out)
    IN  (bom \/ text = <<>> \/ text[1] \notin IF e = "UTF8" THEN 61440 .. 65535 ELSE {65279}) =>
        /\ in = As(e)
        /\ text # <<>> =>
           Validate(e, in) = [ok |-> Decode(e, in).ok, put |-> Decode(e, in).taken]
        /\ TranscodeAll(e, f, in) = As(f)
        /\ e = "UTF8" => EncodedInputInMemory(out) = in

\* The detection finds the encoding of a text of four bytes or more that has
\* a mark or begins with two ASCII characters; a UTF-16LE text with a mark
\* that begins with U+0000 is taken for UTF-32LE.  A shorter text is read as
\* the type that the caller gave, and its mark is read as a character.
Detects(e, type, text, bom) ==
    LET units == EncodeAll(e, text)
        out == EncodedOutput(e, bom, units)
        ascii == {k \in DOMAIN text : text[k] \in 1 .. 127}
    IN  IF Len(out) < 4
        THEN type = e =>
             AutoUTFInput(out, e) = TakeUnits(e, EncodedOutput(e, bom, <<>>)) \o units
        ELSE (IF bom THEN ~(e = "UTF16LE" /\ text # <<>> /\ text[1] = 0)
              ELSE {1, 2} \cap DOMAIN text \subseteq ascii /\ 0 \notin Range(text))
             => AutoUTFInput(out, type) = units
=============================================================================
