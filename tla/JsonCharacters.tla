--------------------------- MODULE JsonCharacters ---------------------------
(***************************************************************************)
(* Characters on their way through rapidjson: bytes and code units that    *)
(* come in one by one from anywhere and are decoded, a text that is put    *)
(* character by character and read back in each encoding, and the streams  *)
(* below.                                                                  *)
(***************************************************************************)
EXTENDS JsonEncodings, JsonStreams

CONSTANTS
    Octets,         \* the bytes that come in
    Units,          \* the UTF-16 code units that come in
    Points,         \* the characters that are put
    MaxOctets, MaxUnits, MaxPoints

ASSUME CharactersAssumption ==
    /\ Octets \subseteq Byte
    /\ Units \subseteq Word
    /\ Points \subseteq Nat /\ \A c \in Points : IsScalar(c)

VARIABLES
    octets, units, points,
    from,           \* the encoding in which characters are put, or "none" before
    to,             \* the one as which they are read
    mark            \* whether a byte order mark is put

codeVars == <<octets, units, points, from, to, mark>>
characterVars == <<codeVars, streamVars>>

CharactersInit ==
    /\ octets = <<>> /\ units = <<>> /\ points = <<>>
    /\ from = "none" /\ to = "none" /\ mark = FALSE
    /\ StreamsInit

OctetComes ==
    /\ Len(octets) < MaxOctets
    /\ \E b \in Octets : octets' = Append(octets, b)
    /\ UNCHANGED <<units, points, from, to, mark, streamVars>>
UnitComes ==
    /\ Len(units) < MaxUnits
    /\ \E u \in Units : units' = Append(units, u)
    /\ UNCHANGED <<octets, points, from, to, mark, streamVars>>
StreamIsOpened ==
    /\ from = "none"
    /\ from' \in UTFTypes /\ to' \in UTFTypes /\ mark' \in BOOLEAN
    /\ UNCHANGED <<octets, units, points, streamVars>>
PointIsPut ==
    /\ from # "none"
    /\ Len(points) < MaxPoints
    /\ \E c \in Points : points' = Append(points, c)
    /\ UNCHANGED <<octets, units, from, to, mark, streamVars>>

CharactersNext ==
    \/ OctetComes \/ UnitComes \/ StreamIsOpened \/ PointIsPut
    \/ StreamsNext /\ UNCHANGED codeVars
CharactersSpec == CharactersInit /\ [][CharactersNext]_characterVars

-----------------------------------------------------------------------------
\* What is no character is not taken for one, the others come through every
\* encoding as themselves, and no byte is lost or read twice at the end of a
\* buffer, of a file or of a chunk of the stack (encodings.h,
\* encodedstream.h, filereadstream.h, filewritestream.h, internal/stack.h).
CharactersSurvive ==
    /\ octets # <<>> => DecodesUTF8(octets)
    /\ units # <<>> => DecodesUTF16(units)
    /\ from # "none" => Carries(from, to, points, mark) /\ Detects(from, to, points, mark)
    /\ ReadsTheFile
    /\ WritesTheFile
    /\ KeepsBytes
=============================================================================
