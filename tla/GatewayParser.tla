---------------------------- MODULE GatewayParser ----------------------------
(***************************************************************************)
(* _extract_item of GatewaySerialClient: the reader thread appends what    *)
(* the serial port happens to deliver to `buf` and takes JSON lines and    *)
(* binary stream frames from its head, resynchronising after garbage.      *)
(*                                                                         *)
(* Bytes are the handful that the parser tells apart.  A frame is the two  *)
(* magic bytes, the version, the payload length, the payload and a         *)
(* checksum over everything after the magic; the sensor id and the eight   *)
(* bytes of the timestamp, which the parser only copies, are left out, so  *)
(* the header has 4 bytes, not 13.                                         *)
(***************************************************************************)
EXTENDS Integers, Sequences, SequencesExt

CONSTANT MaxBytes    \* bound: length of the byte streams that are tried

Version == 1
Brace == 2       \* "{"
EndBrace == 3    \* "}"
Newline == 4
Magic1 == 5      \* 0xA5
Magic2 == 6      \* 0x5A
Bytes == 0..6
Modulus == 7     \* 256 in the code
HeaderLen == 4

Drop(b, n) == SubSeq(b, n + 1, Len(b))
First(S) == CHOOSE i \in S : \A j \in S : i <= j

IsMagic(b, i) == i < Len(b) /\ b[i] = Magic1 /\ b[i + 1] = Magic2
Newlines(b) == {i \in 1..Len(b) : b[i] = Newline}
Candidates(b) == {i \in 1..Len(b) : b[i] = Brace \/ IsMagic(b, i)}
Checksum(b, last) == FoldFunction(+, 0, [i \in 3..last |-> b[i]]) % Modulus

\* json_objects_from_line: the first position at which an object can be decoded
\* (the only object of this alphabet is "{}").
Decodes(line) == \E i \in 1..(Len(line) - 1) : line[i] = Brace /\ line[i + 1] = EndBrace

Nothing(b) == [item |-> <<>>, buf |-> b, more |-> FALSE]
Skip(b, n) == [item |-> <<>>, buf |-> Drop(b, n), more |-> TRUE]
Item(i, b, n) == [item |-> i, buf |-> Drop(b, n), more |-> TRUE]

\* A line is taken up to its newline, whatever is in it.
ParseLine(b) ==
    IF Newlines(b) = {} THEN Nothing(b)
    ELSE LET n == First(Newlines(b))
             line == SubSeq(b, 1, n - 1)
         IN  IF Decodes(line) THEN Item(<<"json">>, b, n) ELSE Skip(b, n)

ParseFrame(b) ==
    LET total == HeaderLen + b[4] + 1
    IN  IF Len(b) < HeaderLen + 1 THEN Nothing(b)
        ELSE IF b[3] # Version THEN Skip(b, 1)
        ELSE IF Len(b) < total THEN Nothing(b)
        ELSE IF b[total] # Checksum(b, total - 1) THEN Skip(b, 1)
        ELSE Item(<<"frame", SubSeq(b, HeaderLen + 1, total - 1)>>, b, total)

\* Mutant: the first half of a magic number at the end of a read is dropped.
ResyncAll(b) ==
    IF Candidates(b) = {} THEN Nothing(<<>>) ELSE Skip(b, First(Candidates(b)) - 1)
\* Garbage goes up to the next possible beginning; a first magic byte at the
\* very end is kept.
Resync(b) ==
    IF Candidates(b) = {}
    THEN Nothing(IF b[Len(b)] = Magic1 THEN <<Magic1>> ELSE <<>>)
    ELSE Skip(b, First(Candidates(b)) - 1)

ExtractStep(b) ==
    CASE b = <<>> -> Nothing(b)
      [] b # <<>> /\ b[1] = Brace -> ParseLine(b)
      [] b # <<>> /\ IsMagic(b, 1) -> ParseFrame(b)
      [] OTHER -> Resync(b)

\* The reader's loop: items until the buffer holds no complete one.
Parse[b \in Seq(Bytes)] ==
    LET s == ExtractStep(b)
        rest == Parse[s.buf]
        found == IF s.item = <<>> THEN <<>> ELSE <<s.item>>
    IN  IF s.more THEN [items |-> found \o rest.items, buf |-> rest.buf]
        ELSE [items |-> <<>>, buf |-> s.buf]

-----------------------------------------------------------------------------
Streams == UNION {[1..n -> Bytes] : n \in 0..MaxBytes}

\* The items do not depend on how the serial port cuts the byte stream: for any
\* bytes, valid or corrupt, and any cut, parsing the two reads one after the
\* other finds the items, in order, and leaves the rest that one read would.
CutsDoNotMatter ==
    \A s \in Streams : \A n \in 1..(Len(s) - 1) :
        LET whole == Parse[s]
            left == Parse[SubSeq(s, 1, n)]
            right == Parse[left.buf \o SubSeq(s, n + 1, Len(s))]
        IN  whole.items = left.items \o right.items /\ whole.buf = right.buf
=============================================================================
