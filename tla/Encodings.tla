----------------------------- MODULE Encodings ------------------------------
(***************************************************************************)
(* Texts as characters and as bytes.  A text is a sequence of code points, *)
(* what goes over the network a sequence of bytes.  The conversions are    *)
(* those of Qt, but for the guess of the encoding (strtoqstr) and the      *)
(* reading of UCS-2 (unicodeToUtf8).                                       *)
(***************************************************************************)
EXTENDS Integers, Sequences, FiniteSets, SequencesExt

CONSTANT CodePage    \* the bytes above 127 the user's 8-bit code page has, and their characters

ASSUME CodePageAssumption ==
  /\ DOMAIN CodePage \subseteq 128 .. 255
  /\ \A b \in DOMAIN CodePage : CodePage[b] \in 128 .. 65535
  /\ \A a, b \in DOMAIN CodePage : CodePage[a] = CodePage[b] => a = b

Replacement == 65533       \* QChar::replacement

-----------------------------------------------------------------------------
(* The 8-bit code page: ZGui::codec *)

InPage(c) == c < 128 \/ \E b \in DOMAIN CodePage : CodePage[b] = c

ByteOf(c) == IF c < 128 THEN c ELSE CHOOSE b \in DOMAIN CodePage : CodePage[b] = c

fromUnicode(text) == [i \in DOMAIN text |-> IF InPage(text[i]) THEN ByteOf(text[i]) ELSE 63]

toUnicode(bytes) ==
  [i \in DOMAIN bytes |-> IF bytes[i] < 128 THEN bytes[i]
                          ELSE IF bytes[i] \in DOMAIN CodePage THEN CodePage[bytes[i]]
                          ELSE Replacement]

\* The encoding of the phone, which is not known here but has ASCII in it.
fromLocal8Bit(bytes) == [i \in DOMAIN bytes |-> IF bytes[i] < 128 THEN bytes[i] ELSE Replacement]

Count(bytes, set) == Len(SelectSeq(bytes, LAMBDA b : b \in set))

\* The printable characters of ASCII, if the page has all the bytes.
MatchPage(bytes) ==
  IF bytes = <<>> \/ \E i \in DOMAIN bytes : bytes[i] \notin (0 .. 127) \cup DOMAIN CodePage
  THEN -1
  ELSE Count(bytes, 32 .. 126)

-----------------------------------------------------------------------------
(* UTF-8, and UCS-2 with the high byte first *)

UTF8Bytes(c) ==
  IF c < 128 THEN <<c>>
  ELSE IF c < 2048 THEN <<192 + c \div 64, 128 + (c % 64)>>
  ELSE <<224 + c \div 4096, 128 + ((c \div 64) % 64), 128 + (c % 64)>>

utf8(text) == FlattenSeq([i \in DOMAIN text |-> UTF8Bytes(text[i])])

Lead2 == 192 .. 223
Lead3 == 224 .. 239
Follow == 128 .. 191

\* One byte read: d holds what has been read, how many bytes are still to come and
\* the character they belong to.  Bytes that can follow no others are passed over.
UTF8Step(d, b) ==
  CASE d.need > 0 /\ b \notin Follow -> [out |-> Append(d.out, Replacement), need |-> 0, c |-> 0]
    [] d.need = 1 /\ b \in Follow ->
         [out |-> Append(d.out, d.c * 64 + b - 128), need |-> 0, c |-> 0]
    [] d.need = 2 /\ b \in Follow -> [d EXCEPT !.need = 1, !.c = @ * 64 + b - 128]
    [] d.need = 0 /\ b < 128 -> [d EXCEPT !.out = Append(@, b)]
    [] d.need = 0 /\ b \in Lead2 -> [d EXCEPT !.need = 1, !.c = b - 192]
    [] d.need = 0 /\ b \in Lead3 -> [d EXCEPT !.need = 2, !.c = b - 224]
    [] OTHER -> d

fromUtf8(bytes) ==
  LET d[i \in 0 .. Len(bytes)] ==
        IF i = 0 THEN [out |-> <<>>, need |-> 0, c |-> 0] ELSE UTF8Step(d[i - 1], bytes[i])
  IN  d[Len(bytes)].out

\* What speaks for UTF-8: -1 if a byte that must be followed by one of a kind is not.
MatchUTF8(bytes) ==
  LET leads == {i \in 1 .. Len(bytes) - 1 : bytes[i] \in Lead2 \cup Lead3}
  IN  IF \E i \in leads : bytes[i + 1] \notin Follow THEN -1
      ELSE Count(bytes, 1 .. 127)
             + 3 * Cardinality({i \in leads : bytes[i] \in Lead2})
             + 2 * Cardinality({i \in leads : bytes[i] \in Lead3})

UCS2BE(text) == FlattenSeq([i \in DOMAIN text |-> <<text[i] \div 256, text[i] % 256>>])

\* The characters are written in UTF-8 and read back.
unicodeToUtf8(bytes) ==
  LET symbol(i) == bytes[2 * i - 1] * 256 + bytes[2 * i]
  IN  fromUtf8(utf8([i \in 1 .. Len(bytes) \div 2 |-> symbol(i)]))

-----------------------------------------------------------------------------
(* The guess of the encoding *)

strtoqstr_PageFirst(bytes) ==
  IF MatchPage(bytes) # -1 THEN toUnicode(bytes) ELSE fromUtf8(bytes)

strtoqstr(bytes) ==
  IF MatchUTF8(bytes) = -1 THEN toUnicode(bytes)
  ELSE IF MatchPage(bytes) = -1 \/ MatchUTF8(bytes) > MatchPage(bytes) THEN fromUtf8(bytes)
  ELSE toUnicode(bytes)
=============================================================================
