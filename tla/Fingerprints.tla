---------------------------- MODULE Fingerprints ----------------------------
(***************************************************************************)
(* The forms of a fingerprint and what is computed from it                 *)
(* (acoustid_ext/fingerprint.pyx and acoustid/fingerprint.py): a client's  *)
(* string, an array of signed or unsigned words, the text of a PostgreSQL  *)
(* array, the binary format of XOR differences that zstd compresses; the   *)
(* terms of an index query and the windows that are hashed together.       *)
(*                                                                         *)
(* Words have Width bits (32 in the code) and numbers are written in base  *)
(* Base (10).                                                              *)
(***************************************************************************)
EXTENDS Integers, Sequences, FiniteSets, SequencesExt, Bitwise

CONSTANTS
  Width,        \* bits of a word
  QueryBits,    \* bits that a query keeps (28)
  Silence,      \* the hash of silence
  Base,         \* of the digits of a text
  Version,      \* FINGERPRINT_VERSION, the one version that lookups accept
  MaxLen,       \* bound: words of a fingerprint
  Sizes, Starts \* sizes and starts of queries, sizes and steps of windows

ASSUME FingerprintsAssumption ==
  /\ Width \in Nat \ {0} /\ QueryBits \in 1 .. Width
  /\ Silence \in 0 .. 2^Width - 1 /\ Base \in Nat \ {0, 1}

Word == 0 .. 2^Width - 1
Error == [hashes |-> <<>>, version |-> -1]

VARIABLES
  original,     \* [hashes, version]: what the client computed
  form,     \* the form at hand: which one
  value,    \* and what it holds
  spoilt    \* history: the form was damaged

fvars == <<original, form, value, spoilt>>

FingerprintsInit ==
  /\ original \in [hashes : UNION {[1 .. n -> Word] : n \in 0 .. MaxLen}, version : {0, Version}]
  /\ form = "client" /\ spoilt = FALSE
  /\ value = original

-----------------------------------------------------------------------------
(* Signed and unsigned words *)

Signed(w) == IF w >= 2^(Width - 1) THEN w - 2^Width ELSE w
Unsigned(i) == i % 2^Width
to_signed(words) == [i \in DOMAIN words |-> Signed(words[i])]
to_unsigned(ints) == [i \in DOMAIN ints |-> Unsigned(ints[i])]

-----------------------------------------------------------------------------
(* The client's string: decode_legacy_fingerprint with libchromaprint, and
   decode_fingerprint of data/fingerprint.py *)

\* chromaprint_decode_fingerprint fills in result, size and algorithm; a string
\* it cannot read leaves them at -1 or says so.
decode_legacy_fingerprint(res, words, version, signed) ==
  IF res # 1 \/ version = -1 THEN Error
  ELSE [hashes |-> IF signed THEN to_signed(words) ELSE words, version |-> version]

\* A fingerprint of another version is as good as none.
decode_fingerprint(fp) == IF fp = Error \/ fp.version # Version THEN Error ELSE fp

Receive(res, signed) ==
  LET fp == decode_legacy_fingerprint(res, value.hashes, value.version, signed) IN
  /\ form = "client"
  /\ form' = IF fp = Error THEN "refused" ELSE IF signed THEN "ints" ELSE "words"
  /\ value' = fp
  /\ spoilt' = (res # 1)
  /\ UNCHANGED original

\* A lookup or a submission goes on with the signed words of an accepted one: one
\* with no words is refused as one that cannot be read.
Accept ==
  /\ form = "ints"
  /\ form' = IF decode_fingerprint(value).hashes = <<>> THEN "refused" ELSE "row"
  /\ UNCHANGED <<original, value, spoilt>>

-----------------------------------------------------------------------------
(* The text of a PostgreSQL array (its output function is external) *)

\* Characters are codes.
OpenBrace == 123
CloseBrace == 125
Comma == 44
Minus == 45
Digit0 == 48

DigitsOf[n \in Nat] ==
  IF n < Base THEN <<Digit0 + n>> ELSE Append(DigitsOf[n \div Base], Digit0 + (n % Base))

Literal(i) == IF i < 0 THEN <<Minus>> \o DigitsOf[-i] ELSE DigitsOf[i]

Text(ints) ==
  LET Add(text, i) == text \o (IF text = <<>> THEN <<>> ELSE <<Comma>>) \o Literal(i)
  IN <<OpenBrace>> \o FoldLeft(Add, <<>>, ints) \o <<CloseBrace>>

Store ==
  /\ form = "row"
  /\ form' = "text" /\ value' = [value EXCEPT !.hashes = Text(@)]
  /\ UNCHANGED <<original, spoilt>>

Inner(text) == SubSeq(text, 2, Len(text) - 1)

\* First pass: an element ends at a comma that does not follow another or the
\* brace, and the last one at the end.
Elements(text) ==
  LET Ends(i) == text[i] \notin {Comma, OpenBrace} /\ (i = Len(text) - 1 \/ text[i + 1] = Comma) IN
  Cardinality({i \in 1 .. Len(text) - 1 : Ends(i)})

IsDigit(c) == c \in Digit0 .. Digit0 + Base - 1

\* value * 10 + digit in a C int
Shift(n, c) == Signed(Unsigned(n * Base + c - Digit0))

\* A minus sign holds for the numbers behind it too.
StoredNegative(s) ==
  IF ~ s.number THEN s
  ELSE [s EXCEPT !.number = FALSE, !.n = 0,
                 !.out = Append(@, IF s.negative THEN Signed(Unsigned(-s.n)) ELSE s.n)]

\* The number read so far is stored, with its sign, into the next place.
Stored(s) ==
  IF ~ s.number THEN s
  ELSE [number |-> FALSE, negative |-> FALSE, n |-> 0,
        out |-> Append(s.out, IF s.negative THEN Signed(Unsigned(-s.n)) ELSE s.n)]

\* Second pass: one character; all places taken, the rest is not looked at.
Scan(s, c, count) ==
  IF s.number /\ IsDigit(c) THEN [s EXCEPT !.n = Shift(@, c)]
  ELSE LET t == Stored(s) IN
       IF Len(t.out) = count THEN t
       ELSE IF IsDigit(c) THEN [t EXCEPT !.number = TRUE, !.n = Shift(0, c)]
       ELSE [t EXCEPT !.negative = @ \/ c = Minus]

\* Places that no number was stored into hold what the memory held: junk.
decode_postgres_array(text, junk) ==
  LET count == Elements(text)
      start == [number |-> FALSE, negative |-> FALSE, n |-> 0, out |-> <<>>]
      out == Stored(FoldLeft(LAMBDA s, c : Scan(s, c, count), start, Inner(text))).out
  IN out \o [i \in 1 .. count - Len(out) |-> junk]

WellFormed(text) == Len(text) >= 2 /\ Head(text) = OpenBrace /\ Last(text) = CloseBrace

Parse ==
  /\ form = "text"
  /\ form' = IF WellFormed(value.hashes) THEN "ints" ELSE "refused"
  /\ \E junk \in {0, -1} : value' = [value EXCEPT !.hashes = decode_postgres_array(@, junk)]
  /\ UNCHANGED <<original, spoilt>>

-----------------------------------------------------------------------------
(* The binary format: header, then the differences *)

Header(version) == <<"F", "p", "1", version>>

\* A list of signed numbers, or unsigned words.
encode_fingerprint(words, version) ==
  [head |-> Header(version), tail |-> 0,
   diffs |-> [i \in DOMAIN words |-> words[i] ^^ (IF i = 1 THEN 0 ELSE words[i - 1])]]

Encode(signed) ==
  /\ form = IF signed THEN "ints" ELSE "words"
  /\ form' = "data"
  /\ value' = encode_fingerprint(to_unsigned(value.hashes), value.version)
  /\ UNCHANGED <<original, spoilt>>

\* What may come back of it: the bytes of the last word are cut off, the header
\* is cut or another file's.
Damage ==
  /\ form = "data" /\ ~ spoilt
  /\ \/ Len(value.diffs) > 0
        /\ \E n \in 0 .. 3 : value' = [value EXCEPT !.diffs = Front(@), !.tail = n]
     \/ value' = [value EXCEPT !.head = SubSeq(@, 1, 3), !.diffs = <<>>]
     \/ \E i \in 1 .. 3 : value' = [value EXCEPT !.head[i] = "other"]
  /\ spoilt' = TRUE
  /\ UNCHANGED <<original, form>>

\* (len(inp) - 4) // 4 words; bytes behind the last whole one are not looked at.
NumHashes(data) == (Len(data.head) + 4 * Len(data.diffs) + data.tail - 4) \div 4

decode_fingerprint_impl(data) ==
  IF NumHashes(data) < 0 \/ SubSeq(data.head, 1, 3) # <<"F", "p", "1">> THEN Error
  ELSE [version |-> data.head[4],
        hashes |-> FoldLeft(LAMBDA out, d : Append(out, d ^^ (IF out = <<>> THEN 0 ELSE Last(out))),
                            <<>>, SubSeq(data.diffs, 1, NumHashes(data)))]

Decode(signed) ==
  LET fp == decode_fingerprint_impl(value) IN
  /\ form = "data"
  /\ form' = IF fp = Error THEN "refused" ELSE IF signed THEN "ints" ELSE "words"
  /\ value' = IF fp = Error \/ ~ signed THEN fp ELSE [fp EXCEPT !.hashes = to_signed(@)]
  /\ UNCHANGED <<original, spoilt>>

-----------------------------------------------------------------------------
(* Terms of a query and windows *)

\* Keep the most significant bits.
Masked(w) == w - (w % 2^(Width - QueryBits))

IsClean(w) == w # Silence

\* The query begins at start, however short the fingerprint is.
extract_query_unclamped(words, size, start) ==
  LET Take(query, w) ==
        IF Len(query.terms) >= size \/ ~ IsClean(w) \/ Masked(w) \in Range(query.terms) THEN query
        ELSE [terms |-> Append(query.terms, Masked(w)),
              overflow |-> query.overflow \/ Masked(w) >= 2^(Width - 1)]
  IN FoldLeft(Take, [terms |-> <<>>, overflow |-> FALSE], SubSeq(words, start + 1, Len(words)))

\* The terms are unsigned and the array they go into is signed: the first one
\* that has the top bit set raises OverflowError.
extract_query(words, size, start) ==
  LET clean == Len(SelectSeq(words, IsClean))
      least == IF clean - size < start THEN clean - size ELSE start
      from == IF least < 0 THEN 0 ELSE least
      Take(query, w) ==
        IF Len(query.terms) >= size \/ ~ IsClean(w) \/ Masked(w) \in Range(query.terms) THEN query
        ELSE [terms |-> Append(query.terms, Masked(w)),
              overflow |-> query.overflow \/ Masked(w) >= 2^(Width - 1)]
      none == [terms |-> <<>>, overflow |-> FALSE]
  IN IF size <= 0 \/ clean <= 0 THEN none
     ELSE FoldLeft(Take, none, SubSeq(words, from + 1, Len(words)))

\* <<first, last>> of each window of compute_shingled_simhashes
Windows(n, size, step) ==
  [i \in 1 .. (n + step - 1) \div step |->
     LET first == (i - 1) * step
         left == IF n - first > size THEN size ELSE n - first
     IN <<first + 1, first + left>>]

Query(size, start) ==
  LET query == extract_query(value.hashes, size, start) IN
  /\ form = "words"
  /\ form' = IF query.overflow THEN "refused" ELSE "query"
  /\ value' = [size |-> size, terms |-> query.terms]
  /\ UNCHANGED <<original, spoilt>>

Shingle(size, step) ==
  /\ form = "words"
  /\ form' = "windows"
  /\ value' = [size |-> size, step |-> step,
               windows |-> Windows(Len(value.hashes), size, step)]
  /\ UNCHANGED <<original, spoilt>>

FingerprintsNext ==
  \/ \E res \in {0, 1}, signed \in BOOLEAN : Receive(res, signed)
  \/ Accept \/ Store \/ Parse \/ Damage
  \/ \E signed \in BOOLEAN : Encode(signed) \/ Decode(signed)
  \/ \E size \in Sizes, start \in Starts : Query(size, start)
  \/ \E size \in Sizes \ {0}, step \in Starts \ {0} : Shingle(size, step)

FingerprintsSpec == FingerprintsInit /\ [][FingerprintsNext]_fvars

-----------------------------------------------------------------------------
(* Properties *)

(* Whatever forms a fingerprint passes through, with signs and without, it is
   still the client's: word for word when nothing was damaged, and the start
   of it when the file it was read from had been cut. *)
FingerprintKept ==
  form \in {"ints", "words", "row"} =>
    LET words == to_unsigned(value.hashes) IN
    IF spoilt THEN IsPrefix(words, original.hashes)
    ELSE words = original.hashes /\ value.version = original.version

\* No more terms than asked for, none twice, only those of the fingerprint's own
\* hashes.
QueryOfHashes(terms, size, clean) ==
  /\ Len(terms) <= size /\ IsInjective(terms)
  /\ Range(terms) \subseteq {Masked(w) : w \in clean}

(* A query is made of the fingerprint's own hashes, and it has terms as soon as
   one hash is not silent: the start, which is counted in clean hashes, never
   skips them all.  The windows that are hashed stay within the fingerprint,
   none is empty, and together they cover it if the step is no longer than a
   window. *)
DerivedSound ==
  LET n == Len(original.hashes)
      clean == {w \in Range(original.hashes) : IsClean(w)}
  IN /\ form = "query" =>
          /\ QueryOfHashes(value.terms, value.size, clean)
          /\ value.size > 0 /\ clean # {} /\ ~ spoilt => value.terms # <<>>
     /\ form = "windows" =>
          /\ \A w \in Range(value.windows) : w[1] \in 1 .. w[2] /\ w[2] <= n
          /\ value.step <= value.size /\ ~ spoilt =>
               1 .. n \subseteq UNION {w[1] .. w[2] : w \in Range(value.windows)}
=============================================================================
