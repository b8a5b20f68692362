------------------------------ MODULE WebText ------------------------------
(* How the web worker (web/sqflite_sw.js) writes texts into the memory of  *)
(* SQLite and reads them from it: the UTF-8 encoder (A.iE, A.jL) and       *)
(* decoder (A.dX) of the Dart runtime.  A text is a sequence of UTF-16     *)
(* units.  Longer texts are decoded in pieces; those of which the browser  *)
(* decodes the whole are not told apart here.                              *)
EXTENDS Integers, Sequences, FiniteSetsExt

CONSTANT Texts   \* what is written and read

ASSUME TextsAssumption ==
    \A t \in Texts :
        /\ t.units \subseteq 0 .. 65535 /\ t.long \in Nat  \* of units, texts of so many at most
        /\ t.bytes \subseteq 0 .. 255 /\ t.size \in Nat    \* of bytes, so many at most
        /\ t.piece \in Nat \ {0}       \* bytes that are decoded at once (1000)

VARIABLES
    texts,     \* the one of Texts that is checked
    line       \* a text or some bytes, and what was made of them

-----------------------------------------------------------------------------
(* The encoder.                                                            *)

Leading(u) == u \in 55296 .. 56319
Trailing(u) == u \in 56320 .. 57343

Replacement == 65533

\* eU
Pair(a, b) == 65536 + (a % 1024) * 1024 + (b % 1024)

Tail6(n, i) == 128 + ((n \div 64 ^ i) % 64)

\* eu, c3: half of a pair alone is replaced.
Octets(n) ==
    CASE n <= 127 -> <<n>>
      [] n \in 128 .. 2047 -> <<192 + n \div 64, Tail6(n, 0)>>
      [] n \in 2048 .. 65535 ->
           LET u == IF Leading(n) \/ Trailing(n) THEN Replacement ELSE n
           IN <<224 + u \div 4096, Tail6(u, 1), Tail6(u, 0)>>
      [] n > 65535 -> <<240 + n \div 262144, Tail6(n, 2), Tail6(n, 1), Tail6(n, 0)>>

RECURSIVE Encoded(_)
\* eu: a leading one looks for its other half.
Encoded(s) ==
    IF s = <<>> THEN <<>>
    ELSE IF Len(s) > 1 /\ Leading(s[1]) /\ Trailing(s[2])
         THEN Octets(Pair(s[1], s[2])) \o Encoded(SubSeq(s, 3, Len(s)))
         ELSE Octets(s[1]) \o Encoded(Tail(s))

-----------------------------------------------------------------------------
(* The decoder: its state says what may come next.                         *)

Extension == 128 .. 191

\* Mutant of First: lead bytes that need no more than a shorter form are taken.
First_Overlong(state, b) ==
    CASE b \in 0 .. 127 -> "accept"
      [] b \in 192 .. 223 -> "one"
      [] b \in 224 .. 239 -> IF state = "begin" /\ b = 239 THEN "mark" ELSE "two"
      [] b \in 240 .. 244 -> "three"
      [] OTHER -> "bad"

\* The first byte of a character; a mark may only come first.
First(state, b) ==
    CASE b \in 0 .. 127 -> "accept"
      [] b \in 194 .. 223 -> "one"
      [] b = 224 -> "long"
      [] b = 237 -> "pair"
      [] b = 239 /\ state = "begin" -> "mark"
      [] b \in 225 .. 239 \ {237} /\ ~(b = 239 /\ state = "begin") -> "two"
      [] b = 240 -> "longer"
      [] b \in 241 .. 243 -> "three"
      [] b = 244 -> "top"
      [] OTHER -> "bad"

\* The bytes after it: overlong forms, surrogates and what is out of range are
\* seen at the second one.
Further(state, b) ==
    CASE b \notin Extension -> "bad"
      [] b \in Extension /\ state = "one" -> "accept"
      [] b \in Extension /\ state = "two" -> "one"
      [] b \in Extension /\ state = "three" -> "two"
      [] b \in Extension /\ state = "long" -> IF b >= 160 THEN "one" ELSE "bad"
      [] b \in Extension /\ state = "pair" -> IF b <= 159 THEN "one" ELSE "bad"
      [] b \in Extension /\ state = "longer" -> IF b >= 144 THEN "two" ELSE "bad"
      [] b \in Extension /\ state = "top" -> IF b <= 143 THEN "two" ELSE "bad"
      [] b \in Extension /\ state = "mark" -> IF b = 187 THEN "marked" ELSE "one"
      [] b \in Extension /\ state = "marked" -> IF b = 191 THEN "begun" ELSE "accept"

Between == {"begin", "begun", "accept"}     \* characters

\* The bits of a first byte that count.
Lead(b) == IF b < 128 THEN b ELSE IF b < 224 THEN b % 32 ELSE IF b < 240 THEN b % 16 ELSE b % 8

\* bi
Units(n) == IF n < 65536 THEN <<n>>
            ELSE <<55296 + (n - 65536) \div 1024, 56320 + ((n - 65536) % 1024)>>

\* f_: a byte.  After one that is wrong nothing is read.
Read(d, b) ==
    LET state == IF d.state \in Between THEN First(d.state, b) ELSE Further(d.state, b)
        code == IF d.state \in Between THEN Lead(b) ELSE d.code * 64 + (b % 64)
    IN IF d.state = "bad" THEN d
       ELSE [state |-> state, code |-> code,
             out |-> IF state = "accept" THEN d.out \o Units(code) ELSE d.out]

ReadAll(d, a) ==
    LET after[i \in 0 .. Len(a)] == IF i = 0 THEN d ELSE Read(after[i - 1], a[i])
    IN after[Len(a)]

\* The last piece must not end inside a character.
Finished(d, last) == IF last /\ d.state \notin Between THEN [d EXCEPT !.state = "bad"] ELSE d

RECURSIVE Pieces(_, _, _)
\* bP
Pieces(d, a, last) ==
    LET half == Len(a) \div 2
        left == Pieces(d, SubSeq(a, 1, half), FALSE)
    IN IF Len(a) <= texts.piece THEN Finished(ReadAll(d, a), last)
       ELSE IF left.state = "bad" THEN left
       ELSE Pieces(left, SubSeq(a, half + 1, Len(a)), last)

\* bO: an error otherwise (A.a7).
Decodable(a) == Pieces([state |-> "begin", code |-> 0, out |-> <<>>], a, TRUE).state # "bad"
Decoded(a) == Pieces([state |-> "begin", code |-> 0, out |-> <<>>], a, TRUE).out

-----------------------------------------------------------------------------
Blank == [at |-> "none", units |-> <<>>, bytes |-> <<>>, got |-> <<>>]

\* A text is made unit by unit, and written.
Type ==
    /\ line.at \in {"none", "text"} /\ Len(line.units) < texts.long
    /\ \E u \in texts.units : line' = [line EXCEPT !.at = "text", !.units = Append(@, u)]

WriteText ==
    /\ line.at = "text"
    /\ line' = [line EXCEPT !.at = "written", !.bytes = Encoded(line.units)]

ReadText ==
    /\ line.at = "written" /\ Decodable(line.bytes)
    /\ line' = [line EXCEPT !.at = "read", !.got = Decoded(line.bytes)]

\* Any bytes may be in the memory.
Receive ==
    /\ line.at \in {"none", "bytes"} /\ Len(line.bytes) < texts.size
    /\ \E b \in texts.bytes : line' = [line EXCEPT !.at = "bytes", !.bytes = Append(@, b)]

TextInit == texts \in Texts /\ line = Blank
TextNext == (Type \/ WriteText \/ ReadText \/ Receive) /\ UNCHANGED texts
TextSpec == TextInit /\ [][TextNext]_<<texts, line>>

-----------------------------------------------------------------------------
(* Properties.                                                             *)

Mark == 65279       \* the byte order mark

\* What may be lost: halves of pairs alone, and a mark at the head.
Unpaired(s, i) ==
    \/ Leading(s[i]) /\ ~(i < Len(s) /\ Trailing(s[i + 1]))
    \/ Trailing(s[i]) /\ ~(i > 1 /\ Leading(s[i - 1]))
Legible(s) == [i \in DOMAIN s |-> IF Unpaired(s, i) THEN Replacement ELSE s[i]]
Unmarked(s) == IF s # <<>> /\ s[1] = Mark THEN Tail(s) ELSE s

\* Every text that is written can be read, and nothing else is lost of it,
\* wherever it was cut into pieces (eu, f_, bP).
TextBack ==
    /\ line.at = "written" => Decodable(line.bytes)
    /\ line.at = "read" => line.got = Unmarked(Legible(line.units))

\* The UTF-8 form of one character, told by the number that it makes.
Form(a) ==
    LET n == Len(a)
        number[i \in 1 .. n] == IF i = 1 THEN Lead(a[1]) ELSE number[i - 1] * 64 + (a[i] % 64)
    IN /\ a[1] \in (CASE n = 1 -> 0 .. 127 [] n = 2 -> 192 .. 223 [] n = 3 -> 224 .. 239 [] n = 4 -> 240 .. 247)
       /\ \A i \in 2 .. n : a[i] \in Extension
       /\ number[n] \in (CASE n = 1 -> 0 .. 127 [] n = 2 -> 128 .. 2047 [] n = 3 -> 2048 .. 65535
                            [] n = 4 -> 65536 .. 1114111)
       /\ number[n] \notin 55296 .. 57343

RECURSIVE WellFormed(_)
WellFormed(a) ==
    \/ a = <<>>
    \/ \E n \in 1 .. 4 : n <= Len(a) /\ Form(SubSeq(a, 1, n)) /\ WellFormed(SubSeq(a, n + 1, Len(a)))

\* The decoder takes exactly the bytes that are UTF-8, the shortest form of each
\* character, and no others (f_): what it has read is written as it was.
Accepts ==
    line.at = "bytes" =>
        /\ Decodable(line.bytes) <=> WellFormed(line.bytes)
        /\ Decodable(line.bytes) =>
             Encoded(Decoded(line.bytes)) =
                 IF Len(line.bytes) >= 3 /\ SubSeq(line.bytes, 1, 3) = Octets(Mark)
                 THEN SubSeq(line.bytes, 4, Len(line.bytes)) ELSE line.bytes

\* Both directions.
Utf8 == TextBack /\ Accepts
=============================================================================
