----------------------------- MODULE WebValues -----------------------------
(* The way of a value through the web worker (web/sqflite_sw.js): it is    *)
(* put into a message for the worker (external: by the same code, in the   *)
(* app), taken out of it, bound to a statement, read from a column, and    *)
(* put into the answer.  What a message cannot hold is wrapped in a map    *)
(* with a tag (A.l7, A.l6).                                                *)
(*                                                                         *)
(* Numbers are JavaScript's, of a few bits instead of 53, and SQLite's     *)
(* integers, of a few bits instead of 64.  The column takes values as they *)
(* come.                                                                   *)
EXTENDS DartBigInt, WebText, TLC

CONSTANT Ways   \* which values are sent, on which way

ASSUME WaysAssumption ==
    \A x \in Ways :
        /\ x.safe \in Nat \ {0} /\ x.long \in Nat /\ x.safe < x.long   \* bits of numbers (53, 64)
        /\ x.way \in {"column", "message"}    \* to the database and back, or only in a message
        /\ \A v \in x.values : "is" \in DOMAIN v

VARIABLES
    ways,      \* the one of Ways that is checked
    trip       \* the value sent, how far it has come, and as what

-----------------------------------------------------------------------------
(* Values.                                                                 *)

Nil == [is |-> "null"]
Num(n) == [is |-> "num", n |-> n, half |-> FALSE]     \* half: and one half
Half(n) == [is |-> "num", n |-> n, half |-> TRUE]
Big(x) == [is |-> "big", big |-> x]
Text(t) == [is |-> "text", text |-> t]                \* of units, or of the digits of a number
Dict(m) == [is |-> "map", map |-> m]
List(l) == [is |-> "list", list |-> l]

\* The nearest JavaScript number.
Rounded(n) ==
    LET size == Size(n)
        u == CHOOSE u \in {2 ^ k : k \in 0 .. ways.long} :
                 size < u * 2 ^ ways.safe /\ (u = 1 \/ size >= (u \div 2) * 2 ^ ways.safe)
        up == size % u > u \div 2 \/ (u > 1 /\ size % u = u \div 2 /\ (size \div u) % 2 = 1)
    IN Sign(n) * u * (size \div u + IF up THEN 1 ELSE 0)

Safe(n) == Size(n) <= 2 ^ ways.safe - 1
MostLong == 2 ^ (ways.long - 1) - 1
Long(n) == n \in -MostLong - 1 .. MostLong

\* How WebAssembly takes a number that is too large.
Wrapped(n) == ((n + MostLong + 1) % 2 ^ ways.long) - MostLong - 1

-----------------------------------------------------------------------------
(* Messages.                                                               *)

Tags == {"@", "@BigInt", "@Other"}      \* keys that start with @

\* Mutant of OnlyTag: only what l7 makes of a number is seen.
OnlyTag_Number(m) == DOMAIN m = {"@BigInt"}

\* nb
OnlyTag(m) == \E k \in Tags : DOMAIN m = {k}

RECURSIVE Tagged(_)
\* l7: a map that looks like a tag is put into one, as it is.
Tagged(v) ==
    CASE v.is = "big" -> Dict("@BigInt" :> Text(Printed(v.big)))
      [] v.is = "map" ->
           IF OnlyTag(v.map) THEN Dict("@" :> v)
           ELSE Dict([k \in DOMAIN v.map |-> Tagged(v.map[k])])
      [] v.is = "list" -> List([i \in DOMAIN v.list |-> Tagged(v.list[i])])
      [] OTHER -> v

\* aP.aL
Numeric(v) == v.is = "text" /\ "digits" \in DOMAIN v.text

RECURSIVE Untagged(_)
\* l6: a tag that is not known, or what it cannot be made of, is left as it is.
Untagged(v) ==
    CASE v.is = "map" ->
           IF DOMAIN v.map = {"@"} THEN v.map["@"]
           ELSE IF DOMAIN v.map = {"@BigInt"} /\ Numeric(v.map["@BigInt"])
                THEN Big(Parsed(v.map["@BigInt"].text))
           ELSE Dict([k \in DOMAIN v.map |-> Untagged(v.map[k])])
      [] v.is = "list" -> List([i \in DOMAIN v.list |-> Untagged(v.list[i])])
      [] OTHER -> v

RECURSIVE Sendable(_), ToJs(_), FromJs(_)
\* eW: otherwise "Unsupported value".
Sendable(v) ==
    /\ v.is # "big"
    /\ v.is = "map" => \A k \in DOMAIN v.map : Sendable(v.map[k])
    /\ v.is = "list" => \A i \in DOMAIN v.list : Sendable(v.list[i])

\* eW, it: JavaScript's objects and arrays.
ToJs(v) ==
    CASE v.is = "map" -> [is |-> "object", fields |-> [k \in DOMAIN v.map |-> ToJs(v.map[k])]]
      [] v.is = "list" -> [is |-> "Array", items |-> [i \in DOMAIN v.list |-> ToJs(v.list[i])]]
      [] OTHER -> v

\* kO
FromJs(j) ==
    CASE j.is = "object" -> Dict([k \in DOMAIN j.fields |-> FromJs(j.fields[k])])
      [] j.is = "Array" -> List([i \in DOMAIN j.items |-> FromJs(j.items[i])])
      [] OTHER -> j

-----------------------------------------------------------------------------
Came(at, what) == trip' = [trip EXCEPT !.at = at, !.now = what]
Refuse(why) == Came("refused", [is |-> why])

Send ==     \* external
    /\ trip.at = "app"
    /\ IF Sendable(Tagged(trip.now)) THEN Came("message", ToJs(Tagged(trip.now)))
       ELSE Refuse("not sendable")

Received == Untagged(FromJs(trip.now))
Argument == Received.map["arguments"].list[1]

\* eT
SqlValue(v) == v.is \in {"null", "num", "inf", "nan", "text", "bytes", "big"}

Take ==
    /\ trip.at = "message"
    /\ IF trip.way = "message" THEN Came("taken", Received)
       ELSE IF SqlValue(Argument) THEN Came("argument", Argument)
       ELSE Refuse("not an SQL value")

\* fN
Integral(v) == v.is = "num" /\ ~v.half

\* nC, nB
InRange(x) == Compare(x, FromInt(-MostLong - 1)) >= 0 /\ Compare(x, FromInt(MostLong)) <= 0

Cell(type, x) == [is |-> type, of |-> x]

\* ec, ed: binds the value, and the row is stored.  JavaScript's BigInt takes no
\* infinity; SQLite stores nothing for what is not a number (external).
Bind ==
    /\ trip.at = "argument"
    /\ LET v == trip.now
       IN CASE v.is \in {"null", "nan"} -> Came("row", Cell("NULL", 0))
            [] Integral(v) -> Came("row", Cell("INTEGER", Wrapped(v.n)))
            [] v.is = "inf" -> Refuse("RangeError")
            [] v.is = "big" ->
                 IF InRange(v.big) THEN Came("row", Cell("INTEGER", Wrapped(IntOf(v.big))))
                 ELSE Refuse("exceeds the range of 64 bits")
            [] v.is = "num" /\ ~Integral(v) -> Came("row", Cell("REAL", v))
            [] v.is = "text" -> Came("row", Cell("TEXT", Encoded(v.text.units)))
            [] v.is = "bytes" -> Came("row", Cell("BLOB", v))

\* kT: up to the first byte that is 0.
CString(a) ==
    LET ends == {i \in DOMAIN a : a[i] = 0} \cup {Len(a) + 1} IN SubSeq(a, 1, Min(ends) - 1)

\* A number that JavaScript holds exactly, with all below it, or a BigInt, by its text.
Exactly(n) ==
    IF Safe(Rounded(n)) THEN Num(Rounded(n)) ELSE Big(Parsed(Printed(FromInt(n))))

\* d_, bS
Column ==
    /\ trip.at = "row"
    /\ LET c == trip.now
       IN Came("taken",
               CASE c.is = "NULL" -> Nil
                 [] c.is = "INTEGER" -> Exactly(c.of)
                 [] c.is \in {"REAL", "BLOB"} -> c.of
                 [] c.is = "TEXT" -> Text([units |-> Decoded(CString(c.of))]))

Answered ==
    /\ trip.at = "taken" /\ Sendable(Tagged(trip.now))
    /\ Came("answer", ToJs(Tagged(trip.now)))

Deliver ==   \* external
    /\ trip.at = "answer"
    /\ Came("back", Received)

TripInit ==
    /\ ways \in Ways
    /\ \E v \in ways.values :
         trip = [at |-> "app", way |-> ways.way, v |-> v,
                 now |-> IF ways.way = "message" THEN v ELSE Dict("arguments" :> List(<<v>>))]

TripNext == (Send \/ Take \/ Bind \/ Column \/ Answered \/ Deliver) /\ UNCHANGED ways
TripSpec == TripInit /\ [][TripNext]_<<ways, trip>>

-----------------------------------------------------------------------------
(* Properties.                                                             *)

Integer(v) == IF v.is = "big" THEN IntOf(v.big) ELSE v.n
Whole(v) == v.is = "big" \/ Integral(v)

\* What does not come back as it was: numbers beyond 64 bits, what is not a
\* number, and some characters (TextBack of WebText, and what follows a 0).
Lost(v) ==
    \/ Integral(v) /\ ~Long(v.n)
    \/ v.is = "nan"
    \/ v.is = "text" /\ (v.text.units # Unmarked(Legible(v.text.units)) \/ 0 \in {v.text.units[i] : i \in DOMAIN v.text.units})

\* What the app reads from a column is what it has written there: a number is
\* the same number, even if it went as a text and came as one (ed, d_, l7, l6).
ReadBack ==
    trip.way = "column" /\ trip.at = "back" /\ ~Lost(trip.v) =>
        IF Whole(trip.v) THEN Whole(trip.now) /\ Integer(trip.now) = Integer(trip.v)
        ELSE trip.now = trip.v

\* Nothing is refused but what SQLite cannot take, and that always is (eT, ed).
Refused ==
    trip.way = "column" =>
        /\ trip.at = "refused" =>
             ~SqlValue(trip.v) \/ trip.v.is = "inf" \/ (trip.v.is = "big" /\ ~Long(IntOf(trip.v.big)))
        /\ trip.at \in {"row", "back"} => SqlValue(trip.v) /\ (trip.v.is = "big" => Long(IntOf(trip.v.big)))

RECURSIVE Hidden(_)
\* A BigInt is in a map that looks like a wrapped value.
Hidden(v) ==
    CASE v.is = "map" -> IF OnlyTag(v.map) THEN ~Sendable(v) ELSE \E k \in DOMAIN v.map : Hidden(v.map[k])
      [] v.is = "list" -> \E i \in DOMAIN v.list : Hidden(v.list[i])
      [] OTHER -> FALSE

\* Any message comes back as it was, also one that looks like a wrapped value;
\* it is refused only if a map that looks so has a BigInt inside (l7, l6, eW).
RoundTrip ==
    trip.way = "message" =>
        /\ trip.at \in {"taken", "back"} => trip.now = trip.v
        /\ trip.at = "refused" => Hidden(trip.v)

\* A value that leaves comes back as it was or is refused for a reason.
Conversions == ReadBack /\ Refused /\ RoundTrip
=============================================================================
