------------------------------ MODULE DartBigInt ------------------------------
(* The integers of the web worker (web/sqflite_sw.js) that are too large   *)
(* for a JavaScript number: the BigInt of the Dart runtime (A.U), with     *)
(* which 64-bit columns of SQLite are read, sent as text and bound again.  *)
(* A magnitude is a sequence of digits of some bits (16 in the program),   *)
(* the least significant first; texts are made of groups of digits (4      *)
(* decimal ones in the program).                                           *)
(*                                                                         *)
(* One call at a time; what calls have in common is the division that was  *)
(* made last, which is kept in case the other half of its result is asked  *)
(* for.  An index that leaves an array is an error in the program; here a  *)
(* digit that has no place is lost, so that the result is wrong.           *)
EXTENDS Integers, Sequences, FiniteSetsExt

CONSTANT Arithmetic   \* what is calculated, and with which digits

ASSUME ArithmeticAssumption ==
    \A k \in Arithmetic :
        /\ k.bits \in Nat \ {0} /\ k.radix \in Nat \ {0, 1} /\ k.group \in Nat \ {0}
        /\ "text" \in k.ops => k.radix ^ k.group < 2 ^ k.bits  \* a group fits in a digit
        /\ k.xs \subseteq Int /\ k.ys \subseteq Int            \* operands
        /\ k.again \subseteq Int       \* operands of two calls, one after the other

VARIABLES
    arith,     \* the one of Arithmetic that is checked
    sum,       \* the calculation asked for
    result,    \* what it gave
    division,  \* the division made last ($.mm to $.mp, and its result $.kU to $.kW)
    calls      \* how many there were

num_vars == <<sum, result, division, calls>>

-----------------------------------------------------------------------------
bits == arith.bits
Base == 2 ^ bits

Digit(a, i) == IF i \in DOMAIN a THEN a[i] ELSE 0

\* as: without leading zeros.
Trimmed(a) == SubSeq(a, 1, Max({0} \cup {i \in DOMAIN a : a[i] # 0}))

\* A.U: zero has no digits and no sign.
BigInt(neg, a) == LET m == Trimmed(a) IN [neg |-> neg /\ m # <<>>, mag |-> m]

Zero == BigInt(FALSE, <<>>)
Negated(x) == BigInt(~x.neg, x.mag)

\* iU
FromInt(n) ==
    LET size == IF n < 0 THEN -n ELSE n
        length == CHOOSE l \in 0 .. size : Base ^ l > size /\ (l = 0 \/ Base ^ (l - 1) <= size)
    IN BigInt(n < 0, [i \in 1 .. length |-> (size \div Base ^ (i - 1)) % Base])

\* iV: which magnitude is the larger one.
CompareDigits(a, b) ==
    LET differ == {i \in DOMAIN a : a[i] # b[i]}
    IN IF Len(a) # Len(b) THEN Len(a) - Len(b)
       ELSE IF differ = {} THEN 0 ELSE a[Max(differ)] - b[Max(differ)]

\* V
Compare(x, y) ==
    IF x.neg # y.neg THEN IF x.neg THEN -1 ELSE 1
    ELSE IF x.neg THEN -CompareDigits(x.mag, y.mag) ELSE CompareDigits(x.mag, y.mag)

\* pz: b is not the longer one.
AddDigits(a, b) ==
    LET carry[i \in 0 .. Len(a)] ==
            IF i = 0 THEN 0 ELSE (a[i] + Digit(b, i) + carry[i - 1]) \div Base
    IN [i \in 1 .. Len(a) + 1 |-> (Digit(a, i) + Digit(b, i) + carry[i - 1]) % Base]

\* fj: b is not the larger one.
SubtractDigits(a, b) ==
    LET borrow[i \in 0 .. Len(a)] ==
            IF i > 0 /\ a[i] - Digit(b, i) - borrow[i - 1] < 0 THEN 1 ELSE 0
    IN [i \in DOMAIN a |-> (a[i] - Digit(b, i) - borrow[i - 1]) % Base]

\* mr: digit x times b, added to d from its digit k + 1 on.
AddProduct(x, b, d, k) ==
    LET carry[i \in 0 .. Len(d)] ==
            IF i <= k THEN 0 ELSE (x * Digit(b, i - k) + d[i] + carry[i - 1]) \div Base
    IN IF x = 0 THEN d
       ELSE [i \in DOMAIN d |->
                IF i <= k THEN d[i] ELSE (x * Digit(b, i - k) + d[i] + carry[i - 1]) % Base]

\* bG and aW: of magnitudes, with a given sign.
AddSigned(x, y, neg) ==
    IF Len(x.mag) < Len(y.mag) THEN BigInt(neg, AddDigits(y.mag, x.mag))
    ELSE BigInt(neg, AddDigits(x.mag, y.mag))
SubtractSigned(x, y, neg) == BigInt(neg, SubtractDigits(x.mag, y.mag))

\* cu and aV
Plus(x, y) ==
    IF x.mag = <<>> THEN y ELSE IF y.mag = <<>> THEN x
    ELSE IF x.neg = y.neg THEN AddSigned(x, y, x.neg)
    ELSE IF CompareDigits(x.mag, y.mag) >= 0 THEN SubtractSigned(x, y, x.neg)
    ELSE SubtractSigned(y, x, ~x.neg)
Minus(x, y) ==
    IF x.mag = <<>> THEN Negated(y) ELSE IF y.mag = <<>> THEN x
    ELSE IF x.neg # y.neg THEN AddSigned(x, y, x.neg)
    ELSE IF CompareDigits(x.mag, y.mag) >= 0 THEN SubtractSigned(x, y, x.neg)
    ELSE SubtractSigned(y, x, ~x.neg)

\* aT
Times(x, y) ==
    LET room == [i \in 1 .. Len(x.mag) + Len(y.mag) |-> 0]
        product[n \in 0 .. Len(y.mag)] ==
            IF n = 0 THEN room ELSE AddProduct(y.mag[n], x.mag, product[n - 1], n - 1)
    IN IF x.mag = <<>> \/ y.mag = <<>> THEN Zero
       ELSE BigInt(x.neg # y.neg, product[Len(y.mag)])

-----------------------------------------------------------------------------
(* Shifts.                                                                 *)

\* kY, mq and ml: by whole digits, and by the rest.
ShiftedLeft(a, n) ==
    LET l == n \div bits
        k == n % bits
    IN IF k = 0 THEN [i \in 1 .. Len(a) + l |-> Digit(a, i - l)]
       ELSE [i \in 1 .. Len(a) + l + 1 |->
                (Digit(a, i - l) % 2 ^ (bits - k)) * 2 ^ k + Digit(a, i - l - 1) \div 2 ^ (bits - k)]

\* pD
ShiftedRight(a, n) ==
    LET r == n \div bits
        q == n % bits
    IN [i \in 1 .. Len(a) - r |-> a[i + r] \div 2 ^ q + (Digit(a, i + r + 1) % 2 ^ q) * 2 ^ (bits - q)]

\* a6 and em
ShiftLeft(x, n) == IF x.mag = <<>> THEN x ELSE BigInt(x.neg, ShiftedLeft(x.mag, n))

\* aG and en: towards minus infinity.
ShiftRight(x, n) ==
    LET r == n \div bits
        shifted == BigInt(x.neg, ShiftedRight(x.mag, n))
        dropped == \/ \E i \in 1 .. r : x.mag[i] # 0
                   \/ x.mag[r + 1] % 2 ^ (n % bits) # 0
    IN IF x.mag = <<>> THEN x
       ELSE IF Len(x.mag) <= r THEN IF x.neg THEN FromInt(-1) ELSE Zero
       ELSE IF x.neg /\ dropped THEN Minus(shifted, FromInt(1)) ELSE shifted

-----------------------------------------------------------------------------
(* Division (cN): digit by digit, each estimated from the leading digits.  *)

BitLength(n) == CHOOSE l \in 0 .. bits : 2 ^ l > n /\ (l = 0 \/ 2 ^ (l - 1) <= n)

\* pA
Estimate(k, m, e) ==
    LET q == (m[e] * Base + m[e - 1]) \div k
    IN IF m[e] = k \/ q >= Base THEN Base - 1 ELSE q

RECURSIVE Corrected(_, _, _, _)
\* The estimate d was too large: the divisor is added back (by its complement i).
Corrected(m, i, e, d) ==
    IF m[e] >= d THEN m ELSE Corrected(SubtractDigits(m, i), i, e, d - 1)

RECURSIVE DigitByDigit(_, _, _, _)
\* What is left of the dividend is in m, the digits of the quotient above it: o
\* is the divisor, f its complement, j how many digits are yet to come.
DigitByDigit(m, o, f, j) ==
    LET n == Len(o)
        e == n + j
        d == Estimate(o[n], m, e)
        i == ShiftedLeft(f, (j - 1) * bits)
    IN IF j = 0 THEN m
       ELSE DigitByDigit(Corrected(AddProduct(d, f, m, j - 1), i, e, d), o, f, j - 1)

Divided(a, b) ==
    LET p == bits - BitLength(b[Len(b)])
        o == Trimmed(ShiftedLeft(b, p))
        n == Len(o)
        c == Trimmed(ShiftedLeft(a, p))
        l == Len(c)
        i == ShiftedLeft(o, (l - n) * bits)
        first == CompareDigits(c, i) >= 0
        m == Append(c, IF first THEN 1 ELSE 0) \o <<0>>
        f == SubtractDigits([k \in 1 .. n + 1 |-> IF k = n + 1 THEN 1 ELSE 0], o)
    IN [of |-> <<a, b>>, shift |-> p, n |-> n, g |-> l + 1,
        m |-> DigitByDigit(IF first THEN SubtractDigits(m, i) ELSE m, o, SubSeq(f, 1, n), l - n)]

\* Mutant of Kept: by what that one was divided is not looked at.
Kept_Dividend(c, a, b) == c.of # <<>> /\ c.of[1] = a

\* The division made last was this one.
Kept(c, a, b) == c.of = <<a, b>>
Division(c, a, b) == IF Kept(c, a, b) THEN c ELSE Divided(a, b)

\* el and eF, of a division.
Quotient(d) == SubSeq(d.m, d.n + 1, d.g)
Remainder(d) == ShiftedRight(SubSeq(d.m, 1, d.n), d.shift)

NoDivision == [of |-> <<>>]

\* A number that has fewer digits is not divided.
Short(x, y) == Len(x.mag) < Len(y.mag)
DivisionAfter(x, y) == IF Short(x, y) THEN division ELSE Division(division, x.mag, y.mag)
Quot(x, y) ==
    IF Short(x, y) THEN Zero
    ELSE BigInt(x.neg # y.neg, Quotient(DivisionAfter(x, y)))
Rem(x, y) ==
    IF Short(x, y) THEN x
    ELSE BigInt(x.neg, Remainder(DivisionAfter(x, y)))

-----------------------------------------------------------------------------
(* Texts.                                                                  *)

RECURSIVE Numeral(_)
\* The text of a small number.
Numeral(n) == IF n < arith.radix THEN <<n>> ELSE Append(Numeral(n \div arith.radix), n % arith.radix)

Group == arith.radix ^ arith.group

\* The zeros at the head of a group that is not the first one.
Padded(t) == [i \in 1 .. arith.group |-> Digit(t, i - arith.group + Len(t))]

RECURSIVE Groups(_, _, _)
\* i: groups are split off while there is more than one digit left.
Groups(a, tail, c) ==
    LET d == Division(c, a, <<Group>>)
        r == Trimmed(Remainder(d))
    IN IF Len(a) <= 1 THEN [text |-> Numeral(Digit(a, 1)) \o tail, division |-> c]
       ELSE Groups(Trimmed(Quotient(d)), Padded(Numeral(Digit(r, 1))) \o tail, d)

Printed(x) == [minus |-> x.neg, digits |-> Groups(x.mag, <<>>, division).text]

\* pB: of the groups, the first one may be shorter.
Parsed(t) ==
    LET text == t.digits
        p == Len(text)
        small[i \in 0 .. p] ==      \* the number of the digits up to i of the group of i
            IF i = 0 THEN 0
            ELSE (IF (p - i) % arith.group = arith.group - 1 THEN 0 ELSE small[i - 1]) * arith.radix + text[i]
        read[i \in 0 .. p] ==
            IF i = 0 THEN Zero
            ELSE IF (p - i) % arith.group # 0 THEN read[i - 1]
            ELSE Plus(Times(read[i - 1], FromInt(Group)), FromInt(small[i]))
    IN IF t.minus THEN Negated(read[p]) ELSE read[p]

-----------------------------------------------------------------------------
Answer(op, x, y) ==
    CASE op = "+" -> Plus(FromInt(x), FromInt(y))
      [] op = "-" -> Minus(FromInt(x), FromInt(y))
      [] op = "*" -> Times(FromInt(x), FromInt(y))
      [] op = "quot" -> Quot(FromInt(x), FromInt(y))
      [] op = "rem" -> Rem(FromInt(x), FromInt(y))
      [] op = "<<" -> ShiftLeft(FromInt(x), y)
      [] op = ">>" -> ShiftRight(FromInt(x), y)
      [] op = "order" -> FromInt(Compare(FromInt(x), FromInt(y)))
      [] op = "text" -> Parsed(Printed(FromInt(x)))

DivisionLeft(op, x, y) ==
    CASE op \in {"quot", "rem"} -> DivisionAfter(FromInt(x), FromInt(y))
      [] op = "text" -> Groups(FromInt(x).mag, <<>>, division).division
      [] OTHER -> division

Defined(op, y) ==
    CASE op \in {"quot", "rem"} -> y # 0
      [] op \in {"<<", ">>"} -> y >= 0
      [] op = "text" -> y = 0
      [] OTHER -> TRUE

Calculate(op, x, y) ==
    /\ Defined(op, y)
    /\ sum' = [op |-> op, x |-> x, y |-> y]
    /\ result' = Answer(op, x, y)
    /\ division' = DivisionLeft(op, x, y)
    /\ calls' = calls + 1

NumInit ==
    /\ arith \in Arithmetic
    /\ sum = [op |-> "none", x |-> 0, y |-> 0]
    /\ result = Zero /\ division = NoDivision /\ calls = 0

\* Bound: one call, or two that divide.
NumNext ==
    /\ \/ /\ calls = 0
          /\ \E op \in arith.ops, x \in arith.xs, y \in arith.ys : Calculate(op, x, y)
       \/ /\ calls = 1 /\ division # NoDivision /\ {sum.x, sum.y} \subseteq arith.again
          /\ \E op \in arith.ops, x, y \in arith.again : Calculate(op, x, y)
    /\ UNCHANGED arith

NumSpec == NumInit /\ [][NumNext]_<<arith, num_vars>>

-----------------------------------------------------------------------------
(* Properties.                                                             *)

IntOf(x) ==
    LET sum_of[i \in 0 .. Len(x.mag)] ==
            IF i = 0 THEN 0 ELSE sum_of[i - 1] + x.mag[i] * Base ^ (i - 1)
    IN IF x.neg THEN -sum_of[Len(x.mag)] ELSE sum_of[Len(x.mag)]

Size(n) == IF n < 0 THEN -n ELSE n
Sign(n) == IF n < 0 THEN -1 ELSE IF n = 0 THEN 0 ELSE 1

\* What Dart says the operators give: quotients are cut off, shifts go down.
Truth(op, x, y) ==
    CASE op = "+" -> x + y
      [] op = "-" -> x - y
      [] op = "*" -> x * y
      [] op = "quot" -> Sign(x) * Sign(y) * (Size(x) \div Size(y))
      [] op = "rem" -> Sign(x) * (Size(x) % Size(y))
      [] op = "<<" -> x * 2 ^ y
      [] op = ">>" -> x \div 2 ^ y
      [] op = "text" -> x
      [] OTHER -> 0

Right ==
    IF sum.op = "order" THEN Sign(IntOf(result)) = Sign(sum.x - sum.y)
    ELSE IntOf(result) = Truth(sum.op, sum.x, sum.y)

\* There is one representation of each number: no zeros at the head, no
\* negative zero, as comparison and == take for granted (A.U, as).
NumTypeOK ==
    /\ result.neg \in BOOLEAN /\ \A i \in DOMAIN result.mag : result.mag[i] \in 0 .. Base - 1
    /\ result.mag # <<>> => result.mag[Len(result.mag)] # 0
    /\ result.neg => result.mag # <<>>
    /\ calls \in 0 .. 2

\* Every operation gives the number that it gives in mathematics, whatever the
\* estimates of the digits of a quotient were, and without leaving an array
\* (cN, pA, mr, fj), also when the other half of a division is taken from the one
\* made last, and no other one is; a number printed and parsed is itself (i, pB).
Exact == NumTypeOK /\ Right
===============================================================================
