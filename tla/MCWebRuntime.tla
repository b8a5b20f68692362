--------------------------- MODULE MCWebRuntime ---------------------------
(* Instances of the parts of the Dart runtime in the web worker for TLC:   *)
(* DartFutures; DartBigInt and WebText, and WebValues which is made of     *)
(* them.  A behaviour is one of one part: the others have nothing to do.   *)
EXTENDS DartFutures, WebValues

None == [now |-> {}, later |-> {}, plain |-> {}, locked |-> {}, section |-> <<>>,
         does |-> {}, acts |-> 0]

\* Two completers and what listens to them; an async function that awaits
\* them; three calls of the lock, whose sections await and end in any way; a
\* wait for several futures.
MCLoad ==
    {None,
     [None EXCEPT !.now = {1}, !.later = {2}, !.does = {"complete", "forward", "then", "catch"}, !.acts = 4],
     [None EXCEPT !.now = {1}, !.plain = {1}, !.does = {"complete", "forward", "always", "call", "await"}, !.acts = 4],
     [None EXCEPT !.now = {1}, !.plain = {4, 5}, !.locked = {1, 2, 3},
                  !.section = [b \in {1, 2, 3} |-> IF b = 3 THEN 0 ELSE b + 3],
                  !.does = {"complete", "lock", "await"}, !.acts = 5],
     [None EXCEPT !.now = {1}, !.later = {2}, !.does = {"complete", "wait", "then"}, !.acts = 4]}

\* Numbers: small operands of every operation; divisions whose estimates are
\* too large; texts.  Divisions are made again from one that has been kept.
Idle == [bits |-> 4, radix |-> 2, group |-> 3, ops |-> {}, xs |-> {}, ys |-> {}, again |-> {}]
MCArithmetic ==
    {Idle,
     [Idle EXCEPT !.bits = 2, !.ops = {"+", "-", "*", "quot", "rem", "<<", ">>", "order"},
                  !.xs = -40 .. 40, !.ys = -17 .. 17],
     [Idle EXCEPT !.bits = 3, !.ops = {"quot", "rem"}, !.xs = 0 .. 520,
                  !.ys = {7, 8, 9, 32, 33, 38, 39, 40, 47, 63, 64, 65, 263, 511},
                  !.again = {5, 63, 64, 65, 263}],
     [Idle EXCEPT !.bits = 5, !.group = 4, !.ops = {"text"}, !.xs = -1100 .. 1100, !.ys = {0},
                  !.again = {0, 5, 16, 31, 32, 33}]}

\* Units and bytes at the limits of their classes.
Unwritten == [units |-> {}, long |-> 0, bytes |-> {}, size |-> 0, piece |-> 2]
MCTexts ==
    {Unwritten,
     [Unwritten EXCEPT
         !.units = {65, 127, 128, 2047, 2048, 55295, 55296, 56319, 56320, 57343, 65279, 65535},
         !.long = 3],
     [Unwritten EXCEPT
         !.bytes = {65, 128, 143, 144, 159, 160, 187, 191, 193, 194, 224, 237, 239, 240, 244, 245},
         !.size = 4, !.piece = 3]}

\* Numbers of 3 bits, and 5 bits for SQLite.
Mantissas == -7 .. 7
Numbers == {m * u : m \in Mantissas, u \in {1, 2, 4, 8}}
Words == UNION {[1 .. n -> {0, 65, 55296, 56320, 65279}] : n \in 0 .. 3}
BigInts ==
    {Big([neg |-> n < 0,
          mag |-> IF n = 0 THEN <<>> ELSE IF Size(n) < 16 THEN <<Size(n)>>
                  ELSE <<Size(n) % 16, Size(n) \div 16>>]) : n \in -40 .. 40}
Scalars ==
    {Nil, [is |-> "inf"], [is |-> "nan"], [is |-> "bool", bool |-> TRUE], [is |-> "bytes", bytes |-> <<0, 1>>]}
    \cup {Num(n) : n \in Numbers} \cup {Half(n) : n \in -3 .. 3} \cup {Text([units |-> u]) : u \in Words}

\* Messages, maps and lists of which are messages: some look like wrapped values.
Atoms ==
    {Nil, Num(1), CHOOSE b \in BigInts : b.big.neg,
     Text([units |-> <<65>>]), Text([minus |-> FALSE, digits |-> <<1, 0, 1>>])}
Within(S) ==
    {Dict(k :> v) : k \in Tags \cup {"k"}, v \in S} \cup {Dict(k :> v @@ "k" :> Num(1)) : k \in Tags, v \in S}
    \cup {List(<<>>)} \cup {List(<<v>>) : v \in S} \cup {List(<<v, Nil>>) : v \in S}

Unsent == [safe |-> 3, long |-> 5, way |-> "column", values |-> {Nil}]
MCWays ==
    {[Unsent EXCEPT !.values = Scalars \cup BigInts \cup Within(Atoms)],
     [Unsent EXCEPT !.way = "message", !.values = Atoms \cup Within(Atoms) \cup Within(Within(Atoms))]}

VARIABLE part   \* "futures", "numbers", "texts" or "values"

future_vars == <<load, vars>>
number_vars == <<arith, num_vars>>
text_vars == <<texts, line>>
value_vars == <<ways, trip>>

MCInit ==
    /\ part \in {"futures", "numbers", "texts", "values"}
    /\ IF part = "futures" THEN Init /\ load # None ELSE Init /\ load = None
    /\ IF part = "numbers" THEN NumInit /\ arith # Idle ELSE NumInit /\ arith = Idle
    /\ IF part = "texts" THEN TextInit /\ texts # Unwritten ELSE TextInit /\ texts = Unwritten
    /\ IF part = "values" THEN TripInit ELSE ways = Unsent /\ trip = [at |-> "none", way |-> "none"]

MCNext ==
    /\ UNCHANGED part
    /\ \/ part = "futures" /\ Next /\ UNCHANGED <<number_vars, text_vars, value_vars>>
       \/ part = "numbers" /\ NumNext /\ UNCHANGED <<future_vars, text_vars, value_vars>>
       \/ part = "texts" /\ TextNext /\ UNCHANGED <<future_vars, number_vars, value_vars>>
       \/ part = "values" /\ TripNext /\ UNCHANGED <<future_vars, number_vars, text_vars>>

MCSpec == MCInit /\ [][MCNext]_<<part, future_vars, number_vars, text_vars, value_vars>>
=============================================================================
