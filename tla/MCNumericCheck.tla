--------------------------- MODULE MCNumericCheck ---------------------------
(***************************************************************************)
(* The model-checked instance of NumericCheck.  Two positions, one dropped *)
(* date and one missing asset are listed at most; portfolios of two to     *)
(* four assets are one to three positions and lists longer and shorter     *)
(* than that.  Amounts are up to one unit of currency, in fractions of a   *)
(* cent that round up and down; a notional of zero and ties occur.  Two of *)
(* the five identifiers are numbers.  A metadata figure may be a fraction  *)
(* where a count is expected, of ten thousand and more, or negative.       *)
(***************************************************************************)
EXTENDS NumericCheck

Plain ==
  [ assets |-> << 3 >>, notionals |-> << >>, weights |-> << >>,
    portfolio_value |-> 80400, value |-> 4100, confidence |-> 95000, horizon |-> 5,
    observations |-> 3, as_of |-> 9, dropped |-> << >>, missing |-> << >>,
    dates |-> {}, scalars |-> {} ]

Scalar(key, value) == [key |-> key, value |-> value, integral |-> FALSE]
Whole(key, n)      == [key |-> key, value |-> n * One, integral |-> TRUE]

Singles ==
  { [Plain EXCEPT !.dates = d, !.scalars = s, !.confidence = c] :
      d \in {{}, {7}}, c \in {95000, 99000},
      s \in { {}, {Scalar("mu", 40), Scalar("sigma", 1200)},
              {Scalar("mu", -8)}, {Whole("n_simulations", 20)} } }

Book(k) == [i \in 1 .. k |-> ((7 * i) % 5) + 1]

Amounts == {0, 400, 33300}

Held ==
  [1 .. 2 -> Amounts] \cup [1 .. 3 -> Amounts] \cup { s \in [1 .. 4 -> Amounts] : s[2] = s[3] }

Kept == { s \in Held : Sum(s) > 0 /\ Sum(s) <= One }

Mixed == << 400, 33300, 25500 >>

Sound(s) ==
  [Plain EXCEPT !.assets = Book(Len(s)), !.notionals = s, !.weights = s,
                !.portfolio_value = Sum(s)]

\* One figure edited, or lists that do not fit the assets.
Edited(r) ==
  { [r EXCEPT !.portfolio_value = @ + 1],
    [r EXCEPT !.notionals[1] = @ + 1000],
    [r EXCEPT !.weights[1] = @ + 1000],
    [r EXCEPT !.assets[1] = r.assets[2]],
    [r EXCEPT !.weights = << >>] }

Drops ==
  { << << >>, << >> >>, << <<8>>, << <<2>> >> >>, << <<8>>, << <<2, 3>> >> >>,
    << <<7, 8, 6>>, << <<1, 2, 4>>, << >>, <<3>> >> >> }

Figures ==
  { {}, {Scalar("covariance_condition_number", 12345), Scalar("observations_per_asset", 75050)},
    {Whole("n_simulations", 20), Scalar("tail_size", One \div 2), Scalar("mu", -8)},
    {Scalar("covariance_condition_number", 10345 * One + 678), Whole("tail_size", 1)},
    {Scalar("covariance_condition_number", -12345)} }

Portfolios ==
  { Sound(s) : s \in Kept }
  \cup { [Sound(Mixed) EXCEPT !.dropped = d[1], !.missing = d[2]] : d \in Drops }
  \cup { [Sound(Mixed) EXCEPT !.scalars = f, !.confidence = c] :
           f \in Figures, c \in {95000, 99500, 97555} }

MCResults ==
  Singles \cup Portfolios \cup UNION { Edited(Sound(s)) : s \in { t \in Kept : Len(t) < 4 } }

MCInvented ==
  [ value : {3 * One, 5 * One, 20 * One, 95 * One, 4100, 9 * One},
    marks : {{}, {"%"}, {"money"}, {"day"}, {"day", "money"}} ]

=============================================================================
