---------------------------- MODULE NumericCheck ----------------------------
(***************************************************************************)
(* An explanation from the prompt to the numeric check (llm/               *)
(* prompt_templates.py, llm/numeric_check.py): the fact sheet is built for *)
(* the prompt, the model writes a text, the check builds the sheet again   *)
(* and accepts or rejects what the text says.                              *)
(*                                                                         *)
(* A text is its numbers with the marks beside them, its dates, and the    *)
(* assets it names.  How words are told from numbers is left out.          *)
(***************************************************************************)
EXTENDS FactSheet

CONSTANTS
  Results,       \* the results considered
  Lettered,      \* the assets whose identifier has a letter in it
  Invented,      \* numbers the model may write without copying them
  InventedDates  \* dates likewise

ASSUME CheckAssumption ==
  /\ \A r \in Results :
       /\ r \in ResultType /\ Len(r.missing) = Len(r.dropped)
       /\ \A s \in r.scalars : s.integral => s.value % One = 0
  /\ Invented \subseteq Number

VARIABLES
  result, \* the request's body, valid as a RiskResult
  text,   \* what the model wrote
  phase   \* "received", "refused", "prompted", "written", "accepted", "rejected"

vars == << result, text, phase >>

\* The facts in the prompt.
Prompt == BuildFactSheet(result)

NoText == [numbers |-> {}, dates |-> {}, names |-> {}, copied |-> FALSE]

-----------------------------------------------------------------------------
(* The check                                                               *)

\* The unit a number is written in: days before percentages before money.
UnitOf(n) ==
  IF "day" \in n.marks        THEN "horizon"
  ELSE IF "%" \in n.marks     THEN "rate"
  ELSE IF "money" \in n.marks THEN "currency"
  ELSE "none"

\* expected_numbers: each form, and the percentage form of rates and fractions.
ExpectedNumbers(facts) ==
  UNION { f.forms \cup { 100 * v : v \in { x \in f.forms : f.unit = "rate" \/ (0 < x /\ x < One) } } :
          f \in facts }

\* Variant: a mark does not narrow the facts a number may match.
AnyCandidate(unit, facts) == ExpectedNumbers(facts)

\* _candidates: a mark narrows the match to the facts of its kind.
Candidates(unit, facts) ==
  LET ofUnit == UNION { f.forms : f \in { g \in facts : g.unit = unit } }
  IN  CASE unit = "none" -> ExpectedNumbers(facts)
        [] unit = "rate" -> { 100 * v : v \in ofUnit }
        [] OTHER         -> ofUnit

\* math.isclose with rel_tol 0.01 and abs_tol 0.005.
IsClose(a, b) ==
  LET apart == Magnitude(a - b)
  IN  \/ a = b
      \/ apart <= One \div 200
      \/ apart <= Magnitude(a) \div 100 \/ apart <= Magnitude(b) \div 100

\* _matches: a day count is the horizon exactly.
Matches(n, facts) ==
  IF UnitOf(n) = "horizon"
  THEN n.value \in Candidates("horizon", facts)
  ELSE \E v \in Candidates(UnitOf(n), facts) : IsClose(n.value, v)

\* _remove_names: names the sheet has are removed from the text, digits and
\* all, but for those without a letter.
Removed(s) == s.names \cap Lettered

\* What is left to scan.
Scanned(t, s) ==
  t.numbers \cup { [value |-> a * One, marks |-> {}] : a \in t.names \ Removed(s) }

\* verify_numeric_consistency, on a sheet of its own.
Reconciles(t, r) ==
  LET s == BuildFactSheet(r)
  IN  /\ t.dates \subseteq s.dates
      /\ \A n \in Scanned(t, s) : Matches(n, Facts(s))

-----------------------------------------------------------------------------
(* The way of an explanation                                               *)

Init ==
  /\ result \in Results
  /\ text = NoText /\ phase = "received"

\* build_explanation_prompt: an inconsistent portfolio is a 422.
RefuseResult ==
  /\ phase = "received"
  /\ IsPortfolio(result) /\ ~Consistent(result)
  /\ phase' = "refused"
  /\ UNCHANGED << result, text >>

BuildPrompt ==
  /\ phase = "received"
  /\ IsPortfolio(result) => Consistent(result)
  /\ phase' = "prompted"
  /\ UNCHANGED << result, text >>

Copies == UNION { f.copies : f \in Facts(Prompt) }

Writes(numbers, dates, names, copied) ==
  /\ phase = "prompted"
  /\ text' = [numbers |-> numbers, dates |-> dates, names |-> names, copied |-> copied]
  /\ phase' = "written"
  /\ UNCHANGED result

\* The model keeps to the prompt: figures, dates and names copied from it.
CopyFacts ==
  /\ phase = "prompted"
  /\ \E c, d \in Copies, dates \in SUBSET Prompt.dates, names \in SUBSET Prompt.names :
       Writes(c \cup d, dates, names, TRUE)

\* The model writes something of its own beside a copied figure.
Invent ==
  /\ phase = "prompted"
  /\ \E c \in Copies, n \in Invented : Writes(c \cup {n}, {}, {}, FALSE)

InventDate ==
  \E d \in InventedDates : Writes({}, {d}, {}, FALSE)

\* An asset of the portfolio that the prompt does not name.
NameAnother ==
  \E a \in ToSet(result.assets) : Writes({}, {}, {a}, FALSE)

Accept ==
  /\ phase = "written" /\ Reconciles(text, result)
  /\ phase' = "accepted"
  /\ UNCHANGED << result, text >>

Reject ==
  /\ phase = "written" /\ ~Reconciles(text, result)
  /\ phase' = "rejected"
  /\ UNCHANGED << result, text >>

Next ==
  \/ RefuseResult \/ BuildPrompt
  \/ CopyFacts \/ Invent \/ InventDate \/ NameAnother
  \/ Accept \/ Reject

Spec == Init /\ [][Next]_vars

-----------------------------------------------------------------------------
(* Properties                                                              *)

\* "The prompt can never show the model a number the check would reject"
\* (facts.py): a text that only copies figures and dates out of a portfolio's
\* prompt, and names it with a letter in them, is accepted, whatever is
\* rounded, aggregated or cut.
CopiesPass ==
  IsPortfolio(result) /\ text.copied /\ text.names \subseteq Lettered => phase # "rejected"

\* An accepted text is right about the result, not only about the prompt: days
\* are the horizon, a percentage is a level, a weight or a rate of the result,
\* and an amount of money one of its amounts, up to tolerance and rounding.
AcceptedIsTrue ==
  phase = "accepted" =>
    LET near(a, b) == \E m \in {Magnitude(a), Magnitude(b)} :
                        100 * Magnitude(a - b) <= m + 2 * One
        rest    == After(Ranked(result), TopPositions)
        parts   == IF IsPortfolio(result)
                   THEN ToSet(result.notionals)
                        \cup { Amount(result, rest) }
                   ELSE {}
        amounts == {result.value, result.portfolio_value} \cup parts
        rates   == { 100 * result.confidence, 100 * (One - result.confidence) }
                   \cup { ((10000 * p) \div result.portfolio_value) * Cent : p \in parts }
                   \cup { 100 * s.value : s \in { t \in result.scalars : t.key \in {"mu", "sigma"} } }
    IN  /\ \A n \in text.numbers :
             CASE UnitOf(n) = "horizon"  -> n.value = result.horizon * One
               [] UnitOf(n) = "rate"     -> \E v \in rates : near(n.value, v)
               [] UnitOf(n) = "currency" -> \E v \in amounts : near(n.value, v)
               [] OTHER                  -> TRUE
        /\ text.dates \subseteq {result.as_of} \cup result.dates \cup ToSet(result.dropped)

\* The figure a line shows of a fact, and how many entries a list leaves out.
Figure(f)    == LET only(s) == CHOOSE v \in s : TRUE IN only(only(f.copies)).value
Beyond(more) == Sum([ k \in DOMAIN more |-> Figure(more[k]) \div One ])

PositionsStand(sheet, r) ==
  LET shown(i) == \E k \in DOMAIN sheet.positions : sheet.positions[k].asset = r.assets[i]
  IN  /\ Len(sheet.positions) <= TopPositions
      /\ Len(sheet.positions) + Beyond([k \in DOMAIN sheet.rest |-> sheet.rest[k].count])
           = Len(r.assets)
      /\ \A i, j \in DOMAIN r.assets : shown(i) /\ ~shown(j) => r.notionals[i] >= r.notionals[j]
      /\ \A i \in DOMAIN r.assets, k \in DOMAIN sheet.positions :
           sheet.positions[k].asset = r.assets[i] =>
             sheet.positions[k].weight = Percent(r.weights[i], r.portfolio_value)

FiguresAddUp(sheet, r) ==
  LET lines  == sheet.positions \o sheet.rest
      money  == [ k \in DOMAIN lines |-> Figure(lines[k].money) ]
      weight == [ k \in DOMAIN lines |-> Figure(lines[k].weight) ]
  IN  /\ Magnitude(Sum(money) - r.portfolio_value) <= Len(lines) * (Cent \div 2)
      /\ Magnitude(Sum(weight) - 100 * One) <= Len(lines) * (Cent \div 2)

DropsStand(drops, r) ==
  /\ Len(drops.listed) + Beyond(drops.more) = Len(r.dropped)
  /\ \A k \in DOMAIN drops.listed :
       Len(drops.listed[k].names) + Beyond(drops.listed[k].more) = Len(r.missing[k])

\* A portfolio's summary stands for the whole portfolio: every position is shown
\* with its resubmitted weight or counted, and none that is left out is larger
\* than one shown; the amounts and the weights add up, rounding aside, to the
\* whole; every dropped date and every asset missing on a date shown is listed
\* or counted.
SummaryStandsForTheWhole ==
  phase = "prompted" /\ IsPortfolio(result) =>
    /\ PositionsStand(Prompt, result)
    /\ FiguresAddUp(Prompt, result)
    /\ DropsStand(Prompt.dropped[1], result)

(* What the code is said to do and does not                                *)

\* The same promise of facts.py for every result, a single asset's included.
EveryFigureShownPasses ==
  text.copied /\ text.names \subseteq Lettered => phase # "rejected"

=============================================================================
