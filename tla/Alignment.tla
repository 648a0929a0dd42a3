------------------------------ MODULE Alignment ------------------------------
(***************************************************************************)
(* align_returns (data/alignment.py): several assets' return series put on *)
(* one date index, with the record of every observation that did not make  *)
(* it.                                                                     *)
(*                                                                         *)
(* A series is abstracted to its time stamps.  A stamp is a day and a time *)
(* of day, counted in slots of which a day has SlotsPerDay and the first   *)
(* is midnight: the loader accepts "YYYY-MM-DD optionally followed by a    *)
(* naive time", and nothing later rounds it.                               *)
(***************************************************************************)
EXTENDS Integers, FiniteSets

CONSTANTS
  Asset,       \* the portfolio's assets; integers, ordered as asset_id is
  Day,         \* the dates, integers
  SlotsPerDay, \* bound: the times of day told apart
  NoDate       \* start or end not given

ASSUME AlignmentAssumption ==
  /\ Asset \subseteq Int /\ IsFiniteSet(Asset) /\ Asset # {}
  /\ Day \subseteq Int /\ IsFiniteSet(Day) /\ Day # {}
  /\ SlotsPerDay \in Nat \ {0}
  /\ NoDate \notin Int

DateOf(stamp) == stamp \div SlotsPerDay
Midnight(day) == day * SlotsPerDay    \* pd.Timestamp(day)

Stamp == { Midnight(d) + t : d \in Day, t \in 0 .. SlotsPerDay - 1 }

Series == [stamps : SUBSET Stamp, repeats : BOOLEAN]

Earliest(S) == CHOOSE x \in S : \A y \in S : x <= y
Latest(S)   == CHOOSE x \in S : \A y \in S : x >= y

VARIABLES
  series,     \* each position's return series
  start, end, \* the window requested, or NoDate
  result      \* what align_returns returned or raised, or NotRun

alignVars == << series, start, end, result >>

NotRun      == [status |-> "not_run"]
Raised(e)   == [status |-> e]

-----------------------------------------------------------------------------
\* _sorted_index: the first position with a repeated date or no date decides.

Unusable(a) == series[a].repeats \/ series[a].stamps = {}

IndexError ==
  LET a == Earliest({b \in Asset : Unusable(b)})
  IN  IF series[a].repeats THEN "DataValidationError" ELSE "InsufficientDataError"

FirstDate(a) == DateOf(Earliest(series[a].stamps))
LastDate(a)  == DateOf(Latest(series[a].stamps))

\* The window: what was requested, else the dates every asset spans.
LatestFirst  == Latest({FirstDate(a) : a \in Asset})
EarliestLast == Earliest({LastDate(a) : a \in Asset})

WindowStart == IF start # NoDate THEN start ELSE LatestFirst
WindowEnd   == IF end # NoDate THEN end ELSE EarliestLast

Requested == start # NoDate \/ end # NoDate

Covers(a) == FirstDate(a) <= WindowStart /\ LastDate(a) >= WindowEnd

NoWindow == IF Requested THEN \E a \in Asset : ~Covers(a) ELSE WindowStart > WindowEnd

-----------------------------------------------------------------------------
\* The window cuts each series between two midnights; the intersection keeps
\* the stamps every asset has inside it.

Before(a)   == { s \in series[a].stamps : s < Midnight(WindowStart) }

\* Variant: a stamp at the window's last midnight is counted twice.
AfterOrAt(a) == { s \in series[a].stamps : s >= Midnight(WindowEnd) }

After(a)    == { s \in series[a].stamps : s > Midnight(WindowEnd) }

\* Variant: the last day is left out of the window.
InWindowOpen(a) == { s \in series[a].stamps :
                       s >= Midnight(WindowStart) /\ s < Midnight(WindowEnd) }

InWindow(a) == { s \in series[a].stamps :
                   s >= Midnight(WindowStart) /\ s <= Midnight(WindowEnd) }

Union == UNION { InWindow(a) : a \in Asset }

\* Variant: the intersection is of the whole histories.
SharedHistory == { s \in UNION { series[a].stamps : a \in Asset } :
                     \A a \in Asset : s \in series[a].stamps }

Common  == { s \in Union : \A a \in Asset : s \in InWindow(a) }

Dropped == Union \ Common

\* Variant: the assets that have the stamp.
Having(s)  == { a \in Asset : s \in InWindow(a) }

\* missing_assets is keyed by date: for stamps of one date the last one wins.
Missing(s) == { a \in Asset : s \notin InWindow(a) }
MissingAssets ==
  [ d \in { DateOf(s) : s \in Dropped } |->
      Missing(Latest({ s \in Dropped : DateOf(s) = d })) ]

\* AssetAlignment, one per asset.
ByAsset ==
  [ a \in Asset |->
      [ n_input         |-> Cardinality(series[a].stamps),
        n_before_window |-> Cardinality(Before(a)),
        n_after_window  |-> Cardinality(After(a)),
        n_dropped       |-> Cardinality(InWindow(a)) - Cardinality(Common),
        n_aligned       |-> Cardinality(Common) ] ]

AlignedReturns ==
  [ status |-> "aligned", window_start |-> WindowStart, window_end |-> WindowEnd,
    rows |-> Common, dropped |-> Dropped, missing |-> MissingAssets,
    by_asset |-> ByAsset ]

-----------------------------------------------------------------------------

AlignInit ==
  /\ series \in [Asset -> Series]
  /\ \A a \in Asset : series[a].repeats => series[a].stamps # {}
  /\ start \in Day \cup {NoDate} /\ end \in Day \cup {NoDate}
  /\ result = NotRun

Return(value) ==
  /\ result = NotRun
  /\ result' = value
  /\ UNCHANGED << series, start, end >>

RejectSeries   == /\ \E a \in Asset : Unusable(a)
                  /\ Return(Raised(IndexError))

RejectWindow   == /\ ~\E a \in Asset : Unusable(a)
                  /\ NoWindow
                  /\ Return(Raised("InsufficientDataError"))

NothingInCommon == /\ ~\E a \in Asset : Unusable(a)
                   /\ ~NoWindow /\ Common = {}
                   /\ Return(Raised("InsufficientDataError"))

Align          == /\ ~\E a \in Asset : Unusable(a)
                  /\ ~NoWindow /\ Common # {}
                  /\ Return(AlignedReturns)

AlignNext == RejectSeries \/ RejectWindow \/ NothingInCommon \/ Align

AlignSpec == AlignInit /\ [][AlignNext]_alignVars

-----------------------------------------------------------------------------
(* Properties                                                              *)

Succeeded == result.status = "aligned"

Bucket == [n_input : Nat, n_before_window : Nat, n_after_window : Nat,
           n_dropped : Nat, n_aligned : Nat]

\* No count is ever negative, although n_dropped is a difference of two
\* lengths, and an answer is an alignment or one of two exceptions.
AlignTypeOK ==
  /\ series \in [Asset -> Series]
  /\ result.status \in {"not_run", "aligned", "DataValidationError", "InsufficientDataError"}
  /\ Succeeded => /\ result.by_asset \in [Asset -> Bucket]
                  /\ result.rows \subseteq Stamp /\ result.rows # {}

\* "Every observation lands in exactly one bucket": the five counts of every
\* asset add up to what it submitted, although n_dropped is a difference of two
\* lengths. It counts exactly the asset's own dropped stamps, and the rows are
\* complete: no asset lacks one, so reindexing never makes a NaN return.
EveryObservationCounted ==
  Succeeded => \A a \in Asset :
    LET b == result.by_asset[a]
    IN  /\ b.n_input = b.n_before_window + b.n_after_window + b.n_dropped + b.n_aligned
        /\ b.n_dropped = Cardinality(result.dropped \cap series[a].stamps)
        /\ result.rows \subseteq series[a].stamps

\* Every hole is explained: each date with a dropped stamp has an entry, no
\* other date has one, and the entry names exactly the assets whose history
\* lacks one same dropped stamp of that date, which some other asset has.
HolesExplained ==
  Succeeded =>
    /\ DOMAIN result.missing = { DateOf(s) : s \in result.dropped }
    /\ \A d \in DOMAIN result.missing :
         /\ result.missing[d] # {} /\ result.missing[d] # Asset
         /\ \E s \in result.dropped :
              DateOf(s) = d /\ result.missing[d] = { a \in Asset : s \notin series[a].stamps }

\* An explicit window gives the same rows as the derived one, cut to it, and
\* every asset's history spans it: the window asked for never changes what
\* happens to a date inside it.
WindowOnlyCuts ==
  Succeeded =>
    /\ \A a \in Asset : FirstDate(a) <= result.window_start /\ result.window_end <= LastDate(a)
    /\ result.rows = { s \in Stamp :
        /\ \A a \in Asset : s \in series[a].stamps
        /\ Midnight(LatestFirst) <= s /\ s <= Midnight(EarliestLast)
        /\ start # NoDate => Midnight(start) <= s
        /\ end # NoDate => s <= Midnight(end) }

(* What the code is said to do and does not                                *)

\* "window_start/window_end report the window actually used" (AlignedReturns):
\* a stamp dated inside the reported window is a row or a hole, and never
\* counted as outside the window.
ReportedWindowIsUsed ==
  Succeeded => \A a \in Asset : \A s \in series[a].stamps :
    result.window_start <= DateOf(s) /\ DateOf(s) <= result.window_end =>
      s \in result.rows \cup result.dropped

=============================================================================
