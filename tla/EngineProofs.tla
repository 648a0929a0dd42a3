---------------------------- MODULE EngineProofs ----------------------------
(***************************************************************************)
(* Proofs about the portfolio side of the risk engine: Alignment, for any  *)
(* assets, days and times of day, and PortfolioRisk, for any requests.     *)
(***************************************************************************)
EXTENDS Alignment, PortfolioRisk, OrderLemmas, SequenceTheorems, TLAPS

-----------------------------------------------------------------------------
(* Alignment: what the counts and the record are made of                   *)

\* What align_returns was given never changes, and what it answered is what
\* it was given determines.
AlignInv ==
  /\ series \in [Asset -> Series]
  /\ start \in Day \cup {NoDate} /\ end \in Day \cup {NoDate}
  /\ \/ result = NotRun
     \/ result = Raised("DataValidationError")
     \/ result = Raised("InsufficientDataError")
     \/ /\ \A a \in Asset : ~Unusable(a)
        /\ ~NoWindow /\ Common # {}
        /\ result = AlignedReturns

\* The four ways align_returns ends keep it.
LEMMA AlignInductive == AlignSpec => []AlignInv
<1>1. AlignInit => AlignInv
  BY DEF AlignInit, AlignInv
<1>2. AlignInv /\ [AlignNext]_alignVars => AlignInv'
  <2> SUFFICES ASSUME AlignInv, [AlignNext]_alignVars PROVE AlignInv'
    OBVIOUS
  <2> USE DEF AlignInv
  <2>1. series' = series /\ start' = start /\ end' = end
    BY DEF AlignNext, RejectSeries, RejectWindow, NothingInCommon, Align, Return, alignVars
  <2>2. /\ (\A a \in Asset : Unusable(a)' = Unusable(a))
        /\ NoWindow' = NoWindow /\ Common' = Common /\ AlignedReturns' = AlignedReturns
    <3> HIDE DEF AlignInv
    <3>1. \A a : FirstDate(a)' = FirstDate(a) /\ LastDate(a)' = LastDate(a)
      BY <2>1 DEF FirstDate, LastDate
    <3>2. WindowStart' = WindowStart /\ WindowEnd' = WindowEnd
      BY <2>1, <3>1 DEF WindowStart, WindowEnd, LatestFirst, EarliestLast
    <3>3. NoWindow' = NoWindow
      <4>1. \A a : Covers(a)' = Covers(a)
        BY <3>1, <3>2 DEF Covers
      <4> QED BY <2>1, <3>2, <4>1 DEF NoWindow, Requested
    <3>4. \A a : Before(a)' = Before(a) /\ After(a)' = After(a) /\ InWindow(a)' = InWindow(a)
      BY <2>1, <3>2 DEF Before, After, InWindow
    <3>5. Common' = Common /\ Dropped' = Dropped
      BY <3>4 DEF Common, Dropped, Union
    <3>6. MissingAssets' = MissingAssets
      <4>1. \A s : Missing(s)' = Missing(s)
        BY <3>4 DEF Missing
      <4> QED BY <3>5, <4>1 DEF MissingAssets
    <3>7. ByAsset' = ByAsset
      BY <2>1, <3>4, <3>5 DEF ByAsset
    <3>8. AlignedReturns' = AlignedReturns
      BY <3>2, <3>5, <3>6, <3>7 DEF AlignedReturns
    <3>9. \A a \in Asset : Unusable(a)' = Unusable(a)
      BY <2>1 DEF Unusable
    <3> QED BY <3>3, <3>5, <3>8, <3>9
  <2>3. NotRun' = NotRun /\ (\A e : Raised(e)' = Raised(e))
    BY DEF NotRun, Raised
  <2>4. CASE RejectSeries
    <3>1. IndexError \in {"DataValidationError", "InsufficientDataError"}
      BY DEF IndexError
    <3>2. result' = Raised(IndexError)
      BY <2>4 DEF RejectSeries, Return
    <3> QED BY <2>1, <3>1, <3>2 DEF Raised
  <2>5. CASE RejectWindow \/ NothingInCommon
    BY <2>1, <2>5 DEF RejectWindow, NothingInCommon, Return, Raised
  <2>6. CASE Align
    <3>1. result' = AlignedReturns /\ ~NoWindow /\ Common # {} /\ \A a \in Asset : ~Unusable(a)
      BY <2>6 DEF Align, Return
    <3> QED BY <2>1, <2>2, <3>1
  <2>7. CASE UNCHANGED alignVars
    BY <2>1, <2>2, <2>3, <2>7 DEF alignVars
  <2> QED BY <2>4, <2>5, <2>6, <2>7 DEF AlignNext
<1> QED BY <1>1, <1>2, PTL DEF AlignSpec

\* A stamp is an integer, and there are finitely many of them.
LEMMA StampFinite == Stamp \in SUBSET Int /\ IsFiniteSet(Stamp)
<1> USE AlignmentAssumption
<1> DEFINE Slot == 0 .. SlotsPerDay - 1
           f == [ p \in Day \X Slot |-> Midnight(p[1]) + p[2] ]
<1>1. Slot \in SUBSET Int /\ IsFiniteSet(Slot)
  BY FS_Interval
<1>2. \A d \in Day, t \in Slot : Midnight(d) + t \in Int
  BY DEF Midnight
<1>3. f \in [Day \X Slot -> Int]
  BY <1>2
<1>4. IsFiniteSet(Day \X Slot)
  BY <1>1, FS_Product
<1>5. IsFiniteSet({ f[p] : p \in Day \X Slot })
  <2> HIDE DEF f
  <2> QED BY <1>3, <1>4, ImageFinite
<1>6. Stamp = { f[p] : p \in Day \X Slot }
  <2>1. \A d \in Day, t \in Slot : << d, t >> \in Day \X Slot /\ f[<< d, t >>] = Midnight(d) + t
    OBVIOUS
  <2>2. \A p \in Day \X Slot : p[1] \in Day /\ p[2] \in Slot /\ f[p] = Midnight(p[1]) + p[2]
    OBVIOUS
  <2> HIDE DEF f
  <2>3. ASSUME NEW s \in Stamp PROVE \E p \in Day \X Slot : s = f[p]
    <3>1. PICK d \in Day, t \in Slot : s = Midnight(d) + t
      BY DEF Stamp
    <3> QED BY <2>1, <3>1
  <2>4. ASSUME NEW p \in Day \X Slot PROVE f[p] \in Stamp
    <3>1. PICK d \in Day, t \in Slot : d = p[1] /\ t = p[2] /\ f[p] = Midnight(d) + t
      BY <2>2
    <3> QED BY <3>1 DEF Stamp
  <2> QED BY <2>3, <2>4
<1>7. Stamp \in SUBSET Int
  BY <1>2 DEF Stamp
<1> QED BY <1>5, <1>6, <1>7

\* A non-empty finite set of integers contains its latest element.
LEMMA LatestOf ==
  ASSUME NEW S \in SUBSET Int, IsFiniteSet(S), S # {}
  PROVE  Latest(S) \in S /\ \A y \in S : Latest(S) >= y
BY FiniteExtremes DEF Latest

\* And its earliest.
LEMMA EarliestOf ==
  ASSUME NEW S \in SUBSET Int, IsFiniteSet(S), S # {}
  PROVE  Earliest(S) \in S /\ \A y \in S : Earliest(S) <= y
BY FiniteExtremes DEF Earliest

\* A finite set cut into three.
LEMMA ThreeParts ==
  ASSUME NEW S, IsFiniteSet(S), NEW A, NEW B, NEW C, S = A \cup B \cup C,
         A \cap B = {}, B \cap C = {}, A \cap C = {}
  PROVE  /\ IsFiniteSet(A) /\ IsFiniteSet(B) /\ IsFiniteSet(C)
         /\ Cardinality(A) \in Nat /\ Cardinality(B) \in Nat /\ Cardinality(C) \in Nat
         /\ Cardinality(S) = Cardinality(A) + Cardinality(B) + Cardinality(C)
<1>1. IsFiniteSet(A) /\ IsFiniteSet(B) /\ IsFiniteSet(C)
  BY FS_Subset
<1>2. Cardinality(A) \in Nat /\ Cardinality(B) \in Nat /\ Cardinality(C) \in Nat
  BY <1>1, FS_CardinalityType
<1>3. Cardinality({}) = 0
  BY FS_EmptySet
<1>4. /\ IsFiniteSet(A \cup B)
      /\ Cardinality(A \cup B) = Cardinality(A) + Cardinality(B) - Cardinality(A \cap B)
  BY <1>1, FS_Union
<1>5. Cardinality((A \cup B) \cup C)
        = Cardinality(A \cup B) + Cardinality(C) - Cardinality((A \cup B) \cap C)
  BY <1>1, <1>4, FS_Union
<1>6. A \cap B = {} /\ (A \cup B) \cap C = {} /\ (A \cup B) \cup C = S
  OBVIOUS
<1>7. Cardinality(A \cup B) = Cardinality(A) + Cardinality(B)
  <2>1. Cardinality(A \cap B) = 0
    BY <1>3, <1>6, Zenon
  <2> QED BY <1>2, <1>4, <2>1
<1>8. Cardinality(S) = Cardinality(A \cup B) + Cardinality(C)
  <2>1. Cardinality((A \cup B) \cap C) = 0
    BY <1>3, <1>6, Zenon
  <2>2. Cardinality((A \cup B) \cup C) = Cardinality(S)
    BY <1>6, Zenon
  <2>3. Cardinality(A \cup B) + Cardinality(C) \in Nat
    BY <1>2, <1>7
  <2> QED BY <1>2, <1>5, <1>7, <2>1, <2>2, <2>3
<1> QED BY <1>1, <1>2, <1>7, <1>8

-----------------------------------------------------------------------------
(* Alignment: an answer                                                    *)

\* Each asset has stamps, its first and last dates are integers, and so are
\* the window's: the dates every asset spans lie within each asset's own.
LEMMA Dates ==
  ASSUME AlignInv, \A a \in Asset : ~Unusable(a)
  PROVE  /\ \A a \in Asset : /\ series[a].stamps \in SUBSET Stamp
                             /\ IsFiniteSet(series[a].stamps) /\ series[a].stamps # {}
                             /\ FirstDate(a) \in Int /\ LastDate(a) \in Int
                             /\ FirstDate(a) <= LatestFirst /\ EarliestLast <= LastDate(a)
         /\ \E a \in Asset : FirstDate(a) = LatestFirst
         /\ \E a \in Asset : LastDate(a) = EarliestLast
         /\ WindowStart \in Int /\ WindowEnd \in Int
         /\ LatestFirst \in Int /\ EarliestLast \in Int
<1> USE AlignmentAssumption
<1>1. ASSUME NEW a \in Asset
      PROVE  /\ series[a].stamps \in SUBSET Stamp
             /\ IsFiniteSet(series[a].stamps) /\ series[a].stamps # {}
  <2>1. series[a] \in Series /\ series[a].stamps # {}
    BY DEF AlignInv, Unusable
  <2>2. series[a].stamps \in SUBSET Stamp
    BY <2>1 DEF Series
  <2> QED BY <2>1, <2>2, StampFinite, FS_Subset
<1>2. ASSUME NEW a \in Asset PROVE FirstDate(a) \in Int /\ LastDate(a) \in Int
  <2> DEFINE S == series[a].stamps
  <2>1. S \in SUBSET Int
    BY <1>1, StampFinite
  <2>2. Earliest(S) \in S /\ Latest(S) \in S
    BY <1>1, <2>1, EarliestOf, LatestOf
  <2>3. Earliest(S) \in Int /\ Latest(S) \in Int
    BY <2>1, <2>2
  <2> HIDE DEF S
  <2>4. DateOf(Earliest(S)) \in Int /\ DateOf(Latest(S)) \in Int
    BY <2>3 DEF DateOf
  <2> QED BY <2>4 DEF FirstDate, LastDate, S
<1> DEFINE f == [ a \in Asset |-> FirstDate(a) ]
           g == [ a \in Asset |-> LastDate(a) ]
<1>3. f \in [Asset -> Int] /\ g \in [Asset -> Int]
  BY <1>2
<1>4. IsFiniteSet({ f[a] : a \in Asset }) /\ IsFiniteSet({ g[a] : a \in Asset })
  <2> HIDE DEF f, g
  <2>1. IsFiniteSet(Asset)
    OBVIOUS
  <2>2. ASSUME NEW h \in [Asset -> Int] PROVE IsFiniteSet({ h[a] : a \in Asset })
    BY <2>1, ImageFinite
  <2> QED BY <1>3, <2>2
<1>5. /\ { f[a] : a \in Asset } = { FirstDate(a) : a \in Asset }
      /\ { g[a] : a \in Asset } = { LastDate(a) : a \in Asset }
  OBVIOUS
<1> DEFINE First == { FirstDate(a) : a \in Asset }
           Last  == { LastDate(a) : a \in Asset }
<1>6. /\ First \in SUBSET Int /\ First # {} /\ IsFiniteSet(First)
      /\ Last \in SUBSET Int /\ Last # {} /\ IsFiniteSet(Last)
  BY <1>2, <1>4, <1>5
<1>7. LatestFirst \in First /\ \A y \in First : LatestFirst >= y
  <2> HIDE DEF First
  <2>1. Latest(First) \in First /\ \A y \in First : Latest(First) >= y
    BY <1>6, LatestOf
  <2> QED BY <2>1 DEF LatestFirst, First
<1>8. EarliestLast \in Last /\ \A y \in Last : EarliestLast <= y
  <2> HIDE DEF Last
  <2>1. Earliest(Last) \in Last /\ \A y \in Last : Earliest(Last) <= y
    BY <1>6, EarliestOf
  <2> QED BY <2>1 DEF EarliestLast, Last
<1>9. LatestFirst \in Int /\ EarliestLast \in Int
  BY <1>6, <1>7, <1>8
<1>10. \A a \in Asset : FirstDate(a) <= LatestFirst /\ EarliestLast <= LastDate(a)
  BY <1>2, <1>7, <1>8, <1>9
<1>11. WindowStart \in Int /\ WindowEnd \in Int
  BY <1>9 DEF WindowStart, WindowEnd, AlignInv
<1>12. (\E a \in Asset : FirstDate(a) = LatestFirst) /\ (\E a \in Asset : LastDate(a) = EarliestLast)
  BY <1>7, <1>8
<1> QED BY <1>1, <1>2, <1>9, <1>10, <1>11, <1>12

\* An asset's history spans the window, and whoever lies within it lies within
\* the dates every asset spans.
LEMMA WindowSpanned ==
  ASSUME AlignInv, \A a \in Asset : ~Unusable(a), ~NoWindow
  PROVE  /\ \A a \in Asset : FirstDate(a) <= WindowStart /\ WindowEnd <= LastDate(a)
         /\ LatestFirst <= WindowStart /\ WindowEnd <= EarliestLast
<1>1. \A a \in Asset : FirstDate(a) <= WindowStart /\ WindowEnd <= LastDate(a)
  <2>1. CASE Requested
    BY <2>1, Dates DEF NoWindow, Covers
  <2>2. CASE ~Requested
    BY <2>2, Dates DEF WindowStart, WindowEnd, Requested
  <2> QED BY <2>1, <2>2
<1>2. PICK a \in Asset : FirstDate(a) = LatestFirst
  BY Dates
<1>3. PICK b \in Asset : LastDate(b) = EarliestLast
  BY Dates
<1> QED BY <1>1, <1>2, <1>3

\* A later day has a later midnight.
LEMMA MidnightOrder ==
  ASSUME NEW d \in Int, NEW e \in Int
  PROVE  Midnight(d) \in Int /\ (d <= e => Midnight(d) <= Midnight(e))
<1>1. PICK k \in Nat : k = SlotsPerDay
  BY AlignmentAssumption
<1>2. d * k \in Int /\ (d <= e => d * k <= e * k)
  OBVIOUS
<1> QED BY <1>1, <1>2 DEF Midnight

\* What is before, in and after the window is the whole series, each part apart
\* from the others as long as anything is in common.
LEMMA Parts ==
  ASSUME AlignInv, \A a \in Asset : ~Unusable(a), Common # {}, NEW a \in Asset
  PROVE  /\ IsFiniteSet(InWindow(a)) /\ Common \in SUBSET InWindow(a)
         /\ Cardinality(Before(a)) \in Nat /\ Cardinality(After(a)) \in Nat
         /\ Cardinality(InWindow(a)) \in Nat
         /\ Cardinality(series[a].stamps)
              = Cardinality(Before(a)) + Cardinality(InWindow(a)) + Cardinality(After(a))
<1> DEFINE S == series[a].stamps
<1>1. S \in SUBSET Int /\ IsFiniteSet(S)
  BY Dates, StampFinite
<1>2. PICK m \in Int, n \in Int : m = Midnight(WindowStart) /\ n = Midnight(WindowEnd)
  BY Dates, MidnightOrder
<1>3. /\ Before(a) = { s \in S : s < m }
      /\ InWindow(a) = { s \in S : s >= m /\ s <= n }
      /\ After(a) = { s \in S : s > n }
  BY <1>2 DEF Before, InWindow, After
<1>4. Common \in SUBSET InWindow(a)
  BY DEF Common
<1>5. m <= n
  <2>1. PICK s \in Common : TRUE
    OBVIOUS
  <2>2. s \in S /\ s >= m /\ s <= n
    BY <2>1, <1>3, <1>4
  <2> QED BY <2>2, <1>1
<1>6. S = Before(a) \cup InWindow(a) \cup After(a)
  BY <1>1, <1>3
<1>7. /\ Before(a) \cap InWindow(a) = {} /\ InWindow(a) \cap After(a) = {}
      /\ Before(a) \cap After(a) = {}
  BY <1>1, <1>3, <1>5
<1>8. /\ IsFiniteSet(InWindow(a))
      /\ Cardinality(Before(a)) \in Nat /\ Cardinality(InWindow(a)) \in Nat
      /\ Cardinality(After(a)) \in Nat
      /\ Cardinality(S) = Cardinality(Before(a)) + Cardinality(InWindow(a)) + Cardinality(After(a))
  <2> HIDE DEF S
  <2>1. PICK A, B, C : A = Before(a) /\ B = InWindow(a) /\ C = After(a)
    OBVIOUS
  <2>2. S = A \cup B \cup C /\ A \cap B = {} /\ B \cap C = {} /\ A \cap C = {}
    BY <1>6, <1>7, <2>1, Zenon
  <2>3. /\ IsFiniteSet(B)
        /\ Cardinality(A) \in Nat /\ Cardinality(B) \in Nat /\ Cardinality(C) \in Nat
        /\ Cardinality(S) = Cardinality(A) + Cardinality(B) + Cardinality(C)
    BY <1>1, <2>2, ThreeParts
  <2> QED BY <2>1, <2>3, Zenon
<1> QED BY <1>4, <1>8

\* An asset's own dropped stamps are those of its window not everyone has.
LEMMA OwnDropped ==
  ASSUME NEW a \in Asset
  PROVE  Dropped \cap series[a].stamps = InWindow(a) \ Common
BY DEF Dropped, Union, InWindow

\* n_dropped, a difference of two lengths, is the size of a set.
LEMMA DroppedCount ==
  ASSUME AlignInv, \A a \in Asset : ~Unusable(a), Common # {}, NEW a \in Asset
  PROVE  /\ Cardinality(Common) \in Nat
         /\ Cardinality(InWindow(a)) - Cardinality(Common) \in Nat
         /\ Cardinality(InWindow(a)) - Cardinality(Common)
              = Cardinality(Dropped \cap series[a].stamps)
<1>1. IsFiniteSet(InWindow(a)) /\ Common \in SUBSET InWindow(a)
  BY Parts
<1>2. InWindow(a) \cap Common = Common
  BY <1>1
<1>3. IsFiniteSet(Common) /\ IsFiniteSet(InWindow(a) \ Common)
  BY <1>1, FS_Subset
<1>4. Cardinality(InWindow(a) \ Common)
        = Cardinality(InWindow(a)) - Cardinality(InWindow(a) \cap Common)
  BY <1>1, FS_Difference
<1>5. Cardinality(InWindow(a) \ Common) = Cardinality(InWindow(a)) - Cardinality(Common)
  BY <1>2, <1>4, Zenon
<1>6. Cardinality(InWindow(a) \ Common) \in Nat /\ Cardinality(Common) \in Nat
  BY <1>3, FS_CardinalityType
<1>7. Cardinality(Dropped \cap series[a].stamps) = Cardinality(InWindow(a) \ Common)
  BY OwnDropped, Zenon
<1> QED BY <1>5, <1>6, <1>7

\* What an answer is: the fields of AlignedReturns.
LEMMA AlignedAnswer ==
  ASSUME AlignInv, Succeeded
  PROVE  /\ \A a \in Asset : ~Unusable(a)
         /\ ~NoWindow /\ Common # {}
         /\ result = AlignedReturns
BY DEF AlignInv, Succeeded, NotRun, Raised

\* The fields of an answer.
LEMMA AnswerFields ==
  /\ AlignedReturns.status = "aligned"
  /\ AlignedReturns.window_start = WindowStart
  /\ AlignedReturns.window_end = WindowEnd
  /\ AlignedReturns.rows = Common
  /\ AlignedReturns.dropped = Dropped
  /\ AlignedReturns.missing = MissingAssets
  /\ AlignedReturns.by_asset = ByAsset
BY DEF AlignedReturns

\* Alignment keeps its types: no count of a bucket is negative, and every
\* outcome is an alignment with rows or one of two exceptions.
THEOREM AlignTypeCorrect == AlignSpec => []AlignTypeOK
<1>1. AlignInv => AlignTypeOK
  <2> SUFFICES ASSUME AlignInv PROVE AlignTypeOK
    OBVIOUS
  <2>1. series \in [Asset -> Series]
    BY DEF AlignInv
  <2>2. result.status \in {"not_run", "aligned", "DataValidationError", "InsufficientDataError"}
    BY AnswerFields DEF AlignInv, NotRun, Raised
  <2>3. ASSUME Succeeded
        PROVE  /\ result.by_asset \in [Asset -> Bucket]
               /\ result.rows \subseteq Stamp /\ result.rows # {}
    <3>1. result.by_asset = ByAsset /\ result.rows = Common /\ Common # {}
      BY <2>3, AlignedAnswer, AnswerFields
    <3>2. ASSUME NEW a \in Asset PROVE ByAsset[a] \in Bucket
      <4>1. /\ Cardinality(Before(a)) \in Nat /\ Cardinality(After(a)) \in Nat
            /\ Cardinality(InWindow(a)) \in Nat /\ Cardinality(Common) \in Nat
            /\ Cardinality(series[a].stamps) \in Nat
            /\ Cardinality(InWindow(a)) - Cardinality(Common) \in Nat
        <5>1. (\A b \in Asset : ~Unusable(b)) /\ Common # {}
          BY <2>3, AlignedAnswer
        <5>2. Cardinality(series[a].stamps) \in Nat
          BY <5>1, Dates, FS_CardinalityType
        <5>3. /\ Cardinality(Before(a)) \in Nat /\ Cardinality(After(a)) \in Nat
              /\ Cardinality(InWindow(a)) \in Nat
          BY <5>1, Parts
        <5>4. Cardinality(Common) \in Nat /\ Cardinality(InWindow(a)) - Cardinality(Common) \in Nat
          BY <5>1, DroppedCount
        <5> QED BY <5>2, <5>3, <5>4
      <4> QED BY <4>1 DEF ByAsset, Bucket
    <3>3. ByAsset \in [Asset -> Bucket]
      BY <3>2 DEF ByAsset
    <3>4. Common \in SUBSET Stamp
      <4>1. \A a \in Asset : InWindow(a) \in SUBSET Stamp
        BY <2>3, AlignedAnswer, Dates DEF InWindow
      <4> QED BY <4>1 DEF Common, Union
    <3> QED BY <3>1, <3>3, <3>4
  <2> QED BY <2>1, <2>2, <2>3 DEF AlignTypeOK
<1> QED BY <1>1, AlignInductive, PTL

\* Every observation lands in exactly one bucket, for any assets and window:
\* the counts add up to what each asset submitted, n_dropped counts its own
\* dropped stamps, and no asset lacks a row (align_returns).
THEOREM ObservationsCounted == AlignSpec => []EveryObservationCounted
<1>1. AlignInv => EveryObservationCounted
  <2> SUFFICES ASSUME AlignInv, Succeeded, NEW a \in Asset
               PROVE  /\ result.by_asset[a].n_input
                           = result.by_asset[a].n_before_window + result.by_asset[a].n_after_window
                             + result.by_asset[a].n_dropped + result.by_asset[a].n_aligned
                      /\ result.by_asset[a].n_dropped
                           = Cardinality(result.dropped \cap series[a].stamps)
                      /\ result.rows \subseteq series[a].stamps
    BY DEF EveryObservationCounted
  <2>1. /\ \A b \in Asset : ~Unusable(b)
        /\ ~NoWindow /\ Common # {}
        /\ result.by_asset = ByAsset /\ result.rows = Common /\ result.dropped = Dropped
    BY AlignedAnswer, AnswerFields
  <2>2. PICK i \in Nat, b \in Nat, f \in Nat, w \in Nat, c \in Nat :
          /\ i = Cardinality(series[a].stamps) /\ b = Cardinality(Before(a))
          /\ f = Cardinality(After(a)) /\ w = Cardinality(InWindow(a)) /\ c = Cardinality(Common)
          /\ i = b + w + f
    <3>1. /\ Cardinality(Before(a)) \in Nat /\ Cardinality(After(a)) \in Nat
          /\ Cardinality(InWindow(a)) \in Nat
          /\ Cardinality(series[a].stamps)
               = Cardinality(Before(a)) + Cardinality(InWindow(a)) + Cardinality(After(a))
      BY <2>1, Parts
    <3>2. Cardinality(Common) \in Nat
      BY <2>1, DroppedCount
    <3> QED BY <3>1, <3>2
  <2>3. ByAsset[a] = [ n_input |-> i, n_before_window |-> b, n_after_window |-> f,
                       n_dropped |-> w - c, n_aligned |-> c ]
    BY <2>2 DEF ByAsset
  <2>4. i = b + f + (w - c) + c
    BY <2>2
  <2>5. w - c = Cardinality(Dropped \cap series[a].stamps)
    BY <2>1, <2>2, DroppedCount
  <2>6. Common \subseteq series[a].stamps
    BY DEF Common, InWindow
  <2> QED BY <2>1, <2>3, <2>4, <2>5, <2>6
<1> QED BY <1>1, AlignInductive, PTL

\* Every date with a hole has an entry, which names exactly who lacks one of
\* its dropped stamps, the latest: never nobody and never everybody.
THEOREM HolesHaveReasons == AlignSpec => []HolesExplained
<1>1. AlignInv => HolesExplained
  <2> SUFFICES ASSUME AlignInv, Succeeded PROVE HolesExplained
    BY DEF HolesExplained
  <2>1. /\ \A b \in Asset : ~Unusable(b)
        /\ result.dropped = Dropped /\ result.missing = MissingAssets
    BY AlignedAnswer, AnswerFields
  <2>2. Dropped \in SUBSET Stamp
    <3>1. \A a \in Asset : InWindow(a) \in SUBSET Stamp
      BY <2>1, Dates DEF InWindow
    <3> QED BY <3>1 DEF Dropped, Union
  <2>3. DOMAIN result.missing = { DateOf(s) : s \in result.dropped }
    BY <2>1 DEF MissingAssets
  <2>4. ASSUME NEW d \in { DateOf(s) : s \in Dropped }
        PROVE  /\ result.missing[d] # {} /\ result.missing[d] # Asset
               /\ \E s \in Dropped :
                    DateOf(s) = d /\ result.missing[d] = { a \in Asset : s \notin series[a].stamps }
    <3> DEFINE Same == { u \in Dropped : DateOf(u) = d }
    <3>1. Same \in SUBSET Int /\ IsFiniteSet(Same) /\ Same # {}
      BY <2>2, <2>4, StampFinite, FS_Subset
    <3>2. PICK t \in Same : t = Latest(Same)
      <4> HIDE DEF Same
      <4> QED BY <3>1, LatestOf
    <3>3. result.missing[d] = Missing(t)
      BY <2>1, <2>4, <3>2 DEF MissingAssets
    <3>4. PICK a \in Asset : t \in InWindow(a)
      BY <3>2 DEF Dropped, Union
    <3>5. PICK b \in Asset : t \notin InWindow(b)
      BY <3>2 DEF Dropped, Common
    <3>6. a \notin Missing(t) /\ b \in Missing(t)
      BY <3>4, <3>5 DEF Missing
    <3>7. t >= Midnight(WindowStart) /\ t <= Midnight(WindowEnd)
      BY <3>4 DEF InWindow
    <3>8. Missing(t) = { c \in Asset : t \notin series[c].stamps }
      BY <3>7 DEF Missing, InWindow
    <3>9. t \in Dropped /\ DateOf(t) = d
      BY <3>2
    <3> QED BY <3>3, <3>6, <3>8, <3>9
  <2> QED BY <2>1, <2>3, <2>4 DEF HolesExplained
<1> QED BY <1>1, AlignInductive, PTL

\* A window only cuts: with one or without, the rows are the stamps common to
\* every asset in the dates they all span, cut at the ends that were asked for,
\* and every history spans the window reported.
THEOREM WindowCuts == AlignSpec => []WindowOnlyCuts
<1>1. AlignInv => WindowOnlyCuts
  <2> SUFFICES ASSUME AlignInv, Succeeded PROVE WindowOnlyCuts
    BY DEF WindowOnlyCuts
  <2>1. /\ \A b \in Asset : ~Unusable(b)
        /\ ~NoWindow /\ Common # {}
        /\ result.window_start = WindowStart /\ result.window_end = WindowEnd
        /\ result.rows = Common
    BY AlignedAnswer, AnswerFields
  <2>2. \A a \in Asset : FirstDate(a) <= WindowStart /\ WindowEnd <= LastDate(a)
    BY <2>1, WindowSpanned
  <2>3. /\ Midnight(WindowStart) \in Int /\ Midnight(WindowEnd) \in Int
        /\ Midnight(LatestFirst) \in Int /\ Midnight(EarliestLast) \in Int
        /\ Midnight(LatestFirst) <= Midnight(WindowStart)
        /\ Midnight(WindowEnd) <= Midnight(EarliestLast)
    BY <2>1, Dates, WindowSpanned, MidnightOrder
  <2> DEFINE Kept(s) == /\ \A a \in Asset : s \in series[a].stamps
                        /\ Midnight(LatestFirst) <= s /\ s <= Midnight(EarliestLast)
                        /\ start # NoDate => Midnight(start) <= s
                        /\ end # NoDate => s <= Midnight(end)
  <2>4. ASSUME NEW s \in Stamp PROVE s \in Common <=> Kept(s)
    <3>1. s \in Int
      BY StampFinite
    <3>2. s \in Common <=> \A a \in Asset : s \in InWindow(a)
      BY AlignmentAssumption DEF Common, Union
    <3>3. s \in Common <=> /\ \A a \in Asset : s \in series[a].stamps
                           /\ Midnight(WindowStart) <= s /\ s <= Midnight(WindowEnd)
      BY <3>1, <3>2, <2>3, AlignmentAssumption DEF InWindow
    <3>4. (Midnight(WindowStart) <= s) <=> /\ Midnight(LatestFirst) <= s
                                           /\ start # NoDate => Midnight(start) <= s
      BY <3>1, <2>3 DEF WindowStart
    <3>5. (s <= Midnight(WindowEnd)) <=> /\ s <= Midnight(EarliestLast)
                                         /\ end # NoDate => s <= Midnight(end)
      BY <3>1, <2>3 DEF WindowEnd
    <3> QED BY <3>3, <3>4, <3>5
  <2>5. Common \in SUBSET Stamp
    <3>1. \A a \in Asset : InWindow(a) \in SUBSET Stamp
      BY <2>1, Dates DEF InWindow
    <3> QED BY <3>1 DEF Common, Union
  <2>6. Common = { s \in Stamp : Kept(s) }
    <3> HIDE DEF Kept
    <3> QED BY <2>4, <2>5
  <2> QED BY <2>1, <2>2, <2>6 DEF WindowOnlyCuts
<1> QED BY <1>1, AlignInductive, PTL

-----------------------------------------------------------------------------
(* PortfolioRisk: the engine functions                                     *)

Guard ==
  {"alpha", "alignment", "position_value", "sample_size", "simulation_count", "parametric_sample",
   "covariance_sample", "covariance_finite", "cholesky", "seed", "horizon", "sqrt", "figure"}

\* A sequence of guards answers with the first one that refuses.
LEMMA OutcomeFirst ==
  ASSUME NEW g, NEW n \in Nat, DOMAIN g = 1 .. n, NEW pair, NEW q
  PROVE  /\ (\A i \in 1 .. n : Passes(g[i], pair, q)) => Outcome(g, pair, q) = "ok"
         /\ \A k \in 1 .. n :
              /\ ~Passes(g[k], pair, q) /\ \A j \in 1 .. k - 1 : Passes(g[j], pair, q)
              => Outcome(g, pair, q) = Raises(g[k])
<1> DEFINE failing == { i \in DOMAIN g : ~Passes(g[i], pair, q) }
<1>1. Outcome(g, pair, q) = IF failing = {} THEN "ok"
                            ELSE Raises(g[CHOOSE i \in failing : \A j \in failing : i <= j])
  BY DEF Outcome
<1>2. (\A i \in 1 .. n : Passes(g[i], pair, q)) => failing = {}
  OBVIOUS
<1>3. ASSUME NEW k \in 1 .. n, ~Passes(g[k], pair, q), \A j \in 1 .. k - 1 : Passes(g[j], pair, q)
      PROVE  failing # {} /\ (CHOOSE i \in failing : \A j \in failing : i <= j) = k
  <2>1. k \in failing /\ \A j \in failing : j \in 1 .. n /\ k <= j
    BY <1>3
  <2>2. \A i \in failing : (\A j \in failing : i <= j) => i = k
    BY <2>1
  <2> HIDE DEF failing
  <2> QED BY <2>1, <2>2
<1> HIDE DEF failing
<1> QED BY <1>1, <1>2, <1>3

\* Either every guard passes or one is the first that refuses.
LEMMA FirstFailing ==
  ASSUME NEW g, NEW n \in Nat, NEW pair, NEW q
  PROVE  \/ \A i \in 1 .. n : Passes(g[i], pair, q)
         \/ \E k \in 1 .. n : ~Passes(g[k], pair, q) /\ \A j \in 1 .. k - 1 : Passes(g[j], pair, q)
<1> DEFINE F == { i \in 1 .. n : ~Passes(g[i], pair, q) }
<1>1. CASE F = {}
  BY <1>1
<1>2. CASE F # {}
  <2>1. PICK k \in F : \A j \in F : k <= j
    <3>1. F \in SUBSET (1 .. n) /\ 1 \in Int /\ n \in Int
      OBVIOUS
    <3> HIDE DEF F
    <3> QED BY <1>2, <3>1, Extremes
  <2>2. \A j \in 1 .. k - 1 : j \in 1 .. n /\ j \notin F
    BY <2>1
  <2> QED BY <2>1, <2>2
<1> QED BY <1>1, <1>2

Fails(s, pair, q) == \E i \in 1 .. Len(s) : ~Passes(s[i], pair, q)

\* One sequence of guards after another.
LEMMA OutcomeConcat ==
  ASSUME NEW s \in Seq(Guard), NEW t \in Seq(Guard), NEW pair, NEW q
  PROVE  /\ s \o t \in Seq(Guard)
         /\ Outcome(s \o t, pair, q) = IF Fails(s, pair, q) THEN Outcome(s, pair, q) ELSE Outcome(t, pair, q)
         /\ Fails(s \o t, pair, q) <=> Fails(s, pair, q) \/ Fails(t, pair, q)
<1> DEFINE g == s \o t
<1>1. PICK m \in Nat, n \in Nat :
        /\ m = Len(s) /\ DOMAIN s = 1 .. m /\ n = Len(t) /\ DOMAIN t = 1 .. n
        /\ g \in Seq(Guard) /\ Len(g) = m + n
        /\ \A i \in 1 .. m : g[i] = s[i]
        /\ \A i \in 1 .. n : g[m + i] = t[i]
  <2>1. Len(s) \in Nat /\ Len(t) \in Nat /\ DOMAIN s = 1 .. Len(s) /\ DOMAIN t = 1 .. Len(t)
    BY LenProperties
  <2>2. /\ g \in Seq(Guard) /\ Len(g) = Len(s) + Len(t)
        /\ \A i \in 1 .. Len(s) + Len(t) : g[i] = IF i <= Len(s) THEN s[i] ELSE t[i - Len(s)]
    BY ConcatProperties
  <2>3. \A i \in 1 .. Len(s) : g[i] = s[i]
    BY <2>1, <2>2
  <2>4. \A i \in 1 .. Len(t) : g[Len(s) + i] = t[i]
    <3> TAKE i \in 1 .. Len(t)
    <3>1. Len(s) + i \in 1 .. Len(s) + Len(t) /\ ~(Len(s) + i <= Len(s)) /\ Len(s) + i - Len(s) = i
      BY <2>1
    <3> QED BY <2>2, <3>1
  <2> QED BY <2>1, <2>2, <2>3, <2>4
<1>2. DOMAIN g = 1 .. (m + n) /\ m + n \in Nat
  BY <1>1, LenProperties
<1> HIDE DEF g
<1>3. ASSUME NEW k \in 1 .. m, ~Passes(s[k], pair, q), \A j \in 1 .. k - 1 : Passes(s[j], pair, q)
      PROVE  Outcome(g, pair, q) = Outcome(s, pair, q)
  <2>1. Outcome(s, pair, q) = Raises(s[k])
    <3>1. m \in Nat /\ DOMAIN s = 1 .. m
      BY <1>1
    <3> QED BY <1>3, <3>1, OutcomeFirst
  <2>2. k \in 1 .. (m + n) /\ ~Passes(g[k], pair, q) /\ \A j \in 1 .. k - 1 : Passes(g[j], pair, q)
    BY <1>1, <1>3
  <2>3. Outcome(g, pair, q) = Raises(g[k])
    BY <1>2, <2>2, OutcomeFirst
  <2> QED BY <1>1, <2>1, <2>3
<1>4. ASSUME \A i \in 1 .. m : Passes(s[i], pair, q), \A i \in 1 .. n : Passes(t[i], pair, q)
      PROVE  Outcome(g, pair, q) = Outcome(t, pair, q)
  <2>1. \A i \in 1 .. (m + n) : Passes(g[i], pair, q)
    <3> TAKE i \in 1 .. (m + n)
    <3>1. CASE i \in 1 .. m
      BY <1>1, <1>4, <3>1
    <3>2. CASE i \notin 1 .. m
      <4>1. PICK j \in 1 .. n : j = i - m
        BY <3>2
      <4>2. i = m + j
        BY <4>1
      <4> QED BY <1>1, <1>4, <4>2
    <3> QED BY <3>1, <3>2
  <2>2. Outcome(g, pair, q) = "ok"
    BY <1>2, <2>1, OutcomeFirst
  <2>3. Outcome(t, pair, q) = "ok"
    <3>1. n \in Nat /\ DOMAIN t = 1 .. n
      BY <1>1
    <3> QED BY <1>4, <3>1, OutcomeFirst
  <2> QED BY <2>2, <2>3
<1>5. ASSUME \A i \in 1 .. m : Passes(s[i], pair, q),
             NEW k \in 1 .. n, ~Passes(t[k], pair, q), \A j \in 1 .. k - 1 : Passes(t[j], pair, q)
      PROVE  Outcome(g, pair, q) = Outcome(t, pair, q)
  <2>1. Outcome(t, pair, q) = Raises(t[k])
    <3>1. n \in Nat /\ DOMAIN t = 1 .. n
      BY <1>1
    <3> QED BY <1>5, <3>1, OutcomeFirst
  <2>2. m + k \in 1 .. (m + n) /\ ~Passes(g[m + k], pair, q)
    <3>1. g[m + k] = t[k]
      BY <1>1
    <3>2. m + k \in 1 .. (m + n)
      OBVIOUS
    <3> QED BY <1>5, <3>1, <3>2
  <2>3. \A j \in 1 .. (m + k) - 1 : Passes(g[j], pair, q)
    <3> TAKE j \in 1 .. (m + k) - 1
    <3>1. CASE j \in 1 .. m
      BY <1>1, <1>5, <3>1
    <3>2. CASE j \notin 1 .. m
      <4>1. PICK i \in 1 .. k - 1 : i = j - m
        BY <3>2
      <4>2. j = m + i /\ i \in 1 .. n
        BY <4>1
      <4> QED BY <1>1, <1>5, <4>2
    <3> QED BY <3>1, <3>2
  <2>4. Outcome(g, pair, q) = Raises(g[m + k])
    <3>1. PICK p \in 1 .. (m + n) : p = m + k
      BY <2>2
    <3> QED BY <1>2, <2>2, <2>3, <3>1, OutcomeFirst
  <2> QED BY <1>1, <2>1, <2>4
<1>6. (\A i \in 1 .. m : Passes(s[i], pair, q)) => Outcome(g, pair, q) = Outcome(t, pair, q)
  BY <1>4, <1>5, FirstFailing
<1>7. (\E i \in 1 .. m : ~Passes(s[i], pair, q)) => Outcome(g, pair, q) = Outcome(s, pair, q)
  BY <1>3, FirstFailing
<1>8. Fails(g, pair, q) <=> Fails(s, pair, q) \/ Fails(t, pair, q)
  <2>1. ASSUME NEW i \in 1 .. (m + n), ~Passes(g[i], pair, q) PROVE Fails(s, pair, q) \/ Fails(t, pair, q)
    <3>1. CASE i \in 1 .. m
      BY <1>1, <2>1, <3>1 DEF Fails
    <3>2. CASE i \notin 1 .. m
      <4>1. PICK j \in 1 .. n : j = i - m
        BY <3>2
      <4>2. i = m + j
        BY <4>1
      <4> QED BY <1>1, <2>1, <4>2 DEF Fails
    <3> QED BY <3>1, <3>2
  <2>2. ASSUME NEW i \in 1 .. m, ~Passes(s[i], pair, q) PROVE Fails(g, pair, q)
    <3>1. g[i] = s[i] /\ i \in 1 .. (m + n)
      BY <1>1
    <3> QED BY <1>1, <2>2, <3>1 DEF Fails
  <2>3. ASSUME NEW i \in 1 .. n, ~Passes(t[i], pair, q) PROVE Fails(g, pair, q)
    <3>1. g[m + i] = t[i]
      BY <1>1
    <3>2. m + i \in 1 .. (m + n)
      OBVIOUS
    <3> QED BY <1>1, <2>3, <3>1, <3>2 DEF Fails
  <2> QED BY <1>1, <2>1, <2>2, <2>3 DEF Fails
<1>9. Outcome(g, pair, q) = IF Fails(s, pair, q) THEN Outcome(s, pair, q) ELSE Outcome(t, pair, q)
  BY <1>1, <1>6, <1>7 DEF Fails
<1> QED BY <1>1, <1>8, <1>9 DEF g

\* Only the seed and the square root raise what is not the package's own.
LEMMA RaisesOf ==
  /\ \A guard \in Guard \ {"seed", "sqrt"} : Raises(guard) \in QuantRiskAIErrors
  /\ Raises("seed") \in Bugs /\ Raises("sqrt") \in Bugs
BY DEF Guard, Raises, QuantRiskAIErrors, Bugs

\* A sequence of the other guards passes or raises an error of the package.
LEMMA PlainOutcome ==
  ASSUME NEW s \in Seq(Guard \ {"seed", "sqrt"}), NEW pair, NEW q
  PROVE  /\ s \in Seq(Guard)
         /\ Outcome(s, pair, q) \in IF Fails(s, pair, q) THEN QuantRiskAIErrors ELSE {"ok"}
<1>1. PICK n \in Nat : n = Len(s) /\ s \in [1 .. n -> Guard \ {"seed", "sqrt"}] /\ DOMAIN s = 1 .. n
  BY LenProperties
<1>2. s \in Seq(Guard)
  BY SeqMonotonic
<1>3. CASE Fails(s, pair, q)
  <2>1. PICK k \in 1 .. n : ~Passes(s[k], pair, q) /\ \A j \in 1 .. k - 1 : Passes(s[j], pair, q)
    BY <1>1, <1>3, FirstFailing DEF Fails
  <2>2. Outcome(s, pair, q) = Raises(s[k])
    BY <1>1, <2>1, OutcomeFirst
  <2>3. s[k] \in Guard \ {"seed", "sqrt"}
    BY <1>1
  <2> QED BY <1>2, <1>3, <2>2, <2>3, RaisesOf
<1>4. CASE ~Fails(s, pair, q)
  <2>1. Outcome(s, pair, q) = "ok"
    BY <1>1, <1>4, OutcomeFirst DEF Fails
  <2> QED BY <1>2, <1>4, <2>1
<1> QED BY <1>3, <1>4

\* What a function checks before it draws or scales a figure, and the draw.
Sample(method, pair, q) ==
  /\ method = "historical" => Passes("sample_size", pair, q)
  /\ method # "historical" => /\ Passes("parametric_sample", pair, q)
                              /\ Passes("covariance_sample", pair, q) /\ Passes("covariance_finite", pair, q)
  /\ method = "monte_carlo" => Passes("simulation_count", pair, q) /\ Passes("cholesky", pair, q)

Ready(method, pair, q) ==
  /\ Passes("alpha", pair, q) /\ Passes("alignment", pair, q)
  /\ Passes("position_value", pair, q) /\ Sample(method, pair, q)

Seeded(method, pair, q) == method = "monte_carlo" => Passes("seed", pair, q)

Scales(pair, q) == Passes("horizon", pair, q) /\ Passes("sqrt", pair, q) /\ Passes("figure", pair, q)

\* A function of the engine is what its method checks, then what its metric does.
Opening(method) ==
  CASE method = "historical"  -> << "alpha", "alignment", "position_value", "sample_size" >>
    [] method = "parametric"  ->
         << "alpha", "alignment", "position_value", "parametric_sample" >> \o Covariance
    [] method = "monte_carlo" ->
         << "alpha", "simulation_count", "alignment", "position_value", "parametric_sample" >>
         \o Simulate

\* The same for a function of the first version.
SingleSample(method, pair, q) ==
  /\ method = "historical" => Passes("sample_size", pair, q)
  /\ method # "historical" => Passes("parametric_sample", pair, q)
  /\ method = "monte_carlo" => Passes("simulation_count", pair, q)

SingleReady(method, pair, q) ==
  Passes("alpha", pair, q) /\ Passes("position_value", pair, q) /\ SingleSample(method, pair, q)

SingleOpening(method) ==
  CASE method = "historical"  -> << "alpha", "position_value", "sample_size" >>
    [] method = "parametric"  -> << "alpha", "position_value", "parametric_sample" >>
    [] method = "monte_carlo" ->
         << "alpha", "position_value", "parametric_sample", "simulation_count", "seed" >>

\* Guards that are all there is before a figure is scaled: when they pass, and
\* that they break down only where the seed does.
IsOpening(s, ready, seeded, pair, q) ==
  /\ s \in Seq(Guard)
  /\ Fails(s, pair, q) <=> ~(ready /\ seeded)
  /\ Fails(s, pair, q) => Outcome(s, pair, q) \in IF ready THEN Bugs ELSE QuantRiskAIErrors

\* The end of simulate_portfolio_returns is an opening: its factor, then the seed.
LEMMA DrawOpening ==
  ASSUME NEW pair, NEW q
  PROVE  IsOpening(<< "cholesky", "seed" >>, Passes("cholesky", pair, q), Passes("seed", pair, q), pair, q)
<1> DEFINE s == << "cholesky", "seed" >>
<1>1. s \in Seq(Guard) /\ DOMAIN s = 1 .. 2 /\ Len(s) = 2 /\ s[1] = "cholesky" /\ s[2] = "seed"
  BY DEF Guard
<1> HIDE DEF s
<1>2. Fails(s, pair, q) <=> ~(Passes("cholesky", pair, q) /\ Passes("seed", pair, q))
  BY <1>1 DEF Fails
<1>3. ~Passes(s[1], pair, q) => Outcome(s, pair, q) = Raises("cholesky")
  <2>1. 1 \in 1 .. 2 /\ 1 .. 1 - 1 = {}
    OBVIOUS
  <2> QED BY <1>1, <2>1, OutcomeFirst
<1>4. Passes(s[1], pair, q) /\ ~Passes(s[2], pair, q) => Outcome(s, pair, q) = Raises("seed")
  <2>1. 2 \in 1 .. 2 /\ 1 .. 2 - 1 = {1}
    OBVIOUS
  <2> QED BY <1>1, <2>1, OutcomeFirst
<1>5. Raises("cholesky") \in QuantRiskAIErrors /\ Raises("seed") \in Bugs
  BY RaisesOf DEF Guard
<1> QED BY <1>1, <1>2, <1>3, <1>4, <1>5 DEF IsOpening, s

\* So is what the Monte Carlo functions of the first version check.
LEMMA SingleDrawOpening ==
  ASSUME NEW pair, NEW q
  PROVE  IsOpening(SingleOpening("monte_carlo"), SingleReady("monte_carlo", pair, q), Passes("seed", pair, q), pair, q)
<1> DEFINE first == << "alpha", "position_value", "parametric_sample", "simulation_count" >>
           last  == << "seed" >>
<1>1. SingleOpening("monte_carlo") = first \o last
  BY DEF SingleOpening
<1>2. first \in Seq(Guard \ {"seed", "sqrt"}) /\ last \in Seq(Guard)
  BY DEF Guard
<1>3. Fails(first, pair, q) <=> ~SingleReady("monte_carlo", pair, q)
  BY DEF Fails, SingleReady, SingleSample
<1>4. Fails(last, pair, q) <=> ~Passes("seed", pair, q)
  BY DEF Fails
<1>5. ~Passes("seed", pair, q) => Outcome(last, pair, q) \in Bugs
  <2>1. DOMAIN last = 1 .. 1 /\ last[1] = "seed" /\ 1 .. 1 - 1 = {} /\ 1 \in 1 .. 1
    OBVIOUS
  <2>2. ~Passes("seed", pair, q) => Outcome(last, pair, q) = Raises("seed")
    <3> HIDE DEF last
    <3> QED BY <2>1, OutcomeFirst
  <2> QED BY <2>2, RaisesOf
<1> HIDE DEF first, last
<1>6. first \in Seq(Guard) /\ (Fails(first, pair, q) => Outcome(first, pair, q) \in QuantRiskAIErrors)
  BY <1>2, PlainOutcome
<1>7. /\ first \o last \in Seq(Guard)
      /\ Outcome(first \o last, pair, q) = IF Fails(first, pair, q) THEN Outcome(first, pair, q) ELSE Outcome(last, pair, q)
      /\ Fails(first \o last, pair, q) <=> Fails(first, pair, q) \/ Fails(last, pair, q)
  BY <1>2, <1>6, OutcomeConcat
<1> QED BY <1>1, <1>3, <1>4, <1>5, <1>6, <1>7 DEF IsOpening

\* Plain guards before an opening make an opening.
LEMMA OpeningConcat ==
  ASSUME NEW s \in Seq(Guard \ {"seed", "sqrt"}), NEW t, NEW pair, NEW q,
         NEW ready \in BOOLEAN, NEW seeded \in BOOLEAN, IsOpening(t, ready, seeded, pair, q)
  PROVE  IsOpening(s \o t, ~Fails(s, pair, q) /\ ready, seeded, pair, q)
<1>1. s \in Seq(Guard) /\ (Fails(s, pair, q) => Outcome(s, pair, q) \in QuantRiskAIErrors)
  BY PlainOutcome
<1>2. /\ s \o t \in Seq(Guard)
      /\ Outcome(s \o t, pair, q) = IF Fails(s, pair, q) THEN Outcome(s, pair, q) ELSE Outcome(t, pair, q)
      /\ Fails(s \o t, pair, q) <=> Fails(s, pair, q) \/ Fails(t, pair, q)
  BY <1>1, OutcomeConcat DEF IsOpening
<1> QED BY <1>1, <1>2 DEF IsOpening

\* Guards none of which breaks down are an opening that needs no seed.
LEMMA PlainOpening ==
  ASSUME NEW s \in Seq(Guard \ {"seed", "sqrt"}), NEW pair, NEW q
  PROVE  IsOpening(s, ~Fails(s, pair, q), TRUE, pair, q)
BY PlainOutcome DEF IsOpening

\* The estimate of the covariance has two guards.
LEMMA CovarianceGuards ==
  ASSUME NEW pair, NEW q
  PROVE  /\ Covariance \in Seq(Guard \ {"seed", "sqrt"})
         /\ Fails(Covariance, pair, q) <=> \/ ~Passes("covariance_sample", pair, q)
                                     \/ ~Passes("covariance_finite", pair, q)
BY DEF Covariance, Guard, Fails

\* The opening of the historical method, in the engine and in the first version.
LEMMA HistoricalOpening ==
  ASSUME NEW pair, NEW q
  PROVE  /\ IsOpening(Opening("historical"), Ready("historical", pair, q), TRUE, pair, q)
         /\ IsOpening(SingleOpening("historical"), SingleReady("historical", pair, q), TRUE, pair, q)
<1> DEFINE s == << "alpha", "alignment", "position_value", "sample_size" >>
           t == << "alpha", "position_value", "sample_size" >>
<1>1. s \in Seq(Guard \ {"seed", "sqrt"}) /\ t \in Seq(Guard \ {"seed", "sqrt"})
  BY DEF Guard
<1>2. ~Fails(s, pair, q) <=> Ready("historical", pair, q)
  BY DEF Fails, Ready, Sample
<1>3. ~Fails(t, pair, q) <=> SingleReady("historical", pair, q)
  BY DEF Fails, SingleReady, SingleSample
<1>4. s = Opening("historical") /\ t = SingleOpening("historical")
  BY DEF Opening, SingleOpening
<1> HIDE DEF s, t
<1>5. IsOpening(s, ~Fails(s, pair, q), TRUE, pair, q) /\ IsOpening(t, ~Fails(t, pair, q), TRUE, pair, q)
  BY <1>1, PlainOpening
<1> QED BY <1>2, <1>3, <1>4, <1>5 DEF IsOpening

\* Of the parametric method.
LEMMA ParametricOpening ==
  ASSUME NEW pair, NEW q
  PROVE  /\ IsOpening(Opening("parametric"), Ready("parametric", pair, q), TRUE, pair, q)
         /\ IsOpening(SingleOpening("parametric"), SingleReady("parametric", pair, q), TRUE, pair, q)
<1> DEFINE s == << "alpha", "alignment", "position_value", "parametric_sample" >>
           t == << "alpha", "position_value", "parametric_sample" >>
<1>1. s \in Seq(Guard \ {"seed", "sqrt"}) /\ t \in Seq(Guard \ {"seed", "sqrt"})
  BY DEF Guard
<1>2. (~Fails(s, pair, q) /\ ~Fails(Covariance, pair, q)) <=> Ready("parametric", pair, q)
  <2>1. ~Fails(s, pair, q) <=> /\ Passes("alpha", pair, q) /\ Passes("alignment", pair, q)
                         /\ Passes("position_value", pair, q) /\ Passes("parametric_sample", pair, q)
    BY DEF Fails
  <2> HIDE DEF s
  <2> QED BY <2>1, CovarianceGuards DEF Ready, Sample
<1>3. ~Fails(t, pair, q) <=> SingleReady("parametric", pair, q)
  BY DEF Fails, SingleReady, SingleSample
<1>4. s \o Covariance = Opening("parametric") /\ t = SingleOpening("parametric")
  BY DEF Opening, SingleOpening
<1> HIDE DEF s, t
<1>5. IsOpening(t, ~Fails(t, pair, q), TRUE, pair, q)
  BY <1>1, PlainOpening
<1>6. IsOpening(Covariance, ~Fails(Covariance, pair, q), TRUE, pair, q)
  BY CovarianceGuards, PlainOpening
<1>7. IsOpening(s \o Covariance, ~Fails(s, pair, q) /\ ~Fails(Covariance, pair, q), TRUE, pair, q)
  <2>1. PICK covered \in BOOLEAN : covered <=> ~Fails(Covariance, pair, q)
    OBVIOUS
  <2>2. IsOpening(Covariance, covered, TRUE, pair, q)
    BY <1>6, <2>1 DEF IsOpening
  <2>3. IsOpening(s \o Covariance, ~Fails(s, pair, q) /\ covered, TRUE, pair, q)
    BY <1>1, <2>2, OpeningConcat
  <2> QED BY <2>1, <2>3 DEF IsOpening
<1> QED BY <1>2, <1>3, <1>4, <1>5, <1>7 DEF IsOpening

\* Of Monte Carlo: its factor and its seed come last.
LEMMA MonteCarloOpening ==
  ASSUME NEW pair, NEW q
  PROVE  IsOpening(Opening("monte_carlo"), Ready("monte_carlo", pair, q), Passes("seed", pair, q), pair, q)
<1> DEFINE s == << "alpha", "simulation_count", "alignment", "position_value", "parametric_sample" >>
           d == << "cholesky", "seed" >>
<1>1. s \in Seq(Guard \ {"seed", "sqrt"})
  BY DEF Guard
<1>2. ~Fails(s, pair, q) <=> /\ Passes("alpha", pair, q) /\ Passes("alignment", pair, q)
                       /\ Passes("position_value", pair, q) /\ Passes("parametric_sample", pair, q)
                       /\ Passes("simulation_count", pair, q)
  BY DEF Fails
<1>3. s \o (Covariance \o d) = Opening("monte_carlo")
  BY DEF Opening, Simulate
<1>4. IsOpening(d, Passes("cholesky", pair, q), Passes("seed", pair, q), pair, q)
  BY DrawOpening
<1> HIDE DEF s, d
<1>5. PICK root \in BOOLEAN, seeded \in BOOLEAN :
        (root <=> Passes("cholesky", pair, q)) /\ (seeded <=> Passes("seed", pair, q))
  OBVIOUS
<1>6. IsOpening(d, root, seeded, pair, q)
  BY <1>4, <1>5 DEF IsOpening
<1>7. IsOpening(Covariance \o d, ~Fails(Covariance, pair, q) /\ root, seeded, pair, q)
  BY <1>6, CovarianceGuards, OpeningConcat
<1>8. PICK covered \in BOOLEAN : covered <=> (~Fails(Covariance, pair, q) /\ root)
  OBVIOUS
<1>9. IsOpening(Covariance \o d, covered, seeded, pair, q)
  BY <1>7, <1>8 DEF IsOpening
<1>10. IsOpening(s \o (Covariance \o d), ~Fails(s, pair, q) /\ covered, seeded, pair, q)
  BY <1>1, <1>9, OpeningConcat
<1>11. ~Fails(s, pair, q) /\ covered <=> Ready("monte_carlo", pair, q)
  BY <1>2, <1>5, <1>8, CovarianceGuards DEF Ready, Sample
<1> QED BY <1>3, <1>5, <1>10, <1>11 DEF IsOpening

\* Each method's opening passes exactly when it is ready and seeded.
LEMMA Openings ==
  ASSUME NEW method \in RiskMethod, NEW pair, NEW q
  PROVE  /\ IsOpening(Opening(method), Ready(method, pair, q), Seeded(method, pair, q), pair, q)
         /\ IsOpening(SingleOpening(method), SingleReady(method, pair, q), Seeded(method, pair, q), pair, q)
<1>1. CASE method = "historical"
  BY <1>1, HistoricalOpening DEF IsOpening, Seeded
<1>2. CASE method = "parametric"
  BY <1>2, ParametricOpening DEF IsOpening, Seeded
<1>3. CASE method = "monte_carlo"
  BY <1>3, MonteCarloOpening, SingleDrawOpening DEF IsOpening, Seeded
<1> QED BY <1>1, <1>2, <1>3 DEF RiskMethod

\* scale_to_horizon and RiskResult: only the square root breaks down, and only
\* on a positive horizon.
LEMMA ReportOutcome ==
  ASSUME NEW pair, NEW q
  PROVE  LET s == Report IN
         /\ s \in Seq(Guard)
         /\ Scales(pair, q) => Outcome(s, pair, q) = "ok"
         /\ ~Scales(pair, q) =>
              Outcome(s, pair, q) \in IF Passes("horizon", pair, q) /\ ~Passes("sqrt", pair, q)
                                THEN Bugs ELSE QuantRiskAIErrors
<1> DEFINE s == Report
<1>1. /\ s \in Seq(Guard) /\ DOMAIN s = 1 .. 3
      /\ s[1] = "horizon" /\ s[2] = "sqrt" /\ s[3] = "figure"
  BY DEF Report, Guard
<1>2. /\ Raises("horizon") \in QuantRiskAIErrors /\ Raises("sqrt") \in Bugs
      /\ Raises("figure") \in QuantRiskAIErrors
  BY RaisesOf DEF Guard
<1> HIDE DEF s
<1>3. 1 \in 1 .. 3 /\ 2 \in 1 .. 3 /\ 1 .. 1 - 1 = {} /\ 1 .. 2 - 1 = {1}
  OBVIOUS
<1>4. ~Passes("horizon", pair, q) => Outcome(s, pair, q) = Raises("horizon")
  BY <1>1, <1>3, OutcomeFirst
<1>5. Passes("horizon", pair, q) /\ ~Passes("sqrt", pair, q) => Outcome(s, pair, q) = Raises("sqrt")
  BY <1>1, <1>3, OutcomeFirst
<1>6. Passes("horizon", pair, q) /\ Passes("sqrt", pair, q) /\ ~Passes("figure", pair, q) => Outcome(s, pair, q) = Raises("figure")
  <2>1. 1 .. 3 - 1 = {1, 2} /\ 3 \in 1 .. 3
    OBVIOUS
  <2>2. /\ Passes(s[1], pair, q) /\ Passes(s[2], pair, q) /\ ~Passes(s[3], pair, q)
        => ~Passes(s[3], pair, q) /\ \A j \in 1 .. 3 - 1 : Passes(s[j], pair, q)
    BY <2>1
  <2> QED BY <1>1, <2>1, <2>2, OutcomeFirst
<1>7. Scales(pair, q) => Outcome(s, pair, q) = "ok"
  <2>1. 1 .. 3 = {1, 2, 3}
    OBVIOUS
  <2> QED BY <1>1, <2>1, OutcomeFirst DEF Scales
<1> QED BY <1>1, <1>2, <1>4, <1>5, <1>6, <1>7 DEF s, Scales

\* A figure: what its opening refuses or breaks on, else what scaling it does.
IsFigure(outcome, ready, seeded, pair, q) ==
  /\ outcome \in {"ok"} \cup QuantRiskAIErrors \cup Bugs
  /\ outcome = "ok" <=> ready /\ seeded /\ Scales(pair, q)
  /\ outcome \in Bugs <=> ready /\ (seeded => Passes("horizon", pair, q) /\ ~Passes("sqrt", pair, q))

\* An opening followed by a report is a figure.
LEMMA FigureOf ==
  ASSUME NEW s, NEW ready, NEW seeded, NEW pair, NEW q,
         IsOpening(s, ready, seeded, pair, q)
  PROVE  IsFigure(Outcome(s \o Report, pair, q), ready, seeded, pair, q)
<1>1. Outcome(s \o Report, pair, q)
        = IF Fails(s, pair, q) THEN Outcome(s, pair, q) ELSE Outcome(Report, pair, q)
  BY ReportOutcome, OutcomeConcat DEF IsOpening
<1>2. "ok" \notin QuantRiskAIErrors \cup Bugs /\ QuantRiskAIErrors \cap Bugs = {}
  BY DEF QuantRiskAIErrors, Bugs
<1>3. CASE Fails(s, pair, q)
  BY <1>1, <1>2, <1>3 DEF IsOpening, IsFigure
<1>4. CASE ~Fails(s, pair, q)
  BY <1>1, <1>2, <1>4, ReportOutcome DEF IsOpening, IsFigure, Scales
<1> QED BY <1>3, <1>4

\* _ENGINE: every function is the opening of its method and the report of its metric.
LEMMA EngineIs ==
  ASSUME NEW method \in RiskMethod, NEW metric \in RiskMetric
  PROVE  /\ Engine(<< method, metric >>) = Opening(method) \o Report
         /\ (IF metric = "VaR" THEN VarEndpoint(method) ELSE ExpectedShortfallEndpoint(method))
              = SingleOpening(method) \o Report
<1>1. metric \in {"VaR", "ES"}
  BY DEF RiskMetric
<1>2. CASE method = "historical"
  BY <1>1, <1>2 DEF Engine, Opening, SingleOpening, HistoricalVar, HistoricalES,
     VarEndpoint, ExpectedShortfallEndpoint, SingleHistoricalVar, SingleHistoricalES
<1>3. CASE method = "parametric"
  BY <1>1, <1>3 DEF Engine, Opening, SingleOpening, ParametricVar, ParametricES,
     VarEndpoint, ExpectedShortfallEndpoint, SingleParametricVar, SingleParametricES
<1>4. CASE method = "monte_carlo"
  BY <1>1, <1>4 DEF Engine, Opening, SingleOpening, MonteCarloVar, MonteCarloES,
     VarEndpoint, ExpectedShortfallEndpoint, SingleMonteCarloVar, SingleMonteCarloES
<1> QED BY <1>2, <1>3, <1>4 DEF RiskMethod

\* When a pair of the engine succeeds and when it breaks down.
LEMMA ComputeIs ==
  ASSUME NEW pair \in Pair, NEW q
  PROVE  /\ pair[1] \in RiskMethod
         /\ IsFigure(Compute(pair, q), Ready(pair[1], pair, q), Seeded(pair[1], pair, q), pair, q)
<1>1. PICK method \in RiskMethod, metric \in RiskMetric :
        pair = << method, metric >> /\ method = pair[1]
  BY DEF Pair
<1>2. Compute(pair, q) = Outcome(Opening(method) \o Report, pair, q)
  BY <1>1, EngineIs DEF Compute
<1>3. IsOpening(Opening(method), Ready(method, pair, q), Seeded(method, pair, q), pair, q)
  BY Openings
<1>4. IsFigure(Outcome(Opening(method) \o Report, pair, q),
               Ready(method, pair, q), Seeded(method, pair, q), pair, q)
  BY <1>3, FigureOf
<1> QED BY <1>1, <1>2, <1>4, Zenon

\* The same for a function of the first version.
LEMMA V1Is ==
  ASSUME NEW pair \in Pair, NEW q, q.portfolio # "invalid"
  PROVE  IsFigure(V1(pair, q), SingleReady(pair[1], pair, q), Seeded(pair[1], pair, q), pair, q)
<1>1. PICK method \in RiskMethod, metric \in RiskMetric :
        pair = << method, metric >> /\ method = pair[1] /\ metric = pair[2]
  BY DEF Pair
<1>2. V1(pair, q) = Outcome(SingleOpening(method) \o Report, pair, q)
  BY <1>1, EngineIs DEF V1
<1>3. IsOpening(SingleOpening(method), SingleReady(method, pair, q), Seeded(method, pair, q), pair, q)
  BY Openings
<1>4. IsFigure(Outcome(SingleOpening(method) \o Report, pair, q),
               SingleReady(method, pair, q), Seeded(method, pair, q), pair, q)
  BY <1>3, FigureOf
<1> QED BY <1>1, <1>2, <1>4, Zenon

-----------------------------------------------------------------------------
(* PortfolioRisk: the pairs                                                *)

\* Division with remainder.
LEMMA DivMod ==
  ASSUME NEW x \in Nat, NEW n \in Nat \ {0}
  PROVE  x \div n \in Nat /\ x % n \in 0 .. n - 1 /\ x = n * (x \div n) + (x % n)
OBVIOUS

\* A quotient is below the number of rows.
LEMMA DivBelow ==
  ASSUME NEW x \in Nat, NEW m \in Nat, NEW n \in Nat \ {0}, x < m * n
  PROVE  x \div n < m
<1>1. PICK d \in Nat, r \in 0 .. n - 1 : d = x \div n /\ x = n * d + r
  BY DivMod
<1>2. m <= d => m * n <= d * n
  OBVIOUS
<1> QED BY <1>1, <1>2

\* A quotient never falls.
LEMMA DivMonotone ==
  ASSUME NEW x \in Nat, NEW y \in Nat, NEW n \in Nat \ {0}, x <= y
  PROVE  x \div n <= y \div n
<1>1. PICK d \in Nat, r \in 0 .. n - 1 : d = x \div n /\ x = n * d + r
  BY DivMod
<1>2. PICK e \in Nat, u \in 0 .. n - 1 : e = y \div n /\ y = n * e + u
  BY DivMod
<1>3. e + 1 <= d => n * (e + 1) <= n * d
  OBVIOUS
<1>4. n * (e + 1) = n * e + n
  OBVIOUS
<1> QED BY <1>1, <1>2, <1>3, <1>4

\* The fields of a request that list methods and metrics.
LEMMA QueryIs ==
  ASSUME NEW q \in Query
  PROVE  /\ q \in QueryType
         /\ q.methods \in Seq(RiskMethod) /\ q.metrics \in Seq(RiskMetric)
         /\ Len(q.methods) \in Nat /\ Len(q.metrics) \in Nat
         /\ DOMAIN q.methods = 1 .. Len(q.methods) /\ DOMAIN q.metrics = 1 .. Len(q.metrics)
<1>1. q \in QueryType
  BY QueryAssumption
<1>2. q.methods \in Seq(RiskMethod) /\ q.metrics \in Seq(RiskMetric)
  BY <1>1 DEF QueryType
<1> QED BY <1>1, <1>2, LenProperties

\* The i-th pair is in row (i - 1) div n and column (i - 1) mod n.
LEMMA PairAt ==
  ASSUME NEW q \in Query
  PROVE  \A i \in 1 .. Len(q.methods) * Len(q.metrics) :
           \E n \in Nat \ {0}, d \in Nat, r \in Nat :
             /\ n = Len(q.metrics) /\ d = (i - 1) \div n
             /\ i - 1 = n * d + r
             /\ 1 + d \in 1 .. Len(q.methods) /\ 1 + r \in 1 .. n
             /\ Pairs(q)[i] = << q.methods[1 + d], q.metrics[1 + r] >>
<1> TAKE i \in 1 .. Len(q.methods) * Len(q.metrics)
<1>1. PICK m \in Nat, n \in Nat : m = Len(q.methods) /\ n = Len(q.metrics)
  BY QueryIs
<1>2. PICK k \in Nat : k = m * n /\ k = Len(q.methods) * Len(q.metrics)
  <2>1. \A a, b \in Nat : a * b \in Nat
    OBVIOUS
  <2> QED BY <1>1, <2>1
<1>3. i \in 1 .. k
  BY <1>2
<1>4. n # 0
  <2>1. n = 0 => k = 0
    BY <1>2
  <2> QED BY <1>3, <2>1
<1>5. PICK x \in Nat : x = i - 1 /\ x < k
  BY <1>3
<1>6. PICK d \in Nat, r \in 0 .. n - 1 : d = x \div n /\ r = x % n /\ x = n * d + r
  BY <1>4, DivMod
<1>7. d < m
  BY <1>2, <1>4, <1>5, <1>6, DivBelow
<1>8. Pairs(q)[i] = << q.methods[1 + d], q.metrics[1 + r] >>
  BY <1>1, <1>5, <1>6 DEF Pairs
<1>9. 1 + d \in 1 .. m /\ 1 + r \in 1 .. n /\ n \in Nat \ {0} /\ r \in Nat
  BY <1>4, <1>7
<1> QED BY <1>1, <1>5, <1>6, <1>8, <1>9

\* The pairs requested are a sequence of pairs, rows times columns of them.
LEMMA PairsAre ==
  ASSUME NEW q \in Query
  PROVE  /\ Len(q.methods) * Len(q.metrics) \in Nat
         /\ Pairs(q) \in Seq(Pair) /\ Len(Pairs(q)) = Len(q.methods) * Len(q.metrics)
         /\ DOMAIN Pairs(q) = 1 .. Len(Pairs(q))
         /\ \A i \in 1 .. Len(Pairs(q)) : Pairs(q)[i] \in Pair
<1>1. PICK k \in Nat : k = Len(q.methods) * Len(q.metrics)
  <2>1. \A a, b \in Nat : a * b \in Nat
    OBVIOUS
  <2> QED BY <2>1, QueryIs
<1>2. ASSUME NEW i \in 1 .. k PROVE Pairs(q)[i] \in Pair
  <2>1. PICK n \in Nat \ {0}, d \in Nat, r \in Nat :
        /\ n = Len(q.metrics) /\ d = (i - 1) \div n
        /\ i - 1 = n * d + r
        /\ 1 + d \in 1 .. Len(q.methods) /\ 1 + r \in 1 .. n
        /\ Pairs(q)[i] = << q.methods[1 + d], q.metrics[1 + r] >>
    BY <1>1, PairAt, Zenon
  <2>2. q.methods[1 + d] \in RiskMethod /\ q.metrics[1 + r] \in RiskMetric
    BY <2>1, QueryIs, ElementOfSeq
  <2>3. PICK method \in RiskMethod, metric \in RiskMetric : Pairs(q)[i] = << method, metric >>
    BY <2>1, <2>2
  <2> QED BY <2>3 DEF Pair
<1>3. Pairs(q) \in [1 .. k -> Pair]
  <2>1. DOMAIN Pairs(q) = 1 .. k /\ Pairs(q) = [ i \in 1 .. k |-> Pairs(q)[i] ]
    BY <1>1 DEF Pairs
  <2> QED BY <1>2, <2>1
<1>4. Pairs(q) \in Seq(Pair)
  BY <1>3, SeqDef
<1>5. Len(Pairs(q)) = k
  BY <1>3, <1>4, LenProperties
<1> QED BY <1>1, <1>2, <1>3, <1>4, <1>5

\* No pair is requested twice, and the methods come in the order given.
LEMMA PairsDistinct ==
  ASSUME NEW q \in Query, Accepted(q)
  PROVE  Distinct(Pairs(q))
<1>1. SUFFICES ASSUME NEW i \in 1 .. Len(Pairs(q)), NEW j \in 1 .. Len(Pairs(q)),
                      Pairs(q)[i] = Pairs(q)[j]
               PROVE  i = j
  BY PairsAre DEF Distinct
<1>2. i \in 1 .. Len(q.methods) * Len(q.metrics) /\ j \in 1 .. Len(q.methods) * Len(q.metrics)
  BY PairsAre
<1>3. PICK n \in Nat \ {0}, d \in Nat, r \in Nat :
        /\ n = Len(q.metrics) /\ d = (i - 1) \div n
        /\ i - 1 = n * d + r
        /\ 1 + d \in 1 .. Len(q.methods) /\ 1 + r \in 1 .. n
        /\ Pairs(q)[i] = << q.methods[1 + d], q.metrics[1 + r] >>
  BY <1>2, PairAt, Zenon
<1>4. PICK k \in Nat \ {0}, e \in Nat, u \in Nat :
        /\ k = Len(q.metrics) /\ e = (j - 1) \div k
        /\ j - 1 = k * e + u
        /\ 1 + e \in 1 .. Len(q.methods) /\ 1 + u \in 1 .. k
        /\ Pairs(q)[j] = << q.methods[1 + e], q.metrics[1 + u] >>
  BY <1>2, PairAt, Zenon
<1>5. << q.methods[1 + d], q.metrics[1 + r] >> = << q.methods[1 + e], q.metrics[1 + u] >>
  BY <1>1, <1>3, <1>4, Zenon
<1>6. q.methods[1 + d] = q.methods[1 + e] /\ q.metrics[1 + r] = q.metrics[1 + u]
  BY <1>5
<1>7. 1 + d = 1 + e /\ 1 + r = 1 + u
  BY <1>3, <1>4, <1>6, QueryIs DEF Accepted, Distinct
<1>8. d = e /\ r = u
  BY <1>7
<1>9. i - 1 = j - 1
  <2>1. n = k /\ i - 1 = n * d + r /\ j - 1 = k * e + u
    BY <1>3, <1>4
  <2> QED BY <1>8, <2>1, Zenon
<1>10. i \in Int /\ j \in Int
  BY PairsAre
<1> QED BY <1>9, <1>10

-----------------------------------------------------------------------------
(* PortfolioRisk: the loop and its answer                                  *)

\* What a figure may come to.
Answers == {"ok"} \cup QuantRiskAIErrors \cup Bugs

\* A figure comes to an answer.
LEMMA ComputeType ==
  ASSUME NEW pair \in Pair, NEW q
  PROVE  Compute(pair, q) \in Answers
BY ComputeIs DEF IsFigure, Answers

Dispatched(q) ==
  Accepted(q) /\ q.portfolio = "valid" /\ SharedPreconditions(q)

\* The pairs among the first k that succeed, and those that do not.
Succeeding(q, k) == { Pairs(q)[i] : i \in { j \in 1 .. k : Compute(Pairs(q)[j], q) = "ok" } }
Failing(q, k)    == { Pairs(q)[i] : i \in { j \in 1 .. k : Compute(Pairs(q)[j], q) # "ok" } }

\* What the loop has collected after `done` pairs: each pair once, on the list
\* its outcome puts it, and as long as nothing failed the pairs as requested.
Loop ==
  /\ done \in 0 .. Len(Pairs(query))
  /\ results \in Seq(Pair)
  /\ failures \in Seq([pair : Pair, error : QuantRiskAIErrors])
  /\ Len(results) + Len(failures) = done
  /\ { results[i] : i \in DOMAIN results } = Succeeding(query, done)
  /\ { failures[i].pair : i \in DOMAIN failures } = Failing(query, done)
  /\ \A i \in DOMAIN failures : failures[i].error = Compute(failures[i].pair, query)
  /\ \A i \in 1 .. done : Compute(Pairs(query)[i], query) \notin Bugs
  /\ failures = << >> => results = SubSeq(Pairs(query), 1, done)

\* How the request ended.
Refused == ~Dispatched(query) /\ answer = [None EXCEPT !.status = 422]

Broken ==
  /\ Dispatched(query) /\ answer = [None EXCEPT !.status = 500]
  /\ done < Len(Pairs(query)) /\ Compute(Pairs(query)[done + 1], query) \in Bugs

Responded ==
  /\ Dispatched(query) /\ done = Len(Pairs(query))
  /\ answer = IF failures # << >>
              THEN [status |-> 422, results |-> << >>, failures |-> failures, withheld |-> results]
              ELSE [status |-> 200, results |-> results, failures |-> << >>, withheld |-> << >>]

RiskInv ==
  /\ query \in Query
  /\ phase \in {"received", "computing", "answered"}
  /\ Loop
  /\ phase = "received" => done = 0 /\ results = << >> /\ failures = << >> /\ answer = None
  /\ phase = "computing" => Dispatched(query) /\ answer = None
  /\ phase = "answered" => Refused \/ Broken \/ Responded

\* Appending adds one element to what a sequence lists.
LEMMA AppendLists ==
  ASSUME NEW S, NEW s \in Seq(S), NEW x \in S
  PROVE  /\ Append(s, x) \in Seq(S) /\ Append(s, x) # << >>
         /\ Len(Append(s, x)) = Len(s) + 1 /\ DOMAIN Append(s, x) = 1 .. Len(s) + 1
         /\ \A i \in 1 .. Len(s) : Append(s, x)[i] = s[i]
         /\ Append(s, x)[Len(s) + 1] = x
         /\ Len(s) \in Nat /\ DOMAIN s = 1 .. Len(s)
BY AppendProperties, LenProperties

\* One more pair puts itself among those that succeed or those that do not.
LEMMA SucceedingGrows ==
  ASSUME NEW q, NEW k \in Nat
  PROVE  /\ Compute(Pairs(q)[k + 1], q) = "ok" =>
              /\ Succeeding(q, k + 1) = Succeeding(q, k) \cup {Pairs(q)[k + 1]}
              /\ Failing(q, k + 1) = Failing(q, k)
         /\ Compute(Pairs(q)[k + 1], q) # "ok" =>
              /\ Succeeding(q, k + 1) = Succeeding(q, k)
              /\ Failing(q, k + 1) = Failing(q, k) \cup {Pairs(q)[k + 1]}
<1>1. 1 .. k + 1 = (1 .. k) \cup {k + 1}
  OBVIOUS
<1> QED BY <1>1 DEF Succeeding, Failing

\* Every step of the handler keeps the invariant.
LEMMA RiskInductive == Spec => []RiskInv
<1>1. Init => RiskInv
  <2> SUFFICES ASSUME Init PROVE RiskInv
    OBVIOUS
  <2>1. query \in Query /\ done = 0 /\ results = << >> /\ failures = << >>
    BY DEF Init
  <2>2. Len(Pairs(query)) \in Nat
    BY <2>1, PairsAre
  <2>3. Succeeding(query, 0) = {} /\ Failing(query, 0) = {} /\ 1 .. 0 = {}
    BY DEF Succeeding, Failing
  <2>4. /\ DOMAIN results = {} /\ DOMAIN failures = {} /\ Len(results) = 0 /\ Len(failures) = 0
        /\ results \in Seq(Pair) /\ failures \in Seq([pair : Pair, error : QuantRiskAIErrors])
    BY <2>1, EmptySeq
  <2>5. SubSeq(Pairs(query), 1, 0) = << >>
    BY <2>1, PairsAre, SubSeqEmpty
  <2>6. Loop
    BY <2>1, <2>2, <2>3, <2>4, <2>5 DEF Loop
  <2> QED BY <2>6 DEF RiskInv, Init
<1>2. RiskInv /\ [Next]_vars => RiskInv'
  <2> SUFFICES ASSUME RiskInv, [Next]_vars PROVE RiskInv'
    OBVIOUS
  <2>1. query \in Query /\ query' = query /\ Loop
    BY DEF RiskInv, Next, Step, Refuse, Dispatch, PairSucceeds, PairFails, PairBreaks, Respond, vars
  <2>2. /\ Pairs(query)' = Pairs(query) /\ Dispatched(query)' = Dispatched(query)
        /\ \A p : Compute(p, query)' = Compute(p, query)
        /\ None' = None /\ Bugs' = Bugs
    BY <2>1
  <2>3. done' = done /\ results' = results /\ failures' = failures => Loop'
    <3> SUFFICES ASSUME done' = done, results' = results, failures' = failures PROVE Loop'
      OBVIOUS
    <3>1. /\ Succeeding(query, done)' = Succeeding(query, done)
          /\ Failing(query, done)' = Failing(query, done)
      BY <2>1 DEF Succeeding, Failing
    <3> QED BY <2>1, <2>2, <3>1 DEF Loop
  <2>4. CASE Refuse
    <3>1. answer' = [None EXCEPT !.status = 422] /\ phase' = "answered" /\ ~Dispatched(query)
      BY <2>4 DEF Refuse, Reply, None, Dispatched
    <3> QED BY <2>1, <2>2, <2>3, <2>4, <3>1 DEF Refuse, RiskInv, Refused
  <2>5. CASE Dispatch
    BY <2>1, <2>2, <2>3, <2>5 DEF Dispatch, RiskInv, Dispatched
  <2>6. ASSUME phase = "computing", done < Len(Pairs(query))
        PROVE  /\ done \in Nat /\ done + 1 \in 1 .. Len(Pairs(query)) /\ Current \in Pair
               /\ Current = Pairs(query)[done + 1]
    <3>1. done \in Nat /\ done + 1 \in 1 .. Len(Pairs(query))
      BY <2>1, <2>6, PairsAre DEF Loop
    <3> QED BY <2>1, <3>1, PairsAre DEF Current
  <2>7. CASE PairSucceeds
    <3>1. /\ done' = done + 1 /\ results' = Append(results, Current) /\ failures' = failures
          /\ phase' = phase /\ answer' = answer /\ phase = "computing" /\ done < Len(Pairs(query))
          /\ Compute(Current, query) = "ok"
      BY <2>7 DEF PairSucceeds
    <3>2. PICK x \in Pair : /\ x = Current /\ x = Pairs(query)[done + 1]
                            /\ done \in Nat /\ done + 1 \in 1 .. Len(Pairs(query))
      BY <2>6, <3>1
    <3>3. /\ Succeeding(query, done + 1) = Succeeding(query, done) \cup {x}
          /\ Failing(query, done + 1) = Failing(query, done)
      BY <3>1, <3>2, SucceedingGrows
    <3>4. /\ results' \in Seq(Pair) /\ Len(results') = Len(results) + 1
          /\ { results'[i] : i \in DOMAIN results' } = { results[i] : i \in DOMAIN results } \cup {x}
          /\ Len(results) \in Nat
      <4>1. results \in Seq(Pair)
        BY <2>1 DEF Loop
      <4> QED BY <3>1, <3>2, <4>1, AppendLists
    <3>5. failures' = << >> => results' = SubSeq(Pairs(query), 1, done')
      <4> SUFFICES ASSUME failures = << >> PROVE results' = SubSeq(Pairs(query), 1, done + 1)
        BY <3>1
      <4>1. results = SubSeq(Pairs(query), 1, done) /\ results \in Seq(Pair)
        BY <2>1 DEF Loop
      <4>2. Append(results, x) = results \o << x >>
        BY <4>1, AppendIsConcat
      <4>3. SubSeq(Pairs(query), 1, done + 1)
              = SubSeq(Pairs(query), 1, (done + 1) - 1) \o << Pairs(query)[done + 1] >>
        <5>1. PICK k \in Nat : k = Len(Pairs(query))
          BY <2>1, PairsAre
        <5>2. 1 \in 1 .. k /\ done + 1 \in 1 .. k
          BY <3>2, <5>1
        <5>3. Pairs(query) \in Seq(Pair)
          BY <2>1, PairsAre
        <5> QED BY <5>1, <5>2, <5>3, SubSeqRecursiveSecond
      <4>4. (done + 1) - 1 = done
        BY <3>2
      <4> QED BY <3>1, <3>2, <4>1, <4>2, <4>3, <4>4
    <3>6. \A i \in 1 .. done + 1 : Compute(Pairs(query)[i], query) \notin Bugs
      <4>1. "ok" \notin Bugs
        BY DEF Bugs
      <4> QED BY <2>1, <3>1, <3>2, <4>1 DEF Loop
    <3>7. Loop'
      <4>1. /\ Succeeding(query, done)' = Succeeding(query, done + 1)
            /\ Failing(query, done)' = Failing(query, done + 1)
        BY <2>1, <3>1 DEF Succeeding, Failing
      <4>2. /\ { results[i] : i \in DOMAIN results }' = Succeeding(query, done)'
            /\ { failures[i].pair : i \in DOMAIN failures }' = Failing(query, done)'
        <5>1. /\ { results[i] : i \in DOMAIN results } = Succeeding(query, done)
              /\ { failures[i].pair : i \in DOMAIN failures } = Failing(query, done)
          BY <2>1 DEF Loop
        <5>2. { results'[i] : i \in DOMAIN results' } = Succeeding(query, done + 1)
          BY <3>3, <3>4, <5>1, Zenon
        <5>3. { failures'[i].pair : i \in DOMAIN failures' } = Failing(query, done + 1)
          <6>1. { failures'[i].pair : i \in DOMAIN failures' }
                  = { failures[i].pair : i \in DOMAIN failures }
            BY <3>1
          <6> QED BY <3>3, <5>1, <6>1, Zenon
        <5> QED BY <4>1, <5>2, <5>3
      <4>3. Len(failures) \in Nat /\ Len(results') + Len(failures') = done'
        <5>1. Len(failures) \in Nat /\ Len(results) \in Nat /\ Len(results) + Len(failures) = done
          BY <2>1, LenProperties DEF Loop
        <5> QED BY <5>1, <3>1, <3>4
      <4>4. done' \in 0 .. Len(Pairs(query))
        BY <3>1, <3>2
      <4>5. \A i \in DOMAIN failures : failures[i].error = Compute(failures[i].pair, query)
        BY <2>1 DEF Loop
      <4>6. failures' \in Seq([pair : Pair, error : QuantRiskAIErrors])
        BY <2>1, <3>1 DEF Loop
      <4> QED BY <2>1, <2>2, <3>1, <3>4, <3>5, <3>6, <4>2, <4>3, <4>4, <4>5, <4>6 DEF Loop
    <3> QED BY <2>1, <2>2, <3>1, <3>7 DEF RiskInv
  <2>8. CASE PairFails
    <3>1. PICK r : /\ r = [pair |-> Current, error |-> Compute(Current, query)]
                   /\ done' = done + 1 /\ results' = results /\ failures' = Append(failures, r)
                   /\ phase' = phase /\ answer' = answer
                   /\ phase = "computing" /\ done < Len(Pairs(query))
                   /\ Compute(Current, query) \in QuantRiskAIErrors
      BY <2>8 DEF PairFails
    <3>2. PICK x \in Pair : /\ x = Current /\ x = Pairs(query)[done + 1]
                            /\ done \in Nat /\ done + 1 \in 1 .. Len(Pairs(query))
      BY <2>6, <3>1
    <3>3. /\ Succeeding(query, done + 1) = Succeeding(query, done)
          /\ Failing(query, done + 1) = Failing(query, done) \cup {x}
      <4>1. "ok" \notin QuantRiskAIErrors
        BY DEF QuantRiskAIErrors
      <4> QED BY <3>1, <3>2, <4>1, SucceedingGrows
    <3>4. /\ r \in [pair : Pair, error : QuantRiskAIErrors] /\ r.pair = x /\ r.error = Compute(x, query)
      BY <3>1, <3>2
    <3>5. /\ failures' \in Seq([pair : Pair, error : QuantRiskAIErrors])
          /\ Len(failures') = Len(failures) + 1 /\ failures' # << >>
          /\ { failures'[i].pair : i \in DOMAIN failures' }
               = { failures[i].pair : i \in DOMAIN failures } \cup {x}
          /\ \A i \in DOMAIN failures' : failures'[i].error = Compute(failures'[i].pair, query)
      <4>1. /\ failures \in Seq([pair : Pair, error : QuantRiskAIErrors])
            /\ \A i \in DOMAIN failures : failures[i].error = Compute(failures[i].pair, query)
        BY <2>1 DEF Loop
      <4>2. /\ failures' \in Seq([pair : Pair, error : QuantRiskAIErrors]) /\ failures' # << >>
            /\ Len(failures') = Len(failures) + 1 /\ DOMAIN failures' = 1 .. Len(failures) + 1
            /\ \A i \in 1 .. Len(failures) : failures'[i] = failures[i]
            /\ failures'[Len(failures) + 1] = r
            /\ Len(failures) \in Nat /\ DOMAIN failures = 1 .. Len(failures)
        BY <3>1, <3>4, <4>1, AppendLists
      <4> QED BY <3>4, <4>1, <4>2
    <3>6. \A i \in 1 .. done + 1 : Compute(Pairs(query)[i], query) \notin Bugs
      <4>1. QuantRiskAIErrors \cap Bugs = {}
        BY DEF QuantRiskAIErrors, Bugs
      <4> QED BY <2>1, <3>1, <3>2, <4>1 DEF Loop
    <3>7. Loop'
      <4>1. /\ Succeeding(query, done)' = Succeeding(query, done + 1)
            /\ Failing(query, done)' = Failing(query, done + 1)
        BY <2>1, <3>1 DEF Succeeding, Failing
      <4>2. /\ { results[i] : i \in DOMAIN results }' = Succeeding(query, done)'
            /\ { failures[i].pair : i \in DOMAIN failures }' = Failing(query, done)'
        <5>1. /\ { results[i] : i \in DOMAIN results } = Succeeding(query, done)
              /\ { failures[i].pair : i \in DOMAIN failures } = Failing(query, done)
          BY <2>1 DEF Loop
        <5>2. { results'[i] : i \in DOMAIN results' } = Succeeding(query, done + 1)
          <6>1. { results'[i] : i \in DOMAIN results' } = { results[i] : i \in DOMAIN results }
            BY <3>1
          <6> QED BY <3>3, <5>1, <6>1, Zenon
        <5>3. { failures'[i].pair : i \in DOMAIN failures' } = Failing(query, done + 1)
          BY <3>3, <3>5, <5>1, Zenon
        <5> QED BY <4>1, <5>2, <5>3
      <4>3. Len(results') + Len(failures') = done'
        <5>1. Len(failures) \in Nat /\ Len(results) \in Nat /\ Len(results) + Len(failures) = done
          BY <2>1, LenProperties DEF Loop
        <5> QED BY <5>1, <3>1, <3>5
      <4>4. done' \in 0 .. Len(Pairs(query))
        BY <3>1, <3>2
      <4>5. results' \in Seq(Pair)
        BY <2>1, <3>1 DEF Loop
      <4> QED BY <2>1, <2>2, <3>1, <3>5, <3>6, <4>2, <4>3, <4>4, <4>5 DEF Loop
    <3> QED BY <2>1, <2>2, <3>1, <3>7 DEF RiskInv
  <2>9. CASE PairBreaks
    <3>1. answer' = [None EXCEPT !.status = 500] /\ phase' = "answered" /\ Dispatched(query)
      BY <2>9 DEF PairBreaks, Reply, None, RiskInv
    <3>2. Compute(Pairs(query)[done + 1], query) \in Bugs /\ done < Len(Pairs(query))
      BY <2>9 DEF PairBreaks, Current
    <3> QED BY <2>1, <2>2, <2>3, <2>9, <3>1, <3>2 DEF PairBreaks, RiskInv, Broken
  <2>10. CASE Respond
    <3>1. /\ phase' = "answered" /\ Dispatched(query) /\ done = Len(Pairs(query))
          /\ answer' = IF failures # << >>
                       THEN [status |-> 422, results |-> << >>,
                             failures |-> failures, withheld |-> results]
                       ELSE [status |-> 200, results |-> results,
                             failures |-> << >>, withheld |-> << >>]
      BY <2>10 DEF Respond, Reply, RiskInv
    <3>2. done' = done /\ results' = results /\ failures' = failures
      BY <2>10 DEF Respond
    <3> QED BY <2>1, <2>2, <2>3, <3>1, <3>2 DEF RiskInv, Responded
  <2>11. CASE UNCHANGED vars
    <3>1. /\ phase' = phase /\ answer' = answer
          /\ done' = done /\ results' = results /\ failures' = failures
      BY <2>11 DEF vars
    <3> QED BY <2>1, <2>2, <2>3, <3>1 DEF RiskInv, Refused, Broken, Responded
  <2> QED BY <2>4, <2>5, <2>7, <2>8, <2>9, <2>10, <2>11 DEF Next, Step
<1> QED BY <1>1, <1>2, PTL DEF Spec

\* A list in request order stays so when the next pair is added to it.
OneMore(more, list, n, k, q) ==
  /\ k + 1 \in 1 .. Len(Pairs(q)) /\ DOMAIN list = 1 .. n /\ DOMAIN more = 1 .. n + 1
  /\ \A i \in 1 .. n : more[i] = list[i]
  /\ more[n + 1] = Pairs(q)[k + 1]
  /\ \A i \in 1 .. n : \E a \in 1 .. k : list[i] = Pairs(q)[a]

LEMMA OrderGrows ==
  ASSUME NEW q \in Query, Accepted(q), NEW k \in Nat, NEW n \in Nat, NEW list, NEW more,
         OneMore(more, list, n, k, q), InRequestOrder(list, q)
  PROVE  InRequestOrder(more, q)
<1> USE DEF OneMore
<1>1. PICK l \in Nat : l = Len(Pairs(q)) /\ DOMAIN Pairs(q) = 1 .. l /\ k + 1 \in 1 .. l
  BY PairsAre
<1>2. \A a, b \in 1 .. l : Pairs(q)[a] = Pairs(q)[b] => a = b
  BY <1>1, PairsDistinct DEF Distinct
<1> SUFFICES ASSUME NEW i \in 1 .. n + 1, NEW j \in 1 .. n + 1, NEW a \in 1 .. l, NEW b \in 1 .. l,
                    i < j, more[i] = Pairs(q)[a], more[j] = Pairs(q)[b]
             PROVE  a < b
  BY <1>1 DEF InRequestOrder
<1>3. i \in 1 .. n /\ list[i] = Pairs(q)[a]
  OBVIOUS
<1>4. CASE j \in 1 .. n
  BY <1>1, <1>3, <1>4 DEF InRequestOrder
<1>5. CASE j = n + 1
  <2>1. b = k + 1
    BY <1>1, <1>2, <1>5
  <2>2. PICK c \in 1 .. k : list[i] = Pairs(q)[c]
    BY <1>3
  <2>3. c \in 1 .. l /\ Pairs(q)[c] = Pairs(q)[a]
    BY <1>1, <1>3, <2>2
  <2>4. c = a
    BY <1>2, <2>3
  <2> QED BY <2>1, <2>4
<1> QED BY <1>4, <1>5

\* What succeeded and what failed are listed in the order of the request.
OrderInv == InRequestOrder(results, query) /\ InRequestOrder(FailedPairs(failures), query)

LEMMA OrderInductive == Spec => []OrderInv
<1>1. Init => OrderInv
  <2> SUFFICES ASSUME Init PROVE OrderInv
    OBVIOUS
  <2>1. DOMAIN results = {} /\ DOMAIN FailedPairs(failures) = {}
    BY DEF Init, FailedPairs
  <2> QED BY <2>1 DEF OrderInv, InRequestOrder
<1>2. RiskInv /\ OrderInv /\ [Next]_vars => OrderInv'
  <2> SUFFICES ASSUME RiskInv, OrderInv, [Next]_vars PROVE OrderInv'
    OBVIOUS
  <2>1. query \in Query /\ query' = query /\ Loop
    BY DEF RiskInv, Next, Step, Refuse, Dispatch, PairSucceeds, PairFails, PairBreaks, Respond, vars
  <2>2. CASE results' = results /\ failures' = failures
    BY <2>1, <2>2 DEF OrderInv, InRequestOrder, FailedPairs
  <2>3. ASSUME phase = "computing", done < Len(Pairs(query))
        PROVE  /\ done \in Nat /\ done + 1 \in 1 .. Len(Pairs(query)) /\ Accepted(query)
               /\ Current = Pairs(query)[done + 1] /\ Current \in Pair
    <3>1. done \in Nat /\ done + 1 \in 1 .. Len(Pairs(query))
      BY <2>1, <2>3, PairsAre DEF Loop
    <3> QED BY <2>1, <2>3, <3>1, PairsAre DEF Current, RiskInv, Dispatched
  <2>4. CASE PairSucceeds
    <3>1. PICK n \in Nat : n = Len(results) /\ DOMAIN results = 1 .. n
      BY <2>1, LenProperties DEF Loop
    <3>2. /\ DOMAIN results' = 1 .. n + 1 /\ results'[n + 1] = Pairs(query)[done + 1]
          /\ \A i \in 1 .. n : results'[i] = results[i]
          /\ failures' = failures
      BY <2>1, <2>3, <2>4, <3>1, AppendLists DEF PairSucceeds, Loop
    <3>3. \A i \in 1 .. n : \E a \in 1 .. done : results[i] = Pairs(query)[a]
      <4>1. \A i \in 1 .. n : results[i] \in Succeeding(query, done)
        BY <2>1, <3>1 DEF Loop
      <4> QED BY <4>1 DEF Succeeding
    <3>4. /\ done \in Nat /\ done + 1 \in 1 .. Len(Pairs(query)) /\ Accepted(query)
          /\ InRequestOrder(results, query)
      BY <2>3, <2>4 DEF PairSucceeds, OrderInv
    <3>5. InRequestOrder(results', query)
      <4>1. PICK more : more = results'
        OBVIOUS
      <4>2. OneMore(more, results, n, done, query)
        BY <3>1, <3>2, <3>3, <3>4, <4>1 DEF OneMore
      <4> QED BY <2>1, <3>4, <4>1, <4>2, OrderGrows
    <3> QED BY <2>1, <3>2, <3>5 DEF OrderInv, FailedPairs, InRequestOrder
  <2>5. CASE PairFails
    <3>1. PICK n \in Nat : n = Len(failures) /\ DOMAIN failures = 1 .. n
      BY <2>1, LenProperties DEF Loop
    <3>2. PICK r \in [pair : Pair, error : QuantRiskAIErrors] :
            /\ r = [pair |-> Current, error |-> Compute(Current, query)]
            /\ failures' = Append(failures, r) /\ results' = results
            /\ r.pair = Pairs(query)[done + 1]
      BY <2>3, <2>5 DEF PairFails
    <3>3. /\ DOMAIN failures' = 1 .. n + 1 /\ failures'[n + 1] = r
          /\ \A i \in 1 .. n : failures'[i] = failures[i]
      BY <2>1, <3>1, <3>2, AppendLists DEF Loop
    <3>4. PICK list, more : list = FailedPairs(failures) /\ more = FailedPairs(failures')
      OBVIOUS
    <3>5. /\ DOMAIN list = 1 .. n /\ DOMAIN more = 1 .. n + 1
          /\ more[n + 1] = Pairs(query)[done + 1]
          /\ \A i \in 1 .. n : more[i] = list[i] /\ list[i] = failures[i].pair
      BY <3>1, <3>2, <3>3, <3>4 DEF FailedPairs
    <3>6. \A i \in 1 .. n : \E a \in 1 .. done : list[i] = Pairs(query)[a]
      <4>1. \A i \in 1 .. n : list[i] \in Failing(query, done)
        BY <2>1, <3>1, <3>5 DEF Loop
      <4> QED BY <4>1 DEF Failing
    <3>7. /\ done \in Nat /\ done + 1 \in 1 .. Len(Pairs(query)) /\ Accepted(query)
          /\ InRequestOrder(list, query)
      BY <2>3, <2>5, <3>4 DEF PairFails, OrderInv
    <3>8. InRequestOrder(more, query)
      <4>1. OneMore(more, list, n, done, query)
        BY <3>5, <3>6, <3>7 DEF OneMore
      <4> QED BY <2>1, <3>7, <4>1, OrderGrows
    <3> QED BY <2>1, <3>2, <3>4, <3>8 DEF OrderInv, FailedPairs, InRequestOrder
  <2> QED BY <2>2, <2>4, <2>5
       DEF Next, Step, Refuse, Dispatch, PairBreaks, Respond, vars
<1> QED BY <1>1, <1>2, RiskInductive, PTL DEF Spec

\* The fields of the answer.
Answered(status, ok, failed, withheld) ==
  /\ answer.status = status /\ answer.results = ok
  /\ answer.failures = failed /\ answer.withheld = withheld

\* Before it is sent there is no answer; then it is a refusal, a breakdown, a
\* report of failures, or the results.
LEMMA AnswerCases ==
  ASSUME RiskInv
  PROVE  \/ phase # "answered" /\ Answered(0, << >>, << >>, << >>)
         \/ /\ phase = "answered" /\ ~Dispatched(query) /\ Answered(422, << >>, << >>, << >>)
         \/ /\ phase = "answered" /\ Dispatched(query) /\ Answered(500, << >>, << >>, << >>)
            /\ done < Len(Pairs(query)) /\ Compute(Pairs(query)[done + 1], query) \in Bugs
         \/ /\ phase = "answered" /\ Dispatched(query) /\ done = Len(Pairs(query))
            /\ failures # << >> /\ Answered(422, << >>, failures, results)
         \/ /\ phase = "answered" /\ Dispatched(query) /\ done = Len(Pairs(query))
            /\ failures = << >> /\ Answered(200, Pairs(query), << >>, << >>)
<1>1. CASE phase # "answered"
  BY <1>1 DEF RiskInv, None, Answered
<1>2. CASE phase = "answered" /\ Refused
  BY <1>2 DEF Refused, None, Answered
<1>3. CASE phase = "answered" /\ Broken
  BY <1>3 DEF Broken, None, Answered
<1>4. CASE phase = "answered" /\ Responded /\ failures # << >>
  BY <1>4 DEF Responded, Answered
<1>5. CASE phase = "answered" /\ Responded /\ failures = << >>
  <2>1. results = SubSeq(Pairs(query), 1, Len(Pairs(query)))
    BY <1>5 DEF RiskInv, Loop, Responded
  <2>2. SubSeq(Pairs(query), 1, Len(Pairs(query))) = Pairs(query)
    BY PairsAre, SubSeqFull DEF RiskInv
  <2>3. answer = [status |-> 200, results |-> Pairs(query), failures |-> << >>, withheld |-> << >>]
    BY <1>5, <2>1, <2>2 DEF Responded
  <2> QED BY <1>5, <2>3 DEF Responded, Answered
<1> QED BY <1>1, <1>2, <1>3, <1>4, <1>5 DEF RiskInv

\* The loop keeps its types: while it runs it has put every pair it computed on
\* one of two lists, no more and no fewer, and collected only the package's own
\* errors; and the answer has one of the three status codes.
THEOREM RiskTypeCorrect == Spec => []TypeOK
<1>1. RiskInv => TypeOK
  <2> SUFFICES ASSUME RiskInv PROVE TypeOK
    OBVIOUS
  <2>1. answer.status \in {0, 200, 422, 500}
    BY AnswerCases DEF Answered
  <2> QED BY <2>1 DEF RiskInv, Loop, TypeOK
<1> QED BY <1>1, RiskInductive, PTL

\* In a report every method comes where the request has it.
LEMMA MethodOrder ==
  ASSUME NEW q \in Query, Accepted(q), NEW i \in 1 .. Len(Pairs(q)), NEW j \in 1 .. Len(Pairs(q)), i < j
  PROVE  (CHOOSE k \in DOMAIN q.methods : q.methods[k] = Pairs(q)[i][1])
           <= (CHOOSE k \in DOMAIN q.methods : q.methods[k] = Pairs(q)[j][1])
<1>1. i \in 1 .. Len(q.methods) * Len(q.metrics) /\ j \in 1 .. Len(q.methods) * Len(q.metrics)
  BY PairsAre
<1>2. PICK n \in Nat \ {0}, d \in Nat, r \in Nat :
        /\ n = Len(q.metrics) /\ d = (i - 1) \div n
        /\ i - 1 = n * d + r
        /\ 1 + d \in 1 .. Len(q.methods) /\ 1 + r \in 1 .. n
        /\ Pairs(q)[i] = << q.methods[1 + d], q.metrics[1 + r] >>
  BY <1>1, PairAt, Zenon
<1>3. PICK k \in Nat \ {0}, e \in Nat, u \in Nat :
        /\ k = Len(q.metrics) /\ e = (j - 1) \div k
        /\ j - 1 = k * e + u
        /\ 1 + e \in 1 .. Len(q.methods) /\ 1 + u \in 1 .. k
        /\ Pairs(q)[j] = << q.methods[1 + e], q.metrics[1 + u] >>
  BY <1>1, PairAt, Zenon
<1>4. Pairs(q)[i][1] = q.methods[1 + d] /\ Pairs(q)[j][1] = q.methods[1 + e]
  BY <1>2, <1>3
<1>5. d <= e
  <2>1. PICK x \in Nat, y \in Nat : x = i - 1 /\ y = j - 1 /\ x <= y
    BY PairsAre
  <2>2. x \div n <= y \div n
    BY <2>1, DivMonotone
  <2> QED BY <1>2, <1>3, <2>1, <2>2
<1>6. \A a \in DOMAIN q.methods : (CHOOSE b \in DOMAIN q.methods : q.methods[b] = q.methods[a]) = a
  BY DEF Accepted, Distinct
<1>7. 1 + d \in DOMAIN q.methods /\ 1 + e \in DOMAIN q.methods
  BY <1>2, <1>3, QueryIs
<1>8. /\ (CHOOSE b \in DOMAIN q.methods : q.methods[b] = Pairs(q)[i][1]) = 1 + d
      /\ (CHOOSE b \in DOMAIN q.methods : q.methods[b] = Pairs(q)[j][1]) = 1 + e
  BY <1>4, <1>6, <1>7
<1> DEFINE At(p) == CHOOSE b \in DOMAIN q.methods : q.methods[b] = p
<1>9. At(Pairs(q)[i][1]) = 1 + d /\ At(Pairs(q)[j][1]) = 1 + e
  BY <1>8
<1>10. 1 + d <= 1 + e
  BY <1>5
<1> QED BY <1>9, <1>10, Zenon

\* Every pair requested is in the answer exactly once, for any request: among
\* the results or on one of the two lists of a refusal, each of the three in the
\* order of the request.
THEOREM PairsAccountedFor == Spec => []EveryPairAccountedFor
<1>1. RiskInv /\ OrderInv => EveryPairAccountedFor
  <2> SUFFICES ASSUME RiskInv, OrderInv PROVE EveryPairAccountedFor
    OBVIOUS
  <2>1. ASSUME answer.status = 200
        PROVE  /\ answer.results = Pairs(query) /\ Distinct(answer.results) /\ Accepted(query)
    <3>1. answer.results = Pairs(query) /\ Dispatched(query)
      BY <2>1, AnswerCases DEF Answered
    <3> QED BY <3>1, PairsDistinct DEF RiskInv, Dispatched
  <2>2. ASSUME answer.status = 200, NEW i \in Computed, NEW j \in Computed, i < j
        PROVE  (CHOOSE k \in DOMAIN query.methods : query.methods[k] = answer.results[i][1])
                 <= (CHOOSE k \in DOMAIN query.methods : query.methods[k] = answer.results[j][1])
    <3>1. answer.results = Pairs(query) /\ Accepted(query) /\ query \in Query
      BY <2>1, <2>2 DEF RiskInv
    <3> QED BY <2>2, <3>1, MethodOrder DEF Computed
  <2>3. ASSUME answer.failures # << >>
        PROVE  LET failed   == { answer.failures[i].pair : i \in DOMAIN answer.failures }
                   withheld == { answer.withheld[i] : i \in DOMAIN answer.withheld }
               IN  /\ failed \cup withheld = { Pairs(query)[i] : i \in Computed }
                   /\ failed \cap withheld = {}
                   /\ InRequestOrder(FailedPairs(answer.failures), query)
                   /\ InRequestOrder(answer.withheld, query)
                   /\ answer.results = << >>
    <3>1. /\ answer.failures = failures /\ answer.withheld = results /\ answer.results = << >>
          /\ done = Len(Pairs(query))
      BY <2>3, AnswerCases DEF Answered
    <3>2. /\ { results[i] : i \in DOMAIN results } = Succeeding(query, done)
          /\ { failures[i].pair : i \in DOMAIN failures } = Failing(query, done)
      BY DEF RiskInv, Loop
    <3>3. /\ Failing(query, done) \cup Succeeding(query, done) = { Pairs(query)[i] : i \in Computed }
          /\ Failing(query, done) \cap Succeeding(query, done) = {}
      BY <3>1 DEF Failing, Succeeding, Computed
    <3>4. /\ { answer.failures[i].pair : i \in DOMAIN answer.failures } = Failing(query, done)
          /\ { answer.withheld[i] : i \in DOMAIN answer.withheld } = Succeeding(query, done)
      BY <3>1, <3>2
    <3>5. /\ InRequestOrder(FailedPairs(answer.failures), query)
          /\ InRequestOrder(answer.withheld, query)
      BY <3>1 DEF OrderInv
    <3> QED BY <3>1, <3>3, <3>4, <3>5, Zenon
  <2> QED BY <2>1, <2>2, <2>3 DEF EveryPairAccountedFor
<1> QED BY <1>1, RiskInductive, OrderInductive, PTL

\* What the lists hold: what was withheld succeeded, what failed did not, and
\* nothing failed only when every pair so far succeeded.
LEMMA ListsTell ==
  ASSUME Loop
  PROVE  /\ \A i \in DOMAIN results : results[i] \in Pair /\ Compute(results[i], query) = "ok"
         /\ \A i \in DOMAIN failures : /\ failures[i].pair \in Pair
                                       /\ Compute(failures[i].pair, query) # "ok"
         /\ failures = << >> <=> \A i \in 1 .. done : Compute(Pairs(query)[i], query) = "ok"
<1>1. \A p \in Succeeding(query, done) : Compute(p, query) = "ok"
  BY DEF Succeeding
<1>2. \A p \in Failing(query, done) : Compute(p, query) # "ok"
  BY DEF Failing
<1>3. \A i \in DOMAIN results : results[i] \in Pair /\ Compute(results[i], query) = "ok"
  <2> TAKE i \in DOMAIN results
  <2>1. results[i] \in Succeeding(query, done)
    BY DEF Loop
  <2>2. results[i] \in Pair
    BY LenProperties, ElementOfSeq DEF Loop
  <2> QED BY <1>1, <2>1, <2>2
<1>4. \A i \in DOMAIN failures : failures[i].pair \in Pair /\ Compute(failures[i].pair, query) # "ok"
  <2> TAKE i \in DOMAIN failures
  <2>1. failures[i].pair \in Failing(query, done)
    BY DEF Loop
  <2>2. failures[i] \in [pair : Pair, error : QuantRiskAIErrors]
    BY LenProperties, ElementOfSeq DEF Loop
  <2> QED BY <1>2, <2>1, <2>2
<1>5. failures = << >> <=> \A i \in 1 .. done : Compute(Pairs(query)[i], query) = "ok"
  <2>1. failures = << >> <=> DOMAIN failures = {}
    BY LenProperties, EmptySeq DEF Loop
  <2>2. { failures[i].pair : i \in DOMAIN failures } = Failing(query, done)
    BY DEF Loop
  <2>3. DOMAIN failures = {} <=> Failing(query, done) = {}
    BY <2>2
  <2>4. Failing(query, done) = {} <=> \A i \in 1 .. done : Compute(Pairs(query)[i], query) = "ok"
    BY DEF Failing
  <2> QED BY <2>1, <2>3, <2>4
<1> QED BY <1>3, <1>4, <1>5

\* An accepted request asks for at least one pair.
LEMMA SomePair ==
  ASSUME NEW q \in Query, Accepted(q)
  PROVE  1 \in 1 .. Len(Pairs(q))
<1>1. PICK m \in Nat, n \in Nat : m = Len(q.methods) /\ n = Len(q.metrics)
  BY QueryIs
<1>2. m # 0 /\ n # 0
  BY <1>1, QueryIs, EmptySeq DEF Accepted
<1>3. PICK k \in Nat : k = m * n /\ 1 <= k
  <2>1. m * n \in Nat /\ 1 <= m * n
    BY <1>2
  <2> QED BY <2>1
<1>4. Len(Pairs(q)) = k
  BY <1>1, <1>3, PairsAre
<1> QED BY <1>3, <1>4

\* A precondition that fails before dispatch fails in every pair, and is never
\* the caller's request breaking down.
LEMMA RefusedAlone ==
  ASSUME NEW q, Accepted(q), ~Dispatched(q), NEW pair \in Pair
  PROVE  SingleEndpoint(pair, q) # "ok" /\ SingleEndpoint(pair, q) \notin Bugs
<1>1. CASE q.portfolio # "valid"
  BY <1>1 DEF SingleEndpoint, Bugs
<1>2. CASE q.portfolio = "valid"
  <2>1. ~Passes("alpha", pair, q) \/ ~Passes("alignment", pair, q)
    BY <1>2 DEF Dispatched, SharedPreconditions, Passes
  <2>2. ~Ready(pair[1], pair, q)
    BY <2>1 DEF Ready
  <2> QED BY <1>2, <2>2, ComputeIs DEF IsFigure, SingleEndpoint
<1> QED BY <1>1, <1>2

\* The report agrees with the single-method endpoints on every pair, for any
\* request: it succeeds or breaks exactly when one of them would, and neither
\* list says of a pair what its endpoint would not.
THEOREM AgreesWithSingleEndpoints == Spec => []SameAsSingleEndpoints
<1>1. RiskInv => SameAsSingleEndpoints
  <2> SUFFICES ASSUME RiskInv, phase = "answered", Accepted(query) PROVE SameAsSingleEndpoints
    BY DEF SameAsSingleEndpoints
  <2> DEFINE alone(i) == SingleEndpoint(Pairs(query)[i], query)
  <2>1. query \in Query /\ Loop
    BY DEF RiskInv
  <2>2. 1 \in Computed /\ (\A i \in Computed : Pairs(query)[i] \in Pair) /\ "ok" \notin Bugs
    BY <2>1, SomePair, PairsAre DEF Computed, Bugs
  <2>3. ASSUME Dispatched(query) PROVE \A p : SingleEndpoint(p, query) = Compute(p, query)
    BY <2>3 DEF Dispatched, SingleEndpoint
  <2>4. CASE ~Dispatched(query)
    <3>1. \A i \in Computed : alone(i) # "ok" /\ alone(i) \notin Bugs
      BY <2>2, <2>4, RefusedAlone
    <3>2. Answered(422, << >>, << >>, << >>)
      BY <2>4, AnswerCases
    <3> HIDE DEF alone
    <3>3. DOMAIN answer.failures = {} /\ DOMAIN answer.withheld = {} /\ answer.status = 422
      BY <3>2 DEF Answered
    <3> QED BY <2>2, <3>1, <3>3 DEF SameAsSingleEndpoints, alone
  <2>5. CASE /\ Dispatched(query) /\ Answered(500, << >>, << >>, << >>)
             /\ done < Len(Pairs(query)) /\ Compute(Pairs(query)[done + 1], query) \in Bugs
    <3>1. done + 1 \in Computed /\ alone(done + 1) \in Bugs
      BY <2>1, <2>3, <2>5, PairsAre DEF Computed, Loop
    <3> HIDE DEF alone
    <3>2. DOMAIN answer.failures = {} /\ DOMAIN answer.withheld = {} /\ answer.status = 500
      BY <2>5 DEF Answered
    <3> QED BY <2>2, <3>1, <3>2 DEF SameAsSingleEndpoints, alone
  <2>6. CASE Dispatched(query) /\ done = Len(Pairs(query))
    <3>1. \A i \in Computed : alone(i) \notin Bugs
      BY <2>1, <2>3, <2>6 DEF Loop, Computed
    <3>2. failures = << >> <=> \A i \in Computed : alone(i) = "ok"
      BY <2>1, <2>3, <2>6, ListsTell DEF Computed
    <3>3. \A i \in DOMAIN results : SingleEndpoint(results[i], query) = "ok"
      BY <2>1, <2>3, <2>6, ListsTell
    <3>4. \A i \in DOMAIN failures : SingleEndpoint(failures[i].pair, query) = failures[i].error
      BY <2>1, <2>3, <2>6 DEF Loop
    <3> HIDE DEF alone
    <3>5. CASE failures # << >> /\ Answered(422, << >>, failures, results)
      BY <3>1, <3>2, <3>3, <3>4, <3>5 DEF Answered, SameAsSingleEndpoints, alone
    <3>6. CASE failures = << >> /\ Answered(200, Pairs(query), << >>, << >>)
      <4>1. DOMAIN answer.failures = {} /\ DOMAIN answer.withheld = {} /\ answer.status = 200
        BY <3>6 DEF Answered
      <4> QED BY <3>1, <3>2, <3>6, <4>1 DEF SameAsSingleEndpoints, alone
    <3> QED BY <2>6, <3>5, <3>6, AnswerCases
  <2> QED BY <2>4, <2>5, <2>6, AnswerCases
<1> QED BY <1>1, RiskInductive, PTL

\* "Dropping the failing method returns the rest": unless a method overflows in
\* one figure only, its two metrics succeed or fail together, so no method is on
\* both lists.
THEOREM MethodsFailWhole == Spec => []DroppingMethodsReturnsTheRest
<1>1. RiskInv => DroppingMethodsReturnsTheRest
  <2> SUFFICES ASSUME RiskInv,
                      \A m \in RiskMethod :
                        << m, "VaR" >> \in query.overflow <=> << m, "ES" >> \in query.overflow,
                      NEW i \in DOMAIN answer.failures, NEW j \in DOMAIN answer.withheld,
                      answer.failures[i].pair[1] = answer.withheld[j][1]
               PROVE  FALSE
    BY DEF DroppingMethodsReturnsTheRest
  <2>1. answer.failures = failures /\ answer.withheld = results
    BY AnswerCases DEF Answered
  <2>2. PICK p \in Pair, r \in Pair :
          /\ p = failures[i].pair /\ r = results[j]
          /\ Compute(p, query) # "ok" /\ Compute(r, query) = "ok" /\ p[1] = r[1]
    BY <2>1, ListsTell DEF RiskInv
  <2>3. PICK method \in RiskMethod : method = p[1] /\ method = r[1]
    BY <2>2 DEF Pair
  <2>4. p \in query.overflow <=> r \in query.overflow
    <3>1. PICK m \in RiskMethod, x \in RiskMetric : p = << m, x >>
      BY DEF Pair
    <3>2. PICK n \in RiskMethod, y \in RiskMetric : r = << n, y >>
      BY DEF Pair
    <3>3. m = method /\ n = method
      BY <2>3, <3>1, <3>2
    <3>4. p = << method, x >> /\ r = << method, y >>
      BY <3>1, <3>2, <3>3
    <3>5. x \in {"VaR", "ES"} /\ y \in {"VaR", "ES"}
      BY DEF RiskMetric
    <3> QED BY <3>4, <3>5
  <2>5. Scales(p, query) <=> Scales(r, query)
    BY <2>4 DEF Scales, Passes
  <2>6. Ready(method, p, query) <=> Ready(method, r, query)
    BY DEF Ready, Sample, Passes
  <2>7. Seeded(method, p, query) <=> Seeded(method, r, query)
    BY DEF Seeded, Passes
  <2>8. Compute(p, query) = "ok" <=> Ready(method, p, query) /\ Seeded(method, p, query) /\ Scales(p, query)
    BY <2>3, ComputeIs DEF IsFigure
  <2>9. Compute(r, query) = "ok" <=> Ready(method, r, query) /\ Seeded(method, r, query) /\ Scales(r, query)
    BY <2>3, ComputeIs DEF IsFigure
  <2> QED BY <2>2, <2>5, <2>6, <2>7, <2>8, <2>9
<1> QED BY <1>1, RiskInductive, PTL

\* For one position the engine's guards before scaling are those of the first
\* version: the covariance of one asset asks for no more observations than its
\* standard deviation does.
LEMMA OneAssetReady ==
  ASSUME NEW q \in Query, q.assets = 1, q.aligned > 0, q.covariance # "non_finite",
         NEW method \in RiskMethod, NEW pair,
         method = "monte_carlo" => q.covariance # "singular"
  PROVE  Ready(method, pair, q) <=> SingleReady(method, pair, q)
<1>1. q.aligned \in Nat /\ q.required \in Nat /\ q.covariance \in {"regular", "singular", "non_finite"}
  BY QueryIs DEF QueryType
<1>2. Passes("alignment", pair, q) /\ Passes("covariance_finite", pair, q)
  BY DEF Passes
<1>3. Passes("covariance_sample", pair, q) <=> Passes("parametric_sample", pair, q)
  BY <1>1 DEF Passes
<1>4. method = "monte_carlo" => Passes("cholesky", pair, q)
  BY <1>1 DEF Passes
<1> QED BY <1>2, <1>3, <1>4 DEF Ready, SingleReady, Sample, SingleSample

\* Pair by pair, the engine on one position answers as the first version does.
LEMMA OnePairIsV1 ==
  ASSUME NEW q \in Query, q.assets = 1, q.aligned > 0, q.covariance # "non_finite",
         q.portfolio # "invalid", q.covariance = "singular" => ~UsesMonteCarlo(q),
         NEW i \in 1 .. Len(Pairs(q))
  PROVE  /\ V1(Pairs(q)[i], q) = "ok" <=> Compute(Pairs(q)[i], q) = "ok"
         /\ V1(Pairs(q)[i], q) \in Bugs <=> Compute(Pairs(q)[i], q) \in Bugs
         /\ ~q.alpha => Compute(Pairs(q)[i], q) \notin {"ok"} \cup Bugs
<1>1. i \in 1 .. Len(q.methods) * Len(q.metrics)
  BY PairsAre
<1>2. PICK n \in Nat \ {0}, d \in Nat, r \in Nat :
        /\ n = Len(q.metrics) /\ d = (i - 1) \div n
        /\ i - 1 = n * d + r
        /\ 1 + d \in 1 .. Len(q.methods) /\ 1 + r \in 1 .. n
        /\ Pairs(q)[i] = << q.methods[1 + d], q.metrics[1 + r] >>
  BY <1>1, PairAt, Zenon
<1>3. PICK pair \in Pair, method \in RiskMethod :
        pair = Pairs(q)[i] /\ method = pair[1] /\ method = q.methods[1 + d]
  <2>1. q.methods[1 + d] \in RiskMethod /\ q.metrics[1 + r] \in RiskMetric
    BY <1>2, QueryIs, ElementOfSeq
  <2>2. PICK x \in RiskMethod, y \in RiskMetric : x = q.methods[1 + d] /\ y = q.metrics[1 + r]
    BY <2>1
  <2>3. Pairs(q)[i] = << x, y >>
    BY <1>2, <2>2
  <2>4. << x, y >> \in Pair /\ << x, y >>[1] = x
    BY DEF Pair
  <2> QED BY <2>2, <2>3, <2>4, Zenon
<1>4. method = "monte_carlo" => q.covariance # "singular"
  BY <1>2, <1>3, QueryIs DEF UsesMonteCarlo
<1>5. Ready(method, pair, q) <=> SingleReady(method, pair, q)
  BY <1>4, OneAssetReady
<1>6. IsFigure(Compute(pair, q), Ready(method, pair, q), Seeded(method, pair, q), pair, q)
  BY <1>3, ComputeIs
<1>7. IsFigure(V1(pair, q), SingleReady(method, pair, q), Seeded(method, pair, q), pair, q)
  BY <1>3, V1Is
<1>8. ~q.alpha => ~Ready(method, pair, q)
  BY DEF Ready, Passes
<1> QED BY <1>3, <1>5, <1>6, <1>7, <1>8 DEF IsFigure

\* A portfolio of one position succeeds, fails or breaks as the endpoints of
\* the first version do, whose functions check guards of their own.
THEOREM OnePositionAsV1 == Spec => []OnePositionIsV1
<1>1. RiskInv => OnePositionIsV1
  <2> SUFFICES ASSUME RiskInv, phase = "answered", Accepted(query), query.assets = 1, query.aligned > 0,
                      query.portfolio # "worthless", query.covariance # "non_finite",
                      query.covariance = "singular" => ~UsesMonteCarlo(query)
               PROVE  LET v1 == { V1(Pairs(query)[i], query) : i \in Computed }
                      IN  answer.status = IF v1 \cap Bugs # {} THEN 500
                                          ELSE IF v1 = {"ok"} THEN 200 ELSE 422
    BY DEF OnePositionIsV1
  <2> DEFINE figure(i) == V1(Pairs(query)[i], query)
             v1 == { figure(i) : i \in Computed }
  <2>1. /\ query \in Query /\ Loop
        /\ query.portfolio \in {"valid", "invalid"} /\ query.aligned > 0
    BY QueryIs DEF RiskInv, QueryType
  <2>2. 1 \in Computed /\ "ok" \notin Bugs
    BY <2>1, SomePair DEF Computed, Bugs
  <2>3. CASE query.portfolio = "invalid"
    <3>1. \A i \in Computed : figure(i) = "InvalidParameterError"
      BY <2>3 DEF V1
    <3>2. v1 = {"InvalidParameterError"}
      <4> HIDE DEF figure
      <4> QED BY <2>2, <3>1
    <3>3. v1 \cap Bugs = {} /\ v1 # {"ok"}
      BY <3>2 DEF Bugs
    <3>4. answer.status = 422
      BY <2>3, AnswerCases DEF Answered, Dispatched
    <3> HIDE DEF v1
    <3>5. answer.status = IF v1 \cap Bugs # {} THEN 500 ELSE IF v1 = {"ok"} THEN 200 ELSE 422
      BY <3>3, <3>4
    <3> QED BY <3>5 DEF v1
  <2>4. CASE query.portfolio = "valid"
    <3>1. \A i \in Computed :
            /\ figure(i) = "ok" <=> Compute(Pairs(query)[i], query) = "ok"
            /\ figure(i) \in Bugs <=> Compute(Pairs(query)[i], query) \in Bugs
            /\ ~query.alpha => Compute(Pairs(query)[i], query) \notin {"ok"} \cup Bugs
      BY <2>1, <2>4, OnePairIsV1 DEF Computed
    <3> HIDE DEF figure
    <3>2. CASE ~Dispatched(query)
      <4>1. ~query.alpha
        BY <2>1, <2>4, <3>2 DEF Dispatched, SharedPreconditions
      <4>2. v1 \cap Bugs = {} /\ v1 # {"ok"}
        BY <2>2, <3>1, <4>1
      <4>3. answer.status = 422
        BY <3>2, AnswerCases DEF Answered
      <4> HIDE DEF v1
      <4>4. answer.status = IF v1 \cap Bugs # {} THEN 500 ELSE IF v1 = {"ok"} THEN 200 ELSE 422
        BY <4>2, <4>3
      <4> QED BY <4>4 DEF v1, figure
    <3>3. CASE /\ Answered(500, << >>, << >>, << >>)
               /\ done < Len(Pairs(query)) /\ Compute(Pairs(query)[done + 1], query) \in Bugs
      <4>1. done + 1 \in Computed
        BY <2>1, <3>3, PairsAre DEF Computed, Loop
      <4>2. v1 \cap Bugs # {}
        BY <3>1, <3>3, <4>1
      <4>3. answer.status = 500
        BY <3>3 DEF Answered
      <4> HIDE DEF v1
      <4>4. answer.status = IF v1 \cap Bugs # {} THEN 500 ELSE IF v1 = {"ok"} THEN 200 ELSE 422
        BY <4>2, <4>3
      <4> QED BY <4>4 DEF v1, figure
    <3>4. CASE Dispatched(query) /\ done = Len(Pairs(query))
      <4>1. v1 \cap Bugs = {}
        BY <2>1, <3>1, <3>4 DEF Loop, Computed
      <4>2. failures = << >> <=> \A i \in Computed : figure(i) = "ok"
        BY <2>1, <3>1, <3>4, ListsTell DEF Computed
      <4>3. failures = << >> <=> v1 = {"ok"}
        BY <2>2, <4>2
      <4>4. answer.status = IF failures = << >> THEN 200 ELSE 422
        BY <3>4, AnswerCases DEF Answered
      <4> HIDE DEF v1
      <4>5. answer.status = IF v1 \cap Bugs # {} THEN 500 ELSE IF v1 = {"ok"} THEN 200 ELSE 422
        BY <4>1, <4>3, <4>4
      <4> QED BY <4>5 DEF v1, figure
    <3> QED BY <3>2, <3>3, <3>4, AnswerCases
  <2> QED BY <2>1, <2>3, <2>4
<1> QED BY <1>1, RiskInductive, PTL
=============================================================================
