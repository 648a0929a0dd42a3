--------------------------- MODULE ResearchProofs ---------------------------
(***************************************************************************)
(* Proofs about the two research scripts that write results beside each    *)
(* other: M13Run, for any invocations and any number of commits, and       *)
(* RollingBacktest, for any inputs.                                        *)
(*                                                                         *)
(* M13Run's properties relate files to their authors.  What makes them     *)
(* hold is who owns the directory: the invocation that created it, as long *)
(* as it writes and for good once it is done.                              *)
(*                                                                         *)
(* RollingBacktest's relate the views of a summary to the days they count. *)
(* The rows are those of the first days, in order, so what a view counts   *)
(* is a set of days: parts of a whole, or the whole shifted.               *)
(***************************************************************************)
EXTENDS M13Run, RollingBacktest, OrderLemmas, FiniteSetTheorems, SequenceTheorems, TLAPS

-----------------------------------------------------------------------------
(* The M13 run                                                             *)

Owning == Writing \cup {"done"}

\* The n-th file of the order is whole and r's.
Mine(r, n) == files[Order[n]] = [by |-> r, whole |-> TRUE]

\* What an invocation that owns the directory has done so far: the files
\* before its position are whole, the ones after it are not there.
Owner(r) ==
  /\ exists
  /\ \A f \in File : files[f].by \in {r, Nobody}
  /\ pc[r] = "open" => /\ written[r] \in 0 .. 3
                       /\ \A n \in 1 .. 4 : IF n <= written[r]
                                            THEN Mine(r, n)
                                            ELSE files[Order[n]] = NoFile
  /\ pc[r] = "close" => /\ written[r] \in 0 .. 3
                        /\ \A n \in 1 .. 4 : /\ n <= written[r] => Mine(r, n)
                                             /\ n > written[r] + 1 => files[Order[n]] = NoFile
  /\ pc[r] = "hash" => /\ written[r] = 3
                       /\ \A n \in 1 .. 3 : Mine(r, n)
                       /\ files["metadata"] = NoFile
  /\ pc[r] = "done" => \A n \in 1 .. 4 : Mine(r, n)

Ownership ==
  /\ \A r, s \in Run : pc[r] \in Owning /\ pc[s] \in Owning => r = s
  /\ \A r \in Run : pc[r] \in Owning => Owner(r)
  /\ \A r \in Run : pc[r] \in Checking \cup Working => written[r] = 0

\* Without a directory there are no files; with one, they have one author.
Authorship ==
  /\ ~exists => \A f \in File : files[f] = NoFile
  /\ OneAuthor
  /\ MetadataMarksCompletion

NothingRead == \A r \in Run : pc[r] \in Checking => used[r] = NotRead

IInv == TypeOK /\ Ownership /\ Authorship /\ NothingRead

-----------------------------------------------------------------------------

\* The four files, each once, the metadata last.
LEMMA OrderFacts ==
  /\ Order[4] = "metadata"
  /\ \A n \in 1 .. 4 : Order[n] \in File
  /\ \A f \in File : \E n \in 1 .. 4 : f = Order[n]
  /\ \A m, n \in 1 .. 4 : Order[m] = Order[n] => m = n
<1>1. /\ Order[1] = "forecasts" /\ Order[2] = "fit_log"
      /\ Order[3] = "evaluation" /\ Order[4] = "metadata"
  BY DEF Order
<1>2. \A n \in 1 .. 4 : n = 1 \/ n = 2 \/ n = 3 \/ n = 4
  OBVIOUS
<1> QED
  BY <1>1, <1>2 DEF File

\* At the start nobody owns anything.
LEMMA InitIInv == Init => IInv
<1> SUFFICES ASSUME Init PROVE IInv
  OBVIOUS
<1> USE RunAssumption DEF Init
<1>1. \A f \in File : files[f] = NoFile
  OBVIOUS
<1>2. Present = {}
  BY <1>1 DEF Present, NoFile
<1>3. NoFile \in [by : Run \cup {Nobody}, whole : BOOLEAN]
  BY DEF NoFile
<1>4. NotRead \in [Input -> 0 .. 2]
  BY DEF NotRead, Input
<1>5. TypeOK
  <2>1. /\ pc \in [Run -> Checking] /\ Checking \subseteq Checking \cup Working \cup Writing \cup Stopped
        /\ \A r \in Run : pc[r] # "refused"
    BY DEF Checking
  <2>2. content \in [Input -> {0, 1}] /\ committed \in [Input -> {0, 1}]
    OBVIOUS
  <2>3. head \in 0 .. MaxCommits /\ tracked \subseteq File
    OBVIOUS
  <2>7. exists \in BOOLEAN
    BY Zenon
  <2>4. files \in [File -> [by : Run \cup {Nobody}, whole : BOOLEAN]]
    BY <1>3
  <2>5. used \in [Run -> [Input -> 0 .. 2]] /\ hashed \in [Run -> [Input -> 0 .. 2]]
    BY <1>4
  <2>6. written \in [Run -> 0 .. 4]
    OBVIOUS
  <2> QED
    BY <1>2, <2>1, <2>2, <2>3, <2>4, <2>5, <2>6, <2>7 DEF TypeOK
<1>6. Ownership
  BY DEF Ownership, Owning, Writing
<1>7. Authorship
  BY <1>1, <1>2 DEF Authorship, OneAuthor, MetadataMarksCompletion, NoFile, File
<1> QED
  BY <1>5, <1>6, <1>7 DEF IInv, NothingRead

\* An invocation that moves on, or stops, without touching the directory
\* takes nothing from the one that owns it.
LEMMA Moves ==
  ASSUME IInv, NEW r \in Run, NEW p,
         pc' = [pc EXCEPT ![r] = p],
         p \notin Owning,
         p \in Checking \cup Working => pc[r] \in Checking \cup Working,
         UNCHANGED << exists, files, written >>
  PROVE  Ownership' /\ Authorship'
<1>1. \A q \in Run : pc'[q] = IF q = r THEN p ELSE pc[q]
  BY DEF IInv, TypeOK
<1>2. ASSUME NEW q \in Run, pc'[q] \in Owning
      PROVE  pc[q] \in Owning /\ Owner(q)'
  <2>1. pc'[q] = pc[q] /\ pc[q] \in Owning
    BY <1>1, <1>2
  <2>2. Owner(q)
    BY <2>1 DEF IInv, Ownership
  <2> QED
    BY <2>1, <2>2 DEF Owner, Mine
<1>3. Ownership'
  BY <1>1, <1>2 DEF IInv, Ownership
<1>4. Authorship'
  BY DEF IInv, Authorship, OneAuthor, MetadataMarksCompletion, Present
<1> QED
  BY <1>3, <1>4

\* So does anything that happens outside the invocations and the directory.
LEMMA Stays ==
  ASSUME IInv, UNCHANGED << pc, exists, files, written >>
  PROVE  Ownership' /\ Authorship'
BY DEF IInv, Ownership, Owner, Mine, Authorship, OneAuthor, MetadataMarksCompletion, Present

\* The invocation that writes: where it is, and that nobody else is there.
LEMMA OnlyOwner ==
  ASSUME IInv, NEW r \in Run, pc[r] \in Owning, NEW q \in Run, q # r
  PROVE  pc[q] \notin Owning
BY DEF IInv, Ownership

-----------------------------------------------------------------------------
\* The types, and what a run that only checked has read.

\* A run that moves from one place of main() to another.
LEMMA MovesType ==
  ASSUME IInv, NEW r \in Run, NEW p \in Checking \cup Working \cup Writing \cup Stopped,
         pc' = [pc EXCEPT ![r] = p],
         p = "refused" => used[r] = NotRead,
         p \in Checking => pc[r] \in Checking,
         UNCHANGED << tree, out, mine >>
  PROVE  TypeOK' /\ NothingRead'
<1>1. TypeOK'
  BY DEF IInv, TypeOK, tree, out, mine, Present
<1>2. NothingRead'
  BY DEF IInv, TypeOK, NothingRead, mine
<1> QED
  BY <1>1, <1>2

\* One of the five checks of check_preconditions.
LEMMA CheckKeeps ==
  ASSUME IInv, NEW r \in Run, NEW at \in Checking, NEW holds,
         NEW then \in Checking \cup {"load"}, Check(r, at, holds, then)
  PROVE  IInv'
<1>1. PICK p \in {"refused", then} :
        /\ pc[r] = at /\ pc' = [pc EXCEPT ![r] = p]
        /\ UNCHANGED << tree, out, mine >>
  BY DEF Check, GoTo
<1>2. /\ used[r] = NotRead /\ pc[r] \in Checking
      /\ p \in Checking \cup Working \cup Writing \cup Stopped /\ p \notin Owning
  BY <1>1 DEF IInv, NothingRead, Checking, Working, Writing, Stopped, Owning
<1>3. TypeOK' /\ NothingRead'
  BY <1>1, <1>2, MovesType
<1>4. Ownership' /\ Authorship'
  BY <1>1, <1>2, Moves DEF out, mine
<1> QED
  BY <1>3, <1>4 DEF IInv

\* A step that goes on, fails or crashes without touching anything.
LEMMA QuietMove ==
  ASSUME IInv, NEW r \in Run, NEW p \in (Working \cup Stopped) \ {"done", "refused"},
         p \in Working => pc[r] \in Working,
         pc' = [pc EXCEPT ![r] = p], UNCHANGED << tree, out, mine >>
  PROVE  IInv'
<1>1. p \notin Owning /\ p \notin Checking /\ p # "refused"
  BY DEF Owning, Working, Writing, Stopped, Checking
<1>2. TypeOK' /\ NothingRead'
  BY <1>1, MovesType
<1>3. Ownership' /\ Authorship'
  BY <1>1, Moves DEF out, mine, Stopped, Working, Checking
<1> QED
  BY <1>2, <1>3 DEF IInv

\* A step that reads one of the inputs.
LEMMA ReadMove ==
  ASSUME IInv, NEW r \in Run, NEW i \in Input, NEW p \in Working,
         pc[r] \in Working, pc' = [pc EXCEPT ![r] = p],
         used' = [used EXCEPT ![r][i] = content[i]],
         UNCHANGED << tree, out, hashed, written >>
  PROVE  IInv'
<1>1. p \notin Owning /\ p \notin Checking /\ p # "refused"
      /\ p \in Checking \cup Working \cup Writing \cup Stopped
  BY DEF Owning, Working, Writing, Stopped, Checking
<1>2. content[i] \in 0 .. 2
  BY DEF IInv, TypeOK, Input
<1>3. TypeOK'
  <2>1. used' \in [Run -> [Input -> 0 .. 2]]
    BY <1>2 DEF IInv, TypeOK
  <2>2. \A q \in Run : pc'[q] = "refused" => used'[q] = NotRead
    BY <1>1 DEF IInv, TypeOK
  <2> QED
    BY <1>1, <2>1, <2>2 DEF IInv, TypeOK, tree, out, Present
<1>4. NothingRead'
  BY <1>1 DEF IInv, TypeOK, NothingRead
<1>5. Ownership' /\ Authorship'
  BY <1>1, Moves DEF out
<1> QED
  BY <1>3, <1>4, <1>5 DEF IInv

-----------------------------------------------------------------------------
\* The steps that touch the directory.

\* Creating it: it was not there, so nobody owned it and it is empty.
LEMMA CreateKeeps ==
  ASSUME IInv, NEW r \in Run, Create(r)
  PROVE  IInv'
<1> USE DEF IInv
<1>1. pc[r] = "create" /\ UNCHANGED << tree, files, mine >>
  BY DEF Create
<1>2. CASE exists
  <2>1. pc' = [pc EXCEPT ![r] = "failed"] /\ UNCHANGED exists
    BY <1>2 DEF Create, GoTo
  <2> QED
    BY <1>1, <2>1, QuietMove DEF Working, Stopped, out
<1>3. CASE ~exists
  <2>1. pc' = [pc EXCEPT ![r] = "open"] /\ exists' = TRUE
    BY <1>3 DEF Create, GoTo
  <2>2. written[r] = 0 /\ \A f \in File : files[f] = NoFile
    BY <1>1, <1>3 DEF Ownership, Authorship, Working
  <2>3. \A q \in Run : pc[q] \notin Owning
    BY <1>3 DEF Ownership, Owner
  <2>4. \A q \in Run : pc'[q] = IF q = r THEN "open" ELSE pc[q]
    BY <2>1 DEF TypeOK
  <2>5. TypeOK'
    BY <1>1, <2>1, <2>4 DEF TypeOK, tree, mine, Present, Writing
  <2>6. NothingRead'
    BY <1>1, <2>4 DEF NothingRead, mine, Checking
  <2>7. Owner(r)'
    <3>1. \A f \in File : files'[f] = NoFile
      BY <1>1, <2>2
    <3>4. NoFile.by = Nobody
      BY DEF NoFile
    <3>2. written'[r] = 0 /\ pc'[r] = "open" /\ exists'
      BY <1>1, <2>1, <2>2, <2>4 DEF mine
    <3>3. \A n \in 1 .. 4 : ~(n <= 0) /\ files'[Order[n]] = NoFile
      BY <3>1, OrderFacts
    <3> QED
      BY <3>1, <3>2, <3>3, <3>4 DEF Owner
  <2>8. Ownership'
    BY <1>1, <2>3, <2>4, <2>7 DEF Ownership, mine, Checking, Working
  <2>9. Authorship'
    BY <1>1, <2>1, <2>2 DEF Authorship, OneAuthor, MetadataMarksCompletion, Present, NoFile, File
  <2> QED
    BY <2>5, <2>6, <2>8, <2>9
<1> QED
  BY <1>2, <1>3

\* Opening the next file.
LEMMA OpenKeeps ==
  ASSUME IInv, NEW r \in Run, Open(r)
  PROVE  IInv'
<1> USE DEF IInv
<1> DEFINE w == written[r]
           f == Order[w + 1]
<1>1. /\ pc[r] = "open" /\ pc' = [pc EXCEPT ![r] = "close"]
      /\ files' = [files EXCEPT ![f] = [by |-> r, whole |-> FALSE]]
      /\ UNCHANGED << tree, exists, mine >>
  BY DEF Open, GoTo, FileOf
<1>2. Owner(r) /\ pc[r] \in Owning
  BY <1>1 DEF Ownership, Owning, Writing
<1>3. /\ w \in 0 .. 3 /\ exists
      /\ \A g \in File : files[g].by \in {r, Nobody}
      /\ \A n \in 1 .. 4 : n <= w => Mine(r, n)
      /\ \A n \in 1 .. 4 : n > w => files[Order[n]] = NoFile
  BY <1>1, <1>2 DEF Owner
<1>4. f \in File /\ \A n \in 1 .. 4 : Order[n] = f <=> n = w + 1
  <2>1. w + 1 \in 1 .. 4
    BY <1>3
  <2> QED
    BY <2>1, OrderFacts
<1>5. \A g \in File : files'[g] = IF g = f THEN [by |-> r, whole |-> FALSE] ELSE files[g]
  BY <1>1, <1>4 DEF TypeOK
<1>6. \A q \in Run : pc'[q] = IF q = r THEN "close" ELSE pc[q]
  BY <1>1 DEF TypeOK
<1>7. TypeOK'
  <2>1. files' \in [File -> [by : Run \cup {Nobody}, whole : BOOLEAN]]
    BY <1>1 DEF TypeOK
  <2> QED
    BY <1>1, <1>3, <1>6, <2>1 DEF TypeOK, tree, mine, Writing
<1>8. NothingRead'
  BY <1>1, <1>6 DEF NothingRead, mine, Checking
<1>9. Owner(r)'
  <2>1. \A n \in 1 .. 4 : n <= w => Mine(r, n)'
    BY <1>3, <1>4, <1>5, OrderFacts DEF Mine
  <2>2. \A n \in 1 .. 4 : n > w + 1 => files'[Order[n]] = NoFile
    BY <1>3, <1>4, <1>5, OrderFacts
  <2>3. \A g \in File : files'[g].by \in {r, Nobody}
    BY <1>3, <1>5
  <2>4. exists' /\ written'[r] = w /\ pc'[r] = "close"
    BY <1>1, <1>3, <1>6 DEF mine
  <2> QED
    BY <1>3, <2>1, <2>2, <2>3, <2>4 DEF Owner
<1>10. Ownership'
  BY <1>1, <1>2, <1>6, <1>9, OnlyOwner DEF Ownership, Owning, Writing, mine, Checking, Working
<1>11. Authorship'
  <2>1. OneAuthor'
    BY <1>3, <1>5 DEF OneAuthor, Present
  <2>2. MetadataMarksCompletion'
    <3>1. CASE w = 3
      <4>1. \A n \in 1 .. 4 : n <= 3 => files'[Order[n]] = [by |-> r, whole |-> TRUE]
        BY <3>1, <1>3, <1>4, <1>5, OrderFacts DEF Mine
      <4>2. files'["metadata"].by = r
        BY <3>1, <1>5, <1>4, OrderFacts
      <4>3. \A g \in File \ {"metadata"} : files'[g] = [by |-> r, whole |-> TRUE]
        BY <4>1, OrderFacts
      <4> QED
        BY <4>2, <4>3 DEF MetadataMarksCompletion
    <3>2. CASE w < 3
      <4>1. files'["metadata"] = NoFile
        BY <3>2, <1>3, <1>4, <1>5, OrderFacts
      <4> QED
        BY <4>1 DEF MetadataMarksCompletion, NoFile
    <3> QED
      BY <3>1, <3>2, <1>3
  <2> QED
    BY <2>1, <2>2, <1>1, <1>3 DEF Authorship
<1> QED
  BY <1>7, <1>8, <1>10, <1>11

\* Closing it: one more whole file.
LEMMA CloseKeeps ==
  ASSUME IInv, NEW r \in Run, Close(r)
  PROVE  IInv'
<1> USE DEF IInv
<1> DEFINE w == written[r]
           f == Order[w + 1]
           p == CASE w + 1 = 3 -> "hash" [] w + 1 = 4 -> "done" [] OTHER -> "open"
<1>1. /\ pc[r] = "close" /\ pc' = [pc EXCEPT ![r] = p]
      /\ files' = [files EXCEPT ![f] = [by |-> r, whole |-> TRUE]]
      /\ written' = [written EXCEPT ![r] = w + 1]
      /\ UNCHANGED << tree, exists, used, hashed >>
  BY DEF Close, GoTo, FileOf
<1>2. Owner(r) /\ pc[r] \in Owning
  BY <1>1 DEF Ownership, Owning, Writing
<1>3. /\ w \in 0 .. 3 /\ exists
      /\ \A g \in File : files[g].by \in {r, Nobody}
      /\ \A n \in 1 .. 4 : n <= w => Mine(r, n)
      /\ \A n \in 1 .. 4 : n > w + 1 => files[Order[n]] = NoFile
  BY <1>1, <1>2 DEF Owner
<1>4. f \in File /\ \A n \in 1 .. 4 : Order[n] = f <=> n = w + 1
  <2>1. w + 1 \in 1 .. 4
    BY <1>3
  <2> QED
    BY <2>1, OrderFacts
<1>5. \A g \in File : files'[g] = IF g = f THEN [by |-> r, whole |-> TRUE] ELSE files[g]
  BY <1>1, <1>4 DEF TypeOK
<1>6. \A q \in Run : pc'[q] = IF q = r THEN p ELSE pc[q]
  BY <1>1 DEF TypeOK
<1>7. \A q \in Run : written'[q] = IF q = r THEN w + 1 ELSE written[q]
  BY <1>1 DEF TypeOK
<1>8. /\ p \in {"hash", "done", "open"}
      /\ p = "hash" <=> w = 2
      /\ p = "done" <=> w = 3
  BY <1>3
<1> HIDE DEF p
<1>9. TypeOK'
  <2>1. files' \in [File -> [by : Run \cup {Nobody}, whole : BOOLEAN]]
    BY <1>1 DEF TypeOK
  <2>2. written' \in [Run -> 0 .. 4]
    BY <1>1, <1>3 DEF TypeOK
  <2> QED
    BY <1>1, <1>3, <1>6, <1>8, <2>1, <2>2 DEF TypeOK, tree, Writing, Stopped
<1>10. NothingRead'
  BY <1>1, <1>6, <1>8 DEF NothingRead, Checking
<1>11. \A n \in 1 .. 4 : n <= w + 1 => Mine(r, n)'
  <2>1. ASSUME NEW n \in 1 .. 4, n <= w PROVE files'[Order[n]] = [by |-> r, whole |-> TRUE]
    <3>1. files[Order[n]] = [by |-> r, whole |-> TRUE]
      BY <1>3, <2>1 DEF Mine
    <3>2. Order[n] # f /\ Order[n] \in File
      BY <1>3, <1>4, <2>1, OrderFacts
    <3> QED
      BY <1>5, <3>1, <3>2
  <2>2. files'[f] = [by |-> r, whole |-> TRUE]
    BY <1>4, <1>5
  <2>3. \A n \in 1 .. 4 : n <= w + 1 => n <= w \/ n = w + 1
    BY <1>3
  <2> QED
    BY <2>1, <2>2, <2>3 DEF Mine
<1>12. Owner(r)'
  <2>2. \A n \in 1 .. 4 : n > w + 1 => files'[Order[n]] = NoFile
    BY <1>3, <1>4, <1>5, OrderFacts
  <2>3. \A g \in File : files'[g].by \in {r, Nobody}
    BY <1>3, <1>5
  <2>4. exists' /\ written'[r] = w + 1 /\ pc'[r] = p
    BY <1>1, <1>3, <1>6, <1>7
  <2>5. CASE p = "open"
    BY <1>3, <1>8, <1>11, <2>2, <2>3, <2>4, <2>5 DEF Owner
  <2>6. CASE p = "hash"
    <3>1. files'["metadata"] = NoFile
      BY <2>2, <2>6, <1>8, OrderFacts
    <3> QED
      BY <1>8, <1>11, <2>3, <2>4, <2>6, <3>1 DEF Owner
  <2>7. CASE p = "done"
    BY <1>8, <1>11, <2>3, <2>4, <2>7 DEF Owner
  <2> QED
    BY <1>8, <2>5, <2>6, <2>7
<1>13. Ownership'
  BY <1>1, <1>2, <1>6, <1>7, <1>8, <1>12, OnlyOwner DEF Ownership, Owning, Writing, Checking, Working
<1>14. Authorship'
  <2>1. OneAuthor'
    BY <1>3, <1>5 DEF OneAuthor, Present
  <2>2. MetadataMarksCompletion'
    <3>1. CASE w = 3
      <4>1. \A g \in File : files'[g] = [by |-> r, whole |-> TRUE]
        BY <3>1, <1>11, OrderFacts DEF Mine
      <4> QED
        BY <4>1 DEF MetadataMarksCompletion, File
    <3>2. CASE w < 3
      <4>1. files'["metadata"] = NoFile
        BY <3>2, <1>3, <1>4, <1>5, OrderFacts
      <4> QED
        BY <4>1 DEF MetadataMarksCompletion, NoFile
    <3> QED
      BY <3>1, <3>2, <1>3
  <2> QED
    BY <2>1, <2>2, <1>1, <1>3 DEF Authorship
<1> QED
  BY <1>9, <1>10, <1>13, <1>14

\* Hashing the inputs: the three files are whole, the metadata is next.
LEMMA HashKeeps ==
  ASSUME IInv, NEW r \in Run, HashInputs(r)
  PROVE  IInv'
<1> USE DEF IInv
<1>1. /\ pc[r] = "hash" /\ pc' = [pc EXCEPT ![r] = "open"]
      /\ hashed' = [hashed EXCEPT ![r] = content]
      /\ UNCHANGED << tree, out, used, written >>
  BY DEF HashInputs, GoTo
<1>2. Owner(r) /\ pc[r] \in Owning
  BY <1>1 DEF Ownership, Owning, Writing
<1>3. \A q \in Run : pc'[q] = IF q = r THEN "open" ELSE pc[q]
  BY <1>1 DEF TypeOK
<1>4. TypeOK'
  <2>1. content \in [Input -> 0 .. 2]
    BY DEF TypeOK
  <2>2. hashed' \in [Run -> [Input -> 0 .. 2]]
    BY <1>1, <2>1 DEF TypeOK
  <2> QED
    BY <1>1, <1>3, <2>2 DEF TypeOK, tree, out, Writing, Present
<1>5. NothingRead'
  BY <1>1, <1>3 DEF NothingRead, Checking
<1>6. Owner(r)'
  <2>1. /\ exists /\ \A g \in File : files[g].by \in {r, Nobody}
        /\ written[r] = 3 /\ files["metadata"] = NoFile
        /\ \A n \in 1 .. 3 : Mine(r, n)
    BY <1>1, <1>2 DEF Owner
  <2>2. \A n \in 1 .. 4 : IF n <= 3 THEN Mine(r, n) ELSE files[Order[n]] = NoFile
    BY <2>1, OrderFacts
  <2> QED
    BY <1>1, <1>3, <2>1, <2>2 DEF Owner, Mine, out
<1>7. Ownership'
  BY <1>1, <1>2, <1>3, <1>6, OnlyOwner DEF Ownership, Owning, Writing, Checking, Working
<1>8. Authorship'
  BY <1>1 DEF Authorship, OneAuthor, MetadataMarksCompletion, Present, out
<1> QED
  BY <1>4, <1>5, <1>7, <1>8

\* Clearing an incomplete directory: no run that finished loses its files.
LEMMA ClearKeeps ==
  ASSUME IInv, Clear
  PROVE  IInv'
<1> USE DEF IInv
<1>1. /\ files["metadata"].by = Nobody /\ \A r \in Run : pc[r] \notin Writing
      /\ exists' = FALSE /\ files' = [f \in File |-> NoFile]
      /\ UNCHANGED << pc, tree, mine >>
  BY DEF Clear
<1>2. \A r \in Run : pc[r] \notin Owning
  <2>1. ASSUME NEW r \in Run, pc[r] = "done" PROVE FALSE
    <3>1. Owner(r)
      BY <2>1 DEF Ownership, Owning
    <3>2. files["metadata"].by = r
      BY <2>1, <3>1, OrderFacts DEF Owner, Mine
    <3> QED
      BY <1>1, <3>2, RunAssumption
  <2> QED
    BY <1>1, <2>1 DEF Owning
<1>3. \A f \in File : files'[f] = NoFile
  BY <1>1
<1>4. Present' = {}
  BY <1>3 DEF Present, NoFile
<1>5. TypeOK'
  <2>1. files' \in [File -> [by : Run \cup {Nobody}, whole : BOOLEAN]]
    BY <1>1 DEF NoFile
  <2>2. exists' \in BOOLEAN
    BY <1>1, Zenon
  <2> QED
    BY <1>1, <1>4, <2>1, <2>2 DEF TypeOK, tree, mine
<1>6. NothingRead'
  BY <1>1 DEF NothingRead, mine
<1>7. Ownership'
  BY <1>1, <1>2 DEF Ownership, mine
<1>8. Authorship'
  BY <1>3, <1>4 DEF Authorship, OneAuthor, MetadataMarksCompletion, NoFile, File
<1> QED
  BY <1>5, <1>6, <1>7, <1>8

-----------------------------------------------------------------------------

\* Every step of every invocation, of the people and of git keeps the account
\* of who owns the directory.
LEMMA NextIInv == IInv /\ [Next]_vars => IInv'
<1> SUFFICES ASSUME IInv, [Next]_vars
             PROVE  IInv'
  OBVIOUS
<1>1. ASSUME NEW r \in Run, Main(r)
      PROVE  IInv'
  <2>1. CASE CheckEnvironment(r)
    BY <2>1, CheckKeeps DEF CheckEnvironment, Checking
  <2>2. CASE CheckDirectory(r)
    BY <2>2, CheckKeeps DEF CheckDirectory, Checking
  <2>3. CASE CheckTree(r)
    <3>1. PICK holds : Check(r, "tree", holds, "ancestor")
      BY <2>3 DEF CheckTree
    <3> QED BY <3>1, CheckKeeps DEF Checking
  <2>4. CASE CheckAncestor(r)
    <3>1. PICK holds : Check(r, "ancestor", holds, "head")
      BY <2>4 DEF CheckAncestor
    <3> QED BY <3>1, CheckKeeps DEF Checking
  <2>5. CASE RecordHead(r)
    <3>1. PICK holds : Check(r, "head", holds, "load")
      BY <2>5 DEF RecordHead
    <3> QED BY <3>1, CheckKeeps DEF Checking
  <2>6. CASE VerifyPrices(r)
    BY <2>6, QuietMove DEF VerifyPrices, GoTo, Working, Stopped
  <2>7. CASE ReadPrices(r)
    BY <2>7, ReadMove DEF ReadPrices, GoTo, Working, Input
  <2>8. CASE Compute(r)
    BY <2>8, QuietMove DEF Compute, GoTo, Working, Stopped
  <2>9. CASE LoadBaseline(r)
    BY <2>9, ReadMove DEF LoadBaseline, GoTo, Working, Input
  <2>10. CASE Raises(r)
    BY <2>10, QuietMove DEF Raises, GoTo, Working, Stopped
  <2> QED
    BY <1>1, <2>1, <2>2, <2>3, <2>4, <2>5, <2>6, <2>7, <2>8, <2>9, <2>10,
       CreateKeeps, OpenKeeps, CloseKeeps, HashKeeps DEF Main
<1>2. ASSUME NEW r \in Run, Crash(r)
      PROVE  IInv'
  BY <1>2, QuietMove DEF Crash, GoTo, Working, Stopped
<1>3. ASSUME NEW i \in Input, Edit(i)
      PROVE  IInv'
  <2>1. /\ content' = [content EXCEPT ![i] = 1 - @]
        /\ UNCHANGED << pc, committed, head, tracked, exists, files, used, hashed, written >>
    BY <1>3 DEF Edit, out, mine
  <2>2. content' \in [Input -> {0, 1}]
    BY <2>1 DEF IInv, TypeOK
  <2>3. TypeOK' /\ NothingRead'
    BY <2>1, <2>2 DEF IInv, TypeOK, NothingRead, Present
  <2> QED
    BY <2>1, <2>3, Stays DEF IInv
<1>4. ASSUME Commit
      PROVE  IInv'
  <2>1. /\ head < MaxCommits /\ head' = head + 1 /\ committed' = content /\ tracked' = Present
        /\ UNCHANGED << pc, content, exists, files, used, hashed, written >>
    BY <1>4 DEF Commit, out, mine
  <2>2. head' \in 0 .. MaxCommits /\ tracked' \subseteq File
    BY <2>1, RunAssumption DEF IInv, TypeOK, Present
  <2>3. TypeOK' /\ NothingRead'
    BY <2>1, <2>2 DEF IInv, TypeOK, NothingRead, Present
  <2> QED
    BY <2>1, <2>3, Stays DEF IInv
<1>5. ASSUME UNCHANGED vars
      PROVE  IInv'
  <2>1. TypeOK' /\ NothingRead'
    BY <1>5 DEF IInv, TypeOK, NothingRead, Present, vars, tree, out, mine
  <2> QED
    BY <1>5, <2>1, Stays DEF IInv, vars, out, mine
<1> QED
  BY <1>1, <1>2, <1>3, <1>4, <1>5, ClearKeeps DEF Next

\* The account of who owns the directory holds throughout.
THEOREM RunInductive == Spec => []IInv
BY InitIInv, NextIInv, PTL DEF Spec

\* Every variable keeps its type, there is no file without a directory, and a
\* refused run has read nothing.
THEOREM RunTypeCorrect == Spec => []TypeOK
<1>1. IInv => TypeOK
  BY DEF IInv
<1> QED
  BY <1>1, RunInductive, PTL

\* The output directory never mixes the files of two invocations.
THEOREM OnlyOneAuthor == Spec => []OneAuthor
<1>1. IInv => OneAuthor
  BY DEF IInv, Authorship
<1> QED
  BY <1>1, RunInductive, PTL

\* However many invocations overlap, at most one completes.
THEOREM OneCompletion == Spec => []AtMostOneCompletes
<1>1. IInv => AtMostOneCompletes
  BY DEF IInv, Ownership, Owning, AtMostOneCompletes
<1> QED
  BY <1>1, RunInductive, PTL

\* When the metadata is there, the other files are there, whole, by its author.
THEOREM CompleteWhenMarked == Spec => []MetadataMarksCompletion
<1>1. IInv => MetadataMarksCompletion
  BY DEF IInv, Authorship
<1> QED
  BY <1>1, RunInductive, PTL

-----------------------------------------------------------------------------
(* The rolling backtest: the invariant                                     *)

\* How far an invocation has come, whether it goes on or has stopped.
Walking    == phase \in {"loading", "walking"} \/ error \in {"load", "short", "engine"}
Flagged    == phase = "flagged" \/ error = "sample"
Unwritten  == Walking \/ Flagged \/ phase = "summarised"
RowsOnly   == phase = "csv" \/ error = "nan"
DiskFailed == error = "disk"
BothThere  == phase \in {"json", "figures", "done"} \/ error \in {"plotting", "report"}

\* The rows are those of the first days, in order.
RowsInOrder ==
  /\ Len(frame) \in Nat
  /\ frame = [ k \in 1 .. Len(frame) |-> Row(input.window + k - 1) ]
  /\ frame # << >> => input.window \in Nat \ {0} /\ input.window + Len(frame) <= input.n

\* The column of a frame that covers every day.
FrameFlagged ==
  /\ input.n > input.window /\ input.window + Len(frame) = input.n
  /\ flags = Violations(Column("var"), Column("loss"))

RollingInv ==
  /\ run \in 0 .. MaxRuns /\ csv \in 0 .. run /\ json \in 0 .. run /\ json <= csv
  /\ cut \subseteq {"csv", "json"} /\ (json = csv => "csv" \notin cut)
  /\ phase \in Phase /\ error \in Error /\ (phase = "failed" <=> error # "none")
  /\ phase = "idle" =>
       input = Nothing /\ frame = << >> /\ flags = << >> /\ summary = Nothing
  /\ phase # "idle" =>
       /\ input \in Inputs /\ RowsInOrder
       /\ IF Walking THEN flags = << >> ELSE FrameFlagged
       /\ IF Walking \/ Flagged THEN summary = Nothing
                                ELSE summary = Summary /\ EnoughForIndependence(flags)
       /\ Unwritten  => csv < run
       /\ RowsOnly   => csv = run /\ json < run /\ "csv" \notin cut
       /\ DiskFailed => (json = run => "json" \in cut)
       /\ BothThere  => csv = run /\ json = run /\ cut = {}

-----------------------------------------------------------------------------
(* The invariant is inductive                                              *)

\* What the rows, the flags and the summary are made of is what they mention.
LEMMA RowsStay ==
  ASSUME input' = input, frame' = frame
  PROVE  RowsInOrder' <=> RowsInOrder
BY DEF RowsInOrder, Row, Window

LEMMA FlagsStay ==
  ASSUME input' = input, frame' = frame, flags' = flags
  PROVE  FrameFlagged' <=> FrameFlagged
BY DEF FrameFlagged, Violations, Column

LEMMA SummaryStays ==
  ASSUME input' = input, frame' = frame, flags' = flags
  PROVE  Summary' = Summary
<1>1. Years' = Years
  BY DEF Years, Days
<1>2. RollingSummary' = RollingSummary
  BY DEF RollingSummary, RollingZones, Coloured
<1>3. (\A y : Annual(y)' = Annual(y)) /\ Entered' = Entered /\ (\A e : Stress(e)' = Stress(e))
  BY DEF Annual, Entered, Stress, DaysOf, Days, RowsIn, CountIn
<1> QED BY <1>1, <1>2, <1>3 DEF Summary

\* A step of main() after its rows, its flags or its summary.
LEMMA RollingMoves ==
  ASSUME RollingInv, phase # "idle", UNCHANGED << run, memory >>,
         phase' \in Phase \ {"idle"}, error' \in Error, phase' = "failed" <=> error' # "none",
         Walking' <=> Walking, Flagged' <=> Flagged,
         csv' \in 0 .. run, json' \in 0 .. run, json' <= csv',
         cut' \subseteq {"csv", "json"}, json' = csv' => "csv" \notin cut',
         Unwritten'  => csv' < run,
         RowsOnly'   => csv' = run /\ json' < run /\ "csv" \notin cut',
         DiskFailed' => (json' = run => "json" \in cut'),
         BothThere'  => csv' = run /\ json' = run /\ cut' = {}
  PROVE  RollingInv'
<1>1. run' = run /\ input' = input /\ frame' = frame /\ flags' = flags /\ summary' = summary
  BY DEF memory
<1>2. RowsInOrder' <=> RowsInOrder
  BY <1>1, RowsStay
<1>3. FrameFlagged' <=> FrameFlagged
  BY <1>1, FlagsStay
<1>4. Summary' = Summary
  BY <1>1, SummaryStays
<1>5. EnoughForIndependence(flags') <=> EnoughForIndependence(flags)
  BY <1>1
<1> QED BY <1>1, <1>2, <1>3, <1>4, <1>5 DEF RollingInv

LEMMA RollingInitially == RollingInit => RollingInv
BY RollingAssumption DEF RollingInit, RollingInv, Phase, Error, Unwritten, RowsOnly, BothThere,
                         DiskFailed, Walking, Flagged

LEMMA RollingInductive == RollingInv /\ [RollingNext]_rollingVars => RollingInv'
<1> SUFFICES ASSUME RollingInv, [RollingNext]_rollingVars PROVE RollingInv'
  OBVIOUS
<1> USE DEF Phase, Error
<1>1. CASE Start
  <2>1. /\ phase = "idle" /\ run < MaxRuns /\ run' = run + 1 /\ phase' = "loading"
        /\ input' \in Inputs /\ error' = error /\ frame' = frame /\ flags' = flags
        /\ summary' = summary /\ csv' = csv /\ json' = json /\ cut' = cut
    BY <1>1 DEF Start, disk
  <2>2. /\ frame = << >> /\ flags = << >> /\ summary = Nothing /\ error = "none"
        /\ run \in 0 .. MaxRuns /\ csv \in 0 .. run /\ json \in 0 .. run /\ json <= csv
        /\ cut \subseteq {"csv", "json"} /\ (json = csv => "csv" \notin cut)
        /\ MaxRuns \in Nat
    BY <2>1, RollingAssumption DEF RollingInv
  <2>3. run' \in 0 .. MaxRuns /\ csv' \in 0 .. run' /\ json' \in 0 .. run' /\ csv' < run'
    BY <2>1, <2>2
  <2>4. RowsInOrder'
    <3>1. frame' = << >> /\ Len(frame') = 0
      BY <2>1, <2>2
    <3> QED BY <3>1 DEF RowsInOrder
  <2>5. Walking' /\ Unwritten' /\ ~RowsOnly' /\ ~BothThere' /\ ~DiskFailed'
    BY <2>1, <2>2 DEF Walking, Unwritten, RowsOnly, BothThere, DiskFailed
  <2> QED BY <2>1, <2>2, <2>3, <2>4, <2>5 DEF RollingInv
<1>14. CASE Load
  <2>1. /\ phase = "loading" /\ UNCHANGED << run, memory >>
        /\ csv' = csv /\ json' = json /\ cut' = cut
        /\ \/ phase' = "walking" /\ error' = error
           \/ phase' = "failed" /\ error' = "load"
    BY <1>14 DEF Load, Stop, disk
  <2>2. error = "none" /\ Walking /\ Unwritten /\ ~Flagged
    BY <2>1 DEF RollingInv, Walking, Unwritten, Flagged
  <2>3. Walking' /\ ~Flagged' /\ Unwritten' /\ ~RowsOnly' /\ ~BothThere' /\ ~DiskFailed'
    BY <2>1, <2>2 DEF Walking, Flagged, Unwritten, RowsOnly, BothThere, DiskFailed
  <2>4. /\ csv < run /\ csv \in 0 .. run /\ json \in 0 .. run /\ json <= csv
        /\ cut \subseteq {"csv", "json"} /\ (json = csv => "csv" \notin cut)
    BY <2>1, <2>2 DEF RollingInv
  <2> QED BY <2>1, <2>2, <2>3, <2>4, RollingMoves
<1>2. CASE TooShort
  <2>1. phase = "walking" /\ phase' = "failed" /\ error' = "short"
        /\ UNCHANGED << run, memory >> /\ csv' = csv /\ json' = json /\ cut' = cut
    BY <1>2 DEF TooShort, Stop, disk
  <2>2. error = "none" /\ Walking /\ Unwritten /\ ~Flagged
    BY <2>1 DEF RollingInv, Walking, Unwritten, Flagged
  <2>3. Walking' /\ ~Flagged' /\ Unwritten' /\ ~RowsOnly' /\ ~BothThere' /\ ~DiskFailed'
    BY <2>1 DEF Walking, Flagged, Unwritten, RowsOnly, BothThere, DiskFailed
  <2>4. /\ csv < run /\ csv \in 0 .. run /\ json \in 0 .. run /\ json <= csv
        /\ cut \subseteq {"csv", "json"} /\ (json = csv => "csv" \notin cut)
    BY <2>1, <2>2 DEF RollingInv
  <2> QED BY <2>1, <2>2, <2>3, <2>4, RollingMoves
<1>3. CASE Refused
  <2>1. phase = "walking" /\ phase' = "failed" /\ error' = "engine"
        /\ UNCHANGED << run, memory >> /\ csv' = csv /\ json' = json /\ cut' = cut
    BY <1>3 DEF Refused, Stop, disk
  <2>2. error = "none" /\ Walking /\ Unwritten /\ ~Flagged
    BY <2>1 DEF RollingInv, Walking, Unwritten, Flagged
  <2>3. Walking' /\ ~Flagged' /\ Unwritten' /\ ~RowsOnly' /\ ~BothThere' /\ ~DiskFailed'
    BY <2>1 DEF Walking, Flagged, Unwritten, RowsOnly, BothThere, DiskFailed
  <2>4. /\ csv < run /\ csv \in 0 .. run /\ json \in 0 .. run /\ json <= csv
        /\ cut \subseteq {"csv", "json"} /\ (json = csv => "csv" \notin cut)
    BY <2>1, <2>2 DEF RollingInv
  <2> QED BY <2>1, <2>2, <2>3, <2>4, RollingMoves
<1>4. CASE ForecastDay
  <2>1. /\ phase = "walking" /\ input.window + Len(frame) < input.n
        /\ frame' = Append(frame, Row(input.window + Len(frame)))
        /\ run' = run /\ phase' = phase /\ error' = error /\ input' = input /\ flags' = flags
        /\ summary' = summary /\ csv' = csv /\ json' = json /\ cut' = cut
    BY <1>4 DEF ForecastDay, disk
  <2>2. Walking /\ (Walking' <=> Walking) /\ (Flagged' <=> Flagged)
        /\ (Unwritten' <=> Unwritten) /\ (RowsOnly' <=> RowsOnly) /\ (BothThere' <=> BothThere)
        /\ (DiskFailed' <=> DiskFailed)
    BY <2>1 DEF Walking, Flagged, Unwritten, RowsOnly, BothThere, DiskFailed
  <2>3. RowsInOrder'
    <3>1. PICK m \in Nat : m = Len(frame)
      BY <2>1 DEF RollingInv, RowsInOrder
    <3>2. input \in Inputs /\ frame = [ k \in 1 .. m |-> Row(input.window + k - 1) ]
      BY <2>1, <3>1 DEF RollingInv, RowsInOrder
    <3>3. input.window \in Nat \ {0} /\ input.n \in Nat
      <4>1. input.window \in Int /\ input.n \in Nat
        BY <3>2, RollingAssumption DEF IsInput
      <4>2. ~(input.window < 2)
        BY <1>4 DEF ForecastDay, EngineRefuses
      <4> QED BY <4>1, <4>2
    <3>4. \A t : Row(t)' = Row(t)
      BY <2>1 DEF Row, Window
    <3>5. PICK S : \A k \in 1 .. m + 1 : Row(input.window + k - 1) \in S
      <4>1. \A k \in 1 .. m + 1 :
              Row(input.window + k - 1) \in { Row(input.window + j - 1) : j \in 1 .. m + 1 }
        OBVIOUS
      <4> QED BY <4>1
    <3>6. frame \in Seq(S) /\ Row(input.window + m) \in S
      <4>1. input.window + m = input.window + (m + 1) - 1 /\ m + 1 \in 1 .. m + 1
        BY <3>1, <3>3
      <4>2. Row(input.window + m) \in S
        BY <3>5, <4>1
      <4>3. frame \in [1 .. m -> S]
        BY <3>1, <3>2, <3>5
      <4> QED BY <3>1, <4>2, <4>3
    <3>7. /\ Len(frame') = m + 1
          /\ \A k \in 1 .. m : frame'[k] = frame[k]
          /\ frame'[m + 1] = Row(input.window + m)
          /\ frame' \in Seq(S)
      BY <2>1, <3>1, <3>6, AppendProperties
    <3>8. frame' = [ k \in 1 .. m + 1 |-> Row(input.window + k - 1) ]
      <4>1. DOMAIN frame' = 1 .. m + 1 /\ frame' = [ k \in 1 .. m + 1 |-> frame'[k] ]
        BY <3>1, <3>7, LenProperties
      <4>2. ASSUME NEW k \in 1 .. m + 1 PROVE frame'[k] = Row(input.window + k - 1)
        <5>1. CASE k \in 1 .. m
          BY <3>2, <3>7, <5>1
        <5>2. CASE k = m + 1
          <6>1. input.window + k - 1 = input.window + m
            BY <3>1, <3>3, <5>2
          <6> QED BY <3>7, <5>2, <6>1
        <5> QED BY <3>1, <5>1, <5>2
      <4> QED BY <4>1, <4>2
    <3>9. input.window + (m + 1) <= input.n
      BY <2>1, <3>1, <3>3
    <3> QED BY <2>1, <3>1, <3>3, <3>4, <3>7, <3>8, <3>9 DEF RowsInOrder
  <2> QED BY <2>1, <2>2, <2>3 DEF RollingInv
<1>5. CASE FlagExceptions
  <2>1. /\ phase = "walking" /\ input.n > input.window /\ input.window + Len(frame) = input.n
        /\ flags' = Violations(Column("var"), Column("loss")) /\ phase' = "flagged"
        /\ run' = run /\ error' = error /\ input' = input /\ frame' = frame
        /\ summary' = summary /\ csv' = csv /\ json' = json /\ cut' = cut
    BY <1>5 DEF FlagExceptions, disk
  <2>2. error = "none" /\ Walking /\ Unwritten
    BY <2>1 DEF RollingInv, Walking, Unwritten
  <2>3. Flagged' /\ ~Walking' /\ Unwritten' /\ ~RowsOnly' /\ ~BothThere' /\ ~DiskFailed'
    BY <2>1, <2>2 DEF Walking, Flagged, Unwritten, RowsOnly, BothThere, DiskFailed
  <2>4. RowsInOrder' <=> RowsInOrder
    BY <2>1, RowsStay
  <2>5. FrameFlagged'
    BY <2>1 DEF FrameFlagged, Column
  <2> QED BY <2>1, <2>2, <2>3, <2>4, <2>5 DEF RollingInv
<1>6. CASE SingleRow
  <2>1. phase = "flagged" /\ phase' = "failed" /\ error' = "sample"
        /\ UNCHANGED << run, memory >> /\ csv' = csv /\ json' = json /\ cut' = cut
    BY <1>6 DEF SingleRow, Stop, disk
  <2>2. error = "none" /\ ~Walking /\ Unwritten /\ Flagged
    BY <2>1 DEF RollingInv, Walking, Unwritten, Flagged
  <2>3. ~Walking' /\ Flagged' /\ Unwritten' /\ ~RowsOnly' /\ ~BothThere' /\ ~DiskFailed'
    BY <2>1 DEF Walking, Flagged, Unwritten, RowsOnly, BothThere, DiskFailed
  <2>4. /\ csv < run /\ csv \in 0 .. run /\ json \in 0 .. run /\ json <= csv
        /\ cut \subseteq {"csv", "json"} /\ (json = csv => "csv" \notin cut)
    BY <2>1, <2>2 DEF RollingInv
  <2> QED BY <2>1, <2>2, <2>3, <2>4, RollingMoves
<1>7. CASE Summarise
  <2>1. /\ phase = "flagged" /\ EnoughForIndependence(flags)
        /\ summary' = Summary /\ phase' = "summarised"
        /\ run' = run /\ error' = error /\ input' = input /\ frame' = frame
        /\ flags' = flags /\ csv' = csv /\ json' = json /\ cut' = cut
    BY <1>7 DEF Summarise, disk
  <2>2. error = "none" /\ ~Walking /\ Unwritten
    BY <2>1 DEF RollingInv, Walking, Unwritten, Flagged
  <2>3. ~Flagged' /\ ~Walking' /\ Unwritten' /\ ~RowsOnly' /\ ~BothThere' /\ ~DiskFailed'
    BY <2>1, <2>2 DEF Walking, Flagged, Unwritten, RowsOnly, BothThere, DiskFailed
  <2>4. /\ RowsInOrder' <=> RowsInOrder
        /\ FrameFlagged' <=> FrameFlagged
        /\ Summary' = Summary
    BY <2>1, RowsStay, FlagsStay, SummaryStays
  <2>5. EnoughForIndependence(flags)'
    BY <2>1
  <2> QED BY <2>1, <2>2, <2>3, <2>4, <2>5 DEF RollingInv
<1>8. CASE WriteCsv
  <2>1. phase = "summarised" /\ phase' = "csv" /\ csv' = run /\ json' = json
        /\ cut' = cut \ {"csv"} /\ error' = error /\ UNCHANGED << run, memory >>
    BY <1>8 DEF WriteCsv
  <2>2. error = "none" /\ ~Walking /\ ~Flagged /\ Unwritten
    BY <2>1 DEF RollingInv, Walking, Unwritten, Flagged
  <2>3. ~Walking' /\ ~Flagged' /\ ~Unwritten' /\ RowsOnly' /\ ~BothThere' /\ ~DiskFailed'
    BY <2>1, <2>2 DEF Walking, Flagged, Unwritten, RowsOnly, BothThere, DiskFailed
  <2>4. csv < run /\ csv \in 0 .. run /\ json \in 0 .. run /\ json <= csv /\ run \in Nat
        /\ cut \subseteq {"csv", "json"}
    BY <2>1, <2>2, RollingAssumption DEF RollingInv
  <2>5. cut' \subseteq {"csv", "json"} /\ "csv" \notin cut'
    BY <2>1, <2>4
  <2> QED BY <2>1, <2>2, <2>3, <2>4, <2>5, RollingMoves
<1>9. CASE WriteJson
  <2>1. phase = "csv" /\ phase' = "json" /\ json' = run /\ csv' = csv
        /\ cut' = cut \ {"json"} /\ error' = error /\ UNCHANGED << run, memory >>
    BY <1>9 DEF WriteJson
  <2>2. error = "none" /\ ~Walking /\ ~Flagged /\ RowsOnly
    BY <2>1 DEF RollingInv, Walking, RowsOnly, Flagged
  <2>3. ~Walking' /\ ~Flagged' /\ ~Unwritten' /\ ~RowsOnly' /\ BothThere' /\ ~DiskFailed'
    BY <2>1, <2>2 DEF Walking, Flagged, Unwritten, RowsOnly, BothThere, DiskFailed
  <2>4. csv = run /\ csv \in 0 .. run /\ run \in Nat
        /\ cut \subseteq {"csv", "json"} /\ "csv" \notin cut
    BY <2>1, <2>2, RollingAssumption DEF RollingInv
  <2>5. cut' = {}
    BY <2>1, <2>4
  <2> QED BY <2>1, <2>2, <2>3, <2>4, <2>5, RollingMoves
<1>15. CASE CannotWriteCsv
  <2>1. /\ phase = "summarised" /\ phase' = "failed" /\ error' = "disk"
        /\ UNCHANGED << run, memory >> /\ json' = json
        /\ \/ csv' = csv /\ cut' = cut
           \/ csv' = run /\ cut' = cut \cup {"csv"}
    BY <1>15 DEF CannotWriteCsv, Stop
  <2>2. error = "none" /\ ~Walking /\ ~Flagged /\ Unwritten
    BY <2>1 DEF RollingInv, Walking, Unwritten, Flagged
  <2>3. ~Walking' /\ ~Flagged' /\ ~Unwritten' /\ ~RowsOnly' /\ ~BothThere'
    BY <2>1, <2>2 DEF Walking, Flagged, Unwritten, RowsOnly, BothThere
  <2>4. /\ csv < run /\ csv \in 0 .. run /\ json \in 0 .. run /\ json <= csv /\ run \in Nat
        /\ cut \subseteq {"csv", "json"} /\ (json = csv => "csv" \notin cut)
    BY <2>1, <2>2, RollingAssumption DEF RollingInv
  <2>5. /\ cut' \subseteq {"csv", "json"} /\ (json' = csv' => "csv" \notin cut')
        /\ csv' \in 0 .. run /\ json' \in 0 .. run /\ json' <= csv' /\ json' # run
    <3>1. cut' \subseteq {"csv", "json"}
      BY <2>1, <2>4
    <3>2. CASE csv' = csv /\ cut' = cut
      BY <2>1, <2>4, <3>1, <3>2
    <3>3. CASE csv' = run
      <4>1. json' < run
        BY <2>1, <2>4
      <4> QED BY <2>1, <2>4, <3>1, <3>3, <4>1
    <3> QED BY <2>1, <3>2, <3>3
  <2> QED BY <2>1, <2>2, <2>3, <2>5, RollingMoves
<1>16. CASE CannotWriteJson
  <2>1. /\ phase = "csv" /\ phase' = "failed" /\ error' = "disk"
        /\ UNCHANGED << run, memory >> /\ csv' = csv
        /\ \/ json' = json /\ cut' = cut
           \/ json' = run /\ cut' = cut \cup {"json"}
    BY <1>16 DEF CannotWriteJson, Stop
  <2>2. error = "none" /\ ~Walking /\ ~Flagged /\ RowsOnly
    BY <2>1 DEF RollingInv, Walking, RowsOnly, Flagged
  <2>3. ~Walking' /\ ~Flagged' /\ ~Unwritten' /\ ~RowsOnly' /\ ~BothThere'
    BY <2>1, <2>2 DEF Walking, Flagged, Unwritten, RowsOnly, BothThere
  <2>4. /\ csv = run /\ json < run /\ csv \in 0 .. run /\ json \in 0 .. run /\ run \in Nat
        /\ cut \subseteq {"csv", "json"} /\ "csv" \notin cut
    BY <2>1, <2>2, RollingAssumption DEF RollingInv
  <2>5. /\ cut' \subseteq {"csv", "json"} /\ "csv" \notin cut'
        /\ csv' \in 0 .. run /\ json' \in 0 .. run /\ json' <= csv'
        /\ (json' = run => "json" \in cut')
    <3>1. cut' \subseteq {"csv", "json"} /\ "csv" \notin cut'
      BY <2>1, <2>4
    <3>2. CASE json' = json /\ cut' = cut
      BY <2>1, <2>4, <3>1, <3>2
    <3>3. CASE json' = run /\ cut' = cut \cup {"json"}
      BY <2>1, <2>4, <3>1, <3>3
    <3> QED BY <2>1, <3>2, <3>3
  <2> QED BY <2>1, <2>2, <2>3, <2>5, RollingMoves
<1>10. CASE NotSerialisable
  <2>1. phase = "csv" /\ phase' = "failed" /\ error' = "nan"
        /\ UNCHANGED << run, memory >> /\ csv' = csv /\ json' = json /\ cut' = cut
    BY <1>10 DEF NotSerialisable, Stop, disk
  <2>2. error = "none" /\ ~Walking /\ ~Flagged /\ RowsOnly
    BY <2>1 DEF RollingInv, Walking, RowsOnly, Flagged
  <2>3. ~Walking' /\ ~Flagged' /\ ~Unwritten' /\ RowsOnly' /\ ~BothThere' /\ ~DiskFailed'
    BY <2>1, <2>2 DEF Walking, Flagged, Unwritten, RowsOnly, BothThere, DiskFailed
  <2>4. /\ csv = run /\ json < run /\ csv \in 0 .. run /\ json \in 0 .. run /\ json <= csv
        /\ cut \subseteq {"csv", "json"} /\ "csv" \notin cut
    BY <2>1, <2>2 DEF RollingInv
  <2> QED BY <2>1, <2>2, <2>3, <2>4, RollingMoves
<1>11. CASE Plot \/ Report
  <2>1. /\ phase \in {"json", "figures"}
        /\ UNCHANGED << run, memory >> /\ csv' = csv /\ json' = json /\ cut' = cut
        /\ \/ phase' \in {"figures", "done"} /\ error' = error
           \/ phase' = "failed" /\ error' \in {"plotting", "report"}
    BY <1>11 DEF Plot, Report, Stop, disk
  <2>2. error = "none" /\ ~Walking /\ ~Flagged /\ BothThere
    BY <2>1 DEF RollingInv, Walking, BothThere, Flagged
  <2>3. ~Walking' /\ ~Flagged' /\ ~Unwritten' /\ ~RowsOnly' /\ BothThere' /\ ~DiskFailed'
    BY <2>1, <2>2 DEF Walking, Flagged, Unwritten, RowsOnly, BothThere, DiskFailed
  <2>4. csv = run /\ json = run /\ csv \in 0 .. run /\ cut = {}
    BY <2>1, <2>2 DEF RollingInv
  <2> QED BY <2>1, <2>2, <2>3, <2>4, RollingMoves
<1>12. CASE End
  <2>1. /\ phase' = "idle" /\ error' = "none" /\ input' = Nothing /\ frame' = << >>
        /\ flags' = << >> /\ summary' = Nothing /\ run' = run /\ csv' = csv /\ json' = json
        /\ cut' = cut
    BY <1>12 DEF End, disk
  <2> QED BY <2>1 DEF RollingInv
<1>13. CASE UNCHANGED rollingVars
  <2>1. /\ run' = run /\ phase' = phase /\ error' = error /\ csv' = csv /\ json' = json
        /\ cut' = cut
        /\ input' = input /\ frame' = frame /\ flags' = flags /\ summary' = summary
    BY <1>13 DEF rollingVars, memory, disk
  <2>2. /\ RowsInOrder' <=> RowsInOrder
        /\ FrameFlagged' <=> FrameFlagged
        /\ Summary' = Summary
    BY <2>1, RowsStay, FlagsStay, SummaryStays
  <2>3. /\ Walking' <=> Walking
        /\ Flagged' <=> Flagged
        /\ Unwritten' <=> Unwritten
        /\ RowsOnly' <=> RowsOnly
        /\ BothThere' <=> BothThere
        /\ DiskFailed' <=> DiskFailed
    BY <2>1 DEF Walking, Flagged, Unwritten, RowsOnly, BothThere, DiskFailed
  <2> QED BY <2>1, <2>2, <2>3 DEF RollingInv
<1> QED BY <1>1, <1>2, <1>3, <1>4, <1>5, <1>6, <1>7, <1>8, <1>9, <1>10, <1>11, <1>12, <1>13, <1>14,
          <1>15, <1>16
        DEF RollingNext

LEMMA RollingAlways == RollingSpec => []RollingInv
BY RollingInitially, RollingInductive, PTL DEF RollingSpec

\* What stopped a run tells what it left, however many runs shared the
\* directory and wherever each was killed.
THEOREM FailuresTell == RollingSpec => []FailureTellsArtefacts
<1>1. RollingInv => FailureTellsArtefacts
  <2> SUFFICES ASSUME RollingInv PROVE FailureTellsArtefacts
    OBVIOUS
  <2>1. CASE phase = "idle"
    BY <2>1 DEF RollingInv, FailureTellsArtefacts
  <2>2. CASE phase # "idle"
    <3>1. /\ csv \in 0 .. run /\ json \in 0 .. run /\ json <= csv /\ run \in Nat
          /\ (json = csv => "csv" \notin cut)
      BY RollingAssumption DEF RollingInv
    <3>2. /\ Unwritten  => csv < run
          /\ RowsOnly   => csv = run /\ json < run /\ "csv" \notin cut
          /\ DiskFailed => (json = run => "json" \in cut)
          /\ BothThere  => csv = run /\ json = run /\ cut = {}
      BY <2>2 DEF RollingInv
    <3> QED BY <3>1, <3>2 DEF FailureTellsArtefacts, Unwritten, Walking, Flagged, RowsOnly,
                              BothThere, DiskFailed
  <2> QED BY <2>1, <2>2
<1> QED BY <1>1, RollingAlways, PTL

-----------------------------------------------------------------------------
(* A flagged frame                                                         *)

\* What a frame that covers every day holds, and what it was given.
LEMMA FrameOf ==
  ASSUME RollingInv, phase # "idle", ~Walking
  PROVE  \E m \in Nat \ {0} :
           /\ m = Len(frame) /\ DOMAIN frame = 1 .. m /\ Len(flags) = m /\ DOMAIN flags = 1 .. m
           /\ input.window \in Nat \ {0} /\ input.n = input.window + m
           /\ \A k \in 1 .. m :
                LET t == input.window + k - 1
                IN  /\ t \in Days /\ frame[k].date = t
                    /\ frame[k].window_end = t - 1 /\ frame[k].n_obs = input.window
                    /\ flags[k] \in BOOLEAN
                    /\ flags[k] <=> input.losses[t] = 1 /\ input.estimates[t] = 0
<1>1. /\ input \in Inputs /\ Len(frame) \in Nat
      /\ frame = [ k \in 1 .. Len(frame) |-> Row(input.window + k - 1) ]
      /\ input.n > input.window /\ input.window + Len(frame) = input.n
      /\ flags = Violations(Column("var"), Column("loss"))
  BY DEF RollingInv, RowsInOrder, FrameFlagged
<1>2. /\ input.n \in Nat /\ input.window \in Int
      /\ input.estimates \in [input.window .. input.n -> 0 .. 1]
      /\ input.losses \in [input.window .. input.n - 1 -> 0 .. 1]
  BY <1>1, RollingAssumption DEF IsInput
<1>3. PICK m \in Nat \ {0} : m = Len(frame) /\ input.n = input.window + m
  <2>1. PICK m \in Nat, n \in Nat, w \in Int : m = Len(frame) /\ n = input.n /\ w = input.window
    BY <1>1, <1>2
  <2>2. n > w /\ w + m = n
    BY <1>1, <2>1
  <2>3. m # 0
    BY <2>2
  <2> QED BY <2>1, <2>2, <2>3
<1>9. input.window \in Nat \ {0}
  <2>1. frame # << >>
    BY <1>3
  <2> QED BY <2>1 DEF RollingInv, RowsInOrder
<1>4. DOMAIN frame = 1 .. m /\ \A k \in 1 .. m : frame[k] = Row(input.window + k - 1)
  BY <1>1, <1>3
<1>5. DOMAIN Column("var") = 1 .. m
      /\ \A k \in 1 .. m : Column("var")[k] = frame[k].var /\ Column("loss")[k] = frame[k].loss
  BY <1>4 DEF Column
<1>6. flags = [ k \in 1 .. m |-> frame[k].loss > frame[k].var ]
  BY <1>1, <1>5 DEF Violations
<1>7. DOMAIN flags = 1 .. m /\ Len(flags) = m
  BY <1>3, <1>6
<1>8. ASSUME NEW k \in 1 .. m
      PROVE  LET t == input.window + k - 1
             IN  /\ t \in Days /\ frame[k].date = t
                 /\ frame[k].window_end = t - 1 /\ frame[k].n_obs = input.window
                 /\ flags[k] \in BOOLEAN
                 /\ flags[k] <=> input.losses[t] = 1 /\ input.estimates[t] = 0
  <2>1. PICK t \in Nat : t = input.window + k - 1
    BY <1>9
  <2>2. t \in input.window .. input.n - 1 /\ t \in input.window .. input.n
    BY <1>2, <1>3, <2>1
  <2>3. /\ frame[k].date = t /\ frame[k].window_end = t - 1
        /\ frame[k].n_obs = t - (t - input.window)
        /\ frame[k].loss = input.losses[t] /\ frame[k].var = input.estimates[t]
    BY <1>4, <2>1 DEF Row, Window
  <2>4. PICK l \in 0 .. 1, v \in 0 .. 1 : l = input.losses[t] /\ v = input.estimates[t]
    BY <1>2, <2>2
  <2>5. flags[k] = (l > v)
    BY <1>6, <2>3, <2>4
  <2>6. flags[k] \in BOOLEAN /\ (flags[k] <=> l = 1 /\ v = 0)
    <3>1. l = 0 \/ l = 1
      BY <2>4
    <3>2. v = 0 \/ v = 1
      BY <2>4
    <3>3. (l > v) <=> l = 1 /\ v = 0
      BY <3>1, <3>2
    <3>4. PICK q : q = flags[k]
      OBVIOUS
    <3>5. (l > v) \in BOOLEAN
      BY <2>4
    <3>6. q <=> l > v
      BY <2>4, <2>5, <3>4
    <3>7. q \in BOOLEAN
      BY <2>5, <3>4, <3>5, Zenon
    <3> QED BY <3>3, <3>4, <3>6, <3>7
  <2>7. t - (t - input.window) = input.window
    BY <1>2, <2>1
  <2> QED BY <2>1, <2>2, <2>3, <2>4, <2>6, <2>7 DEF Days
<1> QED BY <1>2, <1>3, <1>4, <1>7, <1>8, <1>9

\* Its flags are a sequence of Booleans.
LEMMA FlagsAreSeq ==
  ASSUME RollingInv, phase # "idle", ~Walking
  PROVE  flags \in Seq(BOOLEAN)
<1>1. PICK m \in Nat : /\ Len(flags) = m /\ DOMAIN flags = 1 .. m
                       /\ \A k \in 1 .. m : flags[k] \in BOOLEAN
  BY FrameOf
<1>2. flags = [ k \in 1 .. m |-> flags[k] ]
  BY <1>1 DEF RollingInv, FrameFlagged, Violations
<1>3. [ k \in 1 .. m |-> flags[k] ] \in [ 1 .. m -> BOOLEAN ]
  BY <1>1, Zenon
<1>4. flags \in [ 1 .. m -> BOOLEAN ]
  BY <1>2, <1>3, Zenon
<1>5. \A S, v : v \in [ 1 .. m -> S ] => v \in Seq(S)
  BY <1>1
<1> QED BY <1>4, <1>5, Zenon

\* Whatever flags there are belong to such a frame.
LEMMA FlagsMeanFrame ==
  ASSUME RollingInv, flags # << >>
  PROVE  phase # "idle" /\ ~Walking
BY DEF RollingInv

\* Likewise the summary is of such a frame.
LEMMA SummaryMeansFrame ==
  ASSUME RollingInv, summary # Nothing
  PROVE  phase # "idle" /\ ~Walking /\ summary = Summary /\ Len(flags) >= 2
BY DEF RollingInv, EnoughForIndependence

\* Every day after the first window is forecast once, from exactly the window
\* before it, and its exception is that day's loss against that estimate, for
\* any series and any window.
THEOREM ExceptionsOutOfSample == RollingSpec => []OutOfSampleExceptions
<1>1. RollingInv => OutOfSampleExceptions
  <2> SUFFICES ASSUME RollingInv, flags # << >> PROVE OutOfSampleExceptions
    BY DEF OutOfSampleExceptions
  <2>1. PICK m \in Nat \ {0} :
          /\ m = Len(frame) /\ DOMAIN frame = 1 .. m
          /\ input.window \in Nat \ {0} /\ input.n = input.window + m
          /\ \A k \in 1 .. m :
               LET t == input.window + k - 1
               IN  /\ t \in Days /\ frame[k].date = t
                   /\ frame[k].window_end = t - 1 /\ frame[k].n_obs = input.window
                   /\ flags[k] \in BOOLEAN
                   /\ flags[k] <=> input.losses[t] = 1 /\ input.estimates[t] = 0
    BY FrameOf, FlagsMeanFrame
  <2>2. { frame[k].date : k \in DOMAIN frame } = Days
    <3>1. \A k \in DOMAIN frame : frame[k].date \in Days
      BY <2>1
    <3>2. ASSUME NEW t \in Days PROVE \E k \in DOMAIN frame : frame[k].date = t
      <4>1. PICK k \in 1 .. m : t = input.window + k - 1
        <5>1. t - input.window + 1 \in 1 .. m /\ t = input.window + (t - input.window + 1) - 1
          BY <2>1 DEF Days
        <5> QED BY <5>1
      <4> QED BY <2>1, <4>1
    <3> QED BY <3>1, <3>2
  <2>3. Cardinality(Days) = m
    <3>1. PICK a \in Int, b \in Int : a = input.window /\ b = input.n - 1
      BY <2>1
    <3>2. Cardinality(a .. b) = IF a > b THEN 0 ELSE b - a + 1
      BY FS_Interval
    <3>3. b - a + 1 = m /\ ~(a > b)
      BY <2>1, <3>1
    <3> QED BY <3>1, <3>2, <3>3 DEF Days
  <2>4. ASSUME NEW k \in DOMAIN frame
        PROVE  /\ frame[k].window_end = frame[k].date - 1 /\ frame[k].n_obs = input.window
               /\ flags[k] = (input.losses[frame[k].date] = 1 /\ input.estimates[frame[k].date] = 0)
    <3>1. PICK t : t = frame[k].date
      OBVIOUS
    <3>2. /\ frame[k].window_end = t - 1 /\ frame[k].n_obs = input.window
          /\ flags[k] \in BOOLEAN
          /\ flags[k] <=> input.losses[t] = 1 /\ input.estimates[t] = 0
      BY <2>1, <2>4, <3>1
    <3>3. flags[k] = (input.losses[t] = 1 /\ input.estimates[t] = 0)
      <4>1. PICK p \in BOOLEAN : p = (input.losses[t] = 1 /\ input.estimates[t] = 0)
        OBVIOUS
      <4>2. flags[k] <=> p
        BY <3>2, <4>1
      <4>3. flags[k] = p
        BY <3>2, <4>1, <4>2
      <4> QED BY <4>1, <4>3
    <3> QED BY <3>1, <3>2, <3>3
  <2> QED BY <2>1, <2>2, <2>3, <2>4 DEF OutOfSampleExceptions
<1> QED BY <1>1, RollingAlways, PTL

\* The types of an invocation, for any inputs: the frame never outgrows the
\* series, and a year has a zone exactly when it is long enough.
THEOREM RollingTypeCorrect == RollingSpec => []RollingTypeOK
<1>1. RollingInv => RollingTypeOK
  <2> SUFFICES ASSUME RollingInv PROVE RollingTypeOK
    OBVIOUS
  <2>1. /\ run \in 0 .. MaxRuns /\ phase \in Phase /\ error \in Error
        /\ (phase = "failed") = (error # "none")
        /\ csv \in 0 .. run /\ json \in 0 .. run /\ cut \subseteq {"csv", "json"}
    BY DEF RollingInv
  <2>2. ASSUME input # Nothing PROVE Len(frame) <= Max({0, input.n - input.window})
    <3>1. /\ input \in Inputs /\ Len(frame) \in Nat
          /\ frame # << >> => input.window + Len(frame) <= input.n
      BY <2>2 DEF RollingInv, RowsInOrder
    <3>2. input.n \in Nat /\ input.window \in Int
      BY <3>1, RollingAssumption DEF IsInput
    <3>3. PICK d \in Int : d = input.n - input.window
      BY <3>2
    <3>4. PICK x \in {0, d} : x >= 0 /\ x >= d
      BY <3>3
    <3>5. Max({0, d}) \in {0, d} /\ Max({0, d}) >= 0 /\ Max({0, d}) >= d
      BY <3>3, <3>4 DEF Max
    <3>6. frame = << >> => Len(frame) = 0
      OBVIOUS
    <3> QED BY <3>1, <3>2, <3>3, <3>5, <3>6
  <2>3. flags # << >> => Len(flags) = Len(frame)
    BY FrameOf, FlagsMeanFrame
  <2>4. ASSUME summary # Nothing, NEW y \in DOMAIN summary.years
        PROVE  LET entry == summary.years[y]
               IN  /\ (entry.zone = "none") = (entry.n_days < MinYear)
                   /\ entry.volatility \in {"null", "number"}
    <3>1. summary = Summary
      BY <2>4, SummaryMeansFrame
    <3>2. summary.years = [ z \in Years |-> Annual(z) ]
      BY <3>1 DEF Summary
    <3>3. summary.years[y] = Annual(y)
      BY <2>4, <3>2
    <3>4. Annual(y).volatility \in {"null", "number"}
      BY DEF Annual
    <3>5. PICK n : n = Annual(y).n_days
      OBVIOUS
    <3>6. n = Cardinality(RowsIn(DaysOf(y)))
      BY <3>5 DEF Annual
    <3>7. n \in Nat
      <4>1. PICK m \in Nat : DOMAIN frame = 1 .. m
        BY <2>4, FrameOf, SummaryMeansFrame
      <4>2. IsFiniteSet(RowsIn(DaysOf(y)))
        <5>1. IsFiniteSet(1 .. m)
          BY <4>1, FS_Interval
        <5> QED BY <4>1, <5>1, FS_Subset DEF RowsIn
      <4> QED BY <3>6, <4>2, FS_CardinalityType
    <3>8. \A x : Zone(n, x) # "none"
      BY DEF Zone
    <3>9. (Annual(y).zone = "none") <=> n < MinYear
      <4>1. Annual(y).zone = IF n >= MinYear THEN Zone(n, CountIn(DaysOf(y))) ELSE "none"
        BY <3>6 DEF Annual, Classified
      <4> QED BY <3>7, <3>8, <4>1, RollingAssumption
    <3> QED BY <3>3, <3>4, <3>5, <3>9
  <2> QED BY <2>1, <2>2, <2>3, <2>4 DEF RollingTypeOK
<1> QED BY <1>1, RollingAlways, PTL

-----------------------------------------------------------------------------
(* Counting                                                                *)

Parts(A, B, S) == A \cup B = S /\ A \cap B = {}

\* A set is as large as the two parts it is split into.
LEMMA PartsCount ==
  ASSUME NEW S, IsFiniteSet(S), NEW A, NEW B, Parts(A, B, S)
  PROVE  /\ Cardinality(A) \in Nat /\ Cardinality(B) \in Nat
         /\ Cardinality(S) = Cardinality(A) + Cardinality(B)
<1> USE DEF Parts
<1>1. A \in SUBSET S /\ B \in SUBSET S
  OBVIOUS
<1>2. IsFiniteSet(A) /\ IsFiniteSet(B)
  BY <1>1, FS_Subset
<1>3. Cardinality(A) \in Nat /\ Cardinality(B) \in Nat
  BY <1>2, FS_CardinalityType
<1>4. Cardinality(A \cup B) = Cardinality(A) + Cardinality(B) - Cardinality(A \cap B)
  BY <1>2, FS_Union
<1>5. Cardinality(A \cap B) = 0
  BY FS_EmptySet
<1>6. \A a, b \in Nat : a + b - 0 = a + b
  OBVIOUS
<1> QED BY <1>3, <1>4, <1>5, <1>6, Zenon

\* And as large as it is when moved along.
LEMMA ShiftCounts ==
  ASSUME NEW A \in SUBSET Int, IsFiniteSet(A), NEW d \in Int, NEW B \in SUBSET Int,
         \A b \in Int : b \in B <=> b - d \in A
  PROVE  Cardinality(B) = Cardinality(A)
<1> DEFINE f == [ a \in A |-> a + d ]
<1>1. f \in Bijection(A, B)
  <2>1. \A a \in A : f[a] = a + d /\ a \in Int
    OBVIOUS
  <2>2. \A a \in A : f[a] \in B
    <3>1. \A a \in A : a + d \in Int /\ (a + d) - d = a
      OBVIOUS
    <3> QED BY <2>1, <3>1
  <2>3. \A a, b \in A : f[a] = f[b] => a = b
    BY <2>1
  <2>4. ASSUME NEW b \in B PROVE \E a \in A : f[a] = b
    <3>1. b - d \in A /\ (b - d) + d = b
      OBVIOUS
    <3> QED BY <2>1, <3>1
  <2>5. f \in [A -> B]
    BY <2>2
  <2> HIDE DEF f
  <2> QED BY <2>3, <2>4, <2>5 DEF Bijection, Injection, Surjection, IsInjective
<1>2. ExistsBijection(A, B)
  BY <1>1 DEF ExistsBijection
<1> QED BY <1>2, FS_Bijection

\* The chosen element of a set, and how a sum over a set goes through it.
First(T) == CHOOSE x \in T : TRUE

Totals(iter, f, Y) ==
  \A T \in SUBSET Y : iter[T] = IF T = {} THEN 0 ELSE f[First(T)] + iter[T \ {First(T)}]

\* The members of S that g sends to y, and into T.
Onto(S, g, y) == { s \in S : g[s] = y }
Into(S, g, T) == { s \in S : g[s] \in T }

\* Counting what is sent into T goes through its elements.
LEMMA IntoTotals ==
  ASSUME NEW Y, NEW S, IsFiniteSet(S), NEW g, NEW f,
         \A y \in Y : f[y] = Cardinality(Onto(S, g, y))
  PROVE  Totals([ T \in SUBSET Y |-> Cardinality(Into(S, g, T)) ], f, Y)
<1> DEFINE h == [ T \in SUBSET Y |-> Cardinality(Into(S, g, T)) ]
<1> SUFFICES ASSUME NEW T \in SUBSET Y
             PROVE  h[T] = IF T = {} THEN 0 ELSE f[First(T)] + h[T \ {First(T)}]
  BY DEF Totals
<1>1. CASE T = {}
  <2>1. Into(S, g, T) = {}
    BY <1>1 DEF Into
  <2> QED BY <1>1, <2>1, FS_EmptySet
<1>2. CASE T # {}
  <2>1. PICK x \in T : x = First(T)
    BY <1>2 DEF First
  <2>2. PICK A, B : A = Onto(S, g, x) /\ B = Into(S, g, T \ {x})
    OBVIOUS
  <2>3. Parts(A, B, Into(S, g, T))
    BY <2>1, <2>2 DEF Into, Onto, Parts
  <2>4. IsFiniteSet(Into(S, g, T))
    BY FS_Subset DEF Into
  <2>5. Cardinality(Into(S, g, T)) = Cardinality(A) + Cardinality(B)
    BY <2>3, <2>4, PartsCount
  <2>6. f[x] = Cardinality(A)
    BY <2>1, <2>2
  <2>7. T \ {x} \in SUBSET Y /\ h[T \ {x}] = Cardinality(B)
    BY <2>2
  <2>8. h[T] = Cardinality(Into(S, g, T))
    OBVIOUS
  <2> HIDE DEF h
  <2> QED BY <1>2, <2>1, <2>5, <2>6, <2>7, <2>8
<1> QED BY <1>1, <1>2

\* So the sum over a partition is the size of the whole, whichever element each
\* step chooses.
LEMMA TotalsAre ==
  ASSUME NEW Y, IsFiniteSet(Y), NEW S, IsFiniteSet(S), NEW g, \A s \in S : g[s] \in Y,
         NEW f, \A y \in Y : f[y] = Cardinality(Onto(S, g, y)),
         NEW iter, Totals(iter, f, Y)
  PROVE  iter[Y] = Cardinality(S)
<1> DEFINE h == [ T \in SUBSET Y |-> Cardinality(Into(S, g, T)) ]
           Bad == { T \in SUBSET Y : iter[T] # h[T] }
<1>1. Totals(h, f, Y)
  BY IntoTotals
<1> HIDE DEF h
<1>2. Bad = {}
  <2> SUFFICES ASSUME Bad # {} PROVE FALSE
    OBVIOUS
  <2>1. \A T \in SUBSET Y : IsFiniteSet(T) /\ Cardinality(T) \in Nat
    BY FS_Subset, FS_CardinalityType
  <2>2. PICK T \in Bad : \A U \in Bad : Cardinality(T) <= Cardinality(U)
    <3> DEFINE sizes == { Cardinality(U) : U \in Bad }
    <3>1. sizes \in SUBSET Nat /\ sizes # {}
      BY <2>1
    <3>2. PICK n \in sizes : \A m \in sizes : n <= m
      <4> HIDE DEF sizes
      <4> QED BY <3>1, LeastNatural
    <3> QED BY <3>2
  <2>3. T \in SUBSET Y /\ iter[T] # h[T]
    OBVIOUS
  <2>4. T # {}
    BY <1>1, <2>3 DEF Totals
  <2>5. PICK x \in T : x = First(T)
    BY <2>4 DEF First
  <2>6. T \ {x} \in SUBSET Y /\ Cardinality(T \ {x}) = Cardinality(T) - 1
    BY <2>1, <2>3, FS_RemoveElement
  <2>7. T \ {x} \notin Bad
    <3>1. ~(Cardinality(T) <= Cardinality(T \ {x}))
      BY <2>1, <2>3, <2>6
    <3> HIDE DEF Bad
    <3> QED BY <2>2, <3>1
  <2>8. iter[T \ {x}] = h[T \ {x}]
    BY <2>6, <2>7
  <2>9. iter[T] = f[x] + iter[T \ {x}] /\ h[T] = f[x] + h[T \ {x}]
    BY <1>1, <2>3, <2>4, <2>5 DEF Totals
  <2> QED BY <2>3, <2>8, <2>9
<1>3. iter[Y] = h[Y]
  BY <1>2
<1>4. h[Y] = Cardinality(Into(S, g, Y))
  BY DEF h
<1>5. Into(S, g, Y) = S
  BY DEF Into
<1> QED BY <1>3, <1>4, <1>5

-----------------------------------------------------------------------------
(* The two views of the rolling zones                                      *)

\* The zones by first day and the counts by last day are of the same slices.
LEMMA SlicesAgree ==
  ASSUME flags \in Seq(BOOLEAN), BaselWindow <= Len(flags),
         NEW s \in 1 .. Len(flags) - BaselWindow + 1
  PROVE  LET k == s + BaselWindow - 1
         IN  /\ k \in BaselWindow .. Len(flags)
             /\ RollingZones[s] = Zone(BaselWindow, TrailingCount(k))
<1>1. PICK n \in Nat, b \in Nat \ {0}, k \in Int :
        n = Len(flags) /\ b = BaselWindow /\ k = s + b - 1
  BY LenProperties, RollingAssumption
<1>2. s \in Nat /\ k \in b .. n /\ k - b + 1 = s /\ s <= k /\ k <= n /\ 1 <= s /\ k - s + 1 = b
  BY <1>1
<1>3. Len(SubSeq(flags, s, k)) = b
  <2>1. \A i \in s .. k : flags[i] \in BOOLEAN
    BY <1>1, <1>2, ElementOfSeq
  <2> QED BY <1>1, <1>2, <2>1, SubSeqProperties
<1>4. RollingZones[s] = ZoneOf(SubSeq(flags, s, k))
  BY <1>1 DEF RollingZones
<1>5. TrailingCount(k) = Observed(SubSeq(flags, s, k))
  BY <1>1, <1>2 DEF TrailingCount
<1> QED BY <1>1, <1>2, <1>3, <1>4, <1>5 DEF ZoneOf

\* Zones of one colour, by their first day or by their last, are as many.
LEMMA ColoursAgree ==
  ASSUME flags \in Seq(BOOLEAN), BaselWindow <= Len(flags), NEW colour,
         NEW zone, zone = [ k \in BaselWindow .. Len(flags) |-> Zone(BaselWindow, TrailingCount(k)) ]
  PROVE  Coloured(RollingZones, colour) = Coloured(zone, colour)
<1>1. PICK n \in Nat, b \in Nat \ {0}, d \in Int :
        n = Len(flags) /\ b = BaselWindow /\ d = b - 1
  BY LenProperties, RollingAssumption
<1>2. PICK A, B : /\ A = { s \in DOMAIN RollingZones : RollingZones[s] = colour }
                  /\ B = { k \in DOMAIN zone : zone[k] = colour }
  OBVIOUS
<1>3. DOMAIN RollingZones = 1 .. n - b + 1 /\ DOMAIN zone = b .. n
  BY <1>1 DEF RollingZones
<1>4. \A s \in 1 .. n - b + 1 : s + d \in b .. n /\ RollingZones[s] = zone[s + d]
  <2> TAKE s \in 1 .. n - b + 1
  <2>1. PICK k \in Int : k = s + b - 1
    BY <1>1
  <2>2. k \in b .. n /\ RollingZones[s] = Zone(BaselWindow, TrailingCount(k)) /\ k = s + d
    BY <1>1, <2>1, SlicesAgree
  <2> QED BY <1>1, <2>2
<1>5. A \in SUBSET Int /\ B \in SUBSET Int /\ IsFiniteSet(A)
  <2>1. IsFiniteSet(1 .. n - b + 1)
    BY FS_Interval
  <2> QED BY <1>2, <1>3, <2>1, FS_Subset
<1>6. ASSUME NEW k \in Int PROVE k \in B <=> k - d \in A
  <2>1. PICK s \in Int : s = k - d /\ k = s + d /\ (s \in 1 .. n - b + 1 <=> k \in b .. n)
    <3>1. k - d \in Int /\ k = (k - d) + d /\ (k - d \in 1 .. n - b + 1 <=> k \in b .. n)
      BY <1>1
    <3> QED BY <3>1
  <2> QED BY <1>2, <1>3, <1>4, <2>1
<1> QED BY <1>2, <1>5, <1>6, ShiftCounts DEF Coloured

\* What the summary says of rolling windows is what the figures show, for any
\* window and any exceptions: as many zones, colour by colour, and the worst.
THEOREM RollingViews == RollingSpec => []RollingViewsAgree
<1>1. RollingInv => RollingViewsAgree
  <2> SUFFICES ASSUME RollingInv, summary # Nothing, summary.rolling # Nothing
               PROVE  RollingViewsAgree
    BY DEF RollingViewsAgree
  <2>1. summary = Summary /\ phase # "idle" /\ ~Walking
    BY SummaryMeansFrame
  <2>2. PICK n \in Nat, b \in Nat \ {0} : n = Len(flags) /\ b = BaselWindow
    BY <2>1, FrameOf, RollingAssumption
  <2>3. flags \in Seq(BOOLEAN)
    BY <2>1, FlagsAreSeq
  <2>4. b <= n /\ summary.rolling = RollingSummary
    <3>1. summary.rolling = IF Len(flags) < BaselWindow THEN Nothing ELSE RollingSummary
      BY <2>1 DEF Summary
    <3> QED BY <2>2, <3>1
  <2> DEFINE zone == [ k \in BaselWindow .. Len(flags) |-> Zone(BaselWindow, TrailingCount(k)) ]
             Zones == { RollingZones[s] : s \in DOMAIN RollingZones }
  <2>5. /\ summary.rolling.n_windows = Len(RollingZones)
        /\ DOMAIN summary.rolling.counts = {"green", "yellow", "red"}
        /\ \A colour \in {"green", "yellow", "red"} :
             summary.rolling.counts[colour] = Coloured(RollingZones, colour)
        /\ summary.rolling.worst = Worst(Zones)
    BY <2>4 DEF RollingSummary
  <2>6. DOMAIN RollingZones = 1 .. n - b + 1 /\ n - b + 1 \in Nat /\ n - b + 1 >= 1
    BY <2>2, <2>4 DEF RollingZones
  <2>7. Len(RollingZones) = Cardinality(BaselWindow .. Len(flags))
    <3>1. Cardinality(b .. n) = n - b + 1
      BY <2>2, <2>4, FS_Interval
    <3>2. Len(RollingZones) = n - b + 1
      <4>1. PICK w \in Nat : w = n - b + 1
        BY <2>6
      <4>2. RollingZones = [ s \in 1 .. w |-> RollingZones[s] ]
        BY <2>2, <4>1 DEF RollingZones
      <4> QED BY <4>1, <4>2
    <3> QED BY <2>2, <3>1, <3>2
  <2>8. \A colour : Coloured(RollingZones, colour) = Coloured(zone, colour)
    BY <2>2, <2>3, <2>4, ColoursAgree
  <2>9. \A s \in DOMAIN RollingZones : RollingZones[s] \in {"green", "yellow", "red"}
    BY DEF RollingZones, ZoneOf, Zone
  <2>10. Worst(Zones) \in Zones /\ Worst(Zones) \in {"green", "yellow", "red"}
         /\ ("red" \in Zones => Worst(Zones) = "red")
    <3>1. RollingZones[1] \in Zones
      BY <2>6
    <3>2. Zones \subseteq {"green", "yellow", "red"}
      BY <2>9
    <3> HIDE DEF Zones
    <3> QED BY <3>1, <3>2 DEF Worst
  <2>11. Coloured(RollingZones, Worst(Zones)) > 0
    <3>1. PICK s \in DOMAIN RollingZones : RollingZones[s] = Worst(Zones)
      BY <2>10
    <3> DEFINE C == { r \in DOMAIN RollingZones : RollingZones[r] = Worst(Zones) }
    <3>2. s \in C
      BY <3>1
    <3>3. IsFiniteSet(C)
      <4>1. IsFiniteSet(1 .. n - b + 1)
        BY <2>6, FS_Interval
      <4> QED BY <2>6, <4>1, FS_Subset
    <3>4. Cardinality(C) \in Nat /\ Cardinality(C) # 0
      <4> HIDE DEF C
      <4> QED BY <3>2, <3>3, FS_CardinalityType, FS_EmptySet
    <3> QED BY <3>4 DEF Coloured
  <2>12. ASSUME NEW k \in BaselWindow .. Len(flags), zone[k] = "red"
         PROVE  "red" \in Zones
    <3>1. PICK s \in 1 .. n - b + 1 : k = s + b - 1
      <4>1. k - b + 1 \in 1 .. n - b + 1 /\ k = (k - b + 1) + b - 1
        BY <2>2, <2>4
      <4> QED BY <4>1
    <3>2. RollingZones[s] = Zone(BaselWindow, TrailingCount(k))
      BY <2>2, <2>3, <2>4, <3>1, SlicesAgree
    <3>3. RollingZones[s] = "red"
      BY <2>12, <3>2
    <3> QED BY <2>6, <3>1, <3>3
  <2> HIDE DEF Zones
  <2> QED BY <2>5, <2>7, <2>8, <2>10, <2>11, <2>12 DEF RollingViewsAgree
<1> QED BY <1>1, RollingAlways, PTL

-----------------------------------------------------------------------------
(* The counts of the summary                                               *)

\* Of x violations, all but the first day's are entered from a day before, and
\* all but the last day's are left for a day after.
LEMMA TransitionsAddUp ==
  ASSUME NEW v \in Seq(BOOLEAN), Len(v) >= 2
  PROVE  /\ Transitions(v)[<< FALSE, FALSE >>] + Transitions(v)[<< FALSE, TRUE >>]
              + Transitions(v)[<< TRUE, FALSE >>] + Transitions(v)[<< TRUE, TRUE >>] = Len(v) - 1
         /\ Transitions(v)[<< FALSE, TRUE >>] - Transitions(v)[<< TRUE, FALSE >>] \in -1 .. 1
         /\ Transitions(v)[<< FALSE, TRUE >>] + Transitions(v)[<< TRUE, TRUE >>]
              \in {Observed(v) - 1, Observed(v)}
         /\ Transitions(v)[<< TRUE, FALSE >>] + Transitions(v)[<< TRUE, TRUE >>]
              \in {Observed(v) - 1, Observed(v)}
<1>1. PICK n \in Nat : n = Len(v) /\ n >= 2 /\ DOMAIN v = 1 .. n /\ \A k \in 1 .. n : v[k] \in BOOLEAN
  BY LenProperties, ElementOfSeq
<1> DEFINE K  == 1 .. n - 1
           FF == { k \in K : v[k] = FALSE /\ v[k + 1] = FALSE }
           FT == { k \in K : v[k] = FALSE /\ v[k + 1] = TRUE }
           TF == { k \in K : v[k] = TRUE /\ v[k + 1] = FALSE }
           TT == { k \in K : v[k] = TRUE /\ v[k + 1] = TRUE }
           F  == { k \in K : v[k] }
           G  == { k \in K : ~v[k] }
           H  == { k \in K : v[k + 1] }
           X  == { k \in 1 .. n : v[k] }
<1>2. \A k \in K : k \in 1 .. n /\ k + 1 \in 1 .. n /\ v[k] \in BOOLEAN /\ v[k + 1] \in BOOLEAN
  BY <1>1
<1>3. IsFiniteSet(K) /\ Cardinality(K) = n - 1
  BY <1>1, FS_Interval
<1>4. Parts(F, G, K) /\ Parts(TF, TT, F) /\ Parts(FF, FT, G) /\ Parts(FT, TT, H)
  <2>1. \A k \in K : (v[k] = TRUE \/ v[k] = FALSE) /\ (v[k + 1] = TRUE \/ v[k + 1] = FALSE)
    BY <1>2
  <2> HIDE DEF K
  <2> QED BY <2>1, Zenon DEF Parts
<1>5. IsFiniteSet(F) /\ IsFiniteSet(G) /\ IsFiniteSet(H)
  BY <1>3, FS_Subset
<1>6. /\ Transitions(v)[<< FALSE, FALSE >>] = Cardinality(FF)
      /\ Transitions(v)[<< FALSE, TRUE >>] = Cardinality(FT)
      /\ Transitions(v)[<< TRUE, FALSE >>] = Cardinality(TF)
      /\ Transitions(v)[<< TRUE, TRUE >>] = Cardinality(TT)
  <2>1. \A i, j \in BOOLEAN :
          Transitions(v)[<< i, j >>] = Cardinality({ k \in K : << v[k], v[k + 1] >> = << i, j >> })
    BY <1>1 DEF Transitions
  <2>2. /\ FF = { k \in K : << v[k], v[k + 1] >> = << FALSE, FALSE >> }
        /\ FT = { k \in K : << v[k], v[k + 1] >> = << FALSE, TRUE >> }
        /\ TF = { k \in K : << v[k], v[k + 1] >> = << TRUE, FALSE >> }
        /\ TT = { k \in K : << v[k], v[k + 1] >> = << TRUE, TRUE >> }
    OBVIOUS
  <2> HIDE DEF FF, FT, TF, TT, K
  <2> QED BY <2>1, <2>2
<1>7. Observed(v) = Cardinality(X)
  BY <1>1 DEF Observed
<1>8. IsFiniteSet(X) /\ Cardinality(X) \in Nat
  <2>1. IsFiniteSet(1 .. n)
    BY <1>1, FS_Interval
  <2>2. IsFiniteSet(X)
    BY <2>1, FS_Subset
  <2> QED BY <2>2, FS_CardinalityType
<1>9. X \ {n} = F
  BY <1>1
<1>10. Cardinality(X \ {1}) = Cardinality(H)
  <2>1. PICK m \in Int : m = 1
    OBVIOUS
  <2>2. H \in SUBSET Int /\ X \ {1} \in SUBSET Int
    OBVIOUS
  <2>3. ASSUME NEW k \in Int PROVE k \in X \ {1} <=> k - m \in H
    <3>1. PICK j \in Int : j = k - 1 /\ k = j + 1
      <4>1. k - 1 \in Int /\ k = (k - 1) + 1
        OBVIOUS
      <4> QED BY <4>1
    <3>2. k \in 1 .. n /\ k # 1 <=> j \in K
      BY <1>1, <3>1
    <3> QED BY <2>1, <3>1, <3>2
  <2> HIDE DEF X, H
  <2> QED BY <1>5, <2>1, <2>2, <2>3, ShiftCounts
<1> HIDE DEF K, FF, FT, TF, TT, F, G, H, X
<1>11. PICK f \in Nat, g \in Nat, h \in Nat, x \in Nat :
         /\ f = Cardinality(F) /\ g = Cardinality(G) /\ h = Cardinality(H) /\ x = Cardinality(X)
  BY <1>5, <1>8, FS_CardinalityType
<1>12. PICK a \in Nat, b \in Nat, c \in Nat, d \in Nat :
         /\ a = Cardinality(FF) /\ b = Cardinality(FT) /\ c = Cardinality(TF) /\ d = Cardinality(TT)
         /\ f = c + d /\ g = a + b /\ h = b + d
  <2>1. /\ Cardinality(TF) \in Nat /\ Cardinality(TT) \in Nat
        /\ Cardinality(F) = Cardinality(TF) + Cardinality(TT)
    BY <1>4, <1>5, PartsCount
  <2>2. /\ Cardinality(FF) \in Nat /\ Cardinality(FT) \in Nat
        /\ Cardinality(G) = Cardinality(FF) + Cardinality(FT)
    BY <1>4, <1>5, PartsCount
  <2>3. Cardinality(H) = Cardinality(FT) + Cardinality(TT)
    BY <1>4, <1>5, PartsCount
  <2> QED BY <1>11, <2>1, <2>2, <2>3
<1>13. n - 1 = f + g
  <2>1. Cardinality(K) = Cardinality(F) + Cardinality(G)
    BY <1>3, <1>4, PartsCount
  <2> QED BY <1>3, <1>11, <2>1
<1>14. x = f \/ x = f + 1
  <2>1. f = IF n \in X THEN x - 1 ELSE x
    BY <1>8, <1>9, <1>11, FS_RemoveElement
  <2> QED BY <1>11, <2>1
<1>15. x = h \/ x = h + 1
  <2>1. h = IF 1 \in X THEN x - 1 ELSE x
    BY <1>8, <1>10, <1>11, FS_RemoveElement
  <2> QED BY <1>11, <2>1
<1>16. a + b + c + d = n - 1
  BY <1>1, <1>12, <1>13
<1>17. b + d \in {x - 1, x}
  <2>1. x \in Int /\ h \in Int
    OBVIOUS
  <2>2. h = x \/ h = x - 1
    BY <1>15, <2>1
  <2> QED BY <1>12, <2>2
<1>18. c + d \in {x - 1, x}
  <2>1. x \in Int /\ f \in Int
    OBVIOUS
  <2>2. f = x \/ f = x - 1
    BY <1>14, <2>1
  <2> QED BY <1>12, <2>2
<1>19. b - c \in -1 .. 1
  <2>1. PICK e \in Int : e = b - c
    OBVIOUS
  <2>2. e = h - f
    BY <1>12, <2>1
  <2>3. e = 0 \/ e = 1 \/ e = 0 - 1
    <3>1. CASE x = f /\ x = h
      BY <2>2, <3>1
    <3>2. CASE x = f /\ x = h + 1
      BY <2>2, <3>2
    <3>3. CASE x = f + 1 /\ x = h
      BY <2>2, <3>3
    <3>4. CASE x = f + 1 /\ x = h + 1
      BY <2>2, <3>4
    <3> QED BY <1>14, <1>15, <3>1, <3>2, <3>3, <3>4
  <2>4. e \in -1 .. 1
    BY <2>3
  <2> QED BY <2>1, <2>4
<1>20. /\ Transitions(v)[<< FALSE, FALSE >>] = a /\ Transitions(v)[<< FALSE, TRUE >>] = b
       /\ Transitions(v)[<< TRUE, FALSE >>] = c /\ Transitions(v)[<< TRUE, TRUE >>] = d
       /\ Len(v) = n /\ Observed(v) = x
  BY <1>1, <1>6, <1>7, <1>11, <1>12
<1> QED BY <1>16, <1>17, <1>18, <1>19, <1>20, Zenon

\* The views of a summary agree, for any series and any classification of its
\* days into years: the years partition the days and the exceptions, and the
\* joint test's components fit one series.
THEOREM SummaryCounts == RollingSpec => []SummaryAddsUp
<1>1. RollingInv => SummaryAddsUp
  <2> SUFFICES ASSUME RollingInv, summary # Nothing PROVE SummaryAddsUp
    BY DEF SummaryAddsUp
  <2>1. phase # "idle" /\ ~Walking /\ summary = Summary /\ Len(flags) >= 2
    BY SummaryMeansFrame
  <2>2. flags \in Seq(BOOLEAN)
    BY <2>1, FlagsAreSeq
  <2>3. PICK pof, pairs : /\ pof = summary.conditional.pof /\ pof = summary.kupiec
                          /\ pof.n = Len(flags) /\ pof.x = Observed(flags)
                          /\ pairs = summary.conditional.independence /\ pairs = Transitions(flags)
    BY <2>1 DEF Summary, ConditionalCoverage, Pof
  <2>4. /\ pairs[<< FALSE, FALSE >>] + pairs[<< FALSE, TRUE >>]
             + pairs[<< TRUE, FALSE >>] + pairs[<< TRUE, TRUE >>] = pof.n - 1
        /\ pairs[<< FALSE, TRUE >>] - pairs[<< TRUE, FALSE >>] \in -1 .. 1
        /\ pairs[<< FALSE, TRUE >>] + pairs[<< TRUE, TRUE >>] \in {pof.x - 1, pof.x}
        /\ pairs[<< TRUE, FALSE >>] + pairs[<< TRUE, TRUE >>] \in {pof.x - 1, pof.x}
    BY <2>1, <2>2, <2>3, TransitionsAddUp
  <2>5. PICK m \in Nat : /\ DOMAIN frame = 1 .. m /\ Len(flags) = m /\ DOMAIN flags = 1 .. m
                         /\ \A k \in 1 .. m : frame[k].date \in Days
    BY <2>1, FrameOf
  <2> DEFINE g == [ k \in 1 .. m |-> input.year[frame[k].date] ]
             all == 1 .. m
             X == { k \in all : flags[k] }
  <2>6. /\ DOMAIN summary.years = Years
        /\ \A y \in Years : /\ summary.years[y].n_days = Cardinality(RowsIn(DaysOf(y)))
                             /\ summary.years[y].exceptions = CountIn(DaysOf(y))
    BY <2>1 DEF Summary, Annual
  <2>7. IsFiniteSet(Years)
    <3>1. input \in Inputs
      BY <2>1 DEF RollingInv
    <3>2. IsFiniteSet(Days)
      <4>1. input.window \in Int /\ input.n - 1 \in Int
        BY <3>1, RollingAssumption DEF IsInput
      <4> QED BY <4>1, FS_Interval DEF Days
    <3> DEFINE year == [ t \in Days |-> input.year[t] ]
    <3>3. year \in Surjection(Days, Years)
      BY DEF Surjection, Years
    <3> HIDE DEF year
    <3> QED BY <3>2, <3>3, FS_Surjection
  <2>8. \A y \in Years : /\ RowsIn(DaysOf(y)) = Onto(all, g, y)
                         /\ { k \in RowsIn(DaysOf(y)) : flags[k] } = Onto(X, g, y)
    BY <2>5 DEF RowsIn, DaysOf, Onto
  <2>9. \A k \in all : g[k] \in Years
    BY <2>5 DEF Years
  <2>10. /\ IsFiniteSet(all) /\ Cardinality(all) = m
         /\ IsFiniteSet(X) /\ Cardinality(X) = Observed(flags)
    <3>1. IsFiniteSet(all) /\ Cardinality(all) = m
      BY FS_Interval
    <3>2. IsFiniteSet(X)
      BY <3>1, FS_Subset
    <3> QED BY <2>5, <3>1, <3>2 DEF Observed
  <2> HIDE DEF g, all, X
  <2>11. MapThenSumSet(LAMBDA y : summary.years[y].n_days, DOMAIN summary.years) = Cardinality(all)
    <3> DEFINE f == [ y \in Years |-> summary.years[y].n_days ]
               Steps(i) == [ T \in SUBSET DOMAIN summary.years |->
                             IF T = {} THEN 0
                             ELSE summary.years[CHOOSE x \in T : TRUE].n_days + i[T \ {CHOOSE x \in T : TRUE}] ]
               iter == CHOOSE i : i = Steps(i)
               h == [ T \in SUBSET Years |-> Cardinality(Into(all, g, T)) ]
    <3>1. \A y \in Years : f[y] = Cardinality(Onto(all, g, y))
      BY <2>6, <2>8
    <3>2. Totals(h, f, Years)
      <4> HIDE DEF f
      <4> QED BY <2>7, <2>10, <3>1, IntoTotals
    <3>3. h = Steps(h)
      BY <2>6, <3>2 DEF Totals, First
    <3>4. iter = Steps(iter)
      BY <3>3
    <3>5. Totals(iter, f, Years)
      BY <2>6, <3>4 DEF Totals, First
    <3>6. MapThenSumSet(LAMBDA y : summary.years[y].n_days, DOMAIN summary.years) = iter[DOMAIN summary.years]
      BY DEF MapThenSumSet, MapThenFoldSet
    <3> HIDE DEF iter, f
    <3>7. iter[Years] = Cardinality(all)
      BY <2>7, <2>9, <2>10, <3>1, <3>5, TotalsAre
    <3> QED BY <2>6, <3>6, <3>7
  <2>12. \A k \in X : g[k] \in Years
    BY <2>9 DEF X
  <2>13. MapThenSumSet(LAMBDA y : summary.years[y].exceptions, DOMAIN summary.years) = Cardinality(X)
    <3> DEFINE f == [ y \in Years |-> summary.years[y].exceptions ]
               Steps(i) == [ T \in SUBSET DOMAIN summary.years |->
                             IF T = {} THEN 0
                             ELSE summary.years[CHOOSE x \in T : TRUE].exceptions + i[T \ {CHOOSE x \in T : TRUE}] ]
               iter == CHOOSE i : i = Steps(i)
               h == [ T \in SUBSET Years |-> Cardinality(Into(X, g, T)) ]
    <3>1. \A y \in Years : f[y] = Cardinality(Onto(X, g, y))
      BY <2>6, <2>8 DEF CountIn
    <3>2. Totals(h, f, Years)
      <4> HIDE DEF f
      <4> QED BY <2>7, <2>10, <3>1, IntoTotals
    <3>3. h = Steps(h)
      BY <2>6, <3>2 DEF Totals, First
    <3>4. iter = Steps(iter)
      BY <3>3
    <3>5. Totals(iter, f, Years)
      BY <2>6, <3>4 DEF Totals, First
    <3>6. MapThenSumSet(LAMBDA y : summary.years[y].exceptions, DOMAIN summary.years) = iter[DOMAIN summary.years]
      BY DEF MapThenSumSet, MapThenFoldSet
    <3> HIDE DEF iter, f
    <3>7. iter[Years] = Cardinality(X)
      BY <2>7, <2>12, <2>10, <3>1, <3>5, TotalsAre
    <3> QED BY <2>6, <3>6, <3>7
  <2>14. ASSUME NEW e \in DOMAIN summary.episodes PROVE summary.episodes[e].exceptions <= pof.x
    <3>1. PICK D : summary.episodes[e].exceptions = Cardinality({ k \in RowsIn(D) : flags[k] })
      BY <2>1 DEF Summary, Stress, CountIn
    <3>2. { k \in RowsIn(D) : flags[k] } \in SUBSET X
      BY <2>5 DEF RowsIn, X, all
    <3> QED BY <2>3, <2>10, <3>1, <3>2, FS_Subset
  <2> QED BY <2>3, <2>4, <2>5, <2>10, <2>11, <2>13, <2>14 DEF SummaryAddsUp
<1> QED BY <1>1, RollingAlways, PTL

=============================================================================
