------------------------------- MODULE M13Run -------------------------------
(***************************************************************************)
(* The single run of the M13 study (research/volatility/run_m13.py):       *)
(* several invocations of main(), by hand or by mistake, in one working    *)
(* tree that people edit and commit to meanwhile.  Each checks its         *)
(* preconditions, loads the inputs, computes for a long time, and writes   *)
(* four files into a directory that must not exist.                        *)
(*                                                                         *)
(* The walk-forward is taken by its result (WalkForward models it): it     *)
(* succeeds or stops.  The content of a file is abstracted to a version,   *)
(* 0 being the one whose digest is pinned in the code.                     *)
(***************************************************************************)
EXTENDS Naturals, Sequences, FiniteSets

CONSTANTS
  Run,       \* the invocations of main()
  Nobody,    \* the author of a file that is not there
  MaxCommits \* bound: the commits made meanwhile

ASSUME RunAssumption == Nobody \notin Run /\ MaxCommits \in Nat

VARIABLES
  pc,       \* where each invocation is
  reference, descends, \* is this the reference environment; is HEAD a
                       \* descendant of the pre-registration commit?
  content, committed,  \* the inputs' versions in the working tree and at HEAD
  head,     \* HEAD
  tracked,  \* the output files that are committed
  exists,   \* does the output directory exist?
  files,    \* the output files, their author, and whether they are whole
  used,     \* per run, the versions of the inputs it computed from
  hashed,   \* per run, the versions of the inputs it hashed
  written   \* per run, how many files it has finished

tree == << reference, descends, content, committed, head, tracked >>
out  == << exists, files >>
mine == << used, hashed, written >>
vars == << pc, tree, out, mine >>

Input == {"prices", "baseline"}
File  == {"forecasts", "fit_log", "evaluation", "metadata"}

\* write_outputs, then main.
Order == << "forecasts", "fit_log", "evaluation", "metadata" >>

NoFile  == [by |-> Nobody, whole |-> FALSE]
NotRead == [i \in Input |-> 2]

Checking == {"start", "directory", "tree", "ancestor", "head"}
Working  == {"load", "read", "compute", "baseline", "create"}
Writing  == {"open", "close", "hash"}
Stopped  == {"refused", "failed", "crashed", "done"}

Present == { f \in File : files[f].by # Nobody }
Clean   == content = committed /\ Present = tracked

Init ==
  /\ pc = [r \in Run |-> "start"]
  /\ reference \in BOOLEAN /\ descends \in BOOLEAN
  /\ content = [i \in Input |-> 0] /\ committed = content
  /\ head = 0 /\ tracked = {}
  /\ exists = FALSE /\ files = [f \in File |-> NoFile]
  /\ used = [r \in Run |-> NotRead] /\ hashed = [r \in Run |-> NotRead]
  /\ written = [r \in Run |-> 0]

GoTo(r, p) == pc' = [pc EXCEPT ![r] = p]

-----------------------------------------------------------------------------
(* check_preconditions: five checks, one after the other.  git may also    *)
(* give no answer, which refuses the run.                                  *)

Check(r, at, holds, then) ==
  /\ pc[r] = at
  /\ GoTo(r, IF holds THEN then ELSE "refused")
  /\ UNCHANGED << tree, out, mine >>

CheckEnvironment(r) == Check(r, "start", reference, "directory")
CheckDirectory(r)   == Check(r, "directory", ~exists, "tree")
CheckTree(r)        == \E answer \in BOOLEAN : Check(r, "tree", answer /\ Clean, "ancestor")
CheckAncestor(r)    == \E answer \in BOOLEAN : Check(r, "ancestor", answer /\ descends, "head")
RecordHead(r)       == \E answer \in BOOLEAN : Check(r, "head", answer, "load")

-----------------------------------------------------------------------------
(* main                                                                    *)

\* load_spliced_returns: verify_sha256 reads the files once ...
VerifyPrices(r) ==
  /\ pc[r] = "load"
  /\ GoTo(r, IF content["prices"] = 0 THEN "read" ELSE "failed")
  /\ UNCHANGED << tree, out, mine >>

\* ... and load_price_series reads them again.
ReadPrices(r) ==
  /\ pc[r] = "read"
  /\ GoTo(r, "compute")
  /\ used' = [used EXCEPT ![r]["prices"] = content["prices"]]
  /\ UNCHANGED << tree, out, hashed, written >>

Compute(r) ==
  /\ pc[r] = "compute"
  /\ GoTo(r, "baseline")
  /\ UNCHANGED << tree, out, mine >>

\* load_frozen_baseline, the digest unchecked, and the evaluation.
LoadBaseline(r) ==
  /\ pc[r] = "baseline"
  /\ GoTo(r, "create")
  /\ used' = [used EXCEPT ![r]["baseline"] = content["baseline"]]
  /\ UNCHANGED << tree, out, hashed, written >>

\* Variant: mkdir(exist_ok=True).
CreateOrReuse(r) ==
  /\ pc[r] = "create"
  /\ GoTo(r, "open") /\ exists' = TRUE
  /\ UNCHANGED << tree, files, mine >>

\* Variant: no mkdir.
NotCreated(r) ==
  /\ pc[r] = "create"
  /\ GoTo(r, IF exists THEN "failed" ELSE "open")
  /\ UNCHANGED << tree, out, mine >>

\* mkdir(parents=True, exist_ok=False).
Create(r) ==
  /\ pc[r] = "create"
  /\ IF exists
     THEN GoTo(r, "failed") /\ UNCHANGED exists
     ELSE GoTo(r, "open") /\ exists' = TRUE
  /\ UNCHANGED << tree, files, mine >>

\* Variant: the description first, the content after it.
DescriptionFirst(r) ==
  << "metadata", "forecasts", "fit_log", "evaluation" >>[written[r] + 1]

FileOf(r) == Order[written[r] + 1]

\* Anything from the inputs on may raise: a file that cannot be read or written,
\* an overlap or a baseline that does not fit the returns, a first refit that
\* fails, a figure that dump_json refuses.  What is written stays.
Raises(r) ==
  /\ pc[r] \in Working \cup Writing
  /\ GoTo(r, "failed")
  /\ UNCHANGED << tree, out, mine >>

\* A file appears when it is opened and is whole when it is closed.
Open(r) ==
  /\ pc[r] = "open"
  /\ files' = [files EXCEPT ![FileOf(r)] = [by |-> r, whole |-> FALSE]]
  /\ GoTo(r, "close")
  /\ UNCHANGED << tree, exists, mine >>

Close(r) ==
  /\ pc[r] = "close"
  /\ files' = [files EXCEPT ![FileOf(r)] = [by |-> r, whole |-> TRUE]]
  /\ written' = [written EXCEPT ![r] = @ + 1]
  /\ GoTo(r, CASE written[r] + 1 = 3 -> "hash"
               [] written[r] + 1 = 4 -> "done"
               [] OTHER              -> "open")
  /\ UNCHANGED << tree, exists, used, hashed >>

\* run_metadata: the inputs are hashed now, as they are in the tree.
HashInputs(r) ==
  /\ pc[r] = "hash"
  /\ hashed' = [hashed EXCEPT ![r] = content]
  /\ GoTo(r, "open")
  /\ UNCHANGED << tree, out, used, written >>

Crash(r) ==
  /\ pc[r] \in Checking \cup Working \cup Writing
  /\ GoTo(r, "crashed")
  /\ UNCHANGED << tree, out, mine >>

-----------------------------------------------------------------------------
(* The working tree                                                        *)

Edit(i) ==
  /\ content' = [content EXCEPT ![i] = 1 - @]
  /\ UNCHANGED << pc, reference, descends, committed, head, tracked, out, mine >>

Commit ==
  /\ head < MaxCommits
  /\ head' = head + 1
  /\ committed' = content
  /\ tracked' = Present
  /\ UNCHANGED << pc, reference, descends, content, out, mine >>

\* Someone removes what a run that did not finish left, once no run is writing to it.
Clear ==
  /\ exists /\ files["metadata"].by = Nobody
  /\ \A r \in Run : pc[r] \notin Writing
  /\ exists' = FALSE
  /\ files' = [f \in File |-> NoFile]
  /\ UNCHANGED << pc, tree, mine >>

Main(r) ==
  \/ CheckEnvironment(r) \/ CheckDirectory(r) \/ CheckTree(r)
  \/ CheckAncestor(r) \/ RecordHead(r)
  \/ VerifyPrices(r) \/ ReadPrices(r) \/ Compute(r) \/ LoadBaseline(r)
  \/ Create(r) \/ Open(r) \/ Close(r) \/ HashInputs(r) \/ Raises(r)

Next ==
  \/ \E r \in Run : Main(r) \/ Crash(r)
  \/ \E i \in Input : Edit(i)
  \/ Commit
  \/ Clear

Spec == Init /\ [][Next]_vars

-----------------------------------------------------------------------------
(* Properties                                                              *)

\* No file is in a directory nobody created, and a run that was refused has
\* read no input.
TypeOK ==
  /\ pc \in [Run -> Checking \cup Working \cup Writing \cup Stopped]
  /\ content \in [Input -> {0, 1}] /\ committed \in [Input -> {0, 1}]
  /\ head \in 0 .. MaxCommits /\ tracked \subseteq File
  /\ exists \in BOOLEAN
  /\ files \in [File -> [by : Run \cup {Nobody}, whole : BOOLEAN]]
  /\ used \in [Run -> [Input -> 0 .. 2]] /\ hashed \in [Run -> [Input -> 0 .. 2]]
  /\ written \in [Run -> 0 .. 4]
  /\ Present # {} => exists
  /\ \A r \in Run : pc[r] = "refused" => used[r] = NotRead

\* The output directory never mixes two runs, although each looked for it
\* long before creating it.
OneAuthor == \A f, g \in Present : files[f].by = files[g].by

\* "It runs once": however the runs overlap or crash, one completes at most.
AtMostOneCompletes == \A r, s \in Run : pc[r] = "done" /\ pc[s] = "done" => r = s

\* The metadata is the mark of a complete run: when it is there, all that it
\* describes is there, whole and by the same run.
MetadataMarksCompletion ==
  files["metadata"].by # Nobody =>
    \A f \in File \ {"metadata"} :
      files[f].whole /\ files[f].by = files["metadata"].by

=============================================================================
