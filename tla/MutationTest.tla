---------------------------- MODULE MutationTest ----------------------------
(***************************************************************************)
(* mutation_test.py, the study's own tool: it mutates a source file in     *)
(* place, one mutant at a time, runs the tests on each, and puts the       *)
(* original back.  Several runs on one file follow each other; a run may   *)
(* be interrupted from the keyboard or killed at any point.  A file is     *)
(* written by truncating it and then filling it.                           *)
(***************************************************************************)
EXTENDS Integers, Sequences

CONSTANTS
  TotalSites,      \* mutable sites of the source file
  MaxMutants,      \* --max-mutants
  MaxRuns,         \* bound: runs on the same file
  MaxInterrupts,   \* bound: keyboard interrupts over all runs
  MaxKills         \* bound: hard kills over all runs

ASSUME BoundsAssumption ==
  /\ TotalSites \in Nat /\ MaxMutants \in Nat \ {0}
  /\ MaxRuns \in Nat /\ MaxInterrupts \in Nat /\ MaxKills \in Nat

VARIABLES
  verdicts,    \* what the tests say of each mutant: "pass", "fail" or "hang"
  ungenerable, \* sites for which make_mutant_source returns None
  file,        \* content of the source file
  backup,      \* content of <file>.mutation_backup
  report,      \* <file>.mutation_report.json: the set of its content, or {}
  original,    \* what this run read from the file
  skipped,     \* --start-at of this run
  indices,     \* indices this run has still to try
  results,     \* records of this run
  unwinding,   \* an exception is passing through the finally block
  pc,
  exit,        \* how the last run ended
  leftovers,   \* history: runs started on a file an earlier one had not restored
  runs, interrupts, kills

disk == <<file, backup, report>>
world == <<verdicts, ungenerable>>
kept == <<world, leftovers>>   \* what only the start of a run changes
counters == <<runs, interrupts, kills>>
vars == <<world, disk, original, skipped, indices, results, unwinding, pc, exit,
          leftovers, counters>>

-----------------------------------------------------------------------------
(* A content is the sequence of mutations applied to the original.  No     *)
(* mutation has a negative index: those stand for a file that does not     *)
(* exist and for one truncated and not filled yet.                         *)
Sites == 0 .. TotalSites - 1
Original == <<>>
Absent == <<-1>>
Truncated == <<-2>>

(* A truncated source is an empty module: no site to mutate.  A leftover   *)
(* mutant is taken to have as many sites as the original.                  *)
SitesIn(content) == IF content = Truncated THEN 0 ELSE TotalSites

(* sorted({int(i * step) for i in range(max_mutants)}), step = total / max *)
BuggySampled ==
  IF TotalSites > MaxMutants
  THEN [i \in 1 .. MaxMutants |-> (i * TotalSites) \div MaxMutants]
  ELSE [i \in 1 .. TotalSites |-> i - 1]
Sampled ==
  IF TotalSites > MaxMutants
  THEN [i \in 1 .. MaxMutants |-> ((i - 1) * TotalSites) \div MaxMutants]
  ELSE [i \in 1 .. TotalSites |-> i - 1]

(* The indices a run started with --start-at n goes through. *)
Remaining(n) == SubSeq(Sampled, n + 1, Len(Sampled))

Members(seq) == {seq[i] : i \in DOMAIN seq}

Generable(i) == i \notin ungenerable

(* What running the tests on a content may answer: known for the mutants   *)
(* of the original, anything for the original in a broken environment and  *)
(* for a mutant of a mutant.                                               *)
Outcomes(content) ==
  IF content # Truncated /\ Len(content) = 1
  THEN {verdicts[content[1]]}
  ELSE {"pass", "fail", "hang"}

Init ==
  /\ verdicts \in [Sites -> {"pass", "fail", "hang"}]
  /\ ungenerable \in SUBSET Sites
  /\ file = Original
  /\ backup = Absent
  /\ report = {}
  /\ original = Original
  /\ skipped = 0
  /\ indices = <<>>
  /\ results = <<>>
  /\ unwinding = FALSE
  /\ pc = "off"
  /\ exit = "none"
  /\ leftovers = 0
  /\ runs = 0 /\ interrupts = 0 /\ kills = 0

(* Ways a run ends without its finally block having run to its end. *)
Unrestored == {"killed", "interrupted in finally"}

(* No run was started on a file that an earlier one could not restore. *)
Clean == leftovers = 0

Stop(how) == pc' = "off" /\ exit' = how

-----------------------------------------------------------------------------
(* main() up to the try block. *)

(* The file is read and copied over whatever backup is already there, also *)
(* when an earlier run could not restore the file.                         *)
Launch ==
  /\ pc = "off"
  /\ runs < MaxRuns
  /\ runs' = runs + 1
  /\ leftovers' = IF exit \in Unrestored THEN leftovers + 1 ELSE leftovers
  /\ original' = file
  /\ backup' = Truncated
  /\ skipped' \in 0 .. Len(Sampled)
  /\ results' = <<>>
  /\ unwinding' = FALSE
  /\ pc' = "backup"
  /\ UNCHANGED <<world, file, report, indices, exit, interrupts, kills>>

FillBackup ==
  /\ pc = "backup"
  /\ backup' = file
  /\ pc' = IF SitesIn(original) = 0 THEN "nothing" ELSE "baseline"
  /\ UNCHANGED <<kept, file, report, original, skipped, indices, results,
                 unwinding, exit, counters>>

NothingToMutate ==
  /\ pc = "nothing"
  /\ backup' = Absent
  /\ Stop("nothing")
  /\ UNCHANGED <<kept, file, report, original, skipped, indices, results,
                 unwinding, counters>>

(* The tests must pass without a mutation; a timeout counts as a failure. *)
BaselinePasses ==
  /\ pc = "baseline"
  /\ "pass" \in Outcomes(file)
  /\ indices' = Remaining(skipped)
  /\ pc' = "pick"
  /\ UNCHANGED <<kept, disk, original, skipped, results, unwinding, exit, counters>>

BaselineFails ==
  /\ pc = "baseline"
  /\ Outcomes(file) \cap {"fail", "hang"} # {}
  /\ backup' = Absent
  /\ Stop("baseline failed")
  /\ UNCHANGED <<kept, file, report, original, skipped, indices, results,
                 unwinding, counters>>

(* Where there is no taskkill, a timeout raises FileNotFoundError: here no *)
(* handler runs.                                                           *)
BaselineTaskkillMissing ==
  /\ pc = "baseline"
  /\ "hang" \in Outcomes(file)
  /\ Stop("aborted")
  /\ UNCHANGED <<kept, disk, original, skipped, indices, results, unwinding,
                 counters>>

-----------------------------------------------------------------------------
(* The loop over the mutants. *)

BuggySkipUngenerable ==
  /\ pc = "pick"
  /\ indices # <<>>
  /\ ~ Generable(Head(indices))
  /\ UNCHANGED vars

SkipUngenerable ==
  /\ pc = "pick"
  /\ indices # <<>>
  /\ ~ Generable(Head(indices))
  /\ indices' = Tail(indices)
  /\ UNCHANGED <<kept, disk, original, skipped, results, unwinding, pc, exit, counters>>

OpenForMutant ==
  /\ pc = "pick"
  /\ indices # <<>>
  /\ Generable(Head(indices))
  /\ file' = Truncated
  /\ pc' = "mutate"
  /\ UNCHANGED <<kept, backup, report, original, skipped, indices, results,
                 unwinding, exit, counters>>

WriteMutant ==
  /\ pc = "mutate"
  /\ file' = Append(original, Head(indices))
  /\ pc' = "test"
  /\ UNCHANGED <<kept, backup, report, original, skipped, indices, results,
                 unwinding, exit, counters>>

BuggyTestMutant ==
  /\ pc = "test"
  /\ \E o \in Outcomes(file) :
       results' = Append(results, [index |-> Head(indices), survived |-> o # "fail"])
  /\ file' = Truncated
  /\ pc' = "undo"
  /\ UNCHANGED <<kept, backup, report, original, skipped, indices, unwinding,
                 exit, counters>>

(* A timeout is recorded as killed; then the file is opened for the        *)
(* original to be written back.                                            *)
TestMutant ==
  /\ pc = "test"
  /\ \E o \in Outcomes(file) :
       results' = Append(results, [index |-> Head(indices), survived |-> o = "pass"])
  /\ file' = Truncated
  /\ pc' = "undo"
  /\ UNCHANGED <<kept, backup, report, original, skipped, indices, unwinding,
                 exit, counters>>

(* The same exception, now inside the try block. *)
TaskkillMissing ==
  /\ pc = "test"
  /\ "hang" \in Outcomes(file)
  /\ unwinding' = TRUE
  /\ pc' = "finally"
  /\ UNCHANGED <<kept, disk, original, skipped, indices, results, exit, counters>>

WriteOriginal ==
  /\ pc = "undo"
  /\ file' = original
  /\ indices' = Tail(indices)
  /\ pc' = "pick"
  /\ UNCHANGED <<kept, backup, report, original, skipped, results, unwinding,
                 exit, counters>>

LoopEnds ==
  /\ pc = "pick"
  /\ indices = <<>>
  /\ pc' = "finally"
  /\ UNCHANGED <<kept, disk, original, skipped, indices, results, unwinding,
                 exit, counters>>

-----------------------------------------------------------------------------
(* The finally block, and the report when no exception is passing. *)

BuggyOpenForRestore ==
  /\ pc = "finally"
  /\ file' = Truncated
  /\ backup' = Absent
  /\ pc' = "restore"
  /\ UNCHANGED <<kept, report, original, skipped, indices, results, unwinding,
                 exit, counters>>

OpenForRestore ==
  /\ pc = "finally"
  /\ file' = Truncated
  /\ pc' = "restore"
  /\ UNCHANGED <<kept, backup, report, original, skipped, indices, results,
                 unwinding, exit, counters>>

Restore ==
  /\ pc = "restore"
  /\ file' = backup
  /\ pc' = "unlink"
  /\ UNCHANGED <<kept, backup, report, original, skipped, indices, results,
                 unwinding, exit, counters>>

BuggyUnlinkBackup ==
  /\ pc = "unlink"
  /\ backup' = Absent
  /\ pc' = "report"
  /\ UNCHANGED <<kept, file, report, original, skipped, indices, results,
                 unwinding, exit, counters>>

UnlinkBackup ==
  /\ pc = "unlink"
  /\ backup' = Absent
  /\ IF unwinding THEN Stop("exception") ELSE pc' = "report" /\ UNCHANGED exit
  /\ UNCHANGED <<kept, file, report, original, skipped, indices, results,
                 unwinding, counters>>

WriteReport ==
  /\ pc = "report"
  /\ report' = {results}
  /\ Stop("done")
  /\ UNCHANGED <<kept, file, backup, original, skipped, indices, results,
                 unwinding, counters>>

-----------------------------------------------------------------------------
BuggyInterrupt ==
  /\ pc # "off"
  /\ interrupts < MaxInterrupts
  /\ interrupts' = interrupts + 1
  /\ Stop("interrupted")
  /\ UNCHANGED <<kept, disk, original, skipped, indices, results, unwinding, runs,
                 kills>>

(* KeyboardInterrupt: the try block unwinds through finally; anywhere else *)
(* the run ends where it is.                                               *)
Interrupt ==
  /\ pc # "off"
  /\ interrupts < MaxInterrupts
  /\ interrupts' = interrupts + 1
  /\ IF pc \in {"pick", "mutate", "test", "undo"}
     THEN unwinding' = TRUE /\ pc' = "finally" /\ UNCHANGED exit
     ELSE /\ Stop(IF pc \in {"finally", "restore", "unlink"}
                  THEN "interrupted in finally" ELSE "interrupted")
          /\ UNCHANGED unwinding
  /\ UNCHANGED <<kept, disk, original, skipped, indices, results, runs, kills>>

(* The process is killed: no handler runs. *)
Kill ==
  /\ pc # "off"
  /\ kills < MaxKills
  /\ kills' = kills + 1
  /\ Stop("killed")
  /\ UNCHANGED <<kept, disk, original, skipped, indices, results, unwinding, runs,
                 interrupts>>

Step ==
  \/ FillBackup \/ NothingToMutate \/ BaselinePasses \/ BaselineFails
  \/ BaselineTaskkillMissing
  \/ SkipUngenerable \/ OpenForMutant \/ WriteMutant \/ TestMutant
  \/ TaskkillMissing \/ WriteOriginal \/ LoopEnds
  \/ OpenForRestore \/ Restore \/ UnlinkBackup \/ WriteReport

Next == Launch \/ Step \/ Interrupt \/ Kill

Spec == Init /\ [][Next]_vars

(* The script runs on by itself: run_tests gives up after its timeout. *)
FairSpec == Spec /\ WF_vars(Step)

-----------------------------------------------------------------------------
Content == Seq(Sites) \cup {Truncated}
Records == Seq([index : Sites, survived : BOOLEAN])

(* The files' contents and the script's locals. *)
TypeOK ==
  /\ file \in Content
  /\ backup \in Content \cup {Absent}
  /\ report = {} \/ \E r \in report : report = {r} /\ r \in Records
  /\ original \in Content
  /\ indices \in Seq(Sites)
  /\ results \in Records
  /\ skipped \in 0 .. Len(Sampled)

(* The original survives somewhere on disk at every moment, whenever the   *)
(* next interrupt or kill comes.                                           *)
Recoverable == file = Original \/ backup = Original

(* That holds as long as no run is started on a file that an earlier run   *)
(* could not restore (the copy of line 297 then replaces the only good     *)
(* backup).                                                                *)
OriginalSurvives == Clean => Recoverable

(* "mesmo se o script for interrompido no meio, o arquivo original e       *)
(* restaurado antes de sair": the file is the original whenever no mutant  *)
(* should be in it, during the sanity run, between two mutants, and after  *)
(* a run that was neither killed nor interrupted inside its finally block. *)
OriginalInPlace ==
  LET noMutant == \/ pc \in {"baseline", "pick"}
                  \/ pc = "off" /\ exit \notin Unrestored
  IN  Clean /\ noMutant => file = Original

(* Whatever an earlier run left behind, a run that ends in order puts back *)
(* what it read when it started, by way of the backup it made.             *)
LeavesAsFound ==
  pc = "off" /\ exit \notin Unrestored => file = original

(* Each record of a report is the verdict of the mutant it names, although *)
(* all mutants went through the same file; a hang counts as killed.        *)
ReportFaithful ==
  Clean => \A r \in report : \A i \in DOMAIN r :
             r[i].survived <=> verdicts[r[i].index] = "pass"

(* A report is written only by a run that tried every mutant it had to,    *)
(* once and in order.                                                      *)
ReportComplete ==
  [][report' # report =>
       LET todo == Remaining(skipped)
       IN  \A r \in report' :
             /\ {r[i].index : i \in DOMAIN r} = {i \in Members(todo) : Generable(i)}
             /\ \A i, j \in DOMAIN r : i < j => r[i].index < r[j].index]_vars

(* Every run ends. *)
RunEnds == []<>(pc = "off")
=============================================================================
