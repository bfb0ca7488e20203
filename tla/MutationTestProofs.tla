------------------------- MODULE MutationTestProofs -------------------------
(***************************************************************************)
(* mutation_test.py never loses the file it mutates, for any number of     *)
(* sites, runs, interrupts and kills, as long as nobody starts it again on *)
(* a file it could not restore (Clean).                                    *)
(***************************************************************************)
EXTENDS MutationTest, SequenceTheorems, TLAPS

(* Where the original is at each point of main(): in the file up to the    *)
(* loop and after the copy back, in the backup from the end of its copy to *)
(* the unlink, in memory between reading and writing.                      *)
InFile ==
  \/ pc \in {"backup", "nothing", "baseline", "pick", "unlink", "report"}
  \/ pc = "off" /\ exit \notin Unrestored

InBackup ==
  pc \in {"nothing", "baseline", "pick", "mutate", "test", "undo", "finally", "restore"}

InMemory == pc \in {"backup", "nothing", "baseline", "pick", "mutate", "test", "undo"}

Points ==
  {"off", "backup", "nothing", "baseline", "pick", "mutate", "test", "undo",
   "finally", "restore", "unlink", "report"}

Placed ==
  /\ InFile => file = Original
  /\ InBackup => backup = Original
  /\ InMemory => original = Original
  /\ Recoverable

IInv ==
  /\ pc \in Points
  /\ leftovers \in Nat
  /\ Clean => Placed

(* Before the first run the file holds the original. *)
LEMMA InitIInv == Init => IInv
  BY DEF Init, IInv, Placed, Points, InFile, InBackup, InMemory, Unrestored, Recoverable

(* Starting a run on a leftover is counted. *)
LEMMA LaunchOnLeftover ==
  ASSUME leftovers \in Nat, Launch, exit \in Unrestored
  PROVE  leftovers' \in Nat /\ leftovers' # 0
<1>1. leftovers' = leftovers + 1
  BY DEF Launch
<1> QED
  BY <1>1

(* Every step of a run, an interrupt and a kill keep track of the original. *)
LEMMA NextIInv == IInv /\ [Next]_vars => IInv'
<1> SUFFICES ASSUME IInv, [Next]_vars PROVE IInv'
  OBVIOUS
<1> USE DEF IInv, Placed, Points, InFile, InBackup, InMemory, Recoverable, Unrestored,
            Clean, kept
<1>1. CASE Launch
  <2>1. CASE exit \in Unrestored
    BY <1>1, <2>1, LaunchOnLeftover DEF Launch
  <2>2. CASE exit \notin Unrestored
    BY <1>1, <2>2 DEF Launch
  <2> QED
    BY <2>1, <2>2
<1>2. CASE FillBackup
  BY <1>2 DEF FillBackup, kept, world
<1>3. CASE NothingToMutate
  BY <1>3 DEF NothingToMutate, Stop, kept, world
<1>4. CASE BaselinePasses \/ BaselineFails \/ BaselineTaskkillMissing
  <2>1. CASE BaselinePasses
    BY <2>1 DEF BaselinePasses, disk
  <2>2. CASE BaselineFails
    BY <2>2 DEF BaselineFails, Stop
  <2>3. CASE BaselineTaskkillMissing
    BY <2>3 DEF BaselineTaskkillMissing, Stop, disk
  <2> QED
    BY <1>4, <2>1, <2>2, <2>3
<1>5. CASE SkipUngenerable \/ OpenForMutant \/ LoopEnds
  BY <1>5 DEF SkipUngenerable, OpenForMutant, LoopEnds, disk, kept
<1>6. CASE WriteMutant
  BY <1>6 DEF WriteMutant, kept, world
<1>7. CASE TestMutant
  BY <1>7 DEF TestMutant, kept, world
<1>8. CASE TaskkillMissing
  BY <1>8 DEF TaskkillMissing, disk, kept
<1>9. CASE WriteOriginal
  BY <1>9 DEF WriteOriginal, kept, world
<1>10. CASE OpenForRestore \/ Restore
  BY <1>10 DEF OpenForRestore, Restore, kept, world
<1>11. CASE UnlinkBackup \/ WriteReport
  BY <1>11 DEF UnlinkBackup, WriteReport, Stop, kept, world
<1>12. CASE Interrupt
  <2>1. UNCHANGED <<file, backup, original, leftovers>>
    BY <1>12 DEF Interrupt, disk
  <2>2. CASE pc \in {"pick", "mutate", "test", "undo"}
    BY <1>12, <2>1, <2>2 DEF Interrupt
  <2>3. CASE pc \notin {"pick", "mutate", "test", "undo"}
    BY <1>12, <2>1, <2>3 DEF Interrupt, Stop
  <2> QED
    BY <2>2, <2>3
<1>13. CASE Kill
  BY <1>13 DEF Kill, Stop, disk
<1>14. CASE UNCHANGED vars
  BY <1>14 DEF vars, disk, kept
<1> QED
  BY <1>1, <1>2, <1>3, <1>4, <1>5, <1>6, <1>7, <1>8, <1>9, <1>10, <1>11, <1>12,
     <1>13, <1>14 DEF Next, Step

(* The original is on disk at every moment, in the file or in the backup,  *)
(* as long as no run is started on a file that was not restored            *)
(* (mutation_test.py 294-361).                                             *)
THEOREM SurvivalTheorem == Spec => []OriginalSurvives
<1>1. IInv => OriginalSurvives
  BY DEF IInv, Placed, OriginalSurvives
<1> QED
  BY <1>1, InitIInv, NextIInv, PTL DEF Spec

(* The file is the original whenever no mutant should be in it: every run  *)
(* starts from it and, unless it is killed or interrupted in its finally   *)
(* block, leaves it behind (294-361).                                      *)
THEOREM InPlaceTheorem == Spec => []OriginalInPlace
<1>1. IInv => OriginalInPlace
  BY DEF IInv, Placed, InFile, OriginalInPlace
<1> QED
  BY <1>1, InitIInv, NextIInv, PTL DEF Spec

-----------------------------------------------------------------------------
(* Reports. *)

Verdict(r) == r.survived <=> verdicts[r.index] = "pass"

Record == [index : Sites, survived : BOOLEAN]

(* Every record is the verdict of its mutant because the file under test   *)
(* holds that mutant and nothing else.                                     *)
RInv ==
  /\ IInv
  /\ skipped \in Nat
  /\ indices \in Seq(Sites)
  /\ pc \in {"mutate", "test", "undo"} => indices # <<>>
  /\ Clean /\ pc = "test" => file = <<Head(indices)>>
  /\ results \in Seq(Record)
  /\ Clean => \A i \in DOMAIN results : Verdict(results[i])
  /\ ReportFaithful

(* Sampling every total/max-th site stays inside the sites. *)
LEMMA SampledInSites == Sampled \in Seq(Sites)
<1>1. CASE TotalSites > MaxMutants
  <2>1. ASSUME NEW i \in 1 .. MaxMutants
        PROVE  ((i - 1) * TotalSites) \div MaxMutants \in Sites
    <3> DEFINE a == (i - 1) * TotalSites
               q == a \div MaxMutants
    <3>1. i - 1 \in Nat /\ MaxMutants \in Nat /\ TotalSites \in Nat /\ MaxMutants > 0
      BY BoundsAssumption
    <3>2. a \in Nat
      BY <3>1
    <3>3. a < MaxMutants * TotalSites
      <4>1. (MaxMutants - (i - 1)) * TotalSites > 0
        BY <1>1, <3>1
      <4>2. (MaxMutants - (i - 1)) * TotalSites = MaxMutants * TotalSites - a
        BY <3>1
      <4> QED
        BY <4>1, <4>2, <3>1, <3>2
    <3>4. q \in Nat /\ MaxMutants * q <= a
      BY <3>1, <3>2
    <3>5. q < TotalSites
      <4>1. SUFFICES ASSUME q >= TotalSites PROVE FALSE
        BY <3>1, <3>4
      <4>2. MaxMutants * (q - TotalSites) >= 0
        BY <4>1, <3>1, <3>4
      <4> QED
        BY <4>2, <3>1, <3>2, <3>3, <3>4
    <3> HIDE DEF q
    <3>6. q \in Sites
      BY <3>1, <3>4, <3>5 DEF Sites
    <3> QED
      BY <3>6 DEF q
  <2>2. [i \in 1 .. MaxMutants |-> ((i - 1) * TotalSites) \div MaxMutants] \in Seq(Sites)
    BY <2>1, BoundsAssumption
  <2> QED
    BY <1>1, <2>2 DEF Sampled
<1>2. CASE ~ (TotalSites > MaxMutants)
  <2>1. [i \in 1 .. TotalSites |-> i - 1] \in Seq(Sites)
    BY BoundsAssumption DEF Sites
  <2> QED
    BY <1>2, <2>1 DEF Sampled
<1> QED
  BY <1>1, <1>2

Increasing(s) == \A i, j \in DOMAIN s : i < j => s[i] < s[j]

(* The sampled sites are in the order of the file, without repetition: the *)
(* step is more than one when sites are left out.                          *)
LEMMA SampledIncreasing == Increasing(Sampled)
<1>1. CASE TotalSites > MaxMutants
  <2>1. ASSUME NEW i \in 1 .. MaxMutants, NEW j \in 1 .. MaxMutants, i < j
        PROVE  ((i - 1) * TotalSites) \div MaxMutants < ((j - 1) * TotalSites) \div MaxMutants
    <3> DEFINE a == (i - 1) * TotalSites
               b == (j - 1) * TotalSites
               p == a \div MaxMutants
               q == b \div MaxMutants
    <3>1. /\ i - 1 \in Nat /\ j - 1 \in Nat /\ j - i - 1 \in Nat
          /\ MaxMutants \in Nat /\ TotalSites \in Nat /\ MaxMutants > 0
      BY <2>1, BoundsAssumption
    <3>2. a \in Nat /\ b \in Nat
      BY <3>1
    <3>3. b - a - TotalSites = (j - i - 1) * TotalSites
      BY <3>1
    <3>4. (j - i - 1) * TotalSites \in Nat
      BY <3>1
    <3>5. b >= a + MaxMutants
      BY <1>1, <3>1, <3>2, <3>3, <3>4
    <3>6. p \in Nat /\ q \in Nat /\ MaxMutants * p <= a /\ b < MaxMutants * (q + 1)
      BY <3>1, <3>2
    <3>7. p < q
      <4>1. SUFFICES ASSUME p >= q PROVE FALSE
        BY <3>6
      <4>2. MaxMutants * (p - q) >= 0
        BY <4>1, <3>1, <3>6
      <4> HIDE DEF a, b, p, q
      <4>3. MaxMutants * (p - q) = MaxMutants * p - MaxMutants * q
        BY <3>1, <3>6
      <4>4. MaxMutants * (q + 1) = MaxMutants * q + MaxMutants
        BY <3>1, <3>6
      <4>5. MaxMutants * p \in Nat /\ MaxMutants * q \in Nat
        BY <3>1, <3>6
      <4> QED
        BY <4>2, <4>3, <4>4, <4>5, <3>1, <3>2, <3>5, <3>6
    <3> QED
      BY <3>7
  <2>2. DOMAIN Sampled = 1 .. MaxMutants
    BY <1>1 DEF Sampled
  <2>3. \A i \in 1 .. MaxMutants : Sampled[i] = ((i - 1) * TotalSites) \div MaxMutants
    BY <1>1 DEF Sampled
  <2> QED
    BY <2>1, <2>2, <2>3 DEF Increasing
<1>2. CASE ~ (TotalSites > MaxMutants)
  BY <1>2, BoundsAssumption DEF Sampled, Increasing
<1> QED
  BY <1>1, <1>2

(* What a run has to try. *)
LEMMA RemainingFacts ==
  ASSUME NEW n \in 0 .. Len(Sampled)
  PROVE  Remaining(n) \in Seq(Sites) /\ Increasing(Remaining(n))
<1>1. Len(Sampled) \in Nat /\ \A i \in n + 1 .. Len(Sampled) : Sampled[i] \in Sites
  BY SampledInSites
<1>2. n + 1 \in Int /\ Len(Sampled) \in Int
  BY <1>1
<1>3. /\ Remaining(n) \in Seq(Sites)
      /\ Len(Remaining(n)) = IF n + 1 <= Len(Sampled) THEN Len(Sampled) - (n + 1) + 1 ELSE 0
      /\ \A i \in 1 .. Len(Sampled) - (n + 1) + 1 : Remaining(n)[i] = Sampled[n + 1 + i - 1]
  BY <1>1, <1>2, SubSeqProperties DEF Remaining
<1>4. ASSUME NEW i \in DOMAIN Remaining(n), NEW j \in DOMAIN Remaining(n), i < j
      PROVE  Remaining(n)[i] < Remaining(n)[j]
  <2>1. i \in 1 .. Len(Sampled) - n /\ j \in 1 .. Len(Sampled) - n
    BY <1>1, <1>3
  <2>2. Remaining(n)[i] = Sampled[n + i] /\ Remaining(n)[j] = Sampled[n + j]
    <3>1. ASSUME NEW k \in 1 .. Len(Sampled) - n PROVE Remaining(n)[k] = Sampled[n + k]
      <4>1. k \in 1 .. Len(Sampled) - (n + 1) + 1 /\ n + 1 + k - 1 = n + k
        BY <1>1
      <4>2. Remaining(n)[k] = Sampled[n + 1 + k - 1]
        BY <1>3, <4>1
      <4> QED
        BY <4>1, <4>2
    <3> QED
      BY <2>1, <3>1
  <2>3. n + i \in DOMAIN Sampled /\ n + j \in DOMAIN Sampled /\ n + i < n + j
    BY <1>1, <1>4, <2>1, SampledInSites
  <2> QED
    BY <2>2, <2>3, SampledIncreasing DEF Increasing
<1> QED
  BY <1>3, <1>4 DEF Increasing

(* Before the first run there is no report and no record. *)
LEMMA InitRInv == Init => RInv
  BY InitIInv DEF Init, RInv, ReportFaithful, Verdict

(* Every step keeps the records faithful. *)
LEMMA NextRInv == RInv /\ [Next]_vars => RInv'
<1> SUFFICES ASSUME RInv, [Next]_vars PROVE RInv'
  OBVIOUS
<1>0. IInv'
  BY NextIInv DEF RInv
<1>s. skipped' \in Nat
  <2>1. Len(Sampled) \in Nat
    BY SampledInSites
  <2>2. CASE Launch
    BY <2>1, <2>2 DEF Launch
  <2>3. CASE ~ Launch
    <3>1. UNCHANGED skipped
      BY <2>3 DEF Next, Step, vars, FillBackup, NothingToMutate, BaselinePasses,
         BaselineFails, BaselineTaskkillMissing, SkipUngenerable, OpenForMutant,
         WriteMutant, TestMutant, TaskkillMissing, WriteOriginal, LoopEnds,
         OpenForRestore, Restore, UnlinkBackup, WriteReport, Interrupt, Kill
    <3> QED
      BY <3>1 DEF RInv
  <2> QED
    BY <2>2, <2>3
<1>v. UNCHANGED verdicts
  BY DEF Next, Step, vars, kept, world, Launch, FillBackup, NothingToMutate, BaselinePasses,
         BaselineFails, BaselineTaskkillMissing, SkipUngenerable, OpenForMutant,
         WriteMutant, TestMutant, TaskkillMissing, WriteOriginal, LoopEnds,
         OpenForRestore, Restore, UnlinkBackup, WriteReport, Interrupt, Kill
<1>l. Clean' => Clean
  <2>1. leftovers \in Nat
    BY DEF RInv, IInv
  <2>2. CASE Launch
    BY <2>1, <2>2 DEF Launch, Clean
  <2>3. CASE ~ Launch
    <3>1. UNCHANGED leftovers
      BY <2>3 DEF Next, Step, vars, kept, FillBackup, NothingToMutate, BaselinePasses,
         BaselineFails, BaselineTaskkillMissing, SkipUngenerable, OpenForMutant,
         WriteMutant, TestMutant, TaskkillMissing, WriteOriginal, LoopEnds,
         OpenForRestore, Restore, UnlinkBackup, WriteReport, Interrupt, Kill
    <3> QED
      BY <3>1 DEF Clean
  <2> QED
    BY <2>2, <2>3
<1> USE DEF RInv, Verdict
<1>1. CASE Launch
  BY <1>0, <1>s, <1>1, <1>v, <1>l DEF Launch, ReportFaithful
<1>2. CASE FillBackup \/ NothingToMutate \/ BaselineFails \/ BaselineTaskkillMissing
  BY <1>0, <1>s, <1>2, <1>v, <1>l DEF FillBackup, NothingToMutate, BaselineFails,
     BaselineTaskkillMissing, Stop, disk, ReportFaithful
<1>3. CASE BaselinePasses
  <2>1. \A i \in skipped + 1 .. Len(Sampled) : Sampled[i] \in Sites
    BY SampledInSites
  <2>2. Remaining(skipped) \in Seq(Sites)
    BY <2>1, SampledInSites, SubSeqProperties DEF Remaining
  <2> QED
    BY <1>0, <1>s, <1>3, <1>v, <1>l, <2>2 DEF BaselinePasses, disk, ReportFaithful
<1>4. CASE SkipUngenerable \/ OpenForMutant \/ LoopEnds
  <2>1. indices # <<>> => Tail(indices) \in Seq(Sites)
    BY HeadTailProperties
  <2> QED
    BY <1>0, <1>s, <1>4, <1>v, <1>l, <2>1 DEF SkipUngenerable, OpenForMutant, LoopEnds, disk, ReportFaithful
<1>5. CASE WriteMutant
  <2>1. Clean => original = Original
    BY <1>5 DEF WriteMutant, IInv, Placed, InMemory
  <2>2. Append(<<>>, Head(indices)) = <<Head(indices)>>
    OBVIOUS
  <2> QED
    BY <1>0, <1>s, <1>5, <1>v, <1>l, <2>1, <2>2 DEF WriteMutant, ReportFaithful, Original
<1>6. CASE TestMutant
  <2>1. Head(indices) \in Sites /\ (Clean => file = <<Head(indices)>>)
    BY <1>6, HeadTailProperties DEF TestMutant
  <2>2. PICK o \in Outcomes(file) :
          results' = Append(results, [index |-> Head(indices), survived |-> o = "pass"])
    BY <1>6 DEF TestMutant
  <2> DEFINE r == [index |-> Head(indices), survived |-> o = "pass"]
  <2>3. ASSUME Clean PROVE Verdict(r)
    <3>1. file # Truncated /\ Len(file) = 1 /\ file[1] = Head(indices)
      BY <2>1, <2>3 DEF Truncated, Sites
    <3>2. Outcomes(file) = {verdicts[Head(indices)]}
      BY <3>1 DEF Outcomes
    <3> QED
      BY <2>2, <3>2
  <2>4. r \in Record
    BY <2>1 DEF Record
  <2>5. results' = Append(results, r)
    BY <2>2
  <2> HIDE DEF r
  <2>6. results' \in Seq(Record)
    BY <2>4, <2>5
  <2>7. Clean => \A i \in DOMAIN results' : Verdict(results'[i])
    BY <2>3, <2>4, <2>5, AppendProperties
  <2> QED
    BY <1>0, <1>s, <1>6, <1>v, <1>l, <2>6, <2>7 DEF TestMutant, ReportFaithful
<1>7. CASE WriteOriginal
  <2>1. indices # <<>> => Tail(indices) \in Seq(Sites)
    BY HeadTailProperties
  <2> QED
    BY <1>0, <1>s, <1>7, <1>v, <1>l, <2>1 DEF WriteOriginal, ReportFaithful
<1>8. CASE TaskkillMissing \/ OpenForRestore \/ Restore \/ UnlinkBackup
  BY <1>0, <1>s, <1>8, <1>v, <1>l DEF TaskkillMissing, OpenForRestore, Restore, UnlinkBackup, Stop,
     disk, ReportFaithful
<1>9. CASE WriteReport
  BY <1>0, <1>s, <1>9, <1>v, <1>l DEF WriteReport, Stop, ReportFaithful
<1>10. CASE Interrupt \/ Kill
  BY <1>0, <1>s, <1>10, <1>v, <1>l DEF Interrupt, Kill, Stop, disk, ReportFaithful
<1>11. CASE UNCHANGED vars
  BY <1>0, <1>s, <1>11, <1>v, <1>l DEF vars, disk, ReportFaithful
<1> QED
  BY <1>1, <1>2, <1>3, <1>4, <1>5, <1>6, <1>7, <1>8, <1>9, <1>10, <1>11 DEF Next, Step

(* Each record of a report is the verdict of the mutant it names: no       *)
(* mutant is tested with a trace of an earlier one (343-355).              *)
THEOREM ReportsAreFaithful == Spec => []ReportFaithful
<1>1. RInv => ReportFaithful
  BY DEF RInv
<1> QED
  BY <1>1, InitRInv, NextRInv, PTL DEF Spec

-----------------------------------------------------------------------------
(* What a run leaves behind, also when it was started on a leftover. *)

(* From the end of the copy to the unlink the backup is what the run read; *)
(* a file without a site to mutate never reaches the loop.                 *)
TInv ==
  /\ pc \in Points
  /\ TypeOK
  /\ InFile => file = original
  /\ InBackup => backup = original
  /\ pc \in {"baseline", "pick", "mutate", "test", "undo"} => original # Truncated
  /\ pc \in {"mutate", "test", "undo"} => indices # <<>>

LEMMA InitTInv == Init => TInv
<1> SUFFICES ASSUME Init PROVE TInv
  OBVIOUS
<1>1. Len(Sampled) \in Nat
  BY SampledInSites
<1>2. <<>> \in Seq(Sites) /\ <<>> \in Records
  BY EmptySeq DEF Records
<1> QED
  BY <1>1, <1>2 DEF Init, TInv, TypeOK, Points, InFile, InBackup, Content, Original

(* Every step keeps the types and the copies. *)
LEMMA NextTInv == TInv /\ [Next]_vars => TInv'
<1> SUFFICES ASSUME TInv, [Next]_vars PROVE TInv'
  OBVIOUS
<1> USE DEF TInv, TypeOK, Points, InFile, InBackup, Unrestored
<1>1. CASE Launch
  <2>1. <<>> \in Records
    BY EmptySeq DEF Records
  <2> QED
    BY <1>1, <2>1 DEF Launch, Content
<1>2. CASE FillBackup
  BY <1>2 DEF FillBackup, SitesIn
<1>3. CASE NothingToMutate
  BY <1>3 DEF NothingToMutate, Stop
<1>4. CASE BaselinePasses
  <2>2. Remaining(skipped) \in Seq(Sites)
    BY RemainingFacts
  <2> QED
    BY <1>4, <2>2 DEF BaselinePasses, disk
<1>5. CASE BaselineFails
  BY <1>5 DEF BaselineFails, Stop
<1>6. CASE BaselineTaskkillMissing
  BY <1>6 DEF BaselineTaskkillMissing, Stop, disk
<1>7. CASE SkipUngenerable
  <2>1. Tail(indices) \in Seq(Sites)
    BY <1>7, HeadTailProperties DEF SkipUngenerable
  <2> QED
    BY <1>7, <2>1 DEF SkipUngenerable, disk
<1>8. CASE OpenForMutant
  BY <1>8 DEF OpenForMutant, Content
<1>9. CASE WriteMutant
  <2>1. Head(indices) \in Sites /\ original \in Seq(Sites)
    BY <1>9, HeadTailProperties DEF WriteMutant, Content
  <2>2. Append(original, Head(indices)) \in Content
    BY <2>1, AppendProperties DEF Content
  <2> QED
    BY <1>9, <2>2 DEF WriteMutant
<1>10. CASE TestMutant
  <2>1. PICK o \in Outcomes(file) :
          results' = Append(results, [index |-> Head(indices), survived |-> o = "pass"])
    BY <1>10 DEF TestMutant
  <2> DEFINE r == [index |-> Head(indices), survived |-> o = "pass"]
  <2>2. (o = "pass") \in BOOLEAN /\ Head(indices) \in Sites
    BY <1>10, HeadTailProperties DEF TestMutant
  <2>3. r \in [index : Sites, survived : BOOLEAN]
    BY <2>2
  <2>4. results' = Append(results, r)
    BY <2>1
  <2> HIDE DEF r
  <2>5. results' \in Records
    BY <2>3, <2>4, AppendProperties DEF Records
  <2> QED
    BY <1>10, <2>5 DEF TestMutant, Content
<1>11. CASE TaskkillMissing
  BY <1>11 DEF TaskkillMissing, disk
<1>12. CASE WriteOriginal
  <2>1. Tail(indices) \in Seq(Sites)
    BY <1>12, HeadTailProperties DEF WriteOriginal
  <2> QED
    BY <1>12, <2>1 DEF WriteOriginal
<1>13. CASE LoopEnds
  BY <1>13 DEF LoopEnds, disk
<1>14. CASE OpenForRestore
  BY <1>14 DEF OpenForRestore, Content
<1>15. CASE Restore
  BY <1>15 DEF Restore
<1>16. CASE UnlinkBackup
  BY <1>16 DEF UnlinkBackup, Stop
<1>17. CASE WriteReport
  BY <1>17 DEF WriteReport, Stop
<1>18. CASE Interrupt
  <2>1. CASE pc \in {"pick", "mutate", "test", "undo"}
    BY <1>18, <2>1 DEF Interrupt, disk
  <2>2. CASE pc \notin {"pick", "mutate", "test", "undo"}
    BY <1>18, <2>2 DEF Interrupt, Stop, disk
  <2> QED
    BY <2>1, <2>2
<1>19. CASE Kill
  BY <1>19 DEF Kill, Stop, disk
<1>20. CASE UNCHANGED vars
  BY <1>20 DEF vars, disk
<1> QED
  BY <1>1, <1>2, <1>3, <1>4, <1>5, <1>6, <1>7, <1>8, <1>9, <1>10, <1>11, <1>12, <1>13,
     <1>14, <1>15, <1>16, <1>17, <1>18, <1>19, <1>20 DEF Next, Step

(* The files hold sequences of mutations or are truncated, the locals keep *)
(* their types: --start-at beyond the sampled sites leaves nothing to try. *)
THEOREM TypeCorrect == Spec => []TypeOK
<1>1. TInv => TypeOK
  BY DEF TInv
<1> QED
  BY <1>1, InitTInv, NextTInv, PTL DEF Spec

(* A run that ends in order puts back what it read, whatever that was      *)
(* (294-361).                                                              *)
THEOREM LeftAsFound == Spec => []LeavesAsFound
<1>1. TInv => LeavesAsFound
  BY DEF TInv, InFile, LeavesAsFound
<1> QED
  BY <1>1, InitTInv, NextTInv, PTL DEF Spec

-----------------------------------------------------------------------------
(* Completeness of a report. *)

(* What the loop has left after the present mutant. *)
Rest == IF pc = "undo" THEN Tail(indices) ELSE indices

InLoop == pc \in {"pick", "mutate", "test", "undo"}

AfterLoop == pc \in {"finally", "restore", "unlink", "report"} /\ ~ unwinding

Tried == {results[i].index : i \in DOMAIN results}

(* The generable mutants a run had to try are split into those it has a    *)
(* record of and, after them, those that are left.                         *)
Split ==
  /\ Tried = {i \in Members(Remaining(skipped)) \ Members(Rest) : Generable(i)}
  /\ \A i, j \in DOMAIN results : i < j => results[i].index < results[j].index
  /\ Increasing(Rest)
  /\ Members(Rest) \subseteq Members(Remaining(skipped))
  /\ \A x \in Tried, y \in Members(Rest) : x < y

CInv ==
  /\ TInv
  /\ pc \in {"backup", "nothing", "baseline"} => results = <<>>
  /\ pc = "report" => ~ unwinding
  /\ pc \in {"mutate", "test", "undo"} => Generable(Head(indices))
  /\ InLoop \/ AfterLoop => Split
  /\ AfterLoop => indices = <<>>

(* The first element of an increasing sequence and the others. *)
LEMMA IncreasingTail ==
  ASSUME NEW s \in Seq(Sites), s # <<>>, Increasing(s)
  PROVE  /\ Members(s) = {Head(s)} \cup Members(Tail(s))
         /\ Increasing(Tail(s))
         /\ \A x \in Members(Tail(s)) : Head(s) < x
<1>1. /\ Tail(s) \in Seq(Sites) /\ Len(Tail(s)) = Len(s) - 1 /\ Len(s) \in Nat \ {0}
      /\ \A i \in 1 .. Len(s) - 1 : Tail(s)[i] = s[i + 1]
      /\ Head(s) = s[1]
  BY HeadTailProperties, EmptySeq
<1>2. DOMAIN s = 1 .. Len(s) /\ DOMAIN Tail(s) = 1 .. Len(s) - 1
  BY <1>1
<1>3. ASSUME NEW x \in Members(s) PROVE x \in {Head(s)} \cup Members(Tail(s))
  <2>1. PICK i \in 1 .. Len(s) : x = s[i]
    BY <1>2 DEF Members
  <2>2. CASE i = 1
    BY <1>1, <2>1, <2>2
  <2>3. CASE i # 1
    <3>1. i - 1 \in 1 .. Len(s) - 1 /\ (i - 1) + 1 = i
      BY <1>1, <2>3
    <3>2. Tail(s)[i - 1] = x
      BY <1>1, <2>1, <3>1
    <3> QED
      BY <1>2, <3>1, <3>2 DEF Members
  <2> QED
    BY <2>2, <2>3
<1>4. ASSUME NEW x \in Members(Tail(s)) PROVE x \in Members(s) /\ Head(s) < x
  <2>1. PICK i \in 1 .. Len(s) - 1 : x = Tail(s)[i]
    BY <1>2 DEF Members
  <2>2. i + 1 \in 1 .. Len(s) /\ x = s[i + 1] /\ 1 \in 1 .. Len(s) /\ 1 < i + 1
    BY <1>1, <2>1
  <2> QED
    BY <1>1, <1>2, <2>2 DEF Members, Increasing
<1>5. Head(s) \in Members(s)
  BY <1>1, <1>2 DEF Members
<1>6. Increasing(Tail(s))
  <2>1. ASSUME NEW i \in 1 .. Len(s) - 1, NEW j \in 1 .. Len(s) - 1, i < j
        PROVE  Tail(s)[i] < Tail(s)[j]
    <3>1. i + 1 \in 1 .. Len(s) /\ j + 1 \in 1 .. Len(s) /\ i + 1 < j + 1
      BY <1>1, <2>1
    <3> QED
      BY <1>1, <1>2, <3>1 DEF Increasing
  <2> QED
    BY <1>2, <2>1 DEF Increasing
<1> QED
  BY <1>3, <1>4, <1>5, <1>6

LEMMA InitCInv == Init => CInv
  BY InitTInv DEF Init, CInv, InLoop, AfterLoop

(* The split of the next state, in terms of this one. *)
LEMMA SplitNext ==
  ASSUME UNCHANGED <<ungenerable, skipped>>,
         Tried' = {i \in Members(Remaining(skipped)) \ Members(Rest') : Generable(i)},
         \A i, j \in DOMAIN results' : i < j => results'[i].index < results'[j].index,
         Increasing(Rest'),
         Members(Rest') \subseteq Members(Remaining(skipped)),
         \A x \in Tried', y \in Members(Rest') : x < y
  PROVE  Split'
<1>1. Remaining(skipped)' = Remaining(skipped)
  BY DEF Remaining
<1>2. Members(Remaining(skipped))' = Members(Remaining(skipped))
  BY <1>1 DEF Members
<1>3. Members(Rest)' = Members(Rest') /\ (Increasing(Rest') => Increasing(Rest)')
  BY DEF Members, Increasing
<1>4. \A i : Generable(i)' <=> Generable(i)
  BY DEF Generable
<1>5. Tried' = {i \in Members(Remaining(skipped))' \ Members(Rest)' : Generable(i)'}
  BY <1>2, <1>3, <1>4
<1> QED
  BY <1>2, <1>3, <1>5 DEF Split

(* A tested mutant passes from those that are left to those recorded. *)
LEMMA TestSplit ==
  ASSUME CInv, TestMutant
  PROVE  Split'
<1> USE DEF CInv, TInv, TypeOK
<1>1. /\ pc = "test" /\ pc' = "undo" /\ indices # <<>> /\ indices' = indices
      /\ UNCHANGED <<skipped, ungenerable>> /\ Split
  BY DEF TestMutant, kept, world, InLoop
<1>2. PICK o \in Outcomes(file) :
        results' = Append(results, [index |-> Head(indices), survived |-> o = "pass"])
  BY DEF TestMutant
<1> DEFINE h == Head(indices)
           r == [index |-> h, survived |-> o = "pass"]
<1>3. Rest = indices /\ Rest' = Tail(indices)
  BY <1>1 DEF Rest
<1>4. /\ Members(indices) = {h} \cup Members(Tail(indices))
      /\ Increasing(Tail(indices))
      /\ \A x \in Members(Tail(indices)) : h < x
  BY <1>1, <1>3, IncreasingTail DEF Split
<1>5. h \in Sites /\ Tail(indices) \in Seq(Sites)
  BY <1>1, HeadTailProperties
<1>6. results \in Seq([index : Sites, survived : BOOLEAN]) /\ Len(results) \in Nat
  BY DEF Records
<1>7. (o = "pass") \in BOOLEAN
  OBVIOUS
<1>8. r \in [index : Sites, survived : BOOLEAN] /\ r.index = h
  BY <1>5, <1>7
<1>9. results' = Append(results, r)
  BY <1>2
<1> HIDE DEF r
<1>10. /\ DOMAIN results = 1 .. Len(results) /\ DOMAIN results' = 1 .. Len(results) + 1
       /\ \A i \in 1 .. Len(results) : results'[i] = results[i]
       /\ results'[Len(results) + 1] = r
  BY <1>6, <1>8, <1>9, AppendProperties
<1>11. Tried' = Tried \cup {h}
  <2>1. ASSUME NEW i \in DOMAIN results' PROVE results'[i].index \in Tried \cup {h}
    <3>1. CASE i = Len(results) + 1
      BY <1>8, <1>10, <3>1
    <3>2. CASE i # Len(results) + 1
      <4>1. i \in 1 .. Len(results)
        BY <1>6, <1>10, <2>1, <3>2
      <4> QED
        BY <1>10, <4>1 DEF Tried
    <3> QED
      BY <3>1, <3>2
  <2>2. ASSUME NEW i \in DOMAIN results PROVE results[i].index \in Tried'
    <3>1. i \in DOMAIN results' /\ results'[i] = results[i]
      BY <1>6, <1>10, <2>2
    <3> QED
      BY <3>1 DEF Tried
  <2>3. h \in Tried'
    <3>1. Len(results) + 1 \in DOMAIN results'
      BY <1>6, <1>10
    <3> QED
      BY <1>8, <1>10, <3>1 DEF Tried
  <2> QED
    BY <2>1, <2>2, <2>3 DEF Tried
<1>12. h \notin Members(Tail(indices))
  BY <1>4, <1>5 DEF Sites
<1>13. Tried' = {i \in Members(Remaining(skipped)) \ Members(Tail(indices)) : Generable(i)}
  <2>1. h \in Members(Remaining(skipped)) /\ Generable(h)
    BY <1>1, <1>3, <1>4 DEF Split
  <2> QED
    BY <1>1, <1>3, <1>4, <1>11, <1>12, <2>1 DEF Split
<1>14. ASSUME NEW i \in DOMAIN results', NEW j \in DOMAIN results', i < j
       PROVE  results'[i].index < results'[j].index
  <2>1. i \in 1 .. Len(results) /\ results'[i] = results[i]
    BY <1>6, <1>10, <1>14
  <2>2. CASE j = Len(results) + 1
    <3>1. results[i].index \in Tried /\ h \in Members(Rest)
      BY <1>3, <1>4, <1>10, <2>1 DEF Tried
    <3> QED
      BY <1>1, <1>8, <1>10, <2>1, <2>2, <3>1 DEF Split
  <2>3. CASE j # Len(results) + 1
    <3>1. j \in 1 .. Len(results) /\ results'[j] = results[j]
      BY <1>6, <1>10, <2>3
    <3> QED
      BY <1>1, <1>10, <1>14, <2>1, <3>1 DEF Split
  <2> QED
    BY <2>2, <2>3
<1>15. \A x \in Tried', y \in Members(Tail(indices)) : x < y
  BY <1>1, <1>3, <1>4, <1>11 DEF Split
<1>16. Members(Tail(indices)) \subseteq Members(Remaining(skipped))
  BY <1>1, <1>3, <1>4 DEF Split
<1> QED
  BY <1>1, <1>3, <1>4, <1>13, <1>14, <1>15, <1>16, SplitNext

(* Every step keeps the split. *)
LEMMA NextCInv == CInv /\ [Next]_vars => CInv'
<1> SUFFICES ASSUME CInv, [Next]_vars PROVE CInv'
  OBVIOUS
<1>0. TInv' /\ TInv
  BY NextTInv DEF CInv
<1> USE DEF CInv, InLoop, AfterLoop
<1>1. ASSUME UNCHANGED <<ungenerable, skipped, results>>, Rest' = Rest, InLoop \/ AfterLoop
      PROVE  Split'
  <2>1. Tried' = Tried
    BY <1>1 DEF Tried
  <2>2. Split
    BY <1>1
  <2> QED
    BY <1>1, <2>1, <2>2, SplitNext DEF Split
<1>2. CASE Launch
  BY <1>0, <1>2 DEF Launch
<1>3. CASE FillBackup \/ NothingToMutate \/ BaselineFails \/ BaselineTaskkillMissing
  BY <1>0, <1>3 DEF FillBackup, NothingToMutate, BaselineFails, BaselineTaskkillMissing,
     Stop, disk
<1>4. CASE BaselinePasses
  <2>1. skipped \in 0 .. Len(Sampled)
    BY <1>0 DEF TInv, TypeOK
  <2>2. Rest' = Remaining(skipped) /\ results' = <<>> /\ skipped' = skipped
    BY <1>4 DEF BaselinePasses, Rest
  <2>3. Increasing(Remaining(skipped))
    BY <2>1, RemainingFacts
  <2>4. Tried' = {}
    BY <2>2 DEF Tried
  <2>5. UNCHANGED <<ungenerable, skipped>>
    BY <1>4 DEF BaselinePasses, kept, world
  <2>6. Split'
    BY <2>2, <2>3, <2>4, <2>5, SplitNext
  <2> QED
    BY <1>0, <1>4, <2>6 DEF BaselinePasses
<1>5. CASE SkipUngenerable
  <2>1. /\ indices # <<>> /\ ~ Generable(Head(indices)) /\ Rest = indices
        /\ Rest' = Tail(indices) /\ Split /\ UNCHANGED <<ungenerable, skipped, results>>
    BY <1>5 DEF SkipUngenerable, Rest, kept, world
  <2>2. /\ Members(indices) = {Head(indices)} \cup Members(Tail(indices))
        /\ Increasing(Tail(indices))
    BY <1>0, <2>1, IncreasingTail DEF Split, TInv, TypeOK
  <2>3. Tried = {i \in Members(Remaining(skipped)) \ Members(Tail(indices)) : Generable(i)}
    BY <2>1, <2>2 DEF Split
  <2>4. Tried' = Tried
    BY <2>1 DEF Tried
  <2>5. Split'
    BY <2>1, <2>2, <2>3, <2>4, SplitNext DEF Split
  <2> QED
    BY <1>0, <1>5, <2>5 DEF SkipUngenerable
<1>6. CASE OpenForMutant \/ WriteMutant
  <2>1. Split'
    BY <1>1, <1>6 DEF OpenForMutant, WriteMutant, Rest, kept, world
  <2> QED
    BY <1>0, <1>6, <2>1 DEF OpenForMutant, WriteMutant, kept, world, Generable
<1>7. CASE TestMutant
  <2>1. Split'
    BY <1>7, TestSplit
  <2> QED
    BY <1>0, <1>7, <2>1 DEF TestMutant, kept, world, Generable
<1>8. CASE WriteOriginal
  <2>1. Split'
    BY <1>1, <1>8 DEF WriteOriginal, Rest, kept, world
  <2> QED
    BY <1>0, <1>8, <2>1 DEF WriteOriginal
<1>9. CASE LoopEnds \/ OpenForRestore \/ Restore
  <2>1. AfterLoop' => Split'
    BY <1>1, <1>9 DEF LoopEnds, OpenForRestore, Restore, Rest, kept, world
  <2> QED
    BY <1>0, <1>9, <2>1 DEF LoopEnds, OpenForRestore, Restore
<1>10. CASE UnlinkBackup
  <2>1. pc' = "report" => AfterLoop
    BY <1>10 DEF UnlinkBackup, Stop
  <2>2. pc' = "report" => Split'
    BY <1>1, <1>10, <2>1 DEF UnlinkBackup, Rest, kept, world
  <2> QED
    BY <1>0, <1>10, <2>2 DEF UnlinkBackup, Stop
<1>11. CASE WriteReport \/ TaskkillMissing \/ Kill
  BY <1>0, <1>11 DEF WriteReport, TaskkillMissing, Kill, Stop
<1>12. CASE Interrupt
  BY <1>0, <1>12 DEF Interrupt, Stop
<1>13. CASE UNCHANGED vars
  <2>1. InLoop \/ AfterLoop => Split'
    BY <1>1, <1>13 DEF vars, world, Rest
  <2> QED
    BY <1>0, <1>13, <2>1 DEF vars, world, Generable
<1> QED
  BY <1>2, <1>3, <1>4, <1>5, <1>6, <1>7, <1>8, <1>9, <1>10, <1>11, <1>12, <1>13 DEF Next, Step

(* A report has one record for each mutant the run had to try and could    *)
(* generate, in the order of the file, though mutants are skipped,         *)
(* ungenerable or sampled and the run may be started with --start-at.      *)
THEOREM ReportsAreComplete == Spec => ReportComplete
<1>1. ASSUME CInv, [Next]_vars, report' # report
      PROVE  \A r \in report' :
               /\ {r[i].index : i \in DOMAIN r} = {i \in Members(Remaining(skipped)) : Generable(i)}
               /\ \A i, j \in DOMAIN r : i < j => r[i].index < r[j].index
  <2>1. WriteReport
    BY <1>1 DEF Next, Step, vars, disk, Launch, FillBackup, NothingToMutate, BaselinePasses,
       BaselineFails, BaselineTaskkillMissing, SkipUngenerable, OpenForMutant, WriteMutant,
       TestMutant, TaskkillMissing, WriteOriginal, LoopEnds, OpenForRestore, Restore,
       UnlinkBackup, Interrupt, Kill
  <2>2. report' = {results} /\ AfterLoop /\ Split /\ Rest = <<>>
    BY <1>1, <2>1 DEF WriteReport, CInv, AfterLoop, Rest
  <2>3. Members(Rest) = {}
    BY <2>2 DEF Members
  <2> QED
    BY <2>2, <2>3 DEF Split, Tried
<1> QED
  BY <1>1, InitCInv, NextCInv, PTL DEF Spec, ReportComplete
=============================================================================
