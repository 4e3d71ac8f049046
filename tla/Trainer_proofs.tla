----------------------------- MODULE Trainer_proofs -----------------------------
(***************************************************************************)
(* Proofs about Trainer, for every window length, and every number of      *)
(* micro-batches, saves, crashes and failed writes; and about the layers   *)
(* it trains (the scan, flash attention), for every length and modulus.    *)
(***************************************************************************)
EXTENDS Trainer, Gradient, TLAPS, FiniteSetTheorems

Histories == Seq(UpdateSet)

Origins == {"exact", "mixed", "altered"}

States == {"whole", "torn", "stale"}

Counting == IF pc = "counting" THEN 1 ELSE 0

-----------------------------------------------------------------------------
(* The inductive invariant: types, the progress of a save, and what the    *)
(* files have to do with each other and with the state in memory.          *)

MemoryOK ==
    /\ w \in Histories /\ head \in Histories /\ moments \in Histories
    /\ rate \in Rates
    /\ step \in Nat /\ skipped \in 0..fed /\ step + Counting <= fed
    /\ accum \in Seq(1..fed)
    /\ snap \in Seq(Histories) /\ Len(snap) <= 1
    /\ pc \in {"fresh", "idle", "counting", "model", "opt", "json"}
    /\ fed \in 0..MaxFed /\ poison \subseteq 1..fed
    /\ origin \in Origins
    /\ crashes \in 0..MaxCrashes /\ failures \in 0..MaxFailures

DiskOK ==
    /\ gen \in 0..MaxSaves
    /\ fmodel \in [gen : 0..gen, state : States, origin : Origins, w : Histories]
    /\ fopt \in [gen : 0..gen, state : States, moments : Histories, rate : Rates]
    /\ fjson \in [gen : 0..gen, state : States, step : 0..fed, skipped : 0..fed]

\* A file the save under way has not come to is of an earlier save; one it has
\* written holds what is in memory.
SaveProgress ==
    /\ pc = "model" => fmodel.gen < gen
    /\ pc \in {"model", "opt"} => fopt.gen < gen
    /\ pc \in {"model", "opt", "json"} => fjson.gen < gen
    /\ pc \in {"opt", "json"} /\ fmodel.state = "whole" =>
         fmodel.w = w /\ fmodel.origin = origin
    /\ pc = "json" /\ fopt.state = "whole" => fopt.moments = moments

MemoryAligned ==
    origin = "exact" =>
      moments = w /\ head = w /\ step + Counting = Len(w) + skipped

\* The files of one complete save are of one history.
DiskAligned ==
    AllWhole /\ OneSave /\ fmodel.origin = "exact" =>
      fopt.moments = fmodel.w /\ fjson.step = Len(fmodel.w) + fjson.skipped

MemoryBehind ==
    origin # "altered" =>
      Len(moments) <= Len(w) /\ step + Counting <= Len(moments) + skipped

\* The files are never ahead of the memory they were or will be written from,
\* nor a whole one ahead of a whole one that is written before it.
FilesBehind ==
    origin # "altered" /\ pc # "fresh" =>
      /\ fopt.state # "torn" => Len(fopt.moments) <= Len(moments)
      /\ fjson.state # "torn" => fjson.step <= Len(moments) + fjson.skipped
      /\ fmodel.state = "whole" /\ fopt.state = "whole" =>
           Len(fopt.moments) <= Len(fmodel.w)
      /\ fopt.state = "whole" /\ fjson.state = "whole" =>
           fjson.step <= Len(fopt.moments) + fjson.skipped

DiskBehind ==
    AllWhole /\ fmodel.origin # "altered" =>
      Len(fopt.moments) <= Len(fmodel.w) /\ fjson.step <= Len(fopt.moments) + fjson.skipped

IInv == /\ MemoryOK /\ DiskOK /\ SaveProgress
        /\ MemoryAligned /\ DiskAligned
        /\ MemoryBehind /\ FilesBehind /\ DiskBehind
        /\ lossBad \in BOOLEAN

-----------------------------------------------------------------------------
(* What a write and a crash leave of a file: the contents given to it, a   *)
(* torn file, or the contents it had.                                      *)

LEMMA ModelWritten ==
  ASSUME DiskOK, MemoryOK, SaveModel
  PROVE  /\ fmodel' \in [gen : 0..gen, state : States, origin : Origins, w : Histories]
         /\ fmodel'.state = "whole" =>
              fmodel'.gen = gen /\ fmodel'.w = w /\ fmodel'.origin = origin
<1> DEFINE new == [gen |-> gen, state |-> "whole", origin |-> origin, w |-> w]
<1>1. new \in [gen : 0..gen, state : States, origin : Origins, w : Histories]
  BY TrainerAssumption DEF TrainerAssumption, DiskOK, MemoryOK, States
<1>2. \/ fmodel' = new
      \/ fmodel' = [new EXCEPT !.state = "torn"]
      \/ fmodel' = [fmodel EXCEPT !.state = "torn"]
      \/ fmodel' = [fmodel EXCEPT !.state = "stale"]
  BY DEF SaveModel, Write, Spoiled
<1>. QED
  BY <1>1, <1>2 DEF DiskOK, States

LEMMA OptWritten ==
  ASSUME DiskOK, MemoryOK, SaveOpt
  PROVE  /\ fopt' \in [gen : 0..gen, state : States, moments : Histories, rate : Rates]
         /\ fopt'.state = "whole" => fopt'.gen = gen /\ fopt'.moments = moments
         /\ fopt'.state # "torn" =>
              \/ fopt'.moments = moments
              \/ fopt.state # "torn" /\ fopt'.moments = fopt.moments
<1> DEFINE new == [gen |-> gen, state |-> "whole", moments |-> moments, rate |-> rate]
<1>1. new \in [gen : 0..gen, state : States, moments : Histories, rate : Rates]
  BY TrainerAssumption DEF TrainerAssumption, DiskOK, MemoryOK, States
<1>2. \/ fopt' = new
      \/ fopt' = [new EXCEPT !.state = "torn"]
      \/ fopt' = [fopt EXCEPT !.state = "torn"]
      \/ fopt' = [fopt EXCEPT !.state = "stale"] /\ fopt.state # "torn"
  BY DEF SaveOpt, Write, Spoiled
<1>. QED
  BY <1>1, <1>2 DEF DiskOK, States

LEMMA JsonWritten ==
  ASSUME DiskOK, MemoryOK, SaveJson
  PROVE  /\ fjson' \in [gen : 0..gen, state : States, step : 0..fed, skipped : 0..fed]
         /\ fjson'.state = "whole" =>
              fjson'.gen = gen /\ fjson'.step = step /\ fjson'.skipped = skipped
         /\ fjson'.state # "torn" =>
              \/ fjson'.step = step /\ fjson'.skipped = skipped
              \/ /\ fjson.state # "torn"
                 /\ fjson'.step = fjson.step /\ fjson'.skipped = fjson.skipped
<1> DEFINE new == [gen |-> gen, state |-> "whole", step |-> step, skipped |-> skipped]
<1>1. new \in [gen : 0..gen, state : States, step : 0..fed, skipped : 0..fed]
  BY TrainerAssumption DEF TrainerAssumption, DiskOK, MemoryOK, States, Counting
<1>2. \/ fjson' = new
      \/ fjson' = [new EXCEPT !.state = "torn"]
      \/ fjson' = [fjson EXCEPT !.state = "torn"]
      \/ fjson' = [fjson EXCEPT !.state = "stale"] /\ fjson.state # "torn"
  BY DEF SaveJson, Write, Spoiled
<1>. QED
  BY <1>1, <1>2 DEF DiskOK, States

LEMMA FilesLeft ==
  ASSUME DiskOK, Crash
  PROVE  /\ DiskOK'
         /\ fmodel' = fmodel \/ fmodel'.state = "torn"
         /\ fopt' = fopt \/ fopt'.state = "torn"
         /\ fjson' = fjson \/ fjson'.state = "torn"
<1>1. /\ fmodel' = fmodel \/ fmodel' = [fmodel EXCEPT !.state = "torn"]
      /\ fopt' = fopt \/ fopt' = [fopt EXCEPT !.state = "torn"]
      /\ fjson' = fjson \/ fjson' = [fjson EXCEPT !.state = "torn"]
      /\ gen' = gen /\ fed' = fed
  BY DEF Crash, Left, data
<1>2. /\ fmodel' \in [gen : 0..gen, state : States, origin : Origins, w : Histories]
      /\ fmodel' = fmodel \/ fmodel'.state = "torn"
  BY <1>1 DEF DiskOK, States
<1>3. /\ fopt' \in [gen : 0..gen, state : States, moments : Histories, rate : Rates]
      /\ fopt' = fopt \/ fopt'.state = "torn"
  BY <1>1 DEF DiskOK, States
<1>4. /\ fjson' \in [gen : 0..gen, state : States, step : 0..fed, skipped : 0..fed]
      /\ fjson' = fjson \/ fjson'.state = "torn"
  BY <1>1 DEF DiskOK, States
<1>. QED
  BY <1>1, <1>2, <1>3, <1>4 DEF DiskOK

-----------------------------------------------------------------------------
(* A micro-batch: an update of the weights and the moments alike, or a     *)
(* skipped one, or neither while a window is open.                         *)

LEMMA Fed ==
  ASSUME MemoryOK, NEW b \in 1..MaxFed, NEW bad \in BOOLEAN, Feed(b, bad)
  PROVE  /\ fed' = fed + 1 /\ b = fed' /\ fed' \in 0..MaxFed
         /\ poison' \subseteq 1..fed'
         /\ fed < MaxFed
BY TrainerAssumption DEF TrainerAssumption, MemoryOK, Feed

Updated ==
    \E u \in UpdateSet :
      /\ w' = Append(w, u) /\ moments' = Append(moments, u) /\ head' = w'
      /\ skipped' = skipped /\ rate' \in Rates
      /\ pc' = "counting"

Skipped ==
    /\ UNCHANGED <<w, moments, head, rate>> /\ skipped' = skipped + 1
    /\ pc' = "counting"

Summed == UNCHANGED <<w, moments, head, rate, skipped, pc>>

LEMMA Applied ==
  ASSUME step \in 0..MaxFed, NEW s \in Seq(1..MaxFed), Update(s), pc' = "counting"
  PROVE  Updated
<1> DEFINE u == [mb |-> s, at |-> step]
<1>1. u \in UpdateSet
  BY DEF UpdateSet
<1>2. rate' \in Rates
  BY DEF Update, Rates
<1>. QED
  BY <1>1, <1>2 DEF Update, Updated

LEMMA Batch ==
  ASSUME MemoryOK, TrainStep \/ MicroStep
  PROVE  /\ pc = "idle"
         /\ Updated \/ Skipped \/ Summed
         /\ fed' = fed + 1 /\ fed' \in 0..MaxFed /\ poison' \subseteq 1..fed'
         /\ accum' \in Seq(1..fed')
         /\ UNCHANGED <<step, snap, disk, origin, mishaps>>
<1>1. 0 \in Nat /\ step \in 0..MaxFed /\ accum \in Seq(1..MaxFed)
  BY TrainerAssumption DEF TrainerAssumption, MemoryOK, Counting
<1>2. CASE TrainStep
  <2>1. PICK b \in 1..MaxFed, bad \in BOOLEAN :
          Feed(b, bad) /\ IF bad THEN Skip ELSE Update(<<b>>)
    BY <1>2 DEF TrainStep
  <2>2. <<b>> \in Seq(1..MaxFed)
    OBVIOUS
  <2>3. (Update(<<b>>) /\ pc' = "counting") => Updated
    BY <1>1, <2>2, Applied
  <2>4. (Skip /\ pc' = "counting") => Skipped
    BY DEF Skip, Skipped, model, adam
  <2>5. accum' \in Seq(1..fed')
    BY <1>2, <2>1, Fed DEF TrainStep, buffers, MemoryOK
  <2>6. Updated \/ Skipped
    BY <1>2, <2>1, <2>3, <2>4 DEF TrainStep
  <2>. QED
    BY <1>2, <2>1, <2>5, <2>6, Fed DEF TrainStep, buffers
<1>3. CASE MicroStep
  <2> DEFINE sum(b) == Append(accum, b)
             ready(b) == Len(sum(b)) >= K
             finite(b) == \A i \in 1..Len(sum(b)) : sum(b)[i] \notin poison'
  <2>1. PICK b \in 1..MaxFed, bad \in BOOLEAN :
          /\ Feed(b, bad)
          /\ accum' = IF ready(b) THEN <<>> ELSE sum(b)
          /\ IF ~ready(b) THEN UNCHANGED <<model, adam, skipped>>
             ELSE IF finite(b) THEN Update(sum(b)) ELSE Skip
          /\ pc' = IF ready(b) THEN "counting" ELSE "idle"
    BY <1>3 DEF MicroStep
  <2>2. sum(b) \in Seq(1..MaxFed) /\ sum(b) \in Seq(1..fed')
    BY <1>1, <2>1, Fed DEF MemoryOK
  <2> HIDE DEF sum, ready, finite
  <2>3. (Update(sum(b)) /\ pc' = "counting") => Updated
    BY <1>1, <2>2, Applied
  <2>4. (Skip /\ pc' = "counting") => Skipped
    BY DEF Skip, Skipped, model, adam
  <2>5. accum' \in Seq(1..fed')
    <3>1. CASE ready(b)
      BY <2>1, <3>1
    <3>2. CASE ~ready(b)
      BY <2>1, <2>2, <3>2
    <3>. QED
      BY <3>1, <3>2
  <2>6. (pc = "idle" /\ ~ready(b)) => Summed
    BY <2>1 DEF Summed, model, adam
  <2>7. Updated \/ Skipped \/ Summed
    BY <1>3, <2>1, <2>3, <2>4, <2>6 DEF MicroStep
  <2>. QED
    BY <1>3, <2>1, <2>5, <2>7, Fed DEF MicroStep
<1>. QED
  BY <1>2, <1>3

-----------------------------------------------------------------------------
(* Types                                                                   *)

LEMMA TypesInit == Init => MemoryOK /\ DiskOK
BY TrainerAssumption DEF TrainerAssumption, Init, MemoryOK, DiskOK, NoRate, Rates,
   BlankModel, BlankOpt, BlankJson, States, Origins, Histories, Counting

LEMMA LoadedTypes ==
  ASSUME MemoryOK, DiskOK, Load
  PROVE  /\ w' \in Histories /\ moments' \in Histories /\ rate' \in Rates
         /\ step' \in 0..fed /\ skipped' \in 0..fed /\ origin' \in Origins
<1>1. <<>> \in Histories /\ Corrupt \in Histories
  BY TrainerAssumption DEF TrainerAssumption, Corrupt, Histories, UpdateSet
<1>2. w' \in Histories
  BY <1>1 DEF DiskOK, Load, Loaded
<1>3. moments' \in Histories
  BY <1>1 DEF DiskOK, Load, Loaded
<1>4. rate' \in Rates
  BY TrainerAssumption DEF TrainerAssumption, DiskOK, Load, NoRate, Rates
<1>5. step' \in 0..fed /\ skipped' \in 0..fed
  BY TrainerAssumption DEF TrainerAssumption, MemoryOK, DiskOK, Load, Number
<1>6. origin' \in Origins
  BY DEF DiskOK, Load, OriginOfFiles, Origins
<1>. QED
  BY <1>2, <1>3, <1>4, <1>5, <1>6

LEMMA TypesNext == MemoryOK /\ DiskOK /\ [Next]_vars => MemoryOK' /\ DiskOK'
<1> SUFFICES ASSUME MemoryOK, DiskOK, [Next]_vars PROVE MemoryOK' /\ DiskOK'
  OBVIOUS
<1>1. CASE TrainStep \/ MicroStep
  <2>1. w' \in Histories /\ moments' \in Histories /\ head' \in Histories
    <3>1. ASSUME NEW h \in Histories, NEW u \in UpdateSet PROVE Append(h, u) \in Histories
      BY DEF Histories
    <3>. QED
      BY <1>1, <3>1, Batch DEF MemoryOK, Updated, Skipped, Summed
  <2>2. rate' \in Rates /\ skipped' \in 0..fed' /\ step' \in Nat /\ step' + Counting' <= fed'
    <3>1. rate' \in Rates /\ skipped' \in {skipped, skipped + 1}
      BY <1>1, Batch DEF MemoryOK, Updated, Skipped, Summed
    <3>2. fed' = fed + 1 /\ step' = step /\ fed \in Nat /\ skipped \in 0..fed
      BY <1>1, Batch DEF MemoryOK
    <3>3. step \in Nat /\ step <= fed /\ Counting' \in {0, 1}
      BY <1>1, Batch DEF MemoryOK, Counting
    <3>4. skipped' \in 0..fed'
      BY <3>1, <3>2
    <3>5. step' \in Nat /\ step' + Counting' <= fed'
      <4>1. CASE pc' = "counting"
        BY <3>2, <3>3, <4>1 DEF Counting
      <4>2. CASE pc' # "counting"
        BY <3>2, <3>3, <4>2 DEF Counting
      <4>. QED
        BY <4>1, <4>2
    <3>. QED
      BY <3>1, <3>4, <3>5
  <2>3. MemoryOK'
    BY <1>1, <2>1, <2>2, Batch DEF MemoryOK, Updated, Skipped, Summed, mishaps
  <2>4. DiskOK'
    <3>1. UNCHANGED <<gen, fmodel, fopt, fjson>> /\ fed' = fed + 1 /\ fed \in Nat
      BY <1>1, Batch DEF MemoryOK, disk, files
    <3>2. 0..fed \subseteq 0..fed'
      BY <3>1
    <3>3. [gen : 0..gen, state : States, step : 0..fed, skipped : 0..fed] \subseteq
            [gen : 0..gen, state : States, step : 0..fed', skipped : 0..fed']
      BY <3>2
    <3>. QED
      BY <3>1, <3>3 DEF DiskOK
  <2>. QED
    BY <2>3, <2>4
<1>2. CASE Count
  BY <1>2 DEF Count, MemoryOK, DiskOK, Counting, model, adam, buffers, data, disk, files,
     mishaps
<1>3. CASE Snapshot
  <2>1. snap' \in Seq(Histories) /\ Len(snap') <= 1
    BY <1>3 DEF Snapshot, MemoryOK
  <2>. QED
    BY <1>3, <2>1 DEF Snapshot, MemoryOK, DiskOK, Counting, model, adam, counters, data,
       disk, files, mishaps
<1>4. CASE Rollback
  <2>1. snap[1] \in Histories
    BY <1>4 DEF Rollback, MemoryOK
  <2>2. rate' \in Rates
    BY <1>4 DEF Rollback, MemoryOK, Rates
  <2>. QED
    BY <1>4, <2>1, <2>2 DEF Rollback, MemoryOK, DiskOK, Counting, Origins, counters,
       buffers, data, disk, files, mishaps
<1>5. CASE StartSave
  <2>1. gen' \in 0..MaxSaves /\ gen' = gen + 1
    BY <1>5, TrainerAssumption DEF TrainerAssumption, StartSave, DiskOK
  <2>2. DiskOK'
    BY <1>5, <2>1 DEF StartSave, DiskOK, files, data
  <2>. QED
    BY <1>5, <2>2 DEF StartSave, MemoryOK, Counting, model, adam, counters, buffers, data,
       mishaps
<1>6. CASE SaveModel
  <2>1. failures' \in 0..MaxFailures
    BY <1>6, TrainerAssumption DEF TrainerAssumption, SaveModel, Write, MemoryOK
  <2>2. DiskOK'
    BY <1>6, ModelWritten DEF SaveModel, DiskOK, data
  <2>. QED
    BY <1>6, <2>1, <2>2 DEF SaveModel, MemoryOK, Counting, model, adam, counters, buffers,
       data
<1>7. CASE SaveOpt
  <2>1. failures' \in 0..MaxFailures
    BY <1>7, TrainerAssumption DEF TrainerAssumption, SaveOpt, Write, MemoryOK
  <2>2. DiskOK'
    BY <1>7, OptWritten DEF SaveOpt, DiskOK, data
  <2>. QED
    BY <1>7, <2>1, <2>2 DEF SaveOpt, MemoryOK, Counting, model, adam, counters, buffers,
       data
<1>8. CASE SaveJson
  <2>1. failures' \in 0..MaxFailures
    BY <1>8, TrainerAssumption DEF TrainerAssumption, SaveJson, Write, MemoryOK
  <2>2. DiskOK'
    BY <1>8, JsonWritten DEF SaveJson, DiskOK, data
  <2>. QED
    BY <1>8, <2>1, <2>2 DEF SaveJson, MemoryOK, Counting, model, adam, counters, buffers,
       data
<1>9. CASE Crash
  <2>1. crashes' \in 0..MaxCrashes
    BY <1>9, TrainerAssumption DEF TrainerAssumption, Crash, MemoryOK
  <2>2. DiskOK'
    BY <1>9, FilesLeft
  <2>3. rate' \in Rates
    BY <1>9, TrainerAssumption DEF TrainerAssumption, Crash, NewProcess, NoRate, Rates
  <2>. QED
    BY <1>9, <2>1, <2>2, <2>3 DEF Crash, NewProcess, MemoryOK, Counting, Histories, Origins,
       data
<1>10. CASE Load
  <2>1. step' + Counting' <= fed'
    BY <1>10, LoadedTypes DEF MemoryOK, Load, Counting, data
  <2>2. DiskOK'
    BY <1>10 DEF Load, DiskOK, disk, files, data
  <2>. QED
    BY <1>10, <2>1, <2>2, LoadedTypes DEF MemoryOK, Load, buffers, data, mishaps
<1>11. CASE UNCHANGED vars
  BY <1>11 DEF MemoryOK, DiskOK, Counting, vars, model, adam, counters, buffers, data, disk,
     files, mishaps
<1>. QED
  BY <1>1, <1>2, <1>3, <1>4, <1>5, <1>6, <1>7, <1>8, <1>9, <1>10, <1>11 DEF Next

-----------------------------------------------------------------------------
(* Actions that leave the files alone, and those that write one.           *)

Elsewhere == TrainStep \/ MicroStep \/ Count \/ Snapshot \/ Rollback \/ Load \/ UNCHANGED vars

LEMMA ElsewhereDisk == Elsewhere => UNCHANGED <<gen, fmodel, fopt, fjson>>
BY DEF Elsewhere, TrainStep, MicroStep, Count, Snapshot, Rollback, Load, vars, disk, files

Saving == SaveModel \/ SaveOpt \/ SaveJson

LEMMA SavingMemory ==
  ASSUME StartSave \/ Saving
  PROVE  /\ UNCHANGED <<w, head, moments, rate, step, skipped, origin>>
         /\ pc # "counting" /\ pc' # "counting" /\ pc # "fresh" /\ pc' # "fresh"
BY DEF Saving, StartSave, SaveModel, SaveOpt, SaveJson, model, adam, counters

LEMMA StepCases == [Next]_vars => Elsewhere \/ StartSave \/ Saving \/ Crash
BY Zenon DEF Next, Elsewhere, Saving

-----------------------------------------------------------------------------
(* The progress of a save.                                                 *)

LEMMA SaveProgressNext ==
  ASSUME MemoryOK, DiskOK, SaveProgress, [Next]_vars
  PROVE  SaveProgress'
<1>1. CASE Elsewhere
  <2>1. CASE UNCHANGED vars
    BY <2>1 DEF SaveProgress, vars, disk, files, model, adam
  <2>2. CASE ~UNCHANGED vars
    <3>1. pc' \notin {"model", "opt", "json"}
      BY <1>1, <2>2, Batch DEF Elsewhere, Updated, Skipped, Summed, Count, Snapshot,
         Rollback, Load
    <3>. QED
      BY <3>1 DEF SaveProgress
  <2>. QED
    BY <2>1, <2>2
<1>2. CASE StartSave
  <2>1. gen' = gen + 1 /\ pc' = "model" /\ UNCHANGED files
    BY <1>2 DEF StartSave
  <2>. QED
    BY <2>1 DEF DiskOK, SaveProgress, files
<1>3. CASE SaveModel
  BY <1>3, ModelWritten DEF SaveModel, SaveProgress, model
<1>4. CASE SaveOpt
  BY <1>4, OptWritten DEF SaveOpt, SaveProgress, model, adam
<1>5. CASE SaveJson
  BY <1>5 DEF SaveJson, SaveProgress
<1>6. CASE Crash
  BY <1>6 DEF Crash, SaveProgress
<1>. QED
  BY <1>1, <1>2, <1>3, <1>4, <1>5, <1>6, StepCases DEF Saving

-----------------------------------------------------------------------------
(* Weights, head, moments and counter are of one history.                  *)

LEMMA MemoryAlignedNext ==
  ASSUME MemoryOK, DiskOK, MemoryAligned, DiskAligned, [Next]_vars
  PROVE  MemoryAligned'
<1>1. CASE TrainStep \/ MicroStep
  <2>1. CASE Updated
    <3>1. PICK u \in UpdateSet : /\ w' = Append(w, u) /\ moments' = Append(moments, u)
                                 /\ head' = w' /\ skipped' = skipped /\ pc' = "counting"
      BY <2>1 DEF Updated
    <3>2. Len(w') = Len(w) + 1 /\ Len(w) \in Nat
      BY <3>1 DEF MemoryOK, Histories
    <3>3. pc = "idle" /\ step' = step /\ origin' = origin /\ step \in Nat /\ skipped \in Nat
      BY <1>1, Batch DEF MemoryOK
    <3>4. ASSUME origin = "exact"
          PROVE  moments = w /\ head = w /\ step = Len(w) + skipped
      BY <3>3, <3>4 DEF MemoryAligned, Counting
    <3>5. ASSUME origin = "exact"
          PROVE  moments' = w' /\ head' = w' /\ step' + 1 = Len(w') + skipped'
      BY <3>1, <3>2, <3>3, <3>4, <3>5
    <3>. QED
      BY <3>1, <3>3, <3>5 DEF MemoryAligned, Counting
  <2>2. CASE Skipped
    BY <1>1, <2>2, Batch DEF MemoryOK, MemoryAligned, Skipped, Counting, Histories
  <2>3. CASE Summed
    BY <1>1, <2>3, Batch DEF MemoryAligned, Summed, Counting
  <2>. QED
    BY <1>1, <2>1, <2>2, <2>3, Batch
<1>2. CASE Count
  BY <1>2 DEF Count, MemoryOK, MemoryAligned, Counting, model, adam
<1>3. CASE Snapshot
  BY <1>3 DEF Snapshot, MemoryAligned, Counting, model, adam, counters
<1>4. CASE Rollback
  BY <1>4 DEF Rollback, MemoryAligned
<1>5. CASE StartSave \/ Saving
  BY <1>5, SavingMemory DEF MemoryAligned, Counting
<1>6. CASE Crash
  BY <1>6 DEF Crash, NewProcess, MemoryAligned, Counting
<1>7. CASE Load /\ origin' = "exact"
  <2>1. AllWhole /\ OneSave /\ fmodel.origin = "exact"
    BY <1>7 DEF Load, OriginOfFiles
  <2>2. /\ w' = fmodel.w /\ head' = w' /\ moments' = fopt.moments
        /\ step' = fjson.step /\ skipped' = fjson.skipped /\ pc' = "idle"
    BY <1>7, <2>1 DEF Load, AllWhole, Loaded, Number
  <2>. QED
    BY <2>1, <2>2 DEF DiskOK, DiskAligned, MemoryAligned, Counting, Histories
<1>8. CASE origin' # "exact"
  BY <1>8 DEF MemoryAligned
<1>9. CASE UNCHANGED vars
  BY <1>9 DEF MemoryAligned, Counting, vars, model, adam, counters
<1>. QED
  BY <1>1, <1>2, <1>3, <1>4, <1>5, <1>6, <1>7, <1>8, <1>9, StepCases DEF Elsewhere

LEMMA DiskAlignedNext ==
  ASSUME MemoryOK, DiskOK, SaveProgress, MemoryAligned, DiskAligned, [Next]_vars
  PROVE  DiskAligned'
<1>1. CASE Elsewhere
  BY <1>1, ElsewhereDisk DEF DiskAligned, AllWhole, OneSave
<1>2. CASE StartSave
  BY <1>2 DEF StartSave, DiskAligned, AllWhole, OneSave, files
<1>3. CASE SaveModel
  <2>1. (fmodel'.state = "whole") => fjson'.gen < fmodel'.gen
    BY <1>3, ModelWritten DEF SaveModel, SaveProgress
  <2>. QED
    BY <1>3, <2>1, ModelWritten DEF DiskOK, SaveModel, DiskAligned, AllWhole, OneSave
<1>4. CASE SaveOpt
  <2>1. (fopt'.state = "whole") => fjson'.gen < fopt'.gen
    BY <1>4, OptWritten DEF SaveOpt, SaveProgress
  <2>. QED
    BY <1>4, <2>1, OptWritten DEF DiskOK, SaveOpt, DiskAligned, AllWhole, OneSave
<1>5. CASE SaveJson
  <2>1. pc = "json" /\ fmodel' = fmodel /\ fopt' = fopt
    BY <1>5 DEF SaveJson
  <2>2. (AllWhole' /\ fmodel'.origin = "exact") =>
          /\ fmodel'.w = w /\ fopt'.moments = moments /\ origin = "exact"
          /\ fjson'.step = step /\ fjson'.skipped = skipped
    BY <1>5, <2>1, JsonWritten DEF AllWhole, SaveProgress
  <2>. QED
    BY <2>1, <2>2 DEF MemoryOK, MemoryAligned, DiskAligned, Counting
<1>6. CASE Crash
  <2>1. AllWhole' => UNCHANGED <<fmodel, fopt, fjson>>
    BY <1>6, FilesLeft DEF AllWhole
  <2>. QED
    BY <2>1 DEF DiskAligned, AllWhole, OneSave
<1>. QED
  BY <1>1, <1>2, <1>3, <1>4, <1>5, <1>6, StepCases DEF Saving

-----------------------------------------------------------------------------
(* Counters behind moments behind weights, in memory and across the files. *)

LEMMA Lengths ==
  ASSUME MemoryOK, DiskOK
  PROVE  /\ Len(w) \in Nat /\ Len(moments) \in Nat
         /\ Len(fmodel.w) \in Nat /\ Len(fopt.moments) \in Nat
         /\ step \in Nat /\ skipped \in Nat /\ Counting \in {0, 1}
         /\ fjson.step \in Nat /\ fjson.skipped \in Nat
<1>1. Len(w) \in Nat /\ Len(moments) \in Nat
  BY DEF MemoryOK, Histories
<1>2. fmodel.w \in Histories /\ fopt.moments \in Histories
  BY DEF DiskOK
<1>3. Len(fmodel.w) \in Nat /\ Len(fopt.moments) \in Nat
  BY <1>2 DEF Histories
<1>. QED
  BY <1>1, <1>3 DEF MemoryOK, DiskOK, Counting

\* What the files of a loaded state have to do with each other.
LEMMA LoadedBehind ==
  ASSUME MemoryOK, DiskOK, DiskBehind, Load, origin' # "altered"
  PROVE  /\ AllWhole /\ UNCHANGED <<fmodel, fopt, fjson>>
         /\ w' = fmodel.w /\ moments' = fopt.moments
         /\ step' = fjson.step /\ skipped' = fjson.skipped /\ pc' = "idle"
         /\ Len(fopt.moments) <= Len(fmodel.w)
         /\ fjson.step <= Len(fopt.moments) + fjson.skipped
<1>1. AllWhole /\ fmodel.origin # "altered"
  BY DEF Load, OriginOfFiles
<1>. QED
  BY <1>1 DEF Load, AllWhole, Loaded, Number, DiskBehind, disk, files

LEMMA MemoryBehindNext ==
  ASSUME MemoryOK, DiskOK, MemoryBehind, DiskBehind, [Next]_vars
  PROVE  MemoryBehind'
<1>1. CASE TrainStep \/ MicroStep
  <2>1. CASE Updated
    <3>1. PICK u \in UpdateSet : /\ w' = Append(w, u) /\ moments' = Append(moments, u)
                                 /\ skipped' = skipped /\ pc' = "counting"
      BY <2>1 DEF Updated
    <3>2. /\ Len(w') = Len(w) + 1 /\ Len(w) \in Nat
          /\ Len(moments') = Len(moments) + 1 /\ Len(moments) \in Nat
      BY <3>1 DEF MemoryOK, Histories
    <3>3. pc = "idle" /\ step' = step /\ origin' = origin /\ step \in Nat /\ skipped \in Nat
      BY <1>1, Batch DEF MemoryOK
    <3>4. ASSUME origin # "altered"
          PROVE  Len(moments) <= Len(w) /\ step <= Len(moments) + skipped
      BY <3>3, <3>4 DEF MemoryBehind, Counting
    <3>5. ASSUME origin # "altered"
          PROVE  Len(moments') <= Len(w') /\ step' + 1 <= Len(moments') + skipped'
      BY <3>1, <3>2, <3>3, <3>4, <3>5
    <3>. QED
      BY <3>1, <3>3, <3>5 DEF MemoryBehind, Counting
  <2>2. CASE Skipped
    BY <1>1, <2>2, Batch, Lengths DEF MemoryBehind, Skipped, Counting
  <2>3. CASE Summed
    BY <1>1, <2>3, Batch DEF MemoryBehind, Summed, Counting
  <2>. QED
    BY <1>1, <2>1, <2>2, <2>3, Batch
<1>2. CASE Count
  BY <1>2, Lengths DEF Count, MemoryBehind, Counting, model, adam
<1>3. CASE Snapshot
  BY <1>3 DEF Snapshot, MemoryBehind, Counting, model, adam, counters
<1>4. CASE Rollback
  BY <1>4 DEF Rollback, MemoryBehind
<1>5. CASE StartSave \/ Saving
  BY <1>5, SavingMemory DEF MemoryBehind, Counting
<1>6. CASE Crash
  BY <1>6 DEF Crash, NewProcess, MemoryBehind, Counting
<1>7. CASE Load /\ origin' # "altered"
  BY <1>7, LoadedBehind, Lengths DEF MemoryBehind, Counting
<1>8. CASE origin' = "altered"
  BY <1>8 DEF MemoryBehind
<1>9. CASE UNCHANGED vars
  BY <1>9 DEF MemoryBehind, Counting, vars, model, adam, counters
<1>. QED
  BY <1>1, <1>2, <1>3, <1>4, <1>5, <1>6, <1>7, <1>8, <1>9, StepCases DEF Elsewhere

LEMMA FilesBehindNext ==
  ASSUME MemoryOK, DiskOK, SaveProgress, MemoryBehind, FilesBehind, DiskBehind, [Next]_vars
  PROVE  FilesBehind'
<1>1. CASE TrainStep \/ MicroStep
  <2>1. UNCHANGED <<fmodel, fopt, fjson, origin>> /\ pc # "fresh"
    BY <1>1, ElsewhereDisk, Batch DEF Elsewhere
  <2>2. Len(moments') \in {Len(moments), Len(moments) + 1}
    <3>1. ASSUME NEW u \in UpdateSet PROVE Len(Append(moments, u)) = Len(moments) + 1
      BY DEF MemoryOK, Histories
    <3>. QED
      BY <1>1, <3>1, Batch, Lengths DEF Updated, Skipped, Summed
  <2>. QED
    BY <2>1, <2>2, Lengths DEF FilesBehind
<1>2. CASE Count \/ Snapshot
  <2>1. UNCHANGED <<moments, origin, fmodel, fopt, fjson>> /\ pc # "fresh"
    BY <1>2, ElsewhereDisk DEF Elsewhere, Count, Snapshot, adam
  <2>. QED
    BY <2>1 DEF FilesBehind
<1>3. CASE Rollback
  BY <1>3 DEF Rollback, FilesBehind
<1>4. CASE StartSave
  BY <1>4, SavingMemory DEF StartSave, FilesBehind, files
<1>5. CASE SaveModel
  <2>1. UNCHANGED <<moments, origin, fopt, fjson>> /\ pc # "fresh"
    BY <1>5, SavingMemory DEF Saving, SaveModel
  <2>2. fmodel'.state = "whole" => fmodel'.w = w
    BY <1>5, ModelWritten
  <2>. QED
    BY <2>1, <2>2, Lengths DEF FilesBehind, MemoryBehind, States, DiskOK
<1>6. CASE SaveOpt
  <2>1. /\ UNCHANGED <<moments, origin, fmodel, fjson>> /\ pc = "opt"
    BY <1>6, SavingMemory DEF Saving, SaveOpt
  <2>2. fopt'.state = "whole" => fopt'.moments = moments
    BY <1>6, OptWritten
  <2>3. fopt'.state # "torn" =>
          \/ fopt'.moments = moments
          \/ fopt.state # "torn" /\ fopt'.moments = fopt.moments
    BY <1>6, OptWritten
  <2>. QED
    BY <2>1, <2>2, <2>3, Lengths DEF SaveProgress, FilesBehind, MemoryBehind
<1>7. CASE SaveJson
  <2>1. /\ UNCHANGED <<moments, origin, fmodel, fopt>> /\ pc = "json"
    BY <1>7, SavingMemory DEF Saving, SaveJson
  <2>2. fjson'.state = "whole" => fjson'.step = step /\ fjson'.skipped = skipped
    BY <1>7, JsonWritten
  <2>3. fjson'.state # "torn" =>
          \/ fjson'.step = step /\ fjson'.skipped = skipped
          \/ /\ fjson.state # "torn"
             /\ fjson'.step = fjson.step /\ fjson'.skipped = fjson.skipped
    BY <1>7, JsonWritten
  <2>4. Counting = 0
    BY <2>1 DEF Counting
  <2>. QED
    BY <2>1, <2>2, <2>3, <2>4, Lengths DEF SaveProgress, FilesBehind, MemoryBehind
<1>8. CASE Crash
  BY <1>8 DEF Crash, FilesBehind
<1>9. CASE Load /\ origin' # "altered"
  BY <1>9, LoadedBehind, Lengths DEF FilesBehind
<1>10. CASE origin' = "altered"
  BY <1>10 DEF FilesBehind
<1>11. CASE UNCHANGED vars
  BY <1>11 DEF FilesBehind, vars, adam, disk, files
<1>. QED
  BY <1>1, <1>2, <1>3, <1>4, <1>5, <1>6, <1>7, <1>8, <1>9, <1>10, <1>11, StepCases
     DEF Elsewhere, Saving

LEMMA DiskBehindNext ==
  ASSUME MemoryOK, DiskOK, SaveProgress, MemoryBehind, FilesBehind, DiskBehind, [Next]_vars
  PROVE  DiskBehind'
<1>1. CASE Elsewhere
  BY <1>1, ElsewhereDisk DEF DiskBehind, AllWhole
<1>2. CASE StartSave
  BY <1>2 DEF StartSave, DiskBehind, AllWhole, files
<1>3. CASE Saving
  <2>1. FilesBehind' /\ origin' = origin /\ pc' # "fresh"
    BY <1>3, FilesBehindNext, SavingMemory
  <2>2. AllWhole' => fmodel'.origin = origin
    BY <1>3, ModelWritten DEF Saving, SaveModel, SaveOpt, SaveJson, AllWhole, SaveProgress
  <2>. QED
    BY <2>1, <2>2 DEF FilesBehind, DiskBehind, AllWhole
<1>4. CASE Crash
  <2>1. AllWhole' => UNCHANGED <<fmodel, fopt, fjson>>
    BY <1>4, FilesLeft DEF AllWhole
  <2>. QED
    BY <2>1 DEF DiskBehind, AllWhole
<1>. QED
  BY <1>1, <1>2, <1>3, <1>4, StepCases

-----------------------------------------------------------------------------
LEMMA LossNext == lossBad \in BOOLEAN /\ [Next]_vars => lossBad' \in BOOLEAN
BY Zenon DEF Next, TrainStep, MicroStep, Feed, Count, Snapshot, Rollback, StartSave,
   SaveModel, SaveOpt, SaveJson, Crash, NewProcess, Load, vars

LEMMA IInvInit == Init => IInv
<1> SUFFICES ASSUME Init PROVE IInv
  OBVIOUS
<1>1. lossBad \in BOOLEAN
  BY Zenon DEF Init
<1>. QED
  BY <1>1, TypesInit DEF Init, IInv, SaveProgress, MemoryAligned, DiskAligned, MemoryBehind,
     FilesBehind, DiskBehind, BlankModel, BlankOpt, BlankJson, Counting, AllWhole, OneSave

LEMMA IInvNext == IInv /\ [Next]_vars => IInv'
BY TypesNext, SaveProgressNext, MemoryAlignedNext, DiskAlignedNext, MemoryBehindNext,
   FilesBehindNext, DiskBehindNext, LossNext DEF IInv

LEMMA Inductive == Spec => []IInv
BY IInvInit, IInvNext, PTL DEF Spec

(***************************************************************************)
(* Type correctness, for every window length, and every number of micro-   *)
(* batches, saves, crashes and failures.                                   *)
(***************************************************************************)
THEOREM TypeCorrect == Spec => []TypeOK
<1>1. IInv => TypeOK
  <2> SUFFICES ASSUME IInv PROVE TypeOK
    OBVIOUS
  <2>1. lossBad \in BOOLEAN
    BY Zenon DEF IInv
  <2>2. step \in 0..fed
    BY DEF IInv, MemoryOK, Counting
  <2>3. fmodel.gen <= gen /\ fopt.gen <= gen /\ fjson.gen <= gen
    BY DEF IInv, DiskOK
  <2>. QED
    BY <2>1, <2>2, <2>3 DEF IInv, MemoryOK, DiskOK, TypeOK, Histories, Origins
<1>. QED
  BY <1>1, Inductive, PTL

(***************************************************************************)
(* A state that was saved completely is continued as if nothing had been   *)
(* interrupted: weights, tied head, moments and counters agree, whatever   *)
(* was skipped, saved, lost and loaded before.                             *)
(***************************************************************************)
THEOREM ResumeExact == Spec => []Aligned
<1>1. IInv => Aligned
  BY DEF IInv, MemoryAligned, MemoryOK, Aligned, Counting
<1>. QED
  BY <1>1, Inductive, PTL

(***************************************************************************)
(* A save that is interrupted between two of its files leaves a state that *)
(* repeats updates, and never one that leaves some out.                    *)
(***************************************************************************)
THEOREM ResumeBehind == Spec => []NeverAhead
<1>1. IInv => NeverAhead
  BY DEF IInv, MemoryBehind, MemoryOK, NeverAhead, Counting
<1>. QED
  BY <1>1, Inductive, PTL

-----------------------------------------------------------------------------
(* Skipped steps.  What a skip is charged to is a poisoned micro-batch     *)
(* that is not, or no longer, in the open window.                          *)

Spent == {b \in poison : \A a \in 1..Len(accum) : accum[a] # b}

SkipsPaid ==
    /\ skipped <= Cardinality(Spent)
    /\ fjson.state # "torn" => fjson.skipped <= Cardinality(Spent)

LEMMA SpentFinite ==
  ASSUME MemoryOK
  PROVE  IsFiniteSet(Spent) /\ Cardinality(Spent) \in Nat
<1>1. IsFiniteSet(1..fed)
  BY FS_Interval DEF MemoryOK
<1>2. Spent \in SUBSET (1..fed)
  BY DEF MemoryOK, Spent
<1>3. IsFiniteSet(Spent)
  BY <1>1, <1>2, FS_Subset
<1>. QED
  BY <1>3, FS_CardinalityType

\* A skip takes a poisoned micro-batch out of the window, or it is the new one.
LEMMA BatchSpends ==
  ASSUME MemoryOK, TrainStep \/ MicroStep
  PROVE  /\ Spent \subseteq Spent'
         /\ \/ skipped' = skipped
            \/ skipped' = skipped + 1 /\ \E b \in Spent' : b \notin Spent
<1>0. accum \in Seq(1..fed) /\ fed \in Nat /\ poison \subseteq 1..fed
  BY DEF MemoryOK
<1>1. CASE TrainStep
  <2>1. PICK b \in 1..MaxFed, bad \in BOOLEAN :
          Feed(b, bad) /\ IF bad THEN Skip ELSE Update(<<b>>)
    BY <1>1 DEF TrainStep
  <2>2. accum' = accum /\ b \notin 1..fed /\ poison' = IF bad THEN poison \cup {b} ELSE poison
    BY <1>0, <1>1, <2>1 DEF TrainStep, buffers, Feed
  <2>3. Spent \subseteq Spent'
    BY <2>2 DEF Spent
  <2>4. CASE bad
    <3>1. skipped' = skipped + 1
      BY <2>1, <2>4 DEF Skip
    <3>2. b \in Spent' /\ b \notin Spent
      BY <1>0, <2>2, <2>4 DEF Spent
    <3>. QED
      BY <2>3, <3>1, <3>2
  <2>5. CASE ~bad
    BY <2>1, <2>3, <2>5 DEF Update
  <2>. QED
    BY <2>4, <2>5
<1>2. CASE MicroStep
  <2> DEFINE sum(b) == Append(accum, b)
             ready(b) == Len(sum(b)) >= K
             finite(b) == \A i \in 1..Len(sum(b)) : sum(b)[i] \notin poison'
  <2>1. PICK b \in 1..MaxFed, bad \in BOOLEAN :
          /\ Feed(b, bad)
          /\ accum' = IF ready(b) THEN <<>> ELSE sum(b)
          /\ IF ~ready(b) THEN UNCHANGED <<model, adam, skipped>>
             ELSE IF finite(b) THEN Update(sum(b)) ELSE Skip
    BY <1>2 DEF MicroStep
  <2>2. /\ Len(sum(b)) = Len(accum) + 1 /\ sum(b)[Len(accum) + 1] = b
        /\ \A i \in 1..Len(accum) : sum(b)[i] = accum[i]
    BY <1>0
  <2>3. b \notin 1..fed /\ poison \subseteq poison' /\ poison' \subseteq poison \cup {b}
    BY <1>0, <2>1 DEF Feed
  <2> HIDE DEF sum, ready, finite
  <2>4. CASE ~ready(b)
    <3>1. accum' = Append(accum, b) /\ skipped' = skipped
      BY <2>1, <2>4 DEF sum
    <3>2. \A a \in 1..Len(accum') :
            accum'[a] = b \/ (a \in 1..Len(accum) /\ accum'[a] = accum[a])
      BY <1>0, <3>1
    <3>3. Spent \subseteq Spent'
      BY <1>0, <2>3, <3>2 DEF Spent
    <3>. QED
      BY <3>1, <3>3
  <2>5. CASE ready(b)
    <3>1. accum' = <<>>
      BY <2>1, <2>5
    <3>2. Spent' = poison' /\ Spent \subseteq Spent'
      BY <2>3, <3>1 DEF Spent
    <3>3. CASE finite(b)
      BY <2>1, <2>5, <3>2, <3>3 DEF Update
    <3>4. CASE ~finite(b)
      <4>1. skipped' = skipped + 1
        BY <2>1, <2>5, <3>4 DEF Skip
      <4>2. PICK i \in 1..Len(sum(b)) : sum(b)[i] \in poison'
        BY <3>4 DEF finite
      <4>3. sum(b)[i] \notin Spent
        BY <1>0, <2>2, <2>3, <4>2 DEF Spent
      <4>. QED
        BY <3>2, <4>1, <4>2, <4>3
    <3>. QED
      BY <3>3, <3>4
  <2>. QED
    BY <2>4, <2>5
<1>. QED
  BY <1>1, <1>2

LEMMA SkipsPaidNext ==
  ASSUME MemoryOK, MemoryOK', DiskOK, SkipsPaid, [Next]_vars
  PROVE  SkipsPaid'
<1>0. /\ Cardinality(Spent) \in Nat /\ Cardinality(Spent') \in Nat
      /\ IsFiniteSet(Spent) /\ IsFiniteSet(Spent')
      /\ skipped \in Nat /\ fjson.skipped \in Nat
  <2>1. fed \in Nat /\ fed' \in Nat /\ poison' \subseteq 1..fed'
    BY DEF MemoryOK
  <2>2. IsFiniteSet(1..fed')
    BY <2>1, FS_Interval
  <2>3. Spent' \in SUBSET (1..fed')
    BY <2>1 DEF Spent
  <2>4. IsFiniteSet(Spent') /\ Cardinality(Spent') \in Nat
    BY <2>2, <2>3, FS_Subset, FS_CardinalityType
  <2>5. skipped \in Nat /\ fjson.skipped \in Nat
    BY <2>1 DEF MemoryOK, DiskOK
  <2>. QED
    BY <2>4, <2>5, SpentFinite
<1>1. Spent \subseteq Spent'
  <2>1. CASE TrainStep \/ MicroStep
    BY <2>1, BatchSpends
  <2>2. CASE Crash
    BY <2>2 DEF Crash, NewProcess, data, Spent
  <2>3. CASE UNCHANGED <<poison, accum>>
    BY <2>3 DEF Spent
  <2>. QED
    BY <2>1, <2>2, <2>3 DEF Next, Count, Snapshot, Rollback, StartSave, SaveModel, SaveOpt,
       SaveJson, Load, vars, data, buffers
<1>2. Cardinality(Spent) <= Cardinality(Spent')
  BY <1>0, <1>1, FS_Subset
<1>3. CASE TrainStep \/ MicroStep
  <2>1. fjson' = fjson
    BY <1>3, ElsewhereDisk DEF Elsewhere
  <2>2. CASE skipped' = skipped
    BY <1>0, <1>2, <2>1, <2>2 DEF SkipsPaid
  <2>3. CASE skipped' = skipped + 1 /\ \E b \in Spent' : b \notin Spent
    <3>1. PICK b \in Spent' : b \notin Spent
      BY <2>3
    <3>2. /\ IsFiniteSet(Spent \cup {b})
          /\ Cardinality(Spent \cup {b}) = Cardinality(Spent) + 1
      BY <1>0, <3>1, FS_AddElement
    <3>3. Cardinality(Spent \cup {b}) <= Cardinality(Spent')
      BY <1>0, <1>1, <3>1, FS_Subset
    <3>. QED
      BY <1>0, <2>1, <2>3, <3>2, <3>3 DEF SkipsPaid
  <2>. QED
    BY <1>3, <2>2, <2>3, BatchSpends
<1>4. CASE Load
  BY <1>0, <1>2, <1>4 DEF Load, disk, files, Number, SkipsPaid
<1>5. CASE Crash
  <2>1. skipped' = 0
    BY <1>5 DEF Crash, NewProcess
  <2>2. fjson' = fjson \/ fjson'.state = "torn"
    BY <1>5, FilesLeft
  <2>. QED
    BY <1>0, <1>2, <2>1, <2>2 DEF SkipsPaid
<1>6. CASE SaveJson
  <2>1. skipped' = skipped
    BY <1>6, SavingMemory DEF Saving
  <2>2. fjson'.state # "torn" =>
          \/ fjson'.skipped = skipped
          \/ fjson.state # "torn" /\ fjson'.skipped = fjson.skipped
    BY <1>6, JsonWritten
  <2>. QED
    BY <1>0, <1>2, <2>1, <2>2 DEF SkipsPaid
<1>7. CASE UNCHANGED <<skipped, fjson>>
  BY <1>0, <1>2, <1>7 DEF SkipsPaid
<1>. QED
  BY <1>3, <1>4, <1>5, <1>6, <1>7 DEF Next, Count, Snapshot, Rollback, StartSave, SaveModel,
     SaveOpt, vars, counters, disk, files

(***************************************************************************)
(* However many steps were skipped, and however often their count was      *)
(* saved and loaded, each skip had a micro-batch of its own with           *)
(* non-finite gradients: none is charged twice.                            *)
(***************************************************************************)
THEOREM SkipsAccountedFor == Spec => []OneSkipEach
<1> DEFINE I == MemoryOK /\ DiskOK /\ SkipsPaid
<1>1. Init => I
  <2> SUFFICES ASSUME Init PROVE I
    OBVIOUS
  <2>1. Spent = {}
    BY DEF Init, Spent
  <2>2. SkipsPaid
    BY <2>1, FS_EmptySet DEF Init, SkipsPaid, BlankJson
  <2>. QED
    BY <2>2, TypesInit
<1>2. I /\ [Next]_vars => I'
  BY TypesNext, SkipsPaidNext
<1>3. I => OneSkipEach
  <2> SUFFICES ASSUME I PROVE OneSkipEach
    OBVIOUS
  <2>1. IsFiniteSet(1..fed) /\ poison \in SUBSET (1..fed)
    BY FS_Interval DEF MemoryOK
  <2>2. IsFiniteSet(poison) /\ Cardinality(poison) \in Nat
    BY <2>1, FS_Subset, FS_CardinalityType
  <2>3. Spent \in SUBSET poison
    BY DEF Spent
  <2>4. Cardinality(Spent) <= Cardinality(poison)
    BY <2>2, <2>3, FS_Subset
  <2>. QED
    BY <2>2, <2>4, SpentFinite DEF SkipsPaid, MemoryOK, OneSkipEach
<1>. QED
  BY <1>1, <1>2, <1>3, PTL DEF Spec

-----------------------------------------------------------------------------
(* Windows.  A history is clean when its micro-batches, all fed before, are *)
(* each in one update, and none is poisoned or in the open window sum.      *)

Clean(h, sum, bad, n) ==
    /\ \A i \in 1..Len(h) : Len(h[i].mb) \in {0, 1, K}
    /\ \A i, j \in 1..Len(h) : \A p \in 1..Len(h[i].mb), q \in 1..Len(h[j].mb) :
         h[i].mb[p] = h[j].mb[q] => i = j /\ p = q
    /\ \A i \in 1..Len(h) : \A p \in 1..Len(h[i].mb) :
         /\ h[i].mb[p] \in 1..n
         /\ h[i].mb[p] \notin bad
         /\ \A a \in 1..Len(sum) : h[i].mb[p] # sum[a]

\* What is new in the window or among the poisoned was fed later.
LEMMA CleanKept ==
  ASSUME NEW h, NEW sum, NEW bad, NEW n \in Nat, Clean(h, sum, bad, n),
         NEW sum2, NEW bad2, NEW n2 \in Nat, n <= n2,
         \A a \in 1..Len(sum2) : sum2[a] \notin 1..n \/ \E c \in 1..Len(sum) : sum2[a] = sum[c],
         \A b \in bad2 : b \notin 1..n \/ b \in bad
  PROVE  Clean(h, sum2, bad2, n2)
<1>1. ASSUME NEW i \in 1..Len(h), NEW p \in 1..Len(h[i].mb)
      PROVE  /\ h[i].mb[p] \in 1..n2
             /\ h[i].mb[p] \notin bad2
             /\ \A a \in 1..Len(sum2) : h[i].mb[p] # sum2[a]
  <2> DEFINE x == h[i].mb[p]
  <2>1. x \in 1..n /\ x \notin bad /\ \A a \in 1..Len(sum) : x # sum[a]
    BY DEF Clean
  <2> HIDE DEF x
  <2>2. x \in 1..n2 /\ x \notin bad2
    BY <2>1
  <2>3. ASSUME NEW a \in 1..Len(sum2), x = sum2[a] PROVE FALSE
    <3>1. \E c \in 1..Len(sum) : sum2[a] = sum[c]
      BY <2>1, <2>3, Zenon
    <3>. QED
      BY <2>1, <2>3, <3>1, Zenon
  <2>. QED
    BY <2>2, <2>3, Zenon DEF x
<1>. QED
  BY <1>1 DEF Clean

\* An update of micro-batches that are all new to the history keeps it clean.
LEMMA CleanAppend ==
  ASSUME NEW h \in Histories, NEW sum, NEW bad, NEW n, Clean(h, sum, bad, n),
         NEW u \in UpdateSet, Len(u.mb) \in {0, 1, K},
         \A p, q \in 1..Len(u.mb) : u.mb[p] = u.mb[q] => p = q,
         \A p \in 1..Len(u.mb) :
           /\ u.mb[p] \in 1..n /\ u.mb[p] \notin bad
           /\ \A a \in 1..Len(sum) : u.mb[p] # sum[a]
           /\ \A i \in 1..Len(h) : \A q \in 1..Len(h[i].mb) : h[i].mb[q] # u.mb[p]
  PROVE  Clean(Append(h, u), sum, bad, n)
<1> DEFINE g == Append(h, u)
           m == Len(h) + 1
<1>1. /\ Len(h) \in Nat /\ Len(g) = m /\ g[m] = u
      /\ \A i \in 1..Len(h) : g[i] = h[i]
  BY DEF Histories
<1>2. \A i \in 1..m : i \in 1..Len(h) \/ i = m
  BY <1>1
<1> HIDE DEF g, m
<1>3. ASSUME NEW i \in 1..m
      PROVE  /\ Len(g[i].mb) \in {0, 1, K}
             /\ \A p \in 1..Len(g[i].mb) :
                  /\ g[i].mb[p] \in 1..n
                  /\ g[i].mb[p] \notin bad
                  /\ \A a \in 1..Len(sum) : g[i].mb[p] # sum[a]
  <2>1. CASE i \in 1..Len(h)
    BY <1>1, <2>1 DEF Clean
  <2>2. CASE i = m
    BY <1>1, <2>2
  <2>. QED
    BY <1>2, <2>1, <2>2
<1>4. ASSUME NEW i \in 1..m, NEW j \in 1..m,
             NEW p \in 1..Len(g[i].mb), NEW q \in 1..Len(g[j].mb), g[i].mb[p] = g[j].mb[q]
      PROVE  i = j /\ p = q
  <2>1. CASE i \in 1..Len(h) /\ j \in 1..Len(h)
    <3>1. g[i] = h[i] /\ g[j] = h[j]
      BY <1>1, <2>1, Zenon
    <3>2. p \in 1..Len(h[i].mb) /\ q \in 1..Len(h[j].mb) /\ h[i].mb[p] = h[j].mb[q]
      BY <1>4, <3>1, Zenon
    <3>. QED
      BY <2>1, <3>2 DEF Clean
  <2>2. CASE i \in 1..Len(h) /\ j = m
    <3>1. g[i] = h[i] /\ g[j] = u
      BY <1>1, <2>2
    <3>2. h[i].mb[p] # u.mb[q]
      BY <1>4, <2>2, <3>1
    <3>. QED
      BY <1>4, <3>1, <3>2
  <2>3. CASE i = m /\ j \in 1..Len(h)
    BY <1>1, <1>4, <2>3
  <2>4. CASE i = m /\ j = m
    BY <1>1, <1>4, <2>4
  <2>. QED
    BY <1>2, <2>1, <2>2, <2>3, <2>4
<1>5. Clean(g, sum, bad, n)
  BY <1>1, <1>3, <1>4 DEF Clean
<1>. QED
  BY <1>5 DEF g

WindowOpen ==
    /\ Len(accum) < K
    /\ \A a, c \in 1..Len(accum) : accum[a] = accum[c] => a = c

HistoriesClean ==
    /\ Clean(w, accum, poison, fed)
    /\ snap # <<>> => Clean(snap[1], accum, poison, fed)
    /\ fmodel.state # "torn" => Clean(fmodel.w, accum, poison, fed)

LEMMA MicroFacts ==
  ASSUME MemoryOK, WindowOpen, MicroStep
  PROVE  \E s \in Seq(1..MaxFed) :
           /\ s = Append(accum, fed + 1) /\ fed + 1 \in 1..MaxFed
           /\ fed' = fed + 1 /\ poison \subseteq poison' /\ poison' \subseteq poison \cup {fed + 1}
           /\ snap' = snap /\ fmodel' = fmodel
           /\ \/ Len(s) < K /\ accum' = s /\ w' = w
              \/ Len(s) = K /\ accum' = <<>> /\ w' = w
              \/ /\ Len(s) = K /\ accum' = <<>>
                 /\ w' = Append(w, [mb |-> s, at |-> step])
                 /\ \A i \in 1..Len(s) : s[i] \notin poison'
<1>0. /\ accum \in Seq(1..fed) /\ fed \in 0..MaxFed /\ MaxFed \in Nat
      /\ Len(accum) \in Nat /\ Len(accum) < K /\ K \in Nat
  BY TrainerAssumption DEF TrainerAssumption, MemoryOK, WindowOpen
<1> DEFINE sum(b) == Append(accum, b)
           ready(b) == Len(sum(b)) >= K
           finite(b) == \A i \in 1..Len(sum(b)) : sum(b)[i] \notin poison'
<1>1. PICK b \in 1..MaxFed, bad \in BOOLEAN :
        /\ Feed(b, bad)
        /\ accum' = IF ready(b) THEN <<>> ELSE sum(b)
        /\ IF ~ready(b) THEN UNCHANGED <<model, adam, skipped>>
           ELSE IF finite(b) THEN Update(sum(b)) ELSE Skip
  BY DEF MicroStep
<1>2. b = fed + 1 /\ fed' = fed + 1 /\ poison \subseteq poison' /\ poison' \subseteq poison \cup {b}
  BY <1>1 DEF Feed
<1>3. snap' = snap /\ fmodel' = fmodel
  BY DEF MicroStep, disk, files
<1>4. sum(b) \in Seq(1..MaxFed) /\ Len(sum(b)) = Len(accum) + 1
  BY <1>0
<1>5. CASE ~ready(b)
  <2>1. Len(sum(b)) < K /\ accum' = sum(b) /\ w' = w
    BY <1>0, <1>1, <1>4, <1>5 DEF model
  <2>. QED
    BY <1>2, <1>3, <1>4, <2>1
<1>6. CASE ready(b)
  <2>1. Len(sum(b)) = K /\ accum' = <<>>
    BY <1>0, <1>1, <1>4, <1>6
  <2>2. CASE finite(b)
    <3>1. w' = Append(w, [mb |-> sum(b), at |-> step])
      BY <1>1, <1>6, <2>2 DEF Update
    <3>2. \A i \in 1..Len(sum(b)) : sum(b)[i] \notin poison'
      BY <2>2
    <3>. QED
      BY <1>2, <1>3, <1>4, <2>1, <3>1, <3>2
  <2>3. CASE ~finite(b)
    <3>1. w' = w
      BY <1>1, <1>6, <2>3 DEF Skip, model
    <3>. QED
      BY <1>2, <1>3, <1>4, <2>1, <3>1
  <2>. QED
    BY <2>2, <2>3
<1>. QED
  BY <1>5, <1>6

\* What a batch adds to the weights: nothing, or an update of new micro-batches.
NewUpdate(s) ==
    /\ s \in Seq(1..MaxFed) /\ Len(s) \in {0, 1, K}
    /\ w' = Append(w, [mb |-> s, at |-> step])
    /\ \A p, q \in 1..Len(s) : s[p] = s[q] => p = q
    /\ \A p \in 1..Len(s) :
         /\ s[p] \in 1..fed' /\ s[p] \notin poison'
         /\ s[p] \notin 1..fed \/ \E c \in 1..Len(accum) : s[p] = accum[c]
         /\ \A a \in 1..Len(accum') : s[p] # accum'[a]

LEMMA BatchKeepsWindows ==
  ASSUME MemoryOK, WindowOpen, TrainStep \/ MicroStep
  PROVE  /\ WindowOpen'
         /\ fed' = fed + 1
         /\ snap' = snap /\ fmodel' = fmodel
         /\ \A a \in 1..Len(accum') :
              accum'[a] \notin 1..fed \/ \E c \in 1..Len(accum) : accum'[a] = accum[c]
         /\ \A b \in poison' : b \notin 1..fed \/ b \in poison
         /\ w' = w \/ \E s \in Seq(1..MaxFed) : NewUpdate(s)
<1>0. /\ accum \in Seq(1..fed) /\ fed \in 0..MaxFed /\ MaxFed \in Nat /\ poison \subseteq 1..fed
      /\ Len(accum) \in Nat /\ Len(accum) < K /\ K \in Nat \ {0}
      /\ \A a, c \in 1..Len(accum) : accum[a] = accum[c] => a = c
  BY TrainerAssumption DEF TrainerAssumption, MemoryOK, WindowOpen
<1>1. CASE TrainStep
  <2>1. PICK b \in 1..MaxFed, bad \in BOOLEAN :
          Feed(b, bad) /\ IF bad THEN Skip ELSE Update(<<b>>)
    BY <1>1 DEF TrainStep
  <2>2. /\ b = fed + 1 /\ fed' = fed + 1 /\ accum' = accum /\ snap' = snap /\ fmodel' = fmodel
        /\ poison' = IF bad THEN poison \cup {b} ELSE poison
    BY <1>1, <2>1 DEF TrainStep, buffers, Feed, disk, files
  <2>3. WindowOpen'
    BY <2>2 DEF WindowOpen
  <2>4. CASE bad
    <3>1. w' = w
      BY <2>1, <2>4 DEF Skip, model
    <3>. QED
      BY <1>0, <2>2, <2>3, <3>1
  <2>5. CASE ~bad
    <3>1. w' = Append(w, [mb |-> <<b>>, at |-> step])
      BY <2>1, <2>5 DEF Update
    <3>2. <<b>> \in Seq(1..MaxFed) /\ Len(<<b>>) = 1 /\ <<b>>[1] = b
      OBVIOUS
    <3>3. /\ b \in 1..fed' /\ b \notin poison' /\ b \notin 1..fed
          /\ \A a \in 1..Len(accum') : b # accum'[a]
      BY <1>0, <2>2, <2>5
    <3>4. NewUpdate(<<b>>)
      BY <3>1, <3>2, <3>3 DEF NewUpdate
    <3>. QED
      BY <1>0, <2>2, <2>3, <2>5, <3>2, <3>4
  <2>. QED
    BY <2>4, <2>5
<1>2. CASE MicroStep
  <2>1. PICK s \in Seq(1..MaxFed) :
          /\ s = Append(accum, fed + 1) /\ fed + 1 \in 1..MaxFed
          /\ fed' = fed + 1 /\ poison \subseteq poison' /\ poison' \subseteq poison \cup {fed + 1}
          /\ snap' = snap /\ fmodel' = fmodel
          /\ \/ Len(s) < K /\ accum' = s /\ w' = w
             \/ Len(s) = K /\ accum' = <<>> /\ w' = w
             \/ /\ Len(s) = K /\ accum' = <<>>
                /\ w' = Append(w, [mb |-> s, at |-> step])
                /\ \A i \in 1..Len(s) : s[i] \notin poison'
    BY <1>2, MicroFacts
  <2>2. /\ Len(s) = Len(accum) + 1 /\ s[Len(accum) + 1] = fed + 1
        /\ \A i \in 1..Len(accum) : s[i] = accum[i] /\ s[i] \in 1..fed
    BY <1>0, <2>1
  <2>3. \A p, q \in 1..Len(s) : s[p] = s[q] => p = q
    <3>1. \A p \in 1..Len(s) : p \in 1..Len(accum) \/ p = Len(accum) + 1
      BY <1>0, <2>2
    <3>2. \A p \in 1..Len(accum) : s[p] # s[Len(accum) + 1]
      BY <1>0, <2>2
    <3>. QED
      BY <1>0, <2>2, <3>1, <3>2
  <2>4. \A a \in 1..Len(s) :
          s[a] \in 1..fed' /\ (s[a] \notin 1..fed \/ \E c \in 1..Len(accum) : s[a] = accum[c])
    BY <1>0, <2>1, <2>2
  <2>5. \A b \in poison' : b \notin 1..fed \/ b \in poison
    BY <1>0, <2>1
  <2>6. CASE Len(s) < K /\ accum' = s /\ w' = w
    <3>1. WindowOpen'
      BY <2>3, <2>6 DEF WindowOpen
    <3>. QED
      BY <2>1, <2>4, <2>5, <2>6, <3>1
  <2>7. CASE Len(s) = K /\ accum' = <<>> /\ w' = w
    <3>1. WindowOpen'
      BY <1>0, <2>7 DEF WindowOpen
    <3>. QED
      BY <2>1, <2>5, <2>7, <3>1
  <2>8. CASE /\ Len(s) = K /\ accum' = <<>>
             /\ w' = Append(w, [mb |-> s, at |-> step])
             /\ \A i \in 1..Len(s) : s[i] \notin poison'
    <3>1. WindowOpen'
      BY <1>0, <2>8 DEF WindowOpen
    <3>2. NewUpdate(s)
      BY <2>1, <2>3, <2>4, <2>8 DEF NewUpdate
    <3>3. \A a \in 1..Len(accum') : a \in {}
      BY <2>8
    <3>. QED
      BY <2>1, <2>5, <3>1, <3>2, <3>3
  <2>. QED
    BY <2>1, <2>6, <2>7, <2>8
<1>. QED
  BY <1>1, <1>2

LEMMA ModelSaved ==
  ASSUME DiskOK, SaveModel, fmodel'.state # "torn"
  PROVE  fmodel'.w = w \/ (fmodel.state # "torn" /\ fmodel'.w = fmodel.w)
<1> DEFINE new == [gen |-> gen, state |-> "whole", origin |-> origin, w |-> w]
<1>1. \/ fmodel' = new
      \/ fmodel' = [new EXCEPT !.state = "torn"]
      \/ fmodel' = [fmodel EXCEPT !.state = "torn"]
      \/ fmodel' = [fmodel EXCEPT !.state = "stale"] /\ fmodel.state # "torn"
  BY DEF SaveModel, Write, Spoiled
<1>. QED
  BY <1>1 DEF DiskOK

LEMMA CleanNext ==
  HistoriesClean' <=>
    /\ Clean(w', accum', poison', fed')
    /\ snap' # <<>> => Clean(snap'[1], accum', poison', fed')
    /\ fmodel'.state # "torn" => Clean(fmodel'.w, accum', poison', fed')
BY DEF HistoriesClean, Clean

LEMMA WindowsNext ==
  ASSUME MemoryOK, MemoryOK', DiskOK, WindowOpen, HistoriesClean, [Next]_vars
  PROVE  WindowOpen' /\ HistoriesClean'
<1>0. fed \in Nat /\ fed' \in Nat /\ step \in 0..MaxFed /\ K \in Nat \ {0} /\ w \in Histories
  BY TrainerAssumption DEF TrainerAssumption, MemoryOK, Counting
<1>1. CASE TrainStep \/ MicroStep
  <2>1. /\ WindowOpen' /\ fed' = fed + 1 /\ snap' = snap /\ fmodel' = fmodel
        /\ \A a \in 1..Len(accum') :
             accum'[a] \notin 1..fed \/ \E c \in 1..Len(accum) : accum'[a] = accum[c]
        /\ \A b \in poison' : b \notin 1..fed \/ b \in poison
        /\ w' = w \/ \E s \in Seq(1..MaxFed) : NewUpdate(s)
    BY <1>1, BatchKeepsWindows
  <2>2. ASSUME NEW h, Clean(h, accum, poison, fed)
        PROVE  Clean(h, accum', poison', fed')
    BY <1>0, <2>1, <2>2, CleanKept
  <2>3. /\ snap' # <<>> => Clean(snap'[1], accum', poison', fed')
        /\ fmodel'.state # "torn" => Clean(fmodel'.w, accum', poison', fed')
    BY <2>1, <2>2 DEF HistoriesClean
  <2>4. Clean(w', accum', poison', fed')
    <3>1. Clean(w, accum, poison, fed) /\ Clean(w, accum', poison', fed')
      BY <2>2 DEF HistoriesClean
    <3>2. CASE w' = w
      BY <3>1, <3>2
    <3>3. ASSUME NEW s \in Seq(1..MaxFed), NewUpdate(s)
          PROVE  Clean(w', accum', poison', fed')
      <4> DEFINE u == [mb |-> s, at |-> step]
      <4>1. u \in UpdateSet /\ u.mb = s
        BY <1>0 DEF UpdateSet
      <4>2. ASSUME NEW p \in 1..Len(s), NEW i \in 1..Len(w), NEW q \in 1..Len(w[i].mb)
            PROVE  w[i].mb[q] # s[p]
        <5>1. /\ w[i].mb[q] \in 1..fed
              /\ \A a \in 1..Len(accum) : w[i].mb[q] # accum[a]
          BY <3>1 DEF Clean
        <5>2. s[p] \notin 1..fed \/ \E c \in 1..Len(accum) : s[p] = accum[c]
          BY <3>3 DEF NewUpdate
        <5>. QED
          BY <5>1, <5>2
      <4>3. /\ Len(u.mb) \in {0, 1, K}
            /\ \A p, q \in 1..Len(u.mb) : u.mb[p] = u.mb[q] => p = q
            /\ \A p \in 1..Len(u.mb) :
                 /\ u.mb[p] \in 1..fed' /\ u.mb[p] \notin poison'
                 /\ \A a \in 1..Len(accum') : u.mb[p] # accum'[a]
                 /\ \A i \in 1..Len(w) : \A q \in 1..Len(w[i].mb) : w[i].mb[q] # u.mb[p]
        BY <3>3, <4>1, <4>2 DEF NewUpdate
      <4>4. w' = Append(w, u)
        BY <3>3 DEF NewUpdate
      <4> HIDE DEF u
      <4>5. Clean(Append(w, u), accum', poison', fed')
        BY <1>0, <3>1, <4>1, <4>3, CleanAppend
      <4>. QED
        BY <4>4, <4>5
    <3>. QED
      BY <2>1, <3>2, <3>3
  <2>. QED
    BY <2>1, <2>3, <2>4, CleanNext
<1>2. CASE Snapshot
  <2>1. snap' = <<w>> /\ UNCHANGED <<w, accum, poison, fed, fmodel>>
    BY <1>2 DEF Snapshot, model, data, disk, files
  <2>. QED
    BY <2>1, CleanNext DEF WindowOpen, HistoriesClean
<1>3. CASE Rollback
  <2>1. snap # <<>> /\ w' = snap[1] /\ UNCHANGED <<snap, accum, poison, fed, fmodel>>
    BY <1>3 DEF Rollback, buffers, data, disk, files
  <2>. QED
    BY <2>1, CleanNext DEF WindowOpen, HistoriesClean
<1>4. CASE SaveModel
  <2>1. UNCHANGED <<w, snap, accum, poison, fed>>
    BY <1>4 DEF SaveModel, model, buffers, data
  <2>2. fmodel'.state # "torn" =>
          fmodel'.w = w \/ (fmodel.state # "torn" /\ fmodel'.w = fmodel.w)
    BY <1>4, ModelSaved
  <2>3. fmodel'.state # "torn" => Clean(fmodel'.w, accum, poison, fed)
    BY <2>2 DEF HistoriesClean
  <2>. QED
    BY <2>1, <2>3, CleanNext DEF WindowOpen, HistoriesClean
<1>5. CASE Crash
  <2>1. w' = <<>> /\ accum' = <<>> /\ snap' = <<>> /\ UNCHANGED <<fed, poison>>
    BY <1>5 DEF Crash, NewProcess, data
  <2>2. fmodel' = fmodel \/ fmodel'.state = "torn"
    BY <1>5, FilesLeft
  <2>3. fmodel'.state # "torn" => Clean(fmodel'.w, accum', poison', fed')
    <3>1. ASSUME NEW h, Clean(h, accum, poison, fed) PROVE Clean(h, <<>>, poison, fed)
      BY <3>1 DEF Clean
    <3>2. fmodel'.state # "torn" => Clean(fmodel'.w, accum, poison, fed)
      BY <2>2 DEF HistoriesClean
    <3>. QED
      BY <2>1, <3>1, <3>2
  <2>4. Clean(w', accum', poison', fed') /\ WindowOpen'
    BY <1>0, <2>1 DEF Clean, WindowOpen
  <2>. QED
    BY <2>1, <2>3, <2>4, CleanNext
<1>6. CASE Load
  <2>1. /\ w' \in Loaded(fmodel, fmodel.w)
        /\ UNCHANGED <<snap, accum, poison, fed, fmodel>>
    BY <1>6 DEF Load, buffers, data, disk, files
  <2>2. Clean(<<>>, accum, poison, fed)
    BY DEF Clean
  <2>3. Clean(Corrupt, accum, poison, fed)
    <3>1. Len(Corrupt) = 1 /\ Corrupt[1].mb = <<>> /\ Len(Corrupt[1].mb) = 0
      BY DEF Corrupt
    <3>2. \A i \in 1..Len(Corrupt) : Len(Corrupt[i].mb) = 0
      BY <3>1
    <3>. QED
      BY <3>2 DEF Clean
  <2>4. Clean(w', accum, poison, fed)
    BY <2>1, <2>2, <2>3 DEF Loaded, HistoriesClean
  <2>. QED
    BY <2>1, <2>4, CleanNext DEF WindowOpen, HistoriesClean
<1>7. CASE UNCHANGED <<w, snap, accum, poison, fed, fmodel>>
  BY <1>7, CleanNext DEF WindowOpen, HistoriesClean
<1>. QED
  BY <1>1, <1>2, <1>3, <1>4, <1>5, <1>6, <1>7
     DEF Next, Count, StartSave, SaveOpt, SaveJson, vars, model, buffers, data, disk, files

(***************************************************************************)
(* For every window length and number of micro-batches, crashes, rollbacks *)
(* and failed writes: whole windows, each micro-batch applied at most once *)
(* and none with non-finite gradients.                                     *)
(***************************************************************************)
THEOREM WindowsAreWhole == Spec => []WholeWindows
<1>1. Init => MemoryOK /\ DiskOK /\ WindowOpen /\ HistoriesClean
  BY TypesInit, TrainerAssumption
     DEF TrainerAssumption, Init, BlankModel, WindowOpen, HistoriesClean, Clean
<1>2. /\ MemoryOK /\ DiskOK /\ WindowOpen /\ HistoriesClean /\ [Next]_vars
      => MemoryOK' /\ DiskOK' /\ WindowOpen' /\ HistoriesClean'
  BY TypesNext, WindowsNext
<1>3. MemoryOK /\ WindowOpen /\ HistoriesClean => WholeWindows
  <2> SUFFICES ASSUME MemoryOK, WindowOpen, HistoriesClean PROVE WholeWindows
    OBVIOUS
  <2>1. Clean(w, accum, poison, fed)
    BY DEF HistoriesClean
  <2>. QED
    BY <2>1 DEF Clean, WindowOpen, WholeWindows
<1>. QED
  BY <1>1, <1>2, <1>3, PTL DEF Spec

-----------------------------------------------------------------------------
(***************************************************************************)
(* The selective scan, in chunks and in one pass.                          *)
(***************************************************************************)
LEMMA LeastNatural ==
    ASSUME NEW T \in SUBSET Nat, T # {}
    PROVE  \E x \in T : \A y \in T : x <= y
<1> DEFINE R == OpToRel(<, Nat)
<1>1. IsWellFoundedOn(R, Nat)
    BY NatLessThanWellFounded
<1>2. \E x \in T : \A y \in T : ~(<<y, x>> \in R)
    BY <1>1, WFMin
<1>3. \A x, y \in Nat : <<x, y>> \in R <=> x < y
    BY DEF OpToRel
<1> HIDE DEF R
<1>4. \E x \in T : \A y \in T : ~(y < x)
    BY <1>2, <1>3
<1> QED BY <1>4

LEMMA NatSetInduction ==
    ASSUME NEW S, 0 \in S, \A n \in Nat : n \in S => n + 1 \in S
    PROVE  \A n \in Nat : n \in S
<1> SUFFICES ASSUME NEW n \in Nat, n \notin S PROVE FALSE
    OBVIOUS
<1>1. PICK x \in {m \in Nat : m \notin S} : \A y \in {m \in Nat : m \notin S} : x <= y
    BY LeastNatural
<1>2. x # 0 /\ x - 1 \in Nat
    BY <1>1
<1>3. x - 1 \in S
    BY <1>1, <1>2
<1> QED BY <1>1, <1>2, <1>3

(* Remainders: what is congruent may stand for each other under + and *.       *)
LEMMA Remainder ==
    ASSUME NEW q \in Nat \ {0}, NEW x \in Int
    PROVE  x % q \in 0..(q - 1) /\ x \div q \in Int /\ x = (q * (x \div q)) + (x % q)
BY SMT

LEMMA SmallRemainder ==
    ASSUME NEW q \in Nat \ {0}, NEW x \in 0..(q - 1)
    PROVE  x % q = x
BY SMT

LEMMA NoSmallMultiple ==
    ASSUME NEW q \in Nat \ {0}, NEW e \in Int, -q < q * e, q * e < q
    PROVE  e = 0
<1>1. CASE e >= 1
  <2>1. q * e >= q
      BY <1>1, SMT
  <2> QED BY <2>1
<1>2. CASE e <= -1
  <2>1. q * e <= -q
      BY <1>2, SMT
  <2> QED BY <2>1
<1> QED BY <1>1, <1>2

LEMMA SameRemainder ==
    ASSUME NEW q \in Nat \ {0}, NEW x \in Int, NEW k \in Int
    PROVE  (x + (q * k)) % q = x % q
<1> DEFINE y == x + (q * k)
           d == y \div q
           e == x \div q
           qd == q * d
           qe == q * e
           qk == q * k
<1>1. y \in Int /\ y = x + qk
    OBVIOUS
<1>2. y % q \in 0..(q - 1) /\ d \in Int /\ y = qd + (y % q)
    BY <1>1, Remainder
<1>3. x % q \in 0..(q - 1) /\ e \in Int /\ x = qe + (x % q)
    BY Remainder
<1>4. q * (d - e - k) = qd - qe - qk
    BY <1>2, <1>3, SMT
<1>5. qd \in Int /\ qe \in Int /\ qk \in Int
    BY <1>2, <1>3
<1> HIDE DEF y, d, e, qd, qe, qk
<1>6. q * (d - e - k) = (x % q) - (y % q)
    BY <1>1, <1>2, <1>3, <1>4, <1>5
<1>7. d - e - k = 0
  <2>1. -q < (x % q) - (y % q) /\ (x % q) - (y % q) < q
      BY <1>2, <1>3
  <2>2. d - e - k \in Int
      BY <1>2, <1>3
  <2> QED BY <1>6, <2>1, <2>2, NoSmallMultiple
<1>8. q * 0 = 0
    OBVIOUS
<1>9. y % q = x % q
    BY <1>2, <1>3, <1>6, <1>7, <1>8
<1> QED BY <1>9 DEF y

LEMMA RemainderInSum ==
    ASSUME NEW q \in Nat \ {0}, NEW x \in Int, NEW y \in Int
    PROVE  ((x % q) + y) % q = (x + y) % q
<1> DEFINE k == x \div q
           z == (x % q) + y
           qk == q * k
<1>1. x % q \in Int /\ k \in Int /\ x = qk + (x % q)
    BY Remainder
<1>2. qk \in Int /\ z \in Int
    BY <1>1
<1>3. x + y = z + qk
    BY <1>1, <1>2
<1> HIDE DEF k, z
<1>4. (z + (q * k)) % q = z % q
    BY <1>1, <1>2, SameRemainder
<1> QED BY <1>3, <1>4 DEF z

LEMMA RemainderInProduct ==
    ASSUME NEW q \in Nat \ {0}, NEW x \in Int, NEW y \in Int
    PROVE  (x * (y % q)) % q = (x * y) % q
<1> DEFINE k == y \div q
<1>1. y % q \in Int /\ k \in Int /\ y = (q * k) + (y % q)
    BY Remainder
<1>2. x * y = (x * (y % q)) + (q * (x * k))
    BY <1>1, SMT
<1>3. x * (y % q) \in Int /\ x * k \in Int
    BY <1>1
<1>4. ((x * (y % q)) + (q * (x * k))) % q = (x * (y % q)) % q
    BY <1>3, SameRemainder
<1> QED BY <1>2, <1>4

-------------------------------------------------------------------------------
(* The scan's recursion.                                                       *)
Runs(h0, a, b, f, l, h) ==
    h = [t \in (f - 1)..l |-> IF t < f THEN h0 ELSE Step(h[t - 1], a[t], b[t])]

LEMMA RunIs ==
    ASSUME NEW h0, NEW a, NEW b, NEW f, NEW l
    PROVE  StateAfter(h0, a, b, f, l) = (CHOOSE h : Runs(h0, a, b, f, l, h))[l]
BY DEF StateAfter, Runs

LEMMA RunAt ==
    ASSUME NEW h0, NEW a, NEW b, NEW f \in Nat \ {0}, NEW l \in Nat, NEW h,
           Runs(h0, a, b, f, l, h)
    PROVE  /\ l >= f - 1 => h[f - 1] = h0
           /\ \A t \in f..l : h[t] = Step(h[t - 1], a[t], b[t])
<1>1. \A t \in (f - 1)..l : h[t] = IF t < f THEN h0 ELSE Step(h[t - 1], a[t], b[t])
    BY Zenon DEF Runs
<1> QED BY <1>1

LEMMA RunNext ==
    ASSUME NEW h0, NEW a, NEW b, NEW f \in Nat \ {0}, NEW l \in Nat, NEW h,
           Runs(h0, a, b, f, l, h), NEW t \in f..l
    PROVE  h[t] = Step(h[t - 1], a[t], b[t])
BY RunAt

LEMMA RunExists ==
    ASSUME NEW h0, NEW a, NEW b, NEW f \in Nat \ {0}
    PROVE  \A n \in Nat : \E h : Runs(h0, a, b, f, (f - 1) + n, h)
<1> DEFINE S == {n \in Nat : \E h : Runs(h0, a, b, f, (f - 1) + n, h)}
<1>1. 0 \in S
  <2> DEFINE h == [t \in (f - 1)..(f - 1) |-> h0]
  <2>1. h = [t \in (f - 1)..(f - 1) |-> IF t < f THEN h0 ELSE Step(h[t - 1], a[t], b[t])]
      OBVIOUS
  <2>2. (f - 1) + 0 = f - 1
      OBVIOUS
  <2> QED BY <2>1, <2>2 DEF Runs
<1>2. ASSUME NEW n \in Nat, n \in S PROVE n + 1 \in S
  <2> DEFINE l == (f - 1) + n
  <2>1. PICK g : Runs(h0, a, b, f, l, g)
      BY <1>2
  <2> DEFINE h == [t \in (f - 1)..(l + 1) |->
                      IF t = l + 1 THEN Step(g[l], a[l + 1], b[l + 1]) ELSE g[t]]
  <2>2. l \in Nat /\ l >= f - 1 /\ (f - 1) + (n + 1) = l + 1
      OBVIOUS
  <2>3. /\ g[f - 1] = h0
        /\ \A t \in f..l : g[t] = Step(g[t - 1], a[t], b[t])
      BY <2>1, <2>2, RunAt
  <2> HIDE DEF l
  <2>4. ASSUME NEW t \in (f - 1)..(l + 1)
        PROVE  h[t] = IF t < f THEN h0 ELSE Step(h[t - 1], a[t], b[t])
    <3>1. CASE t = l + 1
      <4>1. h[t - 1] = g[l] /\ ~(t < f)
          BY <2>2, <3>1
      <4> QED BY <3>1, <4>1
    <3>2. CASE t \in f..l
      <4>1. h[t - 1] = g[t - 1] /\ h[t] = g[t] /\ ~(t < f)
          BY <2>2, <3>2
      <4> QED BY <2>3, <3>2, <4>1
    <3>3. CASE t = f - 1
      <4>1. h[t] = g[f - 1] /\ t < f
          BY <2>2, <3>3
      <4> QED BY <2>3, <4>1
    <3> QED BY <2>2, <3>1, <3>2, <3>3
  <2>5. Runs(h0, a, b, f, l + 1, h)
    <3>1. h = [t \in (f - 1)..(l + 1) |-> h[t]]
        OBVIOUS
    <3> HIDE DEF h
    <3>2. [t \in (f - 1)..(l + 1) |-> h[t]]
          = [t \in (f - 1)..(l + 1) |-> IF t < f THEN h0 ELSE Step(h[t - 1], a[t], b[t])]
        BY <2>4
    <3> QED BY <3>1, <3>2 DEF Runs
  <2> QED BY <2>2, <2>5
<1> HIDE DEF S
<1>3. \A n \in Nat : n \in S
    BY <1>1, <1>2, NatSetInduction
<1> QED BY <1>3 DEF S

LEMMA RunsAgree ==
    ASSUME NEW h0, NEW a, NEW b, NEW f \in Nat \ {0}, NEW l \in Nat, NEW m \in Nat,
           NEW g, NEW h, l >= f - 1, l <= m, Runs(h0, a, b, f, l, g), Runs(h0, a, b, f, m, h)
    PROVE  h[l] = g[l]
<1> DEFINE S == {n \in Nat : (f - 1) + n <= l => h[(f - 1) + n] = g[(f - 1) + n]}
<1>1. 0 \in S
    BY RunAt
<1>2. ASSUME NEW n \in Nat, n \in S PROVE n + 1 \in S
  <2> SUFFICES ASSUME (f - 1) + (n + 1) <= l PROVE h[(f - 1) + (n + 1)] = g[(f - 1) + (n + 1)]
      OBVIOUS
  <2> DEFINE t == (f - 1) + (n + 1)
  <2>1. t \in f..l /\ t \in f..m /\ t - 1 = (f - 1) + n /\ (f - 1) + n <= l
      OBVIOUS
  <2>2. h[t - 1] = g[t - 1]
    <3>1. h[(f - 1) + n] = g[(f - 1) + n]
        BY <1>2, <2>1
    <3> HIDE DEF t
    <3> QED BY <2>1, <3>1
  <2> HIDE DEF t
  <2>3. g[t] = Step(g[t - 1], a[t], b[t])
      BY <2>1, RunNext
  <2>4. h[t] = Step(h[t - 1], a[t], b[t])
      BY <2>1, RunNext
  <2> QED BY <2>2, <2>3, <2>4 DEF t
<1> HIDE DEF S
<1>3. \A n \in Nat : n \in S
    BY <1>1, <1>2, NatSetInduction
<1>4. PICK n \in Nat : (f - 1) + n = l
    BY l - (f - 1) \in Nat
<1>5. h[(f - 1) + n] = g[(f - 1) + n]
    BY <1>3, <1>4 DEF S
<1> QED BY <1>4, <1>5

(* StateAfter obeys the scan's recurrence.                                     *)
LEMMA StateStarts ==
    ASSUME NEW h0, NEW a, NEW b, NEW f \in Nat \ {0}
    PROVE  StateAfter(h0, a, b, f, f - 1) = h0
<1>1. \E h : Runs(h0, a, b, f, (f - 1) + 0, h)
    BY RunExists
<1>2. (f - 1) + 0 = f - 1 /\ f - 1 \in Nat
    OBVIOUS
<1> DEFINE h == CHOOSE h : Runs(h0, a, b, f, f - 1, h)
<1>3. Runs(h0, a, b, f, f - 1, h)
    BY <1>1, <1>2
<1> HIDE DEF h
<1>4. h[f - 1] = h0
    BY <1>2, <1>3, RunAt
<1> QED BY <1>4, RunIs DEF h

LEMMA StateSteps ==
    ASSUME NEW h0, NEW a, NEW b, NEW f \in Nat \ {0}, NEW m \in Nat, m >= f
    PROVE  StateAfter(h0, a, b, f, m) = Step(StateAfter(h0, a, b, f, m - 1), a[m], b[m])
<1>1. PICK l \in Nat : l = m - 1 /\ l >= f - 1 /\ l <= m
    OBVIOUS
<1>2. PICK g : Runs(h0, a, b, f, l, g) /\ StateAfter(h0, a, b, f, l) = g[l]
  <2>1. \E h : Runs(h0, a, b, f, l, h)
    <3>1. PICK n \in Nat : (f - 1) + n = l
        BY <1>1, l - (f - 1) \in Nat
    <3>2. \E h : Runs(h0, a, b, f, (f - 1) + n, h)
        BY RunExists
    <3> QED BY <3>1, <3>2
  <2> QED BY <2>1, RunIs
<1>3. PICK h : Runs(h0, a, b, f, m, h) /\ StateAfter(h0, a, b, f, m) = h[m]
  <2>1. \E h : Runs(h0, a, b, f, m, h)
    <3>1. PICK n \in Nat : (f - 1) + n = m
        BY <1>1, m - (f - 1) \in Nat
    <3>2. \E h : Runs(h0, a, b, f, (f - 1) + n, h)
        BY RunExists
    <3> QED BY <3>1, <3>2
  <2> QED BY <2>1, RunIs
<1>4. h[l] = g[l]
    BY <1>1, <1>2, <1>3, RunsAgree
<1>5. m \in f..m
    OBVIOUS
<1>6. h[m] = Step(h[m - 1], a[m], b[m])
    BY <1>3, <1>5, RunNext
<1> QED BY <1>1, <1>2, <1>3, <1>4, <1>6

-------------------------------------------------------------------------------
(* What the recurrence makes of a state: it depends on the state before the    *)
(* first step through its residue, may be cut anywhere, and is affine.         *)
LEMMA QIsPositive == Q \in Nat \ {0}
<1>1. P \in Nat /\ P > 2
    BY PAssumption DEF PAssumption
<1>2. P * P \in Nat /\ P * P # 0
    BY <1>1, SMT
<1> QED BY <1>2 DEF Q

LEMMA StepIn ==
    ASSUME NEW h \in Int, NEW x \in Int, NEW y \in Int
    PROVE  Step(h, x, y) \in 0..(Q - 1)
<1>1. x * h \in Int
    OBVIOUS
<1>2. (x * h) % Q \in Int
    BY <1>1, QIsPositive, Remainder
<1>3. ((x * h) % Q) + y \in Int
    BY <1>2
<1>4. (((x * h) % Q) + y) % Q \in 0..(Q - 1)
    BY <1>3, QIsPositive, Remainder
<1> QED BY <1>4 DEF Step, ++, **

LEMMA StepIs ==
    ASSUME NEW h \in Int, NEW x \in Int, NEW y \in Int
    PROVE  Step(h, x, y) = ((x * h) + y) % Q
<1>1. x * h \in Int
    OBVIOUS
<1>2. (((x * h) % Q) + y) % Q = ((x * h) + y) % Q
    BY <1>1, QIsPositive, RemainderInSum
<1> QED BY <1>2 DEF Step, ++, **

LEMMA StepOfSame ==
    ASSUME NEW h \in Int, NEW k \in Int, NEW x \in Int, NEW y \in Int, h % Q = k % Q
    PROVE  Step(h, x, y) = Step(k, x, y)
<1>1. (x * (h % Q)) % Q = (x * h) % Q /\ (x * (k % Q)) % Q = (x * k) % Q
    BY QIsPositive, RemainderInProduct
<1>2. (x * h) % Q = (x * k) % Q
    BY <1>1
<1> QED BY <1>2 DEF Step, ++, **

\* One more step after a step is a step.
LEMMA StepAfterStep ==
    ASSUME NEW h \in Int, NEW p \in Int, NEW e \in Int, NEW x \in Int, NEW y \in Int
    PROVE  Step(Step(h, p, e), x, y) = Step(h, Step(p, x, 0), Step(e, x, y))
<1> DEFINE hp == p * h
           u == x * ((p * h) + e)
<1>1. hp \in Int /\ hp + e \in Int /\ x * p \in Int /\ x * e \in Int /\ (x * e) + y \in Int
      /\ x * (hp + e) \in Int /\ (x * p) * h \in Int
    OBVIOUS
<1>2. Step(h, p, e) = (hp + e) % Q /\ Step(p, x, 0) = (x * p) % Q /\ Step(e, x, y) = ((x * e) + y) % Q
  <2>1. Step(p, x, 0) = ((x * p) + 0) % Q
      BY StepIs
  <2>2. (x * p) + 0 = x * p
      BY <1>1
  <2> QED BY <2>1, <2>2, StepIs
<1>3. (hp + e) % Q \in Int /\ (x * p) % Q \in Int /\ ((x * e) + y) % Q \in Int
    BY <1>1, QIsPositive, Remainder
<1>4. Step(Step(h, p, e), x, y) = ((x * (hp + e)) + y) % Q
  <2>1. (x * ((hp + e) % Q)) % Q = (x * (hp + e)) % Q
      BY <1>1, QIsPositive, RemainderInProduct
  <2>2. (((x * (hp + e)) % Q) + y) % Q = ((x * (hp + e)) + y) % Q
      BY <1>1, QIsPositive, RemainderInSum
  <2> QED BY <1>2, <2>1, <2>2 DEF Step, ++, **
<1>5. Step(h, Step(p, x, 0), Step(e, x, y)) = (((x * p) * h) + ((x * e) + y)) % Q
  <2>1. (((x * p) % Q) * h) % Q = ((x * p) * h) % Q
    <3>1. (h * ((x * p) % Q)) % Q = (h * (x * p)) % Q
        BY <1>1, QIsPositive, RemainderInProduct
    <3>2. h * (x * p) = (x * p) * h /\ h * ((x * p) % Q) = ((x * p) % Q) * h
        BY <1>1, <1>3, SMT
    <3> QED BY <3>1, <3>2
  <2> DEFINE v == (x * p) * h
             r == ((x * e) + y) % Q
             z == (x * e) + y
  <2>2. Step(h, Step(p, x, 0), Step(e, x, y)) = ((v % Q) + r) % Q
      BY <1>2, <2>1 DEF Step, ++, **
  <2>3. v \in Int /\ r \in Int /\ z \in Int /\ r = z % Q /\ v % Q \in Int
      BY <1>1, <1>3, QIsPositive, Remainder
  <2> HIDE DEF v, r, z
  <2>4. ((v % Q) + r) % Q = (v + r) % Q
      BY <2>3, QIsPositive, RemainderInSum
  <2>5. (v + r) % Q = (r + v) % Q
      BY <2>3
  <2>6. (r + v) % Q = (z + v) % Q
      BY <2>3, QIsPositive, RemainderInSum
  <2>7. z + v = v + z
      BY <2>3
  <2> QED BY <2>2, <2>4, <2>5, <2>6, <2>7 DEF v, z
<1>6. (x * (hp + e)) + y = ((x * p) * h) + ((x * e) + y)
    BY <1>1, SMT
<1> QED BY <1>4, <1>5, <1>6

-------------------------------------------------------------------------------
(* The same of whole runs.                                                     *)
Coefficients(a, b, f, n) == \A t \in f..n : a[t] \in Int /\ b[t] \in Int

LEMMA IntervalInduction ==
    ASSUME NEW i \in Nat, NEW n \in Nat, NEW S, i \in S,
           \A m \in (i + 1)..n : m - 1 \in S => m \in S
    PROVE  \A l \in i..n : l \in S
<1> SUFFICES ASSUME NEW l \in i..n, l \notin S PROVE FALSE
    OBVIOUS
<1>1. PICK x \in {m \in i..n : m \notin S} : \A y \in {m \in i..n : m \notin S} : x <= y
  <2>1. {m \in i..n : m \notin S} \in SUBSET Nat /\ {m \in i..n : m \notin S} # {}
      OBVIOUS
  <2> QED BY <2>1, LeastNatural
<1>2. x # i /\ x \in (i + 1)..n /\ x - 1 \in i..n
    BY <1>1
<1>3. x - 1 \in S
    BY <1>1, <1>2
<1> QED BY <1>1, <1>2, <1>3

LEMMA StateIn ==
    ASSUME NEW h0 \in Int, NEW a, NEW b, NEW f \in Nat \ {0}, NEW n \in Nat,
           Coefficients(a, b, f, n)
    PROVE  \A l \in (f - 1)..n : /\ StateAfter(h0, a, b, f, l) \in Int
                                 /\ l >= f => StateAfter(h0, a, b, f, l) \in 0..(Q - 1)
<1> DEFINE S == {l \in Nat : /\ StateAfter(h0, a, b, f, l) \in Int
                             /\ l >= f => StateAfter(h0, a, b, f, l) \in 0..(Q - 1)}
<1>1. PICK i \in Nat : i = f - 1
    OBVIOUS
<1>2. i \in S
    BY <1>1, StateStarts
<1>3. ASSUME NEW m \in (i + 1)..n, m - 1 \in S PROVE m \in S
  <2>1. m \in f..n /\ m \in Nat /\ m >= f
      BY <1>1
  <2>2. a[m] \in Int /\ b[m] \in Int
      BY <2>1 DEF Coefficients
  <2>3. StateAfter(h0, a, b, f, m - 1) \in Int
      BY <1>3
  <2>4. StateAfter(h0, a, b, f, m) = Step(StateAfter(h0, a, b, f, m - 1), a[m], b[m])
      BY <2>1, StateSteps
  <2>5. StateAfter(h0, a, b, f, m) \in 0..(Q - 1)
      BY <2>2, <2>3, <2>4, StepIn
  <2>6. StateAfter(h0, a, b, f, m) \in Int
      BY <2>5, QIsPositive
  <2> QED BY <2>1, <2>5, <2>6
<1> HIDE DEF S
<1>4. \A l \in i..n : l \in S
    BY <1>2, <1>3, IntervalInduction
<1> QED BY <1>1, <1>4 DEF S

LEMMA SameStates ==
    ASSUME NEW h \in Int, NEW k \in Int, h % Q = k % Q,
           NEW a, NEW b, NEW f \in Nat \ {0}, NEW n \in Nat, Coefficients(a, b, f, n)
    PROVE  \A l \in f..n : StateAfter(h, a, b, f, l) = StateAfter(k, a, b, f, l)
<1> DEFINE S == {l \in Nat : StateAfter(h, a, b, f, l) = StateAfter(k, a, b, f, l)}
<1> SUFFICES ASSUME n >= f PROVE \A l \in f..n : l \in S
    OBVIOUS
<1>1. f \in S
  <2>1. StateAfter(h, a, b, f, f - 1) = h /\ StateAfter(k, a, b, f, f - 1) = k
      BY StateStarts
  <2>2. f \in Nat /\ f >= f /\ f \in f..n
      OBVIOUS
  <2>3. /\ StateAfter(h, a, b, f, f) = Step(StateAfter(h, a, b, f, f - 1), a[f], b[f])
        /\ StateAfter(k, a, b, f, f) = Step(StateAfter(k, a, b, f, f - 1), a[f], b[f])
      BY <2>2, StateSteps
  <2>4. a[f] \in Int /\ b[f] \in Int
      BY <2>2 DEF Coefficients
  <2> QED BY <2>1, <2>3, <2>4, StepOfSame
<1>2. ASSUME NEW m \in (f + 1)..n, m - 1 \in S PROVE m \in S
  <2>1. m \in Nat /\ m >= f
      OBVIOUS
  <2>2. /\ StateAfter(h, a, b, f, m) = Step(StateAfter(h, a, b, f, m - 1), a[m], b[m])
        /\ StateAfter(k, a, b, f, m) = Step(StateAfter(k, a, b, f, m - 1), a[m], b[m])
      BY <2>1, StateSteps
  <2>3. StateAfter(h, a, b, f, m - 1) = StateAfter(k, a, b, f, m - 1)
      BY <1>2
  <2> QED BY <2>1, <2>2, <2>3
<1> HIDE DEF S
<1>3. f \in Nat
    OBVIOUS
<1> QED BY <1>1, <1>2, <1>3, IntervalInduction

\* A run may be cut after any step.
LEMMA Cut ==
    ASSUME NEW h, NEW a, NEW b, NEW i \in Nat, NEW g \in Nat \ {0}, g = i + 1,
           NEW k, k = StateAfter(h, a, b, 1, i), NEW l \in Nat, l >= i
    PROVE  StateAfter(h, a, b, 1, l) = StateAfter(k, a, b, g, l)
<1> DEFINE S == {m \in Nat : StateAfter(h, a, b, 1, m) = StateAfter(k, a, b, g, m)}
<1>1. i = g - 1
    OBVIOUS
<1>2. i \in S
    BY <1>1, StateStarts
<1>3. ASSUME NEW m \in (i + 1)..l, m - 1 \in S PROVE m \in S
  <2>1. m \in Nat /\ m >= 1 /\ m >= g
      BY <1>1
  <2>2. /\ StateAfter(h, a, b, 1, m) = Step(StateAfter(h, a, b, 1, m - 1), a[m], b[m])
        /\ StateAfter(k, a, b, g, m) = Step(StateAfter(k, a, b, g, m - 1), a[m], b[m])
      BY <2>1, StateSteps
  <2>3. StateAfter(h, a, b, 1, m - 1) = StateAfter(k, a, b, g, m - 1)
      BY <1>3
  <2> QED BY <2>1, <2>2, <2>3
<1> HIDE DEF S
<1>4. \A m \in i..l : m \in S
    BY <1>2, <1>3, IntervalInduction
<1> QED BY <1>4 DEF S

\* The end of a run from h, from the product and the end of the run from zero.
LEMMA RunIsAffine ==
    ASSUME NEW h \in Int, NEW a, NEW b, NEW z, NEW f \in Nat \ {0}, NEW n \in Nat,
           Coefficients(a, b, f, n), \A t \in f..n : z[t] = 0
    PROVE  \A l \in (f - 1)..n :
               Step(h, StateAfter(1, a, z, f, l), StateAfter(0, a, b, f, l))
               = StateAfter(h, a, b, f, l) % Q
<1> DEFINE S == {l \in Nat : Step(h, StateAfter(1, a, z, f, l), StateAfter(0, a, b, f, l))
                             = StateAfter(h, a, b, f, l) % Q}
<1>1. PICK i \in Nat : i = f - 1
    OBVIOUS
<1>2. i \in S
  <2>1. /\ StateAfter(1, a, z, f, i) = 1 /\ StateAfter(0, a, b, f, i) = 0
        /\ StateAfter(h, a, b, f, i) = h
      BY <1>1, StateStarts
  <2>2. Step(h, 1, 0) = ((1 * h) + 0) % Q
      BY StepIs
  <2>3. (1 * h) + 0 = h
      OBVIOUS
  <2> QED BY <2>1, <2>2, <2>3
<1>z. Coefficients(a, z, f, n)
    BY DEF Coefficients
<1>3. ASSUME NEW m \in (i + 1)..n, m - 1 \in S PROVE m \in S
  <2>1. m \in Nat /\ m >= f /\ m \in f..n /\ m \in (f - 1)..n /\ m - 1 \in (f - 1)..n
      BY <1>1
  <2> DEFINE p == StateAfter(1, a, z, f, m - 1)
             e == StateAfter(0, a, b, f, m - 1)
             s == StateAfter(h, a, b, f, m - 1)
  <2>2. p \in Int /\ e \in Int /\ s \in Int
      BY <1>z, <2>1, StateIn
  <2>3. /\ StateAfter(1, a, z, f, m) = Step(p, a[m], z[m])
        /\ StateAfter(0, a, b, f, m) = Step(e, a[m], b[m])
        /\ StateAfter(h, a, b, f, m) = Step(s, a[m], b[m])
      BY <2>1, StateSteps
  <2>4. Step(h, p, e) = s % Q
      BY <1>3
  <2> HIDE DEF p, e, s
  <2>5. a[m] \in Int /\ b[m] \in Int /\ z[m] = 0
      BY <2>1 DEF Coefficients
  <2>6. s % Q \in 0..(Q - 1)
      BY <2>2, QIsPositive, Remainder
  <2>7. (s % Q) % Q = s % Q /\ s % Q \in Int
      BY <2>6, QIsPositive, SmallRemainder
  <2>8. Step(s % Q, a[m], b[m]) = Step(s, a[m], b[m])
      BY <2>2, <2>5, <2>7, StepOfSame
  <2>9. Step(Step(h, p, e), a[m], b[m]) = Step(h, Step(p, a[m], 0), Step(e, a[m], b[m]))
      BY <2>2, <2>5, StepAfterStep
  <2>10. StateAfter(h, a, b, f, m) % Q = StateAfter(h, a, b, f, m)
    <3>1. StateAfter(h, a, b, f, m) \in 0..(Q - 1)
        BY <2>1, StateIn
    <3> QED BY <3>1, QIsPositive, SmallRemainder
  <2>11. Step(h, StateAfter(1, a, z, f, m), StateAfter(0, a, b, f, m)) = StateAfter(h, a, b, f, m)
      BY <2>3, <2>4, <2>5, <2>8, <2>9
  <2> QED BY <2>1, <2>10, <2>11
<1> HIDE DEF S
<1>4. \A l \in i..n : l \in S
    BY <1>2, <1>3, IntervalInduction
<1> QED BY <1>1, <1>4 DEF S

-------------------------------------------------------------------------------
(* The chunks of a scan of T steps cover it.                                   *)
LEMMA ChunksCover ==
    ASSUME NEW T \in Nat \ {0}
    PROVE  /\ ChunksOf(T) \in Nat \ {0} /\ ChunkSize(T) \in Nat \ {0}
           /\ ChunksOf(T) * ChunkSize(T) >= T
<1> DEFINE n == ChunksOf(T)
           x == T + n - 1
           s == x \div n
           ns == n * s
<1>1. n \in Nat \ {0}
    BY ScanAssumption DEF ScanAssumption, ChunksOf, LeastOf
<1> HIDE DEF n
<1>2. x \in Nat /\ s = ChunkSize(T)
    BY <1>1 DEF n, ChunkSize
<1>3. x % n \in 0..(n - 1) /\ s \in Int /\ x = ns + (x % n)
    BY <1>1, <1>2, Remainder
<1>4. ns \in Int
    BY <1>1, <1>3
<1>5. x = T + n - 1
    OBVIOUS
<1> HIDE DEF x, s, ns
<1>6. ns >= T
    BY <1>1, <1>3, <1>4, <1>5
<1>7. s > 0
  <2>1. ns = n * s
      BY DEF ns
  <2>2. s <= 0 => n * s <= 0
      BY <1>1, <1>3, SMT
  <2> QED BY <1>3, <1>6, <2>1, <2>2
<1> QED BY <1>1, <1>2, <1>3, <1>6, <1>7 DEF n, ns

\* The chunk a step is in.
LEMMA InItsChunk ==
    ASSUME NEW n \in Nat \ {0}, NEW s \in Nat \ {0}, NEW T \in Nat, n * s >= T, NEW t \in 1..T
    PROVE  /\ (t - 1) \div s \in 0..(n - 1)
           /\ ((t - 1) \div s) * s \in Nat /\ ((t - 1) \div s) * s < t
<1> DEFINE x == t - 1
           c == x \div s
           sc == s * c
<1>1. x \in Nat /\ x < T /\ x < t
    OBVIOUS
<1> HIDE DEF x
<1>2. x % s \in 0..(s - 1) /\ c \in Int /\ x = sc + (x % s)
    BY <1>1, Remainder
<1>3. sc \in Int /\ c * s = sc
  <2> HIDE DEF c
  <2> QED BY <1>2, SMT
<1> HIDE DEF c
<1>4. c >= 0
  <2>1. CASE c <= -1
    <3>1. s * c <= -s
        BY <1>2, <2>1, SMT
    <3> QED BY <1>1, <1>2, <1>3, <3>1
  <2> QED BY <1>2, <2>1
<1>5. c < n
  <2>1. CASE c >= n
    <3>1. s * c >= n * s
        BY <1>2, <2>1, SMT
    <3> QED BY <1>1, <1>2, <1>3, <3>1
  <2> QED BY <1>2, <2>1
<1>6. sc >= 0
    BY <1>2, <1>4, SMT
<1>7. sc < t /\ sc \in Nat
    BY <1>1, <1>2, <1>3, <1>6
<1>8. c \in 0..(n - 1)
    BY <1>2, <1>4, <1>5
<1> QED BY <1>3, <1>7, <1>8 DEF c, x

-------------------------------------------------------------------------------
(* The starts combined from the chunks' products and ends are, up to their     *)
(* residue, the states of the one-pass scan there.                             *)
LEMMA CombinedIs ==
    ASSUME NEW h0 \in Int, NEW a \in Seq(Int), NEW b \in Seq(Int), NEW T \in Nat \ {0},
           Len(a) = T, Len(b) = T
    PROVE  \A c \in 0..ChunksOf(T) :
               /\ Combined(h0, a, b, c) \in Int
               /\ Combined(h0, a, b, c) % Q
                  = StateAfter(h0, a, b, 1, LeastOf(T, c * ChunkSize(T))) % Q
<1> DEFINE n == ChunksOf(T)
           s == ChunkSize(T)
           p == [k \in 1..n |-> Product(a, ChunkFirst(T, k), ChunkLast(T, k))]
           e == [k \in 1..n |-> End(a, b, ChunkFirst(T, k), ChunkLast(T, k))]
           z == [t \in DOMAIN a |-> 0]
<1>1. n \in Nat \ {0} /\ s \in Nat \ {0}
    BY ChunksCover
<1>2. Coefficients(a, b, 1, T) /\ Coefficients(a, z, 1, T) /\ \A t \in 1..T : z[t] = 0
    BY DEF Coefficients
<1>3. \A c : Combined(h0, a, b, c) = StateAfter(h0, p, e, 1, c)
    BY DEF Combined
<1>4. ASSUME NEW k \in 1..n
      PROVE  /\ ChunkFirst(T, k) = ((k - 1) * s) + 1 /\ (k - 1) * s \in Nat
             /\ ChunkLast(T, k) = LeastOf(T, k * s) /\ k * s \in Nat
             /\ k * s = ((k - 1) * s) + s
  <2>1. k - 1 \in Nat /\ k \in Nat
      BY <1>1
  <2> HIDE DEF s, n
  <2>2. (k - 1) * s \in Nat /\ k * s \in Nat
      BY <1>1, <2>1, SMT
  <2>3. k * s = ((k - 1) * s) + s
      BY <1>1, <2>1, SMT
  <2> QED BY <2>2, <2>3 DEF s, ChunkFirst, ChunkLast
<1> HIDE DEF n, s, z
<1>5. ASSUME NEW k \in 1..n, ChunkFirst(T, k) <= ChunkLast(T, k)
      PROVE  /\ LeastOf(T, (k - 1) * s) = (k - 1) * s
             /\ ChunkFirst(T, k) \in Nat \ {0} /\ ChunkFirst(T, k) - 1 = (k - 1) * s
             /\ ChunkLast(T, k) \in ChunkFirst(T, k)..T
  <2>1. PICK u \in Nat : u = (k - 1) * s /\ ChunkFirst(T, k) = u + 1
      BY <1>4
  <2>2. PICK v \in Nat : v = k * s /\ v = u + s /\ ChunkLast(T, k) = LeastOf(T, v)
      BY <1>4, <2>1
  <2>3. u + 1 <= LeastOf(T, v)
      BY <1>5, <2>1, <2>2
  <2>4. LeastOf(T, u) = u /\ LeastOf(T, v) \in (u + 1)..T
      BY <2>3 DEF LeastOf
  <2> QED BY <2>1, <2>2, <2>4
<1>6. ASSUME NEW k \in 1..n, ~(ChunkFirst(T, k) <= ChunkLast(T, k))
      PROVE  LeastOf(T, (k - 1) * s) = T /\ LeastOf(T, k * s) = T
    BY <1>1, <1>4, <1>6 DEF LeastOf
<1>7. ASSUME NEW k \in 1..n, ChunkFirst(T, k) <= ChunkLast(T, k)
      PROVE  /\ p[k] = StateAfter(1, a, z, ChunkFirst(T, k), ChunkLast(T, k))
             /\ e[k] = StateAfter(0, a, b, ChunkFirst(T, k), ChunkLast(T, k))
  <2>1. ~(ChunkFirst(T, k) > ChunkLast(T, k))
      BY <1>4, <1>7 DEF LeastOf
  <2> QED BY <2>1 DEF z, Product, End
<1>8. ASSUME NEW k \in 1..n, ~(ChunkFirst(T, k) <= ChunkLast(T, k)) PROVE p[k] = 1 /\ e[k] = 0
  <2>1. ChunkFirst(T, k) > ChunkLast(T, k)
      BY <1>4, <1>8 DEF LeastOf
  <2> QED BY <2>1 DEF Product, End
<1> HIDE DEF p, e
<1>9. Coefficients(p, e, 1, n)
  <2> SUFFICES ASSUME NEW k \in 1..n PROVE p[k] \in Int /\ e[k] \in Int
      BY DEF Coefficients
  <2>1. CASE ChunkFirst(T, k) <= ChunkLast(T, k)
    <3>1. PICK f \in Nat \ {0}, l \in Nat : l \in f..T /\ f = ChunkFirst(T, k) /\ l = ChunkLast(T, k)
        BY <1>5, <2>1
    <3>2. Coefficients(a, b, f, T) /\ Coefficients(a, z, f, T) /\ l \in (f - 1)..T
        BY <1>2, <3>1 DEF Coefficients
    <3>3. StateAfter(1, a, z, f, l) \in Int /\ StateAfter(0, a, b, f, l) \in Int
        BY <3>2, StateIn
    <3> QED BY <1>7, <2>1, <3>1, <3>3
  <2>2. CASE ~(ChunkFirst(T, k) <= ChunkLast(T, k))
      BY <1>8, <2>2
  <2> QED BY <2>1, <2>2
<1>10. \A c \in 0..n : StateAfter(h0, p, e, 1, c) \in Int
  <2>1. \A c \in (1 - 1)..n : StateAfter(h0, p, e, 1, c) \in Int
      BY <1>1, <1>9, StateIn
  <2> QED BY <2>1
<1> DEFINE S == {c \in Nat : c <= n => StateAfter(h0, p, e, 1, c) % Q
                                       = StateAfter(h0, a, b, 1, LeastOf(T, c * s)) % Q}
<1>11. 0 \in S
  <2>1. StateAfter(h0, p, e, 1, 0) = h0 /\ StateAfter(h0, a, b, 1, 0) = h0
    <3>1. PICK f \in Nat \ {0} : f = 1 /\ f - 1 = 0
        OBVIOUS
    <3>2. StateAfter(h0, p, e, f, f - 1) = h0 /\ StateAfter(h0, a, b, f, f - 1) = h0
        BY StateStarts
    <3> QED BY <3>1, <3>2
  <2>2. 0 * s = 0 /\ LeastOf(T, 0) = 0
      BY <1>1 DEF LeastOf
  <2> QED BY <2>1, <2>2
<1>12. ASSUME NEW k \in (0 + 1)..n, k - 1 \in S PROVE k \in S
  <2>1. k \in 1..n /\ k \in Nat /\ k >= 1 /\ k - 1 \in 0..n
      BY <1>1
  <2> DEFINE st == StateAfter(h0, p, e, 1, k - 1)
             before == StateAfter(h0, a, b, 1, LeastOf(T, (k - 1) * s))
  <2>2. st \in Int /\ st % Q = before % Q
      BY <1>1, <1>10, <1>12, <2>1
  <2>3. StateAfter(h0, p, e, 1, k) = Step(st, p[k], e[k])
      BY <2>1, StateSteps
  <2>4. CASE ChunkFirst(T, k) <= ChunkLast(T, k)
    <3>1. PICK f \in Nat \ {0}, l \in Nat :
              /\ l \in f..T /\ f = ChunkFirst(T, k) /\ l = ChunkLast(T, k)
              /\ f - 1 = LeastOf(T, (k - 1) * s)
        BY <1>5, <2>1, <2>4
    <3>2. Coefficients(a, b, f, T) /\ \A t \in f..T : z[t] = 0
        BY <1>2, <3>1 DEF Coefficients
    <3>3. l \in (f - 1)..T /\ l \in f..T /\ f - 1 \in (1 - 1)..T /\ f >= 1
        BY <3>1
    <3>4. Step(st, StateAfter(1, a, z, f, l), StateAfter(0, a, b, f, l)) = StateAfter(st, a, b, f, l) % Q
        BY <2>2, <3>2, <3>3, RunIsAffine
    <3>5. before = StateAfter(h0, a, b, 1, f - 1)
        BY <3>1
    <3>6. before \in Int
        BY <1>2, <3>3, <3>5, StateIn
    <3> HIDE DEF st, before
    <3>7. StateAfter(st, a, b, f, l) = StateAfter(before, a, b, f, l)
        BY <2>2, <3>2, <3>3, <3>6, SameStates
    <3>8. StateAfter(before, a, b, f, l) = StateAfter(h0, a, b, 1, l)
      <4>1. PICK i \in Nat : i = f - 1 /\ f = i + 1 /\ l >= i
          BY <3>1
      <4>2. before = StateAfter(h0, a, b, 1, i)
          BY <3>5, <4>1
      <4> QED BY <4>1, <4>2, Cut
    <3>9. StateAfter(h0, p, e, 1, k) = StateAfter(h0, a, b, 1, l) % Q
        BY <1>7, <2>1, <2>3, <2>4, <3>1, <3>4, <3>7, <3>8
    <3>10. (StateAfter(h0, a, b, 1, l) % Q) % Q = StateAfter(h0, a, b, 1, l) % Q
      <4>1. l \in (1 - 1)..T
          BY <3>1
      <4>2. StateAfter(h0, a, b, 1, l) \in Int
          BY <1>2, <4>1, StateIn
      <4>3. StateAfter(h0, a, b, 1, l) % Q \in 0..(Q - 1)
          BY <4>2, QIsPositive, Remainder
      <4> QED BY <4>3, QIsPositive, SmallRemainder
    <3>11. l = LeastOf(T, k * s)
        BY <1>4, <2>1, <3>1
    <3> QED BY <2>1, <3>9, <3>10, <3>11
  <2>5. CASE ~(ChunkFirst(T, k) <= ChunkLast(T, k))
    <3>1. p[k] = 1 /\ e[k] = 0
        BY <1>8, <2>1, <2>5
    <3>2. LeastOf(T, (k - 1) * s) = LeastOf(T, k * s)
        BY <1>6, <2>1, <2>5
    <3> HIDE DEF st
    <3>3. Step(st, 1, 0) = ((1 * st) + 0) % Q /\ (1 * st) + 0 = st
        BY <2>2, StepIs
    <3>4. StateAfter(h0, p, e, 1, k) = st % Q
        BY <2>3, <3>1, <3>3
    <3>5. st % Q \in 0..(Q - 1)
        BY <2>2, QIsPositive, Remainder
    <3>6. (st % Q) % Q = st % Q
        BY <3>5, QIsPositive, SmallRemainder
    <3> QED BY <2>1, <2>2, <3>2, <3>4, <3>6
  <2> QED BY <2>4, <2>5
<1> HIDE DEF S
<1>13. \A c \in 0..n : c \in S
    BY <1>1, <1>11, <1>12, IntervalInduction
<1>14. ASSUME NEW c \in 0..n
       PROVE  StateAfter(h0, p, e, 1, c) % Q = StateAfter(h0, a, b, 1, LeastOf(T, c * s)) % Q
    BY <1>1, <1>13 DEF S
<1> QED BY <1>3, <1>10, <1>14 DEF n, s

(* The chunked scan computes the states of the one-pass scan from any first    *)
(* state, for any inputs, length of the sequence and number of chunks: the     *)
(* length need not be a multiple of a chunk's, and chunks may be empty.        *)
THEOREM ChunkedScanIsScan ==
    ASSUME NEW h0 \in Int, NEW a \in Seq(Int), NEW b \in Seq(Int), Len(a) = Len(b)
    PROVE  selective_scan_parallel(h0, a, b) = selective_scan_sequential(h0, a, b)
<1>0. PICK T \in Nat : Len(a) = T /\ Len(b) = T
    OBVIOUS
<1> DEFINE c(t) == (t - 1) \div ChunkSize(T)
           chunked == [t \in 1..T |-> StateAfter(Combined(h0, a, b, c(t)), a, b, ChunkFirst(T, c(t) + 1), t)]
           whole == [t \in 1..T |-> StateAfter(h0, a, b, 1, t)]
<1>1. ASSUME NEW t \in 1..T
      PROVE  StateAfter(Combined(h0, a, b, c(t)), a, b, ChunkFirst(T, c(t) + 1), t)
             = StateAfter(h0, a, b, 1, t)
  <2> DEFINE s == ChunkSize(T)
             n == ChunksOf(T)
             k == c(t)
  <2>1. T \in Nat \ {0} /\ t \in Nat
      OBVIOUS
  <2>2. n \in Nat \ {0} /\ s \in Nat \ {0} /\ n * s >= T
      BY <2>1, ChunksCover
  <2> HIDE DEF n, s
  <2>3. k \in 0..(n - 1) /\ k * s \in Nat /\ k * s < t
    <3>1. k = (t - 1) \div s
        BY DEF s
    <3> HIDE DEF k
    <3> QED BY <2>2, <3>1, InItsChunk
  <2> HIDE DEF c
  <2>4. PICK f \in Nat \ {0} : f = (k * s) + 1 /\ f - 1 = k * s /\ f >= 1 /\ t \in f..T /\ f - 1 \in (1 - 1)..T /\ t \in (f - 1)..T
      BY <2>3
  <2>5. ChunkFirst(T, k + 1) = f
    <3>1. (k + 1) - 1 = k
        BY <2>3
    <3> QED BY <2>4, <3>1 DEF ChunkFirst, s
  <2>6. LeastOf(T, k * s) = f - 1
      BY <2>4 DEF LeastOf
  <2>7. k \in 0..n
      BY <2>2, <2>3
  <2> DEFINE st == Combined(h0, a, b, k)
             before == StateAfter(h0, a, b, 1, f - 1)
  <2>8. st \in Int /\ st % Q = before % Q
    <3> HIDE DEF k
    <3>1. /\ Combined(h0, a, b, k) \in Int
          /\ Combined(h0, a, b, k) % Q = StateAfter(h0, a, b, 1, LeastOf(T, k * s)) % Q
        BY <1>0, <2>1, <2>7, CombinedIs DEF n, s
    <3> QED BY <2>6, <3>1
  <2>9. Coefficients(a, b, 1, T) /\ Coefficients(a, b, f, T)
      BY <1>0, <2>4 DEF Coefficients
  <2>10. before \in Int
      BY <2>4, <2>9, StateIn
  <2> HIDE DEF st, before
  <2>11. StateAfter(st, a, b, f, t) = StateAfter(before, a, b, f, t)
      BY <2>4, <2>8, <2>9, <2>10, SameStates
  <2>12. StateAfter(before, a, b, f, t) = StateAfter(h0, a, b, 1, t)
    <3>1. PICK i \in Nat : i = f - 1 /\ f = i + 1 /\ t >= i
        BY <2>4
    <3>2. before = StateAfter(h0, a, b, 1, i)
        BY <3>1 DEF before
    <3> QED BY <3>1, <3>2, Cut
  <2> QED BY <2>5, <2>11, <2>12 DEF st
<1>2. chunked = whole
    BY <1>1
<1>3. selective_scan_parallel(h0, a, b) = Tuple(chunked) /\ selective_scan_sequential(h0, a, b) = Tuple(whole)
    BY <1>0 DEF selective_scan_parallel, selective_scan_sequential
<1> QED BY <1>2, <1>3

-------------------------------------------------------------------------------
(* The inputs of the invariant are sequences of integers.                      *)
LEMMA TupleIs ==
    ASSUME NEW n \in Nat, NEW S, NEW f \in [1..n -> S]
    PROVE  Tuple(f) = f /\ f \in Seq(S) /\ Len(f) = n
<1>1. f \in Seq(S) /\ Len(f) = n
    OBVIOUS
<1>2. f \o <<>> = f
    BY <1>1
<1> QED BY <1>1, <1>2 DEF Tuple

LEMMA SampleIn ==
    ASSUME NEW s \in Int, NEW tag \in Int, NEW T \in Nat
    PROVE  Sample(s, tag, 1, T)[1] \in Seq(Int) /\ Len(Sample(s, tag, 1, T)[1]) = T
<1> DEFINE h(i, j) == ((31 * s) + (17 * tag) + (7 * i) + (3 * j) + 1) % P
           v(i, j) == ((h(i, j) * h(i, j) * h(i, j)) + (tag * h(i, j) * h(i, j))
                       + (i * j * h(i, j)) + s) % P
           rows == [i \in 1..1 |-> [j \in 1..T |-> v(i, j)]]
           row == [j \in 1..T |-> v(1, j) % Q]
<1>1. P \in Nat \ {0}
    BY PAssumption DEF PAssumption
<1>2. ASSUME NEW j \in 1..T PROVE v(1, j) % Q \in Int
  <2>1. (31 * s) + (17 * tag) + (7 * 1) + (3 * j) + 1 \in Int
      OBVIOUS
  <2>2. h(1, j) \in Int
      BY <1>1, <2>1, Remainder
  <2> DEFINE k == h(1, j)
             x == (k * k * k) + (tag * k * k) + (1 * j * k) + s
  <2>3. v(1, j) = x % P
      OBVIOUS
  <2>4. x \in Int
    <3>1. k \in Int /\ j \in Int
        BY <2>2
    <3> HIDE DEF k
    <3>2. k * k \in Int /\ tag * k \in Int /\ 1 * j \in Int
        BY <3>1, SMT
    <3>3. k * k * k \in Int /\ tag * k * k \in Int /\ 1 * j * k \in Int
        BY <3>1, <3>2, SMT
    <3> QED BY <3>3
  <2> HIDE DEF x, v
  <2>5. v(1, j) \in Int
      BY <1>1, <2>3, <2>4, Remainder
  <2> QED BY <2>5, QIsPositive, Remainder
<1> HIDE DEF v
<1>3. row \in [1..T -> Int]
    BY <1>2
<1>4. Tuple(row) = row /\ row \in Seq(Int) /\ Len(row) = T
    BY <1>3, TupleIs
<1>5. rows[1] = [j \in 1..T |-> v(1, j)] /\ DOMAIN rows = 1..1 /\ DOMAIN rows[1] = 1..T
    OBVIOUS
<1>6. Sample(s, tag, 1, T) = Matrix(rows)
    BY DEF Sample, v
<1> DEFINE m == [i \in 1..1 |-> Tuple([j \in DOMAIN rows[i] |-> rows[i][j] % Q])]
<1>7. Matrix(rows) = Tuple(m)
    BY <1>5 DEF Matrix
<1>8. [j \in DOMAIN rows[1] |-> rows[1][j] % Q] = row
    BY <1>5
<1>9. m[1] = row
    BY <1>4, <1>8
<1>10. m \in [1..1 -> {m[1]}]
    OBVIOUS
<1> HIDE DEF m
<1>11. Tuple(m) = m
    BY <1>10, TupleIs
<1> QED BY <1>4, <1>6, <1>7, <1>9, <1>11

LEMMA SeedStays == seed \in Seeds /\ [GradNext]_grad_vars => (seed \in Seeds)'
<1> SUFFICES ASSUME seed \in Seeds, [GradNext]_grad_vars PROVE seed' = seed
    OBVIOUS
<1>1. CASE PipelineMicro
    BY <1>1 DEF PipelineMicro, Backward
<1>2. CASE OptimizerStep
    BY <1>2 DEF OptimizerStep
<1>3. CASE Bounded
    BY <1>3 DEF Bounded, grad_vars
<1>4. CASE TrainBatch \/ distill_step \/ ppo_step
    BY <1>4 DEF TrainBatch, distill_step, ppo_step, ClearAndRun, Backward
<1>5. CASE \E b \in Of("train") : PipelineStart(b)
    BY <1>5 DEF PipelineStart
<1>6. CASE UNCHANGED grad_vars
    BY <1>6 DEF grad_vars
<1> QED BY <1>1, <1>2, <1>3, <1>4, <1>5, <1>6 DEF GradNext

LEMMA ScansAgree == seed \in Seeds => ScanChunked
<1> SUFFICES ASSUME seed \in Seeds, NEW T \in 1..(ManyFrom + 3)
             PROVE  LET a == Sample(seed, 80 + T, 1, T)[1]
                        b == Sample(seed, 81 + T, 1, T)[1]
                    IN  selective_scan_parallel(seed, a, b) = selective_scan_sequential(seed, a, b)
    BY DEF ScanChunked
<1> DEFINE a == Sample(seed, 80 + T, 1, T)[1]
           b == Sample(seed, 81 + T, 1, T)[1]
<1>1. seed \in Int
    BY GradientAssumption DEF GradientAssumption
<1>2. T \in Nat /\ 80 + T \in Int /\ 81 + T \in Int
    BY ScanAssumption DEF ScanAssumption
<1>3. a \in Seq(Int) /\ Len(a) = T
    BY <1>1, <1>2, SampleIn
<1>4. b \in Seq(Int) /\ Len(b) = T
    BY <1>1, <1>2, SampleIn
<1> HIDE DEF a, b
<1>5. selective_scan_parallel(seed, a, b) = selective_scan_sequential(seed, a, b)
    BY <1>1, <1>3, <1>4, ChunkedScanIsScan
<1> QED BY <1>5 DEF a, b

(* Whatever backward was called with, the chunked scan computes the states of  *)
(* the one-pass scan: ScanChunked, for every modulus and numbers of chunks.    *)
THEOREM ScansCorrect == GradSpec => []ScanChunked
<1>1. GradInit => seed \in Seeds
    BY DEF GradInit
<1> QED BY <1>1, SeedStays, ScansAgree, PTL DEF GradSpec

-----------------------------------------------------------------------------
(***************************************************************************)
(* Flash attention.                                                        *)
(***************************************************************************)
-------------------------------------------------------------------------------
(* Functions that recur from i, the value at t being F of <<t, value at t - 1>>. *)
At(F, t, x) == F[<<t, x>>]
StepsOver(F, D, i, n) == \A t \in (i + 1)..n : \A x \in D : At(F, t, x) \in D
Val(h, t) == h[t]
Steps(F, D, x0, i, n, h) ==
    /\ h \in [i..n -> D] /\ Val(h, i) = x0
    /\ \A t \in (i + 1)..n : Val(h, t) = At(F, t, Val(h, t - 1))
Recurs(F, D, x0, i, n, h) ==
    /\ Val(h, i) = x0
    /\ \A t \in (i + 1)..n : Val(h, t - 1) \in D => Val(h, t) = At(F, t, Val(h, t - 1))

LEMMA AtIn ==
    ASSUME NEW F, NEW D, NEW i \in Nat, NEW n \in Nat, StepsOver(F, D, i, n),
           NEW t \in (i + 1)..n, NEW x \in D
    PROVE  At(F, t, x) \in D
BY DEF StepsOver

LEMMA RecursiveExists ==
    ASSUME NEW F, NEW D, NEW x0 \in D, NEW i \in Nat, NEW n \in Nat, n >= i, StepsOver(F, D, i, n)
    PROVE  \E h : Steps(F, D, x0, i, n, h)
<1> DEFINE Good(l, h) == /\ h \in [i..l -> D] /\ Val(h, i) = x0
                         /\ \A t \in (i + 1)..l : Val(h, t) = At(F, t, Val(h, t - 1))
           S == {l \in Nat : \E h : Good(l, h)}
<1>1. i \in S
  <2> DEFINE h == [t \in i..i |-> x0]
  <2>1. h \in [i..i -> D] /\ Val(h, i) = x0
      BY DEF Val
  <2>2. Good(i, h)
      BY <2>1
  <2> QED BY <2>2
<1>2. ASSUME NEW m \in (i + 1)..n, m - 1 \in S PROVE m \in S
  <2>1. PICK g : Good(m - 1, g)
      BY <1>2
  <2> DEFINE h == [t \in i..m |-> IF t = m THEN At(F, m, Val(g, m - 1)) ELSE Val(g, t)]
  <2>2. m \in Nat /\ m - 1 \in i..(m - 1) /\ i \in i..(m - 1)
      OBVIOUS
  <2>3. \A t \in i..(m - 1) : Val(g, t) \in D
      BY <2>1 DEF Val
  <2>4. At(F, m, Val(g, m - 1)) \in D
      BY <2>2, <2>3, AtIn
  <2>5. h \in [i..m -> D]
      BY <2>3, <2>4
  <2>6. \A t \in i..m : Val(h, t) = IF t = m THEN At(F, m, Val(g, m - 1)) ELSE Val(g, t)
      BY DEF Val
  <2> HIDE DEF h
  <2>7. Val(h, i) = x0
      BY <2>1, <2>2, <2>6
  <2>8. ASSUME NEW t \in (i + 1)..m PROVE Val(h, t) = At(F, t, Val(h, t - 1))
    <3>1. t - 1 \in i..m /\ t - 1 # m /\ t \in i..m
        BY <2>2
    <3>2. Val(h, t - 1) = Val(g, t - 1)
        BY <2>6, <3>1
    <3>3. CASE t = m
        BY <2>6, <3>1, <3>2, <3>3
    <3>4. CASE t # m
      <4>1. t \in (i + 1)..(m - 1)
          BY <2>2, <3>4
      <4>2. Val(g, t) = At(F, t, Val(g, t - 1))
          BY <2>1, <4>1
      <4> QED BY <2>6, <3>1, <3>2, <3>4, <4>2
    <3> QED BY <3>3, <3>4
  <2>9. Good(m, h)
      BY <2>5, <2>7, <2>8
  <2> QED BY <2>2, <2>9
<1> HIDE DEF S
<1>3. n \in S
    BY <1>1, <1>2, IntervalInduction
<1> QED BY <1>3 DEF S, Steps

LEMMA RecursiveAgree ==
    ASSUME NEW F, NEW D, NEW x0 \in D, NEW i \in Nat, NEW n \in Nat, StepsOver(F, D, i, n),
           NEW g, NEW h, Recurs(F, D, x0, i, n, g), Recurs(F, D, x0, i, n, h)
    PROVE  \A t \in i..n : Val(g, t) \in D /\ Val(h, t) = Val(g, t)
<1> DEFINE S == {t \in Nat : Val(g, t) \in D /\ Val(h, t) = Val(g, t)}
<1>1. i \in S
    BY DEF Recurs
<1>2. ASSUME NEW m \in (i + 1)..n, m - 1 \in S PROVE m \in S
  <2>1. Val(g, m - 1) \in D /\ Val(h, m - 1) = Val(g, m - 1) /\ m \in Nat
      BY <1>2
  <2>2. Val(g, m) = At(F, m, Val(g, m - 1)) /\ Val(h, m) = At(F, m, Val(h, m - 1))
      BY <2>1 DEF Recurs
  <2>3. At(F, m, Val(g, m - 1)) \in D
      BY <2>1, AtIn
  <2> QED BY <2>1, <2>2, <2>3
<1> HIDE DEF S
<1>3. \A t \in i..n : t \in S
    BY <1>1, <1>2, IntervalInduction
<1> QED BY <1>3 DEF S

\* A family of runs that end later and later.
LEMMA FamilySteps ==
    ASSUME NEW F, NEW D, NEW x0 \in D, NEW i \in Nat, NEW n \in Nat, StepsOver(F, D, i, n), NEW R,
           \A l \in i..n : Recurs(F, D, x0, i, l, Val(R, l))
    PROVE  \A l \in i..n : /\ Val(Val(R, l), l) \in D
                           /\ l = i => Val(Val(R, l), l) = x0
                           /\ l > i => Val(Val(R, l), l) = At(F, l, Val(Val(R, l - 1), l - 1))
<1> SUFFICES ASSUME NEW l \in i..n
             PROVE  /\ Val(Val(R, l), l) \in D
                    /\ l = i => Val(Val(R, l), l) = x0
                    /\ l > i => Val(Val(R, l), l) = At(F, l, Val(Val(R, l - 1), l - 1))
    OBVIOUS
<1> DEFINE h == Val(R, l)
<1>1. l \in Nat /\ l \in i..l /\ StepsOver(F, D, i, l)
    BY DEF StepsOver
<1>2. Recurs(F, D, x0, i, l, h)
    OBVIOUS
<1> HIDE DEF h
<1>3. \A t \in i..l : Val(h, t) \in D /\ Val(h, t) = Val(h, t)
    BY <1>1, <1>2, RecursiveAgree
<1>4. Val(h, l) \in D
    BY <1>1, <1>3
<1>5. l = i => Val(h, l) = x0
    BY <1>2 DEF Recurs
<1>6. ASSUME l > i PROVE Val(h, l) = At(F, l, Val(Val(R, l - 1), l - 1))
  <2>1. PICK k \in Nat : k = l - 1 /\ k \in i..n /\ k \in i..k /\ k \in i..l
      BY <1>6
  <2>2. StepsOver(F, D, i, k) /\ Recurs(F, D, x0, i, k, h)
      BY <1>2, <2>1 DEF StepsOver, Recurs
  <2> DEFINE g == Val(R, k)
  <2>3. Recurs(F, D, x0, i, k, g)
      BY <2>1
  <2> HIDE DEF g
  <2>4. \A t \in i..k : Val(g, t) \in D /\ Val(h, t) = Val(g, t)
      BY <2>2, <2>3, RecursiveAgree
  <2>5. Val(h, k) = Val(g, k) /\ Val(h, k) \in D
      BY <2>1, <2>4
  <2>6. l \in (i + 1)..l
      BY <1>6
  <2>7. Val(h, l - 1) \in D => Val(h, l) = At(F, l, Val(h, l - 1))
      BY <1>2, <2>6 DEF Recurs
  <2> QED BY <2>1, <2>5, <2>7 DEF g
<1> QED BY <1>4, <1>5, <1>6 DEF h

-------------------------------------------------------------------------------
(* The ring of the residues modulo Q.                                          *)
Z == 0..(Q - 1)

LEMMA InZ ==
    ASSUME NEW x \in Int, NEW y \in Int
    PROVE  x % Q \in Z /\ (x ++ y) \in Z /\ (x ** y) \in Z
<1>1. x + y \in Int /\ x * y \in Int
    OBVIOUS
<1> QED BY <1>1, QIsPositive, Remainder DEF Z, ++, **

LEMMA ZIsInt == Z \subseteq Int /\ 0 \in Z /\ 1 \in Z
<1>1. P \in Nat /\ P > 2
    BY PAssumption DEF PAssumption
<1>2. P * P > 1
    BY <1>1, SMT
<1>3. Q \in Nat /\ Q > 1
    BY <1>1, <1>2, QIsPositive DEF Q
<1> QED BY <1>3 DEF Z

LEMMA Reduced ==
    ASSUME NEW x \in Z
    PROVE  x % Q = x
BY QIsPositive, SmallRemainder DEF Z

LEMMA PlusReduced ==
    ASSUME NEW x \in Int, NEW y \in Int
    PROVE  ((x % Q) ++ y) = (x ++ y) /\ (x ++ (y % Q)) = (x ++ y)
<1>1. x % Q \in Int /\ y % Q \in Int
    BY InZ, ZIsInt
<1>2. ((x % Q) + y) % Q = (x + y) % Q /\ ((y % Q) + x) % Q = (y + x) % Q
    BY QIsPositive, RemainderInSum
<1>3. (y % Q) + x = x + (y % Q) /\ y + x = x + y
    BY <1>1
<1> QED BY <1>2, <1>3 DEF ++

LEMMA TimesReduced ==
    ASSUME NEW x \in Int, NEW y \in Int
    PROVE  ((x % Q) ** y) = (x ** y) /\ (x ** (y % Q)) = (x ** y)
<1>1. x % Q \in Int /\ y % Q \in Int
    BY InZ, ZIsInt
<1>2. (x * (y % Q)) % Q = (x * y) % Q /\ (y * (x % Q)) % Q = (y * x) % Q
    BY QIsPositive, RemainderInProduct
<1>3. y * (x % Q) = (x % Q) * y /\ y * x = x * y
    BY <1>1, SMT
<1> QED BY <1>2, <1>3 DEF **

LEMMA SumOfProduct ==
    ASSUME NEW x \in Int, NEW y \in Int, NEW z \in Int
    PROVE  (x + (y * z)) % Q = (x ++ (y ** z))
<1>1. y * z \in Int
    OBVIOUS
<1>2. (x ++ ((y * z) % Q)) = (x ++ (y * z))
    BY <1>1, PlusReduced
<1> QED BY <1>2 DEF ++, **

LEMMA PlusCommutes ==
    ASSUME NEW x \in Int, NEW y \in Int
    PROVE  (x ++ y) = (y ++ x)
<1>1. x + y = y + x
    OBVIOUS
<1> QED BY <1>1 DEF ++

LEMMA TimesCommutes ==
    ASSUME NEW x \in Int, NEW y \in Int
    PROVE  (x ** y) = (y ** x)
<1>1. x * y = y * x
    BY SMT
<1> QED BY <1>1 DEF **

LEMMA PlusAssociates ==
    ASSUME NEW x \in Int, NEW y \in Int, NEW z \in Int
    PROVE  ((x ++ y) ++ z) = (x ++ (y ++ z))
<1>1. x + y \in Int /\ y + z \in Int /\ (x + y) + z = x + (y + z)
    OBVIOUS
<1>2. (((x + y) % Q) ++ z) = ((x + y) ++ z) /\ (x ++ ((y + z) % Q)) = (x ++ (y + z))
    BY <1>1, PlusReduced
<1> QED BY <1>1, <1>2 DEF ++

LEMMA TimesAssociates ==
    ASSUME NEW x \in Int, NEW y \in Int, NEW z \in Int
    PROVE  ((x ** y) ** z) = (x ** (y ** z))
<1>1. x * y \in Int /\ y * z \in Int /\ (x * y) * z = x * (y * z)
    BY SMT
<1>2. (((x * y) % Q) ** z) = ((x * y) ** z) /\ (x ** ((y * z) % Q)) = (x ** (y * z))
    BY <1>1, TimesReduced
<1> QED BY <1>1, <1>2 DEF **

LEMMA TimesDistributes ==
    ASSUME NEW x \in Int, NEW y \in Int, NEW z \in Int
    PROVE  (x ** (y ++ z)) = ((x ** y) ++ (x ** z))
<1>1. y + z \in Int /\ x * y \in Int /\ x * z \in Int /\ x * (y + z) = (x * y) + (x * z)
    BY SMT
<1>2. (x ** ((y + z) % Q)) = (x ** (y + z))
    BY <1>1, TimesReduced
<1>3. (((x * y) % Q) ++ ((x * z) % Q)) = ((x * y) ++ (x * z))
  <2>1. (x * z) % Q \in Int
      BY <1>1, InZ, ZIsInt
  <2> QED BY <1>1, <2>1, PlusReduced
<1>4. (x ** (y + z)) = ((x * y) ++ (x * z))
    BY <1>1 DEF **, ++
<1>5. (x ** (y ++ z)) = (x ** ((y + z) % Q))
    BY DEF ++
<1> QED BY <1>2, <1>3, <1>4, <1>5 DEF **

LEMMA Units ==
    ASSUME NEW x \in Z
    PROVE  /\ (x ++ 0) = x /\ (0 ++ x) = x
           /\ (x ** 1) = x /\ (1 ** x) = x
           /\ (x ** 0) = 0 /\ (0 ** x) = 0
<1>1. x \in Int /\ x % Q = x /\ 0 % Q = 0
    BY ZIsInt, Reduced
<1>2. x + 0 = x /\ 0 + x = x /\ x * 1 = x /\ 1 * x = x /\ x * 0 = 0 /\ 0 * x = 0
    BY <1>1
<1> QED BY <1>1, <1>2 DEF ++, **

-------------------------------------------------------------------------------
(* Sums.                                                                       *)
Leading(ws, n) == [j \in 1..n |-> ws[j]]
SumTo(ws, n) == Total(Leading(ws, n))
Integral(ws, n) == \A j \in 1..n : ws[j] \in Int
SumEq(ws, n, sum) == sum = [k \in 0..n |-> IF k = 0 THEN 0 ELSE (sum[k - 1] + Leading(ws, n)[k]) % Q]
Adding(ws, n) == [p \in (1..n) \X Z |-> (p[2] ++ ws[p[1]])]

LEMMA AddingAt ==
    ASSUME NEW ws, NEW n \in Nat, NEW t \in 1..n, NEW x \in Z
    PROVE  At(Adding(ws, n), t, x) = (x ++ ws[t])
<1>1. <<t, x>> \in (1..n) \X Z
    OBVIOUS
<1> QED BY <1>1 DEF At, Adding

LEMMA AddingOver ==
    ASSUME NEW ws, NEW n \in Nat, Integral(ws, n)
    PROVE  StepsOver(Adding(ws, n), Z, 0, n)
<1> SUFFICES ASSUME NEW t \in (0 + 1)..n, NEW x \in Z PROVE At(Adding(ws, n), t, x) \in Z
    BY DEF StepsOver
<1>1. t \in 1..n /\ x \in Int /\ ws[t] \in Int
    BY ZIsInt DEF Integral
<1> QED BY <1>1, AddingAt, InZ

LEMMA SumRuns ==
    ASSUME NEW ws, NEW N \in Nat, Integral(ws, N), NEW n \in 0..N
    PROVE  \E h : Recurs(Adding(ws, N), Z, 0, 0, n, h) /\ SumTo(ws, n) = Val(h, n)
<1>1. Leading(ws, n) \in [1..n -> Int] /\ n \in Nat
    BY DEF Leading, Integral
<1>2. Tuple(Leading(ws, n)) = Leading(ws, n) /\ Len(Leading(ws, n)) = n
    BY <1>1, TupleIs
<1>3. SumTo(ws, n) = (CHOOSE sum : SumEq(ws, n, sum))[n]
    BY <1>2 DEF SumTo, Total, SumEq
<1>4. \E sum : SumEq(ws, n, sum)
  <2>1. Integral(ws, n)
      BY DEF Integral
  <2>2. PICK h \in [0..n -> Z] :
            /\ Val(h, 0) = 0
            /\ \A t \in (0 + 1)..n : Val(h, t) = At(Adding(ws, n), t, Val(h, t - 1))
    <3> DEFINE F == Adding(ws, n)
    <3>1. PICK i \in Nat : i = 0
        OBVIOUS
    <3>2. n \in Nat /\ n >= i /\ 0 \in Z /\ StepsOver(F, Z, i, n)
        BY <1>1, <2>1, <3>1, ZIsInt, AddingOver
    <3>3. PICK x \in Z : x = 0
        BY ZIsInt
    <3> HIDE DEF F
    <3>4. \E h : Steps(F, Z, x, i, n, h)
        BY <3>2, RecursiveExists
    <3> QED BY <3>1, <3>3, <3>4 DEF F, Steps
  <2>3. ASSUME NEW k \in 0..n
        PROVE  h[k] = IF k = 0 THEN 0 ELSE (h[k - 1] + Leading(ws, n)[k]) % Q
    <3>1. CASE k = 0
        BY <2>2, <3>1 DEF Val
    <3>2. CASE k # 0
      <4>1. k \in 1..n /\ k - 1 \in 0..n /\ k \in (0 + 1)..n
          BY <3>2
      <4>2. Val(h, k - 1) \in Z
          BY <4>1 DEF Val
      <4>3. Val(h, k) = (Val(h, k - 1) ++ ws[k])
          BY <1>1, <2>2, <4>1, <4>2, AddingAt
      <4> QED BY <3>2, <4>1, <4>3 DEF Val, Leading, ++
    <3> QED BY <3>1, <3>2
  <2>4. h = [k \in 0..n |-> h[k]]
      OBVIOUS
  <2> QED BY <2>3, <2>4 DEF SumEq
<1> DEFINE g == CHOOSE sum : SumEq(ws, n, sum)
<1>5. SumEq(ws, n, g)
    BY <1>4
<1> HIDE DEF g
<1>6. \A k \in 0..n : g[k] = IF k = 0 THEN 0 ELSE (g[k - 1] + Leading(ws, n)[k]) % Q
    BY <1>5, Zenon DEF SumEq
<1>7. Recurs(Adding(ws, N), Z, 0, 0, n, g)
  <2>1. Val(g, 0) = 0
      BY <1>1, <1>6 DEF Val
  <2>2. ASSUME NEW t \in (0 + 1)..n, Val(g, t - 1) \in Z
        PROVE  Val(g, t) = At(Adding(ws, N), t, Val(g, t - 1))
    <3>1. t \in 1..n /\ t \in 1..N /\ t \in 0..n /\ t # 0
        BY <1>1
    <3>2. Val(g, t) = (Val(g, t - 1) + ws[t]) % Q
        BY <1>6, <3>1 DEF Val, Leading
    <3> QED BY <2>2, <3>1, <3>2, AddingAt DEF ++
  <2> QED BY <2>1, <2>2 DEF Recurs
<1> QED BY <1>3, <1>7 DEF g, Val

LEMMA SumSteps ==
    ASSUME NEW ws, NEW N \in Nat, Integral(ws, N)
    PROVE  \A n \in 0..N : /\ SumTo(ws, n) \in Z
                           /\ n = 0 => SumTo(ws, n) = 0
                           /\ n > 0 => SumTo(ws, n) = (SumTo(ws, n - 1) ++ ws[n])
<1> DEFINE F == Adding(ws, N)
           Fits(n, h) == Recurs(F, Z, 0, 0, n, h) /\ SumTo(ws, n) = Val(h, n)
           R == [n \in 0..N |-> CHOOSE h : Fits(n, h)]
<1>1. ASSUME NEW n \in 0..N PROVE Recurs(F, Z, 0, 0, n, Val(R, n)) /\ SumTo(ws, n) = Val(Val(R, n), n)
  <2>1. \E h : Fits(n, h)
      BY SumRuns
  <2>2. Fits(n, CHOOSE h : Fits(n, h))
      BY <2>1
  <2>3. Val(R, n) = CHOOSE h : Fits(n, h)
      BY DEF Val
  <2> QED BY <2>2, <2>3
<1>2. StepsOver(F, Z, 0, N)
    BY AddingOver
<1> HIDE DEF F, R
<1>3. \A n \in 0..N : /\ Val(Val(R, n), n) \in Z
                      /\ n = 0 => Val(Val(R, n), n) = 0
                      /\ n > 0 => Val(Val(R, n), n) = At(F, n, Val(Val(R, n - 1), n - 1))
  <2>1. 0 \in Z /\ 0 \in Nat /\ \A n \in 0..N : Recurs(F, Z, 0, 0, n, Val(R, n))
      BY <1>1, ZIsInt
  <2> QED BY <1>2, <2>1, FamilySteps
<1> SUFFICES ASSUME NEW n \in 0..N
             PROVE  /\ SumTo(ws, n) \in Z
                    /\ n = 0 => SumTo(ws, n) = 0
                    /\ n > 0 => SumTo(ws, n) = (SumTo(ws, n - 1) ++ ws[n])
    OBVIOUS
<1>4. n > 0 => n - 1 \in 0..N /\ n \in 1..N
    OBVIOUS
<1>5. n > 0 => At(F, n, SumTo(ws, n - 1)) = (SumTo(ws, n - 1) ++ ws[n])
  <2>1. n > 0 => SumTo(ws, n - 1) \in Z
      BY <1>1, <1>3, <1>4
  <2> QED BY <1>4, <2>1, AddingAt DEF F
<1> QED BY <1>1, <1>3, <1>4, <1>5

LEMMA SumScaled ==
    ASSUME NEW n \in Nat, NEW c \in Int, NEW u, NEW ws, Integral(u, n), Integral(ws, n),
           \A j \in 1..n : u[j] % Q = (c ** ws[j])
    PROVE  SumTo(u, n) = (c ** SumTo(ws, n))
<1> DEFINE S == {k \in Nat : SumTo(u, k) = (c ** SumTo(ws, k))}
<1>1. \A k \in 0..n : /\ SumTo(u, k) \in Z
                      /\ k = 0 => SumTo(u, k) = 0
                      /\ k > 0 => SumTo(u, k) = (SumTo(u, k - 1) ++ u[k])
    BY SumSteps
<1>2. \A k \in 0..n : /\ SumTo(ws, k) \in Z
                      /\ k = 0 => SumTo(ws, k) = 0
                      /\ k > 0 => SumTo(ws, k) = (SumTo(ws, k - 1) ++ ws[k])
    BY SumSteps
<1>3. 0 \in S
  <2>1. c * 0 = 0 /\ 0 % Q = 0
      BY ZIsInt, Reduced
  <2> QED BY <1>1, <1>2, <2>1 DEF **
<1>4. ASSUME NEW m \in (0 + 1)..n, m - 1 \in S PROVE m \in S
  <2>1. PICK k \in Nat : k = m - 1 /\ k \in 0..n /\ m \in 0..n /\ m \in 1..n /\ m > 0 /\ m \in Nat
      BY <1>4
  <2> DEFINE x == u[m]
             y == ws[m]
             U == SumTo(u, k)
             W == SumTo(ws, k)
  <2>2. x \in Int /\ y \in Int /\ x % Q = (c ** y)
      BY <2>1 DEF Integral
  <2>3. U \in Int /\ W \in Int /\ U = (c ** W)
      BY <1>1, <1>2, <1>4, <2>1, ZIsInt
  <2>4. SumTo(u, m) = (U ++ x) /\ SumTo(ws, m) = (W ++ y)
      BY <1>1, <1>2, <2>1
  <2> HIDE DEF x, y, U, W
  <2>5. (U ++ (x % Q)) = (U ++ x)
      BY <2>2, <2>3, PlusReduced
  <2>6. (c ** (W ++ y)) = ((c ** W) ++ (c ** y))
      BY <2>2, <2>3, TimesDistributes
  <2>7. SumTo(u, m) = (c ** SumTo(ws, m))
      BY <2>2, <2>3, <2>4, <2>5, <2>6
  <2> QED BY <2>1, <2>7
<1> HIDE DEF S
<1>5. \A k \in 0..n : k \in S
  <2>1. PICK i \in Nat : i = 0
      OBVIOUS
  <2>2. i \in S /\ \A m \in (i + 1)..n : m - 1 \in S => m \in S
      BY <1>3, <1>4, <2>1
  <2>3. \A k \in i..n : k \in S
      BY <2>2, IntervalInduction
  <2> QED BY <2>1, <2>3
<1> QED BY <1>5 DEF S

LEMMA SumSplit ==
    ASSUME NEW k \in Nat, NEW n \in Nat, k <= n, NEW u, NEW v, Integral(u, n),
           \A j \in 1..(n - k) : v[j] = u[k + j]
    PROVE  SumTo(u, n) = (SumTo(u, k) ++ SumTo(v, n - k))
<1> DEFINE S == {m \in Nat : SumTo(u, m) = (SumTo(u, k) ++ SumTo(v, m - k))}
<1>1. \A m \in 0..n : /\ SumTo(u, m) \in Z
                      /\ m = 0 => SumTo(u, m) = 0
                      /\ m > 0 => SumTo(u, m) = (SumTo(u, m - 1) ++ u[m])
    BY SumSteps
<1>2. PICK d \in Nat : d = n - k
    OBVIOUS
<1>3. Integral(v, d)
    BY <1>2 DEF Integral
<1>4. \A m \in 0..d : /\ SumTo(v, m) \in Z
                      /\ m = 0 => SumTo(v, m) = 0
                      /\ m > 0 => SumTo(v, m) = (SumTo(v, m - 1) ++ v[m])
    BY <1>3, SumSteps
<1>5. SumTo(u, k) \in Z
    BY <1>1
<1>6. k \in S
  <2>1. SumTo(v, k - k) = 0
      BY <1>2, <1>4
  <2> QED BY <1>5, <2>1, Units
<1>7. ASSUME NEW m \in (k + 1)..n, m - 1 \in S PROVE m \in S
  <2>1. PICK p \in Nat : p = m - 1 /\ p \in 0..n /\ m \in 0..n /\ m > 0 /\ m \in Nat
      BY <1>7
  <2>2. PICK e \in Nat : e = m - k /\ e \in 0..d /\ e > 0 /\ e \in 1..(n - k) /\ k + e = m /\ e - 1 = p - k /\ e - 1 \in 0..d
      BY <1>2, <1>7, <2>1
  <2> DEFINE x == u[m]
             H == SumTo(u, k)
             W == SumTo(v, e - 1)
  <2>3. x \in Int /\ v[e] = x
      BY <1>7, <2>2 DEF Integral
  <2>4. H \in Int /\ W \in Int
      BY <1>4, <1>5, <2>2, ZIsInt
  <2>5. SumTo(u, p) = (H ++ W)
      BY <1>7, <2>1, <2>2
  <2>6. SumTo(u, m) = ((H ++ W) ++ x)
      BY <1>1, <2>1, <2>5
  <2>7. SumTo(v, m - k) = (W ++ x)
      BY <1>4, <2>2, <2>3
  <2> HIDE DEF x, H, W
  <2>8. SumTo(u, m) = (H ++ SumTo(v, m - k))
      BY <2>3, <2>4, <2>6, <2>7, PlusAssociates
  <2> QED BY <2>1, <2>8 DEF H
<1> HIDE DEF S
<1>8. \A m \in k..n : m \in S
    BY <1>6, <1>7, IntervalInduction
<1>9. n \in S
    BY <1>8
<1> QED BY <1>9 DEF S

-------------------------------------------------------------------------------
(* The running maximum.                                                        *)
Scores(s, n) == \A j \in 1..n : s[j] \in Int
MaxEq(s, i, l, max) ==
    max = [j \in ((i + 1) - 1)..l |-> IF j < i + 1 THEN NoScore ELSE Larger(max[j - 1], s[j])]
Raising(s, n) == [p \in (1..n) \X Int |-> Larger(p[2], s[p[1]])]

LEMMA RaisingAt ==
    ASSUME NEW s, NEW n \in Nat, NEW t \in 1..n, NEW x \in Int
    PROVE  At(Raising(s, n), t, x) = Larger(x, s[t])
<1>1. <<t, x>> \in (1..n) \X Int
    OBVIOUS
<1> QED BY <1>1 DEF At, Raising

LEMMA RaisingOver ==
    ASSUME NEW s, NEW n \in Nat, Scores(s, n), NEW i \in Nat
    PROVE  StepsOver(Raising(s, n), Int, i, n)
<1> SUFFICES ASSUME NEW t \in (i + 1)..n, NEW x \in Int PROVE At(Raising(s, n), t, x) \in Int
    BY DEF StepsOver
<1>1. t \in 1..n /\ s[t] \in Int
    BY DEF Scores
<1> QED BY <1>1, RaisingAt DEF Larger

LEMMA MaxRuns ==
    ASSUME NEW s, NEW N \in Nat, Scores(s, N), NEW i \in 0..N, NEW n \in i..N
    PROVE  \E h : Recurs(Raising(s, N), Int, NoScore, i, n, h) /\ MaxOf(s, i + 1, n) = Val(h, n)
<1>1. n \in Nat /\ i \in Nat /\ n >= i /\ NoScore \in Int
    BY DEF NoScore
<1>2. MaxOf(s, i + 1, n) = (CHOOSE max : MaxEq(s, i, n, max))[n]
    BY DEF MaxOf, MaxEq
<1>3. \E max : MaxEq(s, i, n, max)
  <2> DEFINE F == Raising(s, n)
             x == NoScore
  <2>1. Scores(s, n)
      BY DEF Scores
  <2>2. x \in Int /\ StepsOver(F, Int, i, n)
      BY <1>1, <2>1, RaisingOver
  <2> HIDE DEF F, x
  <2>3. PICK h : Steps(F, Int, x, i, n, h)
      BY <1>1, <2>2, RecursiveExists
  <2>4. h \in [i..n -> Int] /\ Val(h, i) = x
      BY <2>3 DEF Steps
  <2>5. ASSUME NEW j \in i..n
        PROVE  h[j] = IF j < i + 1 THEN NoScore ELSE Larger(h[j - 1], s[j])
    <3>1. CASE j = i
        BY <1>1, <2>4, <3>1 DEF Val, x
    <3>2. CASE j # i
      <4>1. j \in 1..n /\ j - 1 \in i..n /\ j \in (i + 1)..n /\ ~(j < i + 1)
          BY <1>1, <3>2
      <4>2. Val(h, j - 1) \in Int
          BY <2>4, <4>1 DEF Val
      <4>3. Val(h, j) = At(F, j, Val(h, j - 1))
          BY <2>3, <4>1 DEF Steps
      <4>4. Val(h, j) = Larger(Val(h, j - 1), s[j])
          BY <1>1, <4>1, <4>2, <4>3, RaisingAt DEF F
      <4> QED BY <4>1, <4>4 DEF Val
    <3> QED BY <3>1, <3>2
  <2>6. h = [j \in ((i + 1) - 1)..n |-> h[j]]
    <3>1. (i + 1) - 1 = i
        BY <1>1
    <3>2. h = [j \in i..n |-> h[j]]
        BY <2>4
    <3> QED BY <3>1, <3>2
  <2>7. \A j \in ((i + 1) - 1)..n : h[j] = IF j < i + 1 THEN NoScore ELSE Larger(h[j - 1], s[j])
      BY <1>1, <2>5
  <2> QED BY <2>6, <2>7 DEF MaxEq
<1> DEFINE g == CHOOSE max : MaxEq(s, i, n, max)
<1>4. MaxEq(s, i, n, g)
    BY <1>3
<1> HIDE DEF g
<1>5. \A j \in ((i + 1) - 1)..n : g[j] = IF j < i + 1 THEN NoScore ELSE Larger(g[j - 1], s[j])
    BY <1>4, Zenon DEF MaxEq
<1>6. Recurs(Raising(s, N), Int, NoScore, i, n, g)
  <2>1. Val(g, i) = NoScore
      BY <1>1, <1>5 DEF Val
  <2>2. ASSUME NEW t \in (i + 1)..n, Val(g, t - 1) \in Int
        PROVE  Val(g, t) = At(Raising(s, N), t, Val(g, t - 1))
    <3>1. t \in 1..N /\ t \in ((i + 1) - 1)..n /\ ~(t < i + 1)
        BY <1>1
    <3>2. Val(g, t) = Larger(Val(g, t - 1), s[t])
        BY <1>5, <3>1 DEF Val
    <3> QED BY <2>2, <3>1, <3>2, RaisingAt
  <2> QED BY <2>1, <2>2 DEF Recurs
<1> QED BY <1>2, <1>6 DEF g, Val

\* m is the maximum of the scores from i + 1 to n, or there are none.
IsMax(s, i, n, m) ==
    /\ m \in Int /\ m >= NoScore
    /\ \A j \in (i + 1)..n : s[j] <= m
    /\ m = NoScore \/ \E j \in (i + 1)..n : m = s[j]

LEMMA MaxSteps ==
    ASSUME NEW s, NEW N \in Nat, Scores(s, N), NEW i \in 0..N
    PROVE  \A n \in i..N : /\ MaxOf(s, i + 1, n) \in Int
                           /\ n = i => MaxOf(s, i + 1, n) = NoScore
                           /\ n > i => MaxOf(s, i + 1, n) = Larger(MaxOf(s, i + 1, n - 1), s[n])
<1> DEFINE F == Raising(s, N)
           Fits(n, h) == Recurs(F, Int, NoScore, i, n, h) /\ MaxOf(s, i + 1, n) = Val(h, n)
           R == [n \in i..N |-> CHOOSE h : Fits(n, h)]
<1>1. ASSUME NEW n \in i..N
      PROVE  Recurs(F, Int, NoScore, i, n, Val(R, n)) /\ MaxOf(s, i + 1, n) = Val(Val(R, n), n)
  <2>1. \E h : Fits(n, h)
      BY MaxRuns
  <2>2. Fits(n, CHOOSE h : Fits(n, h))
      BY <2>1
  <2>3. Val(R, n) = CHOOSE h : Fits(n, h)
      BY DEF Val
  <2> QED BY <2>2, <2>3
<1>2. StepsOver(F, Int, i, N)
    BY RaisingOver
<1> HIDE DEF F, R
<1>3. \A n \in i..N : /\ Val(Val(R, n), n) \in Int
                      /\ n = i => Val(Val(R, n), n) = NoScore
                      /\ n > i => Val(Val(R, n), n) = At(F, n, Val(Val(R, n - 1), n - 1))
  <2>1. PICK x \in Int : x = NoScore
      BY DEF NoScore
  <2>2. PICK z \in Nat : z = i
      OBVIOUS
  <2>3. StepsOver(F, Int, z, N) /\ \A n \in z..N : Recurs(F, Int, x, z, n, Val(R, n))
      BY <1>1, <1>2, <2>1, <2>2
  <2>4. \A n \in z..N : /\ Val(Val(R, n), n) \in Int
                        /\ n = z => Val(Val(R, n), n) = x
                        /\ n > z => Val(Val(R, n), n) = At(F, n, Val(Val(R, n - 1), n - 1))
      BY <2>3, FamilySteps
  <2> QED BY <2>1, <2>2, <2>4
<1> SUFFICES ASSUME NEW n \in i..N
             PROVE  /\ MaxOf(s, i + 1, n) \in Int
                    /\ n = i => MaxOf(s, i + 1, n) = NoScore
                    /\ n > i => MaxOf(s, i + 1, n) = Larger(MaxOf(s, i + 1, n - 1), s[n])
    OBVIOUS
<1>4. n > i => n - 1 \in i..N /\ n \in 1..N
    OBVIOUS
<1>5. n > i => At(F, n, MaxOf(s, i + 1, n - 1)) = Larger(MaxOf(s, i + 1, n - 1), s[n])
  <2>1. n > i => MaxOf(s, i + 1, n - 1) \in Int
      BY <1>1, <1>3, <1>4
  <2> QED BY <1>4, <2>1, RaisingAt DEF F
<1> QED BY <1>1, <1>3, <1>4, <1>5

LEMMA MaxIs ==
    ASSUME NEW s, NEW n \in Nat, Scores(s, n), NEW i \in 0..n
    PROVE  \A l \in i..n : IsMax(s, i, l, MaxOf(s, i + 1, l))
<1> DEFINE S == {l \in Nat : IsMax(s, i, l, MaxOf(s, i + 1, l))}
<1>1. \A l \in i..n : /\ MaxOf(s, i + 1, l) \in Int
                      /\ l = i => MaxOf(s, i + 1, l) = NoScore
                      /\ l > i => MaxOf(s, i + 1, l) = Larger(MaxOf(s, i + 1, l - 1), s[l])
    BY MaxSteps
<1>2. i \in S
  <2>1. IsMax(s, i, i, NoScore)
      BY DEF IsMax, NoScore
  <2> QED BY <1>1, <2>1
<1>3. ASSUME NEW m \in (i + 1)..n, m - 1 \in S PROVE m \in S
  <2>1. m \in Nat /\ m > i /\ m \in i..n /\ s[m] \in Int /\ m \in (i + 1)..m
      BY DEF Scores
  <2> DEFINE x == MaxOf(s, i + 1, m - 1)
             y == Larger(x, s[m])
  <2>2. IsMax(s, i, m - 1, x) /\ MaxOf(s, i + 1, m) = y
      BY <1>1, <1>3, <2>1
  <2> HIDE DEF x
  <2>3. x \in Int /\ x >= NoScore /\ NoScore \in Int
      BY <2>2 DEF IsMax, NoScore
  <2>4. y \in Int /\ y >= NoScore /\ x <= y /\ s[m] <= y /\ (y = x \/ y = s[m])
      BY <2>1, <2>3 DEF Larger
  <2> HIDE DEF y
  <2>5. \A j \in (i + 1)..m : s[j] <= y
    <3> SUFFICES ASSUME NEW j \in (i + 1)..m PROVE s[j] <= y
        OBVIOUS
    <3>1. j = m \/ j \in (i + 1)..(m - 1)
        BY <2>1
    <3>2. s[j] \in Int
        BY DEF Scores
    <3>3. j \in (i + 1)..(m - 1) => s[j] <= x
        BY <2>2 DEF IsMax
    <3> QED BY <2>3, <2>4, <3>1, <3>2, <3>3
  <2>6. y = NoScore \/ \E j \in (i + 1)..m : y = s[j]
    <3>1. \A j \in (i + 1)..(m - 1) : j \in (i + 1)..m
        BY <2>1
    <3> QED BY <2>1, <2>2, <2>4, <3>1 DEF IsMax
  <2>7. IsMax(s, i, m, y)
      BY <2>4, <2>5, <2>6 DEF IsMax
  <2> QED BY <2>1, <2>2, <2>7
<1> HIDE DEF S
<1>4. PICK z \in Nat : z = i
    OBVIOUS
<1>5. z \in S /\ \A m \in (z + 1)..n : m - 1 \in S => m \in S
    BY <1>2, <1>3, <1>4
<1>6. \A l \in z..n : l \in S
    BY <1>5, IntervalInduction
<1> QED BY <1>4, <1>6 DEF S

LEMMA OneMax ==
    ASSUME NEW s, NEW n \in Nat, Scores(s, n), NEW i \in 0..n, NEW m, NEW k,
           IsMax(s, i, n, m), IsMax(s, i, n, k)
    PROVE  m = k
<1>1. m \in Int /\ k \in Int /\ NoScore \in Int
    BY DEF IsMax, NoScore
<1>2. m <= k
    BY <1>1 DEF IsMax
<1>3. k <= m
    BY <1>1 DEF IsMax
<1> QED BY <1>1, <1>2, <1>3

LEMMA MaxSplit ==
    ASSUME NEW s, NEW n \in Nat, Scores(s, n), NEW k \in 0..n
    PROVE  Larger(MaxOf(s, 1, k), MaxOf(s, k + 1, n)) = MaxOf(s, 1, n)
<1> DEFINE x == MaxOf(s, 1, k)
           y == MaxOf(s, k + 1, n)
           m == Larger(x, y)
<1>1. PICK z \in Nat : z = 0 /\ z \in 0..n /\ z + 1 = 1 /\ k \in z..n /\ n \in z..n /\ n \in k..n
    OBVIOUS
<1>2. \A l \in z..n : IsMax(s, z, l, MaxOf(s, z + 1, l))
    BY <1>1, MaxIs
<1>3. IsMax(s, z, k, x) /\ IsMax(s, z, n, MaxOf(s, 1, n))
    BY <1>1, <1>2
<1>4. IsMax(s, k, n, y)
    BY <1>1, MaxIs
<1> HIDE DEF x, y
<1>5. x \in Int /\ y \in Int /\ x >= NoScore /\ y >= NoScore /\ NoScore \in Int
    BY <1>3, <1>4 DEF IsMax, NoScore
<1>6. m \in Int /\ x <= m /\ y <= m /\ (m = x \/ m = y)
    BY <1>5 DEF Larger
<1> HIDE DEF m
<1>7. \A j \in (z + 1)..n : s[j] <= m
  <2> SUFFICES ASSUME NEW j \in (z + 1)..n PROVE s[j] <= m
      OBVIOUS
  <2>1. s[j] \in Int /\ (j \in (z + 1)..k \/ j \in (k + 1)..n)
      BY <1>1 DEF Scores
  <2>2. (j \in (z + 1)..k => s[j] <= x) /\ (j \in (k + 1)..n => s[j] <= y)
      BY <1>3, <1>4 DEF IsMax
  <2> QED BY <1>5, <1>6, <2>1, <2>2
<1>8. m = NoScore \/ \E j \in (z + 1)..n : m = s[j]
  <2>1. (\A j \in (z + 1)..k : j \in (z + 1)..n) /\ (\A j \in (k + 1)..n : j \in (z + 1)..n)
      BY <1>1
  <2> QED BY <1>3, <1>4, <1>6, <2>1 DEF IsMax
<1>9. IsMax(s, z, n, m)
    BY <1>5, <1>6, <1>7, <1>8 DEF IsMax
<1>10. m = MaxOf(s, 1, n)
    BY <1>1, <1>3, <1>9, OneMax
<1> QED BY <1>10 DEF m, x, y

-------------------------------------------------------------------------------
(* Powers, and exp, which is a power of two or of its inverse.                 *)
PowerEq(x, n, p) == p = [k \in 0..n |-> IF k = 0 THEN 1 ELSE x ** p[k - 1]]
Raised(x, n) == [p \in (1..n) \X Z |-> (x ** p[2])]

LEMMA RaisedAt ==
    ASSUME NEW x \in Int, NEW n \in Nat, NEW t \in 1..n, NEW y \in Z
    PROVE  At(Raised(x, n), t, y) = (x ** y)
<1>1. <<t, y>> \in (1..n) \X Z
    OBVIOUS
<1> QED BY <1>1 DEF At, Raised

LEMMA RaisedOver ==
    ASSUME NEW x \in Int, NEW n \in Nat, NEW i \in Nat
    PROVE  StepsOver(Raised(x, n), Z, i, n)
<1> SUFFICES ASSUME NEW t \in (i + 1)..n, NEW y \in Z PROVE At(Raised(x, n), t, y) \in Z
    BY DEF StepsOver
<1>1. t \in 1..n /\ y \in Int
    BY ZIsInt
<1> QED BY <1>1, RaisedAt, InZ

LEMMA PowerRuns ==
    ASSUME NEW x \in Int, NEW N \in Nat, NEW n \in 0..N, NEW i \in Nat, i = 0, NEW y \in Z, y = 1
    PROVE  \E h : Recurs(Raised(x, N), Z, y, i, n, h) /\ Power(x, n) = Val(h, n)
<1>1. n \in Nat /\ n >= i
    OBVIOUS
<1>2. Power(x, n) = (CHOOSE p : PowerEq(x, n, p))[n]
    BY DEF Power, PowerEq
<1>3. \E p : PowerEq(x, n, p)
  <2> DEFINE F == Raised(x, n)
  <2>1. StepsOver(F, Z, i, n)
      BY <1>1, RaisedOver
  <2> HIDE DEF F
  <2>2. PICK h : Steps(F, Z, y, i, n, h)
      BY <1>1, <2>1, RecursiveExists
  <2>3. h \in [i..n -> Z] /\ Val(h, i) = y
      BY <2>2 DEF Steps
  <2>4. ASSUME NEW k \in 0..n PROVE h[k] = IF k = 0 THEN 1 ELSE x ** h[k - 1]
    <3>1. CASE k = 0
        BY <2>3, <3>1 DEF Val
    <3>2. CASE k # 0
      <4>1. k \in 1..n /\ k - 1 \in i..n /\ k \in (i + 1)..n
          BY <3>2
      <4>2. Val(h, k - 1) \in Z
          BY <2>3, <4>1 DEF Val
      <4>3. Val(h, k) = At(F, k, Val(h, k - 1))
          BY <2>2, <4>1 DEF Steps
      <4>4. Val(h, k) = (x ** Val(h, k - 1))
          BY <1>1, <4>1, <4>2, <4>3, RaisedAt DEF F
      <4> QED BY <3>2, <4>4 DEF Val
    <3> QED BY <3>1, <3>2
  <2>5. h = [k \in 0..n |-> h[k]]
      BY <2>3
  <2> QED BY <2>4, <2>5 DEF PowerEq
<1> DEFINE g == CHOOSE p : PowerEq(x, n, p)
<1>4. PowerEq(x, n, g)
    BY <1>3
<1> HIDE DEF g
<1>5. \A k \in 0..n : g[k] = IF k = 0 THEN 1 ELSE x ** g[k - 1]
    BY <1>4, Zenon DEF PowerEq
<1>6. Recurs(Raised(x, N), Z, y, i, n, g)
  <2>1. Val(g, i) = y
      BY <1>1, <1>5 DEF Val
  <2>2. ASSUME NEW t \in (i + 1)..n, Val(g, t - 1) \in Z
        PROVE  Val(g, t) = At(Raised(x, N), t, Val(g, t - 1))
    <3>1. t \in 1..N /\ t \in 0..n /\ t # 0
        BY <1>1
    <3>2. Val(g, t) = (x ** Val(g, t - 1))
        BY <1>5, <3>1 DEF Val
    <3> QED BY <2>2, <3>1, <3>2, RaisedAt
  <2> QED BY <2>1, <2>2 DEF Recurs
<1> QED BY <1>2, <1>6 DEF g, Val

LEMMA PowerSteps ==
    ASSUME NEW x \in Int, NEW N \in Nat
    PROVE  \A n \in 0..N : /\ Power(x, n) \in Z
                           /\ n = 0 => Power(x, n) = 1
                           /\ n > 0 => Power(x, n) = (x ** Power(x, n - 1))
<1>1. PICK i \in Nat : i = 0
    OBVIOUS
<1>2. PICK y \in Z : y = 1
    BY ZIsInt
<1> DEFINE F == Raised(x, N)
           Fits(n, h) == Recurs(F, Z, y, i, n, h) /\ Power(x, n) = Val(h, n)
           R == [n \in 0..N |-> CHOOSE h : Fits(n, h)]
<1>3. ASSUME NEW n \in 0..N
      PROVE  Recurs(F, Z, y, i, n, Val(R, n)) /\ Power(x, n) = Val(Val(R, n), n)
  <2>1. \E h : Fits(n, h)
      BY <1>1, <1>2, PowerRuns
  <2>2. Fits(n, CHOOSE h : Fits(n, h))
      BY <2>1
  <2>3. Val(R, n) = CHOOSE h : Fits(n, h)
      BY DEF Val
  <2> QED BY <2>2, <2>3
<1>4. StepsOver(F, Z, i, N)
    BY RaisedOver
<1> HIDE DEF F, R
<1>5. \A n \in i..N : /\ Val(Val(R, n), n) \in Z
                      /\ n = i => Val(Val(R, n), n) = y
                      /\ n > i => Val(Val(R, n), n) = At(F, n, Val(Val(R, n - 1), n - 1))
  <2>1. \A n \in i..N : Recurs(F, Z, y, i, n, Val(R, n))
      BY <1>1, <1>3
  <2> QED BY <1>4, <2>1, FamilySteps
<1> SUFFICES ASSUME NEW n \in 0..N
             PROVE  /\ Power(x, n) \in Z
                    /\ n = 0 => Power(x, n) = 1
                    /\ n > 0 => Power(x, n) = (x ** Power(x, n - 1))
    OBVIOUS
<1>6. n \in i..N /\ (n > 0 => n - 1 \in 0..N /\ n - 1 \in i..N /\ n \in 1..N)
    BY <1>1
<1>7. n > 0 => At(F, n, Power(x, n - 1)) = (x ** Power(x, n - 1))
  <2>1. n > 0 => Power(x, n - 1) \in Z
      BY <1>3, <1>5, <1>6
  <2> QED BY <1>6, <2>1, RaisedAt DEF F
<1> QED BY <1>1, <1>2, <1>3, <1>5, <1>6, <1>7

LEMMA PowerFacts ==
    ASSUME NEW x \in Int, NEW n \in Nat
    PROVE  Power(x, n) \in Z /\ Power(x, 0) = 1 /\ Power(x, n + 1) = (x ** Power(x, n))
<1>1. PICK N \in Nat : N = n + 1 /\ n \in 0..N /\ 0 \in 0..N /\ N \in 0..N /\ N > 0 /\ N - 1 = n
    OBVIOUS
<1>2. \A k \in 0..N : /\ Power(x, k) \in Z
                      /\ k = 0 => Power(x, k) = 1
                      /\ k > 0 => Power(x, k) = (x ** Power(x, k - 1))
    BY PowerSteps
<1> QED BY <1>1, <1>2

LEMMA TwiceHalf == 2 \in Int /\ Half \in Int /\ (2 ** Half) = 1
<1>1. P \in Nat /\ P > 2 /\ P % 2 # 0
  <2>1. P \in Nat /\ P > 2 /\ 2 \in 2..(P - 1)
      BY PAssumption DEF PAssumption
  <2> QED BY <2>1, PAssumption DEF PAssumption
<1>2. PICK k \in Nat : P = (2 * k) + 1
  <2>1. P % 2 \in 0..(2 - 1) /\ P \div 2 \in Int /\ P = (2 * (P \div 2)) + (P % 2)
      BY <1>1, Remainder
  <2>2. P % 2 = 1 /\ P \div 2 >= 0
      BY <1>1, <2>1
  <2>3. PICK k \in Nat : k = P \div 2
      BY <2>1, <2>2
  <2>4. P = (2 * k) + 1
      BY <2>1, <2>2, <2>3
  <2> QED BY <2>4
<1>3. P * P = (2 * ((2 * (k * k)) + (2 * k))) + 1
    BY <1>2, SMT
<1> DEFINE c == (2 * (k * k)) + (2 * k)
<1>4. c \in Nat
    BY SMT
<1>5. Q = (2 * c) + 1
    BY <1>3 DEF Q
<1> HIDE DEF c
<1>6. Half = c + 1
    BY <1>4, <1>5 DEF Half
<1>7. 2 * Half = 1 + (Q * 1) /\ Half \in Int
    BY <1>4, <1>5, <1>6
<1>8. (1 + (Q * 1)) % Q = 1 % Q
  <2>1. PICK u \in Int : u = 1
      OBVIOUS
  <2>2. (u + (Q * u)) % Q = u % Q
      BY QIsPositive, SameRemainder
  <2> QED BY <2>1, <2>2
<1>9. 1 % Q = 1
    BY ZIsInt, Reduced
<1> QED BY <1>7, <1>8, <1>9 DEF **

LEMMA ExpIn == ASSUME NEW t \in Int PROVE exp(t) \in Z
<1>1. t >= 0 => t \in Nat /\ Power(2, t) \in Z
    BY PowerFacts
<1>2. ~(t >= 0) => -t \in Nat /\ Power(Half, -t) \in Z
    BY TwiceHalf, PowerFacts
<1> QED BY <1>1, <1>2, ZIsInt DEF exp

LEMMA ExpTwice ==
    ASSUME NEW t \in Int, t >= -100
    PROVE  exp(t + 1) = (2 ** exp(t))
<1>1. CASE t >= 0
  <2>1. t \in Nat /\ t + 1 >= 0 /\ ~(t + 1 < -100) /\ ~(t < -100)
      BY <1>1
  <2>2. exp(t) = Power(2, t) /\ exp(t + 1) = Power(2, t + 1)
      BY <1>1, <2>1 DEF exp
  <2> QED BY <2>1, <2>2, PowerFacts
<1>2. CASE t < 0
  <2>1. PICK k \in Nat : t + 1 = -k /\ t = -(k + 1) /\ -(-k) = k /\ -(-(k + 1)) = k + 1
    <3>1. -(t + 1) \in Nat
        BY <1>2
    <3> QED BY <3>1
  <2>2. exp(t) = Power(Half, k + 1)
      BY <1>2, <2>1 DEF exp
  <2>3. exp(t + 1) = Power(Half, k)
    <3>1. CASE k = 0
      <4>1. exp(t + 1) = Power(2, 0)
          BY <2>1, <3>1 DEF exp
      <4> QED BY <3>1, <4>1, TwiceHalf, PowerFacts
    <3>2. CASE k # 0
        BY <2>1, <3>2 DEF exp
    <3> QED BY <3>1, <3>2
  <2> DEFINE p == Power(Half, k)
  <2>4. p \in Z /\ p \in Int /\ Power(Half, k + 1) = (Half ** p)
      BY TwiceHalf, PowerFacts, ZIsInt
  <2> HIDE DEF p
  <2>5. (2 ** (Half ** p)) = ((2 ** Half) ** p)
      BY <2>4, TwiceHalf, TimesAssociates
  <2>6. (1 ** p) = p
      BY <2>4, Units
  <2> QED BY <2>2, <2>3, <2>4, <2>5, <2>6, TwiceHalf DEF p
<1> QED BY <1>1, <1>2

LEMMA ExpAddsUp ==
    ASSUME NEW a \in Int, a >= -100, NEW n \in Nat
    PROVE  exp(a + n) = (exp(a) ** exp(n))
<1> DEFINE S == {k \in Nat : exp(a + k) = (exp(a) ** exp(k))}
<1>1. exp(a) \in Z /\ exp(a) \in Int
    BY ExpIn, ZIsInt
<1>2. 0 \in S
  <2>1. exp(0) = 1
      BY PowerFacts DEF exp
  <2> QED BY <1>1, <2>1, Units
<1>3. ASSUME NEW k \in Nat, k \in S PROVE k + 1 \in S
  <2> DEFINE x == exp(a)
             y == exp(k)
             b == a + k
  <2>1. x \in Int /\ y \in Int /\ b \in Int /\ b >= -100 /\ a + (k + 1) = b + 1 /\ k \in Int /\ k >= -100
    <3>1. y \in Z
        BY ExpIn
    <3>2. x \in Int /\ y \in Int
        BY <1>1, <3>1, ZIsInt
    <3> QED BY <3>2
  <2>2. exp(b) = (x ** y)
      BY <1>3
  <2> HIDE DEF b
  <2>3. exp(b + 1) = (2 ** exp(b)) /\ exp(k + 1) = (2 ** y)
      BY <2>1, ExpTwice
  <2> HIDE DEF x, y
  <2>4. (2 ** (x ** y)) = ((2 ** x) ** y) /\ (2 ** x) = (x ** 2) /\ ((x ** 2) ** y) = (x ** (2 ** y))
      BY <2>1, TimesAssociates, TimesCommutes
  <2>5. exp(a + (k + 1)) = (exp(a) ** exp(k + 1))
      BY <2>1, <2>2, <2>3, <2>4 DEF x
  <2> QED BY <2>5
<1> HIDE DEF S
<1>4. n \in S
    BY <1>2, <1>3, NatSetInduction
<1> QED BY <1>4 DEF S

LEMMA ExpInverse ==
    ASSUME NEW n \in 0..100
    PROVE  (exp(-n) ** exp(n)) = 1
<1>1. -n \in Int /\ -n >= -100 /\ n \in Nat /\ (-n) + n = 0
    OBVIOUS
<1>2. exp((-n) + n) = (exp(-n) ** exp(n))
    BY <1>1, ExpAddsUp
<1>3. exp(0) = 1
    BY PowerFacts DEF exp
<1> QED BY <1>1, <1>2, <1>3

LEMMA ExpAdds ==
    ASSUME NEW a \in Int, NEW b \in Int, a >= -100, b >= -100, a + b >= -100
    PROVE  exp(a + b) = (exp(a) ** exp(b))
<1>1. CASE b >= 0
    BY <1>1, ExpAddsUp
<1>2. CASE b < 0
  <2>1. PICK n \in 0..100 : n = -b /\ b = -n
      BY <1>2
  <2> DEFINE c == a + b
  <2>2. c \in Int /\ c >= -100 /\ n \in Nat /\ c + n = a
      BY <2>1
  <2> HIDE DEF c
  <2>3. exp(a) = (exp(c) ** exp(n))
      BY <2>2, ExpAddsUp
  <2> DEFINE x == exp(c)
             y == exp(n)
             z == exp(-n)
  <2>4. x \in Int /\ y \in Int /\ z \in Int /\ x \in Z
    <3>1. x \in Z
        BY <2>2, ExpIn
    <3>2. y \in Z
        BY ExpIn
    <3>3. z \in Z
        BY ExpIn
    <3> QED BY <3>1, <3>2, <3>3, ZIsInt
  <2>5. (z ** y) = 1
      BY ExpInverse
  <2> HIDE DEF x, y, z
  <2>6. ((x ** y) ** z) = (x ** (y ** z)) /\ (y ** z) = (z ** y) /\ (x ** 1) = x
      BY <2>4, TimesAssociates, TimesCommutes, Units
  <2>7. ((x ** y) ** z) = x
      BY <2>5, <2>6
  <2> QED BY <2>1, <2>3, <2>7 DEF x, y, z, c
<1> QED BY <1>1, <1>2

-------------------------------------------------------------------------------
(* Flash attention.  Whole is what a pass over the first k keys should hold.   *)
InScores(s) == \A j \in 1..Len(s) : s[j] \in -50..50
Weight(s, m) == [j \in 1..Len(s) |-> exp(s[j] - m)]
Weighted(s, V, m) == [j \in 1..Len(s) |-> exp(s[j] - m) * V[j]]
Whole(s, V, k) ==
    [m |-> MaxOf(s, 1, k), l |-> SumTo(Weight(s, MaxOf(s, 1, k)), k),
     acc |-> SumTo(Weighted(s, V, MaxOf(s, 1, k)), k)]

LEMMA WeightAt ==
    ASSUME NEW s \in Seq(Int), NEW V \in Seq(Int), Len(V) = Len(s), NEW m \in Int, NEW j \in 1..Len(s)
    PROVE  /\ Weight(s, m)[j] = exp(s[j] - m) /\ Weight(s, m)[j] \in Z
           /\ Weighted(s, V, m)[j] = exp(s[j] - m) * V[j] /\ Weighted(s, V, m)[j] \in Int
<1>1. PICK d \in Int : d = s[j] - m
    OBVIOUS
<1>2. PICK v \in Int : v = V[j]
    OBVIOUS
<1>3. exp(d) \in Z
    BY ExpIn
<1>4. PICK e \in Int : e = exp(d)
    BY <1>3, ZIsInt
<1>5. e * v \in Int
    OBVIOUS
<1> QED BY <1>1, <1>2, <1>3, <1>4, <1>5 DEF Weight, Weighted

LEMMA WeightsIntegral ==
    ASSUME NEW s \in Seq(Int), NEW V \in Seq(Int), Len(V) = Len(s), NEW m \in Int, NEW k \in 0..Len(s)
    PROVE  Integral(Weight(s, m), k) /\ Integral(Weighted(s, V, m), k)
<1> SUFFICES ASSUME NEW j \in 1..k PROVE Weight(s, m)[j] \in Int /\ Weighted(s, V, m)[j] \in Int
    BY DEF Integral
<1>1. j \in 1..Len(s)
    OBVIOUS
<1> QED BY <1>1, WeightAt, ZIsInt

BlockWeight(s, m, k, n) == Total([i \in 1..(n - k) |-> exp(s[k + i] - m)])
BlockOutput(s, V, m, k, n) == Total([j \in 1..(n - k) |-> exp(s[k + j] - m) * V[k + j]])

SumsAdd(s, V, m, k, n) ==
    /\ SumTo(Weight(s, m), n) = (SumTo(Weight(s, m), k) ++ BlockWeight(s, m, k, n))
    /\ SumTo(Weighted(s, V, m), n) = (SumTo(Weighted(s, V, m), k) ++ BlockOutput(s, V, m, k, n))

LEMMA BlockSums ==
    ASSUME NEW s \in Seq(Int), NEW V \in Seq(Int), Len(V) = Len(s), NEW m \in Int,
           NEW k \in Nat, NEW n \in Nat, k <= n, n <= Len(s)
    PROVE  SumsAdd(s, V, m, k, n)
<1> DEFINE u == Weight(s, m)
           ws == Weighted(s, V, m)
           x == [i \in 1..(n - k) |-> exp(s[k + i] - m)]
           y == [j \in 1..(n - k) |-> exp(s[k + j] - m) * V[k + j]]
<1>1. n \in 0..Len(s) /\ \A j \in 1..(n - k) : k + j \in 1..Len(s)
    OBVIOUS
<1>2. Integral(u, n) /\ Integral(ws, n)
    BY <1>1, WeightsIntegral
<1>3. ASSUME NEW j \in 1..(n - k) PROVE x[j] = u[k + j] /\ y[j] = ws[k + j]
  <2>1. PICK i \in 1..Len(s) : i = k + j
      BY <1>1
  <2>2. u[i] = exp(s[i] - m) /\ ws[i] = exp(s[i] - m) * V[i]
      BY WeightAt
  <2> QED BY <2>1, <2>2
<1>4. Leading(x, n - k) = x /\ Leading(y, n - k) = y
    BY DEF Leading
<1> HIDE DEF u, ws, x, y
<1>5. SumTo(u, n) = (SumTo(u, k) ++ SumTo(x, n - k))
    BY <1>2, <1>3, SumSplit
<1>6. SumTo(ws, n) = (SumTo(ws, k) ++ SumTo(y, n - k))
    BY <1>2, <1>3, SumSplit
<1> QED BY <1>4, <1>5, <1>6 DEF SumsAdd, SumTo, BlockWeight, BlockOutput, u, ws, x, y

\* The sums relative to m, from those relative to another maximum.
\* The sums taken from the maximum old, times exp(old - m), are those from m.
Rescales(s, V, k, old, m) ==
    /\ SumTo(Weight(s, m), k) = (exp(old - m) ** SumTo(Weight(s, old), k))
    /\ SumTo(Weighted(s, V, m), k) = (exp(old - m) ** SumTo(Weighted(s, V, old), k))

LEMMA Rescaled ==
    ASSUME NEW s \in Seq(Int), NEW V \in Seq(Int), Len(V) = Len(s), InScores(s),
           NEW k \in 0..Len(s), NEW old \in -50..50, NEW m \in -50..50
    PROVE  Rescales(s, V, k, old, m)
<1> DEFINE c == exp(old - m)
           u == Weight(s, m)
           ws == Weight(s, old)
           x == Weighted(s, V, m)
           y == Weighted(s, V, old)
<1>1. k \in Nat /\ m \in Int /\ old \in Int /\ old - m \in Int /\ old - m >= -100
    OBVIOUS
<1>2. c \in Int
  <2>1. c \in Z
      BY <1>1, ExpIn
  <2> QED BY <2>1, ZIsInt
<1>3. Integral(u, k) /\ Integral(ws, k) /\ Integral(x, k) /\ Integral(y, k)
    BY <1>1, WeightsIntegral
<1>4. ASSUME NEW j \in 1..k PROVE u[j] % Q = (c ** ws[j]) /\ x[j] % Q = (c ** y[j])
  <2>1. j \in 1..Len(s)
      OBVIOUS
  <2>2. PICK sj \in -50..50 : sj = s[j]
      BY <2>1 DEF InScores
  <2>3. PICK v \in Int : v = V[j]
      BY <2>1
  <2>4. PICK a \in Int : a = sj - old
      OBVIOUS
  <2> DEFINE d == old - m
             p == exp(a)
             q == exp(a + d)
  <2>5. a >= -100 /\ d \in Int /\ d >= -100 /\ a + d >= -100 /\ sj - old = a /\ sj - m = a + d
      BY <2>4
  <2>6. u[j] = q /\ x[j] = q * v
    <3>1. PICK o \in Int : o = m
        OBVIOUS
    <3>2. Weight(s, o)[j] = exp(s[j] - o) /\ Weighted(s, V, o)[j] = exp(s[j] - o) * V[j]
        BY <2>1, WeightAt
    <3> QED BY <2>2, <2>3, <2>5, <3>1, <3>2
  <2>7. ws[j] = p /\ y[j] = p * v
    <3>1. PICK o \in Int : o = old
        OBVIOUS
    <3>2. Weight(s, o)[j] = exp(s[j] - o) /\ Weighted(s, V, o)[j] = exp(s[j] - o) * V[j]
        BY <2>1, WeightAt
    <3> QED BY <2>2, <2>3, <2>5, <3>1, <3>2
  <2> HIDE DEF d
  <2>8. p \in Z /\ q = (p ** exp(d))
      BY <2>5, ExpIn, ExpAdds
  <2>81. q = (p ** c)
      BY <2>8 DEF d
  <2> HIDE DEF p, q, c, u, ws, x, y
  <2>82. p \in Int /\ q \in Z /\ q \in Int
      BY <1>2, <2>8, <2>81, InZ, ZIsInt
  <2>83. p * v \in Int
      BY <2>82
  <2>9. q % Q = q /\ (p ** c) = (c ** p)
      BY <1>2, <2>82, Reduced, TimesCommutes
  <2>10. (q ** v) = (c ** (p ** v))
    <3>1. ((c ** p) ** v) = (c ** (p ** v))
        BY <1>2, <2>82, TimesAssociates
    <3> QED BY <2>81, <2>9, <3>1
  <2>11. (c ** ((p * v) % Q)) = (c ** (p * v))
      BY <1>2, <2>83, TimesReduced
  <2>12. (q * v) % Q = (c ** (p * v))
      BY <2>10, <2>11 DEF **
  <2> QED BY <2>6, <2>7, <2>81, <2>9, <2>12
<1> HIDE DEF c, u, ws, x, y
<1>5. SumTo(u, k) = (c ** SumTo(ws, k))
  <2>1. \A j \in 1..k : u[j] % Q = (c ** ws[j])
      BY <1>4
  <2> QED BY <1>1, <1>2, <1>3, <2>1, SumScaled
<1>6. SumTo(x, k) = (c ** SumTo(y, k))
  <2>1. \A j \in 1..k : x[j] % Q = (c ** y[j])
      BY <1>4
  <2> QED BY <1>1, <1>2, <1>3, <2>1, SumScaled
<1> QED BY <1>5, <1>6 DEF Rescales, c, u, ws, x, y

\* The maximum of some scores is a score.
LEMMA MaxInScores ==
    ASSUME NEW s \in Seq(Int), InScores(s), NEW k \in 1..Len(s)
    PROVE  MaxOf(s, 1, k) \in -50..50
<1>1. PICK z \in Nat : z = 0 /\ z + 1 = 1 /\ z \in 0..Len(s) /\ k \in z..Len(s) /\ Len(s) \in Nat
    OBVIOUS
<1>2. Scores(s, Len(s))
    BY DEF Scores
<1>3. \A l \in z..Len(s) : IsMax(s, z, l, MaxOf(s, z + 1, l))
    BY <1>1, <1>2, MaxIs
<1> DEFINE m == MaxOf(s, 1, k)
<1>4. IsMax(s, z, k, m)
    BY <1>1, <1>3
<1> HIDE DEF m
<1>5. 1 \in (z + 1)..k /\ s[1] \in -50..50 /\ \A j \in (z + 1)..k : s[j] \in -50..50
    BY <1>1 DEF InScores
<1>6. m \in Int /\ s[1] <= m /\ (m = NoScore \/ m \in -50..50)
    BY <1>4, <1>5 DEF IsMax
<1>7. PICK first \in -50..50 : first <= m
    BY <1>5, <1>6
<1>8. m \in -50..50
    BY <1>6, <1>7 DEF NoScore
<1> QED BY <1>8 DEF m

LEMMA MaxInt ==
    ASSUME NEW s \in Seq(Int), NEW k \in 0..Len(s)
    PROVE  MaxOf(s, 1, k) \in Int /\ (k = 0 => MaxOf(s, 1, k) = NoScore)
<1>1. PICK z \in Nat : z = 0 /\ z + 1 = 1 /\ z \in 0..Len(s) /\ k \in z..Len(s) /\ Len(s) \in Nat
    OBVIOUS
<1>2. Scores(s, Len(s))
    BY DEF Scores
<1>3. \A n \in z..Len(s) : /\ MaxOf(s, z + 1, n) \in Int
                           /\ n = z => MaxOf(s, z + 1, n) = NoScore
                           /\ n > z => MaxOf(s, z + 1, n) = Larger(MaxOf(s, z + 1, n - 1), s[n])
    BY <1>1, <1>2, MaxSteps
<1> QED BY <1>1, <1>3

LEMMA NextIsWhole ==
    ASSUME NEW s \in Seq(Int), NEW V \in Seq(Int), Len(V) = Len(s), InScores(s),
           NEW block \in Nat \ {0}, NEW kb \in 0..Len(s), kb < Len(s), NEW ke,
           ke = IF kb + block > Len(s) THEN Len(s) ELSE kb + block
    PROVE  NextBlock(s, V, block, Whole(s, V, kb), kb) = Whole(s, V, ke)
<1>1. kb \in Nat /\ ke \in 1..Len(s) /\ kb <= ke /\ ke \in Nat /\ ke <= Len(s)
    OBVIOUS
<1>2. PICK m \in -50..50 : m = MaxOf(s, 1, ke)
    BY <1>1, MaxInScores
<1>3. PICK old \in Int : old = MaxOf(s, 1, kb) /\ (kb = 0 => old = NoScore)
    BY <1>1, MaxInt
<1>4. m = Larger(old, MaxOf(s, kb + 1, ke)) /\ m \in Int
  <2>1. Scores(s, ke) /\ kb \in 0..ke
      BY <1>1 DEF Scores
  <2>2. Larger(MaxOf(s, 1, kb), MaxOf(s, kb + 1, ke)) = MaxOf(s, 1, ke)
      BY <1>1, <2>1, MaxSplit
  <2> QED BY <1>2, <1>3, <2>2
<1> DEFINE c == exp(old - m)
           x == BlockWeight(s, m, kb, ke)
           y == BlockOutput(s, V, m, kb, ke)
           l == SumTo(Weight(s, old), kb)
           acc == SumTo(Weighted(s, V, old), kb)
           W == Whole(s, V, kb)
<1>41. NextBlock(s, V, block, W, kb) = [m |-> m, l |-> (l ** c) ++ x, acc |-> (acc ** c) ++ y]
  <2>1. W.m = old /\ W.l = l /\ W.acc = acc
      BY <1>3 DEF Whole
  <2> HIDE DEF W, l, acc
  <2>2. \A v : v = Larger(W.m, MaxOf(s, kb + 1, ke)) =>
            NextBlock(s, V, block, W, kb)
                = [m |-> v, l |-> (W.l ** exp(W.m - v)) ++ BlockWeight(s, v, kb, ke),
                   acc |-> (W.acc ** exp(W.m - v)) ++ BlockOutput(s, V, v, kb, ke)]
      BY DEF NextBlock, BlockWeight, BlockOutput
  <2> QED BY <1>4, <2>1, <2>2
<1>5. /\ SumTo(Weight(s, m), ke) = (SumTo(Weight(s, m), kb) ++ BlockWeight(s, m, kb, ke))
      /\ SumTo(Weighted(s, V, m), ke) = (SumTo(Weighted(s, V, m), kb) ++ BlockOutput(s, V, m, kb, ke))
  <2>1. SumsAdd(s, V, m, kb, ke)
      BY <1>1, <1>4, BlockSums
  <2> QED BY <2>1 DEF SumsAdd
<1>6. /\ SumTo(Weight(s, m), ke) = (SumTo(Weight(s, m), kb) ++ x)
      /\ SumTo(Weighted(s, V, m), ke) = (SumTo(Weighted(s, V, m), kb) ++ y)
    BY <1>5
<1> HIDE DEF W, x, y
<1>7. SumTo(Weight(s, m), kb) = (l ** c) /\ SumTo(Weighted(s, V, m), kb) = (acc ** c)
  <2>2. c \in Int
    <3>1. old - m \in Int
        BY <1>4
    <3>2. c \in Z
        BY <3>1, ExpIn
    <3> QED BY <3>2, ZIsInt
  <2>3. Integral(Weight(s, m), kb) /\ Integral(Weighted(s, V, m), kb)
      BY <1>4, WeightsIntegral
  <2>4. Integral(Weight(s, old), kb) /\ Integral(Weighted(s, V, old), kb)
      BY <1>3, WeightsIntegral
  <2>5. l \in Z /\ (kb = 0 => l = 0)
    <3> DEFINE ws == Weight(s, old)
    <3> HIDE DEF ws
    <3>1. \A n \in 0..kb : /\ SumTo(ws, n) \in Z
                           /\ n = 0 => SumTo(ws, n) = 0
                           /\ n > 0 => SumTo(ws, n) = (SumTo(ws, n - 1) ++ ws[n])
        BY <1>1, <2>4, SumSteps DEF ws
    <3> QED BY <1>1, <3>1 DEF ws
  <2>6. acc \in Z /\ (kb = 0 => acc = 0)
    <3> DEFINE ws == Weighted(s, V, old)
    <3> HIDE DEF ws
    <3>1. \A n \in 0..kb : /\ SumTo(ws, n) \in Z
                           /\ n = 0 => SumTo(ws, n) = 0
                           /\ n > 0 => SumTo(ws, n) = (SumTo(ws, n - 1) ++ ws[n])
        BY <1>1, <2>4, SumSteps DEF ws
    <3> QED BY <1>1, <3>1 DEF ws
  <2>7. CASE kb = 0
    <3>1. PICK z \in Nat : z = kb /\ z \in 0..z
        BY <1>1
    <3>2. \A n \in 0..z : /\ SumTo(Weight(s, m), n) \in Z
                          /\ n = 0 => SumTo(Weight(s, m), n) = 0
                          /\ n > 0 => SumTo(Weight(s, m), n) = (SumTo(Weight(s, m), n - 1) ++ Weight(s, m)[n])
        BY <2>3, <3>1, SumSteps
    <3>3. \A n \in 0..z : /\ SumTo(Weighted(s, V, m), n) \in Z
                          /\ n = 0 => SumTo(Weighted(s, V, m), n) = 0
                          /\ n > 0 => SumTo(Weighted(s, V, m), n)
                                         = (SumTo(Weighted(s, V, m), n - 1) ++ Weighted(s, V, m)[n])
        BY <2>3, <3>1, SumSteps
    <3>4. SumTo(Weight(s, m), kb) = 0 /\ SumTo(Weighted(s, V, m), kb) = 0
        BY <2>7, <3>1, <3>2, <3>3
    <3> HIDE DEF l, acc, c
    <3>5. (0 ** c) = 0
      <4>1. 0 * c = 0 /\ 0 % Q = 0
          BY <2>2, ZIsInt, Reduced
      <4> QED BY <4>1 DEF **
    <3> QED BY <2>5, <2>6, <2>7, <3>4, <3>5
  <2>8. CASE kb # 0
    <3>1. old \in -50..50
      <4>1. kb \in 1..Len(s)
          BY <2>8
      <4> QED BY <1>3, <4>1, MaxInScores
    <3>2. SumTo(Weight(s, m), kb) = (c ** l) /\ SumTo(Weighted(s, V, m), kb) = (c ** acc)
      <4>1. Rescales(s, V, kb, old, m)
          BY <3>1, Rescaled
      <4> QED BY <4>1 DEF Rescales
    <3> HIDE DEF l, acc, c
    <3>3. l \in Int /\ acc \in Int
        BY <2>5, <2>6, ZIsInt
    <3> QED BY <2>2, <3>2, <3>3, TimesCommutes
  <2> QED BY <2>7, <2>8
<1>8. Whole(s, V, ke) = [m |-> m, l |-> SumTo(Weight(s, m), ke), acc |-> SumTo(Weighted(s, V, m), ke)]
    BY <1>2 DEF Whole
<1> QED BY <1>41, <1>6, <1>7, <1>8 DEF W

\* What the first b blocks cover.
Covers(n, block, B) ==
    /\ B \in Nat /\ B >= 1
    /\ \A b \in 1..B : (b - 1) * block \in 0..(n - 1) /\ (b - 1) * block + block = b * block
    /\ B * block >= n

LEMMA BlocksCover ==
    ASSUME NEW n \in Nat \ {0}, NEW block \in Nat \ {0}, NEW B, B = (n + block - 1) \div block
    PROVE  Covers(n, block, B)
<1>0. PICK x \in Int : x = n + block - 1
    OBVIOUS
<1> DEFINE rest == x % block
<1>1. x \in Int /\ rest \in 0..(block - 1) /\ B \in Int /\ x = (block * B) + rest
  <2>1. x % block \in 0..(block - 1) /\ x \div block \in Int /\ x = (block * (x \div block)) + (x % block)
      BY Remainder
  <2>2. B = x \div block
      BY <1>0
  <2> QED BY <2>1, <2>2
<1>2. PICK full \in Int : full = block * B /\ full >= n /\ full <= n + block - 1
  <2>1. block * B \in Int
      BY <1>1
  <2>2. PICK full \in Int : full = block * B
      BY <2>1
  <2> HIDE DEF rest
  <2>3. full = n + block - 1 - rest
      BY <1>0, <1>1, <2>2
  <2> QED BY <1>1, <2>2, <2>3
<1> HIDE DEF rest
<1>3. B >= 1
  <2>1. CASE B <= 0
    <3>1. block * B <= 0
        BY <1>1, <2>1, SMT
    <3> QED BY <1>2, <3>1
  <2> QED BY <1>1, <2>1
<1>4. B * block >= n
  <2>1. B * block = block * B
      BY <1>1, SMT
  <2> QED BY <1>2, <2>1
<1>5. ASSUME NEW b \in 1..B
      PROVE  (b - 1) * block \in 0..(n - 1) /\ (b - 1) * block + block = b * block
  <2>1. (b - 1) * block \in Int /\ (b - 1) * block >= 0 /\ (b - 1) * block + block = b * block
      BY <1>1, SMT
  <2>2. b * block <= block * B
      BY <1>1, SMT
  <2> DEFINE p == (b - 1) * block
             q == b * block
  <2>3. q \in Int
      OBVIOUS
  <2> HIDE DEF p, q
  <2>4. p \in 0..(n - 1)
      BY <1>2, <2>1, <2>2, <2>3 DEF p, q
  <2> QED BY <2>1, <2>4 DEF p
<1> QED BY <1>1, <1>3, <1>4, <1>5 DEF Covers

\* BlockEnd advances by a block, to the end of the row.
LEMMA BlockEnds ==
    ASSUME NEW s \in Seq(Int), Len(s) # 0, NEW block \in Nat \ {0}, NEW B, B = Blocks(s, block)
    PROVE  /\ B \in Nat /\ B >= 1
           /\ BlockEnd(s, block, 0) = 0 /\ BlockEnd(s, block, B) = Len(s)
           /\ \A b \in 1..B : /\ (b - 1) * block \in 0..Len(s) /\ (b - 1) * block < Len(s)
                              /\ BlockEnd(s, block, b - 1) = (b - 1) * block
                              /\ BlockEnd(s, block, b)
                                    = IF (b - 1) * block + block > Len(s) THEN Len(s)
                                      ELSE (b - 1) * block + block
<1>1. PICK n \in Nat \ {0} : n = Len(s)
    OBVIOUS
<1>2. Covers(n, block, B)
    BY <1>1, BlocksCover DEF Blocks
<1>3. B \in Nat /\ B >= 1 /\ B * block >= n /\ B * block \in Int
    BY <1>2, SMT DEF Covers
<1>4. 0 * block = 0
    OBVIOUS
<1>5. BlockEnd(s, block, 0) = 0
    BY <1>1, <1>4 DEF BlockEnd
<1>6. BlockEnd(s, block, B) = Len(s)
  <2> DEFINE p == B * block
  <2>1. p \in Int /\ p >= n
      BY <1>3
  <2> HIDE DEF p
  <2>2. (IF p > n THEN n ELSE p) = n
      BY <2>1
  <2> QED BY <1>1, <2>2 DEF BlockEnd, p
<1>7. ASSUME NEW b \in 1..B
      PROVE  /\ (b - 1) * block \in 0..Len(s) /\ (b - 1) * block < Len(s)
             /\ BlockEnd(s, block, b - 1) = (b - 1) * block
             /\ BlockEnd(s, block, b)
                   = IF (b - 1) * block + block > Len(s) THEN Len(s) ELSE (b - 1) * block + block
  <2>1. PICK p \in 0..(n - 1) : p = (b - 1) * block /\ p + block = b * block
      BY <1>2 DEF Covers
  <2>2. p \in 0..Len(s) /\ p < Len(s) /\ ~(p > Len(s))
      BY <1>1, <2>1
  <2> QED BY <2>1, <2>2 DEF BlockEnd
<1> QED BY <1>3, <1>5, <1>6, <1>7

FullEq(s, V, block, r) ==
    r = [b \in 0..Blocks(s, block) |->
            IF b = 0 THEN [m |-> NoScore, l |-> 0, acc |-> 0]
            ELSE NextBlock(s, V, block, r[b - 1], (b - 1) * block)]

LEMMA WholeStarts ==
    ASSUME NEW s \in Seq(Int), NEW V \in Seq(Int), Len(V) = Len(s)
    PROVE  Whole(s, V, 0) = [m |-> NoScore, l |-> 0, acc |-> 0]
<1>1. PICK m \in Int : m = MaxOf(s, 1, 0) /\ m = NoScore
  <2>1. 0 \in 0..Len(s)
      OBVIOUS
  <2> QED BY <2>1, MaxInt
<1>2. PICK z \in Nat : z = 0 /\ z \in 0..z /\ z \in 0..Len(s)
    OBVIOUS
<1> DEFINE ws == Weight(s, m)
           x == Weighted(s, V, m)
<1>3. Integral(ws, z) /\ Integral(x, z)
    BY <1>2, WeightsIntegral
<1> HIDE DEF ws, x
<1>4. \A n \in 0..z : /\ SumTo(ws, n) \in Z
                      /\ n = 0 => SumTo(ws, n) = 0
                      /\ n > 0 => SumTo(ws, n) = (SumTo(ws, n - 1) ++ ws[n])
    BY <1>3, SumSteps
<1>5. \A n \in 0..z : /\ SumTo(x, n) \in Z
                      /\ n = 0 => SumTo(x, n) = 0
                      /\ n > 0 => SumTo(x, n) = (SumTo(x, n - 1) ++ x[n])
    BY <1>3, SumSteps
<1>6. SumTo(ws, 0) = 0 /\ SumTo(x, 0) = 0
    BY <1>2, <1>4, <1>5
<1> QED BY <1>1, <1>6 DEF Whole, ws, x

LEMMA FullIsWhole ==
    ASSUME NEW s \in Seq(Int), NEW V \in Seq(Int), Len(V) = Len(s), InScores(s), Len(s) # 0,
           NEW block \in Nat \ {0}
    PROVE  flash_attention_full(s, V, block)
               = (Whole(s, V, Len(s)).acc ** Inv(Whole(s, V, Len(s)).l))
<1> DEFINE r == CHOOSE f : FullEq(s, V, block, f)
           B == Blocks(s, block)
           At0(b) == Whole(s, V, BlockEnd(s, block, b))
           h == [b \in 0..B |-> At0(b)]
           empty == [m |-> NoScore, l |-> 0, acc |-> 0]
<1>1. flash_attention_full(s, V, block) = (r[B].acc ** Inv(r[B].l))
    BY DEF flash_attention_full, FullEq
<1>2. /\ B \in Nat /\ B >= 1
      /\ BlockEnd(s, block, 0) = 0 /\ BlockEnd(s, block, B) = Len(s)
      /\ \A b \in 1..B : /\ (b - 1) * block \in 0..Len(s) /\ (b - 1) * block < Len(s)
                         /\ BlockEnd(s, block, b - 1) = (b - 1) * block
                         /\ BlockEnd(s, block, b)
                               = IF (b - 1) * block + block > Len(s) THEN Len(s)
                                 ELSE (b - 1) * block + block
    BY BlockEnds
<1>3. At0(0) = empty
    BY <1>2, WholeStarts
<1>4. ASSUME NEW b \in 1..B
      PROVE  NextBlock(s, V, block, At0(b - 1), (b - 1) * block) = At0(b)
  <2>1. PICK kb \in 0..Len(s) : /\ kb = (b - 1) * block /\ kb < Len(s)
                                /\ BlockEnd(s, block, b - 1) = kb
                                /\ BlockEnd(s, block, b) = IF kb + block > Len(s) THEN Len(s) ELSE kb + block
      BY <1>2
  <2>2. PICK ke : ke = BlockEnd(s, block, b)
      OBVIOUS
  <2>3. NextBlock(s, V, block, Whole(s, V, kb), kb) = Whole(s, V, ke)
      BY <2>1, <2>2, NextIsWhole
  <2> QED BY <2>1, <2>2, <2>3
<1> HIDE DEF B, At0, empty
<1>5. FullEq(s, V, block, h)
  <2>1. ASSUME NEW b \in 0..B
        PROVE  h[b] = IF b = 0 THEN empty ELSE NextBlock(s, V, block, h[b - 1], (b - 1) * block)
    <3>1. CASE b = 0
        BY <1>3, <3>1
    <3>2. CASE b # 0
      <4>1. b \in 1..B /\ b - 1 \in 0..B
          BY <1>2, <3>2
      <4>2. h[b] = At0(b) /\ h[b - 1] = At0(b - 1)
          BY <4>1
      <4>3. NextBlock(s, V, block, At0(b - 1), (b - 1) * block) = At0(b)
          BY <1>4, <4>1
      <4> QED BY <3>2, <4>2, <4>3
    <3> QED BY <3>1, <3>2
  <2>2. h = [b \in 0..B |-> h[b]]
      OBVIOUS
  <2> HIDE DEF h
  <2>3. h = [b \in 0..B |-> IF b = 0 THEN empty ELSE NextBlock(s, V, block, h[b - 1], (b - 1) * block)]
      BY <2>1, <2>2
  <2> QED BY <2>3 DEF FullEq, B, empty
<1>6. FullEq(s, V, block, r)
    BY <1>5
<1> HIDE DEF r, h
<1>7. \A b \in 0..B : r[b] = IF b = 0 THEN empty ELSE NextBlock(s, V, block, r[b - 1], (b - 1) * block)
    BY <1>6, Zenon DEF FullEq, B, empty
<1> DEFINE S == {b \in Nat : r[b] = At0(b)}
<1>8. PICK z \in Nat : z = 0
    OBVIOUS
<1>9. z \in S
    BY <1>2, <1>3, <1>7, <1>8
<1>10. ASSUME NEW m \in (z + 1)..B, m - 1 \in S PROVE m \in S
  <2>1. m \in 1..B /\ m \in 0..B /\ m # 0 /\ m \in Nat
      BY <1>2, <1>8
  <2>2. r[m] = NextBlock(s, V, block, r[m - 1], (m - 1) * block)
      BY <1>7, <2>1
  <2>3. NextBlock(s, V, block, At0(m - 1), (m - 1) * block) = At0(m)
      BY <1>4, <2>1
  <2> QED BY <1>10, <2>1, <2>2, <2>3
<1> HIDE DEF S
<1>11. \A b \in z..B : b \in S
    BY <1>2, <1>9, <1>10, IntervalInduction
<1>12. r[B] = At0(B)
    BY <1>2, <1>8, <1>11 DEF S
<1>13. At0(B) = Whole(s, V, Len(s))
    BY <1>2 DEF At0
<1> QED BY <1>1, <1>12, <1>13

\* The maximum of the blocks' maxima is that of the row.
LEMMA BlockMaxima ==
    ASSUME NEW s \in Seq(Int), InScores(s), Len(s) # 0, NEW block \in Nat \ {0}, NEW t,
           t = Tuple([b \in 1..Blocks(s, block) |->
                        MaxOf(s, ((b - 1) * block) + 1, BlockEnd(s, block, b))])
    PROVE  MaxOf(t, 1, Len(t)) = MaxOf(s, 1, Len(s))
<1> DEFINE B == Blocks(s, block)
           f == [b \in 1..B |-> MaxOf(s, ((b - 1) * block) + 1, BlockEnd(s, block, b))]
<1>1. PICK n \in Nat \ {0} : n = Len(s)
    OBVIOUS
<1>2. Scores(s, n)
    BY <1>1 DEF Scores
<1>3. /\ B \in Nat /\ B >= 1
      /\ BlockEnd(s, block, 0) = 0 /\ BlockEnd(s, block, B) = Len(s)
      /\ \A b \in 1..B : /\ (b - 1) * block \in 0..Len(s) /\ (b - 1) * block < Len(s)
                         /\ BlockEnd(s, block, b - 1) = (b - 1) * block
                         /\ BlockEnd(s, block, b)
                               = IF (b - 1) * block + block > Len(s) THEN Len(s)
                                 ELSE (b - 1) * block + block
    BY BlockEnds
<1>4. ASSUME NEW b \in 1..B
      PROVE  \E i \in 0..n, k \in 0..n :
                 /\ i = BlockEnd(s, block, b - 1) /\ k = BlockEnd(s, block, b) /\ i < k
                 /\ f[b] \in Int /\ IsMax(s, i, k, f[b])
  <2>1. PICK i \in 0..n : /\ i = (b - 1) * block /\ i < n /\ BlockEnd(s, block, b - 1) = i
                          /\ BlockEnd(s, block, b) = IF i + block > n THEN n ELSE i + block
      BY <1>1, <1>3
  <2>2. PICK k \in i..n : k = BlockEnd(s, block, b) /\ i < k /\ k \in 0..n
    <3>1. PICK l \in Nat : l = IF i + block > n THEN n ELSE i + block
        OBVIOUS
    <3>2. i < l /\ l \in i..n /\ l \in 0..n
        BY <2>1, <3>1
    <3>3. l = BlockEnd(s, block, b)
        BY <2>1, <3>1
    <3> QED BY <3>2, <3>3
  <2>3. IsMax(s, i, k, MaxOf(s, i + 1, k))
      BY <1>2, <2>1, <2>2, MaxIs
  <2>4. f[b] = MaxOf(s, i + 1, k)
      BY <2>1, <2>2
  <2>5. f[b] \in Int
      BY <2>3, <2>4 DEF IsMax
  <2> QED BY <2>1, <2>2, <2>3, <2>4, <2>5
<1> HIDE DEF f, B
<1>5. t = f /\ t \in Seq(Int) /\ Len(t) = B
  <2>1. f \in [1..B -> Int]
      BY <1>4 DEF f
  <2>2. Tuple(f) = f /\ f \in Seq(Int) /\ Len(f) = B
      BY <1>3, <2>1, TupleIs
  <2> QED BY <2>2 DEF f, B
<1>6. PICK z \in Nat : z = 0 /\ z + 1 = 1 /\ z \in 0..n /\ z \in 0..B /\ B \in z..B /\ n \in z..n
    BY <1>3
<1> DEFINE m == MaxOf(t, 1, B)
<1>7. IsMax(t, z, B, m)
  <2>1. Scores(t, B)
      BY <1>5 DEF Scores
  <2>2. \A l \in z..B : IsMax(t, z, l, MaxOf(t, z + 1, l))
      BY <1>3, <1>6, <2>1, MaxIs
  <2> QED BY <1>6, <2>2
<1> HIDE DEF m
<1>8. m \in Int /\ m >= NoScore /\ \A b \in 1..B : t[b] <= m
    BY <1>6, <1>7 DEF IsMax
<1>9. \A j \in (z + 1)..n : s[j] <= m
  <2> DEFINE S == {b \in Nat : \A j \in (z + 1)..BlockEnd(s, block, b) : s[j] <= m}
  <2>1. z \in S
      BY <1>3, <1>6
  <2>2. ASSUME NEW b \in (z + 1)..B, b - 1 \in S PROVE b \in S
    <3>1. b \in 1..B /\ b \in Nat
        BY <1>3, <1>6
    <3>2. PICK i \in 0..n, k \in 0..n :
              /\ i = BlockEnd(s, block, b - 1) /\ k = BlockEnd(s, block, b) /\ i < k
              /\ f[b] \in Int /\ IsMax(s, i, k, f[b])
        BY <1>4, <3>1
    <3>3. ASSUME NEW j \in (z + 1)..k PROVE s[j] <= m
      <4>1. PICK sj \in Int : sj = s[j]
          BY <1>1, <1>6
      <4>2. j \in (z + 1)..i \/ j \in (i + 1)..k
          OBVIOUS
      <4>3. CASE j \in (z + 1)..i
          BY <2>2, <3>2, <4>3
      <4>4. CASE j \in (i + 1)..k
        <5>1. PICK x \in Int : x = f[b]
            BY <3>2
        <5>2. sj <= x
            BY <3>2, <4>1, <4>4, <5>1 DEF IsMax
        <5>3. x <= m
            BY <1>5, <1>8, <3>1, <5>1
        <5>4. sj <= m
            BY <1>8, <5>2, <5>3
        <5> QED BY <4>1, <5>4
      <4> QED BY <4>2, <4>3, <4>4
    <3> QED BY <3>1, <3>2, <3>3
  <2> HIDE DEF S
  <2>3. \A b \in z..B : b \in S
      BY <1>3, <2>1, <2>2, IntervalInduction
  <2>4. B \in S
      BY <1>6, <2>3
  <2> QED BY <1>1, <1>3, <2>4 DEF S
<1>10. m = NoScore \/ \E j \in (z + 1)..n : m = s[j]
  <2>1. CASE m = NoScore
      BY <2>1
  <2>2. CASE m # NoScore
    <3>1. PICK b \in 1..B : m = t[b]
        BY <1>6, <1>7, <2>2 DEF IsMax
    <3>2. PICK i \in 0..n, k \in 0..n :
              /\ i = BlockEnd(s, block, b - 1) /\ k = BlockEnd(s, block, b) /\ i < k
              /\ f[b] \in Int /\ IsMax(s, i, k, f[b])
        BY <1>4
    <3>3. PICK j \in (i + 1)..k : f[b] = s[j]
        BY <1>5, <2>2, <3>1, <3>2 DEF IsMax
    <3>4. j \in (z + 1)..n
        BY <1>6
    <3> QED BY <1>5, <3>1, <3>3, <3>4
  <2> QED BY <2>1, <2>2
<1>11. IsMax(s, z, n, m)
    BY <1>8, <1>9, <1>10 DEF IsMax
<1>12. IsMax(s, z, n, MaxOf(s, 1, n))
  <2>1. \A l \in z..n : IsMax(s, z, l, MaxOf(s, z + 1, l))
      BY <1>2, <1>6, MaxIs
  <2> QED BY <1>6, <2>1
<1>13. m = MaxOf(s, 1, n)
    BY <1>2, <1>6, <1>11, <1>12, OneMax
<1> QED BY <1>1, <1>5, <1>13 DEF m

LEMMA AllWeights ==
    ASSUME NEW s \in Seq(Int), NEW V \in Seq(Int), Len(V) = Len(s), NEW m
    PROVE  /\ SumTo(Weight(s, m), Len(s)) = Total([i \in 1..Len(s) |-> exp(s[i] - m)])
           /\ SumTo(Weighted(s, V, m), Len(s)) = Total([j \in 1..Len(s) |-> exp(s[j] - m) * V[j]])
<1>1. Leading(Weight(s, m), Len(s)) = [i \in 1..Len(s) |-> exp(s[i] - m)]
    BY DEF Leading, Weight
<1>2. Leading(Weighted(s, V, m), Len(s)) = [j \in 1..Len(s) |-> exp(s[j] - m) * V[j]]
    BY DEF Leading, Weighted
<1> QED BY <1>1, <1>2 DEF SumTo

LEMMA TwoPasses ==
    ASSUME NEW s \in Seq(Int), NEW V \in Seq(Int), Len(V) = Len(s)
    PROVE  flash_attention(s, V)
               = (Inv(Whole(s, V, Len(s)).l) ** Whole(s, V, Len(s)).acc)
<1>1. PICK m : m = MaxOf(s, 1, Len(s))
    OBVIOUS
<1>2. flash_attention(s, V)
          = (Inv(Total([i \in 1..Len(s) |-> exp(s[i] - m)]))
                ** Total([j \in 1..Len(s) |-> exp(s[j] - m) * V[j]]))
    BY <1>1 DEF flash_attention
<1>3. /\ Whole(s, V, Len(s)).l = SumTo(Weight(s, m), Len(s))
      /\ Whole(s, V, Len(s)).acc = SumTo(Weighted(s, V, m), Len(s))
    BY <1>1 DEF Whole
<1> QED BY <1>2, <1>3, AllWeights

LEMMA IncrementalIsTwoPasses ==
    ASSUME NEW s \in Seq(Int), NEW V \in Seq(Int), Len(V) = Len(s), InScores(s), Len(s) # 0,
           NEW block \in Nat \ {0}
    PROVE  flash_attention_incremental(s, V, block)
               = (Inv(Whole(s, V, Len(s)).l) ** Whole(s, V, Len(s)).acc)
<1>1. PICK m : m = MaxOf(s, 1, Len(s))
    OBVIOUS
<1>2. PICK t : t = Tuple([b \in 1..Blocks(s, block) |->
                            MaxOf(s, ((b - 1) * block) + 1, BlockEnd(s, block, b))])
    OBVIOUS
<1>3. MaxOf(t, 1, Len(t)) = m
    BY <1>1, <1>2, BlockMaxima
<1>4. flash_attention_incremental(s, V, block)
          = (Inv(Total([j \in 1..Len(s) |-> exp(s[j] - m)]))
                ** Total([j \in 1..Len(s) |-> exp(s[j] - m) * V[j]]))
    BY <1>2, <1>3 DEF flash_attention_incremental
<1>5. /\ Whole(s, V, Len(s)).l = SumTo(Weight(s, m), Len(s))
      /\ Whole(s, V, Len(s)).acc = SumTo(Weighted(s, V, m), Len(s))
    BY <1>1 DEF Whole
<1> QED BY <1>4, <1>5, AllWeights

-------------------------------------------------------------------------------
(* Inverses: P is prime, so 1 is the least positive combination of P and of    *)
(* any residue but 0.                                                          *)
LEMMA InverseModP ==
    ASSUME NEW r \in 1..(P - 1)
    PROVE  \E i \in 1..(P - 1) : (r * i) % P = 1
<1>1. P \in Nat /\ P > 2 /\ P \in Nat \ {0}
    BY PAssumption DEF PAssumption
<1> DEFINE Comb(x) == \E u \in Int, v \in Int : x = (r * u) + (P * v)
           T == {x \in Nat : x # 0 /\ Comb(x)}
<1>2. r \in T
  <2>1. 1 \in Int /\ 0 \in Int /\ r = (r * 1) + (P * 0)
      BY <1>1
  <2> QED BY <2>1
<1>3. PICK d \in T : \A y \in T : d <= y
  <2>1. T \in SUBSET Nat /\ T # {}
      BY <1>2
  <2> HIDE DEF T
  <2> QED BY <2>1, LeastNatural
<1>4. d \in Nat \ {0} /\ d <= r /\ d <= P - 1
    BY <1>1, <1>2, <1>3
<1>5. PICK u \in Int, v \in Int : d = (r * u) + (P * v)
    BY <1>3
<1>6. P % d = 0
  <2> DEFINE q == P \div d
             e == P % d
  <2>1. e \in 0..(d - 1) /\ q \in Int /\ P = (d * q) + e
      BY <1>1, <1>4, Remainder
  <2> HIDE DEF q, e
  <2>2. e = (r * (-(u * q))) + (P * (1 - (v * q)))
    <3>1. d * q = (r * (u * q)) + (P * (v * q))
        BY <1>5, <2>1, SMT
    <3>2. (r * (-(u * q))) = -(r * (u * q)) /\ P * (1 - (v * q)) = P - (P * (v * q))
        BY <1>1, <2>1, SMT
    <3> DEFINE x == r * (u * q)
               y == P * (v * q)
    <3>3. x \in Int /\ y \in Int /\ d * q \in Int
        BY <1>1, <1>4, <2>1
    <3>4. d * q = x + y /\ r * (-(u * q)) = -x /\ P * (1 - (v * q)) = P - y
        BY <3>1, <3>2
    <3> HIDE DEF x, y
    <3> DEFINE z == d * q
               a == r * (-(u * q))
               b == P * (1 - (v * q))
    <3>5. P = z + e /\ z = x + y /\ z \in Int /\ a = -x /\ b = P - y
        BY <2>1, <3>3, <3>4
    <3> HIDE DEF z, a, b
    <3>6. e = a + b
        BY <1>1, <2>1, <3>3, <3>5
    <3> QED BY <3>6 DEF a, b
  <2>3. -(u * q) \in Int /\ 1 - (v * q) \in Int
      BY <2>1
  <2>4. Comb(e)
      BY <2>2, <2>3
  <2>5. e = 0
    <3>1. e # 0 => e \in T
      <4>1. e \in Nat
          BY <1>4, <2>1
      <4> HIDE DEF Comb
      <4> QED BY <2>4, <4>1
    <3> HIDE DEF T
    <3> QED BY <1>3, <1>4, <2>1, <3>1
  <2> QED BY <2>5 DEF e
<1>7. d = 1
  <2>1. d \notin 2..(P - 1)
      BY <1>6, PAssumption DEF PAssumption
  <2> QED BY <1>1, <1>4, <2>1
<1> DEFINE i == u % P
<1>8. i \in 0..(P - 1) /\ (r * i) % P = (r * u) % P
  <2>1. u % P \in 0..(P - 1)
      BY <1>1, Remainder
  <2>2. PICK x \in Int : x = r
      OBVIOUS
  <2>3. (x * (u % P)) % P = (x * u) % P
      BY <1>1, RemainderInProduct
  <2> QED BY <2>1, <2>2, <2>3
<1>9. (r * u) % P = 1
  <2>1. PICK x \in Int : x = r * u
      OBVIOUS
  <2>2. (x + (P * v)) % P = x % P
      BY <1>1, SameRemainder
  <2>3. 1 % P = 1
      BY <1>1, SmallRemainder
  <2> QED BY <1>5, <1>7, <2>1, <2>2, <2>3
<1> HIDE DEF i
<1>10. i # 0
  <2>1. 0 % P = 0 /\ r * 0 = 0
      BY <1>1, SmallRemainder
  <2> QED BY <1>8, <1>9, <2>1
<1> QED BY <1>8, <1>9, <1>10

LEMMA InvModPIs ==
    ASSUME NEW r \in 0..(P - 1)
    PROVE  /\ InvModP[r] \in Int
           /\ r # 0 => (r * InvModP[r]) % P = 1
<1>1. CASE r = 0
    BY <1>1 DEF InvModP
<1>2. CASE r # 0
  <2>1. \E i \in 1..(P - 1) : (r * i) % P = 1
      BY <1>2, InverseModP
  <2>2. InvModP[r] = CHOOSE i \in 1..(P - 1) : (r * i) % P = 1
      BY <1>2 DEF InvModP
  <2>3. InvModP[r] \in 1..(P - 1) /\ (r * InvModP[r]) % P = 1
      BY <2>1, <2>2
  <2> QED BY <2>3
<1> QED BY <1>1, <1>2

LEMMA InvIn ==
    ASSUME NEW x \in Int
    PROVE  Inv(x) \in Z
<1>1. P \in Nat \ {0}
    BY PAssumption DEF PAssumption
<1>2. x % P \in 0..(P - 1)
    BY <1>1, Remainder
<1>3. PICK i \in Int : i = InvModP[x % P]
    BY <1>2, InvModPIs
<1>4. (x ** i) \in Int
    BY InZ, ZIsInt
<1>5. (i ** (2 - (x ** i))) \in Z
    BY <1>4, InZ
<1> QED BY <1>3, <1>5 DEF Inv

LEMMA InvIsInverse ==
    ASSUME NEW x \in Int, x % P # 0
    PROVE  (Inv(x) ** x) = 1
<1>1. P \in Nat \ {0} /\ P \in Int
    BY PAssumption DEF PAssumption
<1>2. x % P \in 0..(P - 1)
    BY <1>1, Remainder
<1>3. PICK i \in Int : i = InvModP[x % P] /\ ((x % P) * i) % P = 1
    BY <1>2, InvModPIs
<1>4. (x * i) % P = 1
  <2>1. (i * (x % P)) % P = (i * x) % P
      BY <1>1, RemainderInProduct
  <2>2. i * (x % P) = (x % P) * i /\ i * x = x * i
      BY <1>2, SMT
  <2> QED BY <1>3, <2>1, <2>2
<1> DEFINE p == x * i
           y == (x ** i)
           e == 2 - y
<1>5. p \in Int /\ y \in Int /\ y \in Z /\ y = p % Q
  <2>1. y \in Z
      BY InZ
  <2>2. y = p % Q
      BY DEF **
  <2>3. p \in Int
      OBVIOUS
  <2> HIDE DEF p, y
  <2> QED BY <2>1, <2>2, <2>3, ZIsInt
<1>6. e \in Int
    BY <1>5
<1>7. Inv(x) = (i ** e)
    BY <1>3 DEF Inv
<1>8. PICK k \in Int : y = 1 + (P * k)
  <2> HIDE DEF y, p
  <2>1. PICK a \in Int : p = (P * a) + 1
    <3>1. p % P = 1 /\ p \div P \in Int /\ p = (P * (p \div P)) + (p % P)
        BY <1>1, <1>4, <1>5, Remainder DEF p
    <3> QED BY <3>1
  <2>2. PICK b \in Int : p = (Q * b) + y
    <3>1. p \div Q \in Int /\ p = (Q * (p \div Q)) + (p % Q)
        BY <1>5, QIsPositive, Remainder
    <3> QED BY <1>5, <3>1
  <2>3. Q * b = P * (P * b)
      BY <1>1, SMT DEF Q
  <2>4. P * (a - (P * b)) = (P * a) - (P * (P * b))
      BY <1>1, SMT
  <2>5. a - (P * b) \in Int
      BY <1>1
  <2> DEFINE s == P * a
             t == P * (P * b)
             rest == P * (a - (P * b))
  <2>6. s \in Int /\ t \in Int /\ p = s + 1 /\ p = t + y /\ rest = s - t
      BY <1>1, <2>1, <2>2, <2>3, <2>4
  <2> HIDE DEF s, t, rest
  <2>7. y = 1 + rest
      BY <1>5, <2>6
  <2> QED BY <2>5, <2>7 DEF rest
<1> HIDE DEF p, y, e
<1>9. (y ** e) = 1
  <2>1. k * k \in Int /\ -(k * k) \in Int
      OBVIOUS
  <2>2. y * e = 1 + (Q * (-(k * k)))
    <3>1. e = 1 - (P * k)
      <4>1. PICK rest \in Int : rest = P * k
          BY <1>1
      <4> QED BY <1>5, <1>8, <4>1 DEF e
    <3>2. (1 + (P * k)) * (1 - (P * k)) = 1 + ((P * P) * (-(k * k)))
        BY <1>1, SMT
    <3> QED BY <1>8, <3>1, <3>2 DEF Q
  <2>3. PICK u \in Int : u = 1
      OBVIOUS
  <2>4. PICK c \in Int : c = -(k * k)
      BY <2>1
  <2>5. (u + (Q * c)) % Q = u % Q
      BY QIsPositive, SameRemainder
  <2>6. 1 % Q = 1
      BY ZIsInt, Reduced
  <2> QED BY <2>2, <2>3, <2>4, <2>5, <2>6 DEF **
<1>10. ((i ** e) ** x) = (x ** (i ** e)) /\ (x ** (i ** e)) = ((x ** i) ** e)
  <2>1. (i ** e) \in Int
      BY <1>6, InZ, ZIsInt
  <2> QED BY <1>6, <2>1, TimesCommutes, TimesAssociates
<1> QED BY <1>7, <1>9, <1>10 DEF y

LEMMA WholeIn ==
    ASSUME NEW s \in Seq(Int), NEW V \in Seq(Int), Len(V) = Len(s)
    PROVE  Whole(s, V, Len(s)).l \in Z /\ Whole(s, V, Len(s)).acc \in Z
<1>1. PICK n \in Nat : n = Len(s) /\ n \in 0..n /\ n \in 0..Len(s)
    OBVIOUS
<1>2. PICK m \in Int : m = MaxOf(s, 1, n)
    BY <1>1, MaxInt
<1> DEFINE ws == Weight(s, m)
           x == Weighted(s, V, m)
<1>3. Integral(ws, n) /\ Integral(x, n)
    BY <1>1, WeightsIntegral
<1> HIDE DEF ws, x
<1>4. \A k \in 0..n : /\ SumTo(ws, k) \in Z
                      /\ k = 0 => SumTo(ws, k) = 0
                      /\ k > 0 => SumTo(ws, k) = (SumTo(ws, k - 1) ++ ws[k])
    BY <1>3, SumSteps
<1>5. \A k \in 0..n : /\ SumTo(x, k) \in Z
                      /\ k = 0 => SumTo(x, k) = 0
                      /\ k > 0 => SumTo(x, k) = (SumTo(x, k - 1) ++ x[k])
    BY <1>3, SumSteps
<1>6. SumTo(ws, n) \in Z /\ SumTo(x, n) \in Z
    BY <1>1, <1>4, <1>5
<1> QED BY <1>1, <1>2, <1>6 DEF Whole, ws, x

(* The three forms of flash attention compute the same, whatever the scores,   *)
(* the values and the size of the blocks, the last of which may be short.      *)
THEOREM FlashFormsAgree ==
    ASSUME NEW s \in Seq(Int), NEW V \in Seq(Int), Len(V) = Len(s), InScores(s), Len(s) # 0,
           NEW block \in Nat \ {0}
    PROVE  /\ flash_attention_full(s, V, block) = flash_attention(s, V)
           /\ flash_attention_incremental(s, V, block) = flash_attention(s, V)
<1>1. PICK l \in Z : l = Whole(s, V, Len(s)).l
    BY WholeIn
<1>2. PICK acc \in Z : acc = Whole(s, V, Len(s)).acc
    BY WholeIn
<1>3. l \in Int /\ acc \in Int
    BY ZIsInt
<1>4. Inv(l) \in Int
  <2>1. Inv(l) \in Z
      BY <1>3, InvIn
  <2> QED BY <2>1, ZIsInt
<1>5. (acc ** Inv(l)) = (Inv(l) ** acc)
    BY <1>3, <1>4, TimesCommutes
<1>6. flash_attention(s, V) = (Inv(l) ** acc)
    BY <1>1, <1>2, TwoPasses
<1>7. flash_attention_incremental(s, V, block) = (Inv(l) ** acc)
    BY <1>1, <1>2, IncrementalIsTwoPasses
<1>8. flash_attention_full(s, V, block) = (acc ** Inv(l))
    BY <1>1, <1>2, FullIsWhole
<1> QED BY <1>5, <1>6, <1>7, <1>8

(* It is softmax(s) . V wherever the sum of the weights has an inverse: times  *)
(* the sum of exp(s), it is the sum of exp(s) V.                               *)
THEOREM FlashNormalizes ==
    ASSUME NEW s \in Seq(Int), NEW V \in Seq(Int), Len(V) = Len(s), InScores(s), Len(s) # 0,
           Whole(s, V, Len(s)).l % P # 0
    PROVE  (flash_attention(s, V) ** Total([j \in 1..Len(s) |-> exp(s[j])]))
               = Total([j \in 1..Len(s) |-> exp(s[j]) * V[j]])
<1>1. PICK n \in Nat : n = Len(s) /\ n \in 0..Len(s) /\ n \in 1..Len(s)
    OBVIOUS
<1>2. PICK m \in -50..50 : m = MaxOf(s, 1, n)
    BY <1>1, MaxInScores
<1>3. PICK o \in -50..50 : o = 0
    OBVIOUS
<1>4. PICK l \in Z : l = Whole(s, V, Len(s)).l
    BY WholeIn
<1>5. PICK acc \in Z : acc = Whole(s, V, Len(s)).acc
    BY WholeIn
<1>6. l = SumTo(Weight(s, m), n) /\ acc = SumTo(Weighted(s, V, m), n)
    BY <1>1, <1>2, <1>4, <1>5 DEF Whole
<1>7. PICK c \in Int : c = exp(m - o)
  <2>1. m - o \in Int
      OBVIOUS
  <2>2. exp(m - o) \in Z
      BY <2>1, ExpIn
  <2> QED BY <2>2, ZIsInt
<1>8. SumTo(Weight(s, o), n) = (c ** l) /\ SumTo(Weighted(s, V, o), n) = (c ** acc)
  <2>1. Rescales(s, V, n, m, o)
      BY <1>1, Rescaled
  <2>2. exp(m - o) = c
      BY <1>7
  <2> QED BY <1>6, <2>1, <2>2 DEF Rescales
<1>9. /\ SumTo(Weight(s, o), n) = Total([j \in 1..Len(s) |-> exp(s[j])])
      /\ SumTo(Weighted(s, V, o), n) = Total([j \in 1..Len(s) |-> exp(s[j]) * V[j]])
  <2>1. \A j \in 1..Len(s) : s[j] - o = s[j]
      BY <1>3
  <2>2. [i \in 1..Len(s) |-> exp(s[i] - o)] = [j \in 1..Len(s) |-> exp(s[j])]
      BY <2>1
  <2>3. [j \in 1..Len(s) |-> exp(s[j] - o) * V[j]] = [j \in 1..Len(s) |-> exp(s[j]) * V[j]]
      BY <2>1
  <2>4. /\ SumTo(Weight(s, o), Len(s)) = Total([i \in 1..Len(s) |-> exp(s[i] - o)])
        /\ SumTo(Weighted(s, V, o), Len(s)) = Total([j \in 1..Len(s) |-> exp(s[j] - o) * V[j]])
      BY AllWeights
  <2> QED BY <1>1, <2>2, <2>3, <2>4, Zenon
<1>10. flash_attention(s, V) = (Inv(l) ** acc)
    BY <1>4, <1>5, TwoPasses
<1>11. l \in Int /\ acc \in Int /\ (Inv(l) ** l) = 1
    BY <1>4, ZIsInt, InvIsInverse
<1>12. PICK i \in Int : i = Inv(l)
  <2>1. Inv(l) \in Z
      BY <1>11, InvIn
  <2> QED BY <2>1, ZIsInt
<1>13. ((i ** acc) ** (c ** l)) = (c ** acc)
  <2>1. PICK x \in Int : x = (i ** acc)
      BY <1>11, InZ, ZIsInt
  <2>2. PICK y \in Int : y = (l ** c)
      BY <1>11, InZ, ZIsInt
  <2>3. (c ** l) = y /\ x = (acc ** i)
      BY <1>11, <2>1, <2>2, TimesCommutes
  <2>4. ((acc ** i) ** y) = (acc ** (i ** y))
      BY <1>11, TimesAssociates
  <2>5. (i ** (l ** c)) = ((i ** l) ** c)
      BY <1>11, TimesAssociates
  <2>6. (acc ** ((i ** l) ** c)) = (c ** acc)
    <3>1. (1 ** c) = c % Q
      <4>1. 1 * c = c
          OBVIOUS
      <4> QED BY <4>1 DEF **
    <3>2. (acc ** (c % Q)) = (acc ** c) /\ (acc ** c) = (c ** acc)
        BY <1>11, TimesReduced, TimesCommutes
    <3> QED BY <1>11, <1>12, <3>1, <3>2
  <2> QED BY <2>1, <2>2, <2>3, <2>4, <2>5, <2>6
<1> QED BY <1>8, <1>9, <1>10, <1>12, <1>13

\* The rows of FlashIsSoftmax: four scores at most, three apart at most.
Near(s) == /\ Len(s) \in 1..4
           /\ \A j \in 1..Len(s) : s[j] \in -2..1

LEMMA SmallExp ==
    ASSUME NEW d \in -3..0
    PROVE  exp(d + 3) \in 1..8 /\ exp(d + 3) = (8 ** exp(d))
<1>1. P \in Nat /\ P > 32 /\ Q > 32
  <2>1. P \in Nat /\ P > 32
      BY PAssumption, FlashAssumption DEF PAssumption, FlashAssumption
  <2>2. P * P > 32
      BY <2>1, SMT
  <2> QED BY <2>1, <2>2 DEF Q
<1>2. 2 % Q = 2 /\ 4 % Q = 4 /\ 8 % Q = 8
  <2>1. 2 \in 0..(Q - 1) /\ 4 \in 0..(Q - 1) /\ 8 \in 0..(Q - 1)
      BY <1>1, QIsPositive
  <2> QED BY <2>1, QIsPositive, SmallRemainder
<1>3. Power(2, 0) = 1 /\ Power(2, 1) = 2 /\ Power(2, 2) = 4 /\ Power(2, 3) = 8
  <2>1. Power(2, 0) = 1 /\ Power(2, 0 + 1) = (2 ** Power(2, 0))
      BY PowerFacts
  <2>2. Power(2, 1 + 1) = (2 ** Power(2, 1))
      BY PowerFacts
  <2>3. Power(2, 2 + 1) = (2 ** Power(2, 2))
      BY PowerFacts
  <2>4. (2 ** 1) = 2 /\ (2 ** 2) = 4 /\ (2 ** 4) = 8
      BY <1>2 DEF **
  <2>5. 0 + 1 = 1 /\ 1 + 1 = 2 /\ 2 + 1 = 3
      OBVIOUS
  <2> QED BY <2>1, <2>2, <2>3, <2>4, <2>5
<1>4. exp(0) = 1 /\ exp(1) = 2 /\ exp(2) = 4 /\ exp(3) = 8
    BY <1>3 DEF exp
<1>5. d + 3 \in {0, 1, 2, 3}
    OBVIOUS
<1>6. exp(d + 3) \in 1..8
    BY <1>4, <1>5
<1>7. PICK n \in Nat : n = 3
    OBVIOUS
<1>8. exp(d + n) = (exp(d) ** exp(n))
    BY ExpAddsUp
<1>9. exp(d) \in Int
  <2>1. d \in Int
      OBVIOUS
  <2>2. exp(d) \in Z
      BY <2>1, ExpIn
  <2> QED BY <2>2, ZIsInt
<1>10. (exp(d) ** 8) = (8 ** exp(d))
    BY <1>9, TimesCommutes
<1> QED BY <1>4, <1>6, <1>7, <1>8, <1>10

LEMMA SmallSums ==
    ASSUME NEW n \in 1..4, NEW v, \A j \in 1..n : v[j] \in 1..8
    PROVE  SumTo(v, n) \in 1..32
<1>1. Integral(v, n) /\ n \in Nat /\ n \in 0..n
    BY DEF Integral
<1>2. \A k \in 0..n : /\ SumTo(v, k) \in Z
                      /\ k = 0 => SumTo(v, k) = 0
                      /\ k > 0 => SumTo(v, k) = (SumTo(v, k - 1) ++ v[k])
    BY <1>1, SumSteps
<1>3. Q > 32
  <2>1. P \in Nat /\ P > 32
      BY PAssumption, FlashAssumption DEF PAssumption, FlashAssumption
  <2>2. P * P > 32
      BY <2>1, SMT
  <2> QED BY <2>2 DEF Q
<1> DEFINE S == {k \in Nat : SumTo(v, k) \in k..(8 * k)}
<1>4. PICK z \in Nat : z = 0 /\ z \in 0..n /\ n \in z..n
    OBVIOUS
<1>5. z \in S
    BY <1>2, <1>4
<1>6. ASSUME NEW m \in (z + 1)..n, m - 1 \in S PROVE m \in S
  <2>1. m \in Nat /\ m \in 0..n /\ m > 0 /\ m <= 4 /\ m \in 1..n /\ m - 1 \in Nat
      BY <1>4
  <2>2. PICK x \in (m - 1)..(8 * (m - 1)) : x = SumTo(v, m - 1)
      BY <1>6
  <2>3. PICK y \in 1..8 : y = v[m]
      BY <2>1
  <2>4. SumTo(v, m) = (x ++ y)
      BY <1>2, <2>1, <2>2, <2>3
  <2>5. x + y \in m..(8 * m) /\ x + y \in 0..(Q - 1)
      BY <1>3, <2>1, QIsPositive
  <2>6. (x + y) % Q = x + y
      BY <2>5, QIsPositive, SmallRemainder
  <2> QED BY <2>1, <2>4, <2>5, <2>6 DEF ++
<1> HIDE DEF S
<1>7. \A k \in z..n : k \in S
    BY <1>1, <1>5, <1>6, IntervalInduction
<1>8. SumTo(v, n) \in n..(8 * n)
    BY <1>4, <1>7 DEF S
<1> QED BY <1>8

LEMMA NearInvertible ==
    ASSUME NEW s \in Seq(Int), NEW V \in Seq(Int), Len(V) = Len(s), Near(s)
    PROVE  InScores(s) /\ Len(s) # 0 /\ Whole(s, V, Len(s)).l % P # 0
<1>1. InScores(s) /\ Len(s) # 0
    BY DEF Near, InScores
<1>2. PICK n \in 1..4 : n = Len(s) /\ n \in 0..Len(s) /\ n \in 1..Len(s) /\ n \in Nat
  <2>1. PICK n \in 1..4 : n = Len(s)
      BY DEF Near
  <2>2. n \in 0..n /\ n \in 1..n /\ n \in Nat
      OBVIOUS
  <2> QED BY <2>1, <2>2
<1>3. PICK m \in -2..1 : m = MaxOf(s, 1, n) /\ \A j \in 1..n : s[j] <= m
  <2>1. PICK z \in Nat : z = 0 /\ z + 1 = 1 /\ z \in 0..n /\ n \in z..n
      OBVIOUS
  <2>2. Scores(s, n)
      BY <1>2 DEF Scores
  <2>3. \A k \in z..n : IsMax(s, z, k, MaxOf(s, z + 1, k))
      BY <1>2, <2>1, <2>2, MaxIs
  <2>4. IsMax(s, z, n, MaxOf(s, 1, n))
      BY <2>1, <2>3
  <2>5. PICK m \in -50..50 : m = MaxOf(s, 1, n)
      BY <1>1, <1>2, MaxInScores
  <2>6. PICK j \in 1..n : m = s[j]
    <3>1. m = NoScore \/ \E j \in (z + 1)..n : m = s[j]
        BY <2>4, <2>5 DEF IsMax
    <3>2. m # NoScore
      <4>1. m >= -50
          OBVIOUS
      <4>2. NoScore \in Int /\ NoScore < -50
          BY DEF NoScore
      <4> QED BY <4>1, <4>2
    <3> QED BY <2>1, <3>1, <3>2
  <2>7. m \in -2..1
      BY <1>2, <2>6 DEF Near
  <2>8. \A k \in 1..n : s[k] <= m
      BY <2>1, <2>4, <2>5 DEF IsMax
  <2> QED BY <2>5, <2>7, <2>8
<1> DEFINE ws == Weight(s, m)
           v == [j \in 1..n |-> exp((s[j] - m) + 3)]
           A == SumTo(ws, n)
<1>4. ASSUME NEW j \in 1..n PROVE v[j] \in 1..8 /\ v[j] % Q = (8 ** ws[j])
  <2>1. PICK sj \in -2..1 : sj = s[j] /\ j \in 1..Len(s)
      BY <1>2 DEF Near
  <2>2. PICK d \in -3..0 : d = sj - m
    <3>1. sj <= m
        BY <1>3, <2>1
    <3>2. sj - m \in -3..0
        BY <3>1
    <3> QED BY <3>2
  <2>3. exp(d + 3) \in 1..8 /\ exp(d + 3) = (8 ** exp(d))
      BY SmallExp
  <2>4. v[j] = exp(d + 3) /\ ws[j] = exp(d)
      BY <2>1, <2>2 DEF Weight
  <2>5. (8 ** exp(d)) \in Z
    <3>1. d \in Int
        OBVIOUS
    <3>2. exp(d) \in Int
        BY <3>1, ExpIn, ZIsInt
    <3> QED BY <3>2, InZ
  <2> QED BY <2>3, <2>4, <2>5, Reduced
<1>5. Integral(ws, n)
  <2>1. m \in Int
      OBVIOUS
  <2> QED BY <1>2, <2>1, WeightsIntegral
<1>6. Integral(v, n)
  <2> HIDE DEF v
  <2>1. ASSUME NEW j \in 1..n PROVE v[j] \in Int
    <3>1. PICK x \in 1..8 : x = v[j]
        BY <1>4
    <3>2. x \in Int
        OBVIOUS
    <3> QED BY <3>1, <3>2
  <2> QED BY <2>1 DEF Integral
<1> HIDE DEF ws, v
<1>7. SumTo(v, n) = (8 ** A)
  <2>1. PICK c \in Int : c = 8
      OBVIOUS
  <2>2. \A j \in 1..n : v[j] % Q = (c ** ws[j])
      BY <1>4, <2>1
  <2>3. SumTo(v, n) = (c ** SumTo(ws, n))
      BY <1>2, <1>5, <1>6, <2>2, SumScaled
  <2> QED BY <2>1, <2>3
<1>8. PICK N \in 1..32 : N = SumTo(v, n)
  <2>1. \A j \in 1..n : v[j] \in 1..8
      BY <1>4
  <2> QED BY <2>1, SmallSums
<1>9. A \in Int
  <2>1. \A k \in 0..n : /\ SumTo(ws, k) \in Z
                        /\ k = 0 => SumTo(ws, k) = 0
                        /\ k > 0 => SumTo(ws, k) = (SumTo(ws, k - 1) ++ ws[k])
      BY <1>2, <1>5, SumSteps
  <2>2. n \in 0..n
      OBVIOUS
  <2> QED BY <2>1, <2>2, ZIsInt
<1>10. A = Whole(s, V, Len(s)).l
    BY <1>2, <1>3 DEF Whole, ws
<1> HIDE DEF A
<1>11. ASSUME A % P = 0 PROVE FALSE
  <2>1. P \in Nat \ {0} /\ P > 32
      BY PAssumption, FlashAssumption DEF PAssumption, FlashAssumption
  <2>2. PICK a \in Int : A = P * a
    <3>1. A \div P \in Int /\ A = (P * (A \div P)) + (A % P)
        BY <1>9, <2>1, Remainder
    <3> QED BY <1>11, <2>1, <3>1
  <2>3. PICK b \in Int : 8 * A = (Q * b) + N
    <3>1. PICK x \in Int : x = 8 * A
        BY <1>9
    <3>2. x \div Q \in Int /\ x = (Q * (x \div Q)) + (x % Q)
        BY QIsPositive, Remainder
    <3>3. x % Q = N
        BY <1>7, <1>8, <3>1 DEF **
    <3> QED BY <3>1, <3>2, <3>3
  <2>4. PICK e \in Int : e = (8 * a) - (P * b)
    <3>1. PICK y \in Int : y = P * b
        BY <2>1
    <3>2. PICK x \in Int : x = 8 * a
        OBVIOUS
    <3> QED BY <3>1, <3>2
  <2>5. P * e = N
    <3>1. P * e = (8 * (P * a)) - ((P * P) * b)
        BY <2>1, <2>4, SMT
    <3>2. PICK y \in Int : y = (P * P) * b
        BY <2>1
    <3>3. PICK x \in Int : x = 8 * A
        BY <1>9
    <3>4. x = y + N /\ P * e = x - y
        BY <2>2, <2>3, <3>1, <3>2, <3>3 DEF Q
    <3> QED BY <3>4
  <2>6. -P < P * e /\ P * e < P
      BY <2>1, <2>5
  <2>7. e = 0
      BY <2>1, <2>6, NoSmallMultiple
  <2>8. P * 0 = 0
      BY <2>1
  <2> QED BY <2>5, <2>7, <2>8
<1> QED BY <1>1, <1>10, <1>11

LEMMA FlashIs == seed \in Seeds => FlashIsSoftmax
<1> SUFFICES ASSUME seed \in Seeds, NEW n \in 1..4, NEW s \in [1..n -> {-2, 0, 1}]
             PROVE  LET V == Sample(seed, 90, 1, n)[1]
                        two == flash_attention(s, V)
                    IN  /\ two ** Total([j \in 1..n |-> exp(s[j])])
                              = Total([j \in 1..n |-> exp(s[j]) * V[j]])
                        /\ \A block \in 1..n : /\ flash_attention_full(s, V, block) = two
                                               /\ flash_attention_incremental(s, V, block) = two
    BY DEF FlashIsSoftmax
<1> DEFINE V == Sample(seed, 90, 1, n)[1]
<1>1. seed \in Int
    BY GradientAssumption DEF GradientAssumption
<1>2. n \in Nat /\ 90 \in Int
    OBVIOUS
<1>3. V \in Seq(Int) /\ Len(V) = n
    BY <1>1, <1>2, SampleIn
<1> HIDE DEF V
<1>4. s \in Seq(Int) /\ Len(s) = n /\ Near(s)
  <2>1. s \in [1..n -> Int]
      OBVIOUS
  <2>2. s \in Seq(Int) /\ Len(s) = n
      BY <1>2, <2>1
  <2>3. \A j \in 1..n : s[j] \in -2..1
      OBVIOUS
  <2> QED BY <2>2, <2>3 DEF Near
<1>5. Len(V) = Len(s)
    BY <1>3, <1>4
<1>6. InScores(s) /\ Len(s) # 0 /\ Whole(s, V, Len(s)).l % P # 0
    BY <1>3, <1>4, <1>5, NearInvertible
<1>7. (flash_attention(s, V) ** Total([j \in 1..Len(s) |-> exp(s[j])]))
          = Total([j \in 1..Len(s) |-> exp(s[j]) * V[j]])
    BY <1>3, <1>4, <1>5, <1>6, FlashNormalizes
<1>8. ASSUME NEW block \in 1..n
      PROVE  /\ flash_attention_full(s, V, block) = flash_attention(s, V)
             /\ flash_attention_incremental(s, V, block) = flash_attention(s, V)
  <2>1. block \in Nat \ {0}
      OBVIOUS
  <2> QED BY <1>3, <1>4, <1>5, <1>6, <2>1, FlashFormsAgree
<1> QED BY <1>4, <1>7, <1>8 DEF V

(* Whatever backward was called with, the three forms of flash attention give  *)
(* softmax(s) . V: FlashIsSoftmax, for every modulus above 32.                 *)
THEOREM FlashCorrect == GradSpec => []FlashIsSoftmax
<1>1. GradInit => seed \in Seeds
    BY DEF GradInit
<1> QED BY <1>1, SeedStays, FlashIs, PTL DEF GradSpec

=============================================================================
