-------------------------------- MODULE Trainer --------------------------------
(***************************************************************************)
(* Trainer (src/src/trainer.cpp) with its optimizer, Adam, and a GPT whose *)
(* lm_head_ is tied to wte_: single steps and steps accumulated over K     *)
(* micro-batches, the skip of non-finite gradients, snapshot and rollback, *)
(* and the training state saved in three files, one after the other, by a  *)
(* process that may die at any moment or fail to write unnoticed.          *)
(*                                                                         *)
(* Weights are named by the updates that made them: an update is the       *)
(* micro-batches whose gradients it averages and the step whose learning   *)
(* rate it used.  Micro-batches are numbered as they are fed.              *)
(***************************************************************************)
EXTENDS Naturals, Sequences, FiniteSets

CONSTANTS
    K,           \* grad_accum_steps
    MaxFed,      \* bound: micro-batches fed
    MaxSaves,    \* bound: calls of save_train_state
    MaxCrashes,  \* bound: deaths of the process
    MaxFailures  \* bound: files a save could not write

ASSUME TrainerAssumption ==
    /\ K \in Nat \ {0}
    /\ MaxFed \in Nat /\ MaxSaves \in Nat /\ MaxCrashes \in Nat /\ MaxFailures \in Nat

VARIABLES
    w,        \* the parameters but lm_head_: the updates applied to them
    head,     \* the parameters tie_weights last copied lm_head_ from
    moments,  \* Adam's m_, v_ and t_: the updates they have seen
    rate,     \* Adam's lr_: the step it was scheduled for, how often halved
    step,     \* step_
    skipped,  \* skipped_
    accum,    \* accum_: the micro-batches summed in it, accum_count_ of them
    snap,     \* last_good_, <<>> when has_snapshot_ is false, else <<copy>>
    lossBad,  \* the last loss returned was not finite
    pc,       \* the client: "fresh", "idle", "counting", or the file it saves
    fed,      \* micro-batches fed so far
    poison,   \* those of them whose gradients are not finite
    gen,      \* calls of save_train_state so far
    fmodel,   \* <prefix>.model.bin
    fopt,     \* <prefix>.opt.bin
    fjson,    \* <prefix>.json
    origin,   \* where the state comes from, see Load
    crashes,
    failures

model == <<w, head>>
adam == <<moments, rate>>
counters == <<step, skipped>>
buffers == <<accum, snap>>
data == <<fed, poison>>
files == <<fmodel, fopt, fjson>>
disk == <<gen, files>>
mishaps == <<crashes, failures>>
vars == <<model, adam, counters, buffers, lossBad, pc, data, disk, origin, mishaps>>

-----------------------------------------------------------------------------
\* A file is "whole", "torn" (cut short), or "stale": whole, but the last
\* save could not open it and went on.  One that was never written is as good
\* as one of generation 0, written when nothing had been trained.
NoRate == [at |-> 0, halved |-> 0]

BlankModel == [gen |-> 0, state |-> "whole", origin |-> "exact", w |-> <<>>]
BlankOpt == [gen |-> 0, state |-> "whole", moments |-> <<>>, rate |-> NoRate]
BlankJson == [gen |-> 0, state |-> "whole", step |-> 0, skipped |-> 0]

\* What a partly read tensor leaves: no update of ours made these weights.
Corrupt == <<[mb |-> <<>>, at |-> 0]>>

NewProcess ==
    /\ w' = <<>> /\ head' = <<>>
    /\ moments' = <<>> /\ rate' = NoRate
    /\ step' = 0 /\ skipped' = 0
    /\ accum' = <<>> /\ snap' = <<>>
    /\ lossBad' = FALSE

Init == /\ w = <<>> /\ head = <<>>
        /\ moments = <<>> /\ rate = NoRate
        /\ step = 0 /\ skipped = 0
        /\ accum = <<>> /\ snap = <<>>
        /\ lossBad = FALSE
        /\ pc = "fresh"
        /\ fed = 0 /\ poison = {}
        /\ gen = 0
        /\ fmodel = BlankModel /\ fopt = BlankOpt /\ fjson = BlankJson
        /\ origin = "exact"
        /\ crashes = 0 /\ failures = 0

-----------------------------------------------------------------------------
(* Optimizer steps                                                         *)

\* A micro-batch is run forward and backward.  Its loss and its gradients
\* are finite or not independently of each other: -log p of an underflowed
\* probability is infinite, its gradient is not.
Feed(b, bad) ==
    /\ fed < MaxFed
    /\ b = fed + 1
    /\ fed' = b
    /\ poison' = IF bad THEN poison \cup {b} ELSE poison
    /\ lossBad' \in BOOLEAN

\* Mutant: the head is not tied again.
UpdateUntied(s) ==
    LET u == [mb |-> s, at |-> step]
    IN  /\ w' = Append(w, u)
        /\ moments' = Append(moments, u)
        /\ rate' = [at |-> step, halved |-> 0]
        /\ UNCHANGED <<head, skipped>>

\* set_lr(schedule), optim.step and tie_weights with the mean over s.
Update(s) ==
    LET u == [mb |-> s, at |-> step]
    IN  /\ w' = Append(w, u)
        /\ moments' = Append(moments, u)
        /\ head' = w'
        /\ rate' = [at |-> step, halved |-> 0]
        /\ UNCHANGED skipped

\* Non-finite gradients: the parameters are left alone.
Skip == skipped' = skipped + 1 /\ UNCHANGED <<model, adam>>

\* train_step, on the path that runs the real backward pass.
TrainStep ==
    /\ pc = "idle"
    /\ \E b \in 1..MaxFed, bad \in BOOLEAN :
         /\ Feed(b, bad)
         /\ IF bad THEN Skip ELSE Update(<<b>>)
    /\ pc' = "counting"
    /\ UNCHANGED <<step, buffers, disk, origin, mishaps>>

\* Mutant: the sums are not reset when the window has been applied.
MicroStepNoReset ==
    /\ pc = "idle"
    /\ \E b \in 1..MaxFed, bad \in BOOLEAN :
         LET sum == Append(accum, b)
             ready == Len(sum) >= K
             finite == \A i \in 1..Len(sum) : sum[i] \notin poison'
         IN  /\ Feed(b, bad)
             /\ accum' = IF ready /\ ~finite THEN <<>> ELSE sum
             /\ IF ~ready THEN UNCHANGED <<model, adam, skipped>>
                ELSE IF finite THEN Update(sum) ELSE Skip
             /\ pc' = IF ready THEN "counting" ELSE "idle"
    /\ UNCHANGED <<step, snap, disk, origin, mishaps>>

\* train_step_accum: the K-th micro-batch ends the window, whose mean is
\* applied, or dropped if any gradient summed in it is not finite.
MicroStep ==
    /\ pc = "idle"
    /\ \E b \in 1..MaxFed, bad \in BOOLEAN :
         LET sum == Append(accum, b)
             ready == Len(sum) >= K
             finite == \A i \in 1..Len(sum) : sum[i] \notin poison'
         IN  /\ Feed(b, bad)
             /\ accum' = IF ready THEN <<>> ELSE sum
             /\ IF ~ready THEN UNCHANGED <<model, adam, skipped>>
                ELSE IF finite THEN Update(sum) ELSE Skip
             /\ pc' = IF ready THEN "counting" ELSE "idle"
    /\ UNCHANGED <<step, snap, disk, origin, mishaps>>

\* ++step_ in train(), set_step(step() + 1) in a loop outside.
Count ==
    /\ pc = "counting"
    /\ step' = step + 1
    /\ pc' = "idle"
    /\ UNCHANGED <<model, adam, skipped, buffers, lossBad, data, disk, origin, mishaps>>

-----------------------------------------------------------------------------
(* Snapshot and rollback, called between steps.                            *)

Snapshot ==
    /\ pc = "idle"
    /\ snap' = <<w>>
    /\ UNCHANGED <<model, adam, counters, accum, lossBad, pc, data, disk, origin, mishaps>>

\* rollback_if_nonfinite returns true.  parameters() leaves a tied lm_head_
\* out, and the optimizer's moments are not part of the snapshot.
Rollback ==
    /\ pc = "idle"
    /\ lossBad /\ snap # <<>>
    /\ w' = snap[1]
    /\ rate' = [rate EXCEPT !.halved = @ + 1]
    /\ lossBad' = FALSE
    /\ origin' = "altered"
    /\ UNCHANGED <<head, moments, counters, buffers, pc, data, disk, mishaps>>

-----------------------------------------------------------------------------
(* save_train_state and load_train_state                                   *)

\* Mutant: the counters are saved first.
StartSaveCounters ==
    /\ pc = "idle" /\ gen < MaxSaves
    /\ gen' = gen + 1
    /\ fjson' = [gen |-> gen', state |-> "whole", step |-> step, skipped |-> skipped]
    /\ pc' = "model"
    /\ UNCHANGED <<model, adam, counters, buffers, lossBad, data, fmodel, fopt, origin, mishaps>>

StartSave ==
    /\ pc = "idle" /\ gen < MaxSaves
    /\ gen' = gen + 1
    /\ pc' = "model"
    /\ UNCHANGED <<model, adam, counters, buffers, lossBad, data, files, origin, mishaps>>

\* What an unsuccessful write of content leaves where the file f was: the
\* stream failed, or the file could not be opened.
Spoiled(f, content) ==
    {[content EXCEPT !.state = "torn"],
     [f EXCEPT !.state = IF f.state = "torn" THEN "torn" ELSE "stale"]}

\* Nobody looks whether a file was written, and the save goes on.
Write(f, new, content) ==
    \/ new = content /\ UNCHANGED failures
    \/ /\ failures < MaxFailures
       /\ failures' = failures + 1
       /\ new \in Spoiled(f, content)

SaveModel ==
    /\ pc = "model"
    /\ Write(fmodel, fmodel', [gen |-> gen, state |-> "whole", origin |-> origin, w |-> w])
    /\ pc' = "opt"
    /\ UNCHANGED <<model, adam, counters, buffers, lossBad, data, gen, fopt, fjson,
                   origin, crashes>>

SaveOpt ==
    /\ pc = "opt"
    /\ Write(fopt, fopt', [gen |-> gen, state |-> "whole", moments |-> moments, rate |-> rate])
    /\ pc' = "json"
    /\ UNCHANGED <<model, adam, counters, buffers, lossBad, data, gen, fmodel, fjson,
                   origin, crashes>>

SaveJson ==
    /\ pc = "json"
    /\ Write(fjson, fjson', [gen |-> gen, state |-> "whole", step |-> step, skipped |-> skipped])
    /\ pc' = "idle"
    /\ UNCHANGED <<model, adam, counters, buffers, lossBad, data, gen, fmodel, fopt,
                   origin, crashes>>

\* The file being written when the process dies may be cut short; opening it
\* has already truncated what was there.
Left(f, beingWritten) ==
    {f} \cup (IF beingWritten THEN {[f EXCEPT !.state = "torn"]} ELSE {})

\* The process dies and is started anew.
Crash ==
    /\ pc # "fresh" /\ crashes < MaxCrashes
    /\ crashes' = crashes + 1
    /\ NewProcess
    /\ pc' = "fresh"
    /\ origin' = "exact"
    /\ fmodel' \in Left(fmodel, pc = "model")
    /\ fopt' \in Left(fopt, pc = "opt")
    /\ fjson' \in Left(fjson, pc = "json")
    /\ UNCHANGED <<data, gen, failures>>

\* A torn file is refused at its header, or read as far as it goes; a torn
\* .json has no number to find.
Loaded(f, value) == IF f.state = "torn" THEN {<<>>, Corrupt} ELSE {value}

Number(f, n) == IF f.state = "torn" THEN 0 ELSE n

\* The state a new process loads is "exact" when the three files are of one
\* complete save of such a state, "mixed" when the process died between two
\* files of a save, "altered" after a rollback or with a damaged file.
AllWhole == fmodel.state = "whole" /\ fopt.state = "whole" /\ fjson.state = "whole"
OneSave == fopt.gen = fmodel.gen /\ fjson.gen = fmodel.gen

OriginOfFiles ==
    IF ~AllWhole THEN "altered"
    ELSE IF fmodel.origin = "exact" /\ ~OneSave THEN "mixed" ELSE fmodel.origin

\* load_train_state by a new Trainer; load_binary ties the head again.
Load ==
    /\ pc = "fresh"
    /\ w' \in Loaded(fmodel, fmodel.w)
    /\ head' = w'
    /\ moments' \in Loaded(fopt, fopt.moments)
    /\ rate' \in {fopt.rate} \cup (IF fopt.state = "torn" THEN {NoRate} ELSE {})
    /\ step' = Number(fjson, fjson.step)
    /\ skipped' = Number(fjson, fjson.skipped)
    /\ origin' = OriginOfFiles
    /\ pc' = "idle"
    /\ UNCHANGED <<buffers, lossBad, data, disk, mishaps>>

Next == \/ TrainStep \/ MicroStep \/ Count
        \/ Snapshot \/ Rollback
        \/ StartSave \/ SaveModel \/ SaveOpt \/ SaveJson
        \/ Crash \/ Load

Spec == Init /\ [][Next]_vars

-----------------------------------------------------------------------------
UpdateSet == [mb : Seq(1..MaxFed), at : 0..MaxFed]
Rates == [at : 0..MaxFed, halved : Nat]

TypeOK ==
    /\ w \in Seq(UpdateSet) /\ head \in Seq(UpdateSet) /\ moments \in Seq(UpdateSet)
    /\ rate \in Rates
    /\ step \in 0..fed /\ skipped \in 0..fed
    /\ accum \in Seq(1..fed)
    /\ snap \in Seq(Seq(UpdateSet)) /\ Len(snap) <= 1
    /\ lossBad \in BOOLEAN
    /\ pc \in {"fresh", "idle", "counting", "model", "opt", "json"}
    /\ fed \in 0..MaxFed /\ poison \subseteq 1..fed
    /\ gen \in 0..MaxSaves
    /\ fmodel.gen <= gen /\ fopt.gen <= gen /\ fjson.gen <= gen
    /\ origin \in {"exact", "mixed", "altered"}
    /\ crashes \in 0..MaxCrashes /\ failures \in 0..MaxFailures

(***************************************************************************)
(* Every update of the weights is one micro-batch or a whole window of K,  *)
(* a micro-batch is in one update at most, over skips, rollbacks, crashes  *)
(* and reloads, and never while its sum is still open; none with a         *)
(* non-finite gradient is in any.                                          *)
(***************************************************************************)
WholeWindows ==
    /\ Len(accum) < K
    /\ \A i \in 1..Len(w) : Len(w[i].mb) \in {0, 1, K}
    /\ \A i, j \in 1..Len(w) : \A p \in 1..Len(w[i].mb), q \in 1..Len(w[j].mb) :
         w[i].mb[p] = w[j].mb[q] => <<i, p>> = <<j, q>>
    /\ \A i \in 1..Len(w) : \A p \in 1..Len(w[i].mb) :
         /\ w[i].mb[p] \notin poison
         /\ \A a \in 1..Len(accum) : w[i].mb[p] # accum[a]

(***************************************************************************)
(* A micro-batch with a non-finite gradient costs one optimizer step: what *)
(* it left in the sums is gone with its window.                            *)
(***************************************************************************)
OneSkipEach == skipped <= Cardinality(poison)

(***************************************************************************)
(* Weights, tied head, optimizer moments and step counter are always those *)
(* of one and the same history of updates, also after loading a completely *)
(* saved state: resuming continues the run that was saved.  Rollbacks and  *)
(* damaged or interrupted saves are set apart by origin.                   *)
(***************************************************************************)
Aligned ==
    origin = "exact" /\ pc = "idle" =>
      moments = w /\ head = w /\ step = Len(w) + skipped

(***************************************************************************)
(* Wherever a save is interrupted, no loaded part is ahead of an earlier   *)
(* written one: counters never of updates the optimizer has not seen, nor  *)
(* moments of updates the weights do not have.  A step may be repeated on  *)
(* resuming, never left out.                                               *)
(***************************************************************************)
NeverAhead ==
    origin # "altered" /\ pc = "idle" =>
      Len(moments) <= Len(w) /\ step <= Len(moments) + skipped

=============================================================================
