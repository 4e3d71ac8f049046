------------------------------ MODULE Checkpoint ------------------------------
(* Files of weights: GPT::save_binary, save_binary_atomic and load_binary      *)
(* (model.cpp), SafeTensors (checkpoint.cpp) and GGUF (gguf.cpp), on a disk    *)
(* whose writes may fail, by processes that may be killed or lose power.       *)
(* A tensor's value is the number of the training that produced it, and the    *)
(* head's value v is also "wte of v transposed": a tied model is consistent    *)
(* when its head has wte's number.  Tensor 1 is wte, 2 stands for wpe and the  *)
(* last norm, 3 is lm_head, the others are blocks.  A file has its header      *)
(* first, then its tensors; count says how much of that is there.              *)
EXTENDS Integers, Sequences

CONSTANTS Configs, Layers, MaxTrained, MaxSaves, MaxFaults, MaxRestarts

ASSUME CheckpointAssumption ==
    /\ {Layers, MaxTrained, MaxSaves, MaxFaults, MaxRestarts} \subseteq Nat
    /\ Configs \subseteq [vocab : Nat, mamba : BOOLEAN, tied : BOOLEAN] /\ Configs # {}

VARIABLES model,      \* [cfg, w]: the GPT of the running process
          disk,       \* path -> file
          past,       \* checkpoints that may come back when the power fails
          job,        \* the save in progress
          said,       \* the last bool a GGUF function returned, and what it was about
          acked,      \* the weights of the last atomic save that returned; <<>>: none
          trained, saves, faults, restarts, power

vars == <<model, disk, past, job, said, acked, trained, saves, faults, restarts, power>>

-------------------------------------------------------------------------------
wte == 1
lm_head == 3
Tensors == 1..(3 + Layers)
Garbage == -1
Weights == [Tensors -> {Garbage} \cup 0..MaxTrained]

\* What of a Config decides a file's layout.  The vocabulary stands for all sizes.
Shape(c, t) == <<IF t \in {wte, lm_head} THEN c.vocab ELSE 0, t > 3 /\ c.mamba>>

parameters(c) == IF c.tied THEN Tensors \ {lm_head} ELSE Tensors

tie_weights(c, w) == IF c.tied THEN [w EXCEPT ![lm_head] = w[wte]] ELSE w

Formats == {"binary", "safetensors", "gguf"}
Paths == {"ckpt", "tmp", "other"}
\* save_binary writes the head of a tied model too.
Written(f) == IF f.format = "binary" THEN Tensors ELSE parameters(f.cfg)
\* Header and tensors before t, in the order of parameters().
Before(f, t) == 1 + IF lm_head \in Written(f) \/ t < lm_head THEN t - 1 ELSE t - 2
Length(f) == 1 + IF lm_head \in Written(f) THEN 3 + Layers ELSE 2 + Layers

Exists(f) == f.format # "none"
HasHeader(f) == Exists(f) /\ f.count >= 1
Has(f, t) == f.count > Before(f, t)
Whole(f) == Exists(f) /\ f.count = Length(f)

\* a kind and size of model that can hold the file's tensors, one by one
SameShapes(f, c) == /\ Written(f) = parameters(c)
                    /\ \A t \in Written(f) : Shape(f.cfg, t) = Shape(c, t)

Idle == [kind |-> "idle", path |-> "ckpt", atomic |-> FALSE, bad |-> FALSE]
NoFile == [format |-> "none", cfg |-> CHOOSE c \in Configs : TRUE, w |-> [t \in Tensors |-> 0],
           count |-> 0, synced |-> TRUE]
Silent == [about |-> "nothing", ok |-> FALSE, before |-> <<>>]

\* A new process constructs a model: its weights are those of no training.
Fresh(c) == [cfg |-> c, w |-> [t \in Tensors |-> 0]]

Init == /\ \E c \in Configs : model = Fresh(c)
        /\ disk = [p \in Paths |-> NoFile]
        /\ past = {}
        /\ job = Idle
        /\ said = Silent
        /\ acked = <<>>
        /\ trained = 0 /\ saves = 0 /\ faults = 0 /\ restarts = 0
        /\ power = FALSE

\* A failure of the file system, in an action that carries on with it.
Fault == faults < MaxFaults /\ faults' = faults + 1
NoFault == UNCHANGED faults

-------------------------------------------------------------------------------
(* Training changes all tensors and ties the head (Trainer).                   *)
Train == /\ job.kind = "idle" /\ trained < MaxTrained
         /\ trained' = trained + 1
         /\ model' = [model EXCEPT !.w = [t \in Tensors |-> trained + 1]]
         /\ said' = Silent
         /\ UNCHANGED <<disk, past, job, acked, saves, faults, restarts, power>>

-------------------------------------------------------------------------------
(* Saving.  Opening truncates; a stream that has failed writes nothing more.   *)
BeginSave(format, atomic) ==
    LET path == IF atomic THEN "tmp" ELSE "other"
    IN  /\ job.kind = "idle" /\ saves < MaxSaves
        /\ saves' = saves + 1
        /\ \/ /\ NoFault
              /\ disk' = [disk EXCEPT ![path] = [format |-> format, cfg |-> model.cfg, w |-> model.w,
                                                 count |-> 0, synced |-> FALSE]]
              /\ job' = [kind |-> "write", path |-> path, atomic |-> atomic, bad |-> FALSE]
              /\ said' = Silent
           \/ /\ Fault     \* cannot open: save_binary_atomic goes on, the others return
              /\ job' = IF atomic THEN [Idle EXCEPT !.kind = "sync", !.path = path, !.atomic = TRUE] ELSE Idle
              /\ said' = IF format = "gguf" THEN [Silent EXCEPT !.about = "save"] ELSE Silent
              /\ UNCHANGED disk
        /\ UNCHANGED <<model, past, acked, trained, restarts, power>>

save_binary == BeginSave("binary", FALSE)
save_binary_atomic == BeginSave("binary", TRUE)
save_safetensors == BeginSave("safetensors", FALSE)
save_gguf == BeginSave("gguf", FALSE)

Write == /\ job.kind = "write" /\ ~job.bad /\ ~Whole(disk[job.path])
         /\ \/ NoFault /\ disk' = [disk EXCEPT ![job.path].count = @ + 1] /\ UNCHANGED job
            \/ Fault /\ job' = [job EXCEPT !.bad = TRUE] /\ UNCHANGED disk
         /\ UNCHANGED <<model, past, said, acked, trained, saves, restarts, power>>

\* Mutant: the result of the last flush is not looked at.
CloseUnchecked ==
    /\ job.kind = "write" /\ (job.bad \/ Whole(disk[job.path]))
    /\ job' = IF job.atomic THEN [job EXCEPT !.kind = "sync"] ELSE Idle
    /\ said' = IF disk[job.path].format = "gguf" THEN [about |-> "save", ok |-> TRUE, before |-> <<>>]
               ELSE Silent
    /\ UNCHANGED <<model, disk, past, acked, trained, saves, faults, restarts, power>>

\* Only GGUF looks whether everything was written.
Close == /\ job.kind = "write" /\ (job.bad \/ Whole(disk[job.path]))
         /\ job' = IF job.atomic THEN [job EXCEPT !.kind = "sync"] ELSE Idle
         /\ said' = IF disk[job.path].format = "gguf" THEN [about |-> "save", ok |-> ~job.bad, before |-> <<>>]
                    ELSE Silent
         /\ UNCHANGED <<model, disk, past, acked, trained, saves, faults, restarts, power>>

\* Mutant: close without fsync.
SyncNot == /\ job.kind = "sync"
           /\ job' = [job EXCEPT !.kind = "rename"]
           /\ UNCHANGED <<model, disk, past, said, acked, trained, saves, faults, restarts, power>>

\* fsync, of whatever file is at tmp; the file cannot be opened for it: no fsync.
Sync == /\ job.kind = "sync"
        /\ \/ NoFault /\ disk' = [disk EXCEPT !["tmp"].synced = TRUE]
           \/ Fault /\ UNCHANGED disk
        /\ job' = [job EXCEPT !.kind = "rename"]
        /\ UNCHANGED <<model, past, said, acked, trained, saves, restarts, power>>

\* std::rename replaces ckpt, whatever tmp is; without tmp, or when it fails, nothing happens.
Rename == /\ job.kind = "rename"
          /\ \/ /\ NoFault /\ Exists(disk["tmp"])
                /\ past' = past \cup {disk["ckpt"]}
                /\ disk' = [disk EXCEPT !["ckpt"] = disk["tmp"], !["tmp"] = NoFile]
             \/ (Fault \/ (NoFault /\ ~Exists(disk["tmp"]))) /\ UNCHANGED <<past, disk>>
          /\ job' = Idle
          /\ acked' = <<model>>
          /\ UNCHANGED <<model, said, trained, saves, restarts, power>>

-------------------------------------------------------------------------------
(* The process is killed: what it wrote stays.  Or the power fails: what was   *)
(* not synced may be lost from any point on, and renames not yet in the        *)
(* journal are undone.                                                         *)
NewProcess == /\ restarts < MaxRestarts
              /\ restarts' = restarts + 1
              /\ \E c \in Configs : model' = Fresh(c)
              /\ job' = Idle
              /\ said' = Silent

Kill == /\ NewProcess
        /\ UNCHANGED <<disk, past, acked, trained, saves, faults, power>>

Lost(f) == IF f.synced THEN {f} ELSE {[f EXCEPT !.count = n, !.synced = TRUE] : n \in 0..f.count}
PowerLoss == /\ NewProcess
             /\ \E old \in past \cup {disk["ckpt"]} :
                  \E c \in Lost(old), t \in Lost(disk["tmp"]), o \in Lost(disk["other"]) :
                      disk' = [p \in Paths |-> CASE p = "ckpt" -> c [] p = "tmp" -> t [] OTHER -> o]
             /\ past' = {}
             /\ power' = TRUE
             /\ UNCHANGED <<acked, trained, saves, faults>>

-------------------------------------------------------------------------------
(* Loading.  load_binary reads unchecked: what is not there is left over from  *)
(* earlier reads, or stays (junk).  It does not know what kind of blocks the   *)
(* file has: those of the other kind are skipped.                              *)
\* Mutant: the head is left as the file has it.
load_binaryUntied(m, f, junk) ==
    IF ~HasHeader(f) \/ f.cfg.vocab # m.cfg.vocab THEN m.w
    ELSE [t \in Tensors |->
             IF t > lm_head /\ f.cfg.mamba # m.cfg.mamba THEN m.w[t]
             ELSE IF Has(f, t) THEN f.w[t]
             ELSE IF t <= lm_head \/ junk THEN Garbage ELSE m.w[t]]

load_binary(m, f, junk) ==
    IF ~HasHeader(f) THEN IF junk /\ Exists(f) THEN [t \in Tensors |-> Garbage] ELSE m.w
    ELSE IF f.cfg.vocab # m.cfg.vocab THEN m.w
    ELSE tie_weights(m.cfg,
             [t \in Tensors |->
                 IF t > lm_head /\ f.cfg.mamba # m.cfg.mamba THEN m.w[t]
                 ELSE IF Has(f, t) THEN f.w[t]
                 ELSE IF t <= lm_head \/ junk THEN Garbage ELSE m.w[t]])

\* By name: tensors of another shape, or past the end of the file, are left alone.
\* Nobody ties the head.
load_safetensors(m, f) ==
    [t \in Tensors |->
        IF HasHeader(f) /\ t \in Written(f) \cap parameters(m.cfg) /\ Shape(f.cfg, t) = Shape(m.cfg, t)
           /\ Has(f, t) THEN f.w[t]
        ELSE m.w[t]]

\* Every read is checked, and all shapes before the first tensor is overwritten;
\* junk: the tensor at which the data end is half overwritten.
load_gguf(m, f, junk) ==
    IF ~HasHeader(f) \/ ~SameShapes(f, m.cfg) THEN [ok |-> FALSE, w |-> m.w]
    ELSE LET read == [t \in Tensors |->
                        IF t \in Written(f) /\ Has(f, t) THEN f.w[t]
                        ELSE IF junk /\ t \in Written(f) /\ f.count = Before(f, t) THEN Garbage ELSE m.w[t]]
         IN  IF Whole(f) THEN [ok |-> TRUE, w |-> tie_weights(m.cfg, read)] ELSE [ok |-> FALSE, w |-> read]

Load(path) ==
    /\ job.kind = "idle"
    /\ \E junk \in BOOLEAN :
         LET f == disk[path]
             gguf == load_gguf(model, f, junk)
         IN  \/ /\ f.format \in {"none", "binary"}
                /\ model' = [model EXCEPT !.w = load_binary(model, f, junk)]
                /\ said' = Silent
             \/ /\ f.format = "safetensors"
                /\ model' = [model EXCEPT !.w = load_safetensors(model, f)]
                /\ said' = Silent
             \/ /\ f.format = "gguf"
                /\ model' = [model EXCEPT !.w = gguf.w]
                /\ said' = [about |-> "load", ok |-> gguf.ok, before |-> model.w]
    /\ UNCHANGED <<disk, past, job, acked, trained, saves, faults, restarts, power>>

Next == \/ Train \/ Write \/ Close \/ Sync \/ Rename \/ Kill \/ PowerLoss
        \/ save_binary \/ save_binary_atomic \/ save_safetensors \/ save_gguf
        \/ \E path \in {"ckpt", "other"} : Load(path)
Spec == Init /\ [][Next]_vars

-------------------------------------------------------------------------------
File == [format : Formats \cup {"none"}, cfg : Configs, w : Weights, count : Nat, synced : BOOLEAN]
TypeOK == /\ model \in [cfg : Configs, w : Weights]
          /\ disk \in [Paths -> File]
          /\ past \subseteq File
          /\ job \in [kind : {"idle", "write", "sync", "rename"}, path : Paths, atomic : BOOLEAN,
                      bad : BOOLEAN]
          /\ acked \in {<<>>} \cup {<<m>> : m \in [cfg : Configs, w : Weights]}
          /\ trained \in 0..MaxTrained /\ saves \in Nat /\ faults \in Nat /\ restarts \in Nat
          /\ power \in BOOLEAN

(* save_binary_atomic: as long as no call to the file system fails, ckpt is a  *)
(* whole checkpoint whenever the process is killed or the power fails, and     *)
(* without a power failure it is the one of the last save that returned.       *)
OldOrNew ==
    faults = 0 =>
        /\ Exists(disk["ckpt"]) => Whole(disk["ckpt"])
        /\ ~power /\ acked # <<>> => /\ Exists(disk["ckpt"])
                                     /\ disk["ckpt"].cfg = acked[1].cfg
                                     /\ disk["ckpt"].w = acked[1].w

(* What the GGUF functions answer is so, whatever fails: true from save_gguf   *)
(* means a whole file; true from load_gguf, all parameters and the tied head   *)
(* are the file's; false about a whole file, the model is as it was.           *)
GgufHonest ==
    /\ said.about = "save" /\ said.ok => Whole(disk["other"])
    /\ said.about = "load" =>
         IF said.ok THEN /\ Whole(disk["other"])
                         /\ \A t \in parameters(model.cfg) : model.w[t] = disk["other"].w[t]
                         /\ model.w = tie_weights(model.cfg, model.w)
         ELSE Whole(disk["other"]) => model.w = said.before

(* load_binary and load_gguf of a whole file with the model's kind of blocks   *)
(* give all its weights with a head that fits, or change nothing, whichever of *)
(* vocabulary and tying differ between the model that was saved and this one.  *)
AllOrNothing ==
    [][\A path \in Paths :
         LET f == disk[path]
         IN  (/\ Load(path) /\ Whole(f) /\ f.format # "safetensors"
              /\ f.cfg.mamba = model.cfg.mamba)
             => model'.w \in {model.w, tie_weights(model.cfg, f.w)}]_vars

(* "safetensors->load->logits match binary v3" (docs/PRODUCTION_100.md:118).   *)
(* Refuted: load_safetensors does not tie the head it does not read.           *)
SafetensorsMatch ==
    [][\A path \in Paths :
         LET f == disk[path]
         IN  (Load(path) /\ Whole(f) /\ f.format = "safetensors" /\ f.cfg = model.cfg)
             => model'.w = load_binary(model, [f EXCEPT !.format = "binary", !.count = 4 + Layers], FALSE)]_vars
===============================================================================
