-------------------------- MODULE Checkpoint_proofs --------------------------
(* Type correctness, the crash safety of save_binary_atomic, what loads leave  *)
(* in the model and what the GGUF functions answer, for every set of           *)
(* configurations, number of layers and bounds.                                *)
EXTENDS Checkpoint, TLAPS

Model == [cfg : Configs, w : Weights]
Good(f) == Exists(f) => Whole(f) /\ f.synced
Holds(f, m) == Exists(f) /\ f.cfg = m.cfg /\ f.w = m.w

\* Where an atomic save without a fault stands.
Progress ==
    /\ ~job.bad
    /\ job.kind = "write" => job.path = IF job.atomic THEN "tmp" ELSE "other"
    /\ job.kind = "write" /\ job.atomic => Holds(disk["tmp"], model)
    /\ job.kind \in {"sync", "rename"} => Holds(disk["tmp"], model) /\ Whole(disk["tmp"])
    /\ job.kind = "rename" => disk["tmp"].synced

\* What a rename may have replaced is as good as what replaced it.
Stored == /\ Good(disk["ckpt"])
          /\ \A f \in past : Good(f)
          /\ ~power /\ acked # <<>> => Holds(disk["ckpt"], acked[1])

IInv == TypeOK /\ (faults = 0 => Progress /\ Stored)

-------------------------------------------------------------------------------
(* The results of training and loading are weights.                            *)
LEMMA NoFileIsFile == NoFile \in File /\ ~Exists(NoFile)
<1>1. (CHOOSE c \in Configs : TRUE) \in Configs
    BY CheckpointAssumption DEF CheckpointAssumption
<1>2. [t \in Tensors |-> 0] \in Weights
    BY CheckpointAssumption DEF CheckpointAssumption, Weights
<1> QED BY <1>1, <1>2 DEF NoFile, File, Exists

LEMMA TyingKeepsType ==
    ASSUME NEW c, NEW w \in Weights PROVE tie_weights(c, w) \in Weights
<1>1. wte \in Tensors /\ lm_head \in Tensors
    BY CheckpointAssumption DEF CheckpointAssumption, Tensors, wte, lm_head
<1> QED BY <1>1 DEF tie_weights, Weights

LEMMA LoadedTypes ==
    ASSUME NEW m \in Model, NEW f \in File, NEW junk \in BOOLEAN
    PROVE /\ load_binary(m, f, junk) \in Weights
          /\ load_safetensors(m, f) \in Weights
          /\ load_gguf(m, f, junk).w \in Weights
<1>0. m.w \in Weights /\ f.w \in Weights
    BY DEF Model, File
<1>1. load_safetensors(m, f) \in Weights
    BY <1>0 DEF load_safetensors, Weights
<1>2. load_binary(m, f, junk) \in Weights
  <2> DEFINE read == [t \in Tensors |->
                        IF t > lm_head /\ f.cfg.mamba # m.cfg.mamba THEN m.w[t]
                        ELSE IF Has(f, t) THEN f.w[t]
                        ELSE IF t <= lm_head \/ junk THEN Garbage ELSE m.w[t]]
  <2>1. read \in Weights
      BY <1>0 DEF Weights
  <2>2. tie_weights(m.cfg, read) \in Weights
      BY <2>1, TyingKeepsType
  <2>3. [t \in Tensors |-> Garbage] \in Weights
      BY DEF Weights
  <2> QED BY <1>0, <2>2, <2>3 DEF load_binary
<1>3. load_gguf(m, f, junk).w \in Weights
  <2> DEFINE read == [t \in Tensors |->
                        IF t \in Written(f) /\ Has(f, t) THEN f.w[t]
                        ELSE IF junk /\ t \in Written(f) /\ f.count = Before(f, t) THEN Garbage ELSE m.w[t]]
  <2>1. read \in Weights
      BY <1>0 DEF Weights
  <2>2. tie_weights(m.cfg, read) \in Weights
      BY <2>1, TyingKeepsType
  <2> QED BY <1>0, <2>1, <2>2 DEF load_gguf
<1> QED BY <1>1, <1>2, <1>3

-------------------------------------------------------------------------------
LEMMA InitIsGood == Init => IInv
<1> SUFFICES ASSUME Init PROVE IInv
    OBVIOUS
<1>1. model \in Model
    BY CheckpointAssumption DEF Init, Fresh, Model, Weights, CheckpointAssumption
<1>2. disk \in [Paths -> File]
    BY NoFileIsFile DEF Init
<1>a. acked \in {<<>>} \cup {<<m>> : m \in [cfg : Configs, w : Weights]}
    BY DEF Init
<1>b. /\ job \in [kind : {"idle", "write", "sync", "rename"}, path : Paths, atomic : BOOLEAN, bad : BOOLEAN]
      /\ past \subseteq File /\ power \in BOOLEAN
    BY DEF Init, Idle, Paths
<1>c. trained \in 0..MaxTrained /\ saves \in Nat /\ faults \in Nat /\ restarts \in Nat
    BY CheckpointAssumption DEF Init, CheckpointAssumption
<1>3. TypeOK
    BY <1>1, <1>2, <1>a, <1>b, <1>c DEF TypeOK, Model
<1>4. Progress /\ Stored
    BY NoFileIsFile DEF Progress, Stored, Init, Idle, Good, Paths
<1> QED BY <1>3, <1>4 DEF IInv

LEMMA LostIsFile ==
    ASSUME NEW f \in File, NEW g \in Lost(f)
    PROVE g \in File /\ (g = f \/ (~f.synced /\ g.format = f.format))
<1>1. CASE f.synced
    BY <1>1 DEF Lost
<1>2. CASE ~f.synced
  <2>1. PICK n \in 0..f.count : g = [f EXCEPT !.count = n, !.synced = TRUE]
      BY <1>2 DEF Lost
  <2>2. n \in Nat
      BY <2>1 DEF File
  <2> QED BY <1>2, <2>1, <2>2 DEF File
<1> QED BY <1>1, <1>2

LEMMA TypeStep == TypeOK /\ [Next]_vars => TypeOK'
<1> SUFFICES ASSUME TypeOK, [Next]_vars PROVE TypeOK'
    OBVIOUS
<1> USE DEF TypeOK
<1>f. \A c \in Configs : Fresh(c) \in [cfg : Configs, w : Weights]
    BY CheckpointAssumption DEF Fresh, Weights, CheckpointAssumption
<1>i. Idle \in [kind : {"idle", "write", "sync", "rename"}, path : Paths, atomic : BOOLEAN, bad : BOOLEAN]
    BY DEF Idle, Paths
<1>p. "ckpt" \in Paths /\ "tmp" \in Paths /\ "other" \in Paths
    BY DEF Paths
<1>1. ASSUME Train PROVE TypeOK'
  <2>1. trained + 1 \in 0..MaxTrained
      BY <1>1, CheckpointAssumption DEF Train, CheckpointAssumption
  <2>2. [t \in Tensors |-> trained + 1] \in Weights
      BY <2>1 DEF Weights
  <2>3. model' \in [cfg : Configs, w : Weights]
      BY <1>1, <2>2 DEF Train
  <2> QED BY <1>1, <2>1, <2>3 DEF Train
<1>2. ASSUME NEW format \in Formats, NEW atomic \in BOOLEAN, BeginSave(format, atomic) PROVE TypeOK'
  <2> DEFINE path == IF atomic THEN "tmp" ELSE "other"
             new == [format |-> format, cfg |-> model.cfg, w |-> model.w, count |-> 0, synced |-> FALSE]
             open == [kind |-> "write", path |-> path, atomic |-> atomic, bad |-> FALSE]
             skip == IF atomic THEN [Idle EXCEPT !.kind = "sync", !.path = path, !.atomic = TRUE] ELSE Idle
  <2>1. new \in File /\ path \in Paths
      BY <1>p DEF File
  <2>2. /\ open \in [kind : {"idle", "write", "sync", "rename"}, path : Paths, atomic : BOOLEAN, bad : BOOLEAN]
        /\ skip \in [kind : {"idle", "write", "sync", "rename"}, path : Paths, atomic : BOOLEAN, bad : BOOLEAN]
      BY <1>p DEF Idle
  <2>3. disk' \in [Paths -> File]
      BY <1>2, <2>1 DEF BeginSave
  <2>4. job' \in [kind : {"idle", "write", "sync", "rename"}, path : Paths, atomic : BOOLEAN, bad : BOOLEAN]
    <3>1. job' = open \/ job' = skip
        BY <1>2 DEF BeginSave
    <3> QED BY <2>2, <3>1
  <2>5. faults' \in Nat /\ saves' \in Nat
      BY <1>2 DEF BeginSave, Fault, NoFault
  <2> QED BY <1>2, <2>3, <2>4, <2>5 DEF BeginSave
<1>3. ASSUME Write PROVE TypeOK'
  <2>1. disk' = [disk EXCEPT ![job.path].count = @ + 1] \/ disk' = disk
      BY <1>3 DEF Write
  <2>2. disk' \in [Paths -> File]
      BY <2>1 DEF File
  <2>3. faults' \in Nat
      BY <1>3 DEF Write, Fault, NoFault
  <2>4. job' = [job EXCEPT !.bad = TRUE] \/ job' = job
      BY <1>3 DEF Write
  <2> QED BY <1>3, <2>2, <2>3, <2>4 DEF Write
<1>4. ASSUME Close PROVE TypeOK'
  <2>1. job' = [job EXCEPT !.kind = "sync"] \/ job' = Idle
      BY <1>4 DEF Close
  <2> QED BY <1>4, <1>i, <2>1 DEF Close
<1>5. ASSUME Sync PROVE TypeOK'
  <2>0. disk' = [disk EXCEPT !["tmp"].synced = TRUE] \/ disk' = disk
      BY <1>5 DEF Sync
  <2>1. disk' \in [Paths -> File]
    <3>1. disk["tmp"] \in File
        BY <1>p
    <3>2. [disk["tmp"] EXCEPT !.synced = TRUE] \in File
        BY <3>1 DEF File
    <3>3. disk' = [disk EXCEPT !["tmp"] = [disk["tmp"] EXCEPT !.synced = TRUE]] \/ disk' = disk
        BY <2>0
    <3> QED BY <3>2, <3>3
  <2>2. faults' \in Nat
      BY <1>5 DEF Sync, Fault, NoFault
  <2> QED BY <1>5, <2>1, <2>2 DEF Sync
<1>6. ASSUME Rename PROVE TypeOK'
  <2>1. disk' \in [Paths -> File] /\ past' \subseteq File
      BY <1>6, <1>p, NoFileIsFile DEF Rename
  <2>2. faults' \in Nat
      BY <1>6 DEF Rename, Fault, NoFault
  <2> QED BY <1>6, <1>i, <2>1, <2>2 DEF Rename
<1>7. ASSUME Kill PROVE TypeOK'
    BY <1>7, <1>f, <1>i DEF Kill, NewProcess
<1>8. ASSUME PowerLoss PROVE TypeOK'
  <2>1. \A f \in File : Lost(f) \subseteq File
      BY LostIsFile
  <2>2. disk' \in [Paths -> File]
      BY <1>8, <1>p, <2>1 DEF PowerLoss
  <2> QED BY <1>8, <1>f, <1>i, <2>2 DEF PowerLoss, NewProcess
<1>9. ASSUME NEW path \in {"ckpt", "other"}, Load(path) PROVE TypeOK'
  <2>1. PICK junk \in BOOLEAN :
           \/ model' = [model EXCEPT !.w = load_binary(model, disk[path], junk)]
           \/ model' = [model EXCEPT !.w = load_safetensors(model, disk[path])]
           \/ model' = [model EXCEPT !.w = load_gguf(model, disk[path], junk).w]
      BY <1>9 DEF Load
  <2>2. disk[path] \in File /\ model \in Model
      BY <1>p DEF Model
  <2>3. model' \in [cfg : Configs, w : Weights]
      BY <2>1, <2>2, LoadedTypes
  <2> QED BY <1>9, <2>3 DEF Load
<1>10. CASE UNCHANGED vars
    BY <1>10 DEF vars
<1> QED
    BY <1>1, <1>2, <1>3, <1>4, <1>5, <1>6, <1>7, <1>8, <1>9, <1>10
    DEF Next, Formats, save_binary, save_binary_atomic, save_safetensors, save_gguf

-------------------------------------------------------------------------------
(* The crash safety is an invariant.  A fault that has happened makes it       *)
(* vacuous, so that each action is looked at without one.                      *)
LEMMA SafeStep ==
    ASSUME TypeOK, [Next]_vars, faults' = 0, faults = 0 => Progress /\ Stored
    PROVE Progress' /\ Stored'
<1> USE DEF TypeOK
<1>p. "ckpt" \in Paths /\ "tmp" \in Paths /\ "other" \in Paths
    BY DEF Paths
<1>f. /\ ~Fault
      /\ faults' = faults => Progress /\ Stored
    BY DEF Fault
<1>1. ASSUME Train PROVE Progress' /\ Stored'
    BY <1>1, <1>f DEF Train, Progress, Stored
<1>2. ASSUME NEW format \in Formats, NEW atomic \in BOOLEAN, BeginSave(format, atomic)
      PROVE Progress' /\ Stored'
  <2> DEFINE path == IF atomic THEN "tmp" ELSE "other"
             new == [format |-> format, cfg |-> model.cfg, w |-> model.w, count |-> 0, synced |-> FALSE]
  <2>1. /\ NoFault /\ disk' = [disk EXCEPT ![path] = new]
        /\ job' = [kind |-> "write", path |-> path, atomic |-> atomic, bad |-> FALSE]
      BY <1>2, <1>f DEF BeginSave
  <2>2. Progress /\ Stored
      BY <1>f, <2>1 DEF NoFault
  <2>3. disk'["ckpt"] = disk["ckpt"] /\ (atomic => disk'["tmp"] = new)
      BY <2>1, <1>p
  <2>4. Stored'
      BY <1>2, <2>2, <2>3 DEF BeginSave, Stored
  <2>5. atomic => Holds(disk'["tmp"], model')
      BY <1>2, <2>3 DEF BeginSave, Holds, Exists, Formats
  <2>6. Progress'
      BY <2>1, <2>5 DEF Progress
  <2> QED BY <2>4, <2>6
<1>3. ASSUME Write PROVE Progress' /\ Stored'
  <2>1. NoFault /\ disk' = [disk EXCEPT ![job.path].count = @ + 1] /\ UNCHANGED job
      BY <1>3, <1>f DEF Write
  <2>2. Progress /\ Stored
      BY <1>f, <2>1 DEF NoFault
  <2>3. job.path # "ckpt" /\ job.kind = "write"
      BY <1>3, <2>2 DEF Write, Progress
  <2>4. disk'["ckpt"] = disk["ckpt"]
      BY <1>p, <2>1, <2>3
  <2>5. Holds(disk["tmp"], model) => Holds(disk'["tmp"], model')
      BY <1>3, <1>p, <2>1 DEF Write, Holds, Exists, File
  <2>6. Stored'
      BY <1>3, <2>2, <2>4 DEF Write, Stored
  <2>7. Progress'
      BY <2>1, <2>2, <2>3, <2>5 DEF Progress
  <2> QED BY <2>6, <2>7
<1>4. ASSUME Close PROVE Progress' /\ Stored'
  <2>1. UNCHANGED <<model, disk, past, acked, faults, power>>
      BY <1>4 DEF Close
  <2>2. Progress /\ Stored
      BY <1>f, <2>1
  <2>3. job.kind = "write" /\ Whole(disk[job.path])
      BY <1>4, <2>2 DEF Close, Progress
  <2>4. job.atomic => Holds(disk["tmp"], model) /\ Whole(disk["tmp"])
      BY <2>2, <2>3 DEF Progress
  <2>5. CASE job.atomic
    <3>1. job' = [job EXCEPT !.kind = "sync"]
        BY <1>4, <2>5 DEF Close
    <3>2. job'.kind = "sync" /\ ~job'.bad
        BY <3>1, <2>2 DEF Progress
    <3> QED BY <2>1, <2>2, <2>4, <2>5, <3>2 DEF Progress, Stored
  <2>6. CASE ~job.atomic
    <3>1. job' = Idle
        BY <1>4, <2>6 DEF Close
    <3> QED BY <2>1, <2>2, <3>1 DEF Progress, Stored, Idle
  <2> QED BY <2>5, <2>6
<1>5. ASSUME Sync PROVE Progress' /\ Stored'
  <2>1. NoFault /\ disk' = [disk EXCEPT !["tmp"].synced = TRUE]
      BY <1>5, <1>f DEF Sync
  <2>2. Progress /\ Stored
      BY <1>f, <2>1 DEF NoFault
  <2>3. job' = [job EXCEPT !.kind = "rename"] /\ job.kind = "sync" /\ UNCHANGED <<model, past, acked, power>>
      BY <1>5 DEF Sync
  <2>4. disk'["ckpt"] = disk["ckpt"]
      BY <1>p, <2>1
  <2>5. disk'["tmp"] = [disk["tmp"] EXCEPT !.synced = TRUE]
      BY <1>p, <2>1
  <2>6. Holds(disk["tmp"], model) /\ Whole(disk["tmp"])
      BY <2>2, <2>3 DEF Progress
  <2>7. /\ disk'["tmp"].synced
        /\ Holds(disk'["tmp"], model')
        /\ Whole(disk'["tmp"])
    <3>1. disk["tmp"] \in File
        BY <1>p
    <3> QED BY <2>3, <2>5, <2>6, <3>1 DEF Holds, Whole, Exists, Length, Written, File
  <2>8. job'.kind = "rename" /\ ~job'.bad
      BY <2>2, <2>3 DEF Progress
  <2> QED BY <2>2, <2>3, <2>4, <2>7, <2>8 DEF Progress, Stored
<1>6. ASSUME Rename PROVE Progress' /\ Stored'
  <2>1. NoFault /\ job.kind = "rename" /\ job' = Idle /\ acked' = <<model>> /\ UNCHANGED <<model, power>>
      BY <1>6, <1>f DEF Rename
  <2>2. Progress /\ Stored
      BY <1>f, <2>1 DEF NoFault
  <2>3. Holds(disk["tmp"], model) /\ Whole(disk["tmp"]) /\ disk["tmp"].synced
      BY <2>1, <2>2 DEF Progress
  <2>4. past' = past \cup {disk["ckpt"]} /\ disk'["ckpt"] = disk["tmp"]
    <3>1. disk' = [disk EXCEPT !["ckpt"] = disk["tmp"], !["tmp"] = NoFile] /\ past' = past \cup {disk["ckpt"]}
        BY <1>6, <1>f, <2>3 DEF Rename, Holds
    <3> QED BY <1>p, <3>1
  <2>5. Stored'
      BY <2>1, <2>2, <2>3, <2>4 DEF Stored, Good
  <2>6. Progress'
      BY <2>1 DEF Progress, Idle
  <2> QED BY <2>5, <2>6
<1>7. ASSUME Kill PROVE Progress' /\ Stored'
    BY <1>7, <1>f DEF Kill, NewProcess, Progress, Stored, Idle
<1>8. ASSUME PowerLoss PROVE Progress' /\ Stored'
  <2>1. Stored /\ job' = Idle /\ power' /\ past' = {}
      BY <1>8, <1>f DEF PowerLoss, NewProcess
  <2>2. PICK old \in past \cup {disk["ckpt"]} : disk'["ckpt"] \in Lost(old)
    <3>1. PICK old \in past \cup {disk["ckpt"]} :
            \E c \in Lost(old), t \in Lost(disk["tmp"]), o \in Lost(disk["other"]) :
                disk' = [p \in Paths |-> CASE p = "ckpt" -> c [] p = "tmp" -> t [] OTHER -> o]
        BY <1>8 DEF PowerLoss
    <3> QED BY <1>p, <3>1
  <2>3. Good(old) /\ old \in File
      BY <1>p, <2>1 DEF Stored
  <2>4. Good(disk'["ckpt"])
    <3>1. disk'["ckpt"] = old \/ (~old.synced /\ disk'["ckpt"].format = old.format)
        BY <2>2, <2>3, LostIsFile
    <3> QED BY <2>3, <3>1 DEF Good, Exists
  <2> QED BY <2>1, <2>4 DEF Stored, Progress, Idle
<1>9. ASSUME NEW path \in {"ckpt", "other"}, Load(path) PROVE Progress' /\ Stored'
    BY <1>9, <1>f DEF Load, Progress, Stored
<1>10. CASE UNCHANGED vars
    BY <1>10, <1>f DEF vars, Progress, Stored
<1> QED
    BY <1>1, <1>2, <1>3, <1>4, <1>5, <1>6, <1>7, <1>8, <1>9, <1>10
    DEF Next, Formats, save_binary, save_binary_atomic, save_safetensors, save_gguf

-------------------------------------------------------------------------------
(* Every reachable state is well typed: what a load or a power failure leaves  *)
(* is a file, and weights, of the forms the module names.                      *)
THEOREM TypeCorrect == Spec => []TypeOK
<1>1. Init => TypeOK
    BY InitIsGood DEF IInv
<1> QED BY <1>1, TypeStep, PTL DEF Spec

(* save_binary_atomic: unless a call to the file system fails, ckpt is a whole *)
(* checkpoint after any kill or power failure in any step, and without a power *)
(* failure it holds the weights of the last save that returned.                *)
THEOREM CrashSafe == Spec => []OldOrNew
<1>1. IInv /\ [Next]_vars => IInv'
  <2> SUFFICES ASSUME IInv, [Next]_vars PROVE IInv'
      OBVIOUS
  <2>1. TypeOK /\ TypeOK'
      BY TypeStep DEF IInv
  <2>2. faults' = 0 => Progress' /\ Stored'
      BY <2>1, SafeStep DEF IInv
  <2> QED BY <2>1, <2>2 DEF IInv
<1>2. IInv => OldOrNew
    BY DEF IInv, Stored, Good, Holds, OldOrNew
<1> QED BY InitIsGood, <1>1, <1>2, PTL DEF Spec
-------------------------------------------------------------------------------
(* What a load of a whole file leaves in the model.                            *)
LEMMA WholeHasAll ==
    ASSUME NEW f \in File, Whole(f), NEW t \in Written(f) PROVE Has(f, t)
<1>1. t \in Tensors /\ Layers \in Nat /\ Tensors = 1..(3 + Layers)
    BY CheckpointAssumption DEF CheckpointAssumption, Written, parameters, Tensors
<1>2. t # lm_head \/ lm_head \in Written(f)
    OBVIOUS
<1> QED BY <1>1, <1>2 DEF Whole, Length, Has, Before, lm_head

\* Tying looks at nothing but the tensors a tied model reads from a file.
LEMMA TyingIgnoresHead ==
    ASSUME NEW c \in Configs, NEW v \in Weights, NEW w \in Weights,
           \A t \in parameters(c) : v[t] = w[t]
    PROVE  tie_weights(c, v) = tie_weights(c, w)
<1>1. wte \in Tensors /\ lm_head \in Tensors /\ wte # lm_head
    BY CheckpointAssumption DEF CheckpointAssumption, Tensors, wte, lm_head
<1>2. CASE c.tied
  <2>1. \A t \in Tensors \ {lm_head} : v[t] = w[t]
      BY <1>2 DEF parameters
  <2>2. [v EXCEPT ![lm_head] = v[wte]] = [w EXCEPT ![lm_head] = w[wte]]
      BY <1>1, <2>1 DEF Weights
  <2> QED BY <1>2, <2>2 DEF tie_weights
<1>3. CASE ~c.tied
    BY <1>3 DEF parameters, tie_weights, Weights
<1> QED BY <1>2, <1>3

LEMMA TyingIsSound ==
    ASSUME NEW c \in Configs, NEW w \in Weights
    PROVE  /\ tie_weights(c, tie_weights(c, w)) = tie_weights(c, w)
           /\ \A t \in parameters(c) : tie_weights(c, w)[t] = w[t]
<1>1. wte \in Tensors /\ lm_head \in Tensors /\ wte # lm_head
    BY CheckpointAssumption DEF CheckpointAssumption, Tensors, wte, lm_head
<1> QED BY <1>1 DEF tie_weights, Weights, parameters

LEMMA WholeBinary ==
    ASSUME NEW m \in Model, NEW f \in File, NEW junk \in BOOLEAN, Whole(f), f.format = "binary",
           f.cfg.mamba = m.cfg.mamba
    PROVE  load_binary(m, f, junk) \in {m.w, tie_weights(m.cfg, f.w)}
<1>1. Written(f) = Tensors /\ f.w \in Weights
    BY DEF Written, File
<1>2. \A t \in Tensors : Has(f, t)
    BY <1>1, WholeHasAll
<1> DEFINE read == [t \in Tensors |->
                      IF t > lm_head /\ f.cfg.mamba # m.cfg.mamba THEN m.w[t]
                      ELSE IF Has(f, t) THEN f.w[t]
                      ELSE IF t <= lm_head \/ junk THEN Garbage ELSE m.w[t]]
<1>3. read = f.w
    BY <1>1, <1>2 DEF Weights
<1>4. f.count >= 1
  <2>1. wte \in Tensors
      BY CheckpointAssumption DEF CheckpointAssumption, Tensors, wte
  <2> QED BY <1>1, CheckpointAssumption DEF CheckpointAssumption, Whole, Length
<1>5. HasHeader(f)
    BY <1>4 DEF HasHeader, Whole
<1> QED BY <1>3, <1>5 DEF load_binary

LEMMA WholeGguf ==
    ASSUME NEW m \in Model, NEW f \in File, NEW junk \in BOOLEAN, f.format = "gguf"
    PROVE  LET loaded == load_gguf(m, f, junk)
           IN  /\ loaded.ok => /\ Whole(f)
                               /\ loaded.w = tie_weights(m.cfg, f.w)
                               /\ \A t \in parameters(m.cfg) : loaded.w[t] = f.w[t]
                               /\ loaded.w = tie_weights(m.cfg, loaded.w)
               /\ Whole(f) => loaded.ok \/ loaded.w = m.w
<1> DEFINE read == [t \in Tensors |->
                      IF t \in Written(f) /\ Has(f, t) THEN f.w[t]
                      ELSE IF junk /\ t \in Written(f) /\ f.count = Before(f, t) THEN Garbage ELSE m.w[t]]
<1>0. m.cfg \in Configs /\ m.w \in Weights /\ f.w \in Weights
    BY DEF Model, File
<1>1. CASE ~HasHeader(f) \/ ~SameShapes(f, m.cfg)
    BY <1>1 DEF load_gguf
<1>2. CASE HasHeader(f) /\ SameShapes(f, m.cfg) /\ ~Whole(f)
    BY <1>2 DEF load_gguf
<1>3. CASE HasHeader(f) /\ SameShapes(f, m.cfg) /\ Whole(f)
  <2>1. load_gguf(m, f, junk) = [ok |-> TRUE, w |-> tie_weights(m.cfg, read)]
      BY <1>3 DEF load_gguf
  <2>2. read \in Weights
      BY <1>0 DEF Weights
  <2>3. \A t \in parameters(m.cfg) : read[t] = f.w[t]
    <3>1. parameters(m.cfg) = Written(f) /\ parameters(m.cfg) \subseteq Tensors
        BY <1>3 DEF SameShapes, parameters
    <3> QED BY <1>3, <3>1, WholeHasAll
  <2>4. tie_weights(m.cfg, read) = tie_weights(m.cfg, f.w)
      BY <1>0, <2>2, <2>3, TyingIgnoresHead
  <2>5. /\ \A t \in parameters(m.cfg) : tie_weights(m.cfg, f.w)[t] = f.w[t]
        /\ tie_weights(m.cfg, tie_weights(m.cfg, f.w)) = tie_weights(m.cfg, f.w)
      BY <1>0, TyingIsSound
  <2> HIDE DEF read
  <2> QED BY <1>3, <2>1, <2>4, <2>5
<1> QED BY <1>1, <1>2, <1>3

(* A whole file is loaded whole, with the head tied as the model wants it, or  *)
(* the model stays as it was: for every pair of configurations.                *)
THEOREM LoadsAllOrNothing == Spec => AllOrNothing
<1>1. ASSUME TypeOK, NEW path \in Paths, Load(path), Whole(disk[path]),
             disk[path].format # "safetensors", disk[path].cfg.mamba = model.cfg.mamba
      PROVE  model'.w \in {model.w, tie_weights(model.cfg, disk[path].w)}
  <2>1. model \in Model /\ disk[path] \in File /\ disk[path].format # "none"
      BY <1>1 DEF TypeOK, Model, Whole, Exists
  <2>2. PICK junk \in BOOLEAN :
           \/ /\ disk[path].format \in {"none", "binary"}
              /\ model' = [model EXCEPT !.w = load_binary(model, disk[path], junk)]
           \/ /\ disk[path].format = "gguf"
              /\ model' = [model EXCEPT !.w = load_gguf(model, disk[path], junk).w]
      BY <1>1 DEF Load
  <2>3. CASE disk[path].format = "binary"
    <3>1. model'.w = load_binary(model, disk[path], junk)
        BY <2>1, <2>2, <2>3 DEF Model
    <3> QED BY <1>1, <2>1, <2>3, <3>1, WholeBinary
  <2>4. CASE disk[path].format = "gguf"
    <3>1. model'.w = load_gguf(model, disk[path], junk).w
        BY <2>1, <2>2, <2>4 DEF Model
    <3> QED BY <1>1, <2>1, <2>4, <3>1, WholeGguf
  <2> QED BY <2>1, <2>2, <2>3, <2>4
<1>2. TypeOK /\ [Next]_vars =>
        [\A path \in Paths :
           LET f == disk[path]
           IN  (/\ Load(path) /\ Whole(f) /\ f.format # "safetensors"
                /\ f.cfg.mamba = model.cfg.mamba)
               => model'.w \in {model.w, tie_weights(model.cfg, f.w)}]_vars
    BY <1>1
<1> QED BY <1>2, TypeCorrect, PTL DEF Spec, AllOrNothing

-------------------------------------------------------------------------------
(* What the GGUF functions said stays true while nobody writes the file: only  *)
(* a save opens it, and that is forgetting what was said.                      *)
Truth ==
    /\ GgufHonest
    /\ job.kind = "write" => job.path = (IF job.atomic THEN "tmp" ELSE "other") /\ said = Silent
    /\ \A p \in {"ckpt", "tmp"} : disk[p].format # "gguf"
    /\ \A f \in past : f.format # "gguf"

LEMMA SilentIsHonest == said' = Silent => GgufHonest'
    BY DEF Silent, GgufHonest

\* The answer stands while the other file and the model do.
LEMMA StandingIsHonest ==
    GgufHonest /\ UNCHANGED <<said, model>> /\ disk'["other"] = disk["other"] => GgufHonest'
    BY DEF GgufHonest, Whole, Exists, Length, Written, parameters, tie_weights

LEMMA LoadIsHonest ==
    ASSUME TypeOK, Truth, NEW path \in {"ckpt", "other"}, Load(path) PROVE GgufHonest'
<1>0. path \in Paths /\ model \in Model /\ disk[path] \in File /\ disk' = disk
    BY DEF TypeOK, Model, Paths, Load
<1>1. PICK junk \in BOOLEAN :
         \/ said' = Silent
         \/ /\ disk[path].format = "gguf"
            /\ model' = [model EXCEPT !.w = load_gguf(model, disk[path], junk).w]
            /\ said' = [about |-> "load", ok |-> load_gguf(model, disk[path], junk).ok,
                        before |-> model.w]
    BY DEF Load
<1>2. CASE said' = Silent
    BY <1>2, SilentIsHonest
<1>3. CASE said' # Silent
  <2>1. path = "other" /\ disk["other"].format = "gguf"
      BY <1>1, <1>3 DEF Truth
  <2> DEFINE loaded == load_gguf(model, disk["other"], junk)
  <2>2. /\ model' = [model EXCEPT !.w = loaded.w]
        /\ said' = [about |-> "load", ok |-> loaded.ok, before |-> model.w]
      BY <1>1, <1>3, <2>1
  <2>3. /\ loaded.ok => /\ Whole(disk["other"])
                        /\ \A t \in parameters(model.cfg) : loaded.w[t] = disk["other"].w[t]
                        /\ loaded.w = tie_weights(model.cfg, loaded.w)
        /\ Whole(disk["other"]) => loaded.ok \/ loaded.w = model.w
      BY <1>0, <2>1, WholeGguf
  <2> HIDE DEF loaded
  <2>4. model'.cfg = model.cfg /\ model'.w = loaded.w
      BY <1>0, <2>2 DEF Model
  <2>5. said'.about = "load" /\ said'.ok = loaded.ok /\ said'.before = model.w
      BY <2>2
  <2> QED
      BY <1>0, <2>3, <2>4, <2>5
      DEF GgufHonest, Whole, Exists, Length, Written, parameters, tie_weights
<1> QED BY <1>2, <1>3

LEMMA TruthStep == ASSUME TypeOK, Truth, [Next]_vars PROVE Truth'
<1> USE DEF TypeOK
<1>p. "ckpt" \in Paths /\ "tmp" \in Paths /\ "other" \in Paths
    BY DEF Paths
<1>1. ASSUME Train PROVE Truth'
    BY <1>1, SilentIsHonest DEF Train, Truth
<1>2. ASSUME NEW format \in Formats, NEW atomic \in BOOLEAN, BeginSave(format, atomic),
             atomic => format # "gguf"
      PROVE Truth'
  <2> DEFINE path == IF atomic THEN "tmp" ELSE "other"
             new == [format |-> format, cfg |-> model.cfg, w |-> model.w, count |-> 0, synced |-> FALSE]
  <2>1. CASE disk' = [disk EXCEPT ![path] = new] /\ said' = Silent
             /\ job' = [kind |-> "write", path |-> path, atomic |-> atomic, bad |-> FALSE]
    <3>1. \A p \in {"ckpt", "tmp"} : disk'[p].format # "gguf"
        BY <1>2, <1>p, <2>1 DEF Truth
    <3>2. job'.kind = "write" => job'.path = (IF job'.atomic THEN "tmp" ELSE "other")
        BY <2>1
    <3> QED BY <1>2, <2>1, <3>1, <3>2, SilentIsHonest DEF BeginSave, Truth
  <2>2. CASE /\ disk' = disk /\ job'.kind # "write"
             /\ said' = Silent \/ said' = [Silent EXCEPT !.about = "save"]
    <3>1. GgufHonest'
        BY <2>2, SilentIsHonest DEF Silent, GgufHonest
    <3> QED BY <1>2, <2>2, <3>1 DEF BeginSave, Truth
  <2>3. \/ /\ disk' = [disk EXCEPT ![path] = new] /\ said' = Silent
           /\ job' = [kind |-> "write", path |-> path, atomic |-> atomic, bad |-> FALSE]
        \/ /\ job' = IF atomic THEN [Idle EXCEPT !.kind = "sync", !.path = path, !.atomic = TRUE] ELSE Idle
           /\ said' = IF format = "gguf" THEN [Silent EXCEPT !.about = "save"] ELSE Silent
           /\ disk' = disk
      BY <1>2 DEF BeginSave
  <2>4. CASE /\ job' = IF atomic THEN [Idle EXCEPT !.kind = "sync", !.path = path, !.atomic = TRUE] ELSE Idle
             /\ said' = IF format = "gguf" THEN [Silent EXCEPT !.about = "save"] ELSE Silent
             /\ disk' = disk
    <3>1. job'.kind # "write"
        BY <2>4 DEF Idle
    <3> QED BY <2>2, <2>4, <3>1
  <2> QED BY <2>1, <2>3, <2>4
<1>3. ASSUME Write PROVE Truth'
  <2>1. said' = Silent /\ job'.kind = "write" /\ job'.path = job.path /\ job'.atomic = job.atomic
      BY <1>3 DEF Write, Truth
  <2>2. \A p \in Paths : disk'[p].format = disk[p].format
    <3>1. disk' = [disk EXCEPT ![job.path].count = @ + 1] \/ disk' = disk
        BY <1>3 DEF Write
    <3> QED BY <3>1 DEF File
  <2> QED BY <1>3, <1>p, <2>1, <2>2, SilentIsHonest DEF Write, Truth
<1>4. ASSUME Close PROVE Truth'
  <2>1. job'.kind # "write" /\ UNCHANGED <<model, disk, past>>
      BY <1>4 DEF Close, Idle
  <2>2. CASE disk[job.path].format = "gguf"
    <3>1. job.path = "other"
        BY <1>4, <2>2 DEF Close, Truth
    <3>2. said' = [about |-> "save", ok |-> ~job.bad, before |-> <<>>] /\ (job.bad \/ Whole(disk["other"]))
        BY <1>4, <2>2, <3>1 DEF Close
    <3>3. GgufHonest'
        BY <2>1, <3>2 DEF GgufHonest, Whole, Exists, Length, Written, parameters
    <3> QED BY <2>1, <3>3 DEF Truth
  <2>3. CASE disk[job.path].format # "gguf"
    <3>1. said' = Silent
        BY <1>4, <2>3 DEF Close
    <3> QED BY <2>1, <3>1, SilentIsHonest DEF Truth
  <2> QED BY <2>2, <2>3
<1>5. ASSUME Sync PROVE Truth'
  <2>1. disk' = [disk EXCEPT !["tmp"].synced = TRUE] \/ disk' = disk
      BY <1>5 DEF Sync
  <2>2. disk'["other"] = disk["other"] /\ \A p \in Paths : disk'[p].format = disk[p].format
      BY <1>p, <2>1 DEF File
  <2>3. job'.kind # "write" /\ UNCHANGED <<said, model, past>>
      BY <1>5 DEF Sync
  <2>4. GgufHonest'
      BY <2>2, <2>3, StandingIsHonest DEF Truth
  <2> QED BY <1>p, <2>2, <2>3, <2>4 DEF Truth
<1>6. ASSUME Rename PROVE Truth'
  <2>1. job'.kind # "write" /\ UNCHANGED <<said, model>>
      BY <1>6 DEF Rename, Idle
  <2>2. \/ disk' = disk /\ past' = past
        \/ /\ disk' = [disk EXCEPT !["ckpt"] = disk["tmp"], !["tmp"] = NoFile]
           /\ past' = past \cup {disk["ckpt"]}
      BY <1>6 DEF Rename
  <2>3. disk'["other"] = disk["other"]
      BY <1>p, <2>2
  <2>4. \A p \in {"ckpt", "tmp"} : disk'[p].format # "gguf"
      BY <1>p, <2>2 DEF Truth, NoFile
  <2>5. \A f \in past' : f.format # "gguf"
      BY <2>2 DEF Truth
  <2>6. GgufHonest'
      BY <2>1, <2>3, StandingIsHonest DEF Truth
  <2> QED BY <2>1, <2>4, <2>5, <2>6 DEF Truth
<1>7. ASSUME Kill PROVE Truth'
    BY <1>7, SilentIsHonest DEF Kill, NewProcess, Truth, Idle
<1>8. ASSUME PowerLoss PROVE Truth'
  <2>1. said' = Silent /\ job'.kind # "write" /\ past' = {}
      BY <1>8 DEF PowerLoss, NewProcess, Idle
  <2>2. PICK old \in past \cup {disk["ckpt"]} :
          \E c \in Lost(old), t \in Lost(disk["tmp"]), o \in Lost(disk["other"]) :
              disk' = [p \in Paths |-> CASE p = "ckpt" -> c [] p = "tmp" -> t [] OTHER -> o]
      BY <1>8 DEF PowerLoss
  <2>3. disk'["ckpt"] \in Lost(old) /\ disk'["tmp"] \in Lost(disk["tmp"])
      BY <1>p, <2>2
  <2>4. disk'["ckpt"].format = old.format /\ disk'["tmp"].format = disk["tmp"].format
      BY <1>p, <2>3, LostIsFile
  <2>5. \A p \in {"ckpt", "tmp"} : disk'[p].format # "gguf"
      BY <2>4 DEF Truth
  <2> QED BY <2>1, <2>5, SilentIsHonest DEF Truth
<1>9. ASSUME NEW path \in {"ckpt", "other"}, Load(path) PROVE Truth'
  <2>1. job.kind = "idle" /\ UNCHANGED <<disk, past, job>>
      BY <1>9 DEF Load
  <2> QED BY <1>9, <2>1, LoadIsHonest DEF Truth
<1>10. CASE UNCHANGED vars
  <2>1. GgufHonest'
      BY <1>10, StandingIsHonest DEF vars, Truth
  <2> QED BY <1>10, <2>1 DEF vars, Truth
<1> QED
    BY <1>1, <1>2, <1>3, <1>4, <1>5, <1>6, <1>7, <1>8, <1>9, <1>10
    DEF Next, Formats, save_binary, save_binary_atomic, save_safetensors, save_gguf

(* Whatever fails and whenever the process dies: true from save_gguf is a      *)
(* whole file, true from load_gguf its weights in the model, and false about a *)
(* whole file a model that has not changed.                                    *)
THEOREM GgufTellsTheTruth == Spec => []GgufHonest
<1>1. Init => Truth
  <2> SUFFICES ASSUME Init PROVE Truth
      OBVIOUS
  <2>1. GgufHonest
      BY DEF Init, Silent, GgufHonest
  <2>2. \A p \in {"ckpt", "tmp"} : disk[p].format # "gguf"
      BY DEF Init, NoFile, Paths
  <2> QED BY <2>1, <2>2 DEF Init, Idle, Truth
<1>2. Truth => GgufHonest
    BY DEF Truth
<1> QED BY <1>1, <1>2, TypeCorrect, TruthStep, PTL DEF Spec
===============================================================================

