-------------------------------- MODULE Startup --------------------------------
(***************************************************************************)
(* The start of the miner (main.rs, models.rs, slm.rs): it stages a line-  *)
(* up of models for its GPUs, downloads what is missing with resumption    *)
(* and retries, assigns each GPU the model it will mine and probes the     *)
(* GPUs.  It may crash and be restarted at any point, and the user may     *)
(* remove files or put some there, for instance with `wget -c'.            *)
(*                                                                         *)
(* A file is how many chunks of its content it has: the content never      *)
(* changes and whoever writes a file appends to it from the start.  All    *)
(* models that can be staged are GGUF files with a tokenizer, since the    *)
(* line-up is staged past the hard fork H2 whatever the chain says.  The   *)
(* gateway may refuse, cut or shorten any response; ureq turns a status of *)
(* 400 or more into an error.                                              *)
(***************************************************************************)
EXTENDS Integers, Sequences, FiniteSetsExt

CONSTANTS
  Rigs,         \* what the driver may report: sequences of VRAM sizes in MB
  FreshRigs,    \* bound: rigs that start without files and meet faults
  Flags,        \* launch configurations: a tier, or Automatic
  Chunks,       \* size of a file
  MaxAttempts,  \* MAX_ATTEMPTS
  MaxFaults,    \* bound: crashes, files touched by the user, Range ignored
  Automatic, None

Tiers == 0 .. 4   \* VeryLight, Light, Default, High, VeryHigh
Default == 2
High == 3

Models == {"Qwen3-1.7B", "Gemma-3-4B", "Dolphin-8B", "Qwen3-32B", "Llama-70B", "Llama-70B-Q2"}
Parts == {"tokenizer", "gguf"}

ASSUME RigsAssumption == FreshRigs \subseteq Rigs /\ Rigs \subseteq Seq(Nat)
ASSUME FlagsAssumption == Flags \subseteq Tiers \cup {Automatic} /\ Automatic \notin Tiers
ASSUME BoundsAssumption ==
  Chunks \in Nat \ {0} /\ MaxAttempts \in Nat \ {0} /\ MaxFaults \in Nat
ASSUME NoneAssumption == None \notin Models /\ None \notin 0 .. Chunks

VARIABLES
  rig, flag,  \* hardware and launch configuration
  driver,     \* whether the CUDA driver can be asked (else nvidia-smi)
  disk,       \* model, part -> chunks there, or None
  marked,     \* models with an .ok file
  place,      \* "off", "checking", "requesting", "streaming", "marking",
              \* "probing" or "mining"
  todo,       \* models that prefetch_models has not finished
  part,       \* what is being downloaded
  attempt,    \* attempts of that download that failed
  total,      \* whether the response tells the total size
  served,     \* SUPPORTED_SPECS
  assigned,   \* MINING_TIERS: GPU -> model
  faults,
  refusal     \* history: why the last attempt failed

machine == <<rig, flag, driver>>
files == <<disk, marked>>
download == <<part, attempt, total, refusal>>
vars == <<machine, files, place, todo, download, served, assigned, faults>>

Optional(S) == S \cup {None}

TypeOK ==
  /\ rig \in Rigs /\ flag \in Flags /\ driver \in BOOLEAN
  /\ disk \in [Models \X Parts -> Optional(0 .. Chunks)] /\ marked \subseteq Models
  /\ place \in {"off", "checking", "requesting", "streaming", "marking", "probing", "mining"}
  /\ todo \in Seq(Models)
  /\ part \in Parts /\ attempt \in 0 .. MaxAttempts /\ total \in BOOLEAN
  /\ served \subseteq Models
  /\ DOMAIN assigned \subseteq Nat /\ assigned \in [DOMAIN assigned -> Models]
  /\ faults \in 0 .. MaxFaults
  /\ refusal \in {None, "connection", "range", "short"}

--------------------------------------------------------------------------------
(* Models and tiers. *)

MinVram(m) ==
  CASE m = "Dolphin-8B" -> 8000 [] m = "Qwen3-32B" -> 24000
    [] m = "Llama-70B" -> 46000 [] m = "Llama-70B-Q2" -> 30000
    [] OTHER -> 0

TierFloor(t) == <<2000, 5000, 8000, 24000, 30000>>[t + 1]

TierForVram(mb) == Max({0} \cup {t \in Tiers : t > 0 /\ mb >= TierFloor(t)})

(* The tiers past H2.                                                      *)
SpecFor(t) ==
  <<"Qwen3-1.7B", "Gemma-3-4B", "Dolphin-8B", "Qwen3-32B", "Llama-70B-Q2">>[t + 1]

(* pom_tier_index past H2; other models count as tier 0 (unwrap_or).       *)
PomTier(m) == Max({0} \cup {t \in Tiers : SpecFor(t) = m})

(* Sizes of the GPUs that are known one by one.                            *)
TiersOf ==
  IF flag # Automatic THEN {flag}
  ELSE {TierForVram(rig[i]) : i \in DOMAIN rig} \cup {0}
       \cup (IF rig = <<>> THEN {Default} ELSE {})

CanServe(m) == driver /\ rig # <<>> => MinVram(m) <= Max({rig[i] : i \in DOMAIN rig})

(* union_lineup and filter_specs_by_vram.                                  *)
Lineup == {m \in {SpecFor(t) : t \in TiersOf} : CanServe(m)}

(* In the order of their tiers, which are sorted.                          *)
InOrder(S) ==
  CHOOSE s \in [1 .. Cardinality(S) -> S] :
    \A i, j \in DOMAIN s : i < j => PomTier(s[i]) < PomTier(s[j])

(* Mutant: ranked by the VRAM they must have to be announced.              *)
PickByMinVram(S, mb) ==
  LET fitting == {m \in S : MinVram(m) <= mb}
  IN CHOOSE m \in IF fitting = {} THEN S ELSE fitting :
       \A n \in fitting : MinVram(n) <= MinVram(m)

(* The best of the line-up that fits, else the smallest.                   *)
Pick(S, mb) ==
  LET fitting == {m \in S : TierFloor(PomTier(m)) <= mb}
  IN IF fitting # {} THEN CHOOSE m \in fitting : \A n \in fitting : PomTier(n) <= PomTier(m)
     ELSE CHOOSE m \in S : \A n \in S : PomTier(m) <= PomTier(n)

Assignment(S) ==
  IF S = {} THEN <<>>
  ELSE IF rig = <<>>
  THEN [i \in {1} |-> CHOOSE m \in S : \A n \in S : PomTier(n) <= PomTier(m)]
  ELSE [i \in DOMAIN rig |-> Pick(S, rig[i])]

--------------------------------------------------------------------------------
(* A machine without files, or one on which everything was downloaded.     *)
Init ==
  /\ rig \in Rigs /\ flag \in Flags /\ driver \in BOOLEAN
  /\ \/ /\ rig \in FreshRigs /\ faults = 0
        /\ disk = [f \in Models \X Parts |-> None] /\ marked = {}
     \/ /\ faults = MaxFaults
        /\ disk = [f \in Models \X Parts |-> Chunks] /\ marked = Models
  /\ place = "off" /\ todo = <<>>
  /\ part = "gguf" /\ attempt = 0 /\ total = FALSE /\ refusal = None
  /\ served = {} /\ assigned = <<>>

Start ==
  /\ place = "off"
  /\ place' = "checking"
  /\ served' = Lineup /\ todo' = InOrder(Lineup) /\ assigned' = <<>>
  /\ UNCHANGED <<machine, files, download, faults>>

(* main returns with an error, or the process dies.  Someone restarts it.  *)
Stop == place' = "off" /\ UNCHANGED <<machine, todo, served, assigned>>

Exists(m, p) == disk[<<m, p>>] # None

(* ensure_gguf: what is marked is taken as it is.                          *)
FoundLocally ==
  /\ place = "checking" /\ todo # <<>>
  /\ Head(todo) \in marked /\ \A p \in Parts : Exists(Head(todo), p)
  /\ todo' = Tail(todo)
  /\ UNCHANGED <<machine, files, place, download, served, assigned, faults>>

Request(p) == place' = "requesting" /\ part' = p /\ attempt' = 0 /\ refusal' = None

(* The mark is removed first.  A tokenizer that exists is not looked at.   *)
BeginDownload ==
  /\ place = "checking" /\ todo # <<>>
  /\ ~(Head(todo) \in marked /\ \A p \in Parts : Exists(Head(todo), p))
  /\ marked' = marked \ {Head(todo)}
  /\ Request(IF Exists(Head(todo), "tokenizer") THEN "gguf" ELSE "tokenizer")
  /\ UNCHANGED <<machine, disk, todo, total, served, assigned, faults>>

--------------------------------------------------------------------------------
(* download_file *)

file == <<Head(todo), part>>
Resumed == Exists(Head(todo), part) /\ disk[file] > 0

(* One more attempt, after a pause, or the start is given up.              *)
Retry(why) ==
  /\ attempt' = attempt + 1 /\ refusal' = why
  /\ IF attempt + 1 >= MaxAttempts THEN Stop
     ELSE place' = "requesting" /\ UNCHANGED <<machine, todo, served, assigned>>

RequestFails ==
  /\ place = "requesting"
  /\ Retry("connection")
  /\ UNCHANGED <<files, part, total, faults>>

(* There is nothing from the end of the file on: status 416, an error.     *)
RangeRefused ==
  /\ place = "requesting" /\ Resumed /\ disk[file] = Chunks
  /\ Retry("range")
  /\ UNCHANGED <<files, part, total, faults>>

Stream(size, told) ==
  /\ place' = "streaming" /\ total' = told
  /\ disk' = [disk EXCEPT ![file] = size]
  /\ UNCHANGED <<machine, marked, todo, part, attempt, refusal, served, assigned>>

(* Mutant: what is there is written anew.                                  *)
ResumeFromScratch(told) ==
  /\ place = "requesting" /\ Resumed /\ disk[file] < Chunks
  /\ Stream(0, told) /\ UNCHANGED faults

(* Status 206: appended to what is there.                                  *)
Resume(told) ==
  /\ place = "requesting" /\ Resumed /\ disk[file] < Chunks
  /\ Stream(disk[file], told) /\ UNCHANGED faults

(* Status 200: the file is created anew.                                   *)
Restart(told) ==
  /\ place = "requesting"
  /\ IF Resumed THEN faults < MaxFaults /\ faults' = faults + 1 ELSE UNCHANGED faults
  /\ Stream(0, told)

Receive ==
  /\ place = "streaming" /\ disk[file] < Chunks
  /\ disk' = [disk EXCEPT ![file] = @ + 1]
  /\ UNCHANGED <<machine, marked, place, todo, download, served, assigned, faults>>

Downloaded ==
  /\ IF part = "tokenizer" THEN Request("gguf")
     ELSE place' = "marking" /\ UNCHANGED <<part, attempt, refusal>>
  /\ UNCHANGED <<machine, todo, served, assigned>>

(* Mutant: a stream that ends cleanly was all there is.                    *)
EndOfStreamClean ==
  /\ place = "streaming"
  /\ Downloaded
  /\ UNCHANGED <<files, total, faults>>

(* The end, at the known total.                                            *)
EndOfStream ==
  /\ place = "streaming" /\ total /\ disk[file] = Chunks
  /\ Downloaded
  /\ UNCHANGED <<files, total, faults>>

(* An error of the connection or of the disk, at any point, or the end of  *)
(* a response that has not told its size.                                  *)
Interrupted ==
  /\ place = "streaming"
  /\ Retry("short")
  /\ UNCHANGED <<files, part, total, faults>>

Mark ==
  /\ place = "marking"
  /\ marked' = marked \cup {Head(todo)}
  /\ todo' = Tail(todo) /\ place' = "checking"
  /\ UNCHANGED <<machine, disk, download, served, assigned, faults>>

MarkFails == place = "marking" /\ Stop /\ UNCHANGED <<files, download, faults>>

--------------------------------------------------------------------------------
(* Every GPU gets its model. *)
Assign ==
  /\ place = "checking" /\ todo = <<>>
  /\ assigned' = Assignment(served)
  /\ place' = "probing"
  /\ UNCHANGED <<machine, files, todo, download, served, faults>>

(* cuBLAS works, possibly after its installation, or there is no GPU.      *)
ProbeSucceeds ==
  /\ place = "probing" /\ place' = "mining"
  /\ UNCHANGED <<machine, files, todo, download, served, assigned, faults>>

(* The libraries cannot be installed or need a restart, or no worker.      *)
ProbeFails == place = "probing" /\ Stop /\ UNCHANGED <<files, download, faults>>

Fault == faults < MaxFaults /\ faults' = faults + 1

(* What was written before a mark is on the disk when the mark is, though  *)
(* the code does not wait for it: the machine's file system is trusted.    *)
Crash == place # "off" /\ Fault /\ Stop /\ UNCHANGED <<files, download>>

(* A file, or the mark, is removed.                                        *)
Remove(m) ==
  /\ place \in {"off", "mining"} /\ Fault
  /\ \/ \E p \in Parts : disk' = [disk EXCEPT ![<<m, p>>] = None] /\ UNCHANGED marked
     \/ marked' = marked \ {m} /\ UNCHANGED disk
  /\ UNCHANGED <<machine, place, todo, download, served, assigned>>

(* The weights are put there, complete or in part; not in part beside an   *)
(* old mark, which would be taken for theirs.                              *)
Stage(m, size) ==
  /\ place = "off" /\ (m \in marked => size = Chunks) /\ Fault
  /\ disk' = [disk EXCEPT ![<<m, "gguf">>] = size]
  /\ UNCHANGED <<machine, marked, place, todo, download, served, assigned>>

Next ==
  \/ Start \/ FoundLocally \/ BeginDownload
  \/ RequestFails \/ RangeRefused
  \/ \E told \in BOOLEAN : Resume(told) \/ Restart(told)
  \/ Receive \/ EndOfStream \/ Interrupted
  \/ Mark \/ MarkFails \/ Assign \/ ProbeSucceeds \/ ProbeFails
  \/ Crash
  \/ \E m \in Lineup : Remove(m) \/ \E size \in 1 .. Chunks : Stage(m, size)

(* Who restarts the miner does so again and again.  Of all its responses,  *)
(* the gateway sends some that bring the download forward.                 *)
Fairness ==
  /\ WF_vars(Start) /\ WF_vars(FoundLocally) /\ WF_vars(BeginDownload)
  /\ SF_vars(Resume(TRUE)) /\ SF_vars(Restart(TRUE))
  /\ SF_vars(Receive) /\ SF_vars(EndOfStream)
  /\ WF_vars(RequestFails \/ RangeRefused \/ Interrupted)
  /\ WF_vars(Mark \/ MarkFails)

Spec == Init /\ [][Next]_vars /\ Fairness

--------------------------------------------------------------------------------
(* A model with an .ok file, which is announced and mined, has all of its  *)
(* weights, unless the user removed them since: through resumed and cut    *)
(* downloads, responses that do not tell their size, crashes between any   *)
(* two steps, and marks of earlier starts.                                 *)
MarkedIsComplete == \A m \in marked : disk[<<m, "gguf">>] \in {Chunks, None}

(* In automatic mode every GPU is assigned the model of the highest tier   *)
(* that fits its VRAM (tier 0 on smaller ones), however the others differ, *)
(* and tier 0 was downloaded for those that run out of memory.             *)
GpusGetTheirTier ==
  place \in {"probing", "mining"} /\ flag = Automatic =>
    /\ "Qwen3-1.7B" \in served
    /\ \A i \in DOMAIN rig :
         /\ assigned[i] = SpecFor(TierForVram(rig[i]))
         /\ assigned[i] \in served

(* In spite of crashes and interruptions the weights of every model of the *)
(* line-up are complete some time: what was downloaded is not lost.  Only  *)
(* weights that are complete without their mark can stop a start for ever  *)
(* (see CompleteFileIsTaken).                                              *)
Unmarked == \E n \in Lineup \ marked : disk[<<n, "gguf">>] = Chunks

WeightsArrive ==
  \A m \in Models :
    m \in Lineup => <>[]Unmarked \/ <>(disk[<<m, "gguf">>] = Chunks)

(* "an already-complete file (e.g. pre-staged with `wget -c`) is detected  *)
(* via a 416 response and left untouched" (slm.rs:165): a download is not  *)
(* given up because the file is complete.                                  *)
CompleteFileIsTaken == place = "off" => refusal # "range"

(* What they rest on.  While the weights of a model are written it has no  *)
(* mark, and they are complete when it is about to get it.                 *)
WrittenWithoutMark ==
  /\ place \in {"requesting", "streaming", "marking"} => Head(todo) \notin marked
  /\ place = "marking" => disk[<<Head(todo), "gguf">>] = Chunks
  /\ place = "streaming" => Exists(Head(todo), part)

(* What is served is what the hardware and the flag give.                  *)
ServedAsPlanned == place # "off" => served = Lineup

IInv ==
  /\ rig \in Rigs /\ flag \in Flags
  /\ disk \in [Models \X Parts -> Optional(0 .. Chunks)] /\ marked \subseteq Models
  /\ part \in Parts /\ todo \in Seq(Models)
  /\ place \in {"requesting", "streaming", "marking"} => todo # <<>>
  /\ WrittenWithoutMark /\ ServedAsPlanned
  /\ MarkedIsComplete /\ GpusGetTheirTier
================================================================================
