------------------------------ MODULE Hardware ------------------------------
(***************************************************************************)
(* The machine as the sampler last read it, and the verdicts given on it:  *)
(* whether a model fits (Discover), what is said before it is queued       *)
(* (Downloads), and the settings suggested for Ollama.  They are three     *)
(* pieces of code that a visitor reads one after the other.                *)
(*                                                                         *)
(* Memory is counted in units of 4 GB; a sample is the tick it was taken.  *)
(***************************************************************************)
EXTENDS Naturals, SequencesExt, FiniteSetsExt

CONSTANTS
    Memory,         \* amounts of memory a machine or a GPU may have; 0 is unread
    MaxGPUs,
    Sizes,          \* sizes of models
    Keep,           \* samples kept
    MaxTicks        \* bound: samples taken

\* What the constants are taken to be.
HardwareAssumption ==
    /\ Memory \subseteq Nat /\ 0 \in Memory
    /\ Sizes \subseteq Nat \ {0}
    /\ {MaxGPUs, MaxTicks} \subseteq Nat
    /\ Keep \in Nat \ {0, 1}

VARIABLES
    latest,         \* the last snapshot; at is 0 before the first
    history,        \* the samples kept, oldest first
    ticks           \* the sampler's ticks

vars == <<latest, history, ticks>>

GPU      == [mem : Memory, unified : BOOLEAN]
GPUs     == UNION {[1..n -> GPU] : n \in 0..MaxGPUs}
Snapshot == [at : 0..MaxTicks, ram : Memory, gpus : GPUs]

TypeOK ==
    /\ latest \in Snapshot
    /\ history \in Seq(1..MaxTicks)
    /\ ticks \in 0..MaxTicks

Init ==
    /\ latest = [at |-> 0, ram |-> 0, gpus |-> <<>>]
    /\ history = <<>>
    /\ ticks = 0

-----------------------------------------------------------------------------
\* Sampler.collect.  What a probe can't read is 0, or a GPU that isn't there; a
\* GPU that shares the memory reports the memory as its own.
Trim(h) == IF Len(h) > Keep THEN SubSeq(h, Len(h) - Keep + 1, Len(h)) ELSE h

Collect(ram, gpus) ==
    /\ ticks < MaxTicks
    /\ \A i \in DOMAIN gpus : gpus[i].unified => gpus[i].mem = ram
    /\ ticks' = ticks + 1
    /\ latest' = [at |-> ticks', ram |-> ram, gpus |-> gpus]
    /\ history' = Trim(Append(history, ticks'))

\* The ticker drops a tick when the last sample takes too long.
Late ==
    /\ ticks < MaxTicks
    /\ ticks' = ticks + 1
    /\ UNCHANGED <<latest, history>>

Next ==
    \/ \E ram \in Memory, gpus \in GPUs : Collect(ram, gpus)
    \/ Late

Spec == Init /\ [][Next]_vars

-----------------------------------------------------------------------------
\* Snapshot.VRAM: GPUs that share the memory count once.
HasMem(s)  == {i \in DOMAIN s.gpus : s.gpus[i].mem > 0}
Unified(s) == \E i \in DOMAIN s.gpus : s.gpus[i].unified
HasVRAM(s) == HasMem(s) # {}

VRAM(s) ==
    LET unified == {i \in HasMem(s) : s.gpus[i].unified}
        own    == HasMem(s) \ unified
        counted == own \cup (IF unified = {} THEN {} ELSE {Min(unified)})
    IN SumFunctionOnSet([i \in DOMAIN s.gpus |-> s.gpus[i].mem], counted)

IsKnown(s) == s.at > 0 /\ s.ram > 0

\* What a model of this size needs, and what macOS lets the GPU have.
Need(size)  == (size * 6) \div 5
Share(ram)  == (ram * 3) \div 4

\* estimateFit.
EstimateFitBug(size, s) ==
    LET need == Need(size) IN
    CASE ~IsKnown(s) -> "unknown"
      [] IsKnown(s) /\ Unified(s) ->
             IF need <= s.ram THEN "gpu" ELSE "no"
      [] IsKnown(s) /\ ~Unified(s) /\ ~HasVRAM(s) -> IF need <= s.ram THEN "cpu" ELSE "no"
      [] IsKnown(s) /\ ~Unified(s) /\ HasVRAM(s) ->
             IF need <= VRAM(s) THEN "gpu" ELSE IF need <= VRAM(s) + s.ram THEN "partial" ELSE "no"
EstimateFit(size, s) ==
    LET need == Need(size) IN
    CASE ~IsKnown(s) -> "unknown"
      [] IsKnown(s) /\ Unified(s) ->
             IF need <= Share(s.ram) THEN "gpu" ELSE IF need <= s.ram THEN "partial" ELSE "no"
      [] IsKnown(s) /\ ~Unified(s) /\ ~HasVRAM(s) -> IF need <= s.ram THEN "cpu" ELSE "no"
      [] IsKnown(s) /\ ~Unified(s) /\ HasVRAM(s) ->
             IF need <= VRAM(s) THEN "gpu" ELSE IF need <= VRAM(s) + s.ram THEN "partial" ELSE "no"

\* resourceConcerns, of memory (that of the disk is ModelAdmin's Weigh).
ResourceConcerns(size, s) ==
    IF ~IsKnown(s) THEN "none"
    ELSE IF Unified(s) \/ ~HasVRAM(s) THEN IF size > s.ram THEN "won't load" ELSE "none"
    ELSE IF size > VRAM(s) + s.ram THEN "won't load"
    ELSE IF size > VRAM(s) THEN "partly on the CPU" ELSE "none"

\* gpuMemory, and what suggestOllamaSettings makes of it: the context length,
\* flash attention and the KV cache, and the requests in parallel.
GpuMemory(s) == IF Unified(s) THEN Share(s.ram) ELSE IF HasVRAM(s) THEN VRAM(s) ELSE 0

SuggestContext(s) ==
    LET gb == 4 * GpuMemory(s) IN
    IF ~IsKnown(s) \/ gb = 0 THEN 0
    ELSE IF gb < 10 THEN 8192 ELSE IF gb < 20 THEN 16384 ELSE IF gb < 40 THEN 32768 ELSE 65536
SuggestFlash(s) == GpuMemory(s) > 0
SuggestSingle(s) == GpuMemory(s) > 0 /\ 4 * GpuMemory(s) < 24

-----------------------------------------------------------------------------
(* Properties.                                                             *)

Rank(fit) == CASE fit = "gpu" -> 3 [] fit = "partial" -> 2 [] fit = "cpu" -> 2 [] fit = "no" -> 1
               [] fit = "unknown" -> 0

\* What fits the GPU is within the memory the settings reckon with, and raises
\* no concern; what is said not to load doesn't fit; a bigger model never fits
\* better.
FitsAgree(size) ==
    LET fit == EstimateFit(size, latest)
        concern == ResourceConcerns(size, latest)
    IN /\ fit = "gpu" => Need(size) <= GpuMemory(latest) /\ concern = "none"
       /\ concern = "won't load" => fit = "no"
       /\ concern = "partly on the CPU" => fit \in {"partial", "no"}
       /\ IsKnown(latest) /\ GpuMemory(latest) > 0 /\ fit # "gpu" => Need(size) > GpuMemory(latest)
       /\ \A less \in Sizes : less < size => Rank(EstimateFit(less, latest)) >= Rank(fit)

\* Every setting that needs a GPU is suggested for the same machines.
SettingsAgree ==
    /\ IsKnown(latest) => (SuggestFlash(latest) <=> SuggestContext(latest) > 0)
    /\ SuggestSingle(latest) => SuggestContext(latest) <= 32768

\* The three verdicts on one machine don't contradict each other.
VerdictsAgree == (\A size \in Sizes : FitsAgree(size)) /\ SettingsAgree

\* The graphs show the last samples, in order, up to the one the verdicts are of.
HistoryIsLatest ==
    /\ Len(history) <= Keep
    /\ \A i, j \in DOMAIN history : i < j => history[i] < history[j]
    /\ latest.at > 0 => history # <<>> /\ Last(history) = latest.at
=============================================================================
