---------------------------- MODULE WorkerMetrics ----------------------------
(***************************************************************************)
(* A worker's CPU and memory over time (services/worker-metrics.ts): one   *)
(* sampler for the process, ticking over the workers that are up, a table  *)
(* that is pruned now and then, and the charts that read it.               *)
(***************************************************************************)
EXTENDS Naturals

CONSTANTS
    Sampled,    \* workers
    Ranges,     \* spans a chart can show, in ticks of the clock
    Retention,  \* for how long samples are kept
    PruneEvery, \* at most how often they are pruned
    MaxClock    \* bound: ticks of the clock

VARIABLES
    clock,
    ready,      \* workers whose row is ready, with a container
    upMachines, \* workers whose container runs
    samples,    \* the table
    sampler,    \* its busy flag, when it ticked, whom it asks, who answered, its last prune
    taken       \* history: every sample there was

vars == <<clock, ready, upMachines, samples, sampler, taken>>

Sample == [worker : Sampled, ts : 0..MaxClock]
Idle == [busy |-> FALSE, at |-> 0, asked |-> {}, answered |-> {}, pruned |-> 0]

MetricTypes ==
    /\ clock \in 0..MaxClock /\ ready \subseteq Sampled /\ upMachines \subseteq Sampled
    /\ samples \subseteq Sample /\ taken \subseteq Sample
    /\ sampler \in [busy : BOOLEAN, at : 0..MaxClock, asked : SUBSET Sampled,
                    answered : SUBSET Sampled, pruned : 0..MaxClock]

-----------------------------------------------------------------------------
(* A tick never overlaps the next: it is not taken while one is busy. *)
tick ==
    /\ ~sampler.busy
    /\ sampler' = [sampler EXCEPT !.busy = TRUE, !.at = clock, !.asked = ready, !.answered = {}]
    /\ UNCHANGED <<clock, ready, upMachines, samples, taken>>

(* One stats call each, in parallel; one that fails takes no other with it. *)
getContainerStats(w, answers) ==
    /\ sampler.busy /\ w \in sampler.asked
    /\ answers => w \in upMachines
    /\ sampler' = [sampler EXCEPT !.asked = @ \ {w},
                                  !.answered = IF answers THEN @ \cup {w} ELSE @]
    /\ UNCHANGED <<clock, ready, upMachines, samples, taken>>

forgotten(sample, now) == sample.ts + Retention < now
pruneWorkerSamples(table) == {s \in table : ~forgotten(s, clock)}

(* Samples are of the moment the tick began, the prune of the moment it is made. *)
sampleWorkers ==
    LET new == [worker : sampler.answered, ts : {sampler.at}]
        prunes == clock > sampler.pruned + PruneEvery IN
    /\ sampler.busy /\ sampler.asked = {}
    /\ samples' = IF prunes THEN pruneWorkerSamples(samples \cup new) ELSE samples \cup new
    /\ sampler' = [Idle EXCEPT !.pruned = IF prunes THEN clock ELSE sampler.pruned]
    /\ taken' = taken \cup new
    /\ UNCHANGED <<clock, ready, upMachines>>

workerMetrics(w, range) == {s \in samples : s.worker = w /\ s.ts + range >= clock}

TimePasses ==
    /\ clock < MaxClock /\ clock' = clock + 1
    /\ UNCHANGED <<ready, upMachines, samples, sampler, taken>>

(* Workers come up, fall and are deleted; their samples stay. *)
WorkerMoves(w) ==
    /\ ready' \in {ready \cup {w}, ready \ {w}} /\ upMachines' \in {upMachines \cup {w}, upMachines \ {w}}
    /\ <<ready, upMachines>>' # <<ready, upMachines>>
    /\ UNCHANGED <<clock, samples, sampler, taken>>

Init ==
    /\ clock = 0 /\ ready = Sampled /\ upMachines = Sampled
    /\ samples = {} /\ taken = {} /\ sampler = Idle
Steps ==
    \/ tick \/ sampleWorkers \/ TimePasses
    \/ \E w \in Sampled, answers \in BOOLEAN : getContainerStats(w, answers)
Events == \E w \in Sampled : WorkerMoves(w)

Next == Events \/ Steps
Spec == Init /\ [][Next]_vars

-----------------------------------------------------------------------------
(* services/worker-metrics.ts:12: samples are kept as long as a chart can show them.   *)
(* However long a tick takes and whenever the table is pruned, every sample there was    *)
(* in the span of a chart is in the chart.                                                *)
HistoryKept ==
    \A w \in Sampled, range \in Ranges :
        {s \in taken : s.worker = w /\ s.ts + range >= clock} \subseteq workerMetrics(w, range)
=============================================================================
