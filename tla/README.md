# Aviator: TLA+ models, checks and proofs

Aviator is a Kubernetes controller that routes the traffic of a Service to its
fastest pods. It measures the latency of every pod behind a Service, ranks the
pods, ejects slow ones with a circuit breaker, and writes the selected ones to an
EndpointSlice of its own. This directory models that program from its source,
checks the models with TLC on small instances, and proves with TLAPS, for every
instance, every safety property that the passing runs check, among them that nothing
outlives a policy, that the controller implements the life cycle its finalizer promises,
and that both latency sources implement the interface they are used through.

Line numbers in `PROJECT.json` refer to the repository's `src/`.

## 1. Inventory

| Component | Source | State | Operations | What makes it correct |
|---|---|---|---|---|
| Circuit breaker | `internal/circuitbreaker/circuitbreaker.go` | per pod IP: state, violation count, time of ejection | `RecordLatency`, `CheckRecovery`, `RemovePod`, `Reset` | ejects exactly after N slow readings in a row; readmits only after the recovery interval and a fast reading; never locks out a pod that is fast |
| Aggregator | `internal/latency/aggregator.go`, `selectPods` of the controller | none | `RankPods`, `SelectTopN`, `SelectTopPercent`, `SelectByThreshold`, `ComputeFleetP99` | the fastest pods are selected, as many as the mode says, never none |
| Dampening | same file | previous selection, counter | `ShouldUpdate` | an applied selection is replaced only after a change that persists |
| Controller | `internal/controller/aviatorpolicy_controller.go` | a breaker and a dampener per policy | `Reconcile`, `handleDeletion` | the slice follows the policy; nothing outlives a policy; no policy is forgotten |
| EndpointSlice manager | `internal/endpointslice/manager.go` | one slice per Service (in the API server) | `Reconcile`, `Cleanup` | the slice of a Service shows the selection of its policy and goes away with it |
| eBPF source | `internal/latency/ebpf_source.go` | list of agents; one call's results | `GetLatencies`, `UpdateAgentEndpoints` | best reading wins; a failed agent hides only its own pods; a call returns |
| Probe source | `internal/latency/probe_source.go` | one call's goroutines, channel and samples | `GetLatencies`, `probePod` | answers for every pod; a missed probe makes a pod look slow |
| Kernel probes | `internal/ebpf/bpf/tcp_latency.c` | timestamp map, ring buffer | `kprobe_tcp_sendmsg`, `kprobe_tcp_rcv_established` | only real RTTs leave the kernel |
| Loader, agent process | `internal/ebpf/loader.go`, `cmd/agent/main.go` | attached programs, reader, context, goroutines | `Load`, `Run`, `Close`; start, signal, exit | a failed load releases all it acquired, and so does the end; the reader survives errors and ends on cancellation |
| Collector | `internal/ebpf/collector.go` | samples per IP | `RecordEvent`, `GetStats`, `ParseLatencyEvent` | the latest samples, read as the kernel wrote them |
| Controller process | `cmd/main.go` | none of its own | flags, choice of the source, setup | the chosen source is usable |

How they interact. The kernel probes write events to a ring buffer; the agent's
reader loop hands them to the collector, which the agent serves over HTTP. The
controller's reconcile loop asks its `LatencySource` (the eBPF source, which asks
all agents in parallel, or the probe source), feeds the readings to the breaker of
the policy, ranks and selects, asks the dampener of the policy, and writes slice
and status through the API server. Policies reach it through a watch and a cache;
every policy is evaluated again after `RequeueAfter`.

What is hard here: API objects change between two calls of one reconcile; the
policy is read from a cache that lags; every write may conflict or fail; the
controller may restart and lose its memory; breaker and dampener state moves
before the write that depends on it; two policies may share a Service; agents and
probes answer in any order or not at all; what is measured depends on what is routed;
two CPUs race on a timestamp; a reader is closed under the loop that reads from it. `PROJECT.json` lists each hazard at its line, with the
property that would catch it.

## 2. Modules

| Module | What it holds |
|---|---|
| `Ordering` | what loops and sorts over Go slices leave behind: the members of a slice, a filtered slice, the i-th of the sorted values |
| `OrderingProofs` | the lemmas about them |
| `Breaker` | what one method call does to the `PodState` of one pod, as operators |
| `CircuitBreaker` | the breaker as a state machine: any calls in any order, and time |
| `CircuitBreakerProofs` | the theorems about it |
| `Aggregator` | ranking, selection and fleet P99 as operators |
| `AggregatorProofs` | what ranking, selection and fleet P99 guarantee |
| `Dampening` | `ShouldUpdate` as an operator |
| `Evaluation` | successive evaluations of one policy: ranking, selection and dampener composed |
| `EvaluationProofs` | the theorems about it |
| `EndpointSlices` | the manager's two operations on the slices of the cluster |
| `Reconciler` | the controller, composed of `Breaker`, `Aggregator`, `Dampening`, `EndpointSlices` and a model of API server, cache, queue, users and failures |
| `PolicyLifecycle` | abstract: what the finalizer of a policy promises; `Reconciler` implements it |
| `ReconcilerProofs` | the theorems about what the controller keeps and for whom, the refinement among them |
| `DecisionProofs` | the theorems about what the controller decides and writes |
| `LatencySource` | abstract: what the interface `latency.Source` promises |
| `EBPFSource`, `ProbeSource` | one `GetLatencies` call, its goroutines and whom it asks |
| `Sources` | the source chosen by flag; both implement `LatencySource` |
| `SourcesProofs` | the theorems about both, the refinement among them |
| `Collector` | parsing, samples and percentiles as operators |
| `Loader` | the agent process and the life of its eBPF programs and goroutines |
| `Agent` | kernel probes, ring buffer and collector, composed with `Loader` |
| `AgentProofs` | the theorems about it |
| `Feedback` | slice, traffic, collector, breaker and selection as one loop |
| `MC*` | instances for TLC |

Operators named `Mutant...` stand before the definition they vary. They are never
used by a specification; each is a plausible mistake in that code, kept to show
that a property notices it (`mutants` in `PROJECT.json`).

### Circuit breaker

Every method holds `b.mu` from beginning to end, so a method is an action. The map
is total, with `"untracked"` for an IP without an entry. `EjectedAt` becomes
`Elapsed`, the time since the ejection, which stops at the recovery interval
because the code only asks whether that much time has passed. The variables `slow`
and `quiet` are history: they count the slow readings in a row and the time since
the last ejection independently of the breaker, so that its verdict can be
compared with what was observed.

### Controller

The worker (one, `MaxConcurrentReconciles` is not set) takes a policy from the
queue and goes through the program counter values
`addFinalizer`, `observe`, `evaluate`, `write`, `status` or `cleanup`,
`removeFinalizer`, one API call that can be overtaken by somebody else's write per
step. The fields of `worker` are the locals of `Reconcile`. Every `return` of the
code is one of `Done` (empty `Result`) and `Again` (an error, or `RequeueAfter`).

From how the code uses Kubernetes: reads of a policy come from a cache that follows
with a delay (`cache`, `fresh`, `Deliver`); an update succeeds only on the present
version (`worker.fresh`); a status write that changes something is a new version
and comes back as an event; an object with a deletion mark goes away with its last
finalizer; a slice without an owner is garbage collected (`CollectGarbage`). A
slice read that is stale ends in a conflict, which the code treats as any other
failed write, so it is one of the faults. `Owns(EndpointSlice)` maps an event to a policy
only through an owner reference with `controller: true`, which the manager does not
set, so slice events schedule nothing. The resync of the informers (ten hours) is
left out.

A pod is identified with its IP. `running` are the pods that `getPodsForService` returns;
`addressed` those whose status has an IP already. Only these are measured (`podIPs`), while
all of them count for "no pods found". So with nothing but pods that have no IP yet the
evaluation goes through with no measurement and writes an empty slice. Pods come with or
without an IP and get it later (`TogglePod`, `AssignIP`); `FirstIPs` says which have one at
first.

`Crash` is a restart or a change of leader: memory is lost, every policy comes back
through the first list of the informer.

A status write that changes nothing makes no new version and no event. The status of a
completed evaluation holds a time stamp with a resolution of a second, so an otherwise
equal status may or may not be a new version (`FreshAfter`).

### The abstract life cycle

`PolicyLifecycle` knows of a policy only whether it is absent, new, held or dying, and
for which policies anything is kept. It says: keep something only for policies that are
held or dying, and let a dying policy go only when nothing is kept for it. The refinement
mapping reads the phase off the API object (`Phase`) and takes for kept what a slice names,
by label or owner, or the controller's maps hold (`Kept`). Without edits of `targetRef`
every step of `Reconciler` is a step of it (run `lifecycle`, theorem
`FinalizerKeepsItsPromise`). With such edits it does not hold: the slice of the old
Service stays until the policy is gone and the garbage collector comes.

### Latency sources

Both sources run a goroutine per agent or pod and collect the results from a buffered
channel. The eBPF source counts results against its copy of the agent list; the probe
source ranges over the channel until a closer, which waits for a `WaitGroup`, closes it.
`Sources` instantiates both over one `call` and `outcome`, which the abstract
`LatencySource` constrains: readings of pods that were asked for, or an error and nothing.
`WiredSpec` is the program as `main` wires it by default.

### Agent

`kprobe_tcp_sendmsg` is not serialised with `kprobe_tcp_rcv_established` of the
same socket, so a send may overwrite the timestamp between the two reads of a
receive (`Receive`, `Compute`, `Submit`). Differences are taken modulo `Word * Word`,
the width of `__u64`. An event is a sequence of 32-bit words with the padding
the compiler puts before a 64-bit field; the padding is not initialised, so it is
any word. `Compute` reads the timestamp that the map holds by then, as if an update wrote in
place. The kernel's hash map puts a new element instead and the pointer keeps the old one,
unless that is used again meanwhile; so the model allows more than the kernel does, and what is
shown of the RTTs holds for both.

`Loader` acquires collection, two probes and reader in turn; `held` is what the process
holds, `loop` where the goroutine of `Run` stands. The probes fire only while they are
attached, so sends are recorded before the receive probe is there, and receives go on
after the send probe is gone. `Exit` may come at any time (a failed load, an error of the
HTTP server, the end of `main`, a kill); the kernel frees programs and maps, the samples go
with the process, and the kubelet starts it again. Each
error path of `Load` has its own list of what it closes (`ErrorPaths`), and so has `Close`
(`Released`): reader and probes, while the collection is left to the end of the process.
`toClose` is what is left of the list under way; `CloseNext` closes one resource, with the
probes still firing in between, and `Unwound` is the return. Closing the same reader twice
is harmless.

### Feedback

The loop through the data plane: a pod gets requests while it is in the slice, requests
are what the agents measure, and the breaker decides by those samples. It assumes what
ARCHITECTURE.md describes: the default slice of the Service is disabled, so an ejected pod
gets no requests, and nobody else talks to the pod from a node with an agent. The wrong
offset of finding 3 is left out, so that the loop can be seen.

## 3. Runs

| Run | Bounds | Question |
|---|---|---|
| `breaker` | 2 pods, readings below, at and above the threshold, limit 3, recovery of 2 ticks | Does the breaker eject and readmit for the right reasons, and always readmit in the end? |
| `evaluation` | 3 pods, any of them unmeasured, 3 latencies, 9 settings: each mode with its default, the smallest value, one in the middle and one that takes all; 34 %, 3 intervals | Are the right pods selected, as many as they should be, and does only a persistent change get through? An assumption checked with it covers the fleet P99 for all fleets of up to 203 fast and slow pods (for every fleet: section 4) |
| `lifecycle` | 2 policies for 1 Service, 4 events, 1 fault | Does anything outlive its policy? Is a policy forgotten? Do deletions complete? Does a policy recover the Service from another? |
| `routing` | 1 policy moving between 2 Services with one of two settings, 2 pods, both or neither with an IP at first, 2 latencies, 3 events, 1 fault, probe source | Is what is written healthy, does the slice converge, and is anything left of a policy that moved? |
| `damped` | 1 policy, 1 Service, 2 pods, 2 latencies, 3 events, 1 fault, dampening and the eBPF source | Does the dampener know what the slice shows? |
| `agent` | 2 flows to 1 pod, a timestamp map of 1, a ring buffer of 1, words of 3 values, 2 samples, 3 records per process, any number of restarts | Do only real RTTs get out, does the collector keep the latest, does the loader clean up, does the reader live as long as it should? |
| `sources` | 2 agents, 2 pods, 2 readings; 3 probes per pod, fast, slow or missed | Do both sources keep the promise of the interface, lose nothing and return? |
| `ejected_stays`, `lost_selection`, `event_layout`, `feedback`, `wired` | | findings, section 5 |

Why the bounds are enough. A limit of 3 and a recovery of 2 ticks separate
"first", "some" and "last" of each count. Three pods are the least for which a
selection can share some but not all members with its predecessor. A deletion that
goes wrong needs a policy that is created, deleted and created again, with one
disturbance in between: four events and one fault. A second policy can take over
the slice of the first. Two pods and two latencies let every subset be ejected. In
the agent, a map and a ring of one entry are full as soon as two flows meet (so the run never
measures two flows at once; the theorems hold for maps and rings of any size), and a
clock of 3 against a limit of 1 makes both implausible and wrapped-around RTTs.
Two samples are the least between which a percentile is interpolated, and three records
push one of them out. Two agents are enough for every order of two answers and for a list that
is replaced by a longer or shorter one. `MaxEvents`, `MaxFaults`, `MaxClock` and
`MaxRecords` are the only bounds on behaviour; the queue, the worker, the passage of time in
the controller, restarts and read errors of the agent are unbounded.

Deadlock is checked in every run. Where a cfg uses `FairSpec`, liveness is checked
under it.

### Fairness

* Breaker: `Tick` and a reading of each pod are weakly fair. Time passes, and the
  controller records every measured pod at every evaluation.
* Controller: the worker's steps are weakly fair (each is a bounded call of a
  running process). `Fetch(p)` is strongly fair: the work queue hands out keys in
  the order in which they became due, so a policy that is due again and again is not
  passed over for ever by another. `Deliver` and `CollectGarbage` are weakly fair: watches
  and the garbage collector catch up. Users, faults and latencies have no fairness.
* Sources: every goroutine is weakly fair because both HTTP clients have a timeout; the
  loops and the closer are weakly fair. Agents have none: they may be down for ever. In
  `wired` the reconciler's call is weakly fair too: it comes back after `RequeueAfter`.
* Agent: the steps of the reader goroutine and its watcher are weakly fair. A successful
  read is strongly fair: reads of an open ring buffer may fail, but not for ever. Nothing is
  assumed of `main`, the kernel or the clock.
* Feedback: evaluations and time are weakly fair, and a pod that is in the slice again and
  again gets requests again and again (strong fairness). The finding does not hang on a
  weak choice here: the ejected pod is never in the slice at all.

### What the runs show

* `TypeOK`, `CountIsTheStreak`, `EjectedForAStreak`, `TrustedAfterRecovery`,
  `FastPodReadmitted`: see section 4; the last one, liveness, is only model-checked.
* `NoFasterPodLeftOut`, `KeepsTheRightNumber`, `ImprovedPodStays`: in every mode, with
  ties in any order.
* `CounterIsPersistence`, `ReplacedOnlyAfterPersistence`: the counter equals the number
  of consecutive differing selections, recomputed from the history. "Differing" means from the
  applied selection, as in the code and the flowchart of ARCHITECTURE.md (559-577). The words of its
  example for interval 6, "Different from interval 5's pending, reset" (587), could be read as a
  comparison with the pending selection; the outcome is the same there, since the selection of
  interval 6 is the applied one.
* `SliceHasPolicy`, `MemoryHasPolicy`: in every state each slice's policy, by label and
  by owner, and each breaker or dampener belong to a policy that exists with its
  finalizer. This is what the order "finalizer, slice, ..., slice away, memory away,
  finalizer away" is for, and it survives stale caches, conflicts, failures and
  restarts.
* `DroppedOnlyWithoutService`: the only way for an existing policy to be neither
  queued, nor waiting for its timer, nor about to be delivered is that its Service was not
  found. (Such a policy is not evaluated when the Service appears: nothing watches
  Services.)
* `ImplementsLifecycle`: the same order, seen from outside, as one abstract specification.
* `DeletionCompletes`, `GoneLeavesNothing`: deletion ends, and nothing keeps the label
  of a policy that is gone, even of Services it targeted earlier.
* `WritesHealthyPods`, `Converges`: without dampening and with a source that answers,
  the slice of a policy that has its Service to itself ends up with the policy's label and
  owner reference and a selection it would choose, whatever happened before. In `lifecycle`
  another policy may have owned the slice: its deletion cleans the slice up under the
  remaining policy, which then writes it anew. (The garbage collector has nothing to take there,
  since targets are not edited.) In `routing` the policy may have moved. While no pod has an
  IP the selection is empty, and so is the slice; as soon as a measured pod is there, neither
  is.
* `DampenerKnowsSlice`: as long as no call failed. The condition is needed (finding 2).
* `RTTsAreReal`: the limit of 30 s is what keeps wrapped-around differences out.
* `SamplesAreTheLatest`, `StatsWithinSamples`: about the samples the collector was
  handed, which are not the kernel's (finding 3).
* `ReleasedOnReturn`, `RecordsGetRead`, `ReaderReturns`: every error path of `Load` closes
  what was acquired before the step that failed, and `Close` leaves no probe and no reader; a
  read error does not end the reader; cancellation does,
  whoever closes the reader first.
* `KeepsThePromise`, `BestReadingKept`, `FailureStaysLocal`, `EveryPodAnswered`,
  `FailedProbeRanksLast`, `CallReturns`: for every order of answers, failures and
  replacement of the agent list.

## 4. Proofs

| Module | Theorem | Property | Assumed beyond the module's ASSUME |
|---|---|---|---|
| `CircuitBreakerProofs` | `TypeCorrect` | `TypeOK` | |
| | `StreakCounted` | `CountIsTheStreak` | |
| | `EjectionEarned` | `EjectedForAStreak` | |
| | `ReadmissionEarned` | `TrustedAfterRecovery` | |
| `AggregatorProofs` | `FleetP99IsThePercentile` | (an operator, no state) | a fleet that is not empty |
| `EvaluationProofs` | `NoFasterPodIsLeftOut` | `NoFasterPodLeftOut` | |
| | `TheRightNumberIsKept` | `KeepsTheRightNumber` | |
| | `ImprovingKeepsThePlace` | `ImprovedPodStays` | |
| | `CounterCountsPersistence` | `CounterIsPersistence` | |
| | `ReplacedAfterPersistence` | `ReplacedOnlyAfterPersistence` | |
| `ReconcilerProofs` | `NoOrphanSlice` | `SliceHasPolicy` | no edit of `targetRef` |
| | `NoOrphanMemory` | `MemoryHasPolicy` | |
| | `NoPolicyForgotten` | `DroppedOnlyWithoutService` | |
| | `FinalizerKeepsItsPromise` | `ImplementsLifecycle` | no edit of `targetRef` |
| `DecisionProofs` | `TypesHold` | `TypeOK` | |
| | `HealthyPodsAreWritten` | `WritesHealthyPods` | |
| | `TheDampenerKnowsTheSlice` | `DampenerKnowsSlice` | no edit of `targetRef`, dampening on in every spec |
| `SourcesProofs` | `TheBestReadingIsKept` | `BestReadingKept` | |
| | `AFailureStaysLocal` | `FailureStaysLocal` | |
| | `EveryPodIsAnswered` | `EveryPodAnswered` | |
| | `AFailedProbeRanksLast` | `FailedProbeRanksLast` | |
| | `SourcesKeepThePromise` | `KeepsThePromise` | |
| `AgentProofs` | `EveryRTTIsReal` | `RTTsAreReal` | |
| | `TheLatestAreKept` | `SamplesAreTheLatest` | |
| | `TheStatsAreWithinSamples` | `StatsWithinSamples` | |
| | `EverythingIsReleased` | `ReleasedOnReturn` | |

Every inductive invariant was an invariant of a TLC run before it was proved.

### Circuit breaker

`CircuitBreakerProofs` proves, for any set of pods, any readings and any
configuration in `Config` (`ConfigAssumption`, `LatencyAssumption`; the CRD gives
`ConsecutiveViolations` its minimum of 1):

* `TypeCorrect`: `TypeOK` always holds; no violation count passes the limit;
* `StreakCounted`: `CountIsTheStreak` always holds;
* `EjectionEarned`: every step satisfies `EjectedForAStreak`;
* `ReadmissionEarned`: every step satisfies `TrustedAfterRecovery`.

The invariant that carries them is `TypeOK /\ CountIsTheStreak /\ ElapsedIsTheRest`.
`TypeOK` alone is not inductive: that a count stays within the limit needs the fact that
a closed pod's count is short of it. `ReadmissionEarned` needs the link between the
breaker's clock and the time that passed (`ElapsedIsTheRest`). The invariant is a
conjunction over pods, so the proof has one lemma per kind of change of one pod
(record, half-open, tick, forget) and one step per action on top of them.

### Slices and sorts

`RankPods`, the filter loops and the percentiles are sorts and appends. `Ordering` states
their results by ranks: `Filter` puts at place n the kept member with n - 1 kept ones before
it, `Smallest(s, i)` is the value with at most i values below it and more than i values not
above it. That such members exist, once, for sequences of any length, is what
`OrderingProofs` shows: a set of ranks that is not all of `0..n - 1` would have a least
missing one (`LeastNumber`, from the well-foundedness of the order on `Nat`), and the next
member after it has that rank (`RanksTaken`). From there `Filter` keeps exactly the members
asked for, in their order (`FilterKeeps`), and `Smallest` has the rank it is asked for
(`SmallestRank`), lies among the values and grows with i.

`AggregatorProofs` builds on it. A ranking lists every measured pod once
(`RankingListsAll`); every mode selects a prefix of the ranking or, by threshold, the pods
that meet it, which is a prefix too because the ranking is sorted (`SelectionIsPrefix`,
`SelectionByThreshold`). That a pod which improves stays selected (`ImprovedStaysSelected`)
counts the pods ahead of it: ties may be ranked anew, but a pod that is ahead of it
afterwards was ahead of it before. `FleetP99IsThePercentile` is the statement about the
index `(99 * len) / 100`: fewer than one pod in a hundred is slower, at least one in a
hundred is as slow, at every size of the fleet.

### Evaluation

The invariant of `EvaluationProofs` is `Chosen` (the state holds a ranking of the
measurements and the selection made from it), `Remembered` (the dampener holds what was
applied, and the history of what it held back is short of the limit) and `DifferingTail`: the
last `violationCount` selections held back differ enough from the applied one, and the
one before them does not. `CounterIsPersistence` alone is not inductive, since it counts a
set; the tail says which set it is.

### Controller: what is kept, and for whom

`ReconcilerProofs` proves, for any policies, Services, pods and specs, either source and
any number of events and faults (`ReconcilerAssumption`):

* `NoOrphanSlice`: `SliceHasPolicy` always holds;
* `NoOrphanMemory`: `MemoryHasPolicy` always holds, also when targets are edited;
* `NoPolicyForgotten`: every step satisfies `DroppedOnlyWithoutService`;
* `FinalizerKeepsItsPromise`: if targets are not edited, the controller implements
  `PolicyLifecycle` (`ImplementsLifecycle`).

None of the properties is inductive: whether `RemoveFinalizer` may let the policy go
depends on what the worker did before and on what a cache that lags may still hand to a
later reconcile. `IInv` says so in parts:

* `InSync`, `WorkerPresent`: a copy or a worker that counts as present agrees with the
  policy, which is why an update that succeeds acts on what was read;
* `CopyHolds`: a copy without deletion mark and with the finalizer, however old, is one of a
  policy that still has its finalizer, which is why a reconcile that skips `AddFinalizer`
  may write;
* `WorkerHolds`, `Dying`, `Cleared`: what the worker may rely on at each of its places;
* `SliceHeld`: every slice is that of the Service its policies target, so the one slice
  that `Cleanup` deletes is the only one;
* `MarkedIsFinalized`: nothing but the finalizer keeps a marked policy, so a reconcile that
  finds the mark without the finalizer drops nobody.

The proof has a lemma per action. A reconcile that ends, with or without a new
status, is one lemma (`RestHolds`) that the error paths share.

The refinement rests on the same invariant. A step that changes no phase is `Work`,
whatever it does to slices and memory, because `IInv` holds after it and everything kept
is kept for a policy with its finalizer (`WorkMaps`). Four steps change a phase: adding the
finalizer, removing it, creating and deleting. They leave what is kept alone; of
`RemoveFinalizer`, which cuts the owner references of the policy, this follows from `Cleared` and
`SliceHeld`: there is no slice of the policy left to cut them from (`FinalizerMaps`).

### Controller: what is decided and written

`DecisionProofs` adds `DInv` to `IInv`: the types, `Working` (from `observe` on, the worker
goes on with pods of its target), `Breakers` (a breaker has an entry of every
pod, in one of its states) and `WritesHealthyPods` itself. The decision is made in
one step from the breaker, the ranking and the selection operators, and there the
lemmas of `AggregatorProofs` come in: what the breaker keeps of a ranking holds no ejected
pod unless all are, and what is selected of it is a part, empty only if it is. Between that
step and the write, users edit and delete, caches move and time passes for the ejected pods;
`TypeOK` is needed because a slice lists only pods of its own Service although the
worker's copy of the policy may be old.

`TheDampenerKnowsTheSlice` needs more (`Remembering`): while no call has failed, the
dampener of the policy at `write` remembers the selection that is going to be written, and
every other dampener what the slice of its policy shows. Its hypotheses are what
the property needs: a dampener is not told of selections made while dampening is
off, and an edit of `targetRef` leaves a slice behind that nobody updates.

### Latency sources

`Gathering` says that everything on the way in a call of the eBPF source is about pods that
were asked for, and that an answer that is merged was received; the merge keeps
`BestReadingKept`. `Probing` says where the pods of a probing call are: with their
goroutine, in the channel, or in the map; the `WaitGroup` counts the first, so
when the channel is closed and drained the map has them all. `Unused` says that the source
that was not chosen stays as it was. The refinement maps the start of a call and its
return to `LatencySource`'s two steps and everything else to a stutter.

### Agent

The argument for the RTTs is one of modular arithmetic: both clock readings lie between 1 and
the present clock, so their difference is less than the clock or, when a send overwrote
the first of them, wraps to a number above the limit (the clock stays more than the limit below `Word * Word`,
`AgentAssumption`). `Kernel` carries that over the three steps of a receive. `Kept` is
`SamplesAreTheLatest` with its types; `StatsOrdered` shows that the interpolation stays between its
two neighbours and that P50 does not pass P99, for samples of any length.

`Releasing` is the part for `EverythingIsReleased`: while an error path of `Load` is under way,
everything still held is on the rest of its list, and while `Close` is, everything but the
collection. That the lists are complete when they are begun is `PathsAreComplete`, one case per
step of `Load` that may fail.

### Only model-checked

* Liveness, which is out of the prover's reach: `FastPodReadmitted`, `DeletionCompletes`,
  `Converges`, `GoneLeavesNothing`, `CallReturns`, `RecordsGetRead`, `ReaderReturns`.
* The findings, which are counterexamples, and `Feedback`, which exists for one of them.

Induction over a recursive definition is out of reach too, which is why no definition under a
theorem is recursive: `SelectSeq` and `SortSeq`, which are, are replaced by the ranks of
`Ordering`.

## 5. Findings

1. **Ejected pods stay in a dampened slice** (`ejected_stays`). `computeChangePercent`
   counts added pods only. A selection that merely shrinks has changed by 0 %, so the
   ejection of a pod does not reach the slice while dampening is on.
2. **A selection is lost with a failed write** (`lost_selection`). `ShouldUpdate`
   remembers a selection before it is written. After a failed write the retry looks like
   "no change" and is suppressed, for ever if the latencies stay as they are.
3. **The event is parsed at the wrong offset** (`event_layout`). `rtt_ns` is at offset 16
   of the C struct; the parser reads bytes 12 to 19.
4. **An ejected pod never comes back** (`feedback`). `CheckRecovery` half-opens a pod and
   `RecordLatency`, called right after it with the reading at hand, decides. The pod has
   not been in the slice in between, so with the eBPF source the reading is the P99 of the
   samples that got it ejected: nothing evicts them, `EvictStale` has no caller and
   `max-sample-age` is not used. The documents say the pod is re-tested with real traffic. (A
   pod that others talk to, say a kubelet probe, does get new samples.)
5. **The controller knows no agent** (`wired`). Nothing calls `UpdateAgentEndpoints`, so with
   the default source every measurement fails and no slice is written.

Seen while modelling and not the subject of a run: `spec.latencySource` and
`spec.targetPort` are never read, the source and its port are the process's; `TotalPods` counts the
pods that the breaker left over, not those behind the Service; status writes schedule the
policy at once, so evaluations come faster than `evaluationInterval`; a policy whose Service is
missing is not looked at again when the Service appears; with no measurement at all (no agent has
seen a pod, or no running pod has an IP yet) an empty slice is written with Ready=True;
ARCHITECTURE.md 634-638 says of "`EndpointSlice` resources owned by Aviator (secondary)" that "Changes
to either trigger reconciliation", but the owner reference (`manager.go` 169) lacks the
`controller: true` that `Owns` looks for, so a deleted slice comes back only with the next evaluation,
and not at all if dampening suppresses that one.

## 6. Not modelled, and the plan

Left out for good: flags, certificates, metrics and HTTP encoding (`cmd/`), generated code,
addresses, node names and ports of the slice, the per-pod list and the millisecond
figures of the status, the fleet average, the sub-percent rounding of float64; `Reset`,
`EvictStale` and `GetStatsForIPs` of the collector, which have no caller; `per_ip_latency` of the
kernel program, which nothing reads; real time, so the distance between evaluations.

What is left:

1. proofs of what the theorems leave out: `SliceHasPolicy` in the weaker form that holds when
   targets are edited (a slice whose policy is gone has no owner left, so the garbage
   collector takes it), and the safety half of `Converges`;
2. edits of the breaker's configuration, reuse of pod IPs, switching dampening on and off.
