------------------------------ MODULE Reconciler ------------------------------
(***************************************************************************)
(* The AviatorPolicy controller: the reconcile loop, the in-memory breaker *)
(* and dampener of each policy, and the cluster objects it reads and       *)
(* writes, while users, the cluster and failures change those objects      *)
(* between any two of its calls.                                           *)
(*                                                                         *)
(* One worker runs Reconcile (MaxConcurrentReconciles is left at 1).  Each *)
(* API call that can be overtaken by somebody else's write is one step of  *)
(* it; what happens between two calls touches memory that only the worker  *)
(* uses and is part of the step before the next call.                      *)
(*                                                                         *)
(* Kubernetes and controller-runtime, modelled from how the code uses      *)
(* them: Get of a policy is served from a cache that follows the API       *)
(* server with a delay; every change of a policy, its status included, is  *)
(* eventually delivered to the cache and then schedules the policy; an     *)
(* update of a policy fails unless it was read in its present version; an  *)
(* object with a deletion mark disappears with its last finalizer; a slice *)
(* whose owner is gone is garbage collected.  The informer's resync, every *)
(* ten hours by default, is no part of an evaluation interval and left     *)
(* out.                                                                    *)
(***************************************************************************)
EXTENDS Integers, Sequences, FiniteSets, Breaker, Aggregator, Dampening,
        EndpointSlices

CONSTANTS Policies,      \* names a policy may have
          Services,      \* names a Service may have
          PodIP,         \* IPs a pod may have
          FirstIPs,      \* the sets of pods that may have got their IPs at first
          Latency,       \* P99 values a pod may show
          Specs,         \* policy specs users may write
          Behind,        \* the pods that the selector of a Service matches
          Source,        \* the LatencySource the controller was started with
          NoOne,         \* a value that is no policy, no Service and no spec
          Retarget,      \* may an edit change spec.targetRef?
          MaxEvents,     \* bound: changes made by users and the cluster
          MaxFaults      \* bound: failing API calls and crashes

ASSUME ReconcilerAssumption ==
    /\ IsFiniteSet(PodIP) /\ FirstIPs \subseteq SUBSET PodIP
    /\ Latency \subseteq Nat
    /\ Behind \in [Services -> SUBSET PodIP]
    /\ Source \in {"ebpf", "probe"}
    /\ NoOne \notin Policies \cup Services
    /\ Retarget \in BOOLEAN
    /\ MaxEvents \in Nat /\ MaxFaults \in Nat
    /\ \A s \in Specs : /\ s.target \in Services
                        /\ s.selection \in SelectionSpec
                        /\ s.breaker.Enabled \in BOOLEAN
                        /\ s.breaker.cfg \in Config
                        /\ s.dampening \in DampeningSpec

VARIABLES
    policy,      \* API server: existing policies, [deleting, finalizer, spec, status]
    service,     \* API server: the Services that exist
    running,     \* the pods that are Running and not being deleted
    addressed,   \* those of them whose status has an IP
    lat,         \* the P99 a measurement of a pod would show now
    slices,      \* API server: Service -> [endpoints, policyName, owner]
    cache,       \* the informer's copy of policy, without the status
    fresh,       \* the policies whose copy in the cache is the present version
    scheduled,   \* the policies in the work queue or waiting for RequeueAfter
    worker,      \* where the worker is, with the local variables of Reconcile
    breakers,    \* AviatorPolicyReconciler.breakers
    dampeners,   \* AviatorPolicyReconciler.dampeners
    events,      \* changes that users and the cluster may still make
    faults       \* failures that may still happen

cluster == <<service, running, addressed, lat>>
memory  == <<breakers, dampeners>>
budget  == <<events, faults>>
vars    == <<policy, slices, cache, fresh, scheduled, worker, cluster, memory, budget>>

Empty == [x \in {} |-> x]

\* The status of a policy that was never evaluated.
NoStatus == [reason |-> "none", active |-> 0, total |-> 0, broken |-> {}]

Idle == [pc |-> "idle", key |-> NoOne, spec |-> NoOne, fresh |-> FALSE,
         pods |-> {}, ranked |-> {}, selected |-> {}]

Init ==
    /\ policy = Empty /\ cache = Empty /\ slices = Empty
    /\ fresh = Policies
    /\ service \in SUBSET Services
    /\ running = PodIP /\ addressed \in FirstIPs
    /\ lat \in [PodIP -> Latency]
    /\ scheduled = {} /\ worker = Idle
    /\ breakers = Empty /\ dampeners = Empty
    /\ events = MaxEvents /\ faults = MaxFaults

-----------------------------------------------------------------------------
(* How a reconcile ends.                                                   *)

At(pc) == worker.pc = pc
Target == worker.spec.target

\* Return without an error and without RequeueAfter.
Done == worker' = Idle /\ scheduled' = scheduled

\* Return an error (rate-limited retry) or RequeueAfter: run again some time.
Again == worker' = Idle /\ scheduled' = scheduled \cup {worker.key}

\* An API call fails for a reason of its own.
Fault == faults > 0 /\ faults' = faults - 1 /\ UNCHANGED events

\* What the cache may be current of when st is written: a write that changes nothing
\* makes no new version; LastEvaluationTime changes from one second to the next.
FreshAfter(st) ==
    LET outdated == fresh \ {worker.key}
    IN  IF st # policy[worker.key].status THEN {outdated}
        ELSE IF st.reason = "Reconciled" THEN {fresh, outdated} ELSE {fresh}

\* Status().Update with the status st.  It fails when the policy changed since
\* it was read, or by a fault; the code then goes on all the same.
TryStatus(st) ==
    \/ /\ worker.fresh
       /\ policy' = [policy EXCEPT ![worker.key].status = st]
       /\ fresh' \in FreshAfter(st)
       /\ UNCHANGED budget
    \/ ~worker.fresh /\ UNCHANGED <<policy, fresh, budget>>
    \/ worker.fresh /\ Fault /\ UNCHANGED <<policy, fresh>>

\* setCondition(Ready, False, reason): the other fields stay as they were.
NotReady(reason) ==
    IF worker.fresh THEN [policy[worker.key].status EXCEPT !.reason = reason]
    ELSE NoStatus

-----------------------------------------------------------------------------
(* The steps of Reconcile.                                                 *)

\* 1. and 2.: Get the policy, look for the deletion mark and the finalizer.
Fetch(p) ==
    /\ At("idle") /\ p \in scheduled
    /\ scheduled' = scheduled \ {p}
    /\ worker' =
         IF p \notin DOMAIN cache THEN Idle
         ELSE IF cache[p].deleting /\ ~cache[p].finalizer THEN Idle
         ELSE [Idle EXCEPT !.pc = IF cache[p].deleting THEN "cleanup"
                                  ELSE IF cache[p].finalizer THEN "observe"
                                  ELSE "addFinalizer",
                           !.key = p,
                           !.spec = cache[p].spec,
                           !.fresh = p \in fresh]
    /\ UNCHANGED <<policy, slices, cache, fresh, cluster, memory, budget>>

\* 3. Update with the finalizer added.
AddFinalizer ==
    /\ At("addFinalizer")
    /\ \/ /\ worker.fresh
          /\ policy' = [policy EXCEPT ![worker.key].finalizer = TRUE]
          /\ fresh' = fresh \ {worker.key}
          /\ worker' = [worker EXCEPT !.pc = "observe"]
          /\ UNCHANGED <<scheduled, budget>>
       \/ ~worker.fresh /\ Again /\ UNCHANGED <<policy, fresh, budget>>
       \/ worker.fresh /\ Fault /\ Again /\ UNCHANGED <<policy, fresh>>
    /\ UNCHANGED <<slices, cache, cluster, memory>>

\* getPodsForService
PodsFound == Behind[Target] \cap running

\* The pods among them that can be measured.
podIPs == PodsFound \cap addressed

\* Mutant: without pods the policy is not scheduled again.
MutantNoPodsDone ==
    /\ At("observe")
    /\ \/ /\ Target \notin service
          /\ TryStatus(NotReady("ServiceNotFound")) /\ Done
       \/ /\ Target \in service /\ PodsFound = {}
          /\ TryStatus(NotReady("NoPodsFound")) /\ Done
       \/ /\ Target \in service /\ PodsFound # {}
          /\ worker' = [worker EXCEPT !.pc = "evaluate", !.pods = podIPs]
          /\ UNCHANGED <<policy, fresh, scheduled, budget>>
       \/ Fault /\ Again /\ UNCHANGED <<policy, fresh>>
    /\ UNCHANGED <<slices, cache, cluster, memory>>

\* 4. to 6. Get the Service, list the running pods behind it and collect their IPs:
\* pods without one count for "no pods found", but are not measured.  A Service that
\* disappears between the two reads might as well disappear after them.
Observe ==
    /\ At("observe")
    /\ \/ /\ Target \notin service
          /\ TryStatus(NotReady("ServiceNotFound")) /\ Done
       \/ /\ Target \in service /\ PodsFound = {}
          /\ TryStatus(NotReady("NoPodsFound")) /\ Again
       \/ /\ Target \in service /\ PodsFound # {}
          /\ worker' = [worker EXCEPT !.pc = "evaluate", !.pods = podIPs]
          /\ UNCHANGED <<policy, fresh, scheduled, budget>>
       \/ Fault /\ Again /\ UNCHANGED <<policy, fresh>>
    /\ UNCHANGED <<slices, cache, cluster, memory>>

\* The readings of one GetLatencies call: the probe source answers for every
\* pod, the agents for the pods they have seen.
Measurements == IF Source = "probe" THEN {worker.pods} ELSE SUBSET worker.pods

\* getOrCreateBreaker: the configuration is the one of the first evaluation.
getOrCreateBreaker(p, spec) ==
    IF p \in DOMAIN breakers THEN breakers[p]
    ELSE [cfg |-> spec.breaker.cfg, pods |-> [ip \in PodIP |-> Untracked]]

getOrCreateDampener(p) ==
    IF p \in DOMAIN dampeners THEN dampeners[p] ELSE NewDampeningState

\* The rankings of the measurements P99 that selectPods may be handed.
Rankings(spec, b, P99) ==
    {IF spec.breaker.Enabled THEN Healthy(b.pods, r) ELSE r : r \in RankPods(P99)}

\* 9. of Reconcile: the breaker of the policy with the measurements recorded.
Recorded(P99) ==
    LET found == getOrCreateBreaker(worker.key, worker.spec)
    IN  [found EXCEPT !.pods = AfterEvaluation(@, found.cfg, P99)]

\* 9. to 11. with the ranking kept by the breaker b: select, and ask the dampener,
\* if there is one, whether the selection may be applied.
Decide(b, kept, selected) ==
    LET p        == worker.key
        spec     == worker.spec
        d        == getOrCreateDampener(p)
        answer   == IF spec.dampening.Enabled
                    THEN ShouldUpdate(d, selected, spec.dampening)
                    ELSE [update |-> TRUE, state |-> d]
    IN  /\ breakers' = IF spec.breaker.Enabled THEN Put(breakers, p, b) ELSE breakers
        /\ dampeners' = Put(dampeners, p, answer.state)
        /\ \/ /\ answer.update
              /\ worker' = [worker EXCEPT !.pc = "write",
                                          !.ranked = Members(kept),
                                          !.selected = selected]
              /\ UNCHANGED scheduled
           \/ ~answer.update /\ Again

Evaluate ==
    /\ At("evaluate")
    /\ \/ /\ \E measured \in Measurements :
                LET P99 == [ip \in measured |-> lat[ip]]
                IN  \E b \in {Recorded(P99)} : \E kept \in Rankings(worker.spec, b, P99) :
                       Decide(b, kept, Members(selectPods(worker.spec.selection, kept, P99)))
          /\ UNCHANGED <<policy, fresh, budget>>
       \/ /\ Source = "ebpf"
          /\ TryStatus(NotReady("LatencyFetchFailed")) /\ Again
          /\ UNCHANGED memory
    /\ UNCHANGED <<slices, cache, cluster>>

\* 12. and 13. Manager.Reconcile with the selected pods.  Whatever makes the write
\* fail may fail the report of it as well.
WriteSlice ==
    /\ At("write")
    /\ \/ /\ slices' = ReconcileSlice(slices, worker.key, Target, worker.selected)
          /\ worker' = [worker EXCEPT !.pc = "status"]
          /\ UNCHANGED <<policy, fresh, scheduled, budget>>
       \/ /\ Fault /\ Again
          /\ LET st == NotReady("EndpointSliceUpdateFailed")
             IN  \/ /\ worker.fresh
                    /\ policy' = [policy EXCEPT ![worker.key].status = st]
                    /\ fresh' \in FreshAfter(st)
                 \/ UNCHANGED <<policy, fresh>>
          /\ UNCHANGED slices
    /\ UNCHANGED <<cache, cluster, memory>>

\* updateStatus: TotalPods counts the rankings left after the breaker's filter.
updateStatus ==
    [reason |-> "Reconciled",
     active |-> Cardinality(worker.selected),
     total  |-> Cardinality(worker.ranked),
     broken |-> IF worker.spec.breaker.Enabled
                THEN LET b == breakers[worker.key]
                     IN  {ip \in PodIP : IsEjected(b.pods[ip])}
                ELSE {}]

\* 14. Report; a failure is only logged.
UpdateStatus ==
    /\ At("status")
    /\ TryStatus(updateStatus) /\ Again
    /\ UNCHANGED <<slices, cache, cluster, memory>>

\* Mutant: the per-policy state is kept.
MutantKeepMemory ==
    /\ At("cleanup")
    /\ \/ /\ slices' = CleanupSlice(slices, Target)
          /\ worker' = [worker EXCEPT !.pc = "removeFinalizer"]
          /\ UNCHANGED <<scheduled, memory, budget>>
       \/ Fault /\ Again /\ UNCHANGED <<slices, memory>>
    /\ UNCHANGED <<policy, cache, fresh, cluster>>

\* handleDeletion: Cleanup of the slice of the present target, then of memory.
Cleanup ==
    /\ At("cleanup")
    /\ \/ /\ slices' = CleanupSlice(slices, Target)
          /\ breakers' = Without(breakers, worker.key)
          /\ dampeners' = Without(dampeners, worker.key)
          /\ worker' = [worker EXCEPT !.pc = "removeFinalizer"]
          /\ UNCHANGED <<scheduled, budget>>
       \/ Fault /\ Again /\ UNCHANGED <<slices, memory>>
    /\ UNCHANGED <<policy, cache, fresh, cluster>>

\* The object p disappears, and with it the owner of its slices.
Vanish(p) ==
    /\ policy' = Without(policy, p)
    /\ slices' = [s \in DOMAIN slices |->
                    IF slices[s].owner = p THEN [slices[s] EXCEPT !.owner = NoOne]
                    ELSE slices[s]]
    /\ fresh' = fresh \ {p}

\* Mutant: the error of the update is swallowed.
MutantErrorSwallowed ==
    /\ At("removeFinalizer")
    /\ \/ worker.fresh /\ Vanish(worker.key) /\ Done /\ UNCHANGED budget
       \/ ~worker.fresh /\ Done /\ UNCHANGED <<policy, slices, fresh, budget>>
       \/ worker.fresh /\ Fault /\ Done /\ UNCHANGED <<policy, slices, fresh>>
    /\ UNCHANGED <<cache, cluster, memory>>

\* handleDeletion: Update with the finalizer removed.
RemoveFinalizer ==
    /\ At("removeFinalizer")
    /\ \/ worker.fresh /\ Vanish(worker.key) /\ Done /\ UNCHANGED budget
       \/ ~worker.fresh /\ Again /\ UNCHANGED <<policy, slices, fresh, budget>>
       \/ worker.fresh /\ Fault /\ Again /\ UNCHANGED <<policy, slices, fresh>>
    /\ UNCHANGED <<cache, cluster, memory>>

-----------------------------------------------------------------------------
(* controller-runtime and the cluster.                                     *)

\* The watch delivers the present version of p, or its deletion.
Deliver(p) ==
    /\ p \notin fresh
    /\ cache' = IF p \in DOMAIN policy
                THEN Put(cache, p, [deleting  |-> policy[p].deleting,
                                    finalizer |-> policy[p].finalizer,
                                    spec      |-> policy[p].spec])
                ELSE Without(cache, p)
    /\ fresh' = fresh \cup {p}
    /\ scheduled' = scheduled \cup {p}
    /\ UNCHANGED <<policy, slices, worker, cluster, memory, budget>>

\* The garbage collector removes a slice whose owner is gone.
CollectGarbage(s) ==
    /\ s \in DOMAIN slices /\ slices[s].owner = NoOne
    /\ slices' = Without(slices, s)
    /\ UNCHANGED <<policy, cache, fresh, scheduled, worker, cluster, memory, budget>>

\* The controller stops and starts again, here or on another node: memory and
\* queue are lost, the cache is filled anew and every policy scheduled.
Crash ==
    /\ faults > 0 /\ faults' = faults - 1
    /\ worker' = Idle /\ breakers' = Empty /\ dampeners' = Empty
    /\ cache' = [p \in DOMAIN policy |-> [deleting  |-> policy[p].deleting,
                                          finalizer |-> policy[p].finalizer,
                                          spec      |-> policy[p].spec]]
    /\ fresh' = Policies
    /\ scheduled' = DOMAIN policy
    /\ UNCHANGED <<policy, slices, cluster, events>>

\* Time passes for the recovery intervals of the breakers.
Tick ==
    /\ breakers' = [p \in DOMAIN breakers |->
                      [breakers[p] EXCEPT !.pods = [ip \in PodIP |->
                         AfterTick(breakers[p].pods[ip], breakers[p].cfg)]]]
    /\ UNCHANGED <<policy, slices, cache, fresh, scheduled, worker, cluster,
                   dampeners, budget>>

-----------------------------------------------------------------------------
(* Users and the cluster change the world.                                 *)

Event == events > 0 /\ events' = events - 1 /\ UNCHANGED faults

\* Somebody else than the worker wrote policy p.
Outdated(p) ==
    /\ fresh' = fresh \ {p}
    /\ worker' = IF worker.key = p THEN [worker EXCEPT !.fresh = FALSE] ELSE worker

CreatePolicy(p) ==
    /\ Event /\ p \notin DOMAIN policy
    /\ \E sp \in Specs :
          policy' = Put(policy, p, [deleting |-> FALSE, finalizer |-> FALSE,
                                    spec |-> sp, status |-> NoStatus])
    /\ Outdated(p)
    /\ UNCHANGED <<slices, cache, scheduled, cluster, memory>>

EditPolicy(p) ==
    /\ Event /\ p \in DOMAIN policy
    /\ \E sp \in Specs \ {policy[p].spec} :
          /\ Retarget \/ sp.target = policy[p].spec.target
          /\ policy' = [policy EXCEPT ![p].spec = sp]
    /\ Outdated(p)
    /\ UNCHANGED <<slices, cache, scheduled, cluster, memory>>

\* Without the finalizer the object disappears at once.
DeletePolicy(p) ==
    /\ Event /\ p \in DOMAIN policy /\ ~policy[p].deleting
    /\ IF policy[p].finalizer
       THEN policy' = [policy EXCEPT ![p].deleting = TRUE]
       ELSE policy' = Without(policy, p)
    /\ Outdated(p)
    /\ UNCHANGED <<slices, cache, scheduled, cluster, memory>>

ToggleService(s) ==
    /\ Event
    /\ service' = IF s \in service THEN service \ {s} ELSE service \cup {s}
    /\ UNCHANGED <<policy, slices, cache, fresh, scheduled, worker, running, addressed,
                   lat, memory>>

\* A pod leaves, or one comes, with its IP in its status or not yet.
TogglePod(ip) ==
    /\ Event
    /\ \/ /\ ip \in running
          /\ running' = running \ {ip} /\ addressed' = addressed \ {ip}
       \/ /\ ip \notin running
          /\ running' = running \cup {ip}
          /\ addressed' \in {addressed, addressed \cup {ip}}
    /\ UNCHANGED <<policy, slices, cache, fresh, scheduled, worker, service, lat, memory>>

AssignIP(ip) ==
    /\ Event /\ ip \in running \ addressed
    /\ addressed' = addressed \cup {ip}
    /\ UNCHANGED <<policy, slices, cache, fresh, scheduled, worker, service, running,
                   lat, memory>>

ChangeLatency(ip) ==
    /\ Event
    /\ \E v \in Latency \ {lat[ip]} : lat' = [lat EXCEPT ![ip] = v]
    /\ UNCHANGED <<policy, slices, cache, fresh, scheduled, worker, service, running,
                   addressed, memory>>

\* Somebody deletes a slice.  Its owner reference does not say "controller", so
\* the watch of Owns does not map the deletion to a policy.
LoseSlice(s) ==
    /\ Event /\ s \in DOMAIN slices
    /\ slices' = Without(slices, s)
    /\ UNCHANGED <<policy, cache, fresh, scheduled, worker, cluster, memory>>

-----------------------------------------------------------------------------
Reconcile == \/ \E p \in Policies : Fetch(p)
             \/ AddFinalizer \/ Observe \/ Evaluate \/ WriteSlice \/ UpdateStatus
             \/ Cleanup \/ RemoveFinalizer

Environment == \/ \E p \in Policies : CreatePolicy(p) \/ EditPolicy(p) \/ DeletePolicy(p)
               \/ \E s \in Services : ToggleService(s) \/ LoseSlice(s)
               \/ \E ip \in PodIP : TogglePod(ip) \/ AssignIP(ip) \/ ChangeLatency(ip)

Next == \/ Reconcile
        \/ \E p \in Policies : Deliver(p)
        \/ \E s \in Services : CollectGarbage(s)
        \/ Tick \/ Crash
        \/ Environment

Spec == Init /\ [][Next]_vars

\* The worker never stops while there is work, takes scheduled policies in turn,
\* and the API server keeps delivering and collecting.
Fairness == /\ WF_vars(AddFinalizer \/ Observe \/ Evaluate \/ WriteSlice
                       \/ UpdateStatus \/ Cleanup \/ RemoveFinalizer)
            /\ \A p \in Policies : SF_vars(Fetch(p)) /\ WF_vars(Deliver(p))
            /\ \A s \in Services : WF_vars(CollectGarbage(s))
            /\ WF_vars(Tick)

FairSpec == Spec /\ Fairness

-----------------------------------------------------------------------------
(* What the controller promises.                                           *)

\* The objects, the worker and the maps have the shapes the code gives them, and
\* the worker holds a policy's spec exactly while it works on that policy.
TypeOK ==
    /\ DOMAIN policy \subseteq Policies /\ DOMAIN cache \subseteq Policies
    /\ \A p \in DOMAIN policy : /\ policy[p].deleting \in BOOLEAN
                                /\ policy[p].finalizer \in BOOLEAN
                                /\ policy[p].spec \in Specs
                                /\ policy[p].deleting => policy[p].finalizer
    /\ \A p \in DOMAIN cache : cache[p].spec \in Specs
    /\ DOMAIN slices \subseteq Services
    /\ \A s \in DOMAIN slices : /\ slices[s].endpoints \subseteq Behind[s]
                                /\ slices[s].policyName \in Policies
                                /\ slices[s].owner \in Policies \cup {NoOne}
    /\ fresh \subseteq Policies /\ scheduled \subseteq Policies
    /\ worker.pc = "idle" => worker = Idle
    /\ worker.pc # "idle" => worker.key \in Policies /\ worker.spec \in Specs
    /\ worker.fresh => worker.key \in DOMAIN policy

Finalized(p) == p \in DOMAIN policy /\ policy[p].finalizer

\* While targets are not edited, every slice belongs, by its label and by its
\* owner reference, to a policy that still exists with its finalizer: the
\* finalizer goes on before the first slice is written and comes off only after
\* the slice is gone, whatever is deleted, recreated, retried or lost meanwhile.
SliceHasPolicy ==
    ~Retarget => \A s \in DOMAIN slices : /\ Finalized(slices[s].policyName)
                                          /\ Finalized(slices[s].owner)

\* The controller keeps breaker and dampener state only for policies that exist
\* with their finalizer, so a policy recreated under an old name never starts
\* with the ejections or the configuration of its predecessor.
MemoryHasPolicy == \A p \in DOMAIN breakers \cup DOMAIN dampeners : Finalized(p)

\* p will be looked at again: it is queued or waits for its timer, an event for
\* it is on its way, or the worker has it.
Attended(p) == p \in scheduled \/ p \notin fresh \/ worker.key = p

\* An existing policy drops out of sight only when its reconcile found the target
\* Service missing; every other way out of Reconcile comes back to it.
DroppedOnlyWithoutService ==
    [][\A p \in DOMAIN policy' :
          Attended(p) /\ ~Attended(p)' => At("observe") /\ Target \notin service]_vars

EjectedPods(p) == IF p \in DOMAIN breakers
                  THEN {ip \in PodIP : IsEjected(breakers[p].pods[ip])} ELSE {}

\* What is about to be written holds pods that were seen running with an IP, at least
\* one if any was measured (which the probe source does with every such pod), and an
\* ejected pod only if every ranked pod is ejected; nothing that happens between the
\* decision and the write changes that.
WritesHealthyPods ==
    At("write") =>
        LET ejected == IF worker.spec.breaker.Enabled THEN EjectedPods(worker.key) ELSE {}
        IN  /\ worker.selected \subseteq worker.ranked
            /\ worker.ranked \subseteq worker.pods
            /\ worker.ranked # {} \/ (Source = "probe" /\ worker.pods # {})
                  => worker.selected # {}
            /\ worker.selected \cap ejected = {} \/ worker.ranked \subseteq ejected

\* A policy marked for deletion disappears, although every write of it may meet
\* a conflict and calls may fail.
DeletionCompletes ==
    \A p \in Policies :
        (p \in DOMAIN policy /\ policy[p].deleting) ~> (p \notin DOMAIN policy)

\* The endpoints an evaluation of p would choose now, if every pod with an IP is
\* measured: none while no pod has one.
Wanted(p) ==
    LET spec == policy[p].spec
        P99  == [ip \in Behind[spec.target] \cap running \cap addressed |-> lat[ip]]
    IN  {Members(selectPods(spec.selection, kept, P99)) :
            kept \in Rankings(spec, getOrCreateBreaker(p, spec), P99)}

PodsBehind(p) == Behind[policy[p].spec.target] \cap running

\* p is there to stay and its Service exists with a running pod.
Serviceable(p) == /\ p \in DOMAIN policy /\ ~policy[p].deleting
                  /\ policy[p].spec.target \in service /\ PodsBehind(p) # {}

\* No other policy has the Service of p for its target.
Alone(p) == \A q \in DOMAIN policy \ {p} : policy[q].spec.target # policy[p].spec.target

HasSlice(p) == p \in DOMAIN policy /\ policy[p].spec.target \in DOMAIN slices

\* When the world has settled, the slice of a policy that has its Service to itself and
\* was not dropped ends up, and stays, labelled with the policy, owned by it and filled
\* with endpoints the policy would choose: after any edits, pod changes, ejections, lost
\* slices, failed writes and restarts, and after other policies for the Service are gone.
Converges ==
    \A p \in Policies :
        <>[](Serviceable(p) /\ Attended(p) /\ Alone(p)) =>
            <>[](/\ HasSlice(p)
                 /\ LET slice == slices[policy[p].spec.target]
                    IN  /\ slice.policyName = p /\ slice.owner = p
                        /\ slice.endpoints \in Wanted(p))

\* Once a policy is gone no slice keeps its label for good: Cleanup removed the
\* slice of its last target, the garbage collector those of earlier targets.
GoneLeavesNothing ==
    \A p \in Policies :
        (p \notin DOMAIN policy) ~>
            (p \in DOMAIN policy \/ \A s \in DOMAIN slices : slices[s].policyName # p)

Phase(p) == IF p \notin DOMAIN policy THEN "absent"
            ELSE IF policy[p].deleting THEN "dying"
            ELSE IF policy[p].finalizer THEN "held" ELSE "new"

\* The policies that a slice names, by label or owner, or that memory is kept for.
Kept == {p \in Policies : \/ p \in DOMAIN breakers \cup DOMAIN dampeners
                          \/ \E s \in DOMAIN slices : p \in {slices[s].policyName,
                                                             slices[s].owner}}

Lifecycle == INSTANCE PolicyLifecycle WITH phase <- [p \in Policies |-> Phase(p)],
                                           keeps <- Kept

\* While targets are not edited, the controller implements the promise of its
\* finalizer: nothing is kept for a policy before it is held, and nothing when it is
\* let go, through all the steps that Reconcile and handleDeletion take.
ImplementsLifecycle == Lifecycle!Spec

\* While no call has failed, the selection a dampener compares with is what the
\* slice shows, whenever the worker is not busy with that policy: suppressing
\* an evaluation then really keeps what was last decided.
DampenerKnowsSlice ==
    faults = MaxFaults =>
        \A p \in DOMAIN dampeners : \A s \in DOMAIN slices :
            worker.key # p /\ slices[s].policyName = p =>
                dampeners[p].previousSelected = slices[s].endpoints

\* ARCHITECTURE.md, circuit breaker, Open: "Pod ejected from EndpointSlice. No
\* traffic routed here."  A pod that stays ejected while another pod behind the
\* Service, with an IP, is not does not stay in the slice.
EjectedPodLeavesSlice ==
    \A p \in Policies, ip \in PodIP :
        <>[](/\ Serviceable(p) /\ Attended(p) /\ ip \in EjectedPods(p)
             /\ ~(PodsBehind(p) \cap addressed \subseteq EjectedPods(p)))
        => <>[](HasSlice(p) => ip \notin slices[policy[p].spec.target].endpoints)

\* ARCHITECTURE.md, dampening: the first evaluation is applied immediately.  A
\* serviceable policy that is evaluated again and again has a slice.
SelectionGetsApplied ==
    \A p \in Policies :
        <>[](Serviceable(p) /\ Attended(p)) =>
            <>HasSlice(p)

=============================================================================
