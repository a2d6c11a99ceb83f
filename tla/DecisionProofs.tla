---------------------------- MODULE DecisionProofs ----------------------------
(***************************************************************************)
(* What one evaluation decides and writes, for any policies, Services,     *)
(* pods, specs and any number of events and faults.                        *)
(*                                                                         *)
(* The argument.  The worker carries what it saw and decided from one API  *)
(* call to the next (Working); the breaker it decided by stays as it was,  *)
(* since time only counts in it (Tracked), until the slice is written.     *)
(* The dampener of a policy has seen every selection that the policy's     *)
(* slice may show: it is told before the write, and no write is lost       *)
(* while no call fails (Remembering).                                      *)
(***************************************************************************)
EXTENDS ReconcilerProofs, AggregatorProofs

-----------------------------------------------------------------------------
(* The inductive invariant, on top of the one of ReconcilerProofs.         *)

\* The pods that the worker goes on with are pods of the target.
Working ==
    worker.pc \in {"evaluate", "write", "status"} =>
        worker.pods \subseteq Behind[worker.spec.target]

\* The entry of a pod in a breaker.
Tracked(ps) == DOMAIN ps = {"State", "ViolationCount", "Elapsed"} /\ ps.State \in State

\* A breaker has an entry of every pod.
BreakerOf(b) == /\ DOMAIN b = {"cfg", "pods"} /\ DOMAIN b.pods = PodIP
                /\ \A ip \in PodIP : Tracked(b.pods[ip])

Breakers == \A p \in DOMAIN breakers : BreakerOf(breakers[p])

DInv == TypeOK /\ Working /\ Breakers /\ WritesHealthyPods

-----------------------------------------------------------------------------
(* The breaker.                                                            *)

\* A reading, a recovery and a tick leave an entry; a tick ejects nobody and lets
\* nobody back.
LEMMA EntriesTracked ==
    ASSUME NEW ps, Tracked(ps), NEW cfg, NEW p99
    PROVE  /\ Tracked(HalfOpenIfDue(ps, cfg)) /\ Tracked(AfterRecord(ps, cfg, p99))
           /\ Tracked(AfterTick(ps, cfg))
           /\ IsEjected(AfterTick(ps, cfg)) = IsEjected(ps)
<1>1. Tracked(HalfOpenIfDue(ps, cfg))
  BY DEF Tracked, HalfOpenIfDue, HalfOpen, State
<1>2. \A q : Tracked(RecordClosed(q, cfg, p99)) /\ Tracked(RecordHalfOpen(q, cfg, p99))
  BY DEF Tracked, RecordClosed, RecordHalfOpen, Closed, Ejected, State
<1>3. Tracked(AfterRecord(ps, cfg, p99))
  BY <1>1, <1>2 DEF Tracked, AfterRecord, State
<1>4. Tracked(AfterTick(ps, cfg)) /\ IsEjected(AfterTick(ps, cfg)) = IsEjected(ps)
  BY DEF Tracked, AfterTick, IsEjected
<1> QED BY <1>1, <1>3, <1>4

\* The breaker after an evaluation.
LEMMA RecordedIsBreaker ==
    ASSUME Breakers, NEW P99
    PROVE  BreakerOf(Recorded(P99))
<1> DEFINE found == getOrCreateBreaker(worker.key, worker.spec)
<1>1. Tracked(Untracked)
  BY DEF Tracked, Untracked, State
<1>2. BreakerOf(found)
  BY <1>1 DEF Breakers, BreakerOf, getOrCreateBreaker
<1> HIDE DEF found
<1>3. \A ip \in PodIP : Tracked(AfterEvaluation(found.pods, found.cfg, P99)[ip])
  <2>1. ASSUME NEW ip \in PodIP
        PROVE  Tracked(AfterEvaluation(found.pods, found.cfg, P99)[ip])
    <3>1. Tracked(found.pods[ip]) /\ ip \in DOMAIN found.pods
      BY <1>2 DEF BreakerOf
    <3>2. Tracked(HalfOpenIfDue(found.pods[ip], found.cfg))
      BY <3>1, EntriesTracked
    <3>3. Tracked(AfterRecord(HalfOpenIfDue(found.pods[ip], found.cfg), found.cfg, P99[ip]))
      BY <3>2, EntriesTracked
    <3> QED BY <3>1, <3>2, <3>3 DEF AfterEvaluation
  <2> QED BY <2>1
<1>4. DOMAIN AfterEvaluation(found.pods, found.cfg, P99) = PodIP
  BY <1>2 DEF BreakerOf, AfterEvaluation
<1>5. Recorded(P99) = [found EXCEPT !.pods = AfterEvaluation(@, found.cfg, P99)]
  BY DEF Recorded, found
<1> QED BY <1>2, <1>3, <1>4, <1>5 DEF BreakerOf

-----------------------------------------------------------------------------
(* The decision.                                                           *)

\* The rankings that selectPods is handed: the healthy pods that were measured, or
\* all measured pods if none of them is healthy.
LEMMA RankingsKeep ==
    ASSUME NEW P99, IsFiniteSet(DOMAIN P99), DOMAIN P99 \subseteq PodIP, NEW spec,
           NEW b, BreakerOf(b), NEW kept \in Rankings(spec, b, P99)
    PROVE  LET ejected == {ip \in PodIP : IsEjected(b.pods[ip])}
           IN  /\ kept \in Seq(DOMAIN P99) /\ Members(kept) \subseteq DOMAIN P99
               /\ DOMAIN P99 # {} => Members(kept) # {}
               /\ spec.breaker.Enabled => \/ Members(kept) \cap ejected = {}
                                          \/ Members(kept) \subseteq ejected
<1> DEFINE ejected == {ip \in PodIP : IsEjected(b.pods[ip])}
           healthy == {ip \in DOMAIN b.pods : ~IsEjected(b.pods[ip])}
<1>1. PICK r \in RankPods(P99) :
         kept = IF spec.breaker.Enabled THEN Healthy(b.pods, r) ELSE r
  BY DEF Rankings
<1>2. r \in Seq(DOMAIN P99) /\ Members(r) = DOMAIN P99
  BY RankingListsAll
<1>3. CASE kept = r /\ ~spec.breaker.Enabled
  BY <1>2, <1>3
<1>4. CASE spec.breaker.Enabled
  <2>1. healthy = PodIP \ ejected
    BY DEF BreakerOf
  <2>2. kept = IF Filter(r, healthy) # <<>> THEN Filter(r, healthy) ELSE r
    BY <1>1, <1>4 DEF Healthy
  <2> HIDE DEF healthy, ejected
  <2>3. /\ Filter(r, healthy) \in Seq(DOMAIN P99)
        /\ Members(Filter(r, healthy)) = DOMAIN P99 \cap healthy
        /\ Filter(r, healthy) = <<>> <=> DOMAIN P99 \cap healthy = {}
    BY <1>2, FilterKeeps, FilterMembers, FilterEmpty
  <2>4. CASE Filter(r, healthy) # <<>>
    BY <1>2, <2>1, <2>2, <2>3, <2>4 DEF ejected
  <2>5. CASE Filter(r, healthy) = <<>>
    BY <1>2, <2>1, <2>2, <2>3, <2>5 DEF ejected
  <2> QED BY <2>4, <2>5
<1> QED BY <1>1, <1>3, <1>4

\* What is selected of a ranking.
LEMMA SelectedOf ==
    ASSUME NEW P99, NEW sel \in SelectionSpec, NEW kept \in Seq(DOMAIN P99)
    PROVE  LET selected == Members(selectPods(sel, kept, P99))
           IN  selected \subseteq Members(kept) /\ (Members(kept) # {} => selected # {})
<1>1. /\ Members(selectPods(sel, kept, P99)) \subseteq Members(kept)
      /\ Members(selectPods(sel, kept, P99)) = {} => kept = <<>>
  BY SelectionKeepsSome
<1>2. kept = <<>> => Members(kept) = {}
  BY DEF Members
<1> QED BY <1>1, <1>2

-----------------------------------------------------------------------------
(* The parts of the type invariant.                                        *)

PolicyTypes ==
    /\ DOMAIN policy \subseteq Policies
    /\ \A p \in DOMAIN policy : /\ policy[p].deleting \in BOOLEAN
                                /\ policy[p].finalizer \in BOOLEAN
                                /\ policy[p].spec \in Specs
                                /\ policy[p].deleting => policy[p].finalizer

CopyTypes == /\ DOMAIN cache \subseteq Policies
             /\ \A p \in DOMAIN cache : cache[p].spec \in Specs

SliceTypes ==
    /\ DOMAIN slices \subseteq Services
    /\ \A s \in DOMAIN slices : /\ slices[s].endpoints \subseteq Behind[s]
                                /\ slices[s].policyName \in Policies
                                /\ slices[s].owner \in Policies \cup {NoOne}

QueueTypes == fresh \subseteq Policies /\ scheduled \subseteq Policies

WorkerTypes ==
    /\ worker.pc = "idle" => worker = Idle
    /\ worker.pc # "idle" => worker.key \in Policies /\ worker.spec \in Specs
    /\ worker.fresh => worker.key \in DOMAIN policy

\* TypeOK is the conjunction of its parts.
LEMMA TypeParts ==
    TypeOK <=> PolicyTypes /\ CopyTypes /\ SliceTypes /\ QueueTypes /\ WorkerTypes
BY DEF TypeOK, PolicyTypes, CopyTypes, SliceTypes, QueueTypes, WorkerTypes

\* The same after a step.
LEMMA TypePartsNext ==
    TypeOK' <=> PolicyTypes' /\ CopyTypes' /\ SliceTypes' /\ QueueTypes' /\ WorkerTypes'
BY DEF TypeOK, PolicyTypes, CopyTypes, SliceTypes, QueueTypes, WorkerTypes

\* A step that is not the decision leaves it as it is.
LEMMA DecisionStands ==
    ASSUME WritesHealthyPods,
           worker'.pc = "write" =>
              /\ worker.pc = "write" /\ worker'.key = worker.key /\ worker'.spec = worker.spec
              /\ worker'.pods = worker.pods /\ worker'.ranked = worker.ranked
              /\ worker'.selected = worker.selected
              /\ EjectedPods(worker.key)' = EjectedPods(worker.key)
    PROVE  WritesHealthyPods'
<1> SUFFICES ASSUME worker'.pc = "write" PROVE WritesHealthyPods'
  BY DEF WritesHealthyPods, At
<1> QED BY DEF WritesHealthyPods, At

-----------------------------------------------------------------------------
(* The steps of the worker.                                                *)

\* Fetch starts with a spec from the cache.
LEMMA FetchDecides ==
    ASSUME IInv, DInv, NEW p \in Policies, Fetch(p)
    PROVE  DInv'
<1>1. /\ UNCHANGED <<policy, slices, cache, fresh, breakers>>
      /\ scheduled' = scheduled \ {p}
      /\ \/ worker' = Idle
         \/ /\ p \in DOMAIN cache
            /\ worker'.pc \in {"cleanup", "observe", "addFinalizer"} /\ worker'.key = p
            /\ worker'.spec = cache[p].spec /\ (worker'.fresh => p \in fresh)
  BY DEF Fetch, memory, Idle
<1>2. /\ PolicyTypes' /\ CopyTypes' /\ SliceTypes' /\ QueueTypes'
  BY <1>1, TypeParts DEF DInv, PolicyTypes, CopyTypes, SliceTypes, QueueTypes
<1>3. WorkerTypes'
  BY <1>1, TypeParts DEF IInv, InSync, DInv, CopyTypes, WorkerTypes, Idle
<1>4. Working' /\ Breakers'
  BY <1>1 DEF DInv, Working, Breakers, BreakerOf, Idle
<1>5. WritesHealthyPods'
  BY <1>1 DEF WritesHealthyPods, At, Idle
<1> QED BY <1>2, <1>3, <1>4, <1>5, TypePartsNext DEF DInv

\* The finalizer goes on.
LEMMA AddFinalizerDecides ==
    ASSUME IInv, DInv, AddFinalizer
    PROVE  DInv'
<1>1. /\ UNCHANGED <<slices, cache, breakers>> /\ worker.pc = "addFinalizer"
      /\ \/ /\ worker.fresh /\ scheduled' = scheduled
            /\ policy' = [policy EXCEPT ![worker.key].finalizer = TRUE]
            /\ fresh' = fresh \ {worker.key}
            /\ worker' = [worker EXCEPT !.pc = "observe"]
         \/ /\ worker' = Idle /\ scheduled' = scheduled \cup {worker.key}
            /\ UNCHANGED <<policy, fresh>>
  BY DEF AddFinalizer, Again, memory, At
<1>2. PolicyTypes'
  <2>1. PolicyTypes
    BY TypeParts DEF DInv
  <2>2. /\ DOMAIN policy' = DOMAIN policy
        /\ \A p \in DOMAIN policy : /\ policy'[p].deleting = policy[p].deleting
                                    /\ policy'[p].spec = policy[p].spec
                                    /\ \/ policy'[p].finalizer = TRUE
                                       \/ policy'[p].finalizer = policy[p].finalizer
    BY <1>1 DEF IInv, Shapes
  <2> QED BY <2>1, <2>2, Zenon DEF PolicyTypes
<1>3. CopyTypes' /\ SliceTypes' /\ QueueTypes'
  BY <1>1, TypeParts DEF DInv, CopyTypes, SliceTypes, QueueTypes, WorkerTypes
<1>4. WorkerTypes'
  BY <1>1, TypeParts DEF IInv, Shapes, DInv, WorkerTypes, Idle
<1>5. Working' /\ Breakers' /\ WritesHealthyPods'
  BY <1>1 DEF IInv, Shapes, DInv, Working, Breakers, BreakerOf, Idle, WritesHealthyPods, At
<1> QED BY <1>2, <1>3, <1>4, <1>5, TypePartsNext DEF DInv

\* A reconcile that ends, with or without a new status.
LEMMA RestDecides ==
    ASSUME IInv, DInv, worker' = Idle, UNCHANGED <<slices, cache, breakers>>,
           worker.pc # "idle",
           scheduled' = scheduled \/ scheduled' = scheduled \cup {worker.key},
           \/ policy' = policy /\ fresh' = fresh
           \/ /\ worker.fresh
              /\ fresh' = fresh \/ fresh' = fresh \ {worker.key}
              /\ \E st : policy' = [policy EXCEPT ![worker.key].status = st]
    PROVE  DInv'
<1>1. PolicyTypes'
  BY TypeParts DEF IInv, Shapes, DInv, PolicyTypes
<1>2. CopyTypes' /\ SliceTypes' /\ QueueTypes'
  BY TypeParts DEF DInv, CopyTypes, SliceTypes, QueueTypes, WorkerTypes
<1>3. WorkerTypes' /\ Working' /\ Breakers' /\ WritesHealthyPods'
  BY DEF DInv, WorkerTypes, Working, Breakers, BreakerOf, Idle, WritesHealthyPods, At
<1> QED BY <1>1, <1>2, <1>3, TypePartsNext DEF DInv

\* Observe goes on with pods of the target.
LEMMA ObserveDecides ==
    ASSUME IInv, DInv, Observe
    PROVE  DInv'
<1>1. worker.pc = "observe" /\ UNCHANGED <<slices, cache, breakers>>
  BY DEF Observe, At, memory
<1>2. CASE worker' = Idle
  BY <1>1, <1>2, RestDecides DEF Observe, TryStatus, FreshAfter, Done, Again, Fault
<1>3. CASE /\ worker' = [worker EXCEPT !.pc = "evaluate", !.pods = podIPs]
           /\ UNCHANGED <<policy, fresh, scheduled>>
  <2>1. /\ worker'.pc = "evaluate" /\ worker'.pods = podIPs
        /\ worker'.key = worker.key /\ worker'.spec = worker.spec /\ worker'.fresh = worker.fresh
    BY <1>3 DEF IInv, Shapes
  <2>2. podIPs \subseteq Behind[worker.spec.target]
    BY DEF podIPs, PodsFound, Target
  <2>3. PolicyTypes' /\ CopyTypes' /\ SliceTypes' /\ QueueTypes'
    BY <1>1, <1>3, TypeParts DEF DInv, PolicyTypes, CopyTypes, SliceTypes, QueueTypes
  <2>4. WorkerTypes'
    BY <1>1, <1>3, <2>1, TypeParts DEF DInv, WorkerTypes
  <2>5. Working' /\ Breakers' /\ WritesHealthyPods'
    BY <1>1, <1>3, <2>1, <2>2 DEF DInv, Working, Breakers, BreakerOf, WritesHealthyPods, At
  <2> QED BY <2>3, <2>4, <2>5, TypePartsNext DEF DInv
<1> QED BY <1>2, <1>3 DEF Observe, Done, Again

\* What Decide leaves in the maps and with the worker.
LEMMA DecideSteps ==
    ASSUME IInv, NEW b, NEW kept, NEW selected, Decide(b, kept, selected)
    PROVE  /\ breakers' = IF worker.spec.breaker.Enabled
                          THEN Put(breakers, worker.key, b) ELSE breakers
           /\ \/ /\ worker'.pc = "write" /\ worker'.ranked = Members(kept)
                 /\ worker'.selected = selected /\ worker'.pods = worker.pods
                 /\ worker'.key = worker.key /\ worker'.spec = worker.spec
                 /\ worker'.fresh = worker.fresh /\ scheduled' = scheduled
              \/ worker' = Idle /\ scheduled' = scheduled \cup {worker.key}
  BY DEF Decide, Again, IInv, Shapes

\* The decision of an evaluation.
LEMMA EvaluateDecides ==
    ASSUME IInv, DInv, Evaluate
    PROVE  DInv'
<1>1. worker.pc = "evaluate" /\ UNCHANGED <<slices, cache>>
  BY DEF Evaluate, At
<1>2. CASE TryStatus(NotReady("LatencyFetchFailed")) /\ Again /\ UNCHANGED memory
  BY <1>1, <1>2, RestDecides DEF TryStatus, FreshAfter, Again, Fault, memory
<1>3. ASSUME NEW measured \in Measurements, UNCHANGED <<policy, fresh>>,
             NEW P99, P99 = [ip \in measured |-> lat[ip]],
             NEW b, b = Recorded(P99), NEW kept \in Rankings(worker.spec, b, P99),
             Decide(b, kept, Members(selectPods(worker.spec.selection, kept, P99)))
      PROVE  DInv'
  <2> DEFINE selected == Members(selectPods(worker.spec.selection, kept, P99))
             ejected == {ip \in PodIP : IsEjected(b.pods[ip])}
  <2>1. /\ worker.pods \subseteq PodIP
        /\ measured \subseteq worker.pods /\ (Source = "probe" => measured = worker.pods)
    <3>1. /\ worker.spec \in Specs
          /\ worker.pods \subseteq Behind[worker.spec.target]
      BY <1>1, TypeParts DEF DInv, Working, WorkerTypes
    <3>2. Behind[worker.spec.target] \subseteq PodIP
      BY <3>1, ReconcilerAssumption
    <3> QED BY <1>3, <3>1, <3>2 DEF Measurements
  <2>2. DOMAIN P99 = measured /\ IsFiniteSet(DOMAIN P99) /\ DOMAIN P99 \subseteq PodIP
    BY <1>3, <2>1, FS_Subset, ReconcilerAssumption
  <2>3. BreakerOf(b)
    BY <1>3, RecordedIsBreaker DEF DInv
  <2>4. /\ kept \in Seq(measured) /\ Members(kept) \subseteq measured
        /\ measured # {} => Members(kept) # {}
        /\ worker.spec.breaker.Enabled => \/ Members(kept) \cap ejected = {}
                                          \/ Members(kept) \subseteq ejected
    BY <1>3, <2>2, <2>3, RankingsKeep
  <2>5. worker.spec \in Specs /\ worker.key \in Policies
    BY <1>1, TypeParts DEF DInv, WorkerTypes
  <2>6. worker.spec.selection \in SelectionSpec
    BY <2>5, ReconcilerAssumption
  <2>7. selected \subseteq Members(kept) /\ (Members(kept) # {} => selected # {})
    BY <2>2, <2>4, <2>6, SelectedOf
  <2> HIDE DEF selected
  <2>8. /\ breakers' = IF worker.spec.breaker.Enabled
                       THEN Put(breakers, worker.key, b) ELSE breakers
        /\ \/ /\ worker'.pc = "write" /\ worker'.ranked = Members(kept)
              /\ worker'.selected = selected /\ worker'.pods = worker.pods
              /\ worker'.key = worker.key /\ worker'.spec = worker.spec
              /\ worker'.fresh = worker.fresh /\ scheduled' = scheduled
           \/ worker' = Idle /\ scheduled' = scheduled \cup {worker.key}
    BY <1>3, DecideSteps DEF selected
  <2>9. Breakers'
    BY <2>3, <2>8 DEF DInv, Breakers, Put
  <2>10. worker.spec.breaker.Enabled /\ worker'.key = worker.key =>
            EjectedPods(worker.key)' = ejected
    BY <2>8 DEF EjectedPods, Put
  <2>11. PolicyTypes' /\ CopyTypes' /\ SliceTypes' /\ QueueTypes'
    BY <1>1, <1>3, <2>5, <2>8, TypeParts DEF DInv, PolicyTypes, CopyTypes, SliceTypes, QueueTypes
  <2>12. WorkerTypes' /\ Working'
    BY <1>1, <1>3, <2>5, <2>8, TypeParts DEF DInv, WorkerTypes, Working, Idle
  <2>13. WritesHealthyPods'
    <3>1. CASE worker' = Idle
      BY <3>1 DEF WritesHealthyPods, At, Idle
    <3>2. CASE worker'.pc = "write" /\ worker'.key = worker.key
      <4> HIDE DEF ejected
      <4> QED BY <2>1, <2>4, <2>7, <2>8, <2>10, <3>2 DEF WritesHealthyPods, At, Idle
    <3> QED BY <2>8, <3>1, <3>2
  <2> QED BY <2>9, <2>11, <2>12, <2>13, TypePartsNext DEF DInv
<1> QED BY <1>2, <1>3 DEF Evaluate

\* What is written are pods of the Service, under the name of an existing policy.
LEMMA WriteSliceDecides ==
    ASSUME IInv, DInv, WriteSlice
    PROVE  DInv'
<1>1. worker.pc = "write" /\ UNCHANGED <<cache, breakers>>
  BY DEF WriteSlice, At, memory
<1>2. CASE worker' = Idle
  BY <1>1, <1>2, RestDecides DEF WriteSlice, FreshAfter, Again, Fault, IInv, Shapes, Idle
<1>3. CASE /\ slices' = ReconcileSlice(slices, worker.key, Target, worker.selected)
           /\ worker' = [worker EXCEPT !.pc = "status"]
           /\ UNCHANGED <<policy, fresh, scheduled>>
  <2>1. /\ worker'.pc = "status" /\ worker'.pods = worker.pods
        /\ worker'.key = worker.key /\ worker'.spec = worker.spec /\ worker'.fresh = worker.fresh
    BY <1>3 DEF IInv, Shapes
  <2>2. /\ worker.selected \subseteq Behind[Target] /\ worker.key \in Policies
        /\ Target \in Services
    <3>1. worker.selected \subseteq worker.ranked /\ worker.ranked \subseteq worker.pods
      BY <1>1 DEF DInv, WritesHealthyPods, At
    <3>2. worker.pods \subseteq Behind[Target]
      BY <1>1 DEF DInv, Working, Target
    <3>3. worker.key \in Policies /\ worker.spec \in Specs
      BY <1>1, TypeParts DEF DInv, WorkerTypes
    <3> QED BY <3>1, <3>2, <3>3, ReconcilerAssumption DEF Target
  <2>3. SliceTypes'
    <3>1. DOMAIN slices' = DOMAIN slices \cup {Target}
      BY <1>3 DEF ReconcileSlice, Put
    <3>2. \A s \in DOMAIN slices' :
             \/ s \in DOMAIN slices /\ slices'[s] = slices[s]
             \/ /\ s = Target /\ slices'[s].endpoints = worker.selected
                /\ slices'[s].policyName = worker.key
                /\ \/ slices'[s].owner = worker.key
                   \/ s \in DOMAIN slices /\ slices'[s].owner = slices[s].owner
      BY <1>3 DEF ReconcileSlice, Put, buildEndpointSlice, IInv, Shapes
    <3>3. SliceTypes
      BY TypeParts DEF DInv
    <3> QED BY <2>2, <3>1, <3>2, <3>3 DEF SliceTypes
  <2>4. PolicyTypes' /\ CopyTypes' /\ QueueTypes'
    BY <1>1, <1>3, TypeParts DEF DInv, PolicyTypes, CopyTypes, QueueTypes
  <2>5. WorkerTypes' /\ Working'
    BY <1>1, <1>3, <2>1, TypeParts DEF DInv, WorkerTypes, Working
  <2>6. Breakers' /\ WritesHealthyPods'
    BY <1>1, <2>1 DEF DInv, Breakers, BreakerOf, WritesHealthyPods, At
  <2> QED BY <2>3, <2>4, <2>5, <2>6, TypePartsNext DEF DInv
<1> QED BY <1>2, <1>3 DEF WriteSlice, Again

\* UpdateStatus ends the reconcile.
LEMMA UpdateStatusDecides ==
    ASSUME IInv, DInv, UpdateStatus
    PROVE  DInv'
  BY RestDecides DEF UpdateStatus, At, TryStatus, FreshAfter, Again, Fault, memory

\* Cleanup and RemoveFinalizer take away.
LEMMA DeletionDecides ==
    ASSUME IInv, DInv, Cleanup \/ RemoveFinalizer
    PROVE  DInv'
<1>1. CASE Cleanup
  <2>1. /\ worker.pc = "cleanup" /\ UNCHANGED <<policy, cache, fresh>>
        /\ \/ /\ slices' = Without(slices, Target) /\ breakers' = Without(breakers, worker.key)
              /\ worker' = [worker EXCEPT !.pc = "removeFinalizer"] /\ scheduled' = scheduled
           \/ /\ worker' = Idle /\ scheduled' = scheduled \cup {worker.key}
              /\ UNCHANGED <<slices, breakers>>
    BY <1>1 DEF Cleanup, CleanupSlice, At, Again, memory
  <2>2. PolicyTypes' /\ CopyTypes' /\ QueueTypes'
    BY <2>1, TypeParts DEF DInv, PolicyTypes, CopyTypes, QueueTypes, WorkerTypes
  <2>3. SliceTypes'
    BY <2>1, TypeParts DEF DInv, SliceTypes, Without
  <2>4. WorkerTypes'
    BY <2>1, TypeParts DEF IInv, Shapes, DInv, WorkerTypes, Idle
  <2>5. Working' /\ Breakers' /\ WritesHealthyPods'
    BY <2>1 DEF IInv, Shapes, DInv, Working, Breakers, Without, WritesHealthyPods, At, Idle
  <2> QED BY <2>2, <2>3, <2>4, <2>5, TypePartsNext DEF DInv
<1>2. CASE RemoveFinalizer
  <2>1. /\ worker.pc = "removeFinalizer" /\ UNCHANGED <<cache, breakers>> /\ worker' = Idle
        /\ scheduled' = scheduled \/ scheduled' = scheduled \cup {worker.key}
        /\ Vanish(worker.key) \/ UNCHANGED <<policy, slices, fresh>>
    BY <1>2 DEF RemoveFinalizer, At, Done, Again, memory
  <2>2. PolicyTypes' /\ CopyTypes' /\ QueueTypes'
    BY <2>1, TypeParts DEF DInv, PolicyTypes, CopyTypes, QueueTypes, WorkerTypes, Vanish, Without
  <2>3. SliceTypes'
    BY <2>1, TypeParts DEF IInv, Shapes, DInv, SliceTypes, Vanish
  <2>4. WorkerTypes' /\ Working' /\ Breakers' /\ WritesHealthyPods'
    BY <2>1 DEF DInv, WorkerTypes, Working, Breakers, BreakerOf, WritesHealthyPods, At, Idle
  <2> QED BY <2>2, <2>3, <2>4, TypePartsNext DEF DInv
<1> QED BY <1>1, <1>2

-----------------------------------------------------------------------------
(* The cluster and the users.                                              *)

\* The cache follows, or is filled anew; after a crash the worker is idle.
LEMMA CacheDecides ==
    ASSUME IInv, DInv, Crash \/ \E p \in Policies : Deliver(p)
    PROVE  DInv'
<1>1. /\ policy' = policy /\ slices' = slices
      /\ \/ worker' = worker /\ breakers' = breakers
         \/ worker' = Idle /\ breakers' = Empty
  BY DEF Crash, Deliver, memory
<1>2. PolicyTypes' /\ SliceTypes' /\ WorkerTypes'
  BY <1>1, TypeParts DEF DInv, PolicyTypes, SliceTypes, WorkerTypes, Idle
<1>3. QueueTypes'
  BY TypeParts DEF Crash, Deliver, DInv, QueueTypes, PolicyTypes
<1>4. CopyTypes'
  <2>1. PolicyTypes /\ CopyTypes
    BY TypeParts DEF DInv
  <2>2. CASE Crash
    BY <2>1, <2>2 DEF Crash, CopyTypes, PolicyTypes
  <2>3. ASSUME NEW p \in Policies, Deliver(p) PROVE CopyTypes'
    <3>1. CASE p \in DOMAIN policy
      <4>1. /\ DOMAIN cache' = DOMAIN cache \cup {p} /\ cache'[p].spec = policy[p].spec
            /\ \A q \in DOMAIN cache : q # p => cache'[q] = cache[q]
        BY <2>3, <3>1 DEF Deliver, Put
      <4> QED BY <2>1, <3>1, <4>1 DEF CopyTypes, PolicyTypes
    <3>2. CASE p \notin DOMAIN policy
      BY <2>1, <2>3, <3>2 DEF Deliver, Without, CopyTypes
    <3> QED BY <3>1, <3>2
  <2> QED BY <2>2, <2>3
<1>5. Working' /\ Breakers'
  BY <1>1 DEF DInv, Working, Breakers, BreakerOf, Idle, Empty
<1>6. WritesHealthyPods'
  BY <1>1 DEF DInv, WritesHealthyPods, EjectedPods, At, Idle
<1> QED BY <1>2, <1>3, <1>4, <1>5, <1>6, TypePartsNext DEF DInv

\* Nothing of policies and worker changes, or a slice goes away.
LEMMA FewerSlicesDecides ==
    ASSUME DInv, UNCHANGED <<policy, cache, fresh, scheduled, worker, breakers>>,
           slices' = slices \/ \E s : slices' = Without(slices, s)
    PROVE  DInv'
<1>1. PolicyTypes' /\ CopyTypes' /\ QueueTypes' /\ WorkerTypes'
  BY TypeParts DEF DInv, PolicyTypes, CopyTypes, QueueTypes, WorkerTypes
<1>2. SliceTypes'
  BY TypeParts DEF DInv, SliceTypes, Without
<1>3. Working' /\ Breakers' /\ WritesHealthyPods'
  BY DEF DInv, Working, Breakers, BreakerOf, WritesHealthyPods, EjectedPods, At
<1> QED BY <1>1, <1>2, <1>3, TypePartsNext DEF DInv

\* Time passes for the ejected pods, and they stay ejected.
LEMMA TickDecides ==
    ASSUME DInv, Tick
    PROVE  DInv'
<1>1. /\ UNCHANGED <<policy, slices, cache, fresh, scheduled, worker>>
      /\ DOMAIN breakers' = DOMAIN breakers
      /\ \A p \in DOMAIN breakers :
            breakers'[p] = [breakers[p] EXCEPT !.pods = [ip \in PodIP |->
                              AfterTick(breakers[p].pods[ip], breakers[p].cfg)]]
  BY DEF Tick
<1>2. ASSUME NEW p \in DOMAIN breakers
      PROVE  /\ BreakerOf(breakers'[p])
             /\ \A ip \in PodIP : IsEjected(breakers'[p].pods[ip]) = IsEjected(breakers[p].pods[ip])
  <2>1. BreakerOf(breakers[p])
    BY DEF DInv, Breakers
  <2>2. /\ DOMAIN breakers'[p] = {"cfg", "pods"} /\ DOMAIN breakers'[p].pods = PodIP
        /\ \A ip \in PodIP : breakers'[p].pods[ip]
                              = AfterTick(breakers[p].pods[ip], breakers[p].cfg)
    BY <1>1, <2>1 DEF BreakerOf
  <2> QED BY <2>1, <2>2, EntriesTracked DEF BreakerOf
<1>3. Breakers'
  BY <1>1, <1>2 DEF Breakers
<1>4. \A p : EjectedPods(p)' = EjectedPods(p)
  BY <1>1, <1>2 DEF EjectedPods
<1>5. WritesHealthyPods'
  BY <1>1, <1>4 DEF DInv, WritesHealthyPods, At
<1>6. PolicyTypes' /\ CopyTypes' /\ SliceTypes' /\ QueueTypes' /\ WorkerTypes'
  BY <1>1, TypeParts DEF DInv, PolicyTypes, CopyTypes, SliceTypes, QueueTypes, WorkerTypes
<1> QED BY <1>1, <1>3, <1>5, <1>6, TypePartsNext DEF DInv, Working

\* Users write policies; the worker, if it has that policy, is outdated.
LEMMA UserDecides ==
    ASSUME IInv, DInv, NEW p \in Policies, CreatePolicy(p) \/ EditPolicy(p) \/ DeletePolicy(p)
    PROVE  DInv'
<1>1. /\ UNCHANGED <<slices, cache, scheduled, breakers>> /\ fresh' = fresh \ {p}
      /\ worker' = IF worker.key = p THEN [worker EXCEPT !.fresh = FALSE] ELSE worker
  BY DEF CreatePolicy, EditPolicy, DeletePolicy, Outdated, memory
<1>2. /\ worker'.pc = worker.pc /\ worker'.key = worker.key /\ worker'.spec = worker.spec
      /\ worker'.pods = worker.pods /\ worker'.ranked = worker.ranked
      /\ worker'.selected = worker.selected
      /\ worker.key = p => ~worker'.fresh /\ worker.pc # "idle"
      /\ worker.key # p => worker' = worker
  BY <1>1, ReconcilerAssumption DEF IInv, Shapes
<1>3. PolicyTypes'
  <2>1. PolicyTypes
    BY TypeParts DEF DInv
  <2>2. CASE CreatePolicy(p)
    <3>1. PICK sp \in Specs : policy' = Put(policy, p, [deleting |-> FALSE, finalizer |-> FALSE,
                                                     spec |-> sp, status |-> NoStatus])
      BY <2>2 DEF CreatePolicy
    <3>2. /\ DOMAIN policy' = DOMAIN policy \cup {p}
          /\ policy'[p].deleting = FALSE /\ policy'[p].finalizer = FALSE /\ policy'[p].spec = sp
          /\ \A q \in DOMAIN policy : q # p => policy'[q] = policy[q]
      BY <3>1 DEF Put
    <3> QED BY <2>1, <3>2, Zenon DEF PolicyTypes
  <2>3. CASE EditPolicy(p)
    <3>1. PICK sp \in Specs : policy' = [policy EXCEPT ![p].spec = sp]
      BY <2>3 DEF EditPolicy
    <3>2. /\ DOMAIN policy' = DOMAIN policy /\ policy'[p].spec \in Specs
          /\ policy'[p].deleting = policy[p].deleting
          /\ policy'[p].finalizer = policy[p].finalizer
          /\ \A q \in DOMAIN policy : q # p => policy'[q] = policy[q]
      BY <2>3, <3>1 DEF EditPolicy, IInv, Shapes
    <3> QED BY <2>1, <3>2, Zenon DEF PolicyTypes
  <2>4. CASE DeletePolicy(p) /\ policy[p].finalizer
    <3>1. /\ DOMAIN policy' = DOMAIN policy /\ policy'[p].spec = policy[p].spec
          /\ policy'[p].deleting = TRUE /\ policy'[p].finalizer = policy[p].finalizer
          /\ \A q \in DOMAIN policy : q # p => policy'[q] = policy[q]
      BY <2>4 DEF DeletePolicy, IInv, Shapes
    <3> QED BY <2>1, <2>4, <3>1, Zenon DEF PolicyTypes
  <2>5. CASE DeletePolicy(p) /\ ~policy[p].finalizer
    <3>1. /\ DOMAIN policy' = DOMAIN policy \ {p}
          /\ \A q \in DOMAIN policy \ {p} : policy'[q] = policy[q]
      BY <2>5 DEF DeletePolicy, Without
    <3> QED BY <2>1, <3>1, Zenon DEF PolicyTypes
  <2> QED BY <2>2, <2>3, <2>4, <2>5
<1>4. CopyTypes' /\ SliceTypes' /\ QueueTypes'
  BY <1>1, TypeParts DEF DInv, CopyTypes, SliceTypes, QueueTypes
<1>5. WorkerTypes'
  <2>1. \A q \in DOMAIN policy : q # p => q \in DOMAIN policy'
    BY DEF CreatePolicy, EditPolicy, DeletePolicy, Put, Without
  <2> QED BY <1>2, <2>1, TypeParts DEF DInv, WorkerTypes
<1>6. Working' /\ Breakers'
  BY <1>1, <1>2 DEF DInv, Working, Breakers, BreakerOf
<1>7. WritesHealthyPods'
  <2>1. EjectedPods(worker.key)' = EjectedPods(worker.key)
    BY <1>1, <1>2 DEF EjectedPods
  <2> QED BY <1>2, <2>1, DecisionStands DEF DInv
<1> QED BY <1>3, <1>4, <1>5, <1>6, <1>7, TypePartsNext DEF DInv

\* Every step keeps the invariant.
LEMMA NextDecides == IInv /\ DInv /\ [Next]_vars => DInv'
<1> SUFFICES ASSUME IInv, DInv, [Next]_vars PROVE DInv'
  OBVIOUS
<1>1. CASE Reconcile
  BY <1>1, FetchDecides, AddFinalizerDecides, ObserveDecides, EvaluateDecides,
     WriteSliceDecides, UpdateStatusDecides, DeletionDecides DEF Reconcile
<1>2. CASE Crash \/ \E p \in Policies : Deliver(p)
  BY <1>2, CacheDecides
<1>3. CASE \E p \in Policies : CreatePolicy(p) \/ EditPolicy(p) \/ DeletePolicy(p)
  BY <1>3, UserDecides
<1>4. CASE \E s \in Services : CollectGarbage(s) \/ ToggleService(s) \/ LoseSlice(s)
  BY <1>4, FewerSlicesDecides DEF CollectGarbage, ToggleService, LoseSlice, memory
<1>5. CASE \E ip \in PodIP : TogglePod(ip) \/ AssignIP(ip) \/ ChangeLatency(ip)
  BY <1>5, FewerSlicesDecides DEF TogglePod, AssignIP, ChangeLatency, memory
<1>6. CASE Tick
  BY <1>6, TickDecides
<1>7. CASE UNCHANGED vars
  BY <1>7, FewerSlicesDecides DEF vars, memory
<1> QED
  BY <1>1, <1>2, <1>3, <1>4, <1>5, <1>6, <1>7 DEF Next, Environment

\* The controller starts with nothing.
LEMMA InitDecides == Init => DInv
<1> SUFFICES ASSUME Init PROVE DInv
  OBVIOUS
<1>1. /\ DOMAIN policy = {} /\ DOMAIN cache = {} /\ DOMAIN slices = {} /\ DOMAIN breakers = {}
      /\ fresh = Policies /\ scheduled = {} /\ worker = Idle
  BY DEF Init, Empty
<1>2. TypeOK
  BY <1>1 DEF TypeOK, Idle
<1> QED BY <1>1, <1>2 DEF DInv, Working, Breakers, WritesHealthyPods, At, Idle

-----------------------------------------------------------------------------
(* What follows.                                                           *)

\* The invariant holds of every behaviour.
LEMMA DecisionInvariant == Spec => [](IInv /\ DInv)
  BY InitHolds, NextHolds, InitDecides, NextDecides, PTL DEF Spec

\* Objects, maps and the worker keep their shapes; a slice never lists a pod that the
\* selector of its Service does not match.
THEOREM TypesHold == Spec => []TypeOK
<1>1. DInv => TypeOK
  BY DEF DInv
<1> QED BY <1>1, DecisionInvariant, PTL

\* Between the decision and the write of the slice nothing makes the decision wrong:
\* not an edit, not a deletion, not the time that passes for the breakers.
THEOREM HealthyPodsAreWritten == Spec => []WritesHealthyPods
<1>1. DInv => WritesHealthyPods
  BY DEF DInv
<1> QED BY <1>1, DecisionInvariant, PTL

-----------------------------------------------------------------------------
(* The dampener.                                                           *)

\* While no call has failed, the dampener of a policy remembers what the worker is
\* about to write for it, and else what the slice of the policy shows.
Remembering ==
    /\ faults \in Nat /\ faults <= MaxFaults
    /\ \A p \in DOMAIN dampeners :
          DOMAIN dampeners[p] = {"previousSelected", "violationCount"}
    /\ faults = MaxFaults =>
          /\ worker.pc = "write" =>
                /\ worker.key \in DOMAIN dampeners
                /\ dampeners[worker.key].previousSelected = worker.selected
          /\ \A p \in DOMAIN dampeners : \A s \in DOMAIN slices :
                slices[s].policyName = p /\ ~(worker.pc = "write" /\ worker.key = p) =>
                    dampeners[p].previousSelected = slices[s].endpoints

\* A step that neither decides nor writes: what is decided stays so while no call fails.
LEMMA MemoryStands ==
    ASSUME Remembering,
           DOMAIN dampeners' \subseteq DOMAIN dampeners,
           \A p \in DOMAIN dampeners' : dampeners'[p] = dampeners[p],
           DOMAIN slices' \subseteq DOMAIN slices,
           \A s \in DOMAIN slices' : /\ slices'[s].policyName = slices[s].policyName
                                     /\ slices'[s].endpoints = slices[s].endpoints,
           faults' = faults \/ (faults > 0 /\ faults' = faults - 1),
           worker'.pc = "write" => /\ worker.pc = "write" /\ worker'.key = worker.key
                                   /\ worker'.selected = worker.selected
                                   /\ dampeners' = dampeners,
           faults' = faults /\ worker.pc = "write" => worker'.pc = "write"
    PROVE  Remembering'
<1>1. faults' \in Nat /\ faults' <= MaxFaults /\ (faults' = MaxFaults => faults' = faults)
  BY ReconcilerAssumption DEF Remembering
<1> QED BY <1>1 DEF Remembering

\* The dampener is told of the selection that is going to be written, of no other.
LEMMA EvaluateRemembers ==
    ASSUME IInv, Remembering, \A sp \in Specs : sp.dampening.Enabled, DInv, Evaluate
    PROVE  Remembering'
<1>1. worker.pc = "evaluate" /\ worker.spec \in Specs /\ UNCHANGED slices
  BY TypeParts DEF Evaluate, At, DInv, WorkerTypes
<1>2. CASE TryStatus(NotReady("LatencyFetchFailed")) /\ Again /\ UNCHANGED memory
  BY <1>1, <1>2, MemoryStands DEF TryStatus, Fault, budget, Again, Idle, memory
<1>3. ASSUME NEW b, NEW kept, NEW selected, Decide(b, kept, selected), UNCHANGED budget
      PROVE  Remembering'
  <2> DEFINE p == worker.key
             d == getOrCreateDampener(p)
             answer == ShouldUpdate(d, selected, worker.spec.dampening)
  <2>1. /\ dampeners' = Put(dampeners, p, answer.state)
        /\ \/ /\ answer.update /\ worker'.pc = "write" /\ worker'.key = p
              /\ worker'.selected = selected
           \/ ~answer.update /\ worker' = Idle
    BY <1>1, <1>3 DEF Decide, Again, IInv, Shapes
  <2>2. /\ DOMAIN d = {"previousSelected", "violationCount"}
        /\ p \in DOMAIN dampeners => d = dampeners[p]
        /\ p \notin DOMAIN dampeners => d.previousSelected = {}
    BY DEF getOrCreateDampener, NewDampeningState, Remembering
  <2> HIDE DEF d
  <2>3. /\ DOMAIN answer.state = {"previousSelected", "violationCount"}
        /\ \/ answer.update /\ answer.state.previousSelected = selected
           \/ /\ ~answer.update /\ answer.state.previousSelected = d.previousSelected
              /\ d.previousSelected # {}
    BY <2>2 DEF ShouldUpdate
  <2> HIDE DEF answer
  <2>4. /\ DOMAIN dampeners' = DOMAIN dampeners \cup {p} /\ dampeners'[p] = answer.state
        /\ \A q \in DOMAIN dampeners : q # p => dampeners'[q] = dampeners[q]
    BY <2>1 DEF Put
  <2>5. faults' = faults
    BY <1>3 DEF budget
  <2>6. CASE answer.update
    BY <1>1, <2>1, <2>3, <2>4, <2>5, <2>6 DEF Remembering, Idle
  <2>7. CASE ~answer.update
    <3>1. p \in DOMAIN dampeners /\ dampeners'[p].previousSelected = dampeners[p].previousSelected
      BY <2>2, <2>3, <2>4, <2>7
    <3> QED BY <1>1, <2>1, <2>3, <2>4, <2>5, <2>7, <3>1 DEF Remembering, Idle
  <2> QED BY <2>6, <2>7
<1> QED BY <1>2, <1>3 DEF Evaluate

\* The write brings the slice of the policy, the only one it has, up to what the
\* dampener remembers.
LEMMA WriteSliceRemembers ==
    ASSUME IInv, Remembering, ~Retarget, WriteSlice
    PROVE  Remembering'
<1>1. worker.pc = "write" /\ UNCHANGED dampeners
  BY DEF WriteSlice, At, memory
<1>2. CASE Fault /\ Again /\ UNCHANGED slices
  <2>1. faults' # faults /\ faults > 0 /\ faults' = faults - 1
    BY <1>2 DEF Fault, Remembering
  <2> QED BY <1>1, <1>2, <2>1, MemoryStands DEF Again, Idle
<1>3. CASE /\ slices' = ReconcileSlice(slices, worker.key, Target, worker.selected)
           /\ worker' = [worker EXCEPT !.pc = "status"] /\ UNCHANGED budget
  <2>1. worker'.pc = "status" /\ faults' = faults
    BY <1>3 DEF IInv, Shapes, budget
  <2>2. /\ DOMAIN slices' = DOMAIN slices \cup {Target}
        /\ slices'[Target].endpoints = worker.selected
        /\ slices'[Target].policyName = worker.key
        /\ \A s \in DOMAIN slices : s # Target => slices'[s] = slices[s]
    BY <1>3 DEF ReconcileSlice, Put, buildEndpointSlice, IInv, Shapes
  <2>3. \A s \in DOMAIN slices : slices[s].policyName = worker.key => s = Target
    BY <1>1 DEF IInv, SliceHeld, WorkerHolds, SameTarget, Target
  <2> QED BY <1>1, <2>1, <2>2, <2>3 DEF Remembering
<1> QED BY <1>2, <1>3 DEF WriteSlice

\* The other steps of the worker.
LEMMA WorkerRemembers ==
    ASSUME IInv, Remembering,
           \/ \E p \in Policies : Fetch(p)
           \/ AddFinalizer \/ Observe \/ UpdateStatus \/ Cleanup \/ RemoveFinalizer
    PROVE  Remembering'
<1>0. DOMAIN worker = {"pc", "key", "spec", "fresh", "pods", "ranked", "selected"}
  BY DEF IInv, Shapes
<1>1. CASE \E p \in Policies : Fetch(p)
  <2>1. UNCHANGED <<slices, dampeners, faults>> /\ worker.pc = "idle"
    BY <1>1 DEF Fetch, At, memory, budget
  <2>2. worker'.pc \in {"idle", "cleanup", "observe", "addFinalizer"}
    <3> SUFFICES ASSUME NEW p \in Policies, Fetch(p)
                 PROVE  worker'.pc \in {"idle", "cleanup", "observe", "addFinalizer"}
      BY <1>1
    <3> QED BY DEF Fetch, Idle
  <2> QED BY <2>1, <2>2, MemoryStands
<1>2. CASE AddFinalizer
  <2>1. UNCHANGED <<slices, dampeners>> /\ worker.pc = "addFinalizer"
    BY <1>2 DEF AddFinalizer, At, memory
  <2>2. worker'.pc # "write"
    BY <1>0, <1>2 DEF AddFinalizer, Again, Idle
  <2>3. faults' = faults \/ (faults > 0 /\ faults' = faults - 1)
    BY <1>2 DEF AddFinalizer, Fault, budget
  <2> QED BY <2>1, <2>2, <2>3, MemoryStands
<1>3. CASE Observe
  <2>1. UNCHANGED <<slices, dampeners>> /\ worker.pc = "observe"
    BY <1>3 DEF Observe, At, memory
  <2>2. \/ worker' = Idle
        \/ worker' = [worker EXCEPT !.pc = "evaluate", !.pods = podIPs]
    BY <1>3 DEF Observe, Again, Done
  <2>3. faults' = faults \/ (faults > 0 /\ faults' = faults - 1)
    BY <1>3 DEF Observe, TryStatus, Fault, budget
  <2>4. worker'.pc \in {"idle", "evaluate"}
    <3>1. CASE worker' = Idle
      BY <3>1 DEF Idle
    <3>2. CASE worker' = [worker EXCEPT !.pc = "evaluate", !.pods = podIPs]
      BY <1>0, <3>2
    <3> QED BY <2>2, <3>1, <3>2
  <2> QED BY <2>1, <2>3, <2>4, MemoryStands
<1>4. CASE UpdateStatus
  <2>1. UNCHANGED <<slices, dampeners>> /\ worker.pc = "status" /\ worker' = Idle
    BY <1>4 DEF UpdateStatus, At, Again, memory
  <2>2. faults' = faults \/ (faults > 0 /\ faults' = faults - 1)
    BY <1>4 DEF UpdateStatus, TryStatus, Fault, budget
  <2> QED BY <2>1, <2>2, MemoryStands DEF Idle
<1>5. CASE Cleanup
  BY <1>5, MemoryStands DEF Cleanup, CleanupSlice, Without, At, Again, Idle, Fault, memory,
                            budget, IInv, Shapes
<1>6. CASE RemoveFinalizer
  <2>1. /\ DOMAIN slices' = DOMAIN slices
        /\ \A s \in DOMAIN slices : /\ slices'[s].policyName = slices[s].policyName
                                    /\ slices'[s].endpoints = slices[s].endpoints
    BY <1>6 DEF RemoveFinalizer, Vanish, IInv, Shapes
  <2> QED BY <1>6, <2>1, MemoryStands DEF RemoveFinalizer, At, Done, Again, Idle, Fault,
                                          memory, budget
<1> QED BY <1>1, <1>2, <1>3, <1>4, <1>5, <1>6

\* The steps of the cluster and of the users.
LEMMA WorldRemembers ==
    ASSUME IInv, Remembering,
           \/ \E p \in Policies : \/ Deliver(p) \/ CreatePolicy(p) \/ EditPolicy(p)
                                  \/ DeletePolicy(p)
           \/ \E s \in Services : CollectGarbage(s) \/ ToggleService(s) \/ LoseSlice(s)
           \/ \E ip \in PodIP : TogglePod(ip) \/ AssignIP(ip) \/ ChangeLatency(ip)
           \/ Tick \/ Crash \/ UNCHANGED vars
    PROVE  Remembering'
<1>1. CASE Crash
  BY <1>1, MemoryStands DEF Crash, Idle, Empty, Remembering
<1>2. CASE \E p \in Policies : CreatePolicy(p) \/ EditPolicy(p) \/ DeletePolicy(p)
  <2>1. UNCHANGED <<slices, dampeners, faults>>
    BY <1>2 DEF CreatePolicy, EditPolicy, DeletePolicy, Event, memory
  <2>2. worker'.pc = worker.pc /\ worker'.key = worker.key /\ worker'.selected = worker.selected
    BY <1>2 DEF CreatePolicy, EditPolicy, DeletePolicy, Outdated, IInv, Shapes
  <2> QED BY <2>1, <2>2, MemoryStands
<1>3. CASE \/ \E p \in Policies : Deliver(p)
           \/ \E s \in Services : ToggleService(s)
           \/ \E ip \in PodIP : TogglePod(ip) \/ AssignIP(ip) \/ ChangeLatency(ip)
           \/ Tick \/ UNCHANGED vars
  <2>1. UNCHANGED <<worker, slices, dampeners, faults>>
    BY <1>3 DEF Deliver, ToggleService, TogglePod, AssignIP, ChangeLatency, Tick, Event,
                memory, budget, vars
  <2> QED BY <2>1, MemoryStands
<1>4. CASE \E s \in Services : CollectGarbage(s) \/ LoseSlice(s)
  <2>1. UNCHANGED <<worker, dampeners, faults>> /\ \E s : slices' = Without(slices, s)
    BY <1>4 DEF CollectGarbage, LoseSlice, Event, memory, budget
  <2> QED BY <2>1, MemoryStands DEF Without
<1> QED BY <1>1, <1>2, <1>3, <1>4

\* With dampening switched on and no edit of targetRef, suppressing an evaluation keeps
\* what the slice shows: the selection a dampener compares with is the one last written,
\* as long as no API call fails.
THEOREM TheDampenerKnowsTheSlice ==
    ASSUME ~Retarget, \A sp \in Specs : sp.dampening.Enabled
    PROVE  Spec => []DampenerKnowsSlice
<1>1. Init => Remembering
  BY ReconcilerAssumption DEF Init, Empty, Idle, Remembering
<1>2. IInv /\ DInv /\ Remembering /\ [Next]_vars => Remembering'
  <2> SUFFICES ASSUME IInv, DInv, Remembering, [Next]_vars PROVE Remembering'
    OBVIOUS
  <2>1. CASE Evaluate
    BY <2>1, EvaluateRemembers
  <2>2. CASE WriteSlice
    BY <2>2, WriteSliceRemembers
  <2> QED BY <2>1, <2>2, WorkerRemembers, WorldRemembers DEF Next, Reconcile, Environment
<1>3. Remembering => DampenerKnowsSlice
  BY DEF Remembering, DampenerKnowsSlice
<1> QED BY <1>1, <1>2, <1>3, DecisionInvariant, PTL DEF Spec

=============================================================================
