--------------------------- MODULE ReconcilerProofs ---------------------------
(***************************************************************************)
(* Nothing of a policy outlives it: for any policies, Services, pods,      *)
(* specs and any number of events and faults, a slice and the controller's *)
(* memory of a policy exist only while the policy does, with its           *)
(* finalizer.                                                              *)
(*                                                                         *)
(* The argument.  The finalizer comes off only by a worker that read the   *)
(* deletion mark in the present version of the policy (Dying).  By then    *)
(* that worker has removed slice and memory (Cleared), and nobody else     *)
(* writes them.  A worker that writes them got past addFinalizer on a copy *)
(* that shows the finalizer, and such a copy never outlives the finalizer  *)
(* (CopyHolds, WorkerHolds).                                               *)
(***************************************************************************)
EXTENDS Reconciler, TLAPS

\* Without edits of targetRef, p still targets what spec does.
SameTarget(p, spec) == ~Retarget => policy[p].spec.target = spec.target

-----------------------------------------------------------------------------
(* The inductive invariant.                                                *)

\* The fields of the records that steps update, and the worker at rest.
Shapes ==
    /\ \A p \in DOMAIN policy :
          /\ p \in Policies
          /\ DOMAIN policy[p] = {"deleting", "finalizer", "spec", "status"}
    /\ DOMAIN cache \subseteq Policies
    /\ \A s \in DOMAIN slices : DOMAIN slices[s] = {"endpoints", "policyName", "owner"}
    /\ DOMAIN worker = {"pc", "key", "spec", "fresh", "pods", "ranked", "selected"}
    /\ worker.pc = "idle" => worker.key = NoOne /\ ~worker.fresh
    /\ worker.pc # "idle" => worker.key \in Policies

\* Only the finalizer keeps a policy that is marked for deletion.
MarkedIsFinalized == \A p \in DOMAIN policy : policy[p].deleting => policy[p].finalizer

\* A copy that counts as present is the policy.
InSync ==
    \A p \in fresh :
        /\ p \in DOMAIN cache <=> p \in DOMAIN policy
        /\ p \in DOMAIN cache => /\ cache[p].deleting = policy[p].deleting
                                 /\ cache[p].finalizer = policy[p].finalizer
                                 /\ cache[p].spec = policy[p].spec

\* A copy without deletion mark and with the finalizer, however old, is one of a
\* policy that still has it.
CopyHolds ==
    \A p \in DOMAIN cache :
        ~cache[p].deleting /\ cache[p].finalizer =>
            Finalized(p) /\ SameTarget(p, cache[p].spec)

\* What the worker read as the present version still is.
WorkerPresent ==
    worker.fresh => /\ worker.key \in DOMAIN policy
                    /\ policy[worker.key].spec = worker.spec

\* A worker that may write a slice or memory has a policy with its finalizer.
WorkerHolds ==
    worker.pc \in {"observe", "evaluate", "write", "status"} =>
        Finalized(worker.key) /\ SameTarget(worker.key, worker.spec)

\* A worker that may take the finalizer off has a policy marked for deletion, and
\* the cache shows the mark.
Dying ==
    worker.pc \in {"cleanup", "removeFinalizer"} /\ worker.fresh =>
        /\ policy[worker.key].deleting
        /\ worker.key \in DOMAIN cache => cache[worker.key].deleting

\* When it does, slice and memory are gone.
Cleared ==
    worker.pc = "removeFinalizer" =>
        /\ worker.spec.target \notin DOMAIN slices
        /\ worker.key \notin DOMAIN breakers \cup DOMAIN dampeners

\* A slice is that of the Service its policies target.
SliceHeld ==
    ~Retarget =>
        \A s \in DOMAIN slices : \A p \in {slices[s].policyName, slices[s].owner} :
            Finalized(p) /\ policy[p].spec.target = s

IInv == /\ Shapes /\ MarkedIsFinalized /\ InSync /\ CopyHolds
        /\ WorkerPresent /\ WorkerHolds /\ Dying /\ Cleared
        /\ SliceHeld /\ MemoryHasPolicy

\* The controller starts with nothing written and nothing remembered (NewReconciler).
LEMMA InitHolds == Init => IInv
  BY ReconcilerAssumption
  DEF Init, Empty, Idle, IInv, Shapes, MarkedIsFinalized, InSync, CopyHolds,
      WorkerPresent, WorkerHolds, Dying, Cleared, SliceHeld, MemoryHasPolicy

-----------------------------------------------------------------------------
(* The steps of the worker.                                                *)

\* Fetch hands the worker a copy; what is known of copies is now known of the worker.
LEMMA FetchHolds ==
    ASSUME IInv, NEW p \in Policies, Fetch(p)
    PROVE  IInv'
<1> USE ReconcilerAssumption
    DEF IInv, Shapes, MarkedIsFinalized, InSync, CopyHolds, WorkerPresent, WorkerHolds,
        Dying, Cleared, SliceHeld, MemoryHasPolicy, Finalized, SameTarget, Idle, At
<1>1. Shapes' /\ MarkedIsFinalized'
  BY DEF Fetch, cluster, memory, budget
<1>2. InSync' /\ CopyHolds'
  BY DEF Fetch, cluster, memory, budget
<1>3. WorkerPresent' /\ WorkerHolds'
  BY DEF Fetch, cluster, memory, budget
<1>4. Dying' /\ Cleared'
  BY DEF Fetch, cluster, memory, budget
<1>5. SliceHeld' /\ MemoryHasPolicy'
  BY DEF Fetch, cluster, memory, budget
<1> QED BY <1>1, <1>2, <1>3, <1>4, <1>5

\* AddFinalizer succeeds on the present version only, so the policy is still there.
LEMMA AddFinalizerHolds ==
    ASSUME IInv, AddFinalizer
    PROVE  IInv'
<1> USE ReconcilerAssumption
    DEF IInv, Shapes, MarkedIsFinalized, InSync, CopyHolds, WorkerPresent, WorkerHolds,
        Dying, Cleared, SliceHeld, MemoryHasPolicy, Finalized, SameTarget, Idle, At
<1>1. Shapes' /\ MarkedIsFinalized'
  BY DEF AddFinalizer, Again, Fault, cluster, memory, budget
<1>2. InSync' /\ CopyHolds'
  BY DEF AddFinalizer, Again, Fault, cluster, memory, budget
<1>3. WorkerPresent' /\ WorkerHolds'
  BY DEF AddFinalizer, Again, Fault, cluster, memory, budget
<1>4. Dying' /\ Cleared'
  BY DEF AddFinalizer, Again, Fault, cluster, memory, budget
<1>5. SliceHeld' /\ MemoryHasPolicy'
  BY DEF AddFinalizer, Again, Fault, cluster, memory, budget
<1> QED BY <1>1, <1>2, <1>3, <1>4, <1>5

\* A reconcile that ends, with or without a new status, disturbs nothing.
LEMMA RestHolds ==
    ASSUME IInv, worker' = Idle, UNCHANGED <<slices, cache, breakers, dampeners>>,
           \/ policy' = policy /\ fresh' = fresh
           \/ /\ worker.fresh
              /\ fresh' = fresh \/ fresh' = fresh \ {worker.key}
              /\ \E st : policy' = [policy EXCEPT ![worker.key].status = st]
    PROVE  IInv'
<1> USE ReconcilerAssumption
    DEF IInv, Shapes, MarkedIsFinalized, InSync, CopyHolds, WorkerPresent, WorkerHolds,
        Dying, Cleared, SliceHeld, MemoryHasPolicy, Finalized, SameTarget, Idle, At
<1>1. Shapes' /\ MarkedIsFinalized'
  BY DEF Idle
<1>2. InSync' /\ CopyHolds'
  BY DEF Idle
<1>3. WorkerPresent' /\ WorkerHolds'
  BY DEF Idle
<1>4. Dying' /\ Cleared'
  BY DEF Idle
<1>5. SliceHeld' /\ MemoryHasPolicy'
  BY DEF Idle
<1> QED BY <1>1, <1>2, <1>3, <1>4, <1>5

\* Observe ends the reconcile or goes on to evaluate.
LEMMA ObserveHolds ==
    ASSUME IInv, Observe
    PROVE  IInv'
<1>1. CASE worker' = Idle
  BY <1>1, RestHolds DEF Observe, TryStatus, FreshAfter, Done, Again, Fault, memory, budget, cluster
<1>2. CASE /\ worker' = [worker EXCEPT !.pc = "evaluate", !.pods = podIPs]
           /\ UNCHANGED <<policy, fresh, slices, cache, breakers, dampeners>>
  BY <1>2, ReconcilerAssumption
  DEF Observe, At, IInv, Shapes, MarkedIsFinalized, InSync, CopyHolds, WorkerPresent,
      WorkerHolds, Dying, Cleared, SliceHeld, MemoryHasPolicy, Finalized, SameTarget
<1> QED BY <1>1, <1>2 DEF Observe, Done, Again, memory, cluster, budget

\* Evaluate gives memory to the policy of the worker only, which is finalized.
LEMMA EvaluateHolds ==
    ASSUME IInv, Evaluate
    PROVE  IInv'
<1>1. CASE worker' = Idle /\ UNCHANGED memory
  BY <1>1, RestHolds
  DEF Evaluate, Decide, TryStatus, FreshAfter, Again, Fault, memory, budget, cluster
<1>2. ASSUME NEW b, NEW kept, NEW selected, Decide(b, kept, selected),
             UNCHANGED <<policy, fresh, slices, cache>>
      PROVE  IInv'
  <2>1. /\ DOMAIN breakers' \subseteq DOMAIN breakers \cup {worker.key}
        /\ DOMAIN dampeners' \subseteq DOMAIN dampeners \cup {worker.key}
    BY <1>2 DEF Decide, Put
  <2>2. \/ worker' = Idle
        \/ /\ DOMAIN worker' = DOMAIN worker
           /\ worker'.pc = "write" /\ worker'.key = worker.key
           /\ worker'.spec = worker.spec /\ worker'.fresh = worker.fresh
    BY <1>2 DEF Decide, Again, IInv, Shapes
  <2>3. At("evaluate") /\ Finalized(worker.key) /\ SameTarget(worker.key, worker.spec)
    BY DEF Evaluate, At, IInv, WorkerHolds
  <2>4. Shapes' /\ MarkedIsFinalized' /\ InSync' /\ CopyHolds'
    BY <1>2, <2>2, <2>3 DEF At, Idle, IInv, Shapes, MarkedIsFinalized, InSync, CopyHolds,
                            Finalized, SameTarget
  <2>5. WorkerPresent' /\ WorkerHolds' /\ Dying' /\ Cleared'
    BY <1>2, <2>2, <2>3 DEF Idle, IInv, Shapes, WorkerPresent, WorkerHolds, Dying, Cleared,
                            Finalized, SameTarget
  <2>6. SliceHeld' /\ MemoryHasPolicy'
    BY <1>2, <2>1, <2>3 DEF IInv, SliceHeld, MemoryHasPolicy, Finalized
  <2> QED BY <2>4, <2>5, <2>6 DEF IInv
<1> QED
  BY <1>1, <1>2 DEF Evaluate, Again, memory, cluster, budget

\* WriteSlice writes the slice of the target of a finalized policy.
LEMMA WriteSliceHolds ==
    ASSUME IInv, WriteSlice
    PROVE  IInv'
<1>1. CASE worker' = Idle
  BY <1>1, RestHolds DEF WriteSlice, FreshAfter, Again, Fault, memory, budget, cluster, At, Idle
<1>2. CASE /\ slices' = ReconcileSlice(slices, worker.key, Target, worker.selected)
           /\ worker' = [worker EXCEPT !.pc = "status"]
           /\ UNCHANGED <<policy, fresh, cache, breakers, dampeners>>
  <2>1. DOMAIN slices' = DOMAIN slices \cup {Target}
    BY <1>2 DEF ReconcileSlice, Put
  <2>2. \A s \in DOMAIN slices' :
           \/ s \in DOMAIN slices /\ slices'[s] = slices[s]
           \/ /\ s = Target
              /\ DOMAIN slices'[s] = {"endpoints", "policyName", "owner"}
              /\ slices'[s].policyName = worker.key
              /\ \/ slices'[s].owner = worker.key
                 \/ s \in DOMAIN slices /\ slices'[s].owner = slices[s].owner
    BY <1>2 DEF ReconcileSlice, Put, buildEndpointSlice, IInv, Shapes
  <2>3. At("write") /\ Finalized(worker.key) /\ SameTarget(worker.key, worker.spec)
    BY DEF WriteSlice, At, IInv, WorkerHolds
  <2>4. Shapes' /\ MarkedIsFinalized' /\ InSync' /\ CopyHolds'
    BY <1>2, <2>2, <2>3 DEF At, IInv, Shapes, MarkedIsFinalized, InSync, CopyHolds,
                            Finalized, SameTarget
  <2>5. WorkerPresent' /\ WorkerHolds' /\ Dying' /\ Cleared'
    BY <1>2, <2>3 DEF IInv, Shapes, WorkerPresent, WorkerHolds, Dying, Cleared,
                      Finalized, SameTarget
  <2>6. SliceHeld' /\ MemoryHasPolicy'
    BY <1>2, <2>2, <2>3 DEF Target, IInv, SliceHeld, MemoryHasPolicy, Finalized, SameTarget
  <2> QED BY <2>4, <2>5, <2>6 DEF IInv
<1> QED BY <1>1, <1>2 DEF WriteSlice, Again, memory, cluster, budget

\* UpdateStatus ends the reconcile.
LEMMA UpdateStatusHolds ==
    ASSUME IInv, UpdateStatus
    PROVE  IInv'
  BY RestHolds DEF UpdateStatus, TryStatus, FreshAfter, Again, Fault, memory, budget, cluster

\* Cleanup clears what Cleared says.
LEMMA CleanupHolds ==
    ASSUME IInv, Cleanup
    PROVE  IInv'
<1> USE ReconcilerAssumption
    DEF IInv, Shapes, MarkedIsFinalized, InSync, CopyHolds, WorkerPresent, WorkerHolds,
        Dying, Cleared, SliceHeld, MemoryHasPolicy, Finalized, SameTarget, Idle, At
<1>1. Shapes' /\ MarkedIsFinalized'
  BY DEF Cleanup, CleanupSlice, Without, Target, Again, Fault, cluster, memory, budget
<1>2. InSync' /\ CopyHolds'
  BY DEF Cleanup, CleanupSlice, Without, Target, Again, Fault, cluster, memory, budget
<1>3. WorkerPresent' /\ WorkerHolds'
  BY DEF Cleanup, CleanupSlice, Without, Target, Again, Fault, cluster, memory, budget
<1>4. Dying' /\ Cleared'
  BY DEF Cleanup, CleanupSlice, Without, Target, Again, Fault, cluster, memory, budget
<1>5. SliceHeld' /\ MemoryHasPolicy'
  BY DEF Cleanup, CleanupSlice, Without, Target, Again, Fault, cluster, memory, budget
<1> QED BY <1>1, <1>2, <1>3, <1>4, <1>5

\* RemoveFinalizer meets neither a slice nor memory nor a copy of a live policy.
LEMMA RemoveFinalizerHolds ==
    ASSUME IInv, RemoveFinalizer
    PROVE  IInv'
<1> USE ReconcilerAssumption
    DEF IInv, Shapes, MarkedIsFinalized, InSync, CopyHolds, WorkerPresent, WorkerHolds,
        Dying, Cleared, SliceHeld, MemoryHasPolicy, Finalized, SameTarget, Idle, At
<1>1. Shapes' /\ MarkedIsFinalized'
  BY DEF RemoveFinalizer, Vanish, Without, Done, Again, Fault, cluster, memory, budget
<1>2. InSync' /\ CopyHolds'
  BY DEF RemoveFinalizer, Vanish, Without, Done, Again, Fault, cluster, memory, budget
<1>3. WorkerPresent' /\ WorkerHolds'
  BY DEF RemoveFinalizer, Vanish, Without, Done, Again, Fault, cluster, memory, budget
<1>4. Dying' /\ Cleared'
  BY DEF RemoveFinalizer, Vanish, Without, Done, Again, Fault, cluster, memory, budget
<1>5. SliceHeld' /\ MemoryHasPolicy'
  BY DEF RemoveFinalizer, Vanish, Without, Done, Again, Fault, cluster, memory, budget
<1> QED BY <1>1, <1>2, <1>3, <1>4, <1>5

-----------------------------------------------------------------------------
(* The cluster and the users.                                              *)

\* Deliver brings the copy up to date.
LEMMA DeliverHolds ==
    ASSUME IInv, NEW p \in Policies, Deliver(p)
    PROVE  IInv'
<1> USE ReconcilerAssumption
    DEF IInv, Shapes, MarkedIsFinalized, InSync, CopyHolds, WorkerPresent, WorkerHolds,
        Dying, Cleared, SliceHeld, MemoryHasPolicy, Finalized, SameTarget, Idle, At
<1>1. Shapes' /\ MarkedIsFinalized'
  BY DEF Deliver, Put, Without, cluster, memory, budget
<1>2. InSync' /\ CopyHolds'
  BY DEF Deliver, Put, Without, cluster, memory, budget
<1>3. WorkerPresent' /\ WorkerHolds'
  BY DEF Deliver, Put, Without, cluster, memory, budget
<1>4. Dying' /\ Cleared'
  BY DEF Deliver, Put, Without, cluster, memory, budget
<1>5. SliceHeld' /\ MemoryHasPolicy'
  BY DEF Deliver, Put, Without, cluster, memory, budget
<1> QED BY <1>1, <1>2, <1>3, <1>4, <1>5

\* A restart forgets everything but what the API server has.
LEMMA CrashHolds ==
    ASSUME IInv, Crash
    PROVE  IInv'
<1> USE ReconcilerAssumption
    DEF IInv, Shapes, MarkedIsFinalized, InSync, CopyHolds, WorkerPresent, WorkerHolds,
        Dying, Cleared, SliceHeld, MemoryHasPolicy, Finalized, SameTarget, Idle, At
<1>1. Shapes' /\ MarkedIsFinalized'
  BY DEF Crash, Empty, cluster, memory, budget
<1>2. InSync' /\ CopyHolds'
  BY DEF Crash, Empty, cluster, memory, budget
<1>3. WorkerPresent' /\ WorkerHolds'
  BY DEF Crash, Empty, cluster, memory, budget
<1>4. Dying' /\ Cleared'
  BY DEF Crash, Empty, cluster, memory, budget
<1>5. SliceHeld' /\ MemoryHasPolicy'
  BY DEF Crash, Empty, cluster, memory, budget
<1> QED BY <1>1, <1>2, <1>3, <1>4, <1>5

\* A new policy has nothing to its name.
LEMMA CreateHolds ==
    ASSUME IInv, NEW p \in Policies, CreatePolicy(p)
    PROVE  IInv'
<1> USE ReconcilerAssumption
    DEF IInv, Shapes, MarkedIsFinalized, InSync, CopyHolds, WorkerPresent, WorkerHolds,
        Dying, Cleared, SliceHeld, MemoryHasPolicy, Finalized, SameTarget, Idle, At
<1>1. Shapes' /\ MarkedIsFinalized'
  BY DEF CreatePolicy, Event, Outdated, Put, cluster, memory, budget
<1>2. InSync' /\ CopyHolds'
  BY DEF CreatePolicy, Event, Outdated, Put, cluster, memory, budget
<1>3. WorkerPresent' /\ WorkerHolds'
  BY DEF CreatePolicy, Event, Outdated, Put, cluster, memory, budget
<1>4. Dying' /\ Cleared'
  BY DEF CreatePolicy, Event, Outdated, Put, cluster, memory, budget
<1>5. SliceHeld' /\ MemoryHasPolicy'
  BY DEF CreatePolicy, Event, Outdated, Put, cluster, memory, budget
<1> QED BY <1>1, <1>2, <1>3, <1>4, <1>5

\* An edit outdates copy and worker.
LEMMA EditHolds ==
    ASSUME IInv, NEW p \in Policies, EditPolicy(p)
    PROVE  IInv'
<1> USE ReconcilerAssumption
    DEF IInv, Shapes, MarkedIsFinalized, InSync, CopyHolds, WorkerPresent, WorkerHolds,
        Dying, Cleared, SliceHeld, MemoryHasPolicy, Finalized, SameTarget, Idle, At
<1>1. Shapes' /\ MarkedIsFinalized'
  BY DEF EditPolicy, Event, Outdated, cluster, memory, budget
<1>2. InSync' /\ CopyHolds'
  BY DEF EditPolicy, Event, Outdated, cluster, memory, budget
<1>3. WorkerPresent' /\ WorkerHolds'
  BY DEF EditPolicy, Event, Outdated, cluster, memory, budget
<1>4. Dying' /\ Cleared'
  BY DEF EditPolicy, Event, Outdated, cluster, memory, budget
<1>5. SliceHeld' /\ MemoryHasPolicy'
  BY DEF EditPolicy, Event, Outdated, cluster, memory, budget
<1> QED BY <1>1, <1>2, <1>3, <1>4, <1>5

\* A policy that disappears at once never had a finalizer, so nothing is held by it.
LEMMA DeleteHolds ==
    ASSUME IInv, NEW p \in Policies, DeletePolicy(p)
    PROVE  IInv'
<1> USE ReconcilerAssumption
    DEF IInv, Shapes, MarkedIsFinalized, InSync, CopyHolds, WorkerPresent, WorkerHolds,
        Dying, Cleared, SliceHeld, MemoryHasPolicy, Finalized, SameTarget, Idle, At
<1>1. Shapes' /\ MarkedIsFinalized'
  BY DEF DeletePolicy, Event, Outdated, Without, cluster, memory, budget
<1>2. InSync' /\ CopyHolds'
  BY DEF DeletePolicy, Event, Outdated, Without, cluster, memory, budget
<1>3. WorkerPresent' /\ WorkerHolds'
  BY DEF DeletePolicy, Event, Outdated, Without, cluster, memory, budget
<1>4. Dying' /\ Cleared'
  BY DEF DeletePolicy, Event, Outdated, Without, cluster, memory, budget
<1>5. SliceHeld' /\ MemoryHasPolicy'
  BY DEF DeletePolicy, Event, Outdated, Without, cluster, memory, budget
<1> QED BY <1>1, <1>2, <1>3, <1>4, <1>5

\* What is left: nothing the invariant speaks of changes, or a slice goes away.
LEMMA FewerSlicesHolds ==
    ASSUME IInv, UNCHANGED <<policy, cache, fresh, worker, dampeners>>,
           DOMAIN breakers' = DOMAIN breakers,
           slices' = slices \/ \E s : slices' = Without(slices, s)
    PROVE  IInv'
<1> USE DEF IInv, Finalized, SameTarget, Idle
<1>1. /\ DOMAIN slices' \subseteq DOMAIN slices
      /\ \A s \in DOMAIN slices' : slices'[s] = slices[s]
  BY DEF Without
<1>2. Shapes' /\ MarkedIsFinalized' /\ InSync' /\ CopyHolds'
  BY <1>1 DEF Shapes, MarkedIsFinalized, InSync, CopyHolds
<1>3. WorkerPresent' /\ WorkerHolds' /\ Dying' /\ Cleared'
  BY <1>1 DEF WorkerPresent, WorkerHolds, Dying, Cleared
<1>4. SliceHeld' /\ MemoryHasPolicy'
  BY <1>1 DEF SliceHeld, MemoryHasPolicy
<1> QED BY <1>2, <1>3, <1>4

-----------------------------------------------------------------------------
\* Every step, of the worker, the cluster or a user, keeps the invariant.
LEMMA NextHolds == IInv /\ [Next]_vars => IInv'
<1> SUFFICES ASSUME IInv, [Next]_vars PROVE IInv'
  OBVIOUS
<1>1. CASE Reconcile
  BY <1>1, FetchHolds, AddFinalizerHolds, ObserveHolds, EvaluateHolds, WriteSliceHolds,
     UpdateStatusHolds, CleanupHolds, RemoveFinalizerHolds DEF Reconcile
<1>2. CASE \E p \in Policies : Deliver(p)
  BY <1>2, DeliverHolds
<1>3. CASE Crash
  BY <1>3, CrashHolds
<1>4. CASE \E p \in Policies : CreatePolicy(p) \/ EditPolicy(p) \/ DeletePolicy(p)
  BY <1>4, CreateHolds, EditHolds, DeleteHolds
<1>5. CASE \E s \in Services : CollectGarbage(s) \/ ToggleService(s) \/ LoseSlice(s)
  BY <1>5, FewerSlicesHolds DEF CollectGarbage, ToggleService, LoseSlice, memory, cluster
<1>6. CASE \E ip \in PodIP : TogglePod(ip) \/ AssignIP(ip) \/ ChangeLatency(ip)
  BY <1>6, FewerSlicesHolds DEF TogglePod, AssignIP, ChangeLatency, memory
<1>7. CASE Tick
  BY <1>7, FewerSlicesHolds DEF Tick
<1>8. CASE UNCHANGED vars
  BY <1>8, FewerSlicesHolds DEF vars, memory
<1> QED
  BY <1>1, <1>2, <1>3, <1>4, <1>5, <1>6, <1>7, <1>8 DEF Next, Environment

\* The invariant holds of every behaviour.
LEMMA Invariant == Spec => []IInv
  BY InitHolds, NextHolds, PTL DEF Spec

-----------------------------------------------------------------------------
(* What follows.                                                           *)

\* While targets are not edited, the slices that Manager.Reconcile wrote belong, by
\* label and by owner reference, to policies that exist with their finalizer.
THEOREM NoOrphanSlice == Spec => []SliceHasPolicy
<1>1. IInv => SliceHasPolicy
  BY DEF IInv, SliceHeld, SliceHasPolicy
<1> QED BY <1>1, Invariant, PTL

\* The maps breakers and dampeners of the reconciler have entries only of policies
\* that exist with their finalizer, whether or not targets are edited.
THEOREM NoOrphanMemory == Spec => []MemoryHasPolicy
<1>1. IInv => MemoryHasPolicy
  BY DEF IInv
<1> QED BY <1>1, Invariant, PTL

\* A reconcile loses sight of an existing policy only when the target Service is not
\* found (the one return of Reconcile without RequeueAfter for a policy that stays).
THEOREM NoPolicyForgotten == Spec => DroppedOnlyWithoutService
<1> DEFINE Dropped(p) == Attended(p) /\ ~Attended(p)'
<1>1. ASSUME IInv, [Next]_vars, NEW p \in DOMAIN policy', Dropped(p)
      PROVE  At("observe") /\ Target \notin service
  <2> USE DEF Attended
  <2>1. ~UNCHANGED vars
    BY <1>1 DEF vars
  <2>2. ~\E q \in Policies : Fetch(q)
    <3> SUFFICES ASSUME NEW q \in Policies, Fetch(q) PROVE FALSE
      OBVIOUS
    <3>1. p \in Policies /\ worker.key # p /\ p \in DOMAIN policy /\ p \in fresh
      BY <1>1, ReconcilerAssumption DEF Fetch, At, IInv, Shapes
    <3>2. p = q /\ p \in DOMAIN cache /\ (cache[p].deleting => cache[p].finalizer)
      BY <1>1, <3>1 DEF Fetch, IInv, MarkedIsFinalized, InSync
    <3>3. worker'.key = p
      BY <3>2 DEF Fetch, Idle
    <3> QED BY <1>1, <3>3
  <2>3. ~(AddFinalizer \/ WriteSlice \/ UpdateStatus \/ Cleanup)
    BY <1>1 DEF AddFinalizer, WriteSlice, UpdateStatus, Cleanup, TryStatus, FreshAfter,
                Fault, Again, IInv, Shapes
  <2>4. ~Evaluate
    BY <1>1 DEF Evaluate, Decide, TryStatus, FreshAfter, Fault, Again, IInv, Shapes
  <2>5. ~RemoveFinalizer
    BY <1>1 DEF RemoveFinalizer, Vanish, Without, Done, Again
  <2>6. ~Crash /\ ~Tick
    BY <1>1 DEF Crash, Tick
  <2>7. ~\E q \in Policies : Deliver(q) \/ CreatePolicy(q) \/ EditPolicy(q) \/ DeletePolicy(q)
    BY <1>1 DEF Deliver, CreatePolicy, EditPolicy, DeletePolicy, Outdated, IInv, Shapes
  <2>8. ~\E s \in Services : CollectGarbage(s) \/ ToggleService(s) \/ LoseSlice(s)
    BY <1>1 DEF CollectGarbage, ToggleService, LoseSlice
  <2>9. ~\E ip \in PodIP : TogglePod(ip) \/ AssignIP(ip) \/ ChangeLatency(ip)
    BY <1>1 DEF TogglePod, AssignIP, ChangeLatency
  <2>10. Observe
    BY <1>1, <2>1, <2>2, <2>3, <2>4, <2>5, <2>6, <2>7, <2>8, <2>9
    DEF Next, Reconcile, Environment
  <2> QED
    BY <1>1, <2>10 DEF Observe, Done, Again, TryStatus, FreshAfter, Fault, IInv, Shapes
<1>2. IInv /\ [Next]_vars =>
         [\A p \in DOMAIN policy' :
             Attended(p) /\ ~Attended(p)' => At("observe") /\ Target \notin service]_vars
  BY <1>1
<1> QED BY <1>2, Invariant, PTL DEF Spec, DroppedOnlyWithoutService

-----------------------------------------------------------------------------
(* The controller implements the lifecycle that the finalizer promises.    *)

\* Nothing of what a step leaves alone, or of a status or a spec, is a phase.
LEMMA SamePhase ==
    ASSUME IInv, NEW q,
           \/ policy' = policy
           \/ \E st : policy' = [policy EXCEPT ![q].status = st]
           \/ \E sp : policy' = [policy EXCEPT ![q].spec = sp]
    PROVE  \A p \in Policies : Phase(p)' = Phase(p)
  BY DEF Phase, IInv, Shapes

\* A step that changes no phase is work for policies that are held.
LEMMA WorkMaps ==
    ASSUME IInv', ~Retarget, \A p \in Policies : Phase(p)' = Phase(p)
    PROVE  Lifecycle!Work
<1>1. \A p \in Kept' : Phase(p)' \in {"held", "dying"}
  BY DEF Kept, Phase, IInv, SliceHeld, MemoryHasPolicy, Finalized
<1>2. Kept' \subseteq Policies
  BY DEF Kept
<1> QED BY <1>1, <1>2 DEF Lifecycle!Work

\* One policy takes a step of its own, and what is kept stays the same.
LEMMA MoveMaps ==
    ASSUME NEW p \in Policies, NEW from, NEW to,
           Phase(p) = from, Phase(p)' = to,
           \A q \in Policies \ {p} : Phase(q)' = Phase(q)
    PROVE  Lifecycle!Move(p, from, to)
  BY DEF Lifecycle!Move

\* The steps of the worker that write the policy object: the finalizer goes on, and
\* comes off when neither slice nor memory is left.
LEMMA FinalizerMaps ==
    ASSUME IInv, IInv', ~Retarget, AddFinalizer \/ RemoveFinalizer
    PROVE  Lifecycle!Next
<1>1. CASE policy' = policy
  BY <1>1, SamePhase, WorkMaps DEF Lifecycle!Next
<1>2. CASE AddFinalizer /\ policy' # policy
  <2>1. PICK p \in Policies : p = worker.key
    BY <1>2 DEF AddFinalizer, At, IInv, Shapes
  <2>2. p \in DOMAIN policy /\ policy' = [policy EXCEPT ![p].finalizer = TRUE]
    BY <1>2, <2>1 DEF AddFinalizer, IInv, WorkerPresent
  <2>3. CASE policy[p].finalizer
    <3>1. \A q \in Policies : Phase(q)' = Phase(q)
      BY <2>2, <2>3 DEF Phase, IInv, Shapes
    <3> QED BY <3>1, WorkMaps DEF Lifecycle!Next
  <2>4. CASE ~policy[p].finalizer
    <3>1. /\ Phase(p) = "new" /\ Phase(p)' = "held"
          /\ \A q \in Policies \ {p} : Phase(q)' = Phase(q)
      BY <2>2, <2>4 DEF Phase, IInv, Shapes, MarkedIsFinalized
    <3>2. Kept' = Kept
      BY <1>2 DEF AddFinalizer, Kept, memory
    <3> QED BY <3>1, <3>2, MoveMaps DEF Lifecycle!Next, Lifecycle!Hold
  <2> QED BY <2>3, <2>4
<1>3. CASE RemoveFinalizer /\ policy' # policy
  <2>1. PICK p \in Policies : p = worker.key
    BY <1>3 DEF RemoveFinalizer, At, IInv, Shapes
  <2>2. /\ At("removeFinalizer") /\ worker.fresh /\ Vanish(p)
        /\ UNCHANGED <<breakers, dampeners>>
    BY <1>3, <2>1 DEF RemoveFinalizer, memory
  <2>3. p \in DOMAIN policy /\ policy[p].deleting /\ policy[p].spec = worker.spec
    BY <2>1, <2>2 DEF At, IInv, WorkerPresent, Dying
  <2>4. \A s \in DOMAIN slices : p \notin {slices[s].policyName, slices[s].owner}
    BY <2>2, <2>3 DEF At, IInv, Cleared, SliceHeld
  <2>5. p \notin DOMAIN breakers \cup DOMAIN dampeners
    BY <2>1, <2>2 DEF At, IInv, Cleared
  <2>6. /\ DOMAIN slices' = DOMAIN slices
        /\ \A s \in DOMAIN slices : slices'[s] = slices[s]
    BY <2>2, <2>4 DEF Vanish
  <2>7. Kept' = Kept /\ p \notin Kept
    BY <2>2, <2>4, <2>5, <2>6 DEF Kept
  <2>8. /\ Phase(p) = "dying" /\ Phase(p)' = "absent"
        /\ \A q \in Policies \ {p} : Phase(q)' = Phase(q)
    BY <2>2, <2>3 DEF Vanish, Without, Phase
  <2> QED BY <2>7, <2>8, MoveMaps DEF Lifecycle!Next, Lifecycle!LetGo
<1> QED BY <1>1, <1>2, <1>3

\* Users create policies and delete them, with or without a finalizer to wait for.
LEMMA UserMaps ==
    ASSUME IInv, NEW p \in Policies, CreatePolicy(p) \/ DeletePolicy(p)
    PROVE  Lifecycle!Next
<1>1. Kept' = Kept
  BY DEF CreatePolicy, DeletePolicy, Kept, memory
<1>2. CASE CreatePolicy(p)
  <2>1. /\ Phase(p) = "absent" /\ Phase(p)' = "new"
        /\ \A q \in Policies \ {p} : Phase(q)' = Phase(q)
    BY <1>2 DEF CreatePolicy, Put, Phase
  <2> QED BY <1>1, <2>1, MoveMaps DEF Lifecycle!Next, Lifecycle!Create
<1>3. CASE DeletePolicy(p)
  <2>1. /\ \A q \in Policies \ {p} : Phase(q)' = Phase(q)
        /\ \/ Phase(p) = "new" /\ Phase(p)' = "absent"
           \/ Phase(p) = "held" /\ Phase(p)' = "dying"
    BY <1>3 DEF DeletePolicy, Without, Phase, IInv, Shapes
  <2> QED BY <1>1, <2>1, MoveMaps DEF Lifecycle!Next, Lifecycle!Delete
<1> QED BY <1>2, <1>3

\* Every step of the system is a step of the lifecycle.
LEMMA StepMaps ==
    ASSUME IInv, IInv', ~Retarget, [Next]_vars
    PROVE  Lifecycle!Next
<1>1. CASE \E p \in Policies : CreatePolicy(p) \/ DeletePolicy(p)
  BY <1>1, UserMaps
<1>2. CASE AddFinalizer \/ RemoveFinalizer
  BY <1>2, FinalizerMaps
<1>3. CASE Observe \/ Evaluate \/ WriteSlice \/ UpdateStatus
  <2>1. policy' = policy \/ \E st : policy' = [policy EXCEPT ![worker.key].status = st]
    BY <1>3 DEF Observe, Evaluate, WriteSlice, UpdateStatus, TryStatus
  <2> QED BY <2>1, SamePhase, WorkMaps DEF Lifecycle!Next
<1>4. CASE \E p \in Policies : EditPolicy(p)
  BY <1>4, SamePhase, WorkMaps DEF EditPolicy, Lifecycle!Next
<1>5. CASE policy' = policy
  BY <1>5, SamePhase, WorkMaps DEF Lifecycle!Next
<1>6. CASE (\E p \in Policies : Fetch(p) \/ Deliver(p)) \/ Cleanup \/ Crash \/ Tick
  BY <1>5, <1>6 DEF Fetch, Deliver, Cleanup, Crash, Tick
<1>7. CASE \/ \E s \in Services : CollectGarbage(s) \/ ToggleService(s) \/ LoseSlice(s)
           \/ \E ip \in PodIP : TogglePod(ip) \/ AssignIP(ip) \/ ChangeLatency(ip)
           \/ UNCHANGED vars
  BY <1>5, <1>7 DEF CollectGarbage, ToggleService, LoseSlice, TogglePod, AssignIP,
                     ChangeLatency, vars
<1> QED
  BY <1>1, <1>2, <1>3, <1>4, <1>6, <1>7 DEF Next, Reconcile, Environment

\* Reconcile and handleDeletion, with the cache, the conflicts, the retries and the
\* restarts they meet, implement the promise of the finalizer (PolicyLifecycle), if
\* nobody edits targetRef.
THEOREM FinalizerKeepsItsPromise ==
    ASSUME ~Retarget
    PROVE  Spec => ImplementsLifecycle
<1>1. Init => Lifecycle!Init
  BY DEF Init, Empty, Lifecycle!Init, Phase, Kept
<1>2. IInv /\ IInv' /\ [Next]_vars => [Lifecycle!Next]_(Lifecycle!vars)
  BY StepMaps
<1> QED
  BY <1>1, <1>2, Invariant, PTL DEF Spec, ImplementsLifecycle, Lifecycle!Spec

=============================================================================
