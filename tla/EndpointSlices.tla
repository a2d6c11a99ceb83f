---------------------------- MODULE EndpointSlices ----------------------------
(***************************************************************************)
(* endpointslice.Manager: what it does to the one EndpointSlice, named     *)
(* "aviator-<service>", that it keeps for a Service.  The slices of the    *)
(* cluster are a partial function from the Services that have one.         *)
(***************************************************************************)
EXTENDS Integers

\* f with v at k, and f without k: a map after an assignment and a delete.
Put(f, k, v) == [x \in DOMAIN f \cup {k} |-> IF x = k THEN v ELSE f[x]]
Without(f, k) == [x \in DOMAIN f \ {k} |-> f[x]]

\* Mutant: the slice has no owner reference.
MutantNoOwner(policy, selectedPods) ==
    [endpoints |-> selectedPods, policyName |-> policy, owner |-> {}]

\* buildEndpointSlice: the endpoints, the label that names the policy and the
\* policy object that owns the slice.
buildEndpointSlice(policy, selectedPods) ==
    [endpoints |-> selectedPods, policyName |-> policy, owner |-> policy]

\* Mutant: an existing slice keeps its endpoints.
MutantLabelOnly(slices, policy, service, selectedPods) ==
    LET desired == buildEndpointSlice(policy, selectedPods) IN
    Put(slices, service,
        IF service \in DOMAIN slices
        THEN [slices[service] EXCEPT !.policyName = desired.policyName]
        ELSE desired)

\* Mutant: the slice is named after the policy.
MutantPolicyName(slices, policy, service, selectedPods) ==
    Put(slices, policy, buildEndpointSlice(policy, selectedPods))

\* Manager.Reconcile when every call succeeds: create the slice, or overwrite
\* endpoints and labels of the one that is there and leave its owner.
ReconcileSlice(slices, policy, service, selectedPods) ==
    LET desired == buildEndpointSlice(policy, selectedPods) IN
    Put(slices, service,
        IF service \in DOMAIN slices
        THEN [slices[service] EXCEPT !.endpoints = desired.endpoints,
                                     !.policyName = desired.policyName]
        ELSE desired)

\* Mutant: nothing is deleted.
MutantNoCleanup(slices, service) == slices

\* Manager.Cleanup; a slice that is not there is no error.
CleanupSlice(slices, service) == Without(slices, service)

=============================================================================
