---------------------------- MODULE PolicyLifecycle ----------------------------
(***************************************************************************)
(* What the finalizer of a policy promises its user, without a word on     *)
(* caches, queues, conflicts or restarts: the controller takes hold of a   *)
(* policy before it keeps anything for it, and lets a deleted policy go    *)
(* only when it keeps nothing for it any more.                             *)
(***************************************************************************)
CONSTANTS Policies

VARIABLES phase,         \* of each policy: absent, new, held or dying
          keeps          \* the policies for which a slice or memory is kept

vars == <<phase, keeps>>

Init == phase = [p \in Policies |-> "absent"] /\ keeps = {}

Move(p, from, to) == phase[p] = from /\ phase' = [phase EXCEPT ![p] = to]

Create(p) == Move(p, "absent", "new") /\ UNCHANGED keeps

\* The finalizer goes on.
Hold(p) == Move(p, "new", "held") /\ UNCHANGED keeps

Delete(p) == /\ Move(p, "new", "absent") \/ Move(p, "held", "dying")
             /\ UNCHANGED keeps

\* Something is made or dropped, only ever for policies that are held or dying.
Work == /\ keeps' \subseteq keeps \cup {p \in Policies : phase[p] \in {"held", "dying"}}
        /\ UNCHANGED phase

\* The finalizer comes off.
LetGo(p) == p \notin keeps /\ Move(p, "dying", "absent") /\ UNCHANGED keeps

Next == Work \/ \E p \in Policies : Create(p) \/ Hold(p) \/ Delete(p) \/ LetGo(p)

Spec == Init /\ [][Next]_vars

=============================================================================
