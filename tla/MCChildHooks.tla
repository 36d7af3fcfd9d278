----------------------------- MODULE MCChildHooks -----------------------------
(* A child, two more processes and one secret, as long as the lower or the
   higher threshold. *)
EXTENDS ChildHooks, TLC

CONSTANTS key, root, p1, p2

MCLengths  == {[n \in Names |-> l] : l \in {4, 8}}
MCSettings == {[child_process |-> m, dns |-> m] : m \in {"block", "warn", "off"}}

Symmetry == Permutations({p1, p2})

===============================================================================
