------------------------------ MODULE EgressGate ------------------------------
(***************************************************************************)
(* What an envtrap proxy promises about one outgoing request, whichever    *)
(* handler carries it: request bytes leave in order, and when the request  *)
(* is enforced (network channel in block mode, host not excluded) a prefix *)
(* that contains a complete guarded secret never leaves.                   *)
(*                                                                         *)
(* The promise is deliberately silent about when a request is cut off: the *)
(* gate may close at any moment.                                           *)
(***************************************************************************)
EXTENDS Integers

CONSTANT Parcels    \* the requests: [enforced, length, guarded]

VARIABLES parcel,   \* the request this gate carries
          forwarded,\* number of its bytes handed to the upstream socket
          open      \* FALSE once the tunnel or the exchange is torn down

vars == <<parcel, forwarded, open>>

(* A guarded secret is an interval of byte positions of the request. *)
Leaks(p, k) == p.enforced /\ \E s \in p.guarded : s.last <= k

Init == /\ parcel \in Parcels
        /\ forwarded = 0
        /\ open = TRUE

Forward == /\ open
           /\ \E k \in (forwarded + 1) .. parcel.length :
                 /\ ~Leaks(parcel, k)
                 /\ forwarded' = k
           /\ open' \in BOOLEAN
           /\ UNCHANGED parcel

Close == /\ open
         /\ open' = FALSE
         /\ UNCHANGED <<parcel, forwarded>>

Next == Forward \/ Close

Spec == Init /\ [][Next]_vars

===============================================================================
