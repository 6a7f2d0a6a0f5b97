--------------------------- MODULE AtomicRegister ---------------------------
(***************************************************************************)
(* What durable storage promises its users: a commit either takes effect   *)
(* as a whole or not at all, and power may fail at any moment.             *)
(***************************************************************************)
CONSTANTS Payloads, NoPayload

VARIABLES value,     \* what a reader finds, NoPayload before the first commit
          proposed   \* the commit in progress, or NoPayload

Init == value = NoPayload /\ proposed = NoPayload

Propose == /\ proposed = NoPayload
           /\ proposed' \in Payloads
           /\ UNCHANGED value

Install == /\ proposed # NoPayload
           /\ value' = proposed
           /\ proposed' = NoPayload

Abandon == proposed' = NoPayload /\ UNCHANGED value

Next == Propose \/ Install \/ Abandon

Spec == Init /\ [][Next]_<<value, proposed>>
=============================================================================
