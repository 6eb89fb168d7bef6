--------------------------- MODULE AbstractSettlement ---------------------------
(****************************************************************************)
(* What settlement promises: a set of final transactions that only grows.   *)
(* A step makes a set of transactions final at once.  Each of them has all  *)
(* its parents final already, and no (sender, nonce) slot is ever used by   *)
(* two final transactions.                                                  *)
(****************************************************************************)
CONSTANTS Hash, Slot

VARIABLE final      \* hash -> [slot, parents], for the final transactions

Content == [slot : Slot, parents : SUBSET Hash]

Init == final = [h \in {} |-> 0]

OneperSlot(f) == \A a, b \in DOMAIN f : a # b => f[a].slot # f[b].slot

\* The transactions new in f were not final, their parents all were.
Settle(f) ==
    /\ DOMAIN final \subseteq DOMAIN f
    /\ DOMAIN f \subseteq Hash
    /\ \A h \in DOMAIN final : f[h] = final[h]
    /\ \A h \in DOMAIN f \ DOMAIN final :
          /\ f[h] \in Content
          /\ f[h].parents \subseteq DOMAIN final
    /\ OneperSlot(f)

Next == Settle(final')

Spec == Init /\ [][Next]_final
================================================================================
