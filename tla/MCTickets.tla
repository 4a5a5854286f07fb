------------------------------ MODULE MCTickets ------------------------------
(* Model-checking instances of Tickets: two nodes, two networks, a group of  *)
(* order 3 (so that half keys can cancel out) and widths of a bit or two.    *)
EXTENDS Tickets, TLC

\* A luck that depends on the redeemer, the response and the ticket.
MCLuck(hash, vrf, response, sig) ==
    (response + hash.index + (IF vrf.by = hash.counterparty THEN 0 ELSE 1)) % (MaxLuck + 1)

\* The nodes are interchangeable, and so are the networks.
MCSymmetry == Permutations(Node) \cup Permutations(Separator)
=============================================================================
