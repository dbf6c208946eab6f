---------------------------- MODULE GoodsLedger ------------------------------
(***************************************************************************)
(* What warehouse movements promise, whatever happens to the requests that *)
(* make them: goods leave a shelf that has them, what left a shelf for     *)
(* another lands on one shelf of the same material, once and in full, or   *)
(* is still on the road.  Nothing else changes a shelf but goods issued    *)
(* for good, goods delivered and a stocktaking.                            *)
(***************************************************************************)
EXTENDS Integers

CONSTANTS
  Shelf,      \* pairs of a warehouse and a material
  Carrier,    \* whoever may have goods on the road
  Quantity,   \* quantities that may leave a shelf at once
  Incoming,   \* quantities that may be delivered at once
  Counts      \* quantities a stocktaking may find

VARIABLES
  onShelf,    \* quantity on each shelf
  known,      \* shelves that ever had an entry: the others may be overdrawn
  road        \* what each carrier has: <<>>, or <<shelf it came from, quantity>>

ledgerVars == <<onShelf, known, road>>

Init ==
  /\ onShelf \in [Shelf -> Int]
  /\ known \in SUBSET Shelf
  /\ road = [c \in Carrier |-> <<>>]

Take(l, q) ==
  /\ l \notin known \/ onShelf[l] - q >= 0
  /\ onShelf' = [onShelf EXCEPT ![l] = @ - q]
  /\ known' = known \cup {l}

Depart(c, l, q) ==
  /\ road[c] = <<>>
  /\ Take(l, q)
  /\ road' = [road EXCEPT ![c] = <<l, q>>]

Land(c, l) ==
  /\ road[c] # <<>>
  /\ l[2] = road[c][1][2]
  /\ onShelf' = [onShelf EXCEPT ![l] = @ + road[c][2]]
  /\ known' = known \cup {l}
  /\ road' = [road EXCEPT ![c] = <<>>]

Issue(l, q) == Take(l, q) /\ UNCHANGED road

Deliver(l, q) ==
  /\ onShelf' = [onShelf EXCEPT ![l] = @ + q]
  /\ known' = known \cup {l}
  /\ UNCHANGED road

Count(l, q) ==
  /\ onShelf' = [onShelf EXCEPT ![l] = q]
  /\ known' = known \cup {l}
  /\ UNCHANGED road

Next ==
  \/ \E c \in Carrier, l \in Shelf : Land(c, l) \/ \E q \in Quantity : Depart(c, l, q)
  \/ \E l \in Shelf, q \in Quantity : Issue(l, q)
  \/ \E l \in Shelf, q \in Incoming : Deliver(l, q)
  \/ \E l \in Shelf, q \in Counts : Count(l, q)

Spec == Init /\ [][Next]_ledgerVars

=============================================================================
