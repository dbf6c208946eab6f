------------------------------ MODULE LeaseLock ------------------------------
(***************************************************************************)
(* What the inventory locks promise to the sections they guard: whoever    *)
(* enters a section is alone there, but for callers that have overrun      *)
(* their lease.  Keys, values, attempts and lost replies are not mentioned.*)
(***************************************************************************)
CONSTANTS Section, Caller

VARIABLES
  inside,     \* pairs of a caller and the section it is in
  overrun     \* callers inside that have stayed longer than their lease

leaseVars == <<inside, overrun>>

Init == inside = {} /\ overrun = {}

Enter(c, s) ==
  /\ \A t \in Section : <<c, t>> \notin inside
  /\ \A d \in Caller \ overrun : <<d, s>> \notin inside
  /\ inside' = inside \cup {<<c, s>>}
  /\ UNCHANGED overrun

\* By releasing the lock, or by dying.
Leave(c) ==
  /\ inside' = {p \in inside : p[1] # c}
  /\ overrun' = overrun \ {c}

Overrun(c) ==
  /\ \E s \in Section : <<c, s>> \in inside
  /\ overrun' = overrun \cup {c}
  /\ UNCHANGED inside

Next == \E c \in Caller : Leave(c) \/ Overrun(c) \/ \E s \in Section : Enter(c, s)

Spec == Init /\ [][Next]_leaseVars

=============================================================================
