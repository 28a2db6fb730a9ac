------------------------------ MODULE SeatSale ------------------------------
(***************************************************************************)
(* What a caller can rely on, without tables, clocks or transactions: each *)
(* leg of a seat is free, held or booked, exactly as the seat map shows    *)
(* it, and each hold reference goes through its life once.  SeatLedger     *)
(* implements this, and EngineTxn implements SeatLedger.                   *)
(***************************************************************************)
CONSTANTS
  Rows,         \* the seat legs on sale
  Refs,         \* hold references
  Nobody        \* the leg is not held

VARIABLES
  status,       \* leg -> what the seat map shows
  holder,       \* leg -> the hold that has it, while it is held
  phase         \* hold reference -> where it is in its life

vars == <<status, holder, phase>>

\* The legs that the holds H have now.
HeldBy(H) == {r \in Rows : holder[r] \in H}

\* The legs S change their status and are held by h, or by nobody.
Becomes(S, st, h) ==
  /\ status' = [r \in Rows |-> IF r \in S THEN st ELSE status[r]]
  /\ holder' = [r \in Rows |-> IF r \in S THEN h ELSE holder[r]]

\* The holds H leave one phase of their life for the next.
Moves(H, from, to) ==
  /\ \A h \in H : phase[h] = from
  /\ phase' = [h \in Refs |-> IF h \in H THEN to ELSE phase[h]]

Init ==
  /\ status = [r \in Rows |-> "free"]
  /\ holder = [r \in Rows |-> Nobody]
  /\ phase = [h \in Refs |-> "new"]

\* A hold takes all the legs it asks for, and only free ones.
Take(h, S) ==
  /\ \A r \in S : status[r] = "free"
  /\ Becomes(S, "held", h)
  /\ Moves({h}, "new", "held")

\* A confirm books what its hold still has.
Sell(h) ==
  /\ Becomes(HeldBy({h}), "booked", Nobody)
  /\ Moves({h}, "held", "sold")

\* A release, or the expiry of several holds: what they have becomes free.
Drop(H) ==
  /\ Becomes(HeldBy(H), "free", Nobody)
  /\ Moves(H, "held", "gone")

\* A cancel frees legs, whoever has them; the holds stay as they are.
Clear(S) ==
  /\ Becomes(S, "free", Nobody)
  /\ UNCHANGED phase

\* The records of sold holds are removed; the legs stay booked.
Forget(H) ==
  /\ Moves(H, "sold", "gone")
  /\ UNCHANGED <<status, holder>>

Next ==
  \/ \E h \in Refs, S \in SUBSET Rows : Take(h, S)
  \/ \E h \in Refs : Sell(h)
  \/ \E H \in SUBSET Refs : Drop(H) \/ Forget(H)
  \/ \E S \in SUBSET Rows : Clear(S)

Spec == Init /\ [][Next]_vars

=============================================================================
