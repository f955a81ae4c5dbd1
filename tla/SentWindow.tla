----------------------------- MODULE SentWindow -----------------------------
(***************************************************************************)
(* What the log of sent transmission keys promises its device when one     *)
(* thread writes it: the keys it recognises are the latest ones logged, in *)
(* order, and logging one more forgets the oldest, and only the oldest,    *)
(* once the log is full.  Module LastSent is shown to implement it.        *)
(***************************************************************************)
EXTENDS Naturals, Sequences

CONSTANTS Keys,   \* transmission keys
          Size    \* NUM_LAST_SENT_ARRAY_SIZE

VARIABLE window   \* the keys recognised, oldest first

Init == window = <<>>

(* Room is made for the next key only when there is none.                  *)
Forget ==
  /\ Len(window) = Size
  /\ window' = Tail(window)

Remember(k) ==
  /\ Len(window) < Size
  /\ window' = Append(window, k)

Next == Forget \/ \E k \in Keys : Remember(k)

Spec == Init /\ [][Next]_window
=============================================================================
