------------------------------- MODULE Handoff -------------------------------
(***************************************************************************)
(* What the connection promises about everything it is given to pass on:   *)
(* an item that has been accepted is inside, until it comes out exactly    *)
(* once or is given up exactly once.  Nothing comes out that was not       *)
(* accepted, nothing is accepted twice, nothing disappears silently.       *)
(*                                                                         *)
(* The order in which items come out is deliberately not promised: ten     *)
(* goroutines take from each channel.                                      *)
(***************************************************************************)

VARIABLES
  pending,   \* accepted and still inside
  done,      \* came out
  dropped    \* given up

Init ==
  /\ pending = {}
  /\ done = {}
  /\ dropped = {}

Accept ==
  /\ pending \subseteq pending'
  /\ (pending' \ pending) \intersect (done \union dropped) = {}
  /\ UNCHANGED <<done, dropped>>

Complete(x) ==
  /\ pending' = pending \ {x}
  /\ done' = done \union {x}
  /\ UNCHANGED dropped

GiveUp(x) ==
  /\ pending' = pending \ {x}
  /\ dropped' = dropped \union {x}
  /\ UNCHANGED done

Next ==
  \/ Accept
  \/ \E x \in pending : Complete(x) \/ GiveUp(x)

Spec == Init /\ [][Next]_<<pending, done, dropped>>
=============================================================================
