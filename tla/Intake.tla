------------------------------- MODULE Intake -------------------------------
(***************************************************************************)
(* What reading from a peer promises.  The frames of a connection are      *)
(* handed to the workers one by one in the order the peer sent them.       *)
(* Frames are skipped only when the connection is broken: it has ended, or *)
(* the peer has sent something on it that the reader throws away.  A new   *)
(* connection starts with nothing of the one before.                       *)
(*                                                                         *)
(* Framer implements this with bytes and slices, DiamConn with whole       *)
(* frames: its step ReadSome may say "the next n frames" because of that.  *)
(***************************************************************************)
EXTENDS Integers, Sequences

VARIABLES
  sent,     \* number of frames sent, which are numbered from 1
  waiting,  \* frames of this connection that have not been handed on
  handed,   \* frames that have been handed on
  broken    \* whether the connection is

vars == <<sent, waiting, handed, broken>>

Init ==
  /\ sent = 0
  /\ waiting = <<>>
  /\ handed = {}
  /\ broken \in BOOLEAN

\* The peer sends a frame, which may be one that breaks the connection.
Send ==
  /\ sent' = sent + 1
  /\ waiting' = Append(waiting, sent')
  /\ broken => broken'
  /\ UNCHANGED handed

Hand ==
  /\ waiting # <<>>
  /\ handed' = handed \union {Head(waiting)}
  /\ waiting' = Tail(waiting)
  /\ UNCHANGED <<sent, broken>>

\* On a broken connection the first or the last of the frames may get lost.
Lose ==
  /\ broken'
  /\ \E i, j \in 0..Len(waiting) : waiting' = SubSeq(waiting, i + 1, j)
  /\ UNCHANGED <<sent, handed>>

Reconnect ==
  /\ broken /\ ~broken'
  /\ waiting' = <<>>
  /\ UNCHANGED <<sent, handed>>

Next == Send \/ Hand \/ Lose \/ Reconnect

Spec == Init /\ [][Next]_vars
=============================================================================
