---------------------------- MODULE LinkService ----------------------------
(***************************************************************************)
(* What the data link promises to its clients. Packets 1, 2, ... are       *)
(* submitted one at a time; a submission is confirmed or fails. Packets    *)
(* are delivered in order, only ones later than every confirmed one. At    *)
(* most one delivery is unanswered at a time: while the receiver is ahead  *)
(* nothing is delivered, and only then can a submission be confirmed.      *)
(*                                                                         *)
(* A confirmation does not name its packet: after a failed submission it   *)
(* may be the late answer to an earlier one.                               *)
(*                                                                         *)
(* There are no frames, numbers, retransmissions, sides or line here.      *)
(***************************************************************************)
EXTENDS Naturals, Sequences

VARIABLES
  at_most_once, \* is every packet delivered at most once? It is when the
                \* receiver can send all its answers; this never changes
  submitted,   \* how many packets were submitted
  outstanding, \* is the last one neither confirmed nor failed?
  delivered,   \* the packets delivered
  confirmed,   \* the packets confirmed
  ahead        \* has the receiver answered a delivery that was not yet taken
               \* for the answer to a submission?

vars == <<at_most_once, submitted, outstanding, delivered, confirmed, ahead>>

Init ==
  /\ at_most_once \in BOOLEAN
  /\ submitted = 0
  /\ outstanding = FALSE
  /\ delivered = <<>>
  /\ confirmed = {}
  /\ ahead = FALSE

\* The submission may fail at once.
Submit ==
  /\ ~outstanding
  /\ submitted' = submitted + 1
  /\ outstanding' \in BOOLEAN
  /\ UNCHANGED <<at_most_once, delivered, confirmed, ahead>>

Deliver(k) ==
  /\ k \in 1..submitted
  /\ ~ahead
  /\ \A c \in confirmed : c < k
  /\ \A i \in DOMAIN delivered : IF at_most_once THEN delivered[i] < k ELSE delivered[i] <= k
  /\ delivered' = Append(delivered, k)
  /\ ahead' \in BOOLEAN
  /\ at_most_once => ahead'
  /\ UNCHANGED <<at_most_once, submitted, outstanding, confirmed>>

Confirm ==
  /\ outstanding
  /\ ahead
  /\ confirmed' = confirmed \cup {submitted}
  /\ outstanding' = FALSE
  /\ ahead' = FALSE
  /\ UNCHANGED <<at_most_once, submitted, delivered>>

Fail ==
  /\ outstanding
  /\ outstanding' = FALSE
  /\ UNCHANGED <<at_most_once, submitted, delivered, confirmed, ahead>>

Next == Submit \/ Confirm \/ Fail \/ \E k \in 1..submitted : Deliver(k)

Spec == Init /\ [][Next]_vars
=============================================================================
