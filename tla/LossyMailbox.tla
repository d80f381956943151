---------------------------- MODULE LossyMailbox ----------------------------
(***************************************************************************)
(* What a message queue between the two cores promises its users, without  *)
(* saying how it stores anything.  Messages are known by the order they    *)
(* were accepted in: 1, 2, 3, ...                                          *)
(*                                                                         *)
(* The promise is weaker than that of a FIFO channel.  A message that is   *)
(* not picked up before Capacity newer ones were accepted is lost, and a   *)
(* message may be handed out before an older one, but only when the older  *)
(* one was accepted in an earlier lap, a lap being Capacity messages.      *)
(* What is left is firm: nothing is invented, nothing is handed out twice, *)
(* messages of one lap come out in order, and nothing is lost for any      *)
(* other reason than being Capacity messages late.                         *)
(***************************************************************************)
EXTENDS Integers

CONSTANT Capacity   \* how many newer messages a message can wait for

VARIABLES
  accepted,    \* how many messages were accepted so far
  lap_start,   \* how many of them were accepted before the current lap began
  pending,     \* the messages waiting to be picked up
  delivered    \* the messages that were picked up

mailboxVars == <<accepted, lap_start, pending, delivered>>

Init ==
  /\ accepted = 0
  /\ lap_start = 0
  /\ pending = {}
  /\ delivered = {}

\* A new message is always accepted; it evicts the one Capacity older than it.
Accept ==
  /\ accepted' = accepted + 1
  /\ pending' = (pending \cup {accepted + 1}) \ {accepted + 1 - Capacity}
  /\ lap_start' = IF accepted + 1 = lap_start + Capacity THEN accepted + 1
                                                        ELSE lap_start
  /\ UNCHANGED delivered

\* Message n is picked up.  The older messages it leaves behind are all of an
\* earlier lap, and n itself is of the current one.
Deliver(n) ==
  /\ n \in pending
  /\ \A m \in pending : m < n => m <= lap_start /\ lap_start < n
  /\ pending' = pending \ {n}
  /\ delivered' = delivered \cup {n}
  /\ UNCHANGED <<accepted, lap_start>>

Next == Accept \/ \E n \in pending : Deliver(n)

Spec == Init /\ [][Next]_mailboxVars
=============================================================================
