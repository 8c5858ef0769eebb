---------------------------- MODULE MediaChannel ----------------------------
(***************************************************************************)
(* What the pipe to mix_coder promises the participants: one queue for all *)
(* of them, in order, each message delivered at most once; a message is    *)
(* left out only when its sender is no participant any more.               *)
(***************************************************************************)
EXTENDS Sequences

CONSTANTS Messages, Sender(_), None

VARIABLES
  queue,         \* messages accepted and not delivered
  delivered,     \* the message delivered last
  participants,  \* senders that have a slot
  broken         \* nothing is delivered any more

vars == <<queue, delivered, participants, broken>>

Init ==
  /\ queue = <<>> /\ delivered = None /\ broken = FALSE
  /\ participants \subseteq {Sender(m) : m \in Messages}

Accept == \E m \in Messages :
  /\ queue' = Append(queue, m)
  /\ UNCHANGED <<delivered, participants, broken>>

Deliver ==
  /\ queue # <<>> /\ ~broken
  /\ delivered' = Head(queue) /\ queue' = Tail(queue)
  /\ UNCHANGED <<participants, broken>>

LeaveOut ==
  /\ queue # <<>> /\ ~broken
  /\ Sender(Head(queue)) \notin participants
  /\ queue' = Tail(queue)
  /\ UNCHANGED <<delivered, participants, broken>>

(* The message in hand is lost when the channel breaks.                     *)
Break ==
  /\ broken' = TRUE
  /\ queue' \in {queue, IF queue = <<>> THEN queue ELSE Tail(queue)}
  /\ UNCHANGED <<delivered, participants>>

JoinOrLeave ==
  /\ participants' # participants
  /\ UNCHANGED <<queue, delivered, broken>>

Next == Accept \/ Deliver \/ LeaveOut \/ Break \/ JoinOrLeave
Spec == Init /\ [][Next]_vars
=============================================================================
