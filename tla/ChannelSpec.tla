---------------------------- MODULE ChannelSpec ----------------------------
(***************************************************************************)
(* What a thread.channel promises to the program: a first-in first-out     *)
(* pipe.  A value that send accepts is handed to exactly one receiver, in  *)
(* the order of acceptance; a bounded channel never holds more than its    *)
(* capacity; a closed channel accepts nothing more but can be drained.     *)
(***************************************************************************)
EXTENDS Naturals, Sequences

CONSTANT Values

VARIABLES
  capacity,   \* 0: unbounded
  accepted,   \* values send has accepted, in order
  delivered,  \* values taken out by recv and tryrecv, in order
  closed

specVars == <<capacity, accepted, delivered, closed>>

Held == Len(accepted) - Len(delivered)

Init ==
  /\ capacity \in Nat
  /\ accepted = <<>>
  /\ delivered = <<>>
  /\ closed = FALSE

Send(v) ==
  /\ ~closed
  /\ capacity > 0 => Held < capacity
  /\ accepted' = Append(accepted, v)
  /\ UNCHANGED <<capacity, delivered, closed>>

Receive ==
  /\ Held > 0
  /\ delivered' = Append(delivered, accepted[Len(delivered) + 1])
  /\ UNCHANGED <<capacity, accepted, closed>>

Close ==
  /\ closed' = TRUE
  /\ UNCHANGED <<capacity, accepted, delivered>>

Next == (\E v \in Values : Send(v)) \/ Receive \/ Close

Spec == Init /\ [][Next]_specVars
============================================================================
