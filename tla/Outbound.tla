------------------------------ MODULE Outbound ------------------------------
(***************************************************************************)
(* What a client promises about the bytes it sends: packets appear on the  *)
(* wire in the order they were accepted, each once and without gaps, until *)
(* one write fails; a failed write may leave part of its packet behind and *)
(* is the last.                                                            *)
(***************************************************************************)
EXTENDS Integers, Sequences

VARIABLES accepted, wire, broken

Init == accepted = 0 /\ wire = <<>> /\ broken = FALSE

Accept ==
  /\ accepted' = accepted + 1
  /\ UNCHANGED <<wire, broken>>

Deliver(whole) ==
  /\ ~broken
  /\ Len(wire) < accepted
  /\ wire' = Append(wire, [id |-> Len(wire) + 1, whole |-> whole])
  /\ broken' = ~whole
  /\ UNCHANGED accepted

\* A write fails without a trace, or the client is closed.
Break ==
  /\ ~broken
  /\ broken' = TRUE
  /\ UNCHANGED <<accepted, wire>>

Next == Accept \/ (\E whole \in BOOLEAN : Deliver(whole)) \/ Break

Spec == Init /\ [][Next]_<<accepted, wire, broken>>
=============================================================================
