----------------------------- MODULE ByteStream -----------------------------
(***************************************************************************)
(* What one direction of the JTAG UART promises: a bounded, lossless,      *)
(* ordered stream of characters.  Characters are identified by their       *)
(* position in the stream, so "lossless and ordered" is that the consumer  *)
(* holds exactly 1, 2, ..., k.                                             *)
(***************************************************************************)
EXTENDS Naturals, Sequences

CONSTANT Capacity     \* characters the stream can hold between its two ends

VARIABLES accepted,   \* how many characters the stream has taken
          delivered   \* the characters handed out, in order

streamVars == <<accepted, delivered>>

InFlight == accepted - Len(delivered)

Init == accepted = 0 /\ delivered = <<>>

\* The producer hands over n more characters, if they fit.
Accept == \E n \in 1..Capacity :
    /\ accepted + n <= Len(delivered) + Capacity
    /\ accepted' = accepted + n
    /\ UNCHANGED delivered

\* The consumer gets the next n characters.
Deliver == \E n \in 1..InFlight :
    /\ delivered' = delivered \o [i \in 1..n |-> Len(delivered) + i]
    /\ UNCHANGED accepted

Next == Accept \/ Deliver

Spec == Init /\ [][Next]_streamVars

\* A stream that also never strands a character.
LiveSpec == Spec /\ WF_streamVars(Deliver)
=============================================================================
