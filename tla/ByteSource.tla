----------------------------- MODULE ByteSource -----------------------------
(***************************************************************************)
(* What a decoder may expect of a MediaSource of known length: a read      *)
(* hands out bytes of the position, at least one unless the file is at its *)
(* end, or fails for good; a seek moves the position; every read returns.  *)
(* A byte is the position it was taken from.                               *)
(***************************************************************************)
EXTENDS Naturals, Sequences

CONSTANT FileLen

VARIABLES
  at,      \* the position of the next byte
  asking,  \* a read has been called and has not returned
  answer,  \* what the last read returned: bytes, or Failed
  broken,  \* every read from now on fails, unless it is at the end
  closed

vars == <<at, asking, answer, broken, closed>>

Failed == <<"failed">>
Stretch(from, n) == [i \in 1 .. n |-> from + i - 1]

Init == at = 0 /\ asking = FALSE /\ answer = <<>> /\ broken = FALSE /\ closed = FALSE

Ask ==
  /\ ~asking /\ ~closed
  /\ asking' = TRUE /\ answer' = <<>>
  /\ UNCHANGED <<at, broken, closed>>

Bytes ==
  /\ asking /\ ~broken
  /\ \E n \in 1 .. FileLen - at : answer' = Stretch(at, n) /\ at' = at + n
  /\ asking' = FALSE
  /\ UNCHANGED <<broken, closed>>

Fail ==
  /\ asking /\ broken
  /\ answer' = Failed /\ asking' = FALSE
  /\ UNCHANGED <<at, broken, closed>>

(* The end is known without asking the network.                            *)
End ==
  /\ asking /\ at = FileLen
  /\ answer' = <<>> /\ asking' = FALSE
  /\ UNCHANGED <<at, broken, closed>>

SeekTo(p) ==
  /\ ~asking /\ ~closed
  /\ at' = p
  /\ UNCHANGED <<asking, answer, broken, closed>>

Break == broken' = TRUE /\ UNCHANGED <<at, asking, answer, closed>>

Close ==
  /\ ~asking
  /\ closed' = TRUE
  /\ UNCHANGED <<at, asking, answer, broken>>

Next == Ask \/ Bytes \/ Fail \/ End \/ Break \/ Close \/ \E p \in 0 .. FileLen : SeekTo(p)

Spec == Init /\ [][Next]_vars /\ WF_vars(Bytes \/ Fail \/ End)
=============================================================================
