-------------------------------- MODULE Codec --------------------------------
(***************************************************************************)
(* What a reader of DER owes its caller: one answer, and the right one. An *)
(* input is accepted for the value whose encoding it is, octet for octet,  *)
(* and refused only when it is no value's encoding.                        *)
(***************************************************************************)
CONSTANTS Encoding(_),  \* the one spelling of a value
          Values        \* the values that must not be refused

VARIABLES input, verdict

Reading   == [err |-> "reading"]
Refused   == [err |-> "refused"]
Read(v)   == [err |-> "ok", value |-> v]

Encodings == {Encoding(v) : v \in Values}

Init == verdict = Reading

Accept == /\ verdict'.err = "ok"
          /\ verdict' = Read(verdict'.value) /\ Encoding(verdict'.value) = input

Refuse == verdict' = Refused /\ input \notin Encodings

Decide == verdict = Reading /\ (Accept \/ Refuse) /\ UNCHANGED input

Spec == Init /\ [][Decide]_<<input, verdict>>
=============================================================================
