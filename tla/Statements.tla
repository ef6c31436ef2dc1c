------------------------------ MODULE Statements ------------------------------
(***************************************************************************)
(* What the signed envelope of signed.go promises, with no encodings in    *)
(* it.  Holders of keys make statements, each in one cluster and under one *)
(* purpose; a verifier believes nothing that was not said; a client counts *)
(* a proposal as decided on enough consenters' statements about it.        *)
(***************************************************************************)
EXTENDS Naturals, FiniteSets

CONSTANT Threshold   \* how many consenters' statements decide a proposal: at least one

VARIABLES said,      \* the statements made: [cluster, purpose, key, payload]
          believed,  \* the statements a verifier accepted
          decided    \* [cluster, digest, votes]: votes, the statements counted

Init == said = {} /\ believed = {} /\ decided = {}

(* Some key holders make statements; none is ever taken back. *)
Say == said \subseteq said' /\ UNCHANGED <<believed, decided>>

Believe == /\ believed \subseteq believed'
           /\ believed' \subseteq believed \union said
           /\ UNCHANGED <<said, decided>>

(* Enough different consenters made the statements counted. *)
QuorumOf(d) == /\ d.votes \subseteq said
               /\ \A v \in d.votes : v.cluster = d.cluster
               /\ Cardinality({v.key : v \in d.votes}) >= Threshold

Decide == /\ decided \subseteq decided'
          /\ \A d \in decided' \ decided : QuorumOf(d)
          /\ UNCHANGED <<said, believed>>

Next == Say \/ Believe \/ Decide

Spec == Init /\ [][Next]_<<said, believed, decided>>
=============================================================================
