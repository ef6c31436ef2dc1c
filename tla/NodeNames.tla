------------------------------- MODULE NodeNames -------------------------------
(***************************************************************************)
(* What Merkle hashing promises, with no octets in it: a digest is a name. *)
(* Each node has one name, which no other node has, and keeps it.          *)
(***************************************************************************)
CONSTANTS Node, Name

VARIABLE named   \* the names given: [node, name]

Init == named = {}

(* A node asked about for the first time gets a name that is nobody's. *)
Give(r) == /\ r.node \in Node /\ r.name \in Name
           /\ \A s \in named : s.node # r.node /\ s.name # r.name
           /\ named' = named \union {r}

Next == \E r \in named' : Give(r)

Spec == Init /\ [][Next]_named
=============================================================================
