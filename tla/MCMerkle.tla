------------------------------- MODULE MCMerkle -------------------------------
(***************************************************************************)
(* A small universe for Merkle: words and depths of one octet, digests of  *)
(* two.  Children are spelled like halves of a leaf's body, and children   *)
(* of one and three octets join to what two of two octets join to.         *)
(***************************************************************************)
EXTENDS Merkle

MCPutUint64(n) == <<n>>

MCDigests  == {<<1, 1>>, <<1, 2>>, <<9, 9>>}
MCTreeIDs  == {0, 1}
MCDepths   == {0, 1, 2}
MCBlobs    == {<<>>, <<1>>, <<2>>, <<1, 2>>, <<2, 1>>}
MCChildren == {<<1>>, <<1, 1>>, <<1, 2>>, <<1, 1, 2>>}
=============================================================================
