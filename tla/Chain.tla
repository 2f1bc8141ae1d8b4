------------------------------- MODULE Chain -------------------------------
(***************************************************************************)
(* Block headers and the tree they form (types/types.proto, types/hash.go).*)
(* A header is identified with its hash: the hash covers every field of    *)
(* the header and is taken to be collision free, so two headers are the    *)
(* same block exactly when their hashes are equal.  A header's View and    *)
(* Parent fields are the functions ViewOf and ParentOf; the payload roots  *)
(* only matter in that they tell blocks apart.                             *)
(***************************************************************************)
EXTENDS Integers, FiniteSets

CONSTANTS
  Block,      \* every header that can be built on the genesis
  Genesis,    \* the block ImportGenesis writes into an empty store
  NoBlock,    \* a nil header, and the parent hash of the genesis
  ViewOf,     \* ViewOf[b]: Header.View
  ParentOf,   \* ParentOf[b]: the block whose hash is Header.Parent
  Ancestors   \* Ancestors[b]: b and every block reached through Parent

ASSUME BlockAssumption ==
  /\ Genesis \in Block
  /\ NoBlock \notin Block
  /\ ViewOf \in [Block -> Nat]
  /\ ViewOf[Genesis] = 0
  /\ \A b \in Block \ {Genesis} : ViewOf[b] > 0

ASSUME ParentAssumption ==
  /\ ParentOf \in [Block -> Block \cup {NoBlock}]
  /\ ParentOf[Genesis] = NoBlock
  /\ \A b \in Block \ {Genesis} : ParentOf[b] \in Block

ASSUME AncestorsAssumption ==
  /\ Ancestors \in [Block -> SUBSET Block]
  /\ Ancestors[Genesis] = {Genesis}
  /\ \A b \in Block : Genesis \in Ancestors[b]
  /\ \A b \in Block \ {Genesis} : Ancestors[b] = {b} \cup Ancestors[ParentOf[b]]

-----------------------------------------------------------------------------
(* Two blocks are on one branch when one of them is an ancestor of the other. *)
SameBranch(a, b) == a \in Ancestors[b] \/ b \in Ancestors[a]
=============================================================================
