---------------------------- MODULE MCConsensus ----------------------------
(***************************************************************************)
(* Finite instances of Consensus.  A block is the sequence of the          *)
(* <<view, payload>> pairs from the genesis (the empty sequence) to it.    *)
(***************************************************************************)
EXTENDS ConsensusInv, SequencesExt

CONSTANTS
  TopView,      \* the highest view a block is built in
  TwinViews,    \* the views in which two blocks on one parent can be built
  SlowViews,    \* the views every replica may time out of
  Lagging,      \* the replicas that may time out of every view,
  MissedViews,  \*   and get no proposal of these
  Restarted     \* the replicas that are restarted once

MCGenesis == <<>>
MCNoBlock == << <<0, 0>> >>   \* view 0 is the genesis alone, so this is no block

(* Certified blocks have views that increase from parent to child            *)
(* (ViewsIncrease), and Send builds on a certified block: the universe is     *)
(* every increasing chain and every block built on one of them.  The payload  *)
(* only matters in that it tells blocks apart.                                *)
Payload(v) == IF v \in TwinViews THEN {0, 1} ELSE {0}
Entries == UNION {{v} \X Payload(v) : v \in 1 .. TopView}
Nth(V, i) == CHOOSE v \in V : Cardinality({w \in V : w <= v}) = i
IncreasingChains ==
  UNION {{[i \in 1 .. Cardinality(V) |-> <<Nth(V, i), f[Nth(V, i)]>>] :
            f \in {g \in [V -> {0, 1}] : \A v \in V : g[v] \in Payload(v)}} :
           V \in SUBSET (1 .. TopView)}
MCBlock == IncreasingChains \cup {Append(c, e) : c \in IncreasingChains, e \in Entries}

MCViewOf == [b \in MCBlock |-> IF b = <<>> THEN 0 ELSE b[Len(b)][1]]
MCParentOf == [b \in MCBlock |-> IF b = <<>> THEN MCNoBlock ELSE Front(b)]
MCAncestors == [b \in MCBlock |-> {SubSeq(b, 1, i) : i \in 0 .. Len(b)}]

MCSlow == (Replica \X SlowViews) \cup (Lagging \X (1 .. TopView - 1))
MCRestarts == [r \in Replica |-> IF r \in Restarted THEN 1 ELSE 0]

LostToLagging == Lagging \X MissedViews

(* Replica 0 misses the first block and is sent it, or the next, by another. *)
LostFirstToo == LostToLagging \cup {<<0, 1>>}
SyncedEarly == {0} \X {1, 2}
AnySynced == Replica \X (1 .. TopView)
=============================================================================
