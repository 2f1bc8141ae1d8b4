---------------------------- MODULE ConsensusInv ----------------------------
(***************************************************************************)
(* The inductive invariant behind the safety properties of Consensus.      *)
(*                                                                         *)
(* Its local part is about one replica and a set M of messages: inside a   *)
(* handler M is what is on the network together with what the handler has  *)
(* already sent, between steps it is msgs.  Its global part is about the    *)
(* signatures on the network.                                              *)
(***************************************************************************)
EXTENDS Consensus

SignersIn(M, b) == {q \in Replica : VoteMsg(b, q) \in M}
CertifiedIn(M, b) == b = Genesis \/ Cardinality(SignersIn(M, b)) >= Majority

(* Blocks that end three of consecutive views, the first of which they decide. *)
ThreeChains ==
  {p \in Block : ParentOf[p] \in Block /\ ParentOf[ParentOf[p]] \in Block /\ NoGaps(p)}
Decided(p) == ParentOf[ParentOf[p]]

-----------------------------------------------------------------------------
(* What the tags and buckets of a store say is so. *)
TagsCertified(s, M) ==
  /\ {s.prepare, s.locked, s.commit} \subseteq s.headers
  /\ CertifiedIn(M, s.prepare) /\ CertifiedIn(M, s.locked) /\ CertifiedIn(M, s.commit)
  /\ \A b \in s.certs : CertifiedIn(M, b) /\ ViewOf[b] <= ViewOf[s.prepare]

TagsOrdered(s) ==
  /\ ViewOf[s.commit] <= ViewOf[s.locked]
  /\ ViewOf[s.locked] <= ViewOf[s.prepare]

Closed(s, M) ==
  /\ Genesis \in s.headers
  /\ \A b \in s.headers \ {Genesis} :
       /\ ParentOf[b] \in s.headers \cap s.certs
       /\ CertifiedIn(M, ParentOf[b])

Locks(s) ==
  \A b \in s.headers :
    ParentOf[b] \in s.headers /\ ParentOf[ParentOf[b]] \in s.headers =>
      ViewOf[ParentOf[ParentOf[b]]] <= ViewOf[s.locked]

CommitDecided(s, M) ==
  \/ s.commit = Genesis
  \/ \E p \in ThreeChains : Decided(p) = s.commit /\ CertifiedIn(M, p)

StoreInv(s, M) ==
  /\ s \in State
  /\ TagsCertified(s, M)
  /\ TagsOrdered(s)
  /\ Closed(s, M)
  /\ Locks(s)
  /\ CommitDecided(s, M)

(* The votes counted are votes for the block this replica voted for in this *)
(* view.                                                                    *)
BallotInv(s, M) ==
  /\ s.ballot = NoBlock => s.votes = {}
  /\ s.ballot # NoBlock =>
       /\ s.ballot \in s.headers
       /\ ViewOf[s.ballot] = s.view
       /\ s.voted = s.view
       /\ s.votes \subseteq SignersIn(M, s.ballot)

LocalInv(s, M) == StoreInv(s, M) /\ BallotInv(s, M)

-----------------------------------------------------------------------------
(* Enough replicas have passed the view of b without signing it: b will     *)
(* never be certified.                                                      *)
PassedBy(b) == {q \in Replica : rep[q].voted >= ViewOf[b] /\ VoteMsg(b, q) \notin msgs}
GivenUp(b) == Cardinality(PassedBy(b)) >= Majority

(* A vote is for a stored block whose parent was certified, and no vote or  *)
(* new-view is for a view above the last one its sender recorded.           *)
SignaturesRecorded ==
  /\ \A m \in Signatures : SignedView(m) <= rep[m.voter].voted
  /\ \A m \in Signatures : m.type = "vote" =>
       /\ m.block # Genesis
       /\ m.block \in rep[m.voter].headers
       /\ CertifiedIn(msgs, ParentOf[m.block])

(* A later vote of a replica respects the lock its earlier vote implied. *)
VotesRespectLocks ==
  \A m, n \in Signatures :
    /\ m.type = "vote" /\ n.type = "vote" /\ m.voter = n.voter
    /\ ViewOf[m.block] < ViewOf[n.block]
    /\ ParentOf[ParentOf[m.block]] \in Block
    => ViewOf[ParentOf[ParentOf[m.block]]] <= ViewOf[ParentOf[n.block]]

(* A block that is not above its parent is given up as soon as it is signed. *)
UpwardOrGivenUp ==
  \A m \in Signatures : m.type = "vote" =>
    ViewOf[ParentOf[m.block]] < ViewOf[m.block] \/ GivenUp(m.block)

(* What is certified above a three-chain extends the block it decides, or   *)
(* the three-chain is given up.                                             *)
LaterCertsExtend ==
  \A x \in SignedBlocks : CertifiedIn(msgs, x) =>
    \A p \in ThreeChains : ViewOf[x] > ViewOf[p] =>
      Decided(p) \in Ancestors[x] \/ GivenUp(p)

(* The part that holds even of replicas that forget their store. *)
BaseInv ==
  /\ TypeOK
  /\ \A r \in Replica : LocalInv(rep[r], msgs)
  /\ \A m \in Signatures : m.type = "newview" => CertifiedIn(msgs, m.cert)

(* The inductive invariant of replicas with a durable store: onProposal,     *)
(* onVote, onNewView, onTimeout, Send and a restart keep each store backed by *)
(* signatures, sign once per view and only what respects the sender's lock;   *)
(* so nothing that is certified above a three-chain leaves the block that     *)
(* update() commits for it.                                                   *)
IInv ==
  /\ BaseInv
  /\ SignOnce
  /\ SignaturesRecorded
  /\ VotesRespectLocks
  /\ UpwardOrGivenUp
  /\ LaterCertsExtend
=============================================================================
