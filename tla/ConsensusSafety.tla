-------------------------- MODULE ConsensusSafety ---------------------------
(***************************************************************************)
(* Proof that, for a durable store, IInv is an invariant of Spec, and what *)
(* follows from it.                                                        *)
(***************************************************************************)
EXTENDS ConsensusVotes

(* The core of the safety argument: the quorum that certifies x shares a    *)
(* replica with the one that certified p, and safeNode keeps that replica   *)
(* from voting for a block whose parent is older than what p locked.        *)
LEMMA LaterCertsExtendStep ==
  ASSUME IInv, Grows, BaseInv', SignaturesRecorded', VotesRespectLocks', UpwardOrGivenUp'
  PROVE  LaterCertsExtend'
<1>0. /\ BaseInv /\ TypeOK /\ TypeOK' /\ SignOnce /\ SignaturesRecorded /\ LaterCertsExtend
  BY DEF IInv, BaseInv
<1> SUFFICES ASSUME NEW x \in SignedBlocks', CertifiedIn(msgs', x),
                    NEW p \in ThreeChains, ViewOf[x] > ViewOf[p]
             PROVE  Decided(p) \in Ancestors[x] \/ GivenUp(p)'
  BY DEF LaterCertsExtend
<1> DEFINE d == Decided(p)
           y == ParentOf[x]
<1>1. /\ p \in Block /\ ParentOf[p] \in Block /\ d \in Block /\ p # Genesis
      /\ ViewOf[d] \in Nat /\ ViewOf[p] = ViewOf[d] + 2
      /\ d = ParentOf[ParentOf[p]]
  BY ThreeChainFacts DEF Decided
<1>2. x \in Block
  <2>1. PICK m \in msgs' : m.type = "vote" /\ m.block = x  BY DEF SignedBlocks
  <2>2. QED  BY <1>0, <2>1, MessageKinds DEF TypeOK, Votes
<1>3. x # Genesis /\ ViewOf[x] \in Nat  BY <1>1, <1>2, BlockAssumption
<1>4. y \in Block /\ ViewOf[y] \in Nat /\ \A a \in Ancestors[y] : a \in Ancestors[x]
  BY <1>2, <1>3, ParentAssumption, BlockAssumption, AncestorsAssumption
<1>5. GivenUp(p) => GivenUp(p)'  BY <1>0, <1>1, GivenUpStep
<1> HIDE DEF d, y
<1>6. CASE CertifiedIn(msgs, x)
  <2>1. x \in SignedBlocks  BY <1>0, <1>3, <1>6, CertifiedIsSigned, SignedBlocksAre
  <2>2. QED  BY <1>0, <1>5, <1>6, <2>1 DEF LaterCertsExtend
<1>7. CASE ~ CertifiedIn(msgs, x)
  <2>1. PICK k \in Replica : VoteMsg(x, k) \in msgs' /\ VoteMsg(x, k) \notin msgs
    <3>1. SignersIn(msgs, x) # SignersIn(msgs', x)  BY <1>7 DEF CertifiedIn
    <3>2. QED  BY <3>1 DEF SignersIn, Grows
  <2>2. VoteMsg(x, k) \in Signatures' \ Signatures  BY SMTT(30), <2>1, MessageKinds DEF Signatures
  <2>3. CertifiedIn(msgs, y)
    <3>1. \A m \in Signatures' \ Signatures :
            m.type = "vote" => CertifiedIn(msgs, ParentOf[m.block])
      BY DEF Grows
    <3>2. VoteMsg(x, k).type = "vote" /\ VoteMsg(x, k).block = x  BY MessageKinds
    <3>3. QED  BY <2>2, <3>1, <3>2 DEF y
  <2>4. SignersIn(msgs', x) \in SUBSET Replica /\ Cardinality(SignersIn(msgs', x)) >= Majority
    BY <1>3 DEF SignersIn, CertifiedIn
  <2>5. CASE \A q \in SignersIn(msgs', x) : VoteMsg(p, q) \notin msgs'
    <3>1. \A q \in SignersIn(msgs', x) : rep'[q].voted >= ViewOf[p]
      <4> SUFFICES ASSUME NEW q \in Replica, VoteMsg(x, q) \in msgs'
                   PROVE  rep'[q].voted >= ViewOf[p]
        BY DEF SignersIn
      <4>1. /\ VoteMsg(x, q) \in Signatures' /\ VoteMsg(x, q).voter = q
            /\ SignedView(VoteMsg(x, q)) = ViewOf[x]
        BY MessageKinds DEF Signatures, SignedView
      <4>2. ViewOf[x] <= rep'[q].voted  BY <4>1 DEF SignaturesRecorded
      <4>3. QED  BY <1>1, <1>3, <4>2 DEF Grows
    <3>2. SignersIn(msgs', x) \subseteq PassedBy(p)'  BY <2>4, <2>5, <3>1 DEF PassedBy
    <3>3. PassedBy(p)' \in SUBSET Replica  BY DEF PassedBy
    <3> HIDE DEF PassedBy, SignersIn
    <3>4. /\ Cardinality(SignersIn(msgs', x)) \in Nat /\ Cardinality(PassedBy(p)') \in Nat
          /\ Cardinality(SignersIn(msgs', x)) <= Cardinality(PassedBy(p)')
      BY <2>4, <3>2, <3>3, SubsetCardinality
    <3>5. QED  BY <2>4, <3>4, MajorityFacts DEF GivenUp
  <2>6. CASE \E q \in SignersIn(msgs', x) : VoteMsg(p, q) \in msgs'
    <3>1. PICK q \in SignersIn(msgs', x) : VoteMsg(p, q) \in msgs'  BY <2>6
    <3>2. q \in Replica /\ VoteMsg(x, q) \in msgs'  BY DEF SignersIn
    <3>3. VoteMsg(p, q) \in msgs
      <4>1. ASSUME VoteMsg(p, q) \notin msgs  PROVE FALSE
        <5>1. VoteMsg(p, q) \in Signatures' \ Signatures
          BY SMTT(30), <3>1, <4>1, MessageKinds DEF Signatures
        <5>2. VoteMsg(p, q) = VoteMsg(x, k)  BY Zenon, <2>2, <5>1 DEF Grows
        <5>3. p = x  BY SMTT(30), <5>2, MessageKinds
        <5>4. QED  BY <1>3, <5>3
      <4>2. QED  BY <4>1
    <3>4. ViewOf[d] <= ViewOf[y]
      <4>1. VoteMsg(p, q) \in Signatures' /\ VoteMsg(x, q) \in Signatures'
        BY SMTT(30), <3>1, <3>2, MessageKinds DEF Signatures
      <4>2. ViewOf[p] < ViewOf[x]  BY <1>1, <1>3
      <4>3. QED  BY <1>1, <4>1, <4>2, MessageKinds DEF VotesRespectLocks, y
    <3>5. CASE ViewOf[y] <= ViewOf[p]
      <4>1. d \in Ancestors[y] \/ GivenUp(p)
        BY <1>0, <1>4, <2>3, <3>2, <3>3, <3>4, <3>5, CertBesideThreeChain DEF d
      <4>2. QED  BY <1>4, <1>5, <4>1 DEF d
    <3>6. CASE ViewOf[y] > ViewOf[p]
      <4>1. y # Genesis  BY <1>1, <3>6, BlockAssumption
      <4>2. y \in SignedBlocks  BY <1>0, <2>3, <4>1, CertifiedIsSigned, SignedBlocksAre
      <4>3. d \in Ancestors[y] \/ GivenUp(p)
        BY <1>0, <2>3, <3>6, <4>2 DEF LaterCertsExtend, d
      <4>4. QED  BY <1>4, <1>5, <4>3 DEF d
    <3>7. QED  BY <1>1, <1>4, <3>5, <3>6
  <2>7. QED  BY SMTT(30), <2>5, <2>6
<1>8. QED  BY SMTT(30), <1>6, <1>7

-----------------------------------------------------------------------------
(* Every handler, and a restart on a store that survives it, preserves the  *)
(* inductive invariant.                                                      *)
THEOREM InductiveInvariant == ASSUME Durable PROVE Spec => []IInv
<1>1. Init => IInv  BY InitialState
<1>2. IInv /\ [Next]_vars => IInv'
  <2> SUFFICES ASSUME IInv, [Next]_vars
               PROVE  IInv'
    OBVIOUS
  <2>1. CASE Next
    <3>1. PICK r \in Alive : Step(r)  BY <2>1 DEF Next
    <3>2. BaseInv /\ SignOnce /\ SignaturesRecorded /\ VotesRespectLocks /\ UpwardOrGivenUp
      BY DEF IInv
    <3>3. BaseInv'  BY <3>1, <3>2, BaseStep
    <3>4. Grows  BY <3>1, <3>2, StepGrows
    <3>5. SignOnce'  BY <3>2, <3>3, <3>4, SignOnceStep
    <3>6. SignaturesRecorded'  BY <3>2, <3>3, <3>4, SignaturesRecordedStep
    <3>7. VotesRespectLocks'  BY <3>2, <3>3, <3>4, VotesRespectLocksStep
    <3>8. UpwardOrGivenUp'  BY <3>2, <3>3, <3>4, UpwardOrGivenUpStep
    <3>9. LaterCertsExtend'  BY <3>3, <3>4, <3>6, <3>7, <3>8, LaterCertsExtendStep
    <3>10. QED  BY <3>3, <3>5, <3>6, <3>7, <3>8, <3>9 DEF IInv
  <2>2. CASE UNCHANGED vars
    <3>1. rep' = rep /\ msgs' = msgs  BY <2>2 DEF vars
    <3>2. BaseInv'  BY SMTT(30), <3>1 DEF IInv, BaseInv, TypeOK, Signatures
    <3>3. SignOnce' /\ SignaturesRecorded' /\ VotesRespectLocks'
      BY SMTT(30), <3>1 DEF IInv, SignOnce, SignaturesRecorded, VotesRespectLocks, Signatures
    <3>4. UpwardOrGivenUp' /\ LaterCertsExtend'
      BY <3>1 DEF IInv, UpwardOrGivenUp, LaterCertsExtend, GivenUp, PassedBy, Signatures,
                  SignedBlocks
    <3>5. QED  BY <3>2, <3>3, <3>4 DEF IInv
  <2>3. QED  BY <2>1, <2>2
<1>3. QED  BY <1>1, <1>2, PTL DEF Spec

(* sendVote and sendNewView never sign two things about one view, restarts   *)
(* included.                                                                 *)
THEOREM NoDoubleVote == ASSUME Durable PROVE Spec => []SignOnce
<1>1. IInv => SignOnce  BY DEF IInv
<1>2. QED  BY <1>1, InductiveInvariant, PTL

(* A view certifies at most one block, and not both a block and its timeout:  *)
(* nextRound sends no new-view for a view that was voted in.                  *)
THEOREM OneOutcome == ASSUME Durable PROVE Spec => []OneOutcomePerView
<1>1. IInv => OneOutcomePerView
  <2> SUFFICES ASSUME IInv, NEW b \in SignedBlocks, Certified(b)
               PROVE  /\ ~ TimeoutCertified(ViewOf[b])
                      /\ \A c \in SignedBlocks : Certified(c) /\ ViewOf[c] = ViewOf[b] => c = b
    BY DEF OneOutcomePerView
  <2>1. TypeOK /\ SignOnce /\ SignaturesRecorded  BY DEF IInv, BaseInv
  <2>2. \A c \in SignedBlocks : c \in Block /\ c # Genesis
    <3> SUFFICES ASSUME NEW m \in msgs, m.type = "vote"
                 PROVE  m.block \in Block /\ m.block # Genesis
      BY DEF SignedBlocks
    <3>1. QED  BY SMTT(30), <2>1, MessageKinds DEF TypeOK, Votes, SignaturesRecorded, Signatures
  <2>3. CertifiedIn(msgs, b)  BY CertifiedHere
  <2>4. ASSUME NEW c \in SignedBlocks, Certified(c), ViewOf[c] = ViewOf[b]
        PROVE  c = b
    BY <2>1, <2>2, <2>3, <2>4, CertifiedHere, OneCertPerView
  <2>5. ASSUME TimeoutCertified(ViewOf[b])
        PROVE  FALSE
    <3>1. /\ SignersIn(msgs, b) \in SUBSET Replica
          /\ TimeoutSigners(ViewOf[b]) \in SUBSET Replica
      BY DEF SignersIn, TimeoutSigners
    <3>2. /\ Cardinality(SignersIn(msgs, b)) >= Majority
          /\ Cardinality(TimeoutSigners(ViewOf[b])) >= Majority
      BY <2>2, <2>3, <2>5 DEF CertifiedIn, TimeoutCertified
    <3>3. PICK q \in Replica : q \in SignersIn(msgs, b) /\ q \in TimeoutSigners(ViewOf[b])
      BY <3>1, <3>2, QuorumsMeet
    <3>4. PICK m \in msgs : m.type = "newview" /\ m.view = ViewOf[b] /\ m.voter = q
      BY <3>3 DEF TimeoutSigners
    <3>5. VoteMsg(b, q) \in Signatures /\ m \in Signatures
      BY <3>3, <3>4, MessageKinds DEF SignersIn, Signatures
    <3>6. SignedView(VoteMsg(b, q)) = ViewOf[b] /\ SignedView(m) = ViewOf[b]
      BY <3>4, MessageKinds DEF SignedView
    <3>7. m = VoteMsg(b, q)  BY <2>1, <3>4, <3>5, <3>6, MessageKinds DEF SignOnce
    <3>8. QED  BY <3>4, <3>7, MessageKinds
  <2>6. QED  BY <2>4, <2>5
<1>2. QED  BY <1>1, InductiveInvariant, PTL

(* No block at or below the view of its parent is certified, although Send   *)
(* may propose one.                                                          *)
THEOREM CertifiedViewsIncrease == ASSUME Durable PROVE Spec => []ViewsIncrease
<1>1. IInv => ViewsIncrease
  <2> SUFFICES ASSUME IInv, NEW b \in SignedBlocks, Certified(b)
               PROVE  ViewOf[ParentOf[b]] < ViewOf[b]
    BY DEF ViewsIncrease
  <2>1. PICK m \in msgs : m.type = "vote" /\ m.block = b  BY DEF SignedBlocks
  <2>2. b \in Block /\ b # Genesis
    BY <2>1, MessageKinds DEF IInv, BaseInv, TypeOK, Votes, SignaturesRecorded, Signatures
  <2>3. ViewOf[ParentOf[b]] < ViewOf[b] \/ GivenUp(b)
    BY <2>1 DEF IInv, UpwardOrGivenUp, Signatures
  <2>4. QED  BY SMTT(30), <2>2, <2>3, CertifiedHere, GivenUpIsNotCertified
<1>2. QED  BY <1>1, InductiveInvariant, PTL

(* A certified block at or above the view of a commit descends from it. *)
LEMMA CommitDecides ==
  ASSUME IInv, NEW r \in Replica, NEW b \in Block, CertifiedIn(msgs, b),
         ViewOf[b] >= ViewOf[rep[r].commit]
  PROVE  rep[r].commit \in Ancestors[b]
<1>0. BaseInv /\ TypeOK /\ SignOnce /\ SignaturesRecorded /\ LaterCertsExtend
  BY DEF IInv, BaseInv
<1>1. CASE rep[r].commit = Genesis  BY <1>1, AncestorsAssumption
<1>2. CASE rep[r].commit # Genesis
  <2>1. PICK p \in ThreeChains : Decided(p) = rep[r].commit /\ CertifiedIn(msgs, p)
    BY SMTT(30), <1>0, <1>2 DEF BaseInv, LocalInv, StoreInv, CommitDecided
  <2>2. p \in Block /\ p # Genesis /\ ViewOf[p] \in Nat /\ ViewOf[b] \in Nat
    BY ThreeChainFacts, BlockAssumption
  <2>3. ~ GivenUp(p)  BY SMTT(30), <2>1, <2>2, GivenUpIsNotCertified
  <2>4. CASE ViewOf[b] <= ViewOf[p]
    <3>1. PICK q \in Replica : VoteMsg(p, q) \in msgs  BY SMTT(30), <2>1, <2>2, CertifiedIsSigned
    <3>2. ViewOf[Decided(p)] <= ViewOf[b]
      <4>1. ViewOf[Decided(p)] \in Nat  BY SMTT(30), ThreeChainFacts
      <4>2. QED  BY SMTT(30), <2>1, <2>2, <4>1
    <3>3. QED  BY SMTT(30), <1>0, <2>1, <2>3, <2>4, <3>1, <3>2, CertBesideThreeChain
  <2>5. CASE ViewOf[b] > ViewOf[p]
    <3>1. b # Genesis  BY <2>2, <2>5, BlockAssumption
    <3>2. b \in SignedBlocks  BY <1>0, <3>1, CertifiedIsSigned, SignedBlocksAre
    <3>3. QED  BY SMTT(30), <1>0, <2>1, <2>3, <2>5, <3>2 DEF LaterCertsExtend
  <2>6. QED  BY SMTT(30), <2>2, <2>4, <2>5
<1>3. QED  BY <1>1, <1>2

(* No certificate ever contradicts what update() commited at any replica. *)
THEOREM Finality == ASSUME Durable PROVE Spec => []CommitIsFinal
<1>1. IInv => CommitIsFinal
  <2> SUFFICES ASSUME IInv, NEW r \in Replica, NEW b \in SignedBlocks,
                      Certified(b), ViewOf[b] >= ViewOf[rep[r].commit]
               PROVE  rep[r].commit \in Ancestors[b]
    BY SMTT(30) DEF CommitIsFinal
  <2>1. b \in Block
    BY SMTT(30), MessageKinds DEF IInv, BaseInv, TypeOK, Votes, SignedBlocks
  <2>2. QED  BY <2>1, CertifiedHere, CommitDecides
<1>2. QED  BY <1>1, InductiveInvariant, PTL

(* All replicas commit, in update(), blocks of one branch. *)
THEOREM CommitsAgree == ASSUME Durable PROVE Spec => []Agreement
<1>1. IInv => Agreement
  <2> SUFFICES ASSUME IInv, NEW p \in Replica, NEW q \in Replica
               PROVE  SameBranch(rep[p].commit, rep[q].commit)
    BY SMTT(30) DEF Agreement
  <2>1. \A r \in Replica : /\ rep[r].commit \in Block /\ ViewOf[rep[r].commit] \in Nat
                           /\ CertifiedIn(msgs, rep[r].commit)
    <3> SUFFICES ASSUME NEW r \in Replica
                 PROVE  /\ rep[r].commit \in Block /\ ViewOf[rep[r].commit] \in Nat
                        /\ CertifiedIn(msgs, rep[r].commit)
      OBVIOUS
    <3>1. StoreInv(rep[r], msgs)  BY DEF IInv, BaseInv, LocalInv
    <3>2. QED  BY SMTT(30), <3>1, BlockAssumption DEF StoreInv, State, TagsCertified
  <2>2. CASE ViewOf[rep[p].commit] <= ViewOf[rep[q].commit]
    <3>1. rep[p].commit \in Ancestors[rep[q].commit]  BY <2>1, <2>2, CommitDecides
    <3>2. QED  BY <3>1 DEF SameBranch
  <2>3. CASE ViewOf[rep[q].commit] <= ViewOf[rep[p].commit]
    <3>1. rep[q].commit \in Ancestors[rep[p].commit]  BY SMTT(30), <2>1, <2>3, CommitDecides
    <3>2. QED  BY <3>1 DEF SameBranch
  <2>4. QED  BY <2>1, <2>2, <2>3
<1>2. QED  BY <1>1, InductiveInvariant, PTL

(* The block update() commits is an ancestor of the locked and of the       *)
(* prepared block, also while those two are on different branches.          *)
THEOREM TagsAgree == ASSUME Durable PROVE Spec => []TagsFollowCommit
<1>1. IInv => TagsFollowCommit
  <2> SUFFICES ASSUME IInv, NEW r \in Replica
               PROVE  /\ rep[r].commit \in Ancestors[rep[r].locked]
                      /\ rep[r].commit \in Ancestors[rep[r].prepare]
                      /\ ViewOf[rep[r].locked] <= ViewOf[rep[r].prepare]
    BY DEF TagsFollowCommit
  <2>1. StoreInv(rep[r], msgs)  BY SMTT(30) DEF IInv, BaseInv, LocalInv
  <2>2. /\ rep[r].commit \in Block /\ rep[r].locked \in Block /\ rep[r].prepare \in Block
        /\ CertifiedIn(msgs, rep[r].locked) /\ CertifiedIn(msgs, rep[r].prepare)
        /\ ViewOf[rep[r].commit] <= ViewOf[rep[r].locked]
        /\ ViewOf[rep[r].locked] <= ViewOf[rep[r].prepare]
    BY <2>1 DEF StoreInv, State, TagsCertified, TagsOrdered
  <2>3. /\ ViewOf[rep[r].commit] \in Nat /\ ViewOf[rep[r].locked] \in Nat
        /\ ViewOf[rep[r].prepare] \in Nat
    BY <2>2, BlockAssumption
  <2>4. ViewOf[rep[r].commit] <= ViewOf[rep[r].prepare]  BY <2>2, <2>3
  <2>5. QED  BY <2>2, <2>3, <2>4, CommitDecides
<1>2. QED  BY <1>1, InductiveInvariant, PTL
=============================================================================
