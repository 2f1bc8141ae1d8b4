--------------------------- MODULE ConsensusVotes ---------------------------
(***************************************************************************)
(* What a step with a durable store does to the votes of all replicas, and *)
(* what two majorities of them exclude.                                    *)
(***************************************************************************)
EXTENDS ConsensusSteps

(* With a durable store a step only adds, and signs only above voted. *)
Grows ==
  /\ msgs \subseteq msgs'
  /\ \A q \in Replica : /\ rep[q].voted \in Nat /\ rep'[q].voted \in Nat
                        /\ rep[q].voted <= rep'[q].voted
                        /\ rep[q].headers \subseteq rep'[q].headers
  /\ \A m \in Signatures' \ Signatures :
       /\ m.voter \in Replica
       /\ rep[m.voter].voted < SignedView(m)
       /\ SignedView(m) = rep'[m.voter].voted
  /\ \A m, n \in Signatures' \ Signatures : m = n
  /\ \A m \in Signatures' \ Signatures : m.type = "vote" =>
       /\ m.block \in Block \ {Genesis}
       /\ m.block \in rep'[m.voter].headers
       /\ CertifiedIn(msgs, ParentOf[m.block])
       /\ RespectsLocks(rep[m.voter], m.block)

LEMMA StepGrows ==
  ASSUME BaseInv, Durable, NEW r \in Alive, Step(r)
  PROVE  Grows
<1>1. PICK t : Moves(r, t)  BY BaseStep
<1>2. BaseInv' /\ r \in Replica  BY BaseStep
<1> DEFINE s == rep[r]
<1>3. s.headers \subseteq t.headers /\ Signs(r, s, t)  BY <1>1 DEF Moves, Effect
<1>4. \A q \in Replica : rep[q].voted \in Nat /\ rep'[q].voted \in Nat
  BY Zenon, <1>2 DEF BaseInv, TypeOK, State
<1>5. /\ msgs' = msgs \cup t.out
      /\ rep'[r].voted = t.voted /\ rep'[r].headers = t.headers
      /\ \A q \in Replica : q # r => rep'[q] = rep[q]
  BY <1>1 DEF Moves
<1>6. Signatures' = Signatures \cup NewSigs(t)  BY <1>5 DEF Signatures, NewSigs
<1> HIDE DEF s
<1>7. CASE SignsNothing(s, t)
  <2>1. Signatures' \ Signatures = {}  BY <1>6, <1>7 DEF SignsNothing
  <2>2. \A q \in Replica : /\ rep[q].voted <= rep'[q].voted
                           /\ rep[q].headers \subseteq rep'[q].headers
    BY <1>3, <1>4, <1>5, <1>7 DEF SignsNothing, s
  <2>3. QED  BY <1>4, <1>5, <2>1, <2>2 DEF Grows
<1>8. CASE \E b \in Block : SignsVote(r, s, t, b)
  <2>1. PICK b \in Block : SignsVote(r, s, t, b)  BY <1>8
  <2>2. \A m \in Signatures' \ Signatures : m = VoteMsg(b, r)
    BY <1>6, <2>1 DEF SignsVote
  <2>3. \A q \in Replica : /\ rep[q].voted <= rep'[q].voted
                           /\ rep[q].headers \subseteq rep'[q].headers
    BY <1>2, <1>3, <1>4, <1>5, <2>1 DEF SignsVote, s
  <2>4. SignedView(VoteMsg(b, r)) = ViewOf[b]  BY MessageKinds DEF SignedView
  <2>5. /\ rep[r].voted < ViewOf[b] /\ rep'[r].voted = ViewOf[b] /\ b \in rep'[r].headers
        /\ b \in Block \ {Genesis}
        /\ CertifiedIn(msgs, ParentOf[b]) /\ RespectsLocks(rep[r], b)
    BY <1>2, <1>4, <1>5, <2>1, BlockAssumption DEF SignsVote, s
  <2>6. \A m \in Signatures' \ Signatures :
          /\ m.voter = r /\ m.block = b /\ SignedView(m) = ViewOf[b]
    BY <2>2, <2>4, MessageKinds
  <2>7. QED  BY <1>2, <1>4, <1>5, <2>2, <2>3, <2>5, <2>6 DEF Grows
<1>9. CASE \E v \in Nat, c \in Block : SignsNewView(r, s, t, v, c)
  <2>1. PICK v \in Nat, c \in Block : SignsNewView(r, s, t, v, c)  BY <1>9
  <2>2. \A m \in Signatures' \ Signatures : m = NewViewMsg(v, c, r)
    BY <1>6, <2>1 DEF SignsNewView
  <2>3. \A q \in Replica : /\ rep[q].voted <= rep'[q].voted
                           /\ rep[q].headers \subseteq rep'[q].headers
    BY <1>2, <1>3, <1>4, <1>5, <2>1 DEF SignsNewView, s
  <2>4. /\ SignedView(NewViewMsg(v, c, r)) = v
        /\ NewViewMsg(v, c, r).type # "vote"
    BY MessageKinds DEF SignedView
  <2>5. rep[r].voted < v /\ rep'[r].voted = v
    BY <1>2, <1>4, <1>5, <2>1 DEF SignsNewView, s
  <2>6. \A m \in Signatures' \ Signatures :
          /\ m.voter = r /\ SignedView(m) = v /\ m.type # "vote"
    BY <2>2, <2>4, MessageKinds
  <2>7. QED  BY <1>2, <1>4, <1>5, <2>2, <2>3, <2>5, <2>6 DEF Grows
<1>10. QED  BY <1>3, <1>7, <1>8, <1>9 DEF Signs

LEMMA SignatureTypes ==
  TypeOK => \A m \in Signatures :
              /\ m.voter \in Replica /\ SignedView(m) \in Nat
              /\ m.type = "vote" => /\ m.block \in Block /\ SignedView(m) = ViewOf[m.block]
                                    /\ m = VoteMsg(m.block, m.voter)
BY BlockAssumption DEF TypeOK, Signatures, SignedView, Message, Proposals, Votes, NewViews, VoteMsg

(* voted only grows and is recorded with the signature. *)
LEMMA SignOnceStep ==
  ASSUME BaseInv, SignOnce, SignaturesRecorded, Grows, BaseInv'
  PROVE  SignOnce'
<1> SUFFICES ASSUME NEW m \in Signatures', NEW n \in Signatures',
                    m.voter = n.voter, SignedView(m) = SignedView(n)
             PROVE  m = n
  BY DEF SignOnce
<1>1. \A k \in Signatures : SignedView(k) <= rep[k.voter].voted /\ SignedView(k) \in Nat
                            /\ rep[k.voter].voted \in Nat
  BY SignatureTypes DEF SignaturesRecorded, BaseInv, Grows
<1>2. \A k \in Signatures' \ Signatures : rep[k.voter].voted < SignedView(k)
                                          /\ rep[k.voter].voted \in Nat
                                          /\ SignedView(k) \in Nat
  BY DEF Grows
<1>3. CASE m \in Signatures /\ n \in Signatures  BY <1>3 DEF SignOnce
<1>4. CASE m \notin Signatures /\ n \notin Signatures  BY <1>4 DEF Grows
<1>5. CASE m \in Signatures /\ n \notin Signatures  BY <1>1, <1>2, <1>5
<1>6. CASE m \notin Signatures /\ n \in Signatures  BY <1>1, <1>2, <1>6
<1>7. QED  BY <1>3, <1>4, <1>5, <1>6

LEMMA SignaturesRecordedStep ==
  ASSUME BaseInv, SignaturesRecorded, Grows, BaseInv'
  PROVE  SignaturesRecorded'
<1>1. ASSUME NEW m \in Signatures'
      PROVE  SignedView(m) <= rep'[m.voter].voted
  <2>1. CASE m \in Signatures
    <3>1. SignedView(m) <= rep[m.voter].voted /\ SignedView(m) \in Nat /\ m.voter \in Replica
      BY <2>1, SignatureTypes DEF SignaturesRecorded, BaseInv
    <3>2. QED  BY <3>1 DEF Grows
  <2>2. CASE m \notin Signatures  BY <2>2 DEF Grows
  <2>3. QED  BY <2>1, <2>2
<1>2. ASSUME NEW m \in Signatures', m.type = "vote"
      PROVE  /\ m.block # Genesis
             /\ m.block \in rep'[m.voter].headers
             /\ CertifiedIn(msgs', ParentOf[m.block])
  <2>1. CASE m \in Signatures
    <3>1. /\ m.block # Genesis /\ m.voter \in Replica
          /\ m.block \in rep[m.voter].headers
          /\ CertifiedIn(msgs, ParentOf[m.block])
      BY <1>2, <2>1, SignatureTypes DEF SignaturesRecorded, BaseInv
    <3>2. CertifiedIn(msgs', ParentOf[m.block])  BY <3>1, CertifiedMonotone DEF Grows
    <3>3. QED  BY <3>1, <3>2 DEF Grows
  <2>2. CASE m \notin Signatures
    <3>1. /\ m.block # Genesis /\ m.block \in rep'[m.voter].headers
          /\ CertifiedIn(msgs, ParentOf[m.block])
      BY <1>2, <2>2 DEF Grows
    <3>2. CertifiedIn(msgs', ParentOf[m.block])  BY <3>1, CertifiedMonotone DEF Grows
    <3>3. QED  BY <3>1, <3>2
  <2>3. QED  BY <2>1, <2>2
<1>3. QED  BY <1>1, <1>2 DEF SignaturesRecorded

(* safeNode, together with the lock that update took for the earlier vote. *)
LEMMA VotesRespectLocksStep ==
  ASSUME BaseInv, SignaturesRecorded, VotesRespectLocks, Grows, BaseInv'
  PROVE  VotesRespectLocks'
<1> SUFFICES ASSUME NEW m \in Signatures', NEW n \in Signatures',
                    m.type = "vote", n.type = "vote", m.voter = n.voter,
                    ViewOf[m.block] < ViewOf[n.block],
                    ParentOf[ParentOf[m.block]] \in Block
             PROVE  ViewOf[ParentOf[ParentOf[m.block]]] <= ViewOf[ParentOf[n.block]]
  BY DEF VotesRespectLocks
<1>1. /\ SignedView(m) = ViewOf[m.block] /\ SignedView(n) = ViewOf[n.block]
      /\ SignedView(m) \in Nat /\ SignedView(n) \in Nat
  <2>1. m \in Message /\ n \in Message  BY DEF BaseInv, TypeOK, Signatures
  <2>2. m.block \in Block /\ n.block \in Block  BY <2>1, MessageKinds DEF Votes
  <2>3. QED  BY <2>2, BlockAssumption DEF SignedView
<1>2. CASE m \in Signatures /\ n \in Signatures  BY <1>2 DEF VotesRespectLocks
<1>3. CASE m \in Signatures /\ n \notin Signatures
  <2>1. m.block \in rep[m.voter].headers \ {Genesis}  BY <1>3 DEF SignaturesRecorded
  <2>2. RespectsLocks(rep[n.voter], n.block)  BY <1>3 DEF Grows
  <2>3. QED  BY <2>1, <2>2 DEF RespectsLocks
<1>4. CASE m \notin Signatures
  <2>1. rep[m.voter].voted < SignedView(m) /\ rep[m.voter].voted \in Nat
    BY <1>4 DEF Grows
  <2>2. CASE n \notin Signatures
    <3>1. m = n  BY <1>4, <2>2 DEF Grows
    <3>2. QED  BY <1>1, <3>1
  <2>3. CASE n \in Signatures
    <3>1. SignedView(n) <= rep[n.voter].voted  BY <2>3 DEF SignaturesRecorded
    <3>2. QED  BY <1>1, <2>1, <3>1
  <2>4. QED  BY <2>2, <2>3
<1>5. QED  BY <1>2, <1>3, <1>4

(* Nobody goes back to sign a view that has passed. *)
LEMMA GivenUpStep ==
  ASSUME TypeOK, TypeOK', Grows, NEW b \in Block, GivenUp(b)
  PROVE  GivenUp(b)'
<1>1. PassedBy(b) \subseteq PassedBy(b)'
  <2> SUFFICES ASSUME NEW q \in Replica, rep[q].voted >= ViewOf[b], VoteMsg(b, q) \notin msgs
               PROVE  rep'[q].voted >= ViewOf[b] /\ VoteMsg(b, q) \notin msgs'
    BY DEF PassedBy
  <2>1. ViewOf[b] \in Nat  BY BlockAssumption
  <2>2. rep'[q].voted >= ViewOf[b]  BY <2>1 DEF Grows
  <2>3. ASSUME VoteMsg(b, q) \in msgs'  PROVE FALSE
    <3>1. VoteMsg(b, q) \in Signatures' \ Signatures
      BY <2>3, MessageKinds DEF Signatures
    <3>2. SignedView(VoteMsg(b, q)) = ViewOf[b] /\ VoteMsg(b, q).voter = q
      BY MessageKinds DEF SignedView
    <3>3. rep[q].voted < ViewOf[b] /\ rep[q].voted \in Nat  BY <3>1, <3>2 DEF Grows
    <3>4. QED  BY <2>1, <3>3
  <2>4. QED  BY <2>2, <2>3
<1>2. PassedBy(b) \in SUBSET Replica /\ PassedBy(b)' \in SUBSET Replica
  BY DEF PassedBy
<1> HIDE DEF PassedBy
<1>3. Cardinality(PassedBy(b)) <= Cardinality(PassedBy(b)')
      /\ Cardinality(PassedBy(b)) \in Nat /\ Cardinality(PassedBy(b)') \in Nat
  BY <1>1, <1>2, SubsetCardinality
<1>4. QED  BY <1>3, MajorityFacts DEF GivenUp

(* A certified block was not given up. *)
LEMMA GivenUpIsNotCertified ==
  ASSUME NEW b \in Block, b # Genesis, GivenUp(b), CertifiedIn(msgs, b)
  PROVE  FALSE
<1>1. PassedBy(b) \in SUBSET Replica /\ SignersIn(msgs, b) \in SUBSET Replica
  BY DEF PassedBy, SignersIn
<1>2. PICK q \in Replica : q \in PassedBy(b) /\ q \in SignersIn(msgs, b)
  BY <1>1, QuorumsMeet DEF GivenUp, CertifiedIn
<1>3. QED  BY <1>2 DEF PassedBy, SignersIn

LEMMA CertifiedIsSigned ==
  ASSUME NEW M, NEW b, b # Genesis, CertifiedIn(M, b)
  PROVE  \E q \in Replica : VoteMsg(b, q) \in M
<1>1. Cardinality(SignersIn(M, b)) >= Majority  BY DEF CertifiedIn
<1>2. Cardinality({}) = 0  BY FS_EmptySet
<1>3. SignersIn(M, b) # {}  BY <1>1, <1>2, MajorityFacts
<1>4. QED  BY <1>3 DEF SignersIn

LEMMA UpwardOrGivenUpStep ==
  ASSUME BaseInv, SignaturesRecorded, UpwardOrGivenUp, Grows, BaseInv'
  PROVE  UpwardOrGivenUp'
<1>0. TypeOK /\ TypeOK'  BY DEF BaseInv
<1> SUFFICES ASSUME NEW m \in Signatures', m.type = "vote"
             PROVE  ViewOf[ParentOf[m.block]] < ViewOf[m.block] \/ GivenUp(m.block)'
  BY DEF UpwardOrGivenUp
<1>1. m.block \in Block
  BY <1>0 DEF TypeOK, Signatures, Message, Votes, Proposals, NewViews
<1>2. CASE m \in Signatures
  BY <1>0, <1>1, <1>2, GivenUpStep DEF UpwardOrGivenUp
<1>3. CASE m \notin Signatures
  <2> DEFINE b == m.block
             p == ParentOf[b]
  <2>1. /\ b # Genesis /\ CertifiedIn(msgs, p)
        /\ rep[m.voter].voted < SignedView(m) /\ m.voter \in Replica
        /\ SignedView(m) = ViewOf[b]
    BY <1>3 DEF Grows, SignedView
  <2>2. p \in Block /\ ViewOf[p] \in Nat /\ ViewOf[b] \in Nat /\ ViewOf[b] > 0
    BY <1>1, <2>1, ParentAssumption, BlockAssumption
  <2>3. CASE ViewOf[p] < ViewOf[b]  BY <2>3
  <2>4. CASE ViewOf[p] >= ViewOf[b]
    <3>1. p # Genesis  BY <2>2, <2>4, BlockAssumption
    <3>2. CASE \E q \in Replica : VoteMsg(b, q) \in msgs
      <4>1. PICK q \in Replica : VoteMsg(b, q) \in msgs  BY <3>2
      <4>2. GivenUp(b)
        BY <2>2, <2>4, <4>1, MessageKinds DEF UpwardOrGivenUp, Signatures
      <4>3. QED  BY <1>0, <1>1, <4>2, GivenUpStep
    <3>3. CASE ~ \E q \in Replica : VoteMsg(b, q) \in msgs
      <4>1. \A q \in SignersIn(msgs, p) : q \in Replica /\ rep[q].voted >= ViewOf[b]
                                          /\ rep[q].voted \in Nat
        <5> SUFFICES ASSUME NEW q \in Replica, VoteMsg(p, q) \in msgs
                     PROVE  rep[q].voted >= ViewOf[b] /\ rep[q].voted \in Nat
          BY DEF SignersIn
        <5>1. VoteMsg(p, q) \in Signatures /\ VoteMsg(p, q).voter = q
              /\ SignedView(VoteMsg(p, q)) = ViewOf[p]
          BY MessageKinds DEF Signatures, SignedView
        <5>2. ViewOf[p] <= rep[q].voted  BY <5>1 DEF SignaturesRecorded
        <5>3. QED  BY <2>2, <2>4, <5>2 DEF Grows
      <4>2. \A q \in SignersIn(msgs, p) : VoteMsg(b, q) \notin msgs'
        <5> SUFFICES ASSUME NEW q \in SignersIn(msgs, p), VoteMsg(b, q) \in msgs'
                     PROVE  FALSE
          OBVIOUS
        <5>1. VoteMsg(b, q) \in Signatures' \ Signatures /\ VoteMsg(b, q).voter = q
              /\ SignedView(VoteMsg(b, q)) = ViewOf[b]
          BY SMTT(30), <3>3, <4>1, MessageKinds DEF Signatures, SignedView
        <5>2. rep[q].voted < ViewOf[b]  BY <5>1 DEF Grows
        <5>3. QED  BY <2>2, <4>1, <5>2
      <4>3. SignersIn(msgs, p) \subseteq PassedBy(b)'
        <5>1. \A q \in SignersIn(msgs, p) : rep'[q].voted >= ViewOf[b]
          BY <2>2, <4>1 DEF Grows
        <5>2. QED  BY SMTT(30), <4>1, <4>2, <5>1 DEF PassedBy
      <4>4. PassedBy(b)' \in SUBSET Replica /\ SignersIn(msgs, p) \in SUBSET Replica
        BY DEF PassedBy, SignersIn
      <4>5. Cardinality(SignersIn(msgs, p)) >= Majority  BY <2>1, <3>1 DEF CertifiedIn
      <4> HIDE DEF PassedBy, SignersIn
      <4>6. /\ Cardinality(SignersIn(msgs, p)) \in Nat /\ Cardinality(PassedBy(b)') \in Nat
            /\ Cardinality(SignersIn(msgs, p)) <= Cardinality(PassedBy(b)')
        BY SMTT(30), <4>3, <4>4, SubsetCardinality
      <4>7. QED  BY <4>5, <4>6, MajorityFacts DEF GivenUp
    <3>4. QED  BY <3>2, <3>3
  <2>5. QED  BY <2>2, <2>3, <2>4
<1>4. QED  BY <1>2, <1>3

-----------------------------------------------------------------------------
(* Two certificates of one view are for the same block. *)
LEMMA OneCertPerView ==
  ASSUME SignOnce, NEW a \in Block, NEW b \in Block, a # Genesis, b # Genesis,
         CertifiedIn(msgs, a), CertifiedIn(msgs, b), ViewOf[a] = ViewOf[b]
  PROVE  a = b
<1>1. SignersIn(msgs, a) \in SUBSET Replica /\ SignersIn(msgs, b) \in SUBSET Replica
  BY DEF SignersIn
<1>2. PICK q \in Replica : q \in SignersIn(msgs, a) /\ q \in SignersIn(msgs, b)
  BY <1>1, QuorumsMeet DEF CertifiedIn
<1>3. VoteMsg(a, q) \in Signatures /\ VoteMsg(b, q) \in Signatures
  BY <1>2, MessageKinds DEF Signatures, SignersIn
<1>4. SignedView(VoteMsg(a, q)) = ViewOf[a] /\ SignedView(VoteMsg(b, q)) = ViewOf[b]
  BY MessageKinds DEF SignedView
<1>5. VoteMsg(a, q) = VoteMsg(b, q)  BY <1>3, <1>4, MessageKinds DEF SignOnce
<1>6. QED  BY <1>5, MessageKinds

LEMMA ThreeChainFacts ==
  ASSUME NEW p \in ThreeChains
  PROVE  LET e == ParentOf[p]
             d == Decided(p)
         IN /\ p \in Block /\ e \in Block /\ d \in Block
            /\ p # Genesis /\ e # Genesis /\ ParentOf[e] = d
            /\ ViewOf[d] \in Nat /\ ViewOf[e] = ViewOf[d] + 1 /\ ViewOf[p] = ViewOf[d] + 2
            /\ d \in Ancestors[d] /\ d \in Ancestors[e] /\ d \in Ancestors[p]
<1> DEFINE e == ParentOf[p]
           d == Decided(p)
<1>1. /\ p \in Block /\ e \in Block /\ d \in Block /\ ParentOf[e] = d
      /\ ViewOf[p] - ViewOf[e] = 1 /\ ViewOf[e] - ViewOf[d] = 1
  BY DEF ThreeChains, NoGaps, Decided
<1>2. p # Genesis /\ e # Genesis  BY <1>1, ParentAssumption, BlockAssumption
<1>3. ViewOf[d] \in Nat /\ ViewOf[e] \in Nat /\ ViewOf[p] \in Nat  BY <1>1, BlockAssumption
<1>4. ViewOf[e] = ViewOf[d] + 1 /\ ViewOf[p] = ViewOf[d] + 2  BY <1>1, <1>3
<1>5. d \in Ancestors[d]  BY <1>1, AncestorsAssumption
<1>6. d \in Ancestors[e]  BY <1>1, <1>2, <1>5, AncestorsAssumption
<1>7. d \in Ancestors[p]  BY <1>1, <1>2, <1>6, AncestorsAssumption
<1>8. QED  BY <1>1, <1>2, <1>3, <1>4, <1>5, <1>6, <1>7

LEMMA SignedParent ==
  ASSUME SignaturesRecorded, NEW b, NEW q \in Replica, VoteMsg(b, q) \in msgs
  PROVE  b # Genesis /\ CertifiedIn(msgs, ParentOf[b]) /\ ViewOf[b] <= rep[q].voted
<1>1. VoteMsg(b, q) \in Signatures /\ SignedView(VoteMsg(b, q)) = ViewOf[b]
  BY MessageKinds DEF Signatures, SignedView
<1>2. QED  BY <1>1, MessageKinds DEF SignaturesRecorded

(* A certified block whose view is one of the three of a signed three-chain *)
(* p is on its branch, or p is given up.                                    *)
LEMMA CertBesideThreeChain ==
  ASSUME BaseInv, SignOnce, SignaturesRecorded,
         NEW p \in ThreeChains, NEW q \in Replica, VoteMsg(p, q) \in msgs,
         NEW y \in Block, CertifiedIn(msgs, y),
         ViewOf[Decided(p)] <= ViewOf[y], ViewOf[y] <= ViewOf[p]
  PROVE  Decided(p) \in Ancestors[y] \/ GivenUp(p)
<1> DEFINE e == ParentOf[p]
           d == Decided(p)
<1>1. /\ p \in Block /\ e \in Block /\ d \in Block
      /\ p # Genesis /\ e # Genesis /\ ParentOf[e] = d
      /\ ViewOf[d] \in Nat /\ ViewOf[e] = ViewOf[d] + 1 /\ ViewOf[p] = ViewOf[d] + 2
      /\ d \in Ancestors[d] /\ d \in Ancestors[e] /\ d \in Ancestors[p]
  BY ThreeChainFacts
<1>2. CertifiedIn(msgs, e)  BY SignedParent
<1>3. CertifiedIn(msgs, d)
  <2>1. PICK k \in Replica : VoteMsg(e, k) \in msgs  BY <1>1, <1>2, CertifiedIsSigned
  <2>2. QED  BY <1>1, <2>1, SignedParent
<1> HIDE DEF e, d
<1>4. ViewOf[y] \in Nat  BY BlockAssumption
<1>5. CASE ViewOf[y] = ViewOf[d]
  <2>1. CASE d = Genesis  BY <2>1, AncestorsAssumption DEF d
  <2>2. CASE d # Genesis
    <3>1. y # Genesis  BY <1>1, <1>5, <2>2, BlockAssumption
    <3>2. y = d  BY <1>1, <1>3, <1>5, <2>2, <3>1, OneCertPerView
    <3>3. QED  BY <1>1, <3>2 DEF d
  <2>3. QED  BY <2>1, <2>2
<1>6. CASE ViewOf[y] = ViewOf[e]
  <2>1. y # Genesis  BY <1>1, <1>6, BlockAssumption
  <2>2. y = e  BY <1>1, <1>2, <1>6, <2>1, OneCertPerView
  <2>3. QED  BY <1>1, <2>2 DEF d
<1>7. CASE ViewOf[y] = ViewOf[p]
  <2>0. y # Genesis  BY <1>1, <1>7, BlockAssumption
  <2>1. CASE y = p  BY <1>1, <2>1 DEF d
  <2>2. CASE y # p
    <3>1. \A k \in SignersIn(msgs, y) : k \in PassedBy(p)
      <4> SUFFICES ASSUME NEW k \in Replica, VoteMsg(y, k) \in msgs
                   PROVE  rep[k].voted >= ViewOf[p] /\ VoteMsg(p, k) \notin msgs
        BY DEF SignersIn, PassedBy
      <4>1. ViewOf[y] <= rep[k].voted /\ rep[k].voted \in Nat
        BY SignedParent DEF BaseInv, TypeOK, State
      <4>2. ASSUME VoteMsg(p, k) \in msgs  PROVE FALSE
        <5>1. VoteMsg(p, k) \in Signatures /\ VoteMsg(y, k) \in Signatures
          BY <4>2, MessageKinds DEF Signatures
        <5>2. SignedView(VoteMsg(p, k)) = ViewOf[p] /\ SignedView(VoteMsg(y, k)) = ViewOf[y]
          BY MessageKinds DEF SignedView
        <5>3. VoteMsg(p, k) = VoteMsg(y, k)  BY <1>7, <5>1, <5>2, MessageKinds DEF SignOnce
        <5>4. QED  BY <2>2, <5>3, MessageKinds
      <4>3. QED  BY <1>4, <1>7, <4>1, <4>2
    <3>2. SignersIn(msgs, y) \in SUBSET Replica /\ PassedBy(p) \in SUBSET Replica
      BY DEF SignersIn, PassedBy
    <3>3. /\ Cardinality(SignersIn(msgs, y)) \in Nat /\ Cardinality(PassedBy(p)) \in Nat
          /\ Cardinality(SignersIn(msgs, y)) <= Cardinality(PassedBy(p))
      BY <3>1, <3>2, SubsetCardinality
    <3>4. Cardinality(SignersIn(msgs, y)) >= Majority  BY <2>0 DEF CertifiedIn
    <3>5. QED  BY <3>3, <3>4, MajorityFacts DEF GivenUp
  <2>3. QED  BY <2>1, <2>2
<1>8. QED
  <2>1. ViewOf[d] <= ViewOf[y] /\ ViewOf[y] <= ViewOf[p]  BY DEF d
  <2>2. ViewOf[y] = ViewOf[d] \/ ViewOf[y] = ViewOf[e] \/ ViewOf[y] = ViewOf[p]
    BY <1>1, <1>4, <2>1
  <2>3. QED  BY <1>5, <1>6, <1>7, <2>2

LEMMA SignedBlocksAre ==
  TypeOK => \A b : (\E q \in Replica : VoteMsg(b, q) \in msgs) <=> b \in SignedBlocks
<1> SUFFICES ASSUME TypeOK, NEW b
             PROVE  (\E q \in Replica : VoteMsg(b, q) \in msgs) <=> b \in SignedBlocks
  OBVIOUS
<1>1. ASSUME NEW q \in Replica, VoteMsg(b, q) \in msgs
      PROVE  b \in SignedBlocks
  BY <1>1, MessageKinds DEF SignedBlocks
<1>2. ASSUME b \in SignedBlocks
      PROVE  \E q \in Replica : VoteMsg(b, q) \in msgs
  <2>1. PICK m \in msgs : m.type = "vote" /\ m.block = b  BY <1>2 DEF SignedBlocks
  <2>2. m = VoteMsg(b, m.voter) /\ m.voter \in Replica
    BY <2>1, MessageKinds DEF TypeOK, Votes
  <2>3. QED  BY <2>1, <2>2
<1>3. QED  BY <1>1, <1>2
=============================================================================
