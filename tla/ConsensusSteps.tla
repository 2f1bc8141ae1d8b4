--------------------------- MODULE ConsensusSteps ---------------------------
(***************************************************************************)
(* What a step does to the state of its replica and to the signatures on the *)
(* network.  Proof that BaseInv is an invariant of Spec, and what follows  *)
(* from it for the store of one replica.                                   *)
(***************************************************************************)
EXTENDS ConsensusHandlers

(* What one step of a replica does to the signatures on the network. *)
NewSigs(t) == {m \in t.out : m.type \in {"vote", "newview"}}

SignsNothing(s, t) == NewSigs(t) = {} /\ t.voted = s.voted

SignsVote(r, s, t, b) ==
  /\ b \in Block \ {Genesis} /\ b \in t.headers
  /\ ViewOf[b] > s.voted /\ t.voted = ViewOf[b]
  /\ NewSigs(t) = {VoteMsg(b, r)}
  /\ CertifiedIn(msgs, ParentOf[b])
  /\ RespectsLocks(s, b)

SignsNewView(r, s, t, v, c) ==
  /\ v \in Nat /\ v > s.voted /\ t.voted = v
  /\ NewSigs(t) = {NewViewMsg(v, c, r)}

Signs(r, s, t) ==
  \/ SignsNothing(s, t)
  \/ \E b \in Block : SignsVote(r, s, t, b)
  \/ \E v \in Nat, c \in Block : SignsNewView(r, s, t, v, c)

Effect(r, s, t) ==
  /\ t.out \subseteq Message
  /\ LocalInv(t, msgs \cup t.out)
  /\ \A m \in t.out : m.type = "newview" => CertifiedIn(msgs, m.cert)
  /\ Durable => s.headers \subseteq t.headers /\ Signs(r, s, t)

-----------------------------------------------------------------------------
LEMMA MessageKinds ==
  /\ \A m \in Proposals : m.type = "proposal"
  /\ \A b, r : VoteMsg(b, r).type = "vote" /\ VoteMsg(b, r).block = b
  /\ \A b, r : VoteMsg(b, r).voter = r
  /\ \A v, b, r : NewViewMsg(v, b, r).type = "newview" /\ NewViewMsg(v, b, r).view = v
  /\ \A v, b, r : NewViewMsg(v, b, r).cert = b /\ NewViewMsg(v, b, r).voter = r
  /\ \A b \in Block, r \in Replica : VoteMsg(b, r) \in Message
  /\ \A v \in Nat, b \in Block, r \in Replica : NewViewMsg(v, b, r) \in Message
  /\ \A m \in Message : m.type = "vote" => m \in Votes /\ m = VoteMsg(m.block, m.voter)
  /\ \A m \in Message : m.type = "newview" => m \in NewViews
  /\ \A m \in Message : m.type = "proposal" => m \in Proposals
BY DEF Proposals, Votes, NewViews, Message, VoteMsg, NewViewMsg

LEMMA QuietEffect ==
  ASSUME NEW r \in Replica, NEW s, NEW t, s.out = {}, LocalInv(t, msgs),
         t.voted = s.voted, t.out \subseteq Proposals, s.headers \subseteq t.headers
  PROVE  Effect(r, s, t)
<1>1. t.out \subseteq Message  BY DEF Message
<1>2. LocalInv(t, msgs \cup t.out)  BY LocalInvMonotone
<1>3. \A m \in t.out : m.type = "proposal"  BY MessageKinds
<1>4. NewSigs(t) = {}  BY <1>3 DEF NewSigs
<1>5. QED  BY <1>1, <1>2, <1>3, <1>4 DEF Effect, Signs, SignsNothing

LEMMA VoteEffect ==
  ASSUME NEW r \in Replica, NEW s, NEW t, NEW b \in Block, NEW P \in SUBSET Proposals,
         LocalInv(t, msgs \cup {VoteMsg(b, r)}), s.headers \subseteq t.headers,
         b \in t.headers, b # Genesis, ViewOf[b] > s.voted, t.voted = ViewOf[b],
         t.out = P \cup {VoteMsg(b, r)},
         RespectsLocks(s, b), CertifiedIn(msgs, ParentOf[b])
  PROVE  Effect(r, s, t)
<1>1. t.out \subseteq Message  BY MessageKinds DEF Message
<1>2. LocalInv(t, msgs \cup t.out)
  <2>1. msgs \cup {VoteMsg(b, r)} \subseteq msgs \cup t.out  OBVIOUS
  <2>2. QED  BY <2>1, LocalInvMonotone
<1>3. \A m \in P : m.type = "proposal"  BY MessageKinds
<1>4. NewSigs(t) = {VoteMsg(b, r)}  BY <1>3, MessageKinds DEF NewSigs
<1>5. \A m \in t.out : m.type # "newview"  BY <1>3, MessageKinds
<1>6. SignsVote(r, s, t, b)  BY <1>4 DEF SignsVote
<1>7. QED  BY <1>1, <1>2, <1>5, <1>6 DEF Effect, Signs

LEMMA NewViewEffect ==
  ASSUME NEW r \in Replica, NEW s, NEW t, NEW v \in Nat, NEW c \in Block,
         LocalInv(t, msgs \cup {NewViewMsg(v, c, r)}), s.headers \subseteq t.headers,
         v > s.voted, t.voted = v, t.out = {NewViewMsg(v, c, r)},
         CertifiedIn(msgs, c)
  PROVE  Effect(r, s, t)
<1>1. t.out \subseteq Message  BY MessageKinds
<1>2. LocalInv(t, msgs \cup t.out)  OBVIOUS
<1>4. NewSigs(t) = {NewViewMsg(v, c, r)}  BY MessageKinds DEF NewSigs
<1>5. \A m \in t.out : m.cert = c  BY MessageKinds
<1>6. SignsNewView(r, s, t, v, c)  BY <1>4 DEF SignsNewView
<1>7. QED  BY <1>1, <1>2, <1>5, <1>6 DEF Effect, Signs

(* Every step of a replica has such an effect. *)
LEMMA StepEffect ==
  ASSUME BaseInv, NEW r \in Alive, Step(r)
  PROVE  \E t : Becomes(r, t) /\ Effect(r, rep[r], t)
<1> DEFINE s == rep[r]
<1>0. /\ r \in Replica /\ LocalInv(s, msgs) /\ s.out = {} /\ msgs \subseteq Message
      /\ s \in State
  BY ReplicaAssumption DEF BaseInv, TypeOK
<1> HIDE DEF s
<1>1. CASE Send(r)
  <2>1. PICK b \in Block : Becomes(r, Propose(r, s, b))  BY <1>1 DEF Send, s
  <2> DEFINE t == Propose(r, s, b)
             m == ProposalMsg(b, s.timeoutCert, r)
  <2>2. /\ m \in Proposals
        /\ s.headers \subseteq t.headers
        /\ \/ LocalInv(t, msgs) /\ t.voted = s.voted /\ t.out = {m}
           \/ /\ LocalInv(t, msgs \cup {VoteMsg(b, r)})
              /\ b \in t.headers /\ b # Genesis /\ ViewOf[b] > s.voted
              /\ t.voted = ViewOf[b] /\ t.out = {m} \cup {VoteMsg(b, r)}
              /\ RespectsLocks(s, b) /\ CertifiedIn(msgs, ParentOf[b])
    BY <1>0, ProposeKeeps
  <2>3. Becomes(r, t)  BY <2>1
  <2> HIDE DEF t, m
  <2>4. CASE LocalInv(t, msgs) /\ t.voted = s.voted /\ t.out = {m}
    <3>1. Effect(r, s, t)  BY <1>0, <2>2, <2>4, QuietEffect
    <3>2. QED  BY <2>3, <3>1 DEF s
  <2>5. CASE /\ LocalInv(t, msgs \cup {VoteMsg(b, r)})
             /\ b \in t.headers /\ b # Genesis /\ ViewOf[b] > s.voted
             /\ t.voted = ViewOf[b] /\ t.out = {m} \cup {VoteMsg(b, r)}
             /\ RespectsLocks(s, b) /\ CertifiedIn(msgs, ParentOf[b])
    <3>1. {m} \in SUBSET Proposals  BY <2>2
    <3>2. Effect(r, s, t)  BY Zenon, <1>0, <2>2, <2>5, <3>1, VoteEffect
    <3>3. QED  BY <2>3, <3>2 DEF s
  <2>6. QED  BY <2>2, <2>4, <2>5
<1>2. CASE Timeout(r)
  <2> DEFINE t == OnTimeout(r, s)
  <2>1. Becomes(r, t)  BY <1>2 DEF Timeout, s
  <2>2. /\ t.headers = s.headers
        /\ \/ LocalInv(t, msgs) /\ Quiet(s, t)
           \/ \E v \in Nat : /\ GivesUpView(r, s, t, v, s.prepare)
                             /\ LocalInv(t, msgs \cup {NewViewMsg(v, s.prepare, r)})
    BY Zenon, <1>0, OnTimeoutKeeps
  <2> HIDE DEF t
  <2>3. CASE LocalInv(t, msgs) /\ Quiet(s, t)
    <3>1. Effect(r, s, t)  BY <1>0, <2>2, <2>3, QuietEffect DEF Quiet
    <3>2. QED  BY <2>1, <3>1 DEF s
  <2>4. CASE \E v \in Nat : /\ GivesUpView(r, s, t, v, s.prepare)
                            /\ LocalInv(t, msgs \cup {NewViewMsg(v, s.prepare, r)})
    <3>1. PICK v \in Nat : /\ GivesUpView(r, s, t, v, s.prepare)
                           /\ LocalInv(t, msgs \cup {NewViewMsg(v, s.prepare, r)})
      BY SMTT(30), <2>4
    <3>2. CertifiedIn(msgs, s.prepare) /\ s.prepare \in Block
      BY <1>0 DEF LocalInv, StoreInv, TagsCertified, State
    <3>3. t.out = {NewViewMsg(v, s.prepare, r)} /\ v > s.voted /\ t.voted = v
      BY <1>0, <3>1 DEF GivesUpView
    <3>4. Effect(r, s, t)  BY <1>0, <2>2, <3>1, <3>2, <3>3, NewViewEffect
    <3>5. QED  BY <2>1, <3>4 DEF s
  <2>5. QED  BY <2>2, <2>3, <2>4
<1>3. CASE ReceiveProposal(r)
  <2>1. PICK m \in msgs : m.type = "proposal" /\ Becomes(r, OnProposal(r, s, m))
    BY <1>3 DEF ReceiveProposal, s
  <2> DEFINE t == OnProposal(r, s, m)
             b == m.block
  <2>2. m \in Proposals  BY <1>0, <2>1, MessageKinds
  <2>3. ProposalResult(r, s, t, b, msgs)  BY <1>0, <2>2, OnProposalKeeps
  <2>4. Becomes(r, t) /\ b \in Block  BY <2>1, <2>2 DEF Proposals
  <2> HIDE DEF t, b
  <2>5. CASE LocalInv(t, msgs) /\ Quiet(s, t)
    <3>1. Effect(r, s, t)  BY <1>0, <2>3, <2>5, QuietEffect DEF Quiet, ProposalResult
    <3>2. QED  BY <2>4, <3>1 DEF s
  <2>6. CASE /\ VotesFor(r, s, t, b) /\ RespectsLocks(s, b)
             /\ CertifiedIn(msgs, ParentOf[b])
             /\ LocalInv(t, msgs \cup {VoteMsg(b, r)})
    <3>1. /\ b \in t.headers /\ b # Genesis /\ ViewOf[b] > s.voted
          /\ t.voted = ViewOf[b] /\ t.out = {} \cup {VoteMsg(b, r)}
      BY <1>0, <2>6 DEF VotesFor
    <3>2. s.headers \subseteq t.headers  BY <2>3 DEF ProposalResult
    <3>3. {} \in SUBSET Proposals  OBVIOUS
    <3>4. Effect(r, s, t)  BY <1>0, <2>4, <2>6, <3>1, <3>2, <3>3, VoteEffect
    <3>5. QED  BY <2>4, <3>4 DEF s
  <2>7. QED  BY <2>3, <2>5, <2>6 DEF ProposalResult
<1>4. CASE ReceiveVote(r)
  <2>1. PICK m \in msgs : m.type = "vote" /\ Becomes(r, OnVote(r, s, m))
    BY <1>4 DEF ReceiveVote, s
  <2> DEFINE t == OnVote(r, s, m)
  <2>2. m \in Votes  BY <1>0, <2>1, MessageKinds
  <2>3. LocalInv(t, msgs) /\ Quiet(s, t) /\ t.headers = s.headers
    BY <1>0, <2>2, OnVoteKeeps
  <2>4. Becomes(r, t)  BY <2>1
  <2> HIDE DEF t
  <2>5. Effect(r, s, t)  BY <1>0, <2>3, QuietEffect DEF Quiet
  <2>6. QED  BY <2>4, <2>5 DEF s
<1>5. CASE ReceiveNewView(r)
  <2>1. PICK m \in msgs : m.type = "newview" /\ Becomes(r, OnNewView(r, s, m))
    BY <1>5 DEF ReceiveNewView, s
  <2> DEFINE t == OnNewView(r, s, m)
  <2>2. m \in NewViews  BY <1>0, <2>1, MessageKinds
  <2>3. CertifiedIn(msgs, m.cert)  BY <2>1 DEF BaseInv, Signatures
  <2>4. LocalInv(t, msgs) /\ Quiet(s, t) /\ t.headers = s.headers
    BY <1>0, <2>2, <2>3, OnNewViewKeeps
  <2>5. Becomes(r, t)  BY <2>1
  <2> HIDE DEF t
  <2>6. Effect(r, s, t)  BY <1>0, <2>4, QuietEffect DEF Quiet
  <2>7. QED  BY <2>5, <2>6 DEF s
<1>6. CASE Restart(r)
  <2> DEFINE t == Boot(r, [Reload(s) EXCEPT !.restarts = @ + 1])
  <2>1. Becomes(r, t)  BY <1>6 DEF Restart, s
  <2>2. /\ LocalInv(t, msgs) /\ t.out = {}
        /\ Durable => t.voted = s.voted /\ t.headers = s.headers
    BY <1>0, RestartKeeps
  <2> HIDE DEF t
  <2>3. msgs \cup t.out = msgs /\ NewSigs(t) = {}  BY <2>2 DEF NewSigs
  <2>4. Effect(r, s, t)  BY <2>2, <2>3 DEF Effect, Signs, SignsNothing
  <2>5. QED  BY <2>1, <2>4 DEF s
<1>7. QED  BY <1>1, <1>2, <1>3, <1>4, <1>5, <1>6 DEF Step, s

-----------------------------------------------------------------------------
(* The next state in terms of the effect of the step. *)
Moves(r, t) ==
  /\ \A q \in Replica : q # r => rep'[q] = rep[q]
  /\ rep'[r].voted = t.voted /\ rep'[r].headers = t.headers
  /\ msgs' = msgs \cup t.out
  /\ Effect(r, rep[r], t)

LEMMA BaseStep ==
  ASSUME BaseInv, NEW r \in Alive, Step(r)
  PROVE  BaseInv' /\ r \in Replica /\ \E t : Moves(r, t)
<1>1. PICK t : Becomes(r, t) /\ Effect(r, rep[r], t)  BY StepEffect
<1>2. /\ r \in Replica /\ rep \in [Replica -> State] /\ msgs \subseteq Message
      /\ \A q \in Replica : rep[q].out = {} /\ LocalInv(rep[q], msgs)
  BY ReplicaAssumption DEF BaseInv, TypeOK
<1> DEFINE n == [t EXCEPT !.out = {}]
<1>3. t \in State  BY <1>1 DEF Effect, LocalInv, StoreInv
<1>4. /\ n \in State /\ n.out = {} /\ SameStore(t, n)
      /\ n.voted = t.voted /\ n.view = t.view /\ n.ballot = t.ballot /\ n.votes = t.votes
  BY SMTT(30), <1>3 DEF State, SameStore
<1>5. /\ rep' = [rep EXCEPT ![r] = n]
      /\ msgs' = msgs \cup t.out
  BY <1>1 DEF Becomes
<1> HIDE DEF n
<1>6. rep'[r] = n /\ \A q \in Replica : q # r => rep'[q] = rep[q]
  BY <1>2, <1>5
<1>7. TypeOK'
  <2>1. rep' \in [Replica -> State]  BY <1>2, <1>4, <1>5
  <2>2. \A q \in Replica : rep'[q].out = {}  BY <1>2, <1>4, <1>6
  <2>3. msgs' \subseteq Message  BY <1>1, <1>2, <1>5 DEF Effect
  <2>4. QED  BY <2>1, <2>2, <2>3 DEF TypeOK
<1>8. \A q \in Replica : LocalInv(rep'[q], msgs')
  <2>1. LocalInv(n, msgs')  BY <1>1, <1>4, <1>5, OutsideKeeps DEF Effect
  <2>2. msgs \subseteq msgs'  BY <1>5
  <2>3. \A q \in Replica : LocalInv(rep[q], msgs')  BY <1>2, <2>2, LocalInvMonotone
  <2>4. QED  BY <1>6, <2>1, <2>3
<1>9. \A m \in Signatures' : m.type = "newview" => CertifiedIn(msgs', m.cert)
  <2> SUFFICES ASSUME NEW m \in msgs', m.type = "newview"
               PROVE  CertifiedIn(msgs', m.cert)
    BY DEF Signatures
  <2>1. msgs \subseteq msgs'  BY <1>5
  <2>2. CertifiedIn(msgs, m.cert)
    <3>1. CASE m \in msgs  BY <3>1 DEF BaseInv, Signatures
    <3>2. CASE m \in t.out  BY <1>1, <3>2 DEF Effect
    <3>3. QED  BY <1>5, <3>1, <3>2
  <2>3. QED  BY <2>1, <2>2, CertifiedMonotone
<1>10. BaseInv'  BY <1>7, <1>8, <1>9 DEF BaseInv
<1>11. Moves(r, t)  BY <1>1, <1>4, <1>5, <1>6 DEF Moves, SameStore
<1>12. QED  BY <1>2, <1>10, <1>11

LEMMA InitialState ==
  ASSUME Init
  PROVE  IInv
<1>1. /\ rep = [r \in Replica |-> Boot(r, GenesisState)]
      /\ msgs = {}
  BY DEF Init
<1>2. GenesisState \in State /\ StoreInv(GenesisState, msgs)
  BY GenesisKeeps DEF LocalInv, StoreInv
<1>3. NoBallot(GenesisState) /\ GenesisState.out = {}  BY DEF GenesisState, NoBallot
<1>4. \A r \in Replica : LocalInv(rep[r], msgs) /\ rep[r].out = {}
  <2> SUFFICES ASSUME NEW r \in Replica
               PROVE  LocalInv(rep[r], msgs) /\ rep[r].out = {}
    OBVIOUS
  <2>1. rep[r] = Boot(r, GenesisState)  BY <1>1
  <2>2. QED  BY <1>2, <1>3, <2>1, BootKeeps DEF Quiet
<1>5. \A r \in Replica : Boot(r, GenesisState) \in State
  BY <1>1, <1>4 DEF LocalInv, StoreInv
<1>6. TypeOK  BY <1>1, <1>4, <1>5 DEF TypeOK
<1>7. Signatures = {} /\ SignedBlocks = {}  BY <1>1 DEF Signatures, SignedBlocks
<1>8. BaseInv  BY <1>4, <1>6, <1>7 DEF BaseInv
<1>9. /\ SignOnce /\ SignaturesRecorded /\ VotesRespectLocks
      /\ UpwardOrGivenUp /\ LaterCertsExtend
  BY <1>7 DEF SignOnce, SignaturesRecorded, VotesRespectLocks, UpwardOrGivenUp,
              LaterCertsExtend
<1>10. QED  BY <1>8, <1>9 DEF IInv

(* What every store says is so, also of a replica that lost its store and   *)
(* started again from the genesis.                                          *)
THEOREM BaseInvariant == Spec => []BaseInv
<1>1. Init => BaseInv  BY InitialState DEF IInv
<1>2. BaseInv /\ [Next]_vars => BaseInv'
  <2> SUFFICES ASSUME BaseInv, [Next]_vars
               PROVE  BaseInv'
    OBVIOUS
  <2>1. CASE Next  BY <2>1, BaseStep DEF Next
  <2>2. CASE UNCHANGED vars
    BY <2>2 DEF vars, BaseInv, TypeOK, Signatures
  <2>3. QED  BY <2>1, <2>2
<1>3. QED  BY <1>1, <1>2, PTL DEF Spec

LEMMA CertifiedHere == \A b : Certified(b) <=> CertifiedIn(msgs, b)
BY DEF Certified, CertifiedIn, Signers, SignersIn

(* The state of every replica keeps its type through every handler. *)
THEOREM TypeCorrect == Spec => []TypeOK
<1>1. BaseInv => TypeOK  BY DEF BaseInv
<1>2. QED  BY <1>1, BaseInvariant, PTL

(* updatePrepare, onVote, onProposal and onNewView keep prepare the highest *)
(* of the certificates in the store, and store valid certificates only.     *)
THEOREM HighestCertificate == Spec => []PrepareIsHighestCert
<1>1. BaseInv => PrepareIsHighestCert
  <2> SUFFICES ASSUME BaseInv, NEW r \in Replica
               PROVE  /\ Certified(rep[r].prepare)
                      /\ \A b \in rep[r].certs : Certified(b) /\ ViewOf[b] <= ViewOf[rep[r].prepare]
    BY DEF PrepareIsHighestCert
  <2>1. TagsCertified(rep[r], msgs)  BY DEF BaseInv, LocalInv, StoreInv
  <2>2. QED  BY <2>1, CertifiedHere DEF TagsCertified
<1>2. QED  BY <1>1, BaseInvariant, PTL

(* onProposal never stores a header without its whole branch. *)
THEOREM ClosedStore == Spec => []StoreIsClosed
<1>1. BaseInv => StoreIsClosed
  BY DEF BaseInv, LocalInv, StoreInv, Closed, StoreIsClosed
<1>2. QED  BY <1>1, BaseInvariant, PTL

(* update locks every two-chain that a stored block completes. *)
THEOREM LockedTwoChains == Spec => []TwoChainIsLocked
<1>1. BaseInv => TwoChainIsLocked
  BY DEF BaseInv, LocalInv, StoreInv, Locks, TwoChainIsLocked
<1>2. QED  BY <1>1, BaseInvariant, PTL
=============================================================================
