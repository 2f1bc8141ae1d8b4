------------------------- MODULE ConsensusHandlers --------------------------
(***************************************************************************)
(* What each handler of Consensus does to the state of one replica: its    *)
(* type, what it leaves alone, what it signs, and that it keeps the local  *)
(* part of the inductive invariant.                                        *)
(***************************************************************************)
EXTENDS ConsensusStore

(* persistProposal stores a block whose parent is stored, certified and, with *)
(* the parent's parent, covered by the lock.                                  *)
LEMMA PersistProposalKeeps ==
  ASSUME NEW s, NEW M, LocalInv(s, M), NEW b \in Block, b # Genesis,
         ParentOf[b] \in s.headers, CertifiedIn(M, ParentOf[b]),
         ViewOf[ParentOf[b]] <= ViewOf[s.prepare], LocksParent(s, ParentOf[b])
  PROVE  LET t == PersistProposal(s, b)
         IN /\ LocalInv(t, M) /\ Quiet(s, t)
            /\ t.headers = s.headers \cup {b}
            /\ t.prepare = s.prepare /\ t.locked = s.locked
            /\ t.view = s.view /\ t.ballot = s.ballot /\ t.votes = s.votes
<1> DEFINE p == ParentOf[b]
           t == PersistProposal(s, b)
<1>0. s \in State /\ p \in Block  BY DEF LocalInv, StoreInv, State
<1>1. t \in State  BY Zenon, <1>0 DEF PersistProposal, State
<1>2. /\ Quiet(s, t) /\ t.headers = s.headers \cup {b} /\ t.certs = s.certs \cup {p}
      /\ t.prepare = s.prepare /\ t.locked = s.locked /\ t.commit = s.commit
      /\ t.view = s.view /\ t.ballot = s.ballot /\ t.votes = s.votes
  BY <1>0 DEF PersistProposal, State, Quiet
<1> HIDE DEF t
<1>3. TagsCertified(t, M)  BY <1>2 DEF LocalInv, StoreInv, TagsCertified
<1>4. TagsOrdered(t)  BY <1>2 DEF LocalInv, StoreInv, TagsOrdered
<1>5. Closed(t, M)  BY <1>2 DEF LocalInv, StoreInv, Closed
<1>6. Locks(t)
  <2>1. SUFFICES ASSUME NEW c \in t.headers, ParentOf[c] \in t.headers,
                        ParentOf[ParentOf[c]] \in t.headers
                 PROVE  ViewOf[ParentOf[ParentOf[c]]] <= ViewOf[t.locked]
    BY DEF Locks
  <2>2. /\ c \in Block /\ c # Genesis /\ ParentOf[c] \in Block /\ ParentOf[c] # Genesis
    BY Zenon, <1>0, <1>1, <2>1, ParentAssumption, BlockAssumption DEF State
  <2>3. ParentOf[c] \in s.headers
    BY <1>2, <2>1, <2>2 DEF LocalInv, StoreInv, Closed
  <2>4. ParentOf[ParentOf[c]] \in s.headers
    BY <2>2, <2>3 DEF LocalInv, StoreInv, Closed
  <2>5. CASE c \in s.headers
    BY <1>2, <2>3, <2>4, <2>5 DEF LocalInv, StoreInv, Locks
  <2>6. CASE c = b  BY <1>2, <2>4, <2>6 DEF LocksParent
  <2>7. QED  BY <1>2, <2>1, <2>5, <2>6
<1>7. CommitDecided(t, M)  BY <1>2 DEF LocalInv, StoreInv, CommitDecided
<1>8. BallotInv(t, M)  BY <1>2 DEF LocalInv, BallotInv, Quiet
<1>9. LocalInv(t, M)
  BY <1>1, <1>3, <1>4, <1>5, <1>6, <1>7, <1>8 DEF LocalInv, StoreInv
<1>10. QED  BY <1>2, <1>9 DEF t

(* onVote counts a vote that is on the network; with enough of them the      *)
(* block is certified.                                                       *)
LEMMA OnVoteKeeps ==
  ASSUME NEW r \in Replica, NEW s, NEW M, LocalInv(s, M), NEW m \in Votes, m \in M
  PROVE  LET t == OnVote(r, s, m)
         IN LocalInv(t, M) /\ Quiet(s, t) /\ t.headers = s.headers
<1> DEFINE c == [s EXCEPT !.votes = @ \cup {m.voter}]
           saved == UpdatePrepare([c EXCEPT !.certs = @ \cup {m.block}], m.block)
           synced == SyncView(r, saved, m.block, NoTimeout)
           t == OnVote(r, s, m)
<1>0. /\ s \in State /\ m.voter \in Replica /\ m.block \in Block
      /\ m = VoteMsg(m.block, m.voter)
  BY DEF LocalInv, StoreInv, Votes, VoteMsg
<1>1. CASE ~ CollectsVote(r, s, m)
  <2>1. t = s  BY <1>1 DEF OnVote
  <2>2. QED  BY <2>1 DEF Quiet
<1>2. CASE CollectsVote(r, s, m)
  <2>1. m.block = s.ballot /\ s.ballot # NoBlock
    BY <1>0, <1>2, BlockAssumption DEF CollectsVote
  <2>2. /\ m.block \in s.headers
        /\ s.votes \cup {m.voter} \subseteq SignersIn(M, m.block)
    BY <1>0, <2>1 DEF LocalInv, BallotInv, SignersIn
  <2>3. c \in State  BY <1>0 DEF State
  <2>4. /\ SameStore(s, c) /\ Quiet(s, c)
        /\ c.votes = s.votes \cup {m.voter}
        /\ c.view = s.view /\ c.ballot = s.ballot
    BY <1>0 DEF State, SameStore, Quiet
  <2>5. LocalInv(c, M)
    <3>1. StoreInv(c, M)  BY <2>3, <2>4, SameStoreKeeps DEF LocalInv
    <3> HIDE DEF c
    <3>2. BallotInv(c, M)
      BY <2>1, <2>2, <2>4 DEF LocalInv, BallotInv, SameStore, Quiet
    <3>3. QED  BY <3>1, <3>2 DEF LocalInv
  <2>6. CASE Cardinality(c.votes) < Majority
    <3>1. t = c  BY <1>2, <2>6 DEF OnVote
    <3> HIDE DEF c
    <3>2. QED  BY <2>4, <2>5, <3>1 DEF SameStore, Quiet
  <2>7. CASE ~ (Cardinality(c.votes) < Majority)
    <3>1. t = NextRound(r, synced)  BY <1>2, <2>7 DEF OnVote
    <3>2. CertifiedIn(M, m.block)
      <4>1. SignersIn(M, m.block) \in SUBSET Replica /\ c.votes \subseteq SignersIn(M, m.block)
        BY <2>2, <2>4 DEF SignersIn
      <4> HIDE DEF c
      <4>2. c.votes \in SUBSET Replica  BY <4>1
      <4>3. QED  BY <2>7, <4>1, <4>2, SubsetCardinality, MajorityFacts DEF CertifiedIn
    <3>3. m.block \in c.headers  BY <2>2, <2>4 DEF SameStore
    <3> HIDE DEF c
    <3>4. LocalInv(saved, M) /\ Quiet(c, saved) /\ saved.headers = c.headers
      BY <2>5, <3>2, <3>3, SaveCertKeeps
    <3> HIDE DEF saved
    <3>5. saved \in State /\ NoTimeout \in Nat  BY <3>4 DEF LocalInv, StoreInv, NoTimeout
    <3>6. /\ synced \in State /\ SameStore(saved, synced) /\ Quiet(saved, synced)
      BY <1>0, <3>5, SyncViewFacts
    <3>7. LocalInv(synced, M)  BY <1>0, <3>4, <3>5, SyncViewKeeps
    <3> HIDE DEF synced
    <3>8. t \in State /\ SameStore(synced, t) /\ Quiet(synced, t) /\ NoBallot(t)
      BY <3>1, <3>6, NextRoundFacts
    <3> HIDE DEF t
    <3>9. LocalInv(t, M)  BY <3>7, <3>8, SameStoreKeeps, NoBallotKeeps DEF LocalInv
    <3>10. QED  BY <2>4, <3>4, <3>6, <3>8, <3>9 DEF SameStore, Quiet, t
  <2>8. QED  BY <2>6, <2>7
<1>3. QED  BY <1>1, <1>2

(* r signs block b, of a later view than anything it signed before. *)
VotesFor(r, s, t, b) ==
  /\ b \in t.headers /\ b # Genesis
  /\ ViewOf[b] > s.voted
  /\ t.voted = ViewOf[b]
  /\ t.out = s.out \cup {VoteMsg(b, r)}

LEMMA SendVoteKeeps ==
  ASSUME NEW r \in Replica, NEW s, NEW M, LocalInv(s, M),
         NEW b \in s.headers, b # Genesis, ViewOf[b] = s.view, ViewOf[b] > s.voted
  PROVE  LET t == SendVote(r, s, b)
         IN /\ LocalInv(t, M \cup {VoteMsg(b, r)})
            /\ VotesFor(r, s, t, b)
            /\ t.headers = s.headers
<1> DEFINE m == VoteMsg(b, r)
           M2 == M \cup {m}
           v == [s EXCEPT !.voted = ViewOf[b], !.ballot = b, !.out = @ \cup {m}]
           t == SendVote(r, s, b)
<1>0. s \in State /\ b \in Block /\ ViewOf[b] \in Nat
  BY BlockAssumption DEF LocalInv, StoreInv, State
<1>1. m \in Votes /\ m \in Message  BY <1>0 DEF VoteMsg, Votes, Message
<1>2. v \in State  BY Zenon, <1>0, <1>1 DEF State
<1>3. /\ SameStore(s, v) /\ v.voted = ViewOf[b] /\ v.out = s.out \cup {m}
      /\ v.ballot = b /\ v.votes = s.votes /\ v.view = s.view
  BY <1>0 DEF State, SameStore
<1>4. s.votes = {}
  BY <1>0 DEF LocalInv, BallotInv, State
<1>5. LocalInv(s, M2)  BY LocalInvMonotone
<1> HIDE DEF m, v
<1>6. StoreInv(v, M2)  BY <1>2, <1>3, <1>5, SameStoreKeeps DEF LocalInv
<1>7. BallotInv(v, M2)  BY <1>0, <1>3, <1>4, BlockAssumption DEF BallotInv, SameStore
<1>8. LocalInv(v, M2)  BY <1>6, <1>7 DEF LocalInv
<1>9. /\ LocalInv(t, M2) /\ Quiet(v, t) /\ t.headers = v.headers
  <2>1. CASE r = Leader(ViewOf[b] + 1)
    <3>1. t = OnVote(r, v, m)  BY <2>1 DEF SendVote, v, m
    <3>2. QED  BY <1>1, <1>8, <3>1, OnVoteKeeps
  <2>2. CASE r # Leader(ViewOf[b] + 1)
    <3>1. t = v  BY <2>2 DEF SendVote, v, m
    <3>2. QED  BY <1>8, <3>1 DEF Quiet
  <2>3. QED  BY <2>1, <2>2
<1> HIDE DEF t
<1>10. VotesFor(r, s, t, b)  BY <1>3, <1>9 DEF VotesFor, Quiet, SameStore, m
<1>11. t.headers = s.headers  BY <1>3, <1>9 DEF SameStore
<1>12. QED  BY <1>9, <1>10, <1>11 DEF t, m

(* onNewView takes the certified block of the message if it is stored. *)
LEMMA OnNewViewKeeps ==
  ASSUME NEW r \in Replica, NEW s, NEW M, LocalInv(s, M),
         NEW m \in NewViews, CertifiedIn(M, m.cert)
  PROVE  LET t == OnNewView(r, s, m)
         IN LocalInv(t, M) /\ Quiet(s, t) /\ t.headers = s.headers
<1> DEFINE p == UpdatePrepare(s, m.cert)
           c == [p EXCEPT !.received = @ \cup {m.voter}]
           d == [c EXCEPT !.timeoutCert = m.view]
           synced == SyncView(r, d, c.prepare, m.view)
           t == OnNewView(r, s, m)
<1>0. s \in State /\ m.voter \in Replica /\ m.cert \in Block /\ m.view \in Nat
  BY DEF LocalInv, StoreInv, NewViews
<1>1. CASE r # Leader(m.view + 1) \/ m.cert \notin s.headers
  <2>1. t = s  BY <1>1 DEF OnNewView
  <2>2. QED  BY <2>1 DEF Quiet
<1>2. CASE ~ (r # Leader(m.view + 1) \/ m.cert \notin s.headers)
  <2>1. LocalInv(p, M)  BY <1>2, UpdatePrepareKeeps
  <2>2. Quiet(s, p) /\ p.headers = s.headers  BY <1>0, UpdatePrepareFacts
  <2>3. CASE ~ CollectsNewView(p, m)
    <3>1. t = p  BY <1>2, <2>3 DEF OnNewView
    <3>2. QED  BY <2>1, <2>2, <3>1
  <2>4. CASE CollectsNewView(p, m)
    <3>0. p \in State  BY <2>1 DEF LocalInv, StoreInv
    <3>1. t = IF Cardinality(c.received) < Majority THEN c
              ELSE IF s.view = m.view THEN NextRound(r, synced)
              ELSE [synced EXCEPT !.waitingData = TRUE]
      BY <1>2, <2>4 DEF OnNewView
    <3> HIDE DEF p
    <3>2. c \in State /\ d \in State  BY Zenon, <1>0, <3>0 DEF State
    <3>3. /\ SameStore(p, c) /\ Quiet(p, c)
          /\ c.view = p.view /\ c.ballot = p.ballot /\ c.votes = p.votes
          /\ SameStore(p, d) /\ Quiet(p, d)
          /\ d.view = p.view /\ d.ballot = p.ballot /\ d.votes = p.votes
      BY <3>0 DEF State, SameStore, Quiet
    <3> HIDE DEF c, d
    <3>4. LocalInv(c, M) /\ LocalInv(d, M)
      <4>1. StoreInv(c, M) /\ StoreInv(d, M)
        BY <2>1, <3>2, <3>3, SameStoreKeeps DEF LocalInv
      <4>2. BallotInv(c, M) /\ BallotInv(d, M)
        BY <2>1, <3>3 DEF LocalInv, BallotInv, SameStore, Quiet
      <4>3. QED  BY <4>1, <4>2 DEF LocalInv
    <3>5. c.prepare \in Block  BY <3>2 DEF State
    <3>6. synced \in State /\ SameStore(d, synced) /\ Quiet(d, synced)
      BY <1>0, <3>2, <3>5, SyncViewFacts
    <3>7. LocalInv(synced, M)  BY <1>0, <3>4, <3>5, SyncViewKeeps
    <3> HIDE DEF synced
    <3>8. CASE Cardinality(c.received) < Majority
      <4>1. t = c  BY <3>1, <3>8
      <4>2. QED  BY <2>2, <3>3, <3>4, <4>1 DEF SameStore, Quiet
    <3>9. CASE ~ (Cardinality(c.received) < Majority) /\ s.view = m.view
      <4>1. t = NextRound(r, synced)  BY <3>1, <3>9
      <4>2. t \in State /\ SameStore(synced, t) /\ Quiet(synced, t) /\ NoBallot(t)
        BY <3>6, <4>1, NextRoundFacts
      <4> HIDE DEF t
      <4>3. LocalInv(t, M)  BY <3>7, <4>2, SameStoreKeeps, NoBallotKeeps DEF LocalInv
      <4>4. QED  BY <2>2, <3>3, <3>6, <4>2, <4>3 DEF SameStore, Quiet, t
    <3>10. CASE ~ (Cardinality(c.received) < Majority) /\ s.view # m.view
      <4>1. t = [synced EXCEPT !.waitingData = TRUE]  BY <3>1, <3>10
      <4>2. t \in State  BY ZenonT(40), <3>6, <4>1 DEF State
      <4>3. /\ SameStore(synced, t) /\ Quiet(synced, t)
            /\ t.view = synced.view /\ t.ballot = synced.ballot /\ t.votes = synced.votes
        BY <3>6, <4>1 DEF State, SameStore, Quiet
      <4> HIDE DEF t
      <4>4. StoreInv(t, M)  BY <3>7, <4>2, <4>3, SameStoreKeeps DEF LocalInv
      <4>5. BallotInv(t, M)  BY <3>7, <4>3 DEF LocalInv, BallotInv, SameStore, Quiet
      <4>6. QED  BY <2>2, <3>3, <3>6, <4>3, <4>4, <4>5 DEF LocalInv, SameStore, Quiet, t
    <3>11. QED  BY <3>8, <3>9, <3>10
  <2>5. QED  BY <2>3, <2>4
<1>3. QED  BY <1>1, <1>2

(* r signs that it gives up view v, later than anything it signed before. *)
GivesUpView(r, s, t, v, c) ==
  /\ v \in Nat /\ c \in Block
  /\ v > s.voted
  /\ t.voted = v
  /\ t.out = s.out \cup {NewViewMsg(v, c, r)}

LEMMA SendNewViewKeeps ==
  ASSUME NEW r \in Replica, NEW s, NEW M, StoreInv(s, M), NoBallot(s),
         s.view - 1 > s.voted
  PROVE  LET t == SendNewView(r, s)
         IN /\ LocalInv(t, M \cup {NewViewMsg(s.view - 1, s.prepare, r)})
            /\ GivesUpView(r, s, t, s.view - 1, s.prepare)
            /\ t.headers = s.headers
<1> DEFINE m == NewViewMsg(s.view - 1, s.prepare, r)
           M2 == M \cup {m}
           v == [s EXCEPT !.voted = s.view - 1, !.out = @ \cup {m}]
           t == SendNewView(r, s)
<1>0. s \in State /\ s.view - 1 \in Nat /\ s.prepare \in Block  BY DEF StoreInv, State
<1>1. m \in NewViews /\ m \in Message /\ m.cert = s.prepare
  BY <1>0 DEF NewViewMsg, NewViews, Message
<1>2. v \in State  BY Zenon, <1>0, <1>1 DEF State
<1>3. /\ SameStore(s, v) /\ v.voted = s.view - 1 /\ v.out = s.out \cup {m}
      /\ NoBallot(v)
  BY <1>0 DEF State, SameStore, NoBallot
<1>4. LocalInv(s, M2)  BY LocalInvMonotone, NoBallotKeeps
<1> HIDE DEF m, v
<1>5. LocalInv(v, M2)
  BY <1>2, <1>3, <1>4, SameStoreKeeps, NoBallotKeeps DEF LocalInv
<1>6. CertifiedIn(M2, m.cert)  BY <1>1, <1>4 DEF LocalInv, StoreInv, TagsCertified
<1>7. LocalInv(t, M2) /\ Quiet(v, t) /\ t.headers = v.headers
  <2>1. CASE r = Leader(s.view)
    <3>1. t = OnNewView(r, v, m)  BY <2>1 DEF SendNewView, v, m
    <3>2. QED  BY <1>1, <1>5, <1>6, <3>1, OnNewViewKeeps
  <2>2. CASE r # Leader(s.view)
    <3>1. t = v  BY <2>2 DEF SendNewView, v, m
    <3>2. QED  BY <1>5, <3>1 DEF Quiet
  <2>3. QED  BY <2>1, <2>2
<1> HIDE DEF t
<1>8. GivesUpView(r, s, t, s.view - 1, s.prepare)
  BY <1>0, <1>3, <1>7 DEF GivesUpView, Quiet, m
<1>9. QED  BY <1>3, <1>7, <1>8 DEF SameStore, t, m

(* onTimeout either sends a new-view or signs nothing. *)
LEMMA OnTimeoutKeeps ==
  ASSUME NEW r \in Replica, NEW s, NEW M, LocalInv(s, M)
  PROVE  LET t == OnTimeout(r, s)
         IN /\ t.headers = s.headers
            /\ \/ LocalInv(t, M) /\ Quiet(s, t)
               \/ \E v \in Nat : /\ GivesUpView(r, s, t, v, s.prepare)
                                 /\ LocalInv(t, M \cup {NewViewMsg(v, s.prepare, r)})
<1> DEFINE n == [s EXCEPT !.view = @ + 1]
           e == EnterView(r, n)
           t == OnTimeout(r, s)
<1>0. s \in State /\ s.view \in Nat /\ s.voted \in Nat  BY DEF LocalInv, StoreInv, State
<1>1. n \in State
  <2> DEFINE k == s.view + 1
  <2>1. k \in Nat /\ n = [s EXCEPT !.view = k]  BY <1>0
  <2> HIDE DEF k
  <2>2. QED  BY SMTT(30), <1>0, <2>1 DEF State
<1>2. SameStore(s, n) /\ Quiet(s, n) /\ n.view = s.view + 1
  BY <1>0 DEF State, SameStore, Quiet
<1>3. t = IF n.view - 1 > n.voted THEN SendNewView(r, e) ELSE NextRound(r, n)
  BY DEF OnTimeout
<1> HIDE DEF n
<1>4. CASE n.view - 1 > n.voted
  <2>1. e \in State /\ SameStore(n, e) /\ Quiet(n, e) /\ NoBallot(e) /\ e.view = n.view
    BY <1>1, EnterViewFacts
  <2>2. t = SendNewView(r, e)  BY <1>3, <1>4
  <2> HIDE DEF e
  <2>3. SameStore(s, e)  BY <1>2, <2>1 DEF SameStore
  <2>4. StoreInv(e, M)  BY <2>1, <2>3, SameStoreKeeps DEF LocalInv
  <2>5. e.view - 1 > e.voted  BY <1>4, <2>1 DEF Quiet
  <2>6. /\ LocalInv(t, M \cup {NewViewMsg(e.view - 1, e.prepare, r)})
        /\ GivesUpView(r, e, t, e.view - 1, e.prepare)
        /\ t.headers = e.headers
    BY <2>1, <2>2, <2>4, <2>5, SendNewViewKeeps
  <2> HIDE DEF t
  <2>7. e.view - 1 = s.view /\ e.prepare = s.prepare /\ e.headers = s.headers
    BY <1>0, <1>2, <2>1, <2>3 DEF SameStore
  <2>8. e.voted = s.voted /\ e.out = s.out  BY <1>2, <2>1 DEF Quiet
  <2>9. GivesUpView(r, s, t, s.view, s.prepare)  BY <2>6, <2>7, <2>8 DEF GivesUpView
  <2>10. LocalInv(t, M \cup {NewViewMsg(s.view, s.prepare, r)})  BY <2>6, <2>7
  <2>11. QED  BY Zenon, <1>0, <2>6, <2>7, <2>9, <2>10 DEF t
<1>5. CASE ~ (n.view - 1 > n.voted)
  <2>1. t = NextRound(r, n)  BY <1>3, <1>5
  <2>2. t \in State /\ SameStore(n, t) /\ Quiet(n, t) /\ NoBallot(t)
    BY <1>1, <2>1, NextRoundFacts
  <2> HIDE DEF t
  <2>3. SameStore(s, t) /\ Quiet(s, t)  BY <1>2, <2>2 DEF SameStore, Quiet
  <2>4. LocalInv(t, M)  BY <2>2, <2>3, SameStoreKeeps, NoBallotKeeps DEF LocalInv
  <2>5. QED  BY <2>3, <2>4 DEF SameStore, t
<1>6. QED  BY <1>4, <1>5

-----------------------------------------------------------------------------
(* b is on a block at least as high as every lock implied by a stored block. *)
RespectsLocks(s, b) ==
  \A c \in s.headers \ {Genesis} :
    ParentOf[ParentOf[c]] \in Block =>
      ViewOf[ParentOf[ParentOf[c]]] <= ViewOf[ParentOf[b]]

LEMMA SafeNodeRespectsLocks ==
  ASSUME NEW s, NEW M, LocalInv(s, M), NEW b \in Block, SafeNode(s, b)
  PROVE  RespectsLocks(s, b)
<1>1. SUFFICES ASSUME NEW c \in s.headers \ {Genesis}, ParentOf[ParentOf[c]] \in Block
               PROVE  ViewOf[ParentOf[ParentOf[c]]] <= ViewOf[ParentOf[b]]
  BY DEF RespectsLocks
<1>2. ParentOf[c] \in s.headers  BY DEF LocalInv, StoreInv, Closed
<1>3. ParentOf[c] # Genesis  BY <1>1, ParentAssumption, BlockAssumption
<1>4. ParentOf[ParentOf[c]] \in s.headers  BY <1>2, <1>3 DEF LocalInv, StoreInv, Closed
<1>5. ViewOf[ParentOf[ParentOf[c]]] <= ViewOf[s.locked]
  BY SMTT(30), <1>2, <1>4 DEF LocalInv, StoreInv, Locks
<1>6. /\ ViewOf[s.locked] \in Nat /\ ViewOf[s.prepare] \in Nat /\ ViewOf[ParentOf[b]] \in Nat
      /\ ViewOf[ParentOf[ParentOf[c]]] \in Nat
  BY <1>1, BlockAssumption DEF LocalInv, StoreInv, State, SafeNode
<1>7. ViewOf[s.locked] <= ViewOf[ParentOf[b]]
  BY <1>6 DEF SafeNode, LocalInv, StoreInv, TagsOrdered
<1>8. QED  BY <1>5, <1>6, <1>7

(* What the handlers of a proposal may do: sign nothing, or vote for it. *)
ProposalResult(r, s, t, b, M) ==
  /\ s.headers \subseteq t.headers
  /\ \/ LocalInv(t, M) /\ Quiet(s, t)
     \/ /\ VotesFor(r, s, t, b)
        /\ RespectsLocks(s, b)
        /\ CertifiedIn(M, ParentOf[b])
        /\ LocalInv(t, M \cup {VoteMsg(b, r)})

LEMMA AcceptProposalKeeps ==
  ASSUME NEW r \in Replica, NEW s, NEW M, LocalInv(s, M), NEW m \in Proposals,
         ParentOf[m.block] \in s.headers, CertifiedIn(M, ParentOf[m.block])
  PROVE  ProposalResult(r, s, AcceptProposal(r, s, m), m.block, M)
<1> DEFINE b == m.block
           p == ParentOf[b]
           u == UpdatePrepare(s, p)
           y == SyncView(r, u, p, m.timeout)
           k == Update(y, p)
           saved == PersistProposal(k, b)
           t == AcceptProposal(r, s, m)
<1>0. /\ s \in State /\ b \in Block /\ m.timeout \in Nat /\ p \in Block /\ b # Genesis
  BY ParentAssumption, BlockAssumption DEF LocalInv, StoreInv, State, Proposals
<1>1. /\ LocalInv(u, M) /\ Quiet(s, u) /\ u.headers = s.headers
      /\ ViewOf[p] <= ViewOf[u.prepare] /\ u \in State
  <2>1. LocalInv(u, M)  BY SMTT(30), UpdatePrepareKeeps
  <2>2. Quiet(s, u) /\ u.headers = s.headers /\ ViewOf[u.prepare] >= ViewOf[p] /\ u \in State
    BY SMTT(30), <1>0, UpdatePrepareFacts
  <2> HIDE DEF u
  <2>3. ViewOf[p] \in Nat /\ ViewOf[u.prepare] \in Nat  BY Zenon, <1>0, <2>2, BlockAssumption DEF State
  <2>4. QED  BY <2>1, <2>2, <2>3
<1>2. /\ LocalInv(y, M) /\ Quiet(u, y) /\ SameStore(u, y) /\ y \in State
  BY SMTT(30), <1>0, <1>1, SyncViewFacts, SyncViewKeeps
<1>3. /\ LocalInv(k, M) /\ LocksParent(k, p) /\ Quiet(y, k) /\ k \in State
      /\ k.prepare = y.prepare /\ k.headers = y.headers
  <2>1. p \in y.headers  BY ZenonT(40), <1>1, <1>2 DEF SameStore
  <2>2. LocalInv(k, M) /\ LocksParent(k, p)  BY ZenonT(40), <1>2, <2>1, UpdateKeeps
  <2>3. UpdateResult(y, p, k)  BY ZenonT(40), <1>0, <1>2, UpdateFacts
  <2>4. QED  BY ZenonT(40), <2>2, <2>3 DEF UpdateResult
<1>4. t = IF ViewOf[b] # k.view THEN k
          ELSE IF ViewOf[b] > saved.voted /\ SafeNode(saved, b) THEN SendVote(r, saved, b)
          ELSE saved
  BY ZenonT(40) DEF AcceptProposal
<1> HIDE DEF u, y
<1>5. Quiet(s, k) /\ k.headers = s.headers /\ ViewOf[p] <= ViewOf[k.prepare]
  BY ZenonT(40), <1>1, <1>2, <1>3 DEF SameStore, Quiet
<1> HIDE DEF k
<1>6. /\ LocalInv(saved, M) /\ Quiet(k, saved)
      /\ saved.headers = k.headers \cup {b}
      /\ saved.view = k.view
  BY SMTT(30), <1>0, <1>3, <1>5, PersistProposalKeeps
<1> HIDE DEF saved, t
<1>7. CASE ViewOf[b] # k.view
  <2>1. t = k  BY SMTT(30), <1>4, <1>7
  <2>2. QED  BY Zenon, <1>3, <1>5, <2>1 DEF ProposalResult, t
<1>8. CASE /\ ViewOf[b] = k.view
           /\ ViewOf[b] > saved.voted /\ SafeNode(saved, b)
  <2>1. t = SendVote(r, saved, b)  BY SMTT(30), <1>4, <1>8
  <2>2. /\ LocalInv(t, M \cup {VoteMsg(b, r)})
        /\ VotesFor(r, saved, t, b)
        /\ t.headers = saved.headers
    BY SMTT(30), <1>0, <1>6, <1>8, <2>1, SendVoteKeeps
  <2>3. saved.voted = s.voted /\ saved.out = s.out  BY <1>5, <1>6 DEF Quiet
  <2>4. VotesFor(r, s, t, b)  BY SMTT(30), <2>2, <2>3 DEF VotesFor
  <2>5. s.headers \subseteq t.headers  BY SMTT(30), <1>5, <1>6, <2>2
  <2>6. RespectsLocks(saved, b)  BY SMTT(30), <1>0, <1>6, <1>8, SafeNodeRespectsLocks
  <2>7. RespectsLocks(s, b)  BY SMTT(30), <1>5, <1>6, <2>6 DEF RespectsLocks
  <2>8. QED  BY <2>2, <2>4, <2>5, <2>7 DEF ProposalResult, t
<1>9. CASE /\ ViewOf[b] = k.view
           /\ ~ (ViewOf[b] > saved.voted /\ SafeNode(saved, b))
  <2>1. t = saved  BY <1>4, <1>9
  <2>2. QED  BY <1>5, <1>6, <2>1 DEF ProposalResult, Quiet, t
<1>10. QED  BY SMTT(30), <1>7, <1>8, <1>9

(* onProposal, for a certificate that VerifyAggregated checks against msgs. *)
LEMMA OnProposalKeeps ==
  ASSUME NEW r \in Replica, NEW s, LocalInv(s, msgs), NEW m \in Proposals,
         msgs \subseteq Message
  PROVE  ProposalResult(r, s, OnProposal(r, s, m), m.block, msgs)
<1> DEFINE p == ParentOf[m.block]
           t == OnProposal(r, s, m)
<1>0. s \in State /\ m.block \in Block  BY DEF LocalInv, StoreInv, Proposals
<1>1. Certified(p) <=> CertifiedIn(msgs, p)
  BY SMTT(30) DEF Certified, CertifiedIn, Signers, SignersIn
<1>2. ProposalResult(r, s, s, m.block, msgs)  BY DEF ProposalResult, Quiet
<1>3. CASE ~ Certified(p)
  <2>1. t = s  BY SMTT(30), <1>3 DEF OnProposal
  <2>2. QED  BY <1>2, <2>1
<1>4. CASE Certified(p) /\ p \notin s.headers
  <2> DEFINE n == [s EXCEPT !.missing = @ \cup {p}]
  <2>1. t = n  BY <1>4 DEF OnProposal
  <2>2. p \in Block
    <3>1. p = Genesis \/ Cardinality(Signers(p)) >= Majority  BY <1>4 DEF Certified
    <3>2. Cardinality({}) = 0  BY FS_EmptySet
    <3>3. Signers(p) # {} \/ p = Genesis  BY <3>1, <3>2, MajorityFacts
    <3>4. \A q : VoteMsg(p, q) \in Message => p \in Block
      BY DEF VoteMsg, Message, Proposals, Votes, NewViews
    <3>5. QED  BY SMTT(30), <3>3, <3>4, BlockAssumption DEF Signers
  <2>3. n \in State  BY Zenon, <1>0, <2>2 DEF State
  <2>4. /\ SameStore(s, n) /\ Quiet(s, n)
        /\ n.view = s.view /\ n.ballot = s.ballot /\ n.votes = s.votes
    BY <1>0 DEF State, SameStore, Quiet
  <2> HIDE DEF n
  <2>5. StoreInv(n, msgs)  BY <2>3, <2>4, SameStoreKeeps DEF LocalInv
  <2>6. BallotInv(n, msgs)  BY <2>4 DEF LocalInv, BallotInv, SameStore, Quiet
  <2>7. QED  BY <2>1, <2>4, <2>5, <2>6 DEF ProposalResult, LocalInv, SameStore
<1>5. CASE Certified(p) /\ p \in s.headers
  <2>1. t = s \/ t = AcceptProposal(r, s, m)  BY <1>5 DEF OnProposal
  <2>2. QED  BY <1>1, <1>2, <1>5, <2>1, AcceptProposalKeeps
<1>6. QED  BY <1>3, <1>4, <1>5

(* A state that differs outside the store, the view and the ballot only. *)
LEMMA OutsideKeeps ==
  ASSUME NEW s, NEW t \in State, NEW M, LocalInv(s, M), SameStore(s, t),
         t.voted = s.voted, t.view = s.view, t.ballot = s.ballot, t.votes = s.votes
  PROVE  LocalInv(t, M)
<1>1. StoreInv(t, M)  BY SameStoreKeeps DEF LocalInv
<1>2. BallotInv(t, M)  BY SMTT(30) DEF LocalInv, BallotInv, SameStore
<1>3. QED  BY <1>1, <1>2 DEF LocalInv

(* Send: the leader's own proposal is handled as any other. *)
LEMMA ProposeKeeps ==
  ASSUME NEW r \in Replica, NEW s, LocalInv(s, msgs), NEW b \in Block,
         msgs \subseteq Message, s.out = {}
  PROVE  LET t == Propose(r, s, b)
             m == ProposalMsg(b, s.timeoutCert, r)
         IN /\ m \in Proposals
            /\ s.headers \subseteq t.headers
            /\ \/ LocalInv(t, msgs) /\ t.voted = s.voted /\ t.out = {m}
               \/ /\ LocalInv(t, msgs \cup {VoteMsg(b, r)})
                  /\ b \in t.headers /\ b # Genesis /\ ViewOf[b] > s.voted
                  /\ t.voted = ViewOf[b] /\ t.out = {m} \cup {VoteMsg(b, r)}
                  /\ RespectsLocks(s, b) /\ CertifiedIn(msgs, ParentOf[b])
<1> DEFINE m == ProposalMsg(b, s.timeoutCert, r)
           q == [s EXCEPT !.waitingData = FALSE, !.out = @ \cup {m}]
           t == Propose(r, s, b)
<1>0. s \in State  BY Zenon DEF LocalInv, StoreInv
<1>1. m \in Proposals /\ m.block = b  BY <1>0 DEF ProposalMsg, Proposals, State
<1>2. q \in State
  <2>1. m \in Message  BY <1>1 DEF Message
  <2> HIDE DEF m
  <2>2. QED  BY Zenon, <1>0, <2>1 DEF State
<1>3. /\ SameStore(s, q) /\ q.out = {m}
      /\ q.voted = s.voted /\ q.view = s.view /\ q.ballot = s.ballot /\ q.votes = s.votes
  BY <1>0 DEF State, SameStore
<1>4. t = OnProposal(r, q, m)  BY DEF Propose
<1> HIDE DEF q, m, t
<1>5. LocalInv(q, msgs)  BY <1>2, <1>3, OutsideKeeps
<1>6. ProposalResult(r, q, t, b, msgs)  BY SMTT(30), <1>1, <1>4, <1>5, OnProposalKeeps
<1>7. CASE LocalInv(t, msgs) /\ Quiet(q, t)
  BY ZenonT(40), <1>1, <1>3, <1>6, <1>7 DEF ProposalResult, Quiet, SameStore, t, m
<1>8. CASE /\ VotesFor(r, q, t, b) /\ RespectsLocks(q, b)
           /\ CertifiedIn(msgs, ParentOf[b]) /\ LocalInv(t, msgs \cup {VoteMsg(b, r)})
  <2>1. RespectsLocks(s, b)  BY <1>3, <1>8 DEF RespectsLocks, SameStore
  <2>2. s.headers \subseteq t.headers  BY <1>3, <1>6 DEF ProposalResult, SameStore
  <2>3. /\ b \in t.headers /\ b # Genesis /\ ViewOf[b] > s.voted
        /\ t.voted = ViewOf[b] /\ t.out = {m} \cup {VoteMsg(b, r)}
    BY <1>3, <1>8 DEF VotesFor
  <2>4. QED  BY SMTT(30), <1>1, <1>8, <2>1, <2>2, <2>3 DEF t, m
<1>9. QED  BY ZenonT(40), <1>6, <1>7, <1>8 DEF ProposalResult

-----------------------------------------------------------------------------
LEMMA GenesisKeeps ==
  ASSUME NEW M
  PROVE  LocalInv(GenesisState, M)
<1> DEFINE g == GenesisState
<1>1. g \in State
  <2>1. <<>> \in Seq([block : Block, finalized : BOOLEAN])  OBVIOUS
  <2>2. QED
    BY <2>1, BlockAssumption DEF GenesisState, State, NoTimeout
<1>2. /\ g.prepare = Genesis /\ g.locked = Genesis /\ g.commit = Genesis
      /\ g.headers = {Genesis} /\ g.certs = {Genesis}
      /\ NoBallot(g)
  BY SMTT(30) DEF GenesisState, NoBallot
<1> HIDE DEF g
<1>3. TagsCertified(g, M) /\ TagsOrdered(g) /\ Closed(g, M) /\ CommitDecided(g, M)
  BY <1>2, BlockAssumption DEF TagsCertified, TagsOrdered, Closed, CommitDecided, CertifiedIn
<1>4. Locks(g)  BY <1>2, BlockAssumption, ParentAssumption DEF Locks
<1>5. StoreInv(g, M)  BY <1>1, <1>3, <1>4 DEF StoreInv
<1>6. QED  BY SMTT(30), <1>2, <1>5, NoBallotKeeps DEF g

(* newConsensus and Start keep a sound store. *)
LEMMA BootKeeps ==
  ASSUME NEW r \in Replica, NEW s \in State, NEW M, StoreInv(s, M), NoBallot(s)
  PROVE  LET t == Boot(r, s)
         IN LocalInv(t, M) /\ Quiet(s, t) /\ t.headers = s.headers
<1> DEFINE t == Boot(r, s)
<1>1. t \in State /\ SameStore(s, t) /\ Quiet(s, t) /\ NoBallot(t)
  <2>1. CASE Loads(s)
    <3>1. t = NextRound(r, s)  BY <2>1 DEF Boot
    <3>2. QED  BY <3>1, NextRoundFacts
  <2>2. CASE ~ Loads(s)
    <3>1. t = [s EXCEPT !.up = FALSE]  BY <2>2 DEF Boot
    <3>2. QED  BY ZenonT(40), <3>1 DEF State, SameStore, Quiet, NoBallot
  <2>3. QED  BY <2>1, <2>2
<1> HIDE DEF t
<1>2. LocalInv(t, M)  BY <1>1, SameStoreKeeps, NoBallotKeeps
<1>3. QED  BY <1>1, <1>2 DEF SameStore, t

(* A restart sends nothing and, when the store is durable, loses nothing. *)
LEMMA RestartKeeps ==
  ASSUME NEW r \in Replica, NEW s, NEW M, LocalInv(s, M)
  PROVE  LET t == Boot(r, [Reload(s) EXCEPT !.restarts = @ + 1])
         IN /\ LocalInv(t, M) /\ t.out = {}
            /\ Durable => t.voted = s.voted /\ t.headers = s.headers
<1> DEFINE store == IF Durable THEN s ELSE GenesisState
           q == [Reload(s) EXCEPT !.restarts = @ + 1]
           t == Boot(r, q)
<1>0. s \in State /\ store \in State /\ StoreInv(store, M) /\ GenesisState \in State
  BY GenesisKeeps DEF LocalInv, StoreInv
<1>1. Durable => store = s  OBVIOUS
<1>2. Reload(s) =
        [GenesisState EXCEPT
          !.view = store.view, !.voted = store.voted,
          !.prepare = store.prepare, !.locked = store.locked, !.commit = store.commit,
          !.headers = store.headers, !.certs = store.certs,
          !.events = s.events, !.restarts = s.restarts]
  BY DEF Reload
<1> HIDE DEF store
<1>3. q \in State
  <2>1. Reload(s) \in State  BY ZenonT(40), <1>0, <1>2 DEF State
  <2>2. QED  BY SMTT(30), <2>1 DEF State
<1>4. GenesisState.ballot = NoBlock /\ GenesisState.votes = {} /\ GenesisState.out = {}
  BY DEF GenesisState
<1>5. /\ SameStore(store, q) /\ NoBallot(q)
      /\ q.voted = store.voted /\ q.out = {}
  BY SMTT(30), <1>0, <1>2, <1>4 DEF State, SameStore, NoBallot
<1> HIDE DEF q
<1>6. StoreInv(q, M)  BY <1>0, <1>3, <1>5, SameStoreKeeps
<1>7. LocalInv(t, M) /\ Quiet(q, t) /\ t.headers = q.headers  BY <1>3, <1>5, <1>6, BootKeeps
<1>8. QED  BY <1>1, <1>5, <1>7 DEF Quiet, SameStore, q
=============================================================================
