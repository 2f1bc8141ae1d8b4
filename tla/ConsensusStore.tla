--------------------------- MODULE ConsensusStore ---------------------------
(***************************************************************************)
(* What the functions that write the chain do to the state of one replica: *)
(* the tags, the certificates, the locks and decisions of update(), and the *)
(* move to another view.                                                   *)
(***************************************************************************)
EXTENDS ConsensusInv, FiniteSetTheorems, TLAPS

LEMMA MajorityFacts ==
  Majority \in Nat /\ Majority >= 1 /\ 2 * Majority > N
BY ReplicaAssumption DEF Majority

LEMMA ReplicaFinite ==
  IsFiniteSet(Replica) /\ Cardinality(Replica) = N
<1>1. 0 \in Int /\ N - 1 \in Int  BY ReplicaAssumption
<1>2. IsFiniteSet(0 .. N - 1)  BY <1>1, FS_Interval
<1>3. Cardinality(0 .. N - 1) = IF 0 > N - 1 THEN 0 ELSE N - 1 - 0 + 1  BY <1>1, FS_Interval
<1>4. QED  BY <1>2, <1>3, ReplicaAssumption DEF Replica

(* Two majorities of replicas share one. *)
LEMMA QuorumsMeet ==
  ASSUME NEW P \in SUBSET Replica, NEW Q \in SUBSET Replica,
         Cardinality(P) >= Majority, Cardinality(Q) >= Majority
  PROVE  \E q \in Replica : q \in P /\ q \in Q
<1>1. IsFiniteSet(P) /\ IsFiniteSet(Q)  BY ReplicaFinite, FS_Subset
<1>2. IsFiniteSet(P \cup Q) /\ Cardinality(P \cup Q) <= N
  <2>1. P \cup Q \in SUBSET Replica  OBVIOUS
  <2>2. QED  BY <2>1, ReplicaFinite, FS_Subset
<1>3. Cardinality(P \cup Q) = Cardinality(P) + Cardinality(Q) - Cardinality(P \cap Q)
  BY <1>1, FS_Union
<1>4. /\ Cardinality(P) \in Nat /\ Cardinality(Q) \in Nat
      /\ Cardinality(P \cup Q) \in Nat
  BY <1>1, <1>2, FS_CardinalityType
<1>5. SUFFICES ASSUME P \cap Q = {}  PROVE FALSE  OBVIOUS
<1>6. Cardinality(P \cap Q) = 0  BY <1>5, FS_EmptySet
<1>7. QED  BY <1>2, <1>3, <1>4, <1>6, MajorityFacts, ReplicaAssumption

LEMMA SubsetCardinality ==
  ASSUME NEW P \in SUBSET Replica, NEW Q \in SUBSET Replica, P \subseteq Q
  PROVE  /\ Cardinality(P) \in Nat /\ Cardinality(Q) \in Nat
         /\ Cardinality(P) <= Cardinality(Q)
<1>1. IsFiniteSet(P) /\ IsFiniteSet(Q)  BY ReplicaFinite, FS_Subset
<1>2. Cardinality(P) <= Cardinality(Q)  BY <1>1, FS_Subset
<1>3. QED  BY <1>1, <1>2, FS_CardinalityType

(* Certificates stay valid as messages are added. *)
LEMMA CertifiedMonotone ==
  ASSUME NEW M, NEW M2, M \subseteq M2, NEW b, CertifiedIn(M, b)
  PROVE  CertifiedIn(M2, b)
<1>1. CASE b = Genesis  BY <1>1 DEF CertifiedIn
<1>2. CASE b # Genesis
  <2>1. /\ SignersIn(M, b) \in SUBSET Replica /\ SignersIn(M2, b) \in SUBSET Replica
        /\ SignersIn(M, b) \subseteq SignersIn(M2, b)
    BY DEF SignersIn
  <2>2. Cardinality(SignersIn(M, b)) >= Majority  BY <1>2 DEF CertifiedIn
  <2>3. QED  BY <2>1, <2>2, SubsetCardinality, MajorityFacts DEF CertifiedIn
<1>3. QED  BY <1>1, <1>2

LEMMA LocalInvMonotone ==
  ASSUME NEW s, NEW M, NEW M2, M \subseteq M2, LocalInv(s, M)
  PROVE  LocalInv(s, M2)
<1>1. \A b : CertifiedIn(M, b) => CertifiedIn(M2, b)  BY CertifiedMonotone
<1>2. TagsCertified(s, M2)  BY <1>1 DEF LocalInv, StoreInv, TagsCertified
<1>3. Closed(s, M2)  BY <1>1 DEF LocalInv, StoreInv, Closed
<1>4. CommitDecided(s, M2)  BY <1>1 DEF LocalInv, StoreInv, CommitDecided
<1>5. BallotInv(s, M2)  BY DEF LocalInv, BallotInv, SignersIn
<1>6. QED  BY <1>2, <1>3, <1>4, <1>5 DEF LocalInv, StoreInv

-----------------------------------------------------------------------------
(* The stored chain is untouched; nothing is signed or sent. *)
SameStore(s, t) ==
  /\ t.prepare = s.prepare /\ t.locked = s.locked /\ t.commit = s.commit
  /\ t.headers = s.headers /\ t.certs = s.certs
Quiet(s, t) == t.voted = s.voted /\ t.out = s.out
NoBallot(s) == s.ballot = NoBlock /\ s.votes = {}

LEMMA SameStoreKeeps ==
  ASSUME NEW s, NEW t \in State, NEW M, StoreInv(s, M), SameStore(s, t)
  PROVE  StoreInv(t, M)
BY DEF StoreInv, SameStore, TagsCertified, TagsOrdered, Closed, Locks, CommitDecided

LEMMA NoBallotKeeps ==
  ASSUME NEW s, NEW M, StoreInv(s, M), NoBallot(s)
  PROVE  LocalInv(s, M)
BY DEF LocalInv, BallotInv, NoBallot

(* nextRound forgets the collected votes and changes nothing stored. *)
LEMMA EnterViewFacts ==
  ASSUME NEW r \in Replica, NEW s \in State
  PROVE  LET t == EnterView(r, s)
         IN t \in State /\ SameStore(s, t) /\ Quiet(s, t) /\ NoBallot(t)
            /\ t.view = s.view
<1> DEFINE t == EnterView(r, s)
<1>1. t \in State
  <2> DEFINE resets == r = Leader(s.view + 1) \/ r = Leader(s.view - 1)
             arm == TimerFires(s.view - ViewOf[s.prepare])
             cert == IF s.timeoutCert < s.view - 1 THEN NoTimeout ELSE s.timeoutCert
             tv == IF r = Leader(s.view + 1) THEN s.view
                   ELSE IF resets THEN NoTimeout ELSE s.tview
             rec == IF resets THEN {} ELSE s.received
  <2>1. t = [s EXCEPT !.armed = arm, !.waitingData = FALSE, !.votes = {}, !.ballot = NoBlock,
                      !.timeoutCert = cert, !.tview = tv, !.received = rec]
    BY DEF EnterView
  <2>2. arm \in BOOLEAN  BY DEF TimerFires
  <2>3. cert \in Nat /\ tv \in Nat  BY DEF State, NoTimeout
  <2>4. rec \in SUBSET Replica  BY DEF State
  <2> HIDE DEF t, resets, arm, cert, tv, rec
  <2>5. QED  BY <2>1, <2>2, <2>3, <2>4 DEF State
<1>2. SameStore(s, t) /\ Quiet(s, t) /\ NoBallot(t) /\ t.view = s.view
  BY DEF EnterView, State, SameStore, Quiet, NoBallot
<1>3. QED  BY <1>1, <1>2

LEMMA NextRoundFacts ==
  ASSUME NEW r \in Replica, NEW s \in State
  PROVE  LET t == NextRound(r, s)
         IN t \in State /\ SameStore(s, t) /\ Quiet(s, t) /\ NoBallot(t)
            /\ t.view = s.view
<1> DEFINE e == EnterView(r, s)
           t == NextRound(r, s)
<1>1. e \in State /\ SameStore(s, e) /\ Quiet(s, e) /\ NoBallot(e) /\ e.view = s.view
  BY EnterViewFacts
<1>2. t \in State  BY Zenon, <1>1 DEF NextRound, State
<1>3. SameStore(e, t) /\ Quiet(e, t) /\ NoBallot(t) /\ t.view = e.view
  BY <1>1 DEF NextRound, State, SameStore, Quiet, NoBallot
<1>4. QED  BY <1>1, <1>2, <1>3 DEF SameStore, Quiet

(* syncView enters a later view or does nothing. *)
LEMMA SyncViewFacts ==
  ASSUME NEW r \in Replica, NEW s \in State, NEW b \in Block, NEW tc \in Nat
  PROVE  LET t == SyncView(r, s, b, tc)
         IN t \in State /\ SameStore(s, t) /\ Quiet(s, t) /\ t.view >= s.view
            /\ (t = s \/ NoBallot(t))
<1> DEFINE next == (IF tc = NoTimeout THEN ViewOf[b] ELSE tc) + 1
           moved == [s EXCEPT !.view = next]
           t == SyncView(r, s, b, tc)
<1>1. next \in Nat  BY BlockAssumption
<1>2. CASE next > s.view
  <2>1. moved \in State /\ SameStore(s, moved) /\ Quiet(s, moved) /\ moved.view = next
    BY Zenon, <1>1 DEF State, SameStore, Quiet
  <2>2. t = NextRound(r, moved)  BY <1>2 DEF SyncView
  <2>3. t \in State /\ SameStore(moved, t) /\ Quiet(moved, t) /\ NoBallot(t) /\ t.view = next
    BY Zenon, <2>1, <2>2, NextRoundFacts
  <2>4. s.view \in Nat  BY DEF State
  <2>5. QED  BY <1>1, <1>2, <2>1, <2>3, <2>4 DEF SameStore, Quiet
<1>3. CASE ~ (next > s.view)
  <2>1. t = s  BY <1>3 DEF SyncView
  <2>2. s.view \in Nat  BY DEF State
  <2>3. QED  BY <2>1, <2>2 DEF SameStore, Quiet
<1>4. QED  BY <1>2, <1>3

LEMMA SyncViewKeeps ==
  ASSUME NEW r \in Replica, NEW s, NEW M, LocalInv(s, M), NEW b \in Block, NEW tc \in Nat
  PROVE  LocalInv(SyncView(r, s, b, tc), M)
<1> DEFINE t == SyncView(r, s, b, tc)
<1>1. s \in State  BY DEF LocalInv, StoreInv
<1>2. t \in State /\ SameStore(s, t) /\ (t = s \/ NoBallot(t))  BY <1>1, SyncViewFacts
<1>3. StoreInv(t, M)  BY <1>2, SameStoreKeeps DEF LocalInv
<1>4. QED  BY <1>2, <1>3, NoBallotKeeps

(* Events are only ever appended. *)
LEMMA AppendEvent ==
  ASSUME NEW s \in State, NEW b \in Block, NEW final \in BOOLEAN
  PROVE  Append(s.events, Event(b, final)) \in Seq([block : Block, finalized : BOOLEAN])
<1> DEFINE E == [block : Block, finalized : BOOLEAN]
<1>1. s.events \in Seq(E)  BY DEF State
<1>2. Event(b, final) \in E  BY DEF Event
<1> HIDE DEF E
<1>3. Append(s.events, Event(b, final)) \in Seq(E)  BY <1>1, <1>2
<1>4. QED  BY <1>3 DEF E

(* updatePrepare takes a certified block that is stored. *)
LEMMA UpdatePrepareFacts ==
  ASSUME NEW s \in State, NEW b \in Block
  PROVE  LET t == UpdatePrepare(s, b)
         IN /\ t \in State /\ Quiet(s, t)
            /\ t.locked = s.locked /\ t.commit = s.commit
            /\ t.headers = s.headers /\ t.certs = s.certs
            /\ t.prepare \in {s.prepare, b}
            /\ ViewOf[t.prepare] >= ViewOf[s.prepare] /\ ViewOf[t.prepare] >= ViewOf[b]
            /\ t.view = s.view /\ t.ballot = s.ballot /\ t.votes = s.votes
<1> DEFINE t == UpdatePrepare(s, b)
<1>1. ViewOf[b] \in Nat /\ ViewOf[s.prepare] \in Nat  BY BlockAssumption DEF State
<1>2. CASE ViewOf[b] > ViewOf[s.prepare]
  <2> DEFINE ev == Append(s.events, Event(b, FALSE))
  <2>1. ev \in Seq([block : Block, finalized : BOOLEAN])  BY Zenon, AppendEvent
  <2>2. t = [s EXCEPT !.prepare = b, !.events = ev]
    BY <1>2 DEF UpdatePrepare
  <2> HIDE DEF ev
  <2>3. t \in State  BY ZenonT(40), <2>1, <2>2 DEF State
  <2>4. QED  BY <1>1, <1>2, <2>2, <2>3 DEF State, Quiet
<1>3. CASE ~ (ViewOf[b] > ViewOf[s.prepare])
  BY <1>1, <1>3 DEF UpdatePrepare, Quiet
<1>4. QED  BY <1>2, <1>3

LEMMA UpdatePrepareKeeps ==
  ASSUME NEW s, NEW M, LocalInv(s, M), NEW b \in s.headers, CertifiedIn(M, b)
  PROVE  LocalInv(UpdatePrepare(s, b), M)
<1> DEFINE t == UpdatePrepare(s, b)
<1>0. s \in State /\ b \in Block  BY DEF LocalInv, StoreInv, State
<1>1. /\ t \in State /\ Quiet(s, t)
      /\ t.locked = s.locked /\ t.commit = s.commit
      /\ t.headers = s.headers /\ t.certs = s.certs
      /\ t.prepare \in {s.prepare, b}
      /\ ViewOf[t.prepare] >= ViewOf[s.prepare]
      /\ t.view = s.view /\ t.ballot = s.ballot /\ t.votes = s.votes
  BY <1>0, UpdatePrepareFacts
<1> HIDE DEF t
<1>2. /\ ViewOf[t.prepare] \in Nat /\ ViewOf[s.prepare] \in Nat /\ ViewOf[s.locked] \in Nat
      /\ \A c \in s.certs : ViewOf[c] \in Nat
  BY <1>0, <1>1, BlockAssumption DEF State
<1>3. TagsCertified(t, M)  BY <1>1, <1>2 DEF LocalInv, StoreInv, TagsCertified
<1>4. TagsOrdered(t)  BY <1>1, <1>2 DEF LocalInv, StoreInv, TagsOrdered
<1>5. Closed(t, M) /\ Locks(t) /\ CommitDecided(t, M)
  BY <1>1 DEF LocalInv, StoreInv, Closed, Locks, CommitDecided
<1>6. BallotInv(t, M)  BY <1>1 DEF LocalInv, BallotInv, Quiet
<1>7. QED  BY <1>1, <1>3, <1>4, <1>5, <1>6 DEF LocalInv, StoreInv, t

(* onVote saves the certificate it collected before it updates prepare. *)
LEMMA SaveCertKeeps ==
  ASSUME NEW s, NEW M, LocalInv(s, M), NEW b \in s.headers, CertifiedIn(M, b)
  PROVE  LET t == UpdatePrepare([s EXCEPT !.certs = @ \cup {b}], b)
         IN LocalInv(t, M) /\ Quiet(s, t) /\ t.headers = s.headers
<1> DEFINE c == [s EXCEPT !.certs = @ \cup {b}]
           t == UpdatePrepare(c, b)
<1>0. s \in State /\ b \in Block  BY DEF LocalInv, StoreInv, State
<1>1. /\ c \in State /\ Quiet(s, c) /\ c.certs = s.certs \cup {b}
      /\ c.prepare = s.prepare /\ c.locked = s.locked /\ c.commit = s.commit
      /\ c.headers = s.headers
      /\ c.view = s.view /\ c.ballot = s.ballot /\ c.votes = s.votes
  BY Zenon, <1>0 DEF State, Quiet
<1> HIDE DEF c
<1>2. /\ t \in State /\ Quiet(s, t)
      /\ t.locked = s.locked /\ t.commit = s.commit
      /\ t.headers = s.headers /\ t.certs = s.certs \cup {b}
      /\ t.prepare \in {s.prepare, b}
      /\ ViewOf[t.prepare] >= ViewOf[s.prepare] /\ ViewOf[t.prepare] >= ViewOf[b]
      /\ t.view = s.view /\ t.ballot = s.ballot /\ t.votes = s.votes
  BY Zenon, <1>0, <1>1, UpdatePrepareFacts DEF Quiet
<1> HIDE DEF t
<1>3. /\ ViewOf[t.prepare] \in Nat /\ ViewOf[s.prepare] \in Nat /\ ViewOf[s.locked] \in Nat
      /\ \A d \in s.certs : ViewOf[d] \in Nat
  BY <1>0, <1>2, BlockAssumption DEF State
<1>4. TagsCertified(t, M)  BY <1>2, <1>3 DEF LocalInv, StoreInv, TagsCertified
<1>5. TagsOrdered(t)  BY <1>2, <1>3 DEF LocalInv, StoreInv, TagsOrdered
<1>6. Closed(t, M) /\ Locks(t) /\ CommitDecided(t, M)
  BY <1>2 DEF LocalInv, StoreInv, Closed, Locks, CommitDecided
<1>7. BallotInv(t, M)  BY <1>2 DEF LocalInv, BallotInv, Quiet
<1>8. LocalInv(t, M)  BY <1>2, <1>4, <1>5, <1>6, <1>7 DEF LocalInv, StoreInv
<1>9. QED  BY <1>2, <1>8 DEF t, c

-----------------------------------------------------------------------------
(* update(p) raises the lock at least to the parent of p when it knows it. *)
LocksParent(s, p) ==
  ParentOf[p] \in s.headers => ViewOf[ParentOf[p]] <= ViewOf[s.locked]

LEMMA LockFacts ==
  ASSUME NEW s \in State, NEW g \in Block
  PROVE  LET t == Lock(s, g)
         IN /\ t \in State /\ Quiet(s, t)
            /\ t.prepare = s.prepare /\ t.commit = s.commit /\ t.events = s.events
            /\ t.headers = s.headers /\ t.certs = s.certs
            /\ t.locked \in {s.locked, g}
            /\ ViewOf[t.locked] >= ViewOf[s.locked] /\ ViewOf[t.locked] >= ViewOf[g]
            /\ t.view = s.view /\ t.ballot = s.ballot /\ t.votes = s.votes
<1> DEFINE t == Lock(s, g)
<1>1. ViewOf[g] \in Nat /\ ViewOf[s.locked] \in Nat  BY BlockAssumption DEF State
<1>2. CASE ViewOf[g] > ViewOf[s.locked]
  <2>1. t = [s EXCEPT !.locked = g]  BY <1>2 DEF Lock
  <2>2. t \in State  BY SMTT(30), <2>1 DEF State
  <2>3. t.locked = g  BY <2>1 DEF State
  <2>4. /\ Quiet(s, t)
        /\ t.prepare = s.prepare /\ t.commit = s.commit /\ t.events = s.events
        /\ t.headers = s.headers /\ t.certs = s.certs
        /\ t.view = s.view /\ t.ballot = s.ballot /\ t.votes = s.votes
    BY <2>1 DEF State, Quiet
  <2> HIDE DEF t
  <2>5. QED  BY <1>1, <1>2, <2>2, <2>3, <2>4 DEF t
<1>3. CASE ~ (ViewOf[g] > ViewOf[s.locked])
  BY <1>1, <1>3 DEF Lock, Quiet
<1>4. QED  BY <1>2, <1>3

LEMMA DecideFacts ==
  ASSUME NEW s \in State, NEW b \in Block
  PROVE  LET t == Decide(s, b)
         IN /\ t \in State /\ Quiet(s, t)
            /\ t.prepare = s.prepare /\ t.locked = s.locked
            /\ t.headers = s.headers /\ t.certs = s.certs
            /\ t.commit \in {s.commit, b}
            /\ t.view = s.view /\ t.ballot = s.ballot /\ t.votes = s.votes
<1> DEFINE t == Decide(s, b)
<1>1. CASE ViewOf[b] > ViewOf[s.commit]
  <2> DEFINE ev == Append(s.events, Event(b, TRUE))
  <2>1. ev \in Seq([block : Block, finalized : BOOLEAN])  BY Zenon, AppendEvent
  <2>2. t = [s EXCEPT !.commit = b, !.events = ev]  BY <1>1 DEF Decide
  <2> HIDE DEF ev
  <2>3. t \in State  BY ZenonT(40), <2>1, <2>2 DEF State
  <2>4. QED  BY <2>2, <2>3 DEF State, Quiet
<1>2. CASE ~ (ViewOf[b] > ViewOf[s.commit])
  BY <1>2 DEF Decide, Quiet
<1>3. QED  BY <1>1, <1>2

(* What update(p) may do to s. *)
UpdateResult(s, p, t) ==
  /\ t \in State /\ Quiet(s, t)
  /\ t.prepare = s.prepare /\ t.headers = s.headers /\ t.certs = s.certs
  /\ ViewOf[t.locked] >= ViewOf[s.locked]
  /\ t.view = s.view /\ t.ballot = s.ballot /\ t.votes = s.votes
  /\ ~ ChainKnown(s, p) => t = s
  /\ ChainKnown(s, p) =>
       /\ t.locked \in {s.locked, ParentOf[p]}
       /\ ViewOf[t.locked] >= ViewOf[ParentOf[p]]
       /\ t.commit = s.commit \/ (NoGaps(p) /\ t.commit = ParentOf[ParentOf[p]])

LEMMA UpdateFacts ==
  ASSUME NEW s \in State, NEW p \in Block
  PROVE  UpdateResult(s, p, Update(s, p))
<1> DEFINE g == ParentOf[p]
           gg == ParentOf[ParentOf[p]]
           l == Lock(s, g)
           t == Update(s, p)
<1>1. CASE ~ ChainKnown(s, p)
  <2>1. t = s  BY <1>1 DEF Update
  <2>2. ViewOf[s.locked] \in Nat  BY BlockAssumption DEF State
  <2>3. QED  BY <1>1, <2>1, <2>2 DEF UpdateResult, Quiet
<1>2. CASE ChainKnown(s, p)
  <2>1. g \in Block /\ gg \in Block  BY <1>2 DEF ChainKnown, State
  <2>2. UpdateResult(s, p, l) /\ l.commit = s.commit
    <3>1. /\ l \in State /\ Quiet(s, l)
          /\ l.prepare = s.prepare /\ l.commit = s.commit
          /\ l.headers = s.headers /\ l.certs = s.certs
          /\ l.locked \in {s.locked, g}
          /\ ViewOf[l.locked] >= ViewOf[s.locked] /\ ViewOf[l.locked] >= ViewOf[g]
          /\ l.view = s.view /\ l.ballot = s.ballot /\ l.votes = s.votes
      BY Zenon, <2>1, LockFacts
    <3> HIDE DEF l
    <3>2. QED  BY <1>2, <3>1 DEF UpdateResult
  <2>3. CASE NoGaps(p)
    <3>1. t = Decide(l, gg)  BY <1>2, <2>3 DEF Update
    <3>2. l \in State  BY <2>2 DEF UpdateResult
    <3> HIDE DEF l
    <3> HIDE DEF t, gg
    <3>3. /\ t \in State /\ Quiet(l, t)
          /\ t.prepare = l.prepare /\ t.locked = l.locked
          /\ t.headers = l.headers /\ t.certs = l.certs
          /\ t.commit \in {l.commit, gg}
          /\ t.view = l.view /\ t.ballot = l.ballot /\ t.votes = l.votes
      BY <2>1, <3>1, <3>2, DecideFacts
    <3> USE DEF gg
    <3>4. UpdateResult(s, p, t)  BY <1>2, <2>2, <2>3, <3>3 DEF UpdateResult, Quiet
    <3>5. QED  BY <3>4 DEF t
  <2>4. CASE ~ NoGaps(p)
    <3>1. t = l  BY <1>2, <2>4 DEF Update
    <3>2. QED  BY <2>2, <3>1
  <2>5. QED  BY <2>3, <2>4
<1>3. QED  BY <1>1, <1>2

LEMMA UpdateKeeps ==
  ASSUME NEW s, NEW M, LocalInv(s, M), NEW p \in s.headers, CertifiedIn(M, p)
  PROVE  LocalInv(Update(s, p), M) /\ LocksParent(Update(s, p), p)
<1> DEFINE t == Update(s, p)
           g == ParentOf[p]
           gg == ParentOf[ParentOf[p]]
<1>0. s \in State /\ p \in Block  BY DEF LocalInv, StoreInv, State
<1>1. /\ t \in State /\ Quiet(s, t)
      /\ t.prepare = s.prepare /\ t.headers = s.headers /\ t.certs = s.certs
      /\ ViewOf[t.locked] >= ViewOf[s.locked]
      /\ t.view = s.view /\ t.ballot = s.ballot /\ t.votes = s.votes
      /\ ~ ChainKnown(s, p) => t = s
      /\ ChainKnown(s, p) =>
           /\ t.locked \in {s.locked, g}
           /\ ViewOf[t.locked] >= ViewOf[g]
           /\ t.commit = s.commit \/ (NoGaps(p) /\ t.commit = gg)
  BY <1>0, UpdateFacts DEF UpdateResult
<1> HIDE DEF t
<1>2. CASE ~ ChainKnown(s, p)
  <2>1. t = s  BY <1>1, <1>2
  <2>2. ASSUME g \in s.headers  PROVE ViewOf[g] <= ViewOf[s.locked]
    <3>1. gg \notin s.headers  BY <1>2, <2>2 DEF ChainKnown
    <3>2. g = Genesis  BY <2>2, <3>1 DEF LocalInv, StoreInv, Closed
    <3>3. QED  BY <1>0, <3>2, BlockAssumption DEF State
  <2>3. QED  BY <2>1, <2>2 DEF LocksParent, t
<1>3. CASE ChainKnown(s, p)
  <2>1. /\ g \in s.headers /\ gg \in s.headers /\ g \in Block /\ gg \in Block
        /\ p # Genesis /\ g # Genesis
    BY <1>0, <1>3, ParentAssumption, BlockAssumption DEF ChainKnown, State
  <2>2. /\ g \in s.certs /\ CertifiedIn(M, g) /\ CertifiedIn(M, gg)
        /\ ViewOf[g] <= ViewOf[s.prepare]
    BY <2>1 DEF LocalInv, StoreInv, Closed, TagsCertified
  <2>3. /\ ViewOf[t.prepare] \in Nat /\ ViewOf[t.locked] \in Nat /\ ViewOf[s.locked] \in Nat
        /\ ViewOf[g] \in Nat /\ ViewOf[gg] \in Nat
        /\ ViewOf[s.commit] \in Nat
        /\ \A b \in Block : ViewOf[b] \in Nat
    BY Zenon, <1>0, <1>1, <2>1, BlockAssumption DEF State
  <2>4. TagsCertified(t, M)
    BY <1>1, <1>3, <2>1, <2>2 DEF LocalInv, StoreInv, TagsCertified
  <2>5. ViewOf[t.locked] <= ViewOf[t.prepare]
    BY <1>1, <1>3, <2>2, <2>3 DEF LocalInv, StoreInv, TagsOrdered
  <2>6. ViewOf[t.commit] <= ViewOf[t.locked]
    <3>1. CASE t.commit = s.commit
      BY <1>1, <2>3, <3>1 DEF LocalInv, StoreInv, TagsOrdered
    <3>2. CASE NoGaps(p) /\ t.commit = gg
      BY <1>1, <1>3, <2>3, <3>2 DEF NoGaps
    <3>3. QED  BY <1>1, <1>3, <3>1, <3>2
  <2>7. Closed(t, M)  BY <1>1 DEF LocalInv, StoreInv, Closed
  <2>8. Locks(t)
    <3>1. SUFFICES ASSUME NEW b \in s.headers, ParentOf[b] \in s.headers,
                          ParentOf[ParentOf[b]] \in s.headers
                   PROVE  ViewOf[ParentOf[ParentOf[b]]] <= ViewOf[t.locked]
      BY <1>1 DEF Locks
    <3>2. ViewOf[ParentOf[ParentOf[b]]] <= ViewOf[s.locked]
      BY <3>1 DEF LocalInv, StoreInv, Locks
    <3>3. ParentOf[ParentOf[b]] \in Block  BY <1>0, <3>1 DEF State
    <3>4. QED  BY <1>1, <2>3, <3>2, <3>3
  <2>9. CommitDecided(t, M)
    <3>1. CASE t.commit = s.commit  BY <3>1 DEF LocalInv, StoreInv, CommitDecided
    <3>2. CASE NoGaps(p) /\ t.commit = gg
      <4>1. p \in ThreeChains /\ Decided(p) = t.commit
        BY <1>0, <2>1, <3>2 DEF ThreeChains, Decided
      <4>2. QED  BY <4>1 DEF CommitDecided
    <3>3. QED  BY <1>1, <1>3, <3>1, <3>2
  <2>10. BallotInv(t, M)  BY <1>1 DEF LocalInv, BallotInv, Quiet
  <2>11. LocksParent(t, p)  BY <1>1, <1>3, <2>3 DEF LocksParent
  <2>12. QED
    BY <1>1, <2>4, <2>5, <2>6, <2>7, <2>8, <2>9, <2>10, <2>11
    DEF LocalInv, StoreInv, TagsOrdered, t
<1>4. QED  BY <1>2, <1>3
=============================================================================
