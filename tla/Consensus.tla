----------------------------- MODULE Consensus -----------------------------
(***************************************************************************)
(* The consensus state machine of consensus.go run by N replicas over an   *)
(* asynchronous network that may lose, duplicate, delay and reorder.       *)
(*                                                                         *)
(* rep[r] is the consensus struct of replica r together with the buckets   *)
(* of its BlockStore; every handler runs to completion on the event loop   *)
(* of the node, with the messages a replica sends to itself handled inside *)
(* sendMsg, so each handler is one atomic step, written as a function from *)
(* the state s of the replica to its next state.  msgs is every message    *)
(* ever handed to the network: a message that is never received is a lost  *)
(* one, a message that is received twice a duplicated one.                 *)
(*                                                                         *)
(* A certificate is represented by the block it certifies, a timeout       *)
(* certificate by its view: signatures are external, and an aggregate      *)
(* verifies when Majority replicas signed.                                 *)
(***************************************************************************)
EXTENDS Chain, Sequences

CONSTANTS
  N,            \* number of replicas
  Alive,        \* the replicas that take steps; the others never start
  Slow,         \* bound: <<r, v>> if replica r may time out of view v
  Lost,         \* bound: <<r, v>> if no proposal of view v ever reaches r
  Synced,       \* bound: <<r, v>> if blocks of view v are sent to r in a sync message
  MaxRestarts,  \* bound: MaxRestarts[r] is how often replica r is restarted
  Durable       \* the store survives a restart (NewMemDB does not)

Replica == 0 .. N - 1

ASSUME ReplicaAssumption ==
  /\ N \in Nat \ {0}
  /\ Alive \subseteq Replica
  /\ Durable \in BOOLEAN

ASSUME BoundAssumption ==
  /\ Slow \subseteq Replica \X Nat
  /\ Lost \subseteq Replica \X Nat
  /\ Synced \subseteq Replica \X Nat
  /\ MaxRestarts \in [Replica -> Nat]

VARIABLES rep, msgs
vars == <<rep, msgs>>

-----------------------------------------------------------------------------
Majority == (2 * N) \div 3 + 1

(* getLeader: replicas take turns by view. *)
Leader(v) == v % N

NoTimeout == 0      \* a nil timeout certificate; Timeouts.view when idle
MaxShift == 62      \* the largest shift that leaves int(1 << gap) positive

(* newTimeout doubles the timeout for each view since the last certified    *)
(* block.  ticks counts up from 0 and is compared with = so the timer fires *)
(* exactly when the shifted 64-bit value is positive.                       *)
TimerFires(gap) == 0 <= gap /\ gap <= MaxShift

ProposalMsg(b, tc, r) == [type |-> "proposal", block |-> b, timeout |-> tc, from |-> r]
VoteMsg(b, r) == [type |-> "vote", block |-> b, voter |-> r]
NewViewMsg(v, b, r) == [type |-> "newview", view |-> v, cert |-> b, voter |-> r]

Proposals == [type : {"proposal"}, block : Block, timeout : Nat, from : Replica]
Votes == [type : {"vote"}, block : Block, voter : Replica]
NewViews == [type : {"newview"}, view : Nat, cert : Block, voter : Replica]
Message == Proposals \cup Votes \cup NewViews

Event(b, final) == [block |-> b, finalized |-> final]

(* Replicas whose signature over block b, or over timed out view v, exists. *)
Signers(b) == {r \in Replica : VoteMsg(b, r) \in msgs}
TimeoutSigners(v) ==
  {r \in Replica : \E m \in msgs : m.type = "newview" /\ m.view = v /\ m.voter = r}

(* Blocks that somebody voted for: all but the genesis that can be certified. *)
SignedBlocks == {m.block : m \in {v \in msgs : v.type = "vote"}}

(* VerifyAggregated.  The genesis certificate is signed before the start. *)
Certified(b) == b = Genesis \/ Cardinality(Signers(b)) >= Majority
TimeoutCertified(v) == Cardinality(TimeoutSigners(v)) >= Majority

-----------------------------------------------------------------------------
(* The state of one replica.                                               *)
(*   view .. certs   in the store: view, voted, the three tags, the header *)
(*                   and certificate buckets (always equal to the fields   *)
(*                   of the struct, which are saved when assigned)         *)
(*   ballot, votes   Votes.Header and Votes.votes                          *)
(*   tview, received Timeouts.view and Timeouts.received                   *)
(*   armed           ticks will meet timeout                               *)
(*   missing         Progress.NotFound                                     *)
(*   events          everything Progress.Events ever held                  *)
(*   out             Progress.Messages, drained at the end of each step    *)
State ==
  [view : Nat, voted : Nat, prepare : Block, locked : Block, commit : Block,
   headers : SUBSET Block, certs : SUBSET Block,
   ballot : Block \cup {NoBlock}, votes : SUBSET Replica,
   tview : Nat, received : SUBSET Replica, timeoutCert : Nat,
   waitingData : BOOLEAN, armed : BOOLEAN, missing : SUBSET Block,
   events : Seq([block : Block, finalized : BOOLEAN]),
   out : SUBSET Message, up : BOOLEAN, restarts : Nat]

(* Mutant: the votes collected for the last ballot survive into the next view. *)
EnterViewKeepingVotes(r, s) ==
  LET collects == r = Leader(s.view + 1)
      resets == collects \/ r = Leader(s.view - 1)
  IN [s EXCEPT
        !.armed = TimerFires(s.view - ViewOf[s.prepare]),
        !.waitingData = FALSE,
        !.timeoutCert = IF @ < s.view - 1 THEN NoTimeout ELSE @,
        !.tview = IF collects THEN s.view ELSE IF resets THEN NoTimeout ELSE @,
        !.received = IF resets THEN {} ELSE @]

(* nextRound, up to the choice between new-view and waiting for data *)
EnterView(r, s) ==
  LET collects == r = Leader(s.view + 1)
      resets == collects \/ r = Leader(s.view - 1)
  IN [s EXCEPT
        !.armed = TimerFires(s.view - ViewOf[s.prepare]),
        !.waitingData = FALSE,
        !.votes = {},
        !.ballot = NoBlock,
        !.timeoutCert = IF @ < s.view - 1 THEN NoTimeout ELSE @,
        !.tview = IF collects THEN s.view ELSE IF resets THEN NoTimeout ELSE @,
        !.received = IF resets THEN {} ELSE @]

(* nextRound(false) *)
NextRound(r, s) ==
  [EnterView(r, s) EXCEPT !.waitingData = (r = Leader(s.view))]

(* Mutant: a certificate seen again is announced again. *)
UpdatePrepareAgain(s, b) ==
  IF ViewOf[b] >= ViewOf[s.prepare]
  THEN [s EXCEPT !.prepare = b, !.events = Append(@, Event(b, FALSE))]
  ELSE s

(* Mutant: the last certificate seen, not the highest. *)
UpdatePrepareToLast(s, b) ==
  IF b # s.prepare
  THEN [s EXCEPT !.prepare = b, !.events = Append(@, Event(b, FALSE))]
  ELSE s

UpdatePrepare(s, b) ==
  IF ViewOf[b] > ViewOf[s.prepare]
  THEN [s EXCEPT !.prepare = b, !.events = Append(@, Event(b, FALSE))]
  ELSE s

(* syncView: tc is the timeout certificate, b the certified block *)
SyncView(r, s, b, tc) ==
  LET next == (IF tc = NoTimeout THEN ViewOf[b] ELSE tc) + 1
  IN IF next > s.view THEN NextRound(r, [s EXCEPT !.view = next]) ELSE s

(* update(p): p is certified, so its parent is locked and, when the three   *)
(* views are consecutive, the parent's parent is commited.                  *)
ChainKnown(s, p) ==
  ParentOf[p] \in s.headers /\ ParentOf[ParentOf[p]] \in s.headers

(* Mutant: nothing is ever locked. *)
LockNever(s, g) == s

(* Mutant: the lock follows the last two-chain seen, not the highest. *)
LockLast(s, g) == [s EXCEPT !.locked = g]

Lock(s, g) ==
  IF ViewOf[g] > ViewOf[s.locked] THEN [s EXCEPT !.locked = g] ELSE s

NoGaps(p) ==
  /\ ViewOf[p] - ViewOf[ParentOf[p]] = 1
  /\ ViewOf[ParentOf[p]] - ViewOf[ParentOf[ParentOf[p]]] = 1

Decide(s, b) ==
  IF ViewOf[b] > ViewOf[s.commit]
  THEN [s EXCEPT !.commit = b, !.events = Append(@, Event(b, TRUE))]
  ELSE s

(* Mutant: a block is commited as soon as it is certified. *)
UpdateAtOnce(s, p) ==
  IF ChainKnown(s, p) THEN Decide(Lock(s, ParentOf[p]), p) ELSE s

(* Mutant: the lock is one block too low. *)
UpdateLocksBelow(s, p) ==
  IF ~ ChainKnown(s, p) THEN s
  ELSE LET locked == Lock(s, ParentOf[ParentOf[p]])
       IN IF NoGaps(p) THEN Decide(locked, ParentOf[ParentOf[p]]) ELSE locked

Update(s, p) ==
  IF ~ ChainKnown(s, p) THEN s
  ELSE LET locked == Lock(s, ParentOf[p])
       IN IF NoGaps(p) THEN Decide(locked, ParentOf[ParentOf[p]]) ELSE locked

(* Mutant: any proposal on a known block is safe to vote for. *)
SafeNodeAnyBranch(s, b) == ParentOf[b] \in s.headers

SafeNode(s, b) ==
  /\ ParentOf[b] \in s.headers
  /\ \/ ParentOf[b] \in {s.locked, s.prepare}
     \/ ViewOf[ParentOf[b]] > ViewOf[s.locked]

(* Mutant: the header is saved without the certificate of its parent. *)
PersistHeaderOnly(s, b) == [s EXCEPT !.headers = @ \cup {b}]

PersistProposal(s, b) ==
  [s EXCEPT !.headers = @ \cup {b}, !.certs = @ \cup {ParentOf[b]}]

-----------------------------------------------------------------------------
(* Votes.Collect and onVote *)
CollectsVote(r, s, m) ==
  /\ r = Leader(ViewOf[m.block] + 1)
  /\ m.block = s.ballot
  /\ m.voter \notin s.votes

OnVote(r, s, m) ==
  LET c == [s EXCEPT !.votes = @ \cup {m.voter}]
      saved == UpdatePrepare([c EXCEPT !.certs = @ \cup {m.block}], m.block)
  IN IF ~ CollectsVote(r, s, m) THEN s
     ELSE IF Cardinality(c.votes) < Majority THEN c
     ELSE NextRound(r, SyncView(r, saved, m.block, NoTimeout))

SendVote(r, s, b) ==
  LET m == VoteMsg(b, r)
      voted == [s EXCEPT !.voted = ViewOf[b], !.ballot = b, !.out = @ \cup {m}]
  IN IF r = Leader(ViewOf[b] + 1) THEN OnVote(r, voted, m) ELSE voted

(* Timeouts.Collect and onNewView *)
CollectsNewView(s, m) ==
  /\ s.tview # NoTimeout
  /\ s.tview = m.view
  /\ m.voter \notin s.received

(* Mutant: a leader that has entered the view by its own timeout does not    *)
(* wait for data.                                                            *)
OnNewViewIdle(r, s, m) ==
  LET p == UpdatePrepare(s, m.cert)
      c == [p EXCEPT !.received = @ \cup {m.voter}]
      synced == SyncView(r, [c EXCEPT !.timeoutCert = m.view], c.prepare, m.view)
  IN IF r # Leader(m.view + 1) \/ m.cert \notin s.headers THEN s
     ELSE IF ~ CollectsNewView(p, m) THEN p
     ELSE IF Cardinality(c.received) < Majority THEN c
     ELSE IF s.view = m.view THEN NextRound(r, synced) ELSE synced

OnNewView(r, s, m) ==
  LET p == UpdatePrepare(s, m.cert)
      c == [p EXCEPT !.received = @ \cup {m.voter}]
      synced == SyncView(r, [c EXCEPT !.timeoutCert = m.view], c.prepare, m.view)
  IN IF r # Leader(m.view + 1) \/ m.cert \notin s.headers THEN s
     ELSE IF ~ CollectsNewView(p, m) THEN p
     ELSE IF Cardinality(c.received) < Majority THEN c
     ELSE IF s.view = m.view THEN NextRound(r, synced)
     ELSE [synced EXCEPT !.waitingData = TRUE]

SendNewView(r, s) ==
  LET m == NewViewMsg(s.view - 1, s.prepare, r)
      sent == [s EXCEPT !.voted = s.view - 1, !.out = @ \cup {m}]
  IN IF r = Leader(s.view) THEN OnNewView(r, sent, m) ELSE sent

(* Mutant: a replica gives a view up that it has voted in. *)
OnTimeoutAlways(r, s) == SendNewView(r, EnterView(r, [s EXCEPT !.view = @ + 1]))

(* onTimeout and nextRound(true): a replica that voted in the view it leaves *)
(* sends no new-view.                                                        *)
OnTimeout(r, s) ==
  LET next == [s EXCEPT !.view = @ + 1]
  IN IF next.view - 1 > next.voted
     THEN SendNewView(r, EnterView(r, next))
     ELSE NextRound(r, next)

(* onProposal: the part after the checks of the message *)
AcceptProposal(r, s, m) ==
  LET b == m.block
      p == ParentOf[b]
      known == Update(SyncView(r, UpdatePrepare(s, p), p, m.timeout), p)
      saved == PersistProposal(known, b)
  IN IF ViewOf[b] # known.view THEN known
     ELSE IF ViewOf[b] > saved.voted /\ SafeNode(saved, b) THEN SendVote(r, saved, b)
     ELSE saved

OnProposal(r, s, m) ==
  IF ~ Certified(ParentOf[m.block]) THEN s
  ELSE IF ParentOf[m.block] \notin s.headers
       THEN [s EXCEPT !.missing = @ \cup {ParentOf[m.block]}]
  ELSE IF \/ /\ m.timeout # NoTimeout
             /\ ~ (m.timeout = ViewOf[m.block] - 1 /\ TimeoutCertified(m.timeout))
          \/ m.from # Leader(ViewOf[m.block])
       THEN s
  ELSE AcceptProposal(r, s, m)

(* Send builds on the highest certified block; its own broadcast is handled *)
(* before it returns.                                                       *)
Propose(r, s, b) ==
  LET m == ProposalMsg(b, s.timeoutCert, r)
  IN OnProposal(r, [s EXCEPT !.waitingData = FALSE, !.out = @ \cup {m}], m)

(* Mutant: a block obtained from another replica is taken as commited. *)
SyncBlockCommits(s, b) ==
  IF ViewOf[b] <= ViewOf[s.commit] \/ ~ Certified(b) THEN s
  ELSE Decide([s EXCEPT !.headers = @ \cup {b}, !.certs = @ \cup {b}], b)

(* syncBlock: a block with its certificate, obtained from another replica *)
SyncBlock(s, b) ==
  LET saved == [s EXCEPT !.headers = @ \cup {b}, !.certs = @ \cup {b}]
  IN IF ViewOf[b] <= ViewOf[s.commit] \/ ~ Certified(b) THEN s
     ELSE Update(UpdatePrepare(saved, b), b)

-----------------------------------------------------------------------------
(* The store ImportGenesis leaves, with nothing started yet. *)
GenesisState ==
  [view |-> ViewOf[Genesis] + 1, voted |-> ViewOf[Genesis],
   prepare |-> Genesis, locked |-> Genesis, commit |-> Genesis,
   headers |-> {Genesis}, certs |-> {Genesis},
   ballot |-> NoBlock, votes |-> {}, tview |-> NoTimeout, received |-> {},
   timeoutCert |-> NoTimeout, waitingData |-> FALSE, armed |-> FALSE,
   missing |-> {}, events |-> <<>>, out |-> {}, up |-> TRUE, restarts |-> 0]

(* Mutant: voted is not saved. *)
ReloadUnvoted(s) ==
  [s EXCEPT !.voted = ViewOf[Genesis], !.ballot = NoBlock, !.votes = {},
            !.tview = NoTimeout, !.received = {}, !.timeoutCert = NoTimeout]

(* Mutant: the chain is saved, view and voted are not. *)
ReloadChainOnly(s) ==
  [s EXCEPT !.view = ViewOf[Genesis] + 1, !.voted = ViewOf[Genesis],
            !.ballot = NoBlock, !.votes = {}, !.tview = NoTimeout,
            !.received = {}, !.timeoutCert = NoTimeout]

(* What a new process finds: the store, when it is durable. *)
Reload(s) ==
  LET store == IF Durable THEN s ELSE GenesisState
  IN [GenesisState EXCEPT
        !.view = store.view, !.voted = store.voted,
        !.prepare = store.prepare, !.locked = store.locked, !.commit = store.commit,
        !.headers = store.headers, !.certs = store.certs,
        !.events = s.events, !.restarts = s.restarts]

(* newConsensus ends the process when the store lacks what a tag refers to. *)
Loads(s) ==
  /\ {s.prepare, s.locked, s.commit} \subseteq s.headers
  /\ s.prepare \in s.certs

(* newConsensus, then Start *)
Boot(r, s) == IF Loads(s) THEN NextRound(r, s) ELSE [s EXCEPT !.up = FALSE]

Init ==
  /\ rep = [r \in Replica |-> Boot(r, GenesisState)]
  /\ msgs = {}

(* Mutant: Progress is not reset once its messages are taken. *)
BecomesUndrained(r, t) ==
  /\ rep' = [rep EXCEPT ![r] = t]
  /\ msgs' = msgs \cup t.out

(* One step of r: its next state is t, and what it sent is on the network. *)
Becomes(r, t) ==
  /\ rep' = [rep EXCEPT ![r] = [t EXCEPT !.out = {}]]
  /\ msgs' = msgs \cup t.out

Send(r) ==
  /\ rep[r].waitingData
  /\ \E b \in Block :
       /\ ViewOf[b] = rep[r].view
       /\ ParentOf[b] = rep[r].prepare
       /\ Becomes(r, Propose(r, rep[r], b))

(* Tick, when it is the one that reaches the timeout *)
Timeout(r) ==
  /\ rep[r].armed
  /\ <<r, rep[r].view>> \in Slow
  /\ Becomes(r, OnTimeout(r, rep[r]))

(* Step, for a message addressed to r: sendVote and sendNewView send to one *)
(* replica, a proposal goes to all.                                         *)
ReceiveProposal(r) ==
  \E m \in msgs :
    /\ m.type = "proposal"
    /\ <<r, ViewOf[m.block]>> \notin Lost
    /\ Becomes(r, OnProposal(r, rep[r], m))

ReceiveVote(r) ==
  \E m \in msgs :
    /\ m.type = "vote"
    /\ r = Leader(ViewOf[m.block] + 1)
    /\ Becomes(r, OnVote(r, rep[r], m))

ReceiveNewView(r) ==
  \E m \in msgs :
    /\ m.type = "newview"
    /\ r = Leader(m.view + 1)
    /\ Becomes(r, OnNewView(r, rep[r], m))

Restart(r) ==
  /\ rep[r].restarts < MaxRestarts[r]
  /\ Becomes(r, Boot(r, [Reload(rep[r]) EXCEPT !.restarts = @ + 1]))

(* onSync, for a list of one block: a longer list has the effect of handling *)
(* its blocks one after the other.  The application may hand over any block   *)
(* with a certificate, not only one that was reported missing.                *)
Sync(r) ==
  \E b \in SignedBlocks :
    /\ <<r, ViewOf[b]>> \in Synced
    /\ Becomes(r, SyncBlock(rep[r], b))

Step(r) ==
  /\ rep[r].up
  /\ \/ Send(r)
     \/ Timeout(r)
     \/ ReceiveProposal(r)
     \/ ReceiveVote(r)
     \/ ReceiveNewView(r)
     \/ Restart(r)

Next == \E r \in Alive : Step(r)
Spec == Init /\ [][Next]_vars

(* hotstuff-node never answers a request for a missing block; an           *)
(* application that does, as the tests do, has these steps as well.        *)
NextSync == Next \/ \E r \in Alive : rep[r].up /\ Sync(r)
SpecSync == Init /\ [][NextSync]_vars

-----------------------------------------------------------------------------
(* Every variable holds a value of its type, and nothing is left undrained. *)
TypeOK ==
  /\ rep \in [Replica -> State]
  /\ \A r \in Replica : rep[r].out = {}
  /\ msgs \subseteq Message

(* Commited blocks of all replicas lie on one branch: "will fail if commited *)
(* chains have different blocks at certain height" (node_test.go).  Two       *)
(* contrary commits rest on six certified blocks of different views, so this  *)
(* is proved from CommitIsFinal and not left to an instance.                  *)
Agreement ==
  \A p, q \in Replica : SameBranch(rep[p].commit, rep[q].commit)

(* Once some replica has commited a block, every certificate that exists for *)
(* the same or a later view is for a descendant of it, whoever holds it: no   *)
(* later vote can undo what update() decided.                                *)
CommitIsFinal ==
  \A r \in Replica, b \in SignedBlocks :
    /\ Certified(b)
    /\ ViewOf[b] >= ViewOf[rep[r].commit]
    => rep[r].commit \in Ancestors[b]

(* The view a vote or new-view speaks about. *)
SignedView(m) == IF m.type = "vote" THEN ViewOf[m.block] ELSE m.view
Signatures == {m \in msgs : m.type \in {"vote", "newview"}}

(* A replica signs at most one thing about a view, restarts included: a vote *)
(* for one block or the new-view that gives the view up ("must be persisted  *)
(* to ensure no accidental double vote on the same view", consensus.go).     *)
SignOnce ==
  \A m, n \in Signatures :
    m.voter = n.voter /\ SignedView(m) = SignedView(n) => m = n

(* A view has one outcome: at most one block of it is ever certified, and     *)
(* then no timeout certificate for it exists that a leader could use to       *)
(* build on an older block.                                                   *)
OneOutcomePerView ==
  \A b \in SignedBlocks :
    Certified(b) =>
      /\ ~ TimeoutCertified(ViewOf[b])
      /\ \A c \in SignedBlocks : Certified(c) /\ ViewOf[c] = ViewOf[b] => c = b

(* Whatever a replica stores as certified really is, and "prepareCert [is]    *)
(* always updated to highest known certificate" (consensus.go): no other      *)
(* certificate in the store is for a later view.                              *)
PrepareIsHighestCert ==
  \A r \in Replica :
    LET s == rep[r] IN
      /\ Certified(s.prepare)
      /\ \A b \in s.certs : Certified(b) /\ ViewOf[b] <= ViewOf[s.prepare]

(* What a replica locked, and its highest certified block, both descend from  *)
(* what it commited, and the lock is not of a later view than the certified   *)
(* block.  Those two may be on different branches: a majority can certify a   *)
(* block that a locked replica would not vote for.                            *)
TagsFollowCommit ==
  \A r \in Replica :
    LET s == rep[r] IN
      /\ s.commit \in Ancestors[s.locked]
      /\ s.commit \in Ancestors[s.prepare]
      /\ ViewOf[s.locked] <= ViewOf[s.prepare]

(* A replica that never syncs has every ancestor of a header it stores, with  *)
(* the certificate of each: onProposal refuses a block on an unknown parent.  *)
StoreIsClosed ==
  \A r \in Replica : \A b \in rep[r].headers \ {Genesis} :
    ParentOf[b] \in rep[r].headers \cap rep[r].certs

(* "2-chain locked, gaps are allowed" (consensus.go): a stored block certifies *)
(* its parent, so the lock is at least at its grandparent when that is known.  *)
TwoChainIsLocked ==
  \A r \in Replica : \A b \in rep[r].headers :
    LET p == ParentOf[b] IN
      p \in rep[r].headers /\ ParentOf[p] \in rep[r].headers =>
        ViewOf[ParentOf[p]] <= ViewOf[rep[r].locked]

(* The highest certified block is never ahead of the view, as long as blocks  *)
(* come in proposals only: syncView follows the updatePrepare of a proposal   *)
(* and of a collected vote, and a new-view carries an older certificate.      *)
(* syncBlock calls updatePrepare alone.                                       *)
PrepareBelowView ==
  \A r \in Replica : ViewOf[rep[r].prepare] <= rep[r].view

(* A certified block is of a later view than its parent, although a leader    *)
(* can propose one that is not: Send does not compare view with prepare.      *)
ViewsIncrease ==
  \A b \in SignedBlocks : Certified(b) => ViewOf[ParentOf[b]] < ViewOf[b]

(* Votes are only counted for a block of the current view that this replica   *)
(* voted for itself, and new-views only for a view whose next leader it is.   *)
CollectorsMatchView ==
  \A r \in Replica :
    LET s == rep[r] IN
      /\ s.ballot # NoBlock => ViewOf[s.ballot] = s.view /\ s.voted = s.view
      /\ s.tview # NoTimeout => r = Leader(s.tview + 1) /\ s.tview <= s.view

(* Position of an event in the stream an application reads from Blocks(). *)
Emitted(s, e) == \E i \in DOMAIN s.events : s.events[i] = e

(* "each block will appear up to two times", "first time non-finalized" and   *)
(* "second time finalized" (example_test.go): no event is repeated and a      *)
(* finalized event follows the non-finalized one of the same block.           *)
EventsInOrder ==
  \A r \in Replica :
    LET ev == rep[r].events IN
      /\ \A i, j \in DOMAIN ev : ev[i] = ev[j] => i = j
      /\ \A j \in DOMAIN ev :
           ev[j].finalized => \E i \in 1 .. j - 1 : ev[i] = Event(ev[j].block, FALSE)

(* No step takes back what was stored: views never go back, a commit is only  *)
(* ever replaced by a descendant, and a lock only by a later certified block. *)
NeverGoesBack ==
  [][\A r \in Replica :
       /\ rep'[r].view >= rep[r].view
       /\ rep'[r].voted >= rep[r].voted
       /\ rep[r].commit \in Ancestors[rep'[r].commit]
       /\ ViewOf[rep'[r].locked] >= ViewOf[rep[r].locked]
       /\ rep[r].headers \subseteq rep'[r].headers]_vars

-----------------------------------------------------------------------------
(* Statements of the repository that the code does not keep.               *)

(* "Ready emit signals whenever node a leader and can make a proposal"        *)
(* (node.go): a replica that waits for data leads its view.                   *)
ReadyOnlyLeader ==
  \A r \in Replica : rep[r].waitingData => r = Leader(rep[r].view)

(* "release timeout certificate once it is useless" (consensus.go): only the  *)
(* certificate of the view just before can be used in a proposal.             *)
TimeoutCertIsUsable ==
  \A r \in Replica :
    rep[r].timeoutCert # NoTimeout => rep[r].timeoutCert >= rep[r].view - 1

(* "doubles the number of expected ticks for every gap since last block was   *)
(* signed by quorum" (consensus.go): a running replica has a timeout that its *)
(* ticks will meet, so it leaves a view in which nothing happens.             *)
TimerArmed ==
  \A r \in Replica : rep[r].up => rep[r].armed

(* newConsensus expects the certificate of the prepare tag in the store       *)
(* ("failed to load prepare certificate" ends the process).                   *)
Recoverable == \A r \in Replica : Loads(rep[r])

(* "Blocks will emit headers of the commited blocks" (node.go): every block   *)
(* on the commited branch is announced as finalized.                          *)
FinalizedIsComplete ==
  \A r \in Replica : \A b \in Ancestors[rep[r].commit] \ {Genesis} :
    Emitted(rep[r], Event(b, TRUE))
=============================================================================
