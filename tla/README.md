# Verification of the HotStuff replica

The repository implements a chained variant of HotStuff in Go: a consensus state
machine (`consensus.go`) with its store, collectors and event loop, and a process
(`hotstuff-node/`) that connects four of them over TCP. This directory holds TLA+
modules that model the state machine and everything it decides from, TLC
configurations that check them on small instances, and TLAPS proofs of the safety
properties for every number of replicas and every block tree.

## The system

| Part | Code | State | Operations |
|---|---|---|---|
| consensus | `consensus.go` | `view`, `voted`, `prepare`, `locked`, `commit`, `prepareCert`, `timeoutCert`, `waitingData`, `ticks`, `timeout` | `Start`, `Tick`, `Send`, `Step` (proposal, vote, new-view, sync) |
| collectors | `utils.go` | `Votes`, `Timeouts` | `Start`, `Reset`, `Collect` |
| genesis | `utils.go` | the first store | `ImportGenesis` |
| store | `store.go`, `db.go` | buckets for headers, certificates, data, tags, view, voted | `Save*`, `Set*`, `Get*`, `ChainIterator` |
| progress | `progress.go` | messages, events, missing blocks, ready flag | `Add*`, `Reset` |
| event loop | `node.go` | one-element channels to and from the application | `run` |
| signatures | `crypto/` | none | `Sign`, `Verify`, `VerifyAggregated`, `Merge` |
| process | `hotstuff-node/main.go` | per-peer channels, counter of finalized blocks | `entryPoint`, `dispatchMessage` |
| transport | `hotstuff-node/tcpNode.go` | connections, two goroutines each | listen, dial, exchange ids, send, receive |
| framing | `hotstuff-node/bytes_encoding.go` | none | length prefix, `getMessageFromReader` |

A leader (`view % N`) that is waiting for data broadcasts a proposal on top of the
highest certified block. A replica that receives it learns that the parent is
certified: it raises `prepare`, enters the view after it, locks the grandparent
and, when three views follow one another without a gap, commits the
great-grandparent. Then it stores the block and, if it may, votes; the vote goes to
the leader of the next view, who turns `2N/3 + 1` votes into a certificate and
proposes in turn. A replica whose ticks reach the timeout enters the next view and,
unless it voted in the one it leaves, sends a signed new-view with its highest
certificate to the leader of the view it enters; `2N/3 + 1` of those are a timeout
certificate.

What makes this hard to get right: votes, new-views and proposals overtake each
other and arrive after their view has passed; a view can be voted in by some
replicas while others give it up; leaders of successive views may know different
certificates; a process restarts with what its store holds while its signatures are
still on the network; blocks obtained through sync arrive without their ancestors;
a fourth new-view completes a quorum again.

## Modules

| Module | Lines up with | Contents |
|---|---|---|
| `Chain` | `types/hash.go` | the tree of headers, as constants with named assumptions |
| `Consensus` | `consensus.go`, `utils.go`, parts of `store.go`, `progress.go`, `node.go`, `crypto/` | the replicas and the network, the properties, and deliberately wrong variants of some operators |
| `ConsensusInv` | the same | the inductive invariant |
| `ConsensusStore`, `ConsensusHandlers` | the same | lemmas: what each function and each handler does to the state of one replica |
| `ConsensusSteps` | the same | what a step signs; the theorems about the store of one replica |
| `ConsensusVotes` | the same | lemmas: what two majorities of votes exclude |
| `ConsensusSafety` | the same | the theorems about all replicas together |
| `MCConsensus` | | finite block trees for TLC |

**State.** `rep[r]` is one record per replica: the fields of the `consensus` struct,
the buckets of its store, and `Progress`. Struct fields and buckets that the code
always writes together are one field. `certs` are the hashes in the certificate
bucket; a certificate is identified with the block it certifies and a timeout
certificate with its view. `ballot` and `votes` are `Votes.Header` and `Votes.votes`;
`tview` and `received` are `Timeouts.view` and `Timeouts.received`. `armed` stands for
`ticks` and `timeout`: the code compares them with `==`, so the timer fires at some
later tick exactly when the shifted value is positive. `events` is everything ever
put into `Progress.Events`. `msgs` is every message ever handed to the network; it
never shrinks, so a message may be received late, twice, out of order or never.

**Actions.** The handlers of one replica run one at a time on the event loop of
`node.go`, and messages a replica sends to itself are handled inside `sendMsg`. Each
handler is therefore one step. It is written as a function from the replica's state
to its next state (`OnProposal`, `OnVote`, `OnNewView`, `OnTimeout`, `Propose`,
`SyncBlock`, `Boot`), composed of one operator per function of the Go code in the
order of its calls; `Becomes` installs the result and hands over the messages.

| Action | Code |
|---|---|
| `Send` | `Send`, including the handling of the own broadcast |
| `Timeout` | the `Tick` that reaches the timeout, `onTimeout`, `nextRound(true)` |
| `ReceiveProposal`, `ReceiveVote`, `ReceiveNewView` | `Step` |
| `Restart` | a new process: `newConsensus` on the store that is left, then `Start` |
| `Sync` | `onSync` with any block that has a certificate; a list is handled block by block |

`Spec` has no `Sync`: `hotstuff-node` never reads `Missing()` and never sends a sync
message. `SpecSync` adds it, as the tests of the repository do.

**Faults.** Replicas run this code: they stop, restart between handlers and lose
messages, but send nothing the code would not send. With `Durable = FALSE` a restart
finds the genesis alone, which is what `NewMemDB` gives `hotstuff-node`.

**Abstractions.** Hashes are collision free; signatures cannot be made up; block data
is not kept; a failing database write ends the process and is no step.

## Runs

Every run instantiates `MCConsensus`, where a block is the sequence of views on its
path from the genesis. Bounds: `TopView` is the highest view a block is built in,
`Slow` says which replica may time out of which view, `MaxRestarts` how often one is
restarted, `Lost` which proposals never reach a replica and `Synced` which blocks may
be sent to it in a sync message; `TwinViews` are the views in which two blocks on one
parent can be told apart. Timeouts, restarts and sync are what multiplies the states;
everything else is unbounded. Neither symmetry nor state constraints are used:
replicas take turns as leaders, so they are not interchangeable.

| Run | Instance | Checks |
|---|---|---|
| `safety_n4` | 4 replicas, 5 views; replica 1 may time out of every view, misses views 2 and 3 and is restarted once; the others time out of views 3 and 4 | `TypeOK`, `IInv`, `OneOutcomePerView`, `PrepareIsHighestCert`, `StoreIsClosed`, `TwoChainIsLocked`, `CollectorsMatchView`, `EventsInOrder`, `CommitIsFinal`, `TagsFollowCommit`, `NeverGoesBack` |
| `restart_n2` | 2 replicas, timeouts in views 1 to 3, 5 views, one restart each, two payloads in view 2 | `SignOnce`, `OneOutcomePerView`, `ViewsIncrease`, `PrepareBelowView`, `NeverGoesBack` |
| `sync_n4` | 4 replicas, 6 views; replica 0 misses the first block and is sent it or the second one; replica 2 lags from view 3 on and is restarted once | `CommitIsFinal`, `OneOutcomePerView`, `PrepareIsHighestCert`, `NeverGoesBack` |

Four replicas are the smallest number with a majority (3) that is not all of them,
and the number `hotstuff-node` runs. A leader that waited for a majority of votes or
new-views has learnt of the certificates they knew. One that was restarted in its view
does not wait (`Start` runs `nextRound(false)`, which asks for data at once), so the
runs let the one replica that missed the commited chain be restarted in the view it
leads and propose on an old block: then only the locks of the others keep the commit.
In `safety_n4` that is replica 1 in view 5, in `sync_n4` replica 2 in view 6, there also
while replica 0 has voted for two blocks above the commited one and holds no lock,
because `update` returned early on its incomplete store. Without `Lock`, and without
the test in `safeNode`, TLC finds `CommitIsFinal` violated in both runs; with
`Restarted = {}` in `MCSafety.cfg` it finds nothing in either case, so the restart is
what makes the locks matter there.

Two contrary commits rest on six certified blocks, each of a view of its own, which is
more than `safety_n4` has views: `Agreement` is not checked by a run but proved. With two replicas every quorum is everybody, which keeps
five views, two payloads and a restart of each within reach: a restarted leader of
view 2 may propose a second block of its view, and what a restart can break (a second
signature, two certificates of a view, a view that does not fit the store) shows up.

Each property has at least one wrong variant of the code under which TLC finds it
violated in the same run; they stand before the operators they replace in
`Consensus` and are marked as mutants.

Seven runs end in a counterexample, each to a sentence of the repository:

| Run | Sentence | What happens |
|---|---|---|
| `ready_not_leader` | "Ready emit signals whenever node a leader and can make a proposal" (`node.go:120`) | late new-views make a replica wait for data in a view it does not lead |
| `stale_timeout_cert` | "release timeout certificate once it is useless" (`consensus.go:193`) | `onNewView` installs a certificate whose view has passed |
| `tag_without_cert` | "failed to load prepare certificate" ends the process (`consensus.go:52`) | `onNewView` saves the prepare tag and not the certificate |
| `finalized_gaps` | "Blocks will emit headers of the commited blocks" (`node.go:126`) | ancestors commited together with a block get no finalized event |
| `memory_store` | voted "must be persisted to ensure no accidental double vote on the same view" (`consensus.go:94`) | `hotstuff-node` keeps it in memory and signs again after a restart |
| `sync_skips_lock` | "2-chain locked, gaps are allowed" (`consensus.go:354`) | `update` returns before locking when the great-grandparent is missing |
| `sync_stops_timer` | the timeout "doubles the number of expected ticks for every gap since last block" was signed (`consensus.go:82`) | `syncBlock` takes `prepare` past the view, and the next timeout is 0 ticks, which never come |

No fairness is assumed and no liveness is checked yet. Over a network that may lose
any message the code promises no progress, and a vote that arrives before its
proposal is dropped for good; a liveness statement needs the transport's guarantees,
which are part of the plan below.

## Proofs

`ConsensusSteps` and `ConsensusSafety` prove, for every `N`, every set of running replicas, every tree of
blocks, any timeouts and any number of restarts:

* whether or not the store is durable: `TypeOK`, `PrepareIsHighestCert`,
  `StoreIsClosed`, `TwoChainIsLocked`;
* with a durable store: `SignOnce`, `OneOutcomePerView`, `ViewsIncrease`,
  `CommitIsFinal`, `Agreement`, `TagsFollowCommit`.

The theorems are about `Spec`, without sync messages. They assume what `Chain` and
`Consensus` assume of their constants: the parent, view and ancestors of a block fit
together and only the genesis has view 0, `N` is positive, the bounds are sets of
views and numbers. `MCConsensus` extends both modules, so TLC evaluates the
assumptions on every instance.

The argument. None of the properties is inductive: that a later certificate extends a
commited block depends on who voted for what, in which order, with which lock.

1. `LocalInv(s, M)` describes one replica with state `s` once the messages `M` exist:
   tags and stored certificates are backed by a majority of votes in `M`, the store
   is closed under parents, the lock covers every two-chain in it, the commit was
   decided by a certified three-chain, and votes are counted for the block voted for
   in the current view. `ConsensusStore` and `ConsensusHandlers` show for each operator
   of the handlers that it preserves `LocalInv` and what it may send. `M` is a parameter because a handler
   may count its own vote before the vote is on the network.
2. `BaseInv` is `LocalInv` of all replicas; it does not need a durable store, because
   the genesis store satisfies it too.
3. `IInv` adds what links the votes of different replicas: one signature per view,
   recorded in `voted`; later votes respect the lock implied by earlier ones; a block
   that is not above its parent in view is *given up* (a majority has passed its view
   without voting for it) as soon as anybody signs it; and whatever is certified above
   a three-chain extends the block it decides unless the three-chain is given up.
   Giving up is stable and excludes certification, since two majorities share a
   replica. That last clause is what turns quorum intersection into an inductive
   statement: when a vote completes a certificate beside a three-chain, either a
   common signer's lock forbids it or the three-chain can no longer be certified.
4. `Finality` follows because a commit comes from a certified, hence not given up,
   three-chain; `CommitsAgree` and `TagsAgree` follow from `Finality`.

Only model-checked: `CollectorsMatchView`, `EventsInOrder`, `PrepareBelowView`,
`NeverGoesBack` and everything about `SpecSync`. Liveness, `ENABLED` and
induction over data are beyond the installed provers.

## Not modelled

The transport, the framing, the output channels of the event loop and the loop of
`entryPoint` (planned, see below); crashes between two writes of one handler
(planned); generated protobuf code; BLS arithmetic; the prototypes in `node/` and
`old_node/`; scripts. `ChainIterator` only reads. Replicas that deviate from the code
are not modelled.

## Plan

1. `NodeLoop`: `run()` of `node.go` with its channels, together with `entryPoint` and
   `dispatchMessage`. Hazards: `Progress.NotFound` is never reset, `confirmedChannel`
   is never read, a message
   before `Start`.
2. `Transport`: `tcpNode.go`, two ends of a connection, with failing writes, closing
   and dialling; abstract specification: a lossy FIFO link.
3. `Recovery`: the handlers split at their database writes, a crash between any two.
4. `Pacemaker`: views, the doubling timeout in 64 bits and new-views, with liveness
   over a network that delivers every message once.
5. `Framing`: the length prefix over a stream cut at any point, against a reference.
6. `Voting`: an abstract specification of votes and certificates without messages,
   handlers or stores, and `Consensus` shown to implement it.
7. Proofs: `NeverGoesBack`, `PrepareBelowView`, `CollectorsMatchView`, the refinement
   of `Voting`, and the safety of `NodeLoop` and `Transport`.
