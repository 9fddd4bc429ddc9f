# A TLA+ verification project for dag1

dag1 is a Lachesis-style DAG aBFT consensus node written in Go. Its consensus core is `Poset` in
`src/unnamed/part_010`, about half of `src/`. This directory holds:

- TLA+ models of that core;
- the TLC configurations that check them;
- TLAPS proofs about the poset's DAG, the signature pool and the RPC transport.

`PROJECT.json` lists the components, the runs, the mutants, the map from each definition to
the source lines it translates, the findings, the hazards and the theorems.

## 1. Inventory of the system

| Part | Source | What it does |
|---|---|---|
| Event insertion | `Poset.InsertEvent` (part_010:855-1058) with `checkSelfParent`, `checkOtherParent` | Checks the parents. Assigns the frame from the flag tables of the parents, makes a root when the flag table reaches a supermajority, sets the Lamport time, stores the event and queues it in `UndeterminedEvents`. Appends the event's block signatures to `SigPool`. |
| Clotho checking, atropos time | `ClothoChecking` (2085-2189), `AtroposTimeSelection` (2191-2291), `AssignAtroposTime2` (2293-2341), `accountEvent` (2402-2436) | Run for each new root. They count how many roots of a later frame see a root of an earlier one. They mark clothos, collect votes for their time in time tables, and decide atropos (a coin every 4 frames). The walk from an atropos sets FrameReceived and AtroposTimestamp and records consensus events. |
| Store | `InmemStore` (2652-3197) | Events, rounds, blocks, frames, the clotho-check index and time tables, held in LRU caches. |
| Pipeline | `DivideRounds`, `DecideAtropos`, `DecideRoundReceived`, `ProcessDecidedRounds`, `MakeFrame` | Rounds, the received round, frames and blocks for the application. |
| Signature pool and anchor | `ProcessSigPool` (1723-1796), `removeProcessedSignatures` (839-847), `setAnchorBlock` | Attaches block signatures to stored blocks. The anchor moves to a block with more than TrustCount signatures. |
| RPC transport | `src/src/peer/rpc.go` (1-120) | Serves the Sync, ForceSync and FastForward RPCs. Hands each request to the node loop over the `receiver` channel under a receive timeout, then waits for the reply under a processing timeout. Either wait ends when the transport's `done` channel closes. |
| Mobile binding | `src/src/peer/rpc.go` (121-221) | `New` checks the key, the peer count and `engine.Init`, then `Run` and `Shutdown`. |
| Peer selection | part_008 | Choice of the next peer to gossip with. |
| App proxy | part_011, `src/proxy` | Delivers committed blocks to the application over gRPC. |
| Node assembly, config, CLI | part_009, `src/dag1`, `src/cmd/dag1` | Start-up, flags and the config file. `main` exits with 1 when the command returns an error. |

How the parts interact:

- Gossip delivers events.
- `InsertEvent` stores them and runs the clotho and atropos machinery on every new root.
- The pipeline turns decided frames into blocks.
- Block signatures travel inside events into `SigPool`.
- `ProcessSigPool` attaches them to blocks once the blocks are committed.
- Peers' sync requests arrive as RPCs. The transport hands them to the node loop, which only serves them while the node runs. `Shutdown` closes `done`, and every call in flight returns.

## 2. Plan and status

| Module | Models | Status |
|---|---|---|
| `Poset` | InsertEvent with ClothoChecking, AtroposTimeSelection, AssignAtroposTime2, accountEvent | done; model-checked; DAG invariants proved (`PosetProofs`) |
| `SigPool` | SigPool appends, block commits, ProcessSigPool loop, removeProcessedSignatures, anchor | done; model-checked and proved (`SigPoolProofs`) |
| Pipeline (next) | DivideRounds / DecideRoundReceived / ProcessDecidedRounds and frame finality | planned |
| `Transport` | The RPC handler of rpc.go: both selects, both timers, the reply channel, `done` | done; model-checked |
| `RPCCall` | What one RPC promises its caller (abstract) | done |
| `Launch` | Start-up and shutdown by the mobile binding and by the `run` command; the exit code | done; model-checked |
| `NodeRPC` | `Transport` composed with `Launch`; refines `RPCCall` | done; model-checked and proved (`TransportProofs`) |
| Peer selector | part_008 | planned |
| Store eviction, Reset/Bootstrap | LRU eviction as a nondeterministic step, restart from a stored frame | planned |

## 3. The modules

### `Poset` (`MCPoset` for TLC)

**State.** The store's `events` form a sequence indexed by topological index. The hash of an
event is its index, so the content hash is treated as injective. The other variables are:

- `timeTable` (`AddTimeTable`/`GetTimeTable`);
- `lastConsensusRound`;
- `consensusEvents`;
- `undetermined` (`UndeterminedEvents`);
- `atroposVote`, the time a supermajority voted for; this is the code's `maxInd`.

An event is split in two variables:

- `events[i]` holds what InsertEvent computes once, before its first `SetEvent` (part_010:1017):
  creator, parents, frame, root, flag table, root table and Lamport time.
- `marks[i]` holds the fields the later `SetEvent` calls rewrite: the clotho and atropos flags,
  FrameReceived and AtroposTimestamp. ClothoChecking (2170-2172), AtroposTimeSelection
  (2255-2267) and AssignAtroposTime2 (2301-2389) rewrite only these fields.

The state transformers work on the joined view `View(events, marks)`, which is what
`GetEventBlock` returns. `SetState` stores the marks of their result back (`MarksOf`). A new
event's marks start as `NoMarks`. The split changes no behaviour. It keeps the DAG part out of
the recursive walk and the fold, so that proofs about the DAG do not depend on them.

**Action.** There is one action, `InsertEvent(c)`. The new event's self-parent must be the
creator's head (`CheckSelfParent`). Its other-parent is another creator's head or none, as a
sync delivers it. The action has three disjuncts, one for each outcome of the code:

- a non-root is stored and queued;
- a root for which `GetTimeTable` fails is stored but not queued (the early return at 2200);
- a root is stored, checked and queued, for every iteration order of Go's `countMap`
  (`Orders`).

**Helpers.** `FrameAssign` translates lines 898-969 branch by branch, as an IF chain in the
order of the Go if/else (the branch conditions overlap, so the order matters):

- no parents;
- same frame, or a higher other-parent frame with a merged flag table;
- a new root at a supermajority;
- the frame jump through `GetClothoCreatorCheck`.

`ClothoChecking` and `AtroposTimeSelection` are written as state transformers. The walk of
`AssignAtroposTime2` is `Touched`, a recursive function over the parents of the events not yet
touched (`FrameReceived = 0`).

**Constant `SeedLeafRoots`.** Literally, the code reads missing parents as the zero event, and
then no event is ever a root. The constant `SeedLeafRoots` makes a creator's first event a
frame-0 root, as the spec's glossary says. `poset_safety` sets it to TRUE so that roots,
frame jumps and flag tables of roots occur at all. The theorems of `PosetProofs` hold for both
values. The run `poset_leaf_roots` sets it to FALSE and shows the literal reading: no event is
ever a root.

So in this code, ClothoChecking, AtroposTimeSelection and the walk of AssignAtroposTime2 never
run, because they run only for roots. The defects on those paths are latent. They would show
once leaf roots are made the way the spec asks:

- an `AtroposTimeSelection` error after `SetEvent` leaves the event stored but not queued
  (1017-1041);
- FrameReceived 0 doubles as "unset", so a frame-0 atropos is overwritten (2301);
- AtroposTimestamp is the walk's result, not the voted time (2265).

The project does not list them as findings or hazards, because no behaviour of the code as
written reaches them.

### `SigPool` (`MCSigPool` for TLC)

**State.** The variables are:

- `pool` (SigPool);
- `lastBlock`;
- `sigs[i]`, the validators whose signature block i carries;
- `anchor`;
- `received`, every signature that ever arrived.

The loop of `ProcessSigPool` is split into one step per iteration (`ProcessSignature`). A
second loop, `RemoveProcessed`/`EndRemove`, is the deferred `removeProcessedSignatures`.
Variables `phase`, `pos`, `processed`, `newPool` and `failed` hold the program counter and the
loop-local data.

**Guards.** `AddSignature` and `CommitBlock` are only enabled in the `idle` phase. The node
calls `InsertEvent`, `ProcessDecidedRounds` and `ProcessSigPool` from one goroutine, under
`coreLock`, so the loop never interleaves with them.

**The iteration.** `ProcessSignature` has one disjunct per outcome of an iteration:

- unknown validator (`continue`);
- at or below the anchor (processed);
- block not stored, or signature invalid (`continue`);
- `Verify` error (return);
- signature applied, possibly moving the anchor.

**Data abstraction.** A signature is a record `[index, validator, verdict]`. The verdict
abstracts the cryptographic check into `ok`, `bad` or `error`.

### `Transport`

**State.** Each caller `c` is one goroutine that net/rpc starts for an incoming RPC. A caller
makes its calls one after another. The variables are:

- `pc[c]`: `idle`, `offer` (the first select) or `wait` (the second select);
- `calls[c]`: its call count. The ticket of a call, with its own reply channel, is `<<c, k>>`;
- `timer[c]` and `tick[c]`: the timeout the timer runs, and the tick waiting in `timer.C`;
- `replies[t]`: the content of ticket t's reply channel (capacity 1);
- `applied`: the tickets whose request the node ran;
- `nodeBusy`: the ticket the node loop is running;
- `serving`, `done`, and `result[c]`, what the last call returned.

**Actions.** Each case of each select is an action, enabled when its channel is ready:

- `Handoff`, `ReceiveTimeout` and `StopWhileOffering` are the cases of the first select;
- `ReceiveReply`, `ProcessTimeout` and `StopWhileWaiting` are the cases of the second.

Go picks any ready case, and so does the model. `Fire` is the runtime firing a timer. Its send
to `timer.C` never blocks, so a tick that finds the channel full is lost. `Handoff` includes
`timer.Reset`: `ResetTick` keeps a pending tick unless the constant `ResetDrains` is TRUE.
TRUE is the draining `Reset` of Go 1.23 and later. The repository builds with Glide under
GOPATH and asks for "Go 1.9 or above" (part_015:67-81). Go modules are what give a build
Go 1.23's timer semantics, so this code gets the non-draining `Reset`, and every run sets
`ResetDrains` to FALSE. The proofs of `TransportProofs` hold for both values.

**From the spec.** The node loop (`NodeHandle`, `Open`, `Close`) is not under `src/`. It is
modelled from spec section 6: the loop runs one request at a time and answers on the ticket's
reply channel. It stops reading at shutdown but finishes the request it runs.

### `RPCCall` and the refinement

`RPCCall` says what a caller may conclude from what a call returned:

- a request runs at most once (`Execute` never runs a call twice or after it was refused);
- a response or the handler's error means it ran (`Answer`);
- `ErrReceiverIsBusy`, or a stop before the node took the ticket, means it never runs
  (`Refuse`);
- a processing timeout, or a stop after the hand-off, leaves it open (`GiveUp`).

`NodeRPC` maps its state onto `RPCCall`:

- a call is pending while its goroutine is in a select;
- `executed` is `applied`;
- `dropped` holds the issued tickets that are not applied, not held by the node loop, and not
  on offer.

### `Launch` and `NodeRPC`

`Launch` has one action for each way the process starts or stops:

- `MobileNew`, with the three failure paths of `New`, then `MobileRun` and `MobileShutdown`;
- `RunDAG1`, with `bindFlagsLoadViper`'s found, missing and unreadable config file, and
  `runSingleDAG1`'s proxy and engine failures;
- `CliShutdown` and `MainExit`.

`NodeRPC` composes the two modules with `INSTANCE`. A launch step that makes the node run
opens the transport; one that stops it closes `done`. New calls only arrive while the node
runs; calls in flight go on after it stops.

## 4. Runs

| Run | cfg | Checks | Result |
|---|---|---|---|
| `poset_safety` | `MCPoset.cfg` | `TypeOK`, `RootUnique`, `FlagTableDistinctCreators` | pass: 932k distinct states |
| `poset_leaf_roots` | `MCPoset_seed.cfg` | `FirstEventIsRoot` | violation |
| `sigpool_safety` | `MCSigPool.cfg` | `TypeOK`, `SignaturesGenuine`, `AnchorJustified` | pass: 6.4M distinct states |
| `sigpool_lost_signature` | `MCSigPool_lost.cfg` | `NoValidSignatureLost` | violation |
| `sigpool_strangers` | `MCSigPool_stranger.cfg` | `StrangerSignaturesDiscarded` | violation |
| `sigpool_progress` | `MCSigPool_live.cfg` | `ValidSignatureEventuallyApplied` | violation |
| `noderpc` | `MCNodeRPC.cfg` | `NodeReplyNeverBlocks`, `RPCRefinement` | pass: 160k distinct states |
| `noderpc_stale_tick` | `MCNodeRPC_tick.cfg` | `ProcessTimeoutGenuine` | violation |
| `launch_exit_code` | `Launch_exit.cfg` | `ExitCodeReflectsFailure` | violation |

### What the violations show

They are the findings in `PROJECT.json`:

1. **No event is ever a root.** This holds when missing parents are read literally as zero
   events.
2. **Valid signatures are lost.** `removeProcessedSignatures` filters by block index with a
   set of pool positions.
3. **Stranger signatures are never removed.**
4. **One erroring signature blocks the pool for ever.**
5. **A stale timer tick becomes a processing timeout.** The receive timer can fire while the
   node takes the ticket. `timer.Reset` (rpc.go:100) then leaves its tick in `timer.C`, under
   Go before 1.23. The second select returns `ErrProcessingTimeout` at once, although the node
   may be about to answer. This is the behaviour of the repository's Go build. Only a
   draining `Reset` (Go 1.23 and later under Go modules) would avoid it.
6. **A failed start exits with 0.** `runSingleDAG1` logs a proxy or engine failure and returns
   nil (run.go:84, 96), so `main` exits with 0. Spec section 6 asks for 1 on a fatal error.

### Bounds

**Poset.** There are 2 participants (supermajority 2) and up to 11 events. With these bounds:

- roots reach frame 3;
- clothos are decided;
- the frame-4 coin round is not reached.

The run explores every gossip choice and every `countMap` order. Symmetry over the two
participants is sound: the code never orders peers by identity, only by hash inside a frame.

`MCPoset_seed.cfg` (`poset_leaf_roots`) needs only 4 events.

**SigPool.** There are 3 participants (TrustCount 1, so the anchor needs 2 signatures), one
stranger, 2 blocks, a pool of 3, and at most 4 distinct signatures. These bounds reach:

- a pool with a signature for an uncommitted block ahead of a committed one;
- an anchor that moves twice;
- signatures at or below the anchor.

Symmetry over the participants is sound: the code only tests membership.

**NodeRPC.** There are 2 callers and 2 calls each, with the non-draining `timer.Reset` of the
repository's build (`ResetDrains` FALSE). With these bounds:

- both callers contend for the single node loop, so one offer times out while the other is
  served;
- a caller's second call starts while the node still runs its first, abandoned, request;
- shutdown races both selects.

The stale-tick run needs only one call.

### Fairness

`SigPool`'s `FairSpec` is used only by the violation run `sigpool_progress`. It assumes weak
fairness on the steps of `ProcessSigPool`, so once a call has started, it runs to its end, and
the pass is started again whenever the pool is not empty. In `src/`, `ProcessSigPool` is only
called from `Bootstrap` (1919), after `ProcessDecidedRounds`, which never returns (hazard at
1406). Repeated passes therefore rest on a processing pipeline outside `src/`. For a violation
this extra fairness only makes the counterexample stronger: even with every pass taken, a
valid signature is never applied. New signatures and blocks are not assumed to arrive.

No passing run checks a liveness property, so no other fairness is assumed.

### Mutants

Each property of a passing run is broken by a mutant of a mapped definition (`PROJECT.json`,
"mutants"):

- a missing fork check;
- a new root keeping its merged flag table;
- a self-parent in the new flag table;
- a dropped participant check;
- a `GetBlock` that finds the next block;
- an anchor at TrustCount signatures;
- one timeout for both selects, reported as `ErrReceiverIsBusy`;
- an unbuffered reply channel.

## 5. What is proved

`PosetProofs` proves, for every set of participants and every event bound:

- `PosetRootUnique`: `Spec => []RootUnique`. A creator has at most one root per frame, so the
  clotho-check index keyed by (frame, creator ID) never has two candidates for one key.
- `PosetFlagTables`: `Spec => []FlagTableDistinctCreators`. A stored flag table holds only
  roots of the event's frame, one per creator. So `len(flagTable)`, which InsertEvent compares
  with the supermajority, counts distinct participants.

**Why a strengthening is needed.** Neither property is inductive by itself. A new event's
frame comes from its parents' flag tables, and its own flag table comes from theirs. The proof
needs these facts:

- `SelfChainFrames`: along a creator's own events, frames never decrease, and each later root
  has a strictly higher frame. Since `checkSelfParent` makes the self-parent the creator's last
  event, the new event is above the whole chain (lemma `NewEventAboveChain`).
- `FlagTableDistinctCreators` itself.
- `IdsWellOrdered`: every non-empty set of indices has a maximum. This stands in for the
  induction over finite sets that TLAPS cannot instantiate. `LastEventFrom` is `Max` of a set
  of indices, and this fact gives its value (lemma `LastEventFromIsLast`).

`IInv` is these three and the type of `events`. TLC checked it as an invariant of the
`poset_safety` instance before it was proved. `RootUnique` follows from `SelfChainFrames`
(`ChainRootUnique`).

The step argument has one case per branch of `FrameAssign` (`FrameAssignCases`). The same-frame
branches merge two flag tables of roots of that frame. A creator can appear in both tables only
if it is one root by `RootUnique`. The frame jump takes the other parent's table. A new root
puts only itself into its own table, and it is above every earlier event of its creator. The
marks, the time tables and the consensus variables are not read by `FrameAssign` or
`NewEvent`, so they play no part in the proof. The proof needs no assumption on the constants.

`SigPoolProofs` proves, with TLAPS and for every finite non-empty set of participants and any
bounds:

- `TypeCorrect`: `Spec => []TypeOK`.
- `GenuineSignatures`: `Spec => []SignaturesGenuine`. Only stored blocks carry signatures,
  and only signatures of participants that arrived as valid for that block.
- `AnchorSafe`: `Spec => []AnchorJustified`. The anchor is a stored block with more than
  TrustCount signatures.

**Why a strengthening is needed.** `SignaturesGenuine` is not inductive by itself. The apply
step attaches `pool[pos]`, so the proof must know that whatever is in the pool arrived. The
inductive invariant is therefore:

`IInv == TypeOK /\ PoolReceived /\ SignaturesGenuine /\ AnchorJustified`

TLC checked it as an invariant of the `sigpool_safety` run before it was proved. `AnchorJustified` relies on two
facts:

- the set of signatures of a block only grows;
- blocks are never removed.


The assumptions are:

- `Peers` is finite and non-empty;
- `Peers` and `Strangers` are disjoint;
- the bounds are natural numbers.

`TransportProofs` proves, for every set of callers, every bound and both values of
`ResetDrains`:

- `TypeCorrect`: `NodeRPC`'s `Spec => []TypeOK`.
- `Refinement`: `Spec => RPCRefinement`, i.e. `NodeRPC` implements `RPCCall`. In particular,
  a request refused with `ErrReceiverIsBusy`, or stopped before the hand-off, never runs
  afterwards (no step of `RPCCall` takes a call out of `dropped`), so a retry cannot run it
  twice.
- `ReplyNeverBlocks`: `Spec => []NodeReplyNeverBlocks`. The node loop's send on a reply
  channel never blocks, even when the caller has timed out or stopped. This is the safety half
  of the deadlock hazard at rpc.go:82. With the node loop scheduled fairly, it is also what
  makes every taken request answered.

**Why a strengthening is needed.** `TypeOK` is not inductive: `Handoff` and `ReceiveReply`
index with the current ticket, which needs `calls[c] >= 1`. The refinement needs more:

- a filled reply channel belongs to an applied ticket;
- the ticket the node loop holds is issued and not applied;
- a waiting caller's ticket is applied or held by the node;
- an offering caller's ticket is neither.

`IInv` is `TypeOK` and these facts. `NextRefines` then maps each step:

- `Call` is `Invoke`;
- `NodeHandle` is `Execute` of the node's ticket;
- `ReceiveReply` is `Answer`;
- `ReceiveTimeout` and `StopWhileOffering` are `Refuse`;
- `ProcessTimeout` and `StopWhileWaiting` are `GiveUp`;
- every other step is a stutter of `RPCCall`.

The only assumption is `NodeRPC`'s `ConstantsAssumption`: `MaxCalls` is a natural number and
`ResetDrains` a Boolean.

## 6. What is only model-checked, and what is not modelled

**Not proved in `Poset`.** `TypeOK` as a whole is model-checked only: the types of
`timeTable`, `marks` and the consensus variables are what `AtroposTimeSelection` (a fold over an
order) and the walk of `AssignAtroposTime2` (a recursive function) compute. Stating them for
every input needs induction over data, which TLAPS cannot instantiate here. `PosetProofs`
covers only the DAG part.

**Liveness** (`ValidSignatureEventuallyApplied`) is model-checked only. TLAPS does not handle
fairness and ENABLED here.

**Not modelled:**

- **The processing pipeline.** ProcessDecidedRounds's loop over the `CheckFrameFinality`
  stub (3194) never ends. This is listed as a hazard.
- **The store's LRU eviction.**
- **Reset/Bootstrap.**
- **Event signatures and `Verify`.** Events are well-formed.
- **An adversarial Lamport timestamp.**
- **The peer selector and the app proxy.**
- **The net/rpc network layer.** Lost requests reach the transport as calls that never come.
- **`SubmitTx`.** It only sends on the proxy's channel, and blocks once nothing reads it.
- **Configuration defaults, `FakeGenesis`, `Min` and logging.** Set-up code and arithmetic
  that no modelled step reads.

`PROJECT.json` gives the reason for each, and the hazards these parts carry.
