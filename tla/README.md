# DataHaven: TLA+ models and proofs

DataHaven is a Substrate chain secured by EigenLayer operators. Ethereum decides
who validates (a service manager contract sends one validator set per era over
Snowbridge), the chain runs the sessions and eras, and reports rewards and
slashes back; users move the native token both ways over the same bridge. This
directory models that loop on both chains, checks it with TLC on small
instances, and proves the central invariants with TLAPS for all values of the
constants.

## Parts of the system

| Part | State | Operations | What is hard about it |
|---|---|---|---|
| submitter daemon (`test/tools/validator-set-submitter`) | the era it has submitted, the tick in progress | session subscription, tick, send, wait for the receipt | stale reads, late inclusion, reorganisations, restarts |
| `DataHavenServiceManager` (Ethereum) | operators, address maps, allowlist, strategy weights | register, change address, deregister, select and send a set, rewards, slashes | maps and membership across re-registration, ranking with ties |
| `ethereum-client` (light client) | committees, finalized headers in a ring buffer | checkpoint, update, ancestry proof | period boundaries, wrap-around, late updates |
| `inbound-queue-v2` | nonce bitmap, mode | submit, halt | duplicates, failures that must leave no trace |
| `external-validators` (era machine) | whitelist, external list and index, `CurrentEra`, `ActiveEra`, start sessions, snapshots "pending" and "active", `ForceEra` | root extrinsics, bridge entry point, session manager callbacks, `on_finalize` | planning runs one session ahead of activation; extrinsics and messages arrive in between |
| `external-validator-slashes` | slashes per era, highest fraction per era and validator, bonded eras, offence tags, queue | offence reports, injection, cancellation, mode switch, era start, retries | late reports, pruning, a full queue, root and reports on the same validator |
| `external-validators-rewards`, `rewards_adapter`, `inflation` | blocks, points per era, queue, rewards account | authorship, session end, era end and start, retries | message retried eras after its points were earned; dust and mint side effects |
| unsent queues (in slashes and rewards) | ring buffer: slot map, head, tail | push, block retry, governance retry, expiry | wrap-around, full buffer, removal from the middle |
| `outbound-queue-v2`, `outbound-commitment-store`, `merkle-tree` | leaves, nonces, pending orders, latest commitment | hooks, message processing, receipts | order of hooks in a block, full blocks, proofs |
| `system-v2`, `datahaven-native-transfer` | token maps, balances, pause | register token, lock, unlock | two asynchronous directions against one locked balance |

`PROJECT.json` lists every part with its status, and every hazard at the line
where it bites.

## Modules

| Module | Models | Remarks |
|---|---|---|
| `ExternalValidatorsPallet` | `pallets/external-validators` | `rotate_session` is one atomic step of pallet-session: end session s, start s + 1, plan s + 2. Bridge message and extrinsics are the other actions. |
| `UnsentRing`, `UnsentQueue` | the ring operations written out in both pallets; the life of such a queue | the outbound queue may refuse any message; some it always refuses |
| `RetryQueue` | abstract specification | bounded FIFO; a failed head goes to the back |
| `ExternalValidatorSlashes` | `pallets/external-validator-slashes` | eras advance as the era machine lets them; pallet-offences is external |
| `SessionPerformance`, `ExternalValidatorsRewards` | `pallets/external-validators-rewards`, rewards adapter, `mint_inflation` | `Perbill` is parts out of `Accuracy`, sums capped at one, products rounded down |
| `InboundQueue` | `pallets/inbound-queue-v2`, sparse bitmap | no next-state relation of its own: `ValidatorSetSubmission` and `TokenBridge` compose it with a message processor |
| `ValidatorSetSubmission` | the daemon, `EigenLayerMessageProcessor` | extends `ExternalValidatorsPallet` and `InboundQueue`; one step per `await` |
| `ValidatorSetHandover` | abstract specification | for every era at most one set is accepted, in the era before |
| `ServiceManager` | `contracts/src/DataHavenServiceManager.sol` | EigenLayer's contracts are external; a transaction is one step |
| `EthereumClient` | `pallets/ethereum-client`, ring-buffer map | the beacon chain is external: a course of finality and numbered committees |
| `MerkleTree` | `primitives/snowbridge/merkle-tree`, `contracts/src/libraries/MerkleUtils.sol` | operators over symbolic hashes |
| `OutboundQueue` | `pallets/outbound-queue-v2`, commitment store, hook order of the runtimes | pallet-message-queue, pallet-mmr, the gateway's dispatch and the archive node are external |
| `OutboundChannel` | abstract specification | what a pallet that sends a message may rely on |
| `SystemV2`, `NativeTransfer` | `pallets/system-v2`, `pallets/datahaven-native-transfer`, its message processor | send over `OutboundChannel` |
| `TokenBridge` | their composition with gateway and `InboundQueue` | |
| `MC_*` | constants for TLC | `MC_OutboundPath` puts rewards pallet, unsent ring and outbound queue side by side |
| `*_proofs` | theorems | |

Variables carry the names of the storage items; an action carries the name of
the function. Variables commented "history" are not in the code: they remember
what a property compares with. Operators commented "Faulty variant" are plausible
slips in the function after them; each property is shown to notice one of them.

How the compositions fit: `OutboundQueue` is checked to implement
`OutboundChannel`, and `TokenBridge` is built on that channel, so hooks, blocks
and proofs need not be repeated there. `MC_OutboundPath` does not compose: it checks
the three layers of the path of a rewards message in one run, each in the environment
its own module describes, and in a behaviour only one of them moves. A failed send of
the pallet or of the ring stands for whatever the layer below does.
`ValidatorSetSubmission` contains the era
machine itself. The verifier of `InboundQueue` stands for what `EthereumClient`
establishes: an event is taken only if its block is final.

Abstractions. Validators are model values; a slash is its id; an offence report
names one offender, and its fraction is the number of offenders of the time
slot; reporters, message ids, events, weights, gas and ABI encoding are left out.
The guard `era + HistoryDepth >= ActiveEra` of `force_inject_slash` stands for
`era_to_session_start(era)` being known; while the next era is already planned
the code knows one era less. The genesis of the era machine includes the two
sessions that pallet-session plans at genesis. A hash is the term it was computed
from, and a rank that stands for its place among the others. Signatures and
Merkle branches of the beacon chain are valid when what they attest is true; a
supermajority of a committee attests only the true chain, a minority anything.
The `Messages` list of the outbound queue is not kept beside `MessageLeaves`: both
are written and cleared together. The daemon's dry-run switch is left out.

## Runs

All bounds are constants named `Max...` or the set constants of a model.

| Run | Question | Result |
|---|---|---|
| `era_machine` | with eras of two sessions, any forcing, whitelist changes and messages: do the clocks stay together, does an era run with what it was planned with, does every era end? | holds |
| `slashes` | with no deferral, as in all runtimes: era of the offence, rising fractions, one fate per slash | holds in modes Enabled and LogOnly |
| `slashes_injection` | is an injected slash applied? | violated |
| `slash_kind` | is a slash sent under the kind of its report? | violated |
| `outbound_path` | pallet: is every paid era accounted for once, and retried with what it earned? ring: is it a FIFO with rotation, and is a sendable message served behind one that never can be? outbound queue: can every numbered message be proved, is every order settled once, is it the abstract channel, do Merkle proofs verify? | holds |
| `reward_weights` | do the points of a session stay within those of its blocks, whatever the weights? | violated |
| `reward_dust` | does the rewards account cover what is announced? | violated |
| `submission` | daemon, Ethereum, relayers, inbound queue and era machine: is at most one set accepted per era, and only one that Ethereum finalized for that era? does a tick always end, and a final message get in while its window is open? | holds, the latter two under fairness |
| `spillover` | is a set applied in its target era? | violated |
| `service_manager` | do operator set, maps and weights agree, is the selection a ranking, does EigenLayer take every translated batch? | holds |
| `ethereum_client` | right committees, only finalized headers, the latest kept, no unprovable gap, never stuck, one free committee update per period? | holds |
| `token_bridge` | is every wrapped token backed, and every transfer back paid out? | holds, the latter under fairness |

Why the bounds are enough.

* Era machine: four sessions of two-session eras reach era 3 under forcing and
  era 2 without, so planning, activation and pruning (history depth 1) all happen
  with a message or a whitelist change in each gap.
* Queue: five messages and four slots fill the buffer, wrap both cursors and
  remove from every position.
* Slashes: three reports and one injection over three sessions and two records,
  with a ring of one usable slot, so that refusal, pruning, duplicates and late
  reports occur; validators are symmetric, and so are kinds of offence.
* Rewards: six eras with history depth four and a ring of three usable slots, one
  block per era, so that entries expire and the ring fills. The perbill accuracy is
  100; exact rounding at 10^9 is not claimed.
* Submission: two transactions, one restart and one reorganisation over three
  sessions are enough for two messages for one era, a late message, a message sent
  twice and one that a reorganisation moved. The first nonce is 127, so the second
  one opens a new bucket of the bitmap. The eras are not forced here; forcing is part
  of `era_machine`, and the two theorems about the pipeline cover it.
* Service manager: three operators for two seats and two strategies with equal
  stakes, so that seats are contested, ties happen and addresses change hands.
  `initialize` starts with any set of strategies. The state space is finite without a
  bound on steps.
* Light client: periods of five slots, three and a half of them, finality two
  slots behind or stalled across a period boundary, a ring of two headers, two
  checkpoints. The gap limit equals the period, as on Ethereum.
* Outbound: three messages per block, four messages over three blocks, with two
  origins, so that blocks are full, messages wait and blocks are empty; receipts
  come from the gateway and from another contract. Trees of up to five leaves have
  odd rows at every level.
* Token bridge: four messages out, two transfers back, amounts of one and two
  against a balance of five. It includes mints before the registration, transfers
  of another token and ones without a claimer.

### Disagreements shown by the violated runs

* `slashes_injection`: with no deferral an injected slash is stored for the era
  after the offence, which for a past era is over; the comment in
  `force_inject_slash` says it is applied immediately.
* `slash_kind`: in mode Disabled, `on_offence` returns before it takes the tag of
  the report (`external-validator-slashes/src/lib.rs:545`), so the tag stays behind
  and a later report about the same validator and session, made when slashing is
  enabled again, is slashed under it; lines 321 and 1004 promise the cleanup.
* `reward_weights`: the weights of block authoring and liveness are documented to be
  scaled when their sum exceeds 100% (`external-validators-rewards/src/lib.rs:655`),
  but the sum of two `Perbill` saturates at one (`:716`), so the scaling at `:718` is
  never entered. Weights of at most 100% together are not affected.
* `reward_dust`: the remainder is transferred each time the message is built, so
  also on every block retry of a failed one.
* `spillover`: a set for era `ActiveEra + 1` is accepted until that era starts, but
  the era is planned one session before. The daemon sends in the last session of the
  era, so a set is used one era after its target;
  `specs/validator-set-submission/validator-set-submission.md:17` and `:18` say that
  it is never applied to later eras.

### Other places where text and code differ

Met while modelling. They are read from the code: no run shows them, except where a
property is named, and that property states what the code does.

* The daemon's README (line 14) and the specification of the submission (line 163)
  promise one
  attempt per era and process. `submittedEra` is set on success only, so a failed
  or timed-out attempt is repeated while the era's last session lasts or after a
  restart. That is harmless: `ImplementsHandover`.
* `LatestSyncCommitteeUpdatePeriod` is documented as "the last period where the next
  sync committee was updated for free" (`ethereum-client/src/lib.rs:192`), but
  `apply_update` sets it on every update that carries the committee, and a late one
  that is charged lowers it: after it, an update of the later period is free again.
  `PeriodFreeOnce` therefore counts from the last paid update on.
* A checkpoint of the light client that goes back lets a header enter the ring
  twice; when the place of the first copy is reused, the state of the second goes
  with it (`restored` in `EthereumClient`).
* The Merkle crate says that it does no sorting when inner nodes are created
  (`merkle-tree/src/lib.rs:15`), but it puts the smaller hash of a pair first; and
  `MerkleUtils.sol:55` calls the unsorted hash the one compatible with Substrate, which
  for this crate is the sorted one. No code under `contracts/src` or `operator`
  checks proofs of one library with the other. `ProofsVerify` is about the crate alone and
  `LibraryProofsVerify` about `MerkleUtils` alone, in both modes.
* `TokenNotRegistered` of the native transfer is documented as "has not been
  registered on Ethereum yet", but it looks at the local map, which is written
  before the message leaves. A mint that overtakes the registration fails on
  Ethereum, and its amount stays locked (`lost` in `TokenBridge`).
* `pause` is documented as "preventing all transfers" (`datahaven-native-transfer/src/lib.rs:213`);
  `unlock_tokens` does not look at it. No property says which is meant:
  `UnlockedEventually` assumes that every pause ends.
* With `SessionsPerEra = 1`, the fast-runtime value, `EraAsPlanned` is false in
  era 1: genesis plans eras 0 and 1 before `start_era` takes the pending
  whitelist for the first time, so era 1 starts with an empty one.

### Limits of properties that hold

The properties of the run `slashes` are checked without deferral, the value of all
runtimes, and without mode Disabled; `SlashDeferDuration > 0` is in the module but in
no run. `NeverStuck` is about courses of finality that stall for less than a period; after
a stall of a whole period no header is within reach, and the client needs another
checkpoint. `FullyBacked` is an equality because nobody in the model sends tokens
to the sovereign account directly; in general it is a lower bound.
`NoUnprovableGap` excepts what a header stored twice does to the ring (`restored`).
`RewardsAreAccepted` assumes that the batch names each solochain address once, as
the rewards pallet builds it. A batch of slashes is one transaction: if the owner
removes a strategy that the batch names before it arrives, AllocationManager refuses
that slash and the whole batch reverts. The list of strategies is fixed on the
DataHaven side, which does not learn of it, and no document says what should happen
then, so no property is stated about it.

### Fairness

* Era machine: blocks are finalized by the runtime and sessions keep rotating
  (BABE ends epochs by slot number, whatever anybody does).
* Queue: `on_initialize` runs in every block (weak fairness of trying the head),
  and the outbound queue does not refuse for ever a message it could take (strong
  fairness of sending); without the latter no message need ever leave.
* Submission: the daemon's process runs, its awaits return or time out, pending
  transactions are mined, both chains finalize, and every final message is
  relayed by someone. Nothing is assumed of restarts, reorganisations, halting
  and forcing.
* Token bridge: the message queue serves every origin, relayers bring what they
  are paid for, and governance leaves neither the inbound queue halted nor the
  transfers paused for ever.

`CHECK_DEADLOCK FALSE` is set where a run may stop: all messages are
delivered, or a bound is reached.

## Proofs

A theorem holds for every value of the constants that satisfies the named
`ASSUME`s of the module it is about; TLC evaluates those for the values of the
runs.

`UnsentQueue_proofs`, for every capacity of at least two and every set of
entries: `TypeCorrect`, `RingHasNoHoles`, `EntriesExactlyOnce`. The inductive
invariant `QueueInv` joins the three: without holes the head is always an entry,
so dropping or moving it is what the code says; without distinct entries a
removal could leave a copy. The lemmas first place slots on the ring with linear
arithmetic (`Between`), then show that push, drop, requeue and removal keep
"occupied = between head and tail" and only move entries.

`ExternalValidatorsPallet_proofs`, for every era length, history depth, genesis
and set of messages: `EraWindowHolds`, `EraHistoryKept`, `EraEndPairsWithStart`.
`EraInv` adds that the indices are naturals. The argument: a planned era starts
with the very next session (last conjunct of `EraHistory`), hence the rotation
that could plan a second era has just started the first one, hence planning is
at most one ahead, whatever `ForceEra` is. The assumption that matters is a
`HistoryDepth` of at least one, without which the active era would leave the
history.

`ValidatorSetSubmission_proofs`, for any number of transactions, restarts,
reorganisations and sessions: `DaemonNeverAhead` and
`PipelineImplementsHandover`. `HandoverInv` adds two facts. The daemon's finalized
view and the target it computed are behind the chain (`TargetsBehind`), so a
transaction sent an arbitrary time after the read still asks for no era beyond
the next. And every era a set was accepted for is at most `ExternalIndex`, so
`validate_target_era`, which demands a larger one, cannot accept a second set for
the same era; no fact about nonces, relayers or the daemon is needed for that.
Every step of the pipeline then is an acceptance, a new era, or invisible.

`ServiceManager_proofs`, for all operators, addresses and strategies:
`AddressesStayInSync` and `MultipliersStayInSync`. `AddressesInSync` is inductive
as it stands, because it fixes the types of both maps and that nobody has
address zero; one lemma each for registration, removal and change of address.
`WeightInv` adds the types of the weights.

`OutboundQueue_proofs`, for all messages, origins, block sizes and orders of
hashes: `QueueImplementsChannel`. `ChannelInv` says that `Nonce` counts the
numbered messages, which makes the gateway's dispatch a dispatch of the channel;
hooks, commitments and receipts are invisible there.

Only model-checked:

* everything under fairness (`EraProgress`, `EntryServed`, `TickEnds`,
  `AcceptedInTime`, `UnlockedEventually`),
  which the prover does not do;
* what a fold or a recursive function computes for every input: sums
  (`OrdersSettle`, `FullyBacked`, `EraAccounting`), Merkle roots (`ProofsVerify`,
  `LibraryProofsVerify`, `EveryMessageProvable`), the ranking (`SelectionIsRanked`);
* the refinement of `RetryQueue`, whose mapping rebuilds a sequence from the ring;
* `EraAsPlanned`, `IndexApplication`, `AcceptedWasSent`, `RewardsAreAccepted`, and the light client, slashes and rewards modules.

## Not modelled

`PROJECT.json` gives the reason for each part. In short:

* precompiles: Solidity encodings of calls of pallets that are not in this
  repository (balances, proxy, governance);
* `system` (v1): only its token maps are used here;
* the node, its RPCs, the launcher, the end-to-end tests and deployment scripts:
  wiring and I/O;
* ABI, SCALE and RLP codecs, hash-tree roots and signature schemes: data whose
  correctness is not a matter of state;
* the slashes adapter: encodes a batch; its failure is an outcome of sending;
* `SessionPerformance` leaves out the annual-rate inflation provider, and
  `ServiceManager` the owner's setters of roles, metadata and version.

The modules cover a small share of the repository's lines. Most of the rest is
not state-changing control: tests and mocks, benchmarks and generated weights,
three runtimes that repeat one configuration, generated bindings and metadata,
and the codecs above. What is covered are the pallets, the contract and the
daemon that carry validator sets, rewards, slashes and tokens between the chains.

## Open

1. Proofs: `UnsentQueue` implements `RetryQueue`; `EraAsPlanned` and
   `IndexApplication` for eras of at least two sessions; `AcceptedWasSent` from
   `HandoverInv`; `OnlyFinalizedHeaders` and `CommitteesMatchPeriod` of the light
   client; `RisingSlashFractions` and `SentAtMostOnce`.
2. Reports with several offenders (unresponsiveness), and the fair-share rule for
   whitelisted validators, on which two comments disagree.

## Running

    tlc -workers 2 -config EraMachine.cfg MC_ExternalValidatorsPallet
    tlapm ValidatorSetSubmission_proofs.tla

`PROJECT.json` names module and configuration of every run.
