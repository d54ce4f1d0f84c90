# Verification of zwaves

zwaves is an anonymous pool of WAVES. Notes ("utxos") of the pool are hashes in
the account data of a Waves dApp; whoever can prove in zero knowledge that a
note is theirs may turn it into other notes or have it paid out. This directory
holds TLA+ models of the system, the TLC configurations that check them on small
instances, and TLAPS proofs about them.

## 1. Inventory

| Part | Source | State | Operations |
|---|---|---|---|
| dApp contract | `ride/zwaves.ride` | data entries `U:<hash>`, `N:<nullifier>`, `MESSAGE_NUM`, `M:<n>`; its WAVES | `deposit`, `withdrawal`, `transfer`, the verifier |
| Circuits | `zksnark/circuits/` | none | the statements `Deposit`, `Withdrawal(8)`, `Transfer(8, 900000)` |
| Client | `cli.js` | `db.json` (utxos, nullifiers, assets, MESSAGE_NUM), the variables of a running command | `syncData`, `collect`, `deposit`, `transfer`, `withdrawal`, `abstractTransfer`, `abstractWithdrawal`, the four commands |
| Prover library | `zksnark/src`, `zksnark/api.js`, `zksnark/cli.js` | a cached wasm instance | `createUtxo`, `get*Inputs`, `proof`, serialisers |
| Client cryptography | `zcrypto/src` | none | keys, `encrypt`/`decrypt`, number and buffer conversions, `fload`/`fsave` |
| Proof and key encoders | `zksnark/src/buildpkey.js`, `buildwitness.js` | a buffer and an offset | the binary proving key and witness for the prover in wasm |
| Curve and verifier | `zkgo/index.go`, `zkgo/pkg/crypto` | none (a `G1`/`G2` value keeps scratch space) | Groth16 `Verify`, point encodings, field towers, pairing |
| Deployment | `deploy.js`, `faucet.js` | none | one transaction each |
| Waves node | outside `src/` | balances, blocks, account data | broadcast, mining, fees, account data queries |

How they interact. A command of `cli.js` reads `db.json`, asks the node for
`MESSAGE_NUM` and then for the messages it does not know, decrypts them, saves
the file, and chooses notes to spend. The prover library makes a proof; the
command broadcasts an invocation of the contract and waits for it to be mined.
For `withdrawal` and `transfer` the sender is the dApp itself (`verify` accepts
them unsigned), so that the sender says nothing about the owner; the dApp then
pays the transaction fee out of the pot, and the circuit or the contract takes
the contract's fee from the notes. The contract's log of messages is all a wallet
ever sees of the pool.

Hard behaviours, each listed at its line under `hazards` in `PROJECT.json`:

- several commands of one seed, or of different seeds, share `db.json` and run at
  once; each step between two `await`s sees what the others did meanwhile;
- a command can be killed, or a request can throw, at every `await`;
- a message number is read first and the messages later; the answer has an order
  the code does not control;
- clients act on a stale view: two proofs may spend the same note, a proof may
  name a note that is not mined;
- the balance equation is one of a prime field, a balance has 64 unsigned bits in
  the circuit and is a signed number in the contract;
- a transfer with one input sends a dummy nullifier, which must not lock anything;
- the fee appears as a constant in three files and is paid by the pot; of a
  transaction of the dApp's account the verifier reads neither fee nor target nor
  payments;
- `db.json` is truncated and then written; two processes can do so at once;
- the chain can forget its last blocks;
- numbers pass through JavaScript's signed 32-bit operators, through words of 32
  bytes cut at fixed offsets, and through points of which only x and a bit travel;
  what one language writes another one reads.

What makes each part correct:

- contract: the log is complete and append-only, nothing is spent twice or before
  it exists, and beyond what transactions of its account take elsewhere, the pot
  pays for every unspent note;
- contract with honest clients: it behaves as a pool of notes with owners
  (`NotePool`), backs it to the last wavelet, and never locks a note;
- syncing: `db.json` is the function of a log prefix that it claims to be;
- cryptography and codecs: what was encrypted, hashed, compressed or laid out is
  what the other side decrypts, recomputes, decompresses or looks up;
- commands: every command ends; a withdrawal finds the note it split off and pays
  what was asked; a seed owns notes that `collect` cannot merge only after the split
  of a negative withdrawal.

## 2. Modules

| Module | Models | Extends |
|---|---|---|
| `Circuits` | the three circuits as predicates over their signals | |
| `ZWaves` | the contract, everyone calling it with anything a prover can fill in | `Circuits` |
| `Pot` | the pot of the dApp under `ZWaves`, with a record of what the account's transactions take from it | `ZWaves` |
| `ZWaves_proofs` | theorems about `ZWaves` and `Pot` | `Pot`, `BasicTheorems` |
| `NotePool` | the abstract pool: unspent notes and a pot | |
| `FreshPool` | the contract called by clients that run `createUtxo` and `cli.js` | `ZWaves`, instance of `NotePool` |
| `FreshPool_proofs` | `FreshPool` locks no note, backs each exactly and implements `NotePool` | `FreshPool`, `ZWaves_proofs` |
| `LogPrefix` | what a wallet can learn from the first n messages | `ZWaves` |
| `SyncData` | `syncData()`: processes, `db.json`, crashes, torn writes, on top of a growing chain | `LogPrefix`, `FreshPool` |
| `SyncRollBack` | the same on a chain that rolls back | `SyncData` |
| `SyncRollBack_proofs` | what `db.json` holds, for any number of processes and after any roll backs | `SyncRollBack`, `FreshPool_proofs` |
| `Client` | the commands: processes, `collect`, pending transactions, failures | `LogPrefix` |
| `Client_proofs` | what the commands promise, for any number of processes and seeds | `Client`, `ZWaves_proofs` |
| `Int32` | JavaScript's `&`, `<<`, `>>` | |
| `Conversions` | bigints to buffers and back, messages of words | `Int32` |
| `BabyJubJub` | the curve of the wallets: arithmetic, compressed points, keys | |
| `Encryption` | encrypted notes between wallets | `BabyJubJub`, `Conversions` |
| `Pedersen` | the hash functions, down to the scalars of the base points | `Int32` |
| `Pedersen_proofs` | the scalars tell inputs apart, for windows and segments of any size | `Pedersen`, `BasicTheorems` |
| `Wire` | a call as bytes: prover, contract, wallet | `Conversions` |
| `Messages_proofs` | what `Conversions`, `Wire` and `Encryption` promise, for numbers of any size | `Wire`, `Encryption`, `BasicTheorems` |
| `ProvingKey` | the layout of the binary proving key | |
| `Curve`, `Points` | G1 and G2 of `zkgo`, over fp and fp2 | two instances of `Curve` in `Points` |
| `Groth16` | proof and verifying key from client to verifier | `ProvingKey`, `Points` |
| `Groth16_proofs` | size and pointers of the proving key, and that every point arrives | `Groth16`, `BasicTheorems` |
| `BasicTheorems` | lemmas on remainders, words, iteration, powers, folds, and sums over finite sets | |
| `MC*` | small instances for TLC | |

### Circuits and ZWaves

`U`, `N`, `MESSAGE_NUM` and `M` are the data entries of the dApp (`U` is the set
of hashes with flag `true`; a missing entry is `false` or 0, as in `flagExists`
and `getMessageNum`), `funds` the WAVES of every account. `deposit`,
`withdrawal` and `transfer` have one conjunct per condition of the callable, in
its order, then its writes. A script that throws leaves no trace, so a throw is
a disabled action. `Deposit`, `Withdrawal` and `Transfer` quantify over all
arguments: caller, fee, payments of a deposit (none, one or two, in WAVES or a
token), the ring of input hashes, the indices, the private signals.

- A proof stands for the private signals it proves knowledge of, and
  `bn256Groth16Verify` for the circuit's predicate on them: the proof system is
  taken as sound and the verifying key as the right one.
- The hash functions are CONSTANT operators with collision resistance as named
  assumptions. TLC gets the free ones: a hash is the tuple of what was hashed.
  An input hash is given by the note behind it, which collision resistance makes
  unique; hashes nobody knows a preimage of take no part.
- `Drafts` are notes somebody computed but whose transaction is not mined: a
  prover can put their hashes among the inputs.
- The encrypted part of a message is the content clients fill it with, the notes
  behind the hashes. The contract looks at neither `m` nor `m0` nor `m1`, so that the
  log can also hold messages that no client made (section 5).
- The WAVES side (`Moved`, `Settle`) is the node's: it takes the fee from the
  sender, moves payment or transfer, and refuses negative balances and payments
  of an account to itself.
- The fee of a transaction is any of `TxFees`: nothing in the contract reads
  `tx.fee`. `Fee` is the constant of the three sources (`zwaves.ride:10`, `cli.js:62`,
  `Transfer.circom:89`), which the contract takes from the notes and honest clients pay.
- `verify` is the contract's verifier, with both of its branches. `Pay` stands for the
  transactions it lets pass that are no calls of this contract and move WAVES: transfers,
  and invocations of other contracts with a payment, from any account and, under
  `verify`, from the dApp's. A payment with a spending call of this contract would be one
  to itself. The data and script transactions that the branch `case _ => true # TODO`
  lets pass as well are left out: after one of them no statement about the contract is
  left to make.
- Public signals are taken in their canonical encoding (below the field prime): the
  flags are keyed on the 32 bytes, and nothing under `src/` says what the node's
  verifier makes of a larger number.

`Pot` adds the history variable `outlay`: what the fees of the spending calls beyond the
contract's, and the payments elsewhere, took from the dApp's account. `Solvency` puts it
back. The verifier bounds none of it, so a pot that is really there needs
transactions that are those of `cli.js`: this is `ExactBacking` of `FreshPool`, where the
fee is `Fee` and no other transaction is sent.

### FreshPool and NotePool

Provers of `ZWaves` may use one entropy twice. Those of `FreshPool` draw each
(`rand256() % 2^253`) once, in the order of the code: one for a deposit, two for
the outputs of a transfer and one for its dummy nullifier. `draws` counts them and
a draw is its number. `WasteDraw` is a call that fails after drawing. The
refinement maps `unspent` to the notes whose hash is in `U` and whose nullifier
is not in `N`, and `pot` to the WAVES of the dApp.

### SyncData and SyncRollBack

Each process is at one of the awaits of `syncData()`: `Load` reads the file
and sends the request for `MESSAGE_NUM`, `MessageNum` is its answer,
`AccountData` the answer with the messages, `Process` one round of the loop over
them. `Sorted` says whether the node lists the entries in message order
(`Heads` are the messages that may come next); `accountDataEx` and the loop keep the
order of the answer. `fsave` is two steps: `Truncate` empties the file, and
`Write` writes the text. `dbfile` is the set of dbs whose text is in the file: one
normally, none after the file is truncated, several where two writers overlap, the
shorter text over the longer one. `fload` throws unless it is one (`parsed`).
A text is written by a single `write(2)`, so that a process is killed before it or
after it. `Crash` also stands for a request that throws; it can happen at every step.
Assets are identified with their notes, keyed by the nullifier of their owner.

`SyncRollBack` keeps the history of the chain's states. `RollBack` goes back to
any of them, `MineAgain` forward, and a new block is mined only at the end: what was
rolled back returns to the node's pool and is mined again in its old order. Roll
backs happen between two commands only.

### Client

A process is at an await of its command (`at`), with the options of the command
(`job`), the message number of its variable `db` (`known`) and the assets the
`for` loop of `collect()` has not reached (`todo`). `Start` is the command loop with
its assertions, `DepositUtxo`, `Collect`, `Round`, `AbstractTransfer`, `SyncAgain`,
`WithdrawPart` and `Withdrawn` the code between two awaits. Each of them that
broadcasts leaves a transaction in `pending`, and its process continues when
`MineOwn` puts it on the chain through the callables of `ZWaves`. `Fail` ends a
process at any await; its transaction may stay behind in `orphans` and be mined
later, in the middle of another command (`MineOrphan`). Every command is also
the retry of an earlier one.

- `syncData()` is one step and returns `PrefixAssets` of the message number it
  read. `AssetsAreUnspent`, checked by `sync` and proved as `DbHoldsUnspent`, says that
  this is what it does when answers come in message order. Seeds have a directory of their own.
- The order of `db.assets` is left open: a round takes any two assets, and a
  split any asset that is large enough (after `collect` there is one at most).
- Decoys in `in_hashes` repeat the inputs. Any hashes of `db.utxos` will do: what
  they have in common is that they exist, and that is all the contract asks.
- Assertions of `transfer()` that the fields of one `db` satisfy together (an asset
  has a hash in `db.utxos` and no nullifier in `db.nullifiers`) are not repeated.
- Random numbers get the first name that neither the log nor a pending transaction
  shows, so that states which differ in numbers nobody has seen are one state.
- A pending transaction whose input is spent meanwhile is never mined; the process
  that waits for it fails.
- Balances on the command line are integers, as `BigInt()` takes them. DEPOSIT and
  TRANSFER assert that theirs is the fee at least, WITHDRAWAL asserts nothing. A
  negative withdrawal ends at an assertion of `transfer()` when its part or its rest is
  negative; otherwise the split is broadcast and mined, and only the contract refuses
  the withdrawal that follows.

### Conversions, BabyJubJub and Encryption

Pure functions, written as the code's loops. `Conversions` keeps the loop state of
`bigint2buffLe` (`writeByte`) and `buff2bigintBe` (`readByte`): the bigints are
unbounded, the `Number` between them and the bytes has four bytes and a sign
(`Int32`). How many values a byte has (`Byte`, 256) is a parameter.

`BabyJubJub` takes the numbers of the curve as parameters. `tonelli`, `egcd` and
`mul` are recursive functions with the control of the source, its early returns and
throws; `%` takes the sign of its first operand. `Encryption` puts it to work:
`encrypt_utxo` makes the bytes of a note for the x of a public key, `Read` is what the
loop of `syncData()` makes of them in every wallet. `sha256` and `blake2b` are constants.

### Pedersen

`pedersenHash` multiplies one base point per segment of the input by a scalar and
adds up. The model ends with the scalars (`scalars`): bits of the inputs
(`leIntToBits` through the bytes of a limb), segments, windows, signed digits. Finding
two inputs with one hash is either finding equal scalars, which the run rules out, or
a relation between the base points. Two variables hold two calls of any of the hash
functions, so that one function is compared with another.

### Wire

One call at a time: `deposit`, `withdrawal` and `transfer` of `cli.js` make the
arguments out of the public signals, `Execute` is the contract's reading of them at its
offsets and the message it writes, `Learn` how `syncData()` cuts the message up. All
lengths are real (words of 32 bytes, amounts of 8, addresses of 26); for TLC a byte has
two values.

### ProvingKey, Points and Groth16

`ProvingKey` has the phases of `buildpkey.js` in order: seven words allocated for
pointers, seven loops, each written where the pointer says. A number is its size.

`Curve` is `g1.go` and `g2.go` at once, which are the same program over two fields;
`Points` defines the fields as `fp.go`, `fp2.go` and `fe.go` do (without the Montgomery
form and the limbs) and instantiates it twice. Points have Jacobian coordinates;
compressed they are x with two bits above it.

`Groth16` is a pipeline: `BuildKey` writes the proving key, `Prove` is
`wasmgroth.proof` with the finished buffer (`proofs`, some points of the curves) followed by
`serializeProof`, which goes through `BN254G1Compressed` and `BN254G2Compressed`,
`Receive` is `Groth16Verify` up to `ProofVerify` with a verifying key that came
from `serializeVK` the same way, and `AddInput` a round of its loop over the inputs.
The pairing that follows is not modelled. The prover returns no point at infinity: the
blinding factors make it as unlikely as guessing a key.

## 3. Runs

| Run | Instance | States | Shows |
|---|---|---|---|
| `zwaves` | 1 key, 3 entropies, balances below 8, field of 19, rings of 2, 4 WAVES, fee 1, transaction fees 1 and 2 | 5453 | `TypeOK`, `LogIsLedger`, `NoDoubleSpend`, `SpentWasCreated`, `AppendOnly`, `Solvency`, `BalancesReadPositive` |
| `fresh_pool` | 2 keys, 7 draws, all fees 1, no other transactions, otherwise the same | 4808 | `ExactBacking`, `OneNotePerNullifier`, `ImplementsPool` |
| `sync` | 2 processes of one seed, 2 keys, 4 draws, 4 WAVES, rings of 1, sorted answers | 150827 | `NothingMissed`, `AssetsAreUnspent` |
| `sync_roll_back` | 1 process, 2 roll backs, otherwise the same | 156440 | `MiningAgainHeals`, `NoAssetIsSpentYet` |
| `client` | 1 process, 1 orphan, 12 WAVES, fee 2, 18 draws; deposits of 3 and 6, withdrawals of -1, 0 and 2, transfers of 2 to itself and to another, of 0 to itself | 95687 | `NoUnknownError`, `FewDust`, `CollectGoesOn`, `PaysWhatWasAsked`, `CommandsEnd` |
| `encryption` | 3 wallets, a curve of 8 * 13 points over the field of 97, words of 7 bits, all random numbers | 2497 | `OwnerReads`, `BytesRoundTrip`, `NoReaderThrows` |
| `pedersen` | bytes of 1 bit, windows of 2, segments of 3 windows, field elements of 4 bits | 615441 | `ScalarsTellApart`, `BitsAreDigits` |
| `wire` | bytes of 1 bit, 3 hashes, 2 rings of 8, 6 balances, 2 receivers, 2 encrypted notes | 2269 | `ProofMatches`, `FieldsAreSignals`, `WalletLearns` |
| `groth16` | 726 circuits of up to 3 variables; y^2 = x^3 + 3 over the field of 7 and its extension, all points in two places of a proof; 2 inputs of 6 values | 50016 | `BufferFits`, `PointersLead`, `PointsArrive`, `InputsAddUp` |
| `sync_spent` | 1 process, 1 roll back, answers in any order | violation | `InUtxoIsNotSpent` |
| `sync_seeds` | a second seed for the second process, sorted answers | violation | `DetailsOfCurrentSeed` |
| `client_negative` | as `client` | violation | `NoNegativeOutput` |

Bounds. The contract has no counter to cap: every call burns a fee, so the 4
WAVES of the instance bound the number of calls, and the system stops when nobody
can pay (hence `CHECK_DEADLOCK FALSE`). Four WAVES allow two deposits and two
spending calls or one deposit of 3 and two spending calls, which is enough for
every pair of calls that can interfere: a note spent twice, one note in both
inputs, an output equal to an older note, a withdrawal after a transfer. The
amounts 1, 2, 3 hold a note worth exactly the fee and one that can be split; the
balance limit 8 has room for balances that `toInt` reads as negative (it is
twice the money there is, as in the node, which counts all WAVES in 63 bits), and
the field prime 19 is the smallest kind for which `NumbersAssumption` holds, so
that sums do wrap when the range check is dropped. Rings of 2 give both the
double use of an input and a decoy. In `fresh_pool` seven draws suffice for a
deposit and two transfers. `MaxDraws` and the money are the only bounds. Of the
transaction fees 1 and 2 the second exceeds the contract's, so that a call can
take more from the pot than its notes pay; payments from the pot are 0 to 3.

Two properties need a word. `ExactBacking` (equality) holds only for fresh
secrets: with a reused entropy two notes share a nullifier, one of them is
locked, and `Solvency` is the inequality that remains. `BalancesReadPositive`
follows from the amount of money that exists (`SupplyAssumption`), although the
circuit allows 64-bit balances; as WAVES that were paid out of the pot can be deposited a
second time, it is stated while the supply and the outlay together fit.

In the runs of `Client` money bounds the chain again. `MaxDraws` is the number of
names for random numbers: 18 are more than 12 WAVES can use up together with what
is pending. `MaxOrphans` is 1: a transaction from an earlier command of the seed, or,
what is the same to the process, from another one, mined while a command holds a stale
view. Balances: 6 is the smallest note a withdrawal of 2 can be split from, 3 the
smallest that a withdrawal of -1 can, into the notes 1 and 0, both below the fee of 2.
The fee is 2 and not 1 so that this split differs from a transfer of 0 to itself. That
one is refused by an assertion (`cli.js:436`); it is offered so that dropping the
assertion is noticed, which is how dust multiplies. What two or more live processes of
one seed do to its notes is left to the theorems (`DustIsRare`,
`OnlyHalvingStopsCollect`), which hold for any number of them.

In the runs of `SyncData` two processes and three messages suffice for every pair of
reads, writes and crashes that overlap, with a note created and spent between them;
4 draws are a deposit and a transfer. `NothingMissed` does not depend on the
order of the answers: that is what `DbMissesNothing` proves, for `Sorted` TRUE and
FALSE. `MaxRollBacks` is 2, the second of them after a command has seen the first.

In the runs of the algorithms the parameters are small and the inputs exhaustive or
chosen at the edges. `encryption`: 97 - 1 is divisible by 2^5, so that the long way
through `tonelli` is taken, the cofactor is 8 as in the real curve, so that most points
with a given x are outside the subgroup, the digests make some wallets try twice, and
balances and secrets reach Q - 1, so that limbs are negative. A byte of one bit makes a
limb of 4, and a word of 7 has two limbs, one not full. `pedersen`: inputs of 1 to
9 bits have one or two segments with a last window that is full, cut, or alone, and
521 is a prime above 2^(3 * 3), as `OrderAssumption` asks of the order.
`wire`: a balance of 8 bits of which half are negative for `toInt`. `groth16`: the
field is 3 modulo 4 and the curve's order prime, as for bn254; every point of both
curves goes through compression, those with a zero coordinate included, and the
inputs make partial sums that are equal, opposite or nothing. The runs of these modules
end when there is nothing left to compute, hence no deadlock check.

Fairness. Only `CommandsEnd` needs it. `Proceed` is weakly fair: the event loop of node
runs a continuation that is ready. `Answered` is weakly fair: `waitForTx` returns
when the transaction is mined and throws after a time. Which of the two is left
open, and nothing is assumed of a new command, an orphan or a failure. Symmetry
(of entropies, keys, or processes of one seed) is used only where no liveness is checked.

`NoUnknownError` is a property of one process per seed: a second one may merge the
part that was split off before it is withdrawn.

### Findings

- `sync_spent`: `syncData` deletes an asset when it sees its nullifier, but only if
  the asset is already there. Messages are processed in the order of the answer,
  which nothing sorts (entries sorted by key would put `M:10` before `M:2`). A
  nullifier that comes before its note leaves the spent note among the assets for
  ever, and the next `collect()` stops at the assertion `in_utxo is spent`
  (`cli.js:143`).
- `sync_seeds`: `db.json` is not tied to a seed. `details --seed <seed>` promises the
  details "of current seed" (`cli.js:350-352`) and reads the assets of the seed
  that wrote the file.
- `client_negative`: WITHDRAWAL takes a negative balance, although DEPOSIT and TRANSFER
  assert theirs (`cli.js:417`, `cli.js:436`). With a note of 1799999 and the balance -1
  the split passes the assertions at `cli.js:326` and `cli.js:315` and leaves notes of
  899999 and 0. The contract refuses the withdrawal, and every later `collect()`
  of the seed that takes these two together stops at the assertion `out_utxo is negative`
  (`cli.js:148`). `FewDust` and `CollectGoesOn` say that nothing else leads there.
- Also from the instance of `sync_spent`, whose shortest trace is the one above: after a
  roll back `rxrange` is called with its ends
  swapped and reads old messages again. When a deposit and its transfer were synced and
  the transfer is rolled back, the next command reads the deposit a second time, and
  `push_asset`, which does not look into `db.nullifiers` (`cli.js:264-265`), brings the
  spent note back beside its own nullifier, against `cli.js:143`. With `Sorted = TRUE` in
  `MCSyncRollBack_spent.cfg` this is the trace TLC shows. `MiningAgainHeals` says that it
  ends when the transfer is mined again.

Smaller disagreements met on the way, without a run: `bn254.go:68` calls `q` the
"Group order", but its digits are those of the field modulus (line 15), so that
`InCorrectSubgroup` multiplies by the wrong number; its calls in `FromCompressed`
are commented out. The comments of the
contract and `circuit.md` speak of 16 input hashes, code and circuits have 8; the
error "balance must be more then fee" is not thrown for a balance equal to the
fee.

## 4. Proofs

All for all values of the constants.

| Theorem | States | Assumes |
|---|---|---|
| `TypeCorrect` | `Spec => []TypeOK` | |
| `LogComplete` | `Spec => []LogIsLedger` | |
| `NoDoubleSpending` | `Spec => []NoDoubleSpend` | |
| `SpendingFollowsCreation` | `Spec => []SpentWasCreated` | |
| `LogAppendOnly` | `Spec => AppendOnly` | |
| `AlwaysSolvent` | `PotSpec => []Solvency` | |
| `NotesCanBeWithdrawn` | `PotSpec => []BalancesReadPositive` | |
| `NoNoteLocked` | `FreshSpec => []OneNotePerNullifier` | |
| `ContractIsPool` | `FreshSpec => ImplementsPool` | |
| `ExactlySolvent` | `FreshSpec => []ExactBacking` | |
| `DbMissesNothing` | `SyncSpec => []NothingMissed` | `OneSeed` |
| `DbHoldsUnspent` | `SyncSpec => []AssetsAreUnspent` | `OneSeed`, `Sorted` |
| `DbHoldsNoSpentAsset` | `RollSpec => []NoAssetIsSpentYet` | `OneSeed`, `Sorted` |
| `MinedAgainHealed` | `RollSpec => []MiningAgainHeals` | `OneSeed`, `Sorted` |
| `DustIsRare` | `ClientSpec => []FewDust` | |
| `OnlyHalvingStopsCollect` | `ClientSpec => []CollectGoesOn` | |
| `OutputsAreNatural` | `ClientSpec => []NoNegativeOutput` | no withdrawal of a negative balance in `Requests` |
| `WithdrawalsPayTheRequest` | `ClientSpec => PaysWhatWasAsked` | |
| `PartIsAlwaysThere` | `ClientSpec => []NoUnknownError` | `SeedsApart` |
| `KeyFillsBuffer` | `PkeySpec => []BufferFits` | |
| `KeyPointersLead` | `PkeySpec => []PointersLead` | |
| `PipelineBuildsKey` | `GrothSpec => PkeySpec` | |
| `PointsAlwaysArrive` | `GrothSpec => []PointsArrive` | |
| `ProofMatchesAlways` | `WireSpec => []ProofMatches` | |
| `FieldsAreSignalsAlways` | `WireSpec => []FieldsAreSignals` | |
| `WalletLearnsAlways` | `WireSpec => []WalletLearns` | |
| `DecompressFindsKeys` | `decompress` finds `mul(G, k)` from its x, for every key k | |
| `OwnerReadsAlways` | `EncSpec => []OwnerReads` | |
| `BytesRoundTripAlways` | `EncSpec => []BytesRoundTrip` | |
| `NoReaderThrowsEver` | `EncSpec => []NoReaderThrows` | |
| `DifferentInputsDifferentScalars` | `HashSpec => []ScalarsTellApart` | |
| `BitsAreBinaryDigits` | `HashSpec => []BitsAreDigits` | |

They rest on the named assumptions about the constants, which TLC evaluates in the runs.
Of the pool: `NumbersAssumption`, `AccountsAssumption`, `SupplyAssumption` (twice the
WAVES of all accounts is at most 2^64: the node counts them in a signed number of 64
bits), the injectivity of the hashes (`PubKeyInjective`, `Hash253Injective`,
`UTXOHashInjective`, `CompressInjective`), `EntropiesAreNotSecrets`, `EntropiesAreDraws`,
`ClientAssumption`, `NoneAssumption` (what stands for no transaction is none).

Of bytes and curves, each with what justifies it:

| Assumption | Says | Because |
|---|---|---|
| `ByteAssumption`, `WordAssumption` | a byte has at least two values, a word a byte | 256 and 32 |
| `WordsAssumption` | amounts fit 8 bytes, addresses 26, encrypted words a word; hashes are natural numbers | `longToBytes`, the format of addresses, the output of `encrypt`; of a hash nothing more is used |
| `CurveAssumption`, `FieldAssumption` | the order of the subgroup is odd; Q fits a word | the numbers of `babyJubJub.js` |
| `GroupAssumption` | points under addition are a commutative group | a twisted Edwards curve with a square A and a D that is none |
| `RootAssumption` | `tonelli` finds one of the two roots, for the x of a public key | Q is prime |
| `KeysAssumption` | the search of `privkey` ended | there is a wallet |
| `NotesAssumption`, `DigestAssumption` | balances and secrets are below Q, digests natural numbers | the range checks of the circuits, `rand256() % 2^253`, blake2b |
| `ThrowsAssumption`, `ErrorAssumption` | what stands for a throw is no result | |
| `ModulusAssumption`, `RootsAssumption`, `CurvesAssumption` | the modulus is 3 modulo 4 and below the flag bits; the powers in `sqrt` are roots of squares; b is not 0 | `fp.go`: the modulus is a prime of 254 bits |
| `SetupAssumption` | prover and setup return points of the curves, the setup one more than there are signals | snarkjs, websnark |
| `KeysAssumption` of `ProvingKey` | counts are natural numbers, polynomials have finitely many coefficients | the circuits are finite |
| `WindowsAssumption`, `OrderAssumption` | windows have at least 2 bits; 2^((4 + 1) * 50) <= subOrder | 4 bits, an order above 2^250 |
| `LengthsAssumption` | inputs of different functions have different numbers of windows | 64, 127 and 143 windows |

`ZWaves_proofs`. The lemmas `DepositStep`, `WithdrawalStep` and `TransferStep` show
that each callable is a `LedgerStep`: it announces one message, adds exactly that
message's hashes and nullifiers to `U` and `N`, all of them new, and every
nullifier it adds either belongs to an existing note or is a dummy in second
place. A payment is a `MoneyStep`, which leaves log and flags alone. `StepInv` then
shows that a `LedgerStep` preserves

    IInv == TypeOK /\ LogIsLedger /\ NoDoubleSpend /\ MessagesMatch /\ SpentWasCreated

None of the conjuncts is inductive alone. `NoDoubleSpend` needs `LogIsLedger`,
because the contract compares with the flags and not with the log.
`SpentWasCreated` needs `MessagesMatch` (a message announces the hashes of its own
notes) and `UTXOHashInjective`, to get from a flag "U:h" back to the message that
created the note behind h.

Money (`BasicTheorems`, `AlwaysSolvent`). The value of the unspent notes is a sum over a
finite set, a fold by recursion over the subsets. Its laws (`SumAdd`, monotony, the sum
of a set without an element) are proved from a smallest subset on which a law fails
(`SmallestSubset`, by well-founded induction on the subsets of a finite set), which
needs no induction theorem with a predicate. Both theorems are about `PotSpec`, of which
every step is one of `ZWaves` (`PotIsNext`), so that `IInv` holds. Each step then is a
`PaysFor`: it spends unspent notes, makes others, and the dApp, with the outlay put back,
gains at least what the new notes are worth more than the old ones. In the transfer this
is where the range checks on the outputs and the limit on the balances enter, as the
circuit's equation only holds modulo the field prime. `Backed`, that the unspent notes
are finitely many and solvent, is inductive with `TypeOK`.

What `AlwaysSolvent` says and what it does not: whatever proof a call is made with, it
takes no more out of the pot than the notes it spends are worth and what its fee exceeds the
contract's by. How large that excess is, and what else is paid from the account, no
guard of the contract limits. `NotesCanBeWithdrawn` needs the amount of money there
is: `FeesPaid` says that the balances of all accounts, and 1 for every message,
add up to the supply at most, so that every note is worth less than half the balance
limit, while the outlay that may be deposited again leaves room for it. With fresh secrets
and the transactions of `cli.js` nothing is lost either: `ExactlySolvent` has the
equality, without any outlay, from `UnspentStep` below.

`FreshPool_proofs`. Every step of `FreshPool` is one of `ZWaves` (`FreshIsNext`), so
`IInv` holds. To it comes

    FInv == SecretsAreDrawn /\ SecretsDiffer

every secret in the log comes from a draw that was made, and no two notes of the log
share one. A nullifier is then the one of at most one note, and a dummy, compressed from
an entropy, the one of none (`NullifiersApart`, `DummiesApart`): `HitsOne`. For the
refinement `UnspentStep` says what becomes of the set of unspent notes when some notes
are spent and fresh ones created, and `MintStep`, `ConvertStep` and `RedeemStep` map
the three calls to the steps of `NotePool`, the pot included (`PotAfter`).

`SyncRollBack_proofs`, without roll backs. `SInv` says of every text in `db.json` and of the variable `db` of
every process that it is `Good`: it knows exactly the utxos and nullifiers of the
messages it counts and misses no unspent note of them; of a process in the loop, that
what it has plus what is left of the answer is good (`Filling`). The file is in the
invariant as a set of texts, so a torn or mixed file needs no case of its own. `EInv`
strengthens it for answers in order: a db is `Exact`, and in the loop it is exact for
the prefix before the next message. `OneSeed`, that all processes of the
directory have one seed, cannot be dropped: `sync_seeds` shows why. Nor can `Sorted` in
the second theorem: `sync_spent`.

With roll backs. After one of them nothing in `db.json` has to be in the log of the
chain, so `Good` and `Exact` are lost. What remains is a relation to the longest log the
chain has ever had (`last`), of which every other one is the beginning (`HistoryInv`);
what the contract promises is carried over to that log by instantiating
`FreshPool_proofs` with it (`Longest`). A db `Fits` the longest log: it holds notes of it,
and all whose hash it has seen and whose nullifier it has not. It is `Clean` up to a
message number: none of the messages below, except those still to be processed, spends
one of its assets. Between the awaits of the loop it is `Catching`: what is left to
process comes after what is not, so that a note which comes back is deleted again before
its nullifier is counted. `NoAssetIsSpentYet` is `Clean`; `MiningAgainHeals` is both.

`Client_proofs`. `MinedEffect` says what a block with a transaction leaves behind
(`Effect`), for each of the kinds of transaction that commands make (`TxInv`): a deposit,
a withdrawal, and a transfer that either splits the only asset its process saw
(`Splits`) or merges two (`Merges`). The invariant `ClientInv` holds of every process
what it knows of its notes (`ProcInv`) and of the transaction it waits for
(`PaysInv`), and of the dApp

    LoneAsset: a seed that once saw one asset only, worth the fee or more, has no note
               below the fee as long as that one is unspent
    OneDust:   a seed owns at most one note below the fee, unless it is Halved
    TwoDust:   a seed never owns three

`Halved` says that the log shows the split of a negative withdrawal; as the log only
grows, it stays true (`HalvedKept`). `OneDust` is not inductive without `LoneAsset`: a
split leaves a small note behind, and what rules out that there is another one is that
the process which made it had seen a single asset, at whatever earlier moment. The same
holds of the two small notes of a negative withdrawal (`HalfOf`, `SplitHalves`), hence
`TwoDust`. `LoneAsset` stays true because notes that
came later than that moment were deposited with the fee, or made from notes that were
there (`LaterAssets`), so from the lone one itself. Whether a transaction is mined at
once, late, or beside others of the same seed makes no difference, as `TxInv` speaks of the
transaction and not of its process.

For `PartIsAlwaysThere` each process has a seed of its own (`SeedsApart`), as it must: a
second one of the same seed could merge the part before it is withdrawn. The danger that
remains is what the seed's earlier commands left behind and what is mined in the middle of
the new one. `AloneInv` follows it through a withdrawal: before the split all of it spends
notes that `collect()` has just seen, which is one note at most; after the split it can
only compete for that note, and if the split is mined it is forgotten by the node
(`AloneOwn`); when the process goes on nothing is left, and the part is an unspent note
(`FreshIsUnspent`). This needs that the secrets of pending transactions are fresh,
against the log and against each other (`FreshPending`): a note whose secret was used
before might be born spent. Both invariants were checked by TLC, on the instances of the
runs of `Client`, before they were proved.

`Groth16_proofs`. Of the key, `OffsetInv` says where the offset is in each of the nine phases: the
sum of what the earlier items of the section took, which for the polynomials is a sum
over their numbers of coefficients (`SizeUpTo`), added to the start of the section.
`BuffLen` shows that `calculateBuffLen` adds up the same from the other direction. As every
write is at the offset, nothing is overwritten, which is `FoundInv`: behind each pointer
the points of the section lie in a row, up to the one being written.

Of the points, `ArrivalInv` says of every stage of the pipeline what is known there of
the proof and the verifying key. A compressed point comes back because `sqrt` of y^2 is
y or its negative, and the sign bit tells one from the other unless y is zero
(over fp2 unless both coordinates are); `Affine` changes nothing, because the
points have the z coordinate 1, whose inverse is 1. The zero
coordinate of a y is where a careless sign would go wrong; it is a case of the proof.

`Messages_proofs`. What `BigInteger` and `Number` loops compute is proved from the
sequence of their states: `FoldLeft` runs through states (`ReadTrace`, for one), and a
statement about the state after n rounds holds for the largest n by the least number
for which it fails (`BasicTheorems`). `bigint2buffLe` takes four bytes at a time out of a
signed number; its bytes are still the lowest ones of the unsigned one. From this follow
the round trips through both byte orders, modulo 256^n. For `Wire`, `WireInv` says that the
call has the form its function gives it and that the message of a result is the words
of the call one after the other (`MessageWords`); lemmas on cutting (taking bytes i to j
of concatenated words of 32) lead from the offsets of the contract and of `syncData()`
back to the words.

Of `Encryption`, multiplication by double-and-add is repeated addition, hence
a homomorphism; both sides of the key agreement compute the same point
(k * (l * G) = l * (k * G)) and add and subtract the same masks modulo Q. The x
that travels belongs to two points. They differ by the point of order two (0, -1), up to a
sign, and as the order of the subgroup is odd one of them at most is inside
(`DecompressFindsKeys`): `decompress` finds the right one whatever root `tonelli`
returned. `EncInv` says that what was sent is such an encryption, and what a wallet read
the reading of it. That a wallet which is not the owner's does not throw either needs
only that the x of the message decompresses, not the key.

`Pedersen_proofs`. The bits of an input are the binary digits of its numbers, though they
are taken from signed limbs (`SignKeepsBits`, `Bits`, `SumOfBits`). Segments and
windows cover them without gap or overlap (`SegmentsCover`, `WindowsCover`). A window
gives a digit of 1 to 2^(w - 1) with a sign, which tells all its bits (`DigitTells`).
The scalar of a segment is the sum of digits times powers of 2^(w + 1), which is so
much room that a sum stays below half of the next place and above half of its own last
one (`NumberIsBelow`, `NumberIsAbove`); hence the sum tells how many digits there are
and each of them, by taking the first place where two sums differ (`NumberTells`), and
so it does modulo `subOrder`. Inputs of different functions differ in the
number of their windows, those of one function in a bit (`CallsTellApart`). `HashInv` is
only the form of the two calls.

Only model-checked:

- liveness (`CommandsEnd`): out of the prover's reach, as is `ENABLED`.
- `InputsAddUp`: that the formulas for sums and doubles in Jacobian coordinates
  give the sum of the public inputs' points is the group law of the curve, identities of
  polynomials of high degree modulo a prime, which no prover here decides.

## 5. Not modelled

- `zkgo/js/index.js`, the JavaScript that GopherJS generates from `zkgo/index.go` with the
  runtime of Go: 34994 lines, which is nearly all JavaScript there is in the repository.
  Its source is modelled instead.
- The compiled circuits, verifying and proving keys: output of tools.
- The pairing with the towers fp6 and fp12, the 64-bit limbs and the Montgomery form of
  fp, `MultiExp`, hashing to the curve: the system uses the Go library to compress points,
  and the node has a verifier of its own, which the contract's model takes as sound.
- BLS signatures, edwards25519 and bls12381, which nothing of the pool calls.
- snarkjs and websnark (packages): witness and proof.
- `buildwitness.js`: a loop that writes numbers of fixed size one after the other.
- The strings in which JSON keeps bigints (`stringifyBigInts`), `rpcCall`, which is a
  function call in disguise, `zksnark/cli.js`, which the client does not start.
- Deployment scripts, logging, command line parsing, the unused function `balance` of
  `cli.js`, circuit templates that no circuit includes.
- Transactions of the dApp account that write data entries or replace the script, which
  `case _ => true # TODO` lets pass.
- Messages that no client made. The contract checks neither the lengths nor the content
  of `m`, `m0` and `m1` (`zwaves.ride:125`, `zwaves.ride:198`), and `decompress()` throws
  inside the loop of `syncData()` for an x that belongs to no key, after which every later
  sync throws at the same message. `NoReaderThrows` is about the messages of clients only;
  nothing in the contract keeps the others out, so there is nothing to prove.
- A roll back in the middle of a command, or one after which other transactions are
  mined than before: `syncData()` then counts messages of one chain and has read those
  of another, and nothing in the code notices. There is no property to state: what
  `db.json` then holds has no relation to the chain.

## 6. Plan

What is left, in this order:

1. Proofs: that what `SyncData` returns is what `Client` takes for it, as a refinement of
   `syncData()` into one step.
2. `Client` on top of `SyncData` instead of its result, with the file torn by a
   command that was killed; this multiplies the states of both.
3. The towers over fp2 and the pairing's final exponentiation on a small curve.
