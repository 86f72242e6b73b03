# A verification development for the dynamic AMM SDK

TLA+ modules, TLC runs and TLAPS proofs about `mercurial-dynamic-amm-sdk`: the
TypeScript client (`ts-client`), the Rust quote library (`dynamic-amm-quote`),
the Rust command line client (`rust-client`) and the two program crates
(`programs/dynamic-amm`, `programs/dynamic-vault`). Paths below are relative to
`src/`, and `index.ts` and `utils.ts` are those of `ts-client/src/amm`.

## 1. Inventory

The SDK talks to an on-chain AMM whose pools do not hold tokens: a pool holds LP
tokens of two *dynamic vaults*, which lend the tokens out and earn profit. The
program crates in this repository are interfaces: every handler is
`Ok(())`, and what is left of the programs is account contexts, state structs and
the arithmetic on them. The logic that can go wrong here is in the clients.

| part | state it keeps | operations | interacts with |
|---|---|---|---|
| `AmmImpl` cache (`index.ts` 1105-1215, 1277-1363) | `poolState`, `vaultA/B.vaultState`, `accountsInfo`, `depegAccounts`, `swapCurve`, `poolInfo` | `create`, `updateState` | RPC (answers late, in any order, or fails); every quote reads it synchronously |
| swap quote, TypeScript (`utils.ts` 491-646, `curve/constant-product.ts`) | none | `calculateSwapQuote`, `getSwapQuote`, `getMaxSwapOutAmount`, `getMaxSwapInAmount` | reads the cache; its result is the minimum of `swap` |
| swap quote, Rust (`dynamic-amm-quote/src/lib.rs`) | none | `compute_quote`, `compute_pool_tokens` | the same accounts as the TypeScript quote |
| vault arithmetic (`programs/dynamic-vault/src/state.rs`) | `total_amount`, LP supply, locked profit, last report | share to amount and back, profit unlocking | both quotes |
| quote before the launch (`utils.ts` 371-486) | changes the vault state its caller passes in | `calculateSwapQuoteForGoingToCreateMemecoinPool` | vault arithmetic, curve |
| liquidity (`index.ts` 1587-1979) | none, but branches on two copies of the LP supply | `getDepositQuote`, `getWithdrawQuote` | cache, curve |
| transaction builders (`index.ts` 1489-2137) | none; they act on accounts they have read | `swap`, `deposit`, `withdraw`, `lockLiquidity`, `claimLockFee`, `createConfig` | chain; other transactions of the same and other users; the IDL |
| stable curve and depeg (`curve/stable-swap.ts`, `stable-swap-math`, `dynamic-amm-quote/src/depeg`) | the base virtual price and its time, shared with the pool state | `computeD`, `computeY`, in and out amounts, virtual price update | cache, clock, stake accounts |
| pool creation (`index.ts` 181-841; `examples/create_pool_and_lock_liquidity.ts`) | what has landed on chain of a sequence of transactions | create vaults, wrap, create pool, lock, swap | chain; other clients |
| interface (`ts-client/src/amm/idl.ts`) | none | the roles and flags of the program's instructions | every builder |
| command line client (`rust-client/src`) | attempt counter | swap, deposit, withdraw, create a pool: read, build, sign, and send with retries, simulate, or estimate a fee | chain; other clients |
| `enable_or_disable_pool` (`programs/dynamic-amm/src/instructions/enable_pool.rs`) | `pool.enabled` | flip it | both quotes |

What is hard in it:

* `updateState` awaits three times and assigns the fields of one object at four
  different points. Nothing prevents two calls from overlapping, and a rejected
  call leaves requests in flight whose answers are still assigned.
* The parts of the cache are read by different requests, hence at different
  slots; a quote pairs them.
* A swap is rounded six times between the pool, its vaults and the curve, while
  profit unlocks and the vault lends its tokens out. Two implementations of the
  same quote round and charge in a different order.
* Pool creation, locking and deposits decide from a read what a transaction sent
  later will do, and the sequences of several transactions have no journal.
* The retry loop cannot tell a lost transaction from one that landed late.
* The base virtual price of a depeg pool is cached with its own time stamp, in an
  object that the pool state and the curve share and quotes change in place.
* The stable curve is solved by iterations that round every step and stop at a
  limit without saying whether they converged.

What makes each part correct: a resolved update is fresh and, when nothing
overlaps and no rejected update has left a refresh behind, one generation; quotes
create no value and agree with each other; what a transaction asks for is what was
quoted, and fails rather than doing less; a transaction whose premises still
hold lands, with the caller's signature alone; a sequence that stops can be resumed
without doing a step twice; a command is carried out at most once and its report is
true.

`PROJECT.json` lists the components with their status and, under "hazards",
each of these at the line where it bites.

## 2. Modules

| module | models |
|---|---|
| `AmmClient` | the cache and `updateState`, as one action per segment between awaits |
| `AmmClient_proofs` | theorems about it |
| `VaultMath` | the vault's share and locked-profit arithmetic |
| `SwapQuote` | the two swap quotes, as operators on a snapshot |
| `LaunchQuote` | the quote of a swap in a pool that is not launched yet |
| `PoolSwap` | a pool over two vaults, traded through the quote, with the vaults' own activity |
| `PoolSwap_proofs` | the floor-division lemmas, and theorems about swaps, vaults and quotes |
| `Liquidity` | balanced deposits and withdrawals on top of `PoolSwap`, the virtual price and the claimable fee of a lock |
| `Liquidity_proofs` | theorems about deposits and withdrawals, on top of `PoolSwap_proofs` |
| `StableMath` | the Newton iterations of the stable curve and what `StableSwap` (the class) computes with them |
| `StableSwap` | a stable or depeg pool: swaps, one-sided deposits and withdrawals, a moving price |
| `StableSwap_proofs` | theorems about the iterations and the swaps of a stable pool |
| `DepegCache` | the cached base virtual price over `updateState`, quotes and the program |
| `DepegCache_proofs` | theorems about it |
| `AmmIdl` | the instructions of the IDL: roles, writable flags, signers |
| `UserTransactions` | the builders of `AmmImpl` and how their transactions land among others |
| `UserTransactions_proofs` | theorems about them |
| `LaunchInstructions` | the instructions in a launch's transactions and what the runtime asks of them |
| `PoolLaunch` | launching a pool: the transactions the creation functions build, and the loop that sends them |
| `PoolLaunch_proofs` | theorems about it |
| `AtMostOnce` | abstract: what a command that sends a transaction promises |
| `TxSubmit` | the command line client over a node and a cluster that fail |
| `TxSubmit_proofs` | theorems about it, the refinement of `AtMostOnce` among them |
| `MC_AmmClient`, `MC_PoolSwap`, `MC_Liquidity`, `MC_StableSwap`, `MC_UserTransactions`, `MC_PoolLaunch` | instances for TLC |

What builds on what: `VaultMath` <- `SwapQuote` <- `LaunchQuote` <- `PoolSwap` <-
`Liquidity`; `StableMath` <- `StableSwap`; `AmmIdl` is instantiated by
`UserTransactions` and `LaunchInstructions`, and that by `PoolLaunch`;
`TxSubmit` instantiates `AtMostOnce` with its refinement mapping.

### AmmClient

A cached part is abstracted to `[slot, call]`: the slot its value is a snapshot
of, and the call that assigned it. An RPC sent at slot s and answered now
carries the state of any slot from s to now (commitment levels that lag are
outside the model: they only make answers older). The actions and the code:

| action | code |
|---|---|
| `Init` | `AmmImpl.create` has returned; its reads happened in sequence |
| `UpdateState` | the synchronous start of the call: three requests are sent |
| `PoolFetched`, `SupplyFetched` | the two awaits of `getPoolState` |
| `VaultRefreshed` | `refreshVaultState` assigns its vault state when answered, whatever happened to the call (external code, the vault SDK) |
| `Gathered` | the `Promise.all` is fulfilled; `poolState` is assigned; the batch is sent |
| `AccountsFetched` | the batch of eight accounts arrived, decoded, checked; `accountsInfo` is assigned; the depeg accounts are asked for |
| `DepegFetched` | the last segment: `depegAccounts`, `swapCurve`, `poolInfo` |
| `PoolInfoFailed` | the same segment when `calculatePoolInfo` throws, after the first two assignments |
| `RequestFailed` | a request fails or an `invariant` on its answer throws |

`peers` is a history variable (which calls overlapped which); the code has no
counterpart. The model has one batch request because `chunkedGetMultipleAccountInfos`
asks for eight accounts in one chunk of at most a hundred, which is one slot.
A pool whose depeg type is none still passes through the await of
`getDepegAccounts`; asking for no account answers like asking for some.

Fairness: weak fairness of `Gathered(c)` and of `Settle(c)` (some request of c
is answered or fails), per call. The first is the event loop running the
continuation of a settled promise; the second is the transport, which gives up
on a dead connection. `UpdateState` is not fair: nobody has to call it.

### VaultMath, SwapQuote, PoolSwap

`TsQuote` and `RustQuote` follow their functions line by line down to each floor
division; the curve rounds the new destination balance up (`ceilDiv`). Both
return a record with the intermediate amounts, so that properties can speak of
what a swap moves. Left out: the price impact, token mints (a side is "A" or
"B"), 64-bit overflow (amounts are small), activation by slot (one clock).

`PoolSwap` gives the quotes reachable snapshots. `Swap` lands the amounts of a
quote; `Report` and `Rebalance` are the vault operator (profit is locked and
unlocks with the clock; tokens move between the reserve and the strategies),
which are external; `EnableOrDisablePool` follows the account constraint. The
transactions of `AmmImpl.swap` are `UserTransactions`.

`QuoteBeforeLaunch` follows
`calculateSwapQuoteForGoingToCreateMemecoinPool`, with `Deposited` and
`Withdrawn` for its two local helpers, which update the vault state as they go.
`PoolSwap` asks it of its vaults at every reachable state: `Launched` is the pool
the program would have made there (external), and `LaunchQuoteIsExact` compares
the two quotes for buying the token that has no vault, the case the function was
written for.

### Liquidity

`Liquidity` extends `PoolSwap` with the pool's LP supply: its next-state relation
is that of `PoolSwap`, or a deposit, a first deposit, or a withdrawal by anyone.
`BalancedDeposit` is `getDepositQuote` of one amount with `balance`, on either
side: the share is taken of the pool's token amount, less the unlock buffer (a
float factor of 9900.2 basis points, truncated), and the in-amounts are those
of the share before the buffer. `FirstDeposit` is the branch without LP supply,
`BalancedWithdrawal` is `getWithdrawQuote` without a mint. `Proportion` and
`ProportionRounded` are the two ways of `getShareByAmount` and `getAmountByShare`.

| action | code |
|---|---|
| `Deposit` | a fresh quote, `deposit`, and the program taking what the LP tokens cost |
| `BootstrapLiquidity` | the same with `bootstrapLiquidity`, when the LP supply is zero |
| `Withdraw` | a fresh quote, `withdraw`, and the program burning and paying; also when the pool is disabled, as `lib.rs:193` of the program says |

The program's handlers are stubs: what a deposit costs on chain is either
rounding, the client's or upwards, and not more than the quote. Slippage is zero
and quotes are fresh; the minimum amounts then never bind.

`VirtualPrice`, `UnclaimedFee` and `Claimable` are `calculatePoolInfo`,
`calculateUnclaimedLockEscrowFee` and `getUserLockEscrow`: the LP tokens by
which the virtual price has grown since the escrow was last settled.

### StableMath, StableSwap

`Newton` is the loop of both `computeD` and `computeY`: up to `MaxIters` steps,
stopping when two values are at most one apart; it is a recursive function, not
an operator, so that the module can be proved about. `NextD` and `NextY` are the
steps, in the order of the code's divisions. Every other operator is one method
of the class, with the rounding it does: `Fraction.toFixed(0)` to the nearest,
BN towards zero. `InAmount` takes the source balance off without scaling it, as
`stable-swap.ts:209` does.

| action | code |
|---|---|
| `Swap` | `computeOutAmount` of what is left after `calculateTradingFee` |
| `Deposit` | `computeImbalanceDeposit`; refused where it throws or mints nothing |
| `Withdraw` | `computeWithdrawOne`; a quote that divides by zero throws, and nothing is sent |
| `PriceMoves` | the base virtual price of a depeg pool moves between two refreshes (external) |

`AtMostInvariant` and `AtMostSolution` are the reference: the two equations
without divisions, so that "the whole number below the solution" can be said
exactly. The pool's amounts are tokens (no vaults here), its protocol fee is zero.

### DepegCache

A price is represented by the time at which the stake pool had it, so its age is
visible. The variables are the fields of the object that matter: the depeg
objects of `poolState` and `swapCurve` and whether they are one (`shared`), the
two clocks and the two stake accounts.

| action | code |
|---|---|
| `UpdateState`, `Respond`, `PoolStateArrives`, `BalancesArrive`, `DepegAccountsArrive`, `UpdateFails` | the segments of `updateState` between awaits, a request being read by the node before its answer arrives; the last segment builds the new curve around the depeg object of `poolState` and computes D with it |
| `SwapQuote` | `getSwapQuote`, which builds a curve of its own from the object's fields and refreshes the shared depeg object |
| `CurveQuote` | the quotes that ask the curve of the object |
| `ProgramRefresh` | `update_base_virtual_price` on chain |
| `Tick` | the clock |

One update runs at a time; overlapping ones are `AmmClient`'s. `torn` is a
history variable: which of the two objects was used by a `getSwapQuote` while the
clock was newer than the stake account.

### AmmIdl, UserTransactions

`AmmIdl` transcribes the roles of the instructions that `AmmImpl` builds; `Bound`
is `methods[op]().accounts(own)`: named accounts replace the pool's own, and the
flags of the table follow. An instruction that changes an account nobody
declared writable is refused, whichever builder made it.

A builder is two reads and a transaction: `Begin` is the call and its first round
of requests, `Send` the second round and the transaction that comes back, `Land`
and `Drop` what becomes of it. `SwapTx`, `DepositTx`, `WithdrawTx`,
`LockLiquidityTx`, `ClaimLockFeeTx` and `CreateConfigTx` put the instructions
together in the order of the code; `Executed` runs them on a ledger one after the
other, whole or not at all. `emptySeen` is the one thing builders take from the
cache, `poolState.lpSupply.isZero()`; `UpdateState` refreshes it. What the
program's handlers do to token accounts is external (`Takes`, `Gives`), with
amounts of one or two units: enough to overdraw, to leave a residue, and to tell
who paid. `CloseConfigs` is the program's, no function of the client builds it.

`Sensible` excludes calls that the quotes would have refused, and a swap that
names its own user as referrer: with SOL going in and no wrapped SOL account,
`swap` then creates that account twice.

### PoolLaunch

The three creation functions that return transactions built from reads
(`createPermissionlessConstantProductPoolWithConfig`, its variant
`...WithConfig2` and `createPermissionlessPool`), and the loop of
`create_pool_and_lock_liquidity.ts` (82-87) that sends and confirms them one by
one. A transaction is a record of what it creates, wraps, locks and swaps; `Plan`
says which transactions a function returns, and `Instructions` lists the
instructions of each in the order in which they are added. `LaunchInstructions`
says for each what it creates, needs, changes and has signed, from the IDL and
the account constraints of the program crate; `Accepted` is the runtime's side.

| action | code |
|---|---|
| `ReadVaults` | the call, and the answer to `fetchNullable` of the two vaults |
| `ReadAccounts` | the answer to `getOrCreateATAInstruction`; the transactions are built |
| `Send`, `Refused` | `sendRawTransaction`, which simulates first and throws if that fails |
| `Landed`, `Failed` | the cluster runs the transaction whole, or not at all; `confirmTransaction` resolves either way, as its `err` is not looked at |
| `Expired` | the blockhash expires and `confirmTransaction` throws |
| `Crash` | the caller stops; what it sent stays on its way |

`CanRun` is `Accepted` (accounts that are created do not exist yet, accounts that
are used do, changed ones are writable, the payer signs) and the balance the
deposit and the swap spend. Token B is native SOL, so there is always
something to wrap and WithConfig's first transaction is never empty; the payer
has its token A. Left out: `skipAAta`, `skipBAta` and `skipAta`, pool types
created by `createCustomizablePermissionlessConstantProductPool`, rent, and
unlocking. The calls read once per function; the vault SDK's own second look
at the vault is part of `ReadVaults`.

Two things the module shows of the code and does not state as properties. A
payer who stops after the first transaction of WithConfig and starts again wraps
the SOL again: nothing looks at the balance; only `createPermissionlessPool`
cannot leave any behind (`SingleLaunchLeavesNothing`). And WithConfig2 wraps
the deposit only (`index.ts` 339-341, against 559-565), so its swap needs SOL
wrapped by the caller; `SwapIsFunded` excepts that case.

### TxSubmit, AtMostOnce

A run of the command line client: it looks for accounts, builds one transaction
around what it found, signs it, and `send_transaction_wrapper` sends, simulates
or estimates.

| action | code |
|---|---|
| `Start` | `main.rs` dispatches a command |
| `LookFor` | `get_account(..).is_err()`: a failed request counts as a missing account |
| `Panic` | an `unwrap` on any other read |
| `Sign` | the latest blockhash is fetched and the transaction signed, once |
| `DryRun` | `TX_ACTION_SIMULATION`, `TX_ACTION_ESTIMATE_FEE` |
| `Submit`, `AnswerLost`, `Refused`, `Unreachable` | an attempt of `send_transaction`: the node takes it, takes it but the answer is lost, refuses it after simulating it, or cannot be reached |
| `Confirmed`, `ConfirmFails`, `StatusLost` | the end of the wait for confirmation |
| `Land`, `LandWithError`, `Forget`, `Expire`, `OthersCreate`, `Close` | the cluster (external): a signature is processed once, while its blockhash is valid |

`AtMostOnce` has three variables: who asked, what was done, what was reported. The
mapping is `asked <- AsksFor` (a started run that sends), `done <- Carried`
(processed without error), `report <- Told`. A report of failure promises nothing
there; `FailureIsFinalUnlessLost` says when it is nevertheless true. `disturbed`
and `lost` are history variables.

Fairness: a started run is weakly fair, since nothing in it waits but for answers
that come or time out; `Expire` is weakly fair, since blockhashes do expire and the
wait for confirmation ends by that. Starting a run, landing and everything others
do is not fair.

## 3. What the runs check

| run | instance | shows |
|---|---|---|
| `amm_client_safety` | 2 interchangeable calls, created at slot 1, slots to 3 | `TypeOK`; `FreshUnlessOverlapped`: what a resolved call leaves is never older than it unless an overlapping call (or a rejected call's leftover vault refresh) did it; `CoherentWhenQuiet`: at rest, after a call that ran alone and resolved, a quote reads one generation, and the clock is not behind a vault, except a vault that a rejected call's refresh assigned last, which is only known to be no older than that call; `OlderOnlyByOverlap`: no other step makes a part older |
| `amm_client_liveness` | 2 calls, slots 0 to 1 | `EveryCallSettles` under the fairness above |
| `amm_client_retry` | 2 calls, slots 0 to 2 | **violated**: `RetriedUpdateIsFresh` |
| `pool_swap` | trades of 1, 3, 4, 8 and 13 tokens, launch deposits of 5 or 13, vaults of 20 or 27 tokens for 20 LP, profit 3, 3 steps, clock to 3 | `PoolProductNeverFalls`, `VaultSharesNeverDiluted`, `RoundTripNeverGains`, `RustNeverAboveTs`, `LaunchQuoteIsExact`, and that no book goes negative (`TypeOK`) |
| `liquidity` | the pools of `pool_swap` with one swap amount, LP supply 7 or 13, deposits of 1, 4, 9, withdrawals of 1, 3, 4 or all; 3 steps, clock to 2 | `WithdrawalLeavesOthersWhole`; `SplitWithdrawalNeverGains`; `DepositThenWithdrawNeverGains`, for vaults whose LP token is worth at most two tokens (`DearShare`); `ClaimableFallsByRoundingOnly`: what a lock can claim falls below nothing by one at most, whatever lands, while the lock is no larger than the pool's LP tokens of either vault; and the books, with nothing stranded in a depleted pool (`BooksOK`) |
| `stable_swap` | amp 2, 20 iterations, fee 1/6; pools of equal and of unequal decimals and a depeg pool with prices 3 and 4; swaps of 1, 4, 14, three deposits, withdrawals of 2 or 6 LP; 4 operations, scaled reserves from 8 to 120 | `NewtonIsExact`: the iterations end within one of the exact solution wherever operations lead; `SwapsKeepInvariant`: no swap lowers the exact invariant; `RoundTripGainsAtMostOne`; `DetourSavesNoFee`: deposit and one-sided withdrawal are no cheaper than a swap; `InAmountBuysAsked`: without scaling, the amount in buys what was asked, and less would not have; the last token is never paid out (`TypeOK`) |
| `stable_impact` | amp 2, no fee, equal decimals, scaled reserves from 5 to 100 | **violated**: `ImpactNotNegative` |
| `depeg_cache` | cache lives 2, clock to 7 | `RecentUnlessTorn`, `StampsAreHonest`: failures, late answers and quotes at any moment do no harm except a `getSwapQuote` between the last two assignments of an update |
| `depeg_torn` | the same | **violated**: `RestedQuoteIsRecent` |
| `user_transactions` | 2 interchangeable wallets, both kinds of pool, wrapped SOL 0 or 1 at first, every builder, 3 calls of which 2 under way at a time, configs 0 and 1 | `UndisturbedTxLands`, `OnlyPayerSigns`, `NoResidue`, `DoesWhatWasAsked`, and that no account is overdrawn (`TypeOK`) |
| `pool_launch` | 2 interchangeable payers, 3 attempts between them, 5 ways to launch, wrapped SOL 0 or 1 at first, deposit 2, swap 1 | `UndisturbedAttemptRuns`: without interference from another attempt no transaction of a launch fails; `UndisturbedAttemptIsExact`: such an attempt ends with the pool, its lock, and the balance it began with; `LockedFromBirth`: the LP tokens of a pool to be locked are never free; `SingleLaunchLeavesNothing` |
| `tx_submit` | 2 runs, 2 attempts each, create_pool and swap, others touching vault B and the swap's token account | `KeepsPromise`: the client implements `AtMostOnce`; `FailureIsFinalUnlessLost`; `UndisturbedRunSucceeds`; `EveryRunSettles` under the fairness above |

The violated ones are the findings of `PROJECT.json`: the freshness an update
promises (`index.ts:1275`), which a rejected update's leftover vault refresh
breaks for the next one; the price impact of the stable curve, whose price is derived
with another amplification than the curve's (`stable-swap.ts:104`); and the ten
minutes a base virtual price may be cached (`stable-swap.ts:12`), which a
`getSwapQuote` halfway through an update prolongs.

Bounds. Two calls are enough for every pairwise race of the cache, as the
properties compare one call with one writer; with three calls, at slots 0 and
1, the same properties also hold (4.4 million states). `MaxSlot` leaves two
ticks after creation, so an answer can be older than, as old as, or newer than another
call's start. In `pool_swap` the degradation of 2/3 per time unit makes profit
unlock in two steps, the fees of 1/4 and 1/2 round both ways on the amounts
used, and share prices start at 1 and 1.35; three steps allow a profit report, a
lending move and a trade, or two trades around one, in every order. `InitReserve`
is below what the pool owns, so the reserve limit binds; in `liquidity` it is
above, so that the pool can be emptied and bootstrapped within the three steps.
An LP supply of 13 is that of a pool just created, 7 that of one that has earned
much; no pool has an LP supply above the square root of its product. In `pool_launch` two
payers with three attempts between them give every pairing that matters: a payer
against its own given-up attempts, and with one of them on its way against a
rival with the same or another way to launch; the deposit is larger than the swap and than any first balance, so
amounts taken for one another show.

In `stable_swap` the limit of 20 iterations is the code's own. `MinReserve`
keeps the pools away from dust, where the iteration for D can alternate between
two values up to it (amp 1, reserves 33 and 1) and a withdrawal of half the LP
tokens can pay out the last token; the code has no such bound, and section 7
says so. A multiplier of 3 and prices of 3 and 4 over a precision of 3 make
scaling round. In `depeg_cache` the clock reaches past two expiries after the
creation, so a record can be refreshed, expire and be refreshed again around an
update. In `user_transactions` three calls give every pair of builders in both
orders and a third transaction that meets what they left; two under way at a
time is what a race needs. In `tx_submit` two attempts are the first and a
retry; `create_pool` looks for two accounts and creates three, `swap` is the
command with a token account that others may close; deposit and withdraw differ
by the account they look for, and the proofs cover them. Deadlock is not checked
because the counters are bounded (and, for the clients, calls and runs settle).

`raced` and `before` of `PoolLaunch`, `wrapped0` and `hostFees` of
`UserTransactions` are history variables, like `peers` of `AmmClient`. `TypeOK`
of `PoolSwap` is more than types: it says that no vault pays out more than it
has, which the strict reserve check is needed for.

## 4. What is proved

The theorems hold for every value of the constants that satisfies the named
assumption of the module, so for any number of calls, wallets, payers and runs,
and for amounts of any size. Each rests on an inductive invariant, which is shown
to hold at first and to be preserved action by action; the last step of each
theorem is temporal (PTL).

`AmmClient_proofs`, for any set of calls (finite or not) and any slots:
`TypeCorrect`, `FreshUnlessOverlappedHolds`, `CoherentWhenQuietHolds` and
`OlderOnlyByOverlapHolds`. None of the properties is inductive: they speak of
calls that have resolved, and a resolved call got there through three stages.
`IInv` says that requests belong to the stage they were sent in and are not
older than their call, that vault requests are outstanding only while gathering
or after a rejection, that a running call knows every other running call as a
peer, and that each cached part is fresh from the stage that assigns it. `OInv`
adds what the other two need: answers are snapshots of past slots; two calls that
run are peers of one another (`RunningArePeers`); a part is not newer than the
start of any running call that did not overlap its writer (`PartsBeforeRunning`);
a call that nothing overlaps has put together one generation, stage by stage
(`AloneByStage`, `AloneLeavesGeneration`); and a vault state is no older than the call
that assigned it, rejected or not (`VaultSinceWriter`). A vault that a rejected call's
refresh assigned last is outside the generation, and `CoherentWhenQuietHolds` says so:
all it proves of that vault is this last bound (section 7). The assumptions: `Create` is not a
call, and the slots are naturals.

`DepegCache_proofs`, for any expiry and any length of the run: `TypeCorrect`,
`StampsAreHonestHolds` and `RecentUnlessTornHolds`. The invariant adds to them that
what is read is not newer than the clock, in the order of the reads
(`ReadInOrder`), and that a shared depeg object is one object (`SharedIsWhole`).

`PoolSwap_proofs`, for any fees that are fractions at most one, any degradation
and any amounts: `TypeCorrect` (the books stay in range: no vault pays out more
than it has), `VaultSharesNeverDilutedHolds`, `PoolProductNeverFallsHolds`,
`RoundTripNeverGainsHolds`, `RustNeverAboveTsHolds` and `LaunchQuoteIsExactHolds`.
`TypeOK` is itself inductive here: its conjunct about the unlocked amount is what
`get_unmint_amount` and the strict reserve check keep up. The lemmas are stated once
for quotients (`DivBounds`, `DivNat`, ...), then for the vault's share arithmetic,
then for the curve; what is multiplied is named and its monotonicity cited, so that each
remaining leaf is linear. From them: an unmint and the mint that follows round to
the vault's side, `ceilDiv` to the pool's, and the fees only take.

`Liquidity_proofs`, on top of those: `BooksCorrect`, `WithdrawalLeavesOthersWholeHolds`,
`SplitWithdrawalNeverGainsHolds`, `DepositThenWithdrawNeverGainsHolds`, and, while
liquidity comes and goes between the swaps, `SwapQuotesHoldWithLiquidity` and
`LiquidityNeverDilutesVaultShares`. The invariant is `BooksInv = BooksOK /\
OthersKeepLp`: what others hold of a vault's LP tokens is what they held at
first, so a vault the pool has left is never empty. It needs the assumption that
the pool starts with less than all of a vault's LP tokens (`PoolShare <
LpSupply`): a vault that its only depositor has left has no LP token to price the
next one by.

`StableSwap_proofs`, for any amplification, iteration limit, fee, scale, price and
amount: `SwapsKeepInvariantHolds`, `NewtonNeverTooLowHolds` and
`ConvergedYIsExactHolds`. Newton's method for a convex function never ends below
the solution in exact arithmetic; here a step rounds down once for y and three times for D. It is
shown that the number after what any step yields is still above the solution
(`TangentBelow` for D, `NextYStep` for y); for D as long as the step starts not far
above the sum of the amounts, which every step preserves (`NextDStep`). So `computeD` and `computeY` are never too low by one or more,
converged or not, and the unit that `computeOutAmount` holds back covers the
rest. What the recursion of `Newton` returns follows from the existence of its
run and from `IterationEnds`. The assumptions: a fee is at most the whole, and
operations are on pools that hold something of both tokens (`MinReserve`
positive).

`UserTransactions_proofs`, for any wallets, calls, first balances and configs, and any
number of transactions under way: `TypeCorrect`, `OnlyPayerSignsHolds`,
`NoResidueHolds`, `DoesWhatWasAskedHolds` and `UndisturbedTxLandsHolds`. A transaction is taken apart into
its instructions (`ExecutedRuns`, `RunsSplit`, `RunsOne`), each instruction's
effect on a ledger is stated once, and each builder's effect is put together from
them. The invariant `UserInv` says that the ledger is `Sound`, that an open escrow
has its token account (`VaultsOpen`), that every call whose builder has not returned
has asked for what a caller may ask (`Fair`), and that every transaction on its
way is what its builder made of what it had read (`Shaped`). `VaultsOpen` is what
`OnlyPayerSigns` needs: `claimLockFee` would have the escrow pay for that
account, but never has to create it. `UndisturbedTxLands` goes the other way: it follows
the instructions of each builder from what the builder has read (`Current`, while
nothing has changed) through the accounts it creates (`MissingMore`, `WrapWorks`) to
the main instruction, whose every guard is then met (`SwapReady`, `DepositReady`,
`LockReady`, ...), and shows that nothing is written that no instruction declares
(`Works`). It needs that what is under way is still what was built (`AllReturned`),
and for deposits that the supply of LP tokens is a natural number that only the
accounts for LP tokens decide (`SupplyNat`, `SameSupply`): a sum over a recursion,
which is shown to have a solution (`SumsExist`). The assumptions: there are finitely
many wallets, an escrow's address is no wallet, and calls have the fields of their
builder.

`PoolLaunch_proofs`, for any payers, attempts, options and amounts: `TypeCorrect`,
`LockedFromBirthHolds`, `SingleLaunchLeavesNothingHolds`, `UndisturbedAttemptRunsHolds`
and `UndisturbedAttemptIsExactHolds`, the last two for every launch but WithConfig2 with a
swap (`SwapIsFunded`). `LaunchInv` says that every transaction an
attempt has yet to send, and every one on its way, fits its options (`PlansFit`,
`NetFits`): it locks exactly if it creates a pool that is to be locked, and it does
not create a pool and swap in it. For the last two theorems, `TransactionRuns` adds the
instructions of a transaction one by one and shows what each finds when its turn
comes (`Now`), from what the instructions of each kind create and need
(`CreationFits`, `EscrowFits`, `LockFits`, `SwapFits`): a transaction is accepted if
it creates the vaults that are missing and the token account if there is none, the
pool it creates is not there, and the pool it swaps in is the payer's. The invariant
`CourseInv` adds that an attempt has at most one transaction on its way
(`OneOnItsWay`), and that an attempt nobody disturbs is `OnCourse`: it has read what
is still so, or its next transaction and those to follow are those of a stage
(`AtOpening`, `AtCreation`, `AtSwap`), each with the wrapped SOL that belongs to
it, or it has `Launched` and the payer has what it had before. `StageRuns` shows that the
transaction of a stage can run, `StageGoesOn` that it leads to the next stage or to the end;
every other step of the chain counts as a disturbance. The assumptions: the mark
for "no payer" is no payer, and a payer is a wallet: not an account of a pool, an
escrow or a token account.

`TxSubmit_proofs`, for any set of runs, any bound on the attempts, all four commands
and any accounts that others touch: `TypeCorrect` (attempts within `MaxRetries`
included), `FailureIsFinal`, `UndisturbedSucceeds`, and `Refinement`: `Safety =>
KeepsPromise`, that is, `TxSubmit` implements `AtMostOnce`. The invariant is
`IInv = TypeOK /\ AttemptsLeft /\ SentWasAsked /\ WaitedFor /\ UndisturbedIsRight`:
that a failure is final needs to know that a transaction which may still land is
being waited for (`WaitedFor`), that nothing is on its way unless it was to be sent
(`SentWasAsked`, which the refinement needs too), and that a run has attempts
left until it settles (`AttemptsLeft`). `UndisturbedIsRight` carries along a run
what makes its transaction succeed: what it has looked for is still as it was
found, what it has not looked for yet or has decided to create covers what its
last instruction needs, and its blockhash is valid. In the refinement each action
is shown to be a step of `AtMostOnce` or to leave the mapped variables alone.

What the proofs changed in the model, where a run on small amounts had not shown it:

* `TypeOK` of `PoolSwap` once bounded the profit recorded as locked by the vault's
  total. A withdrawal can break that, when part of the profit has unlocked since the
  report; what holds, and what `get_unmint_amount` divides by, is that the unlocked
  amount is positive and at most the total.
* `DepositThenWithdrawNeverGains` fails where a vault LP token is worth several
  tokens (section 7); it is stated, and proved, up to two.
* `ClaimableFallsByRoundingOnly` fails where a lock is larger than the pool's LP
  tokens of a vault, as one unit of rounding is then worth more than one.
* The quotes of a stable deposit and withdrawal can divide by zero in extremes;
  `Deposit` and `Withdraw` of `StableSwap` are refused there, as the code throws.

Only model-checked:

* `ClaimableFallsByRoundingOnly`, which takes an integer root of the pool's product;
* of `StableSwap`: `TypeOK` (a withdrawal rounds to the nearest, and in a pool of
  dust can pay out the last token), the rest of `NewtonIsExact`
  (that the iterations converge within their limit, which is not so for every
  pool), `RoundTripGainsAtMostOne`, `DetourSavesNoFee` and `InAmountBuysAsked`, which
  rest on that;
* liveness, and anything with ENABLED, which are outside the prover. Its induction
  theorems cannot be used either, as they take an operator; where the proofs need
  induction they take a least counterexample instead (`LeastNat`).

## 5. Plan

1. Theorems: that one step of the iteration for D from above the solution goes down,
   and so when it converges, on which the rest about `StableSwap` depends.
2. Liquidity with slippage, for transactions that land after the state moved.
3. Two pools over one vault, as `createMultiple` makes them, in `AmmClient`.
4. An abstract specification of the cache (a register whose reads are fresh
   unless writers overlap), and `AmmClient` shown to implement it.

Runs stay few: one per question, two per module at most.

## 6. Not modelled

* The on-chain handlers: they are stubs here. Where a property needs their effect
  it is an external action or operator, taken from account constraints, the IDL
  and how the clients use them.
* `createMultiple` and the read-only queries: factories and lookups without state
  of their own. The vault objects that `createMultiple` shares are a listed
  hazard without a property.
* Slippage: the factor is a product of floating point numbers (`utils.ts:93`).
* The price impact shown for constant-product pools, a display value.
* The formulas that read a price from a stake account's bytes (`curve/stable-swap.ts`,
  `dynamic-amm-quote/src/depeg`), and the stable curve of the Rust library, which is
  an external crate.
* In `idl.ts`: pool administration instructions, account layouts, events, errors;
  the vendored Marinade IDL; types; examples other than the launch sequence.
* Of pool creation: `skipAAta`, `skipBAta`, `skipAta`, the activation point, the
  order of the mints, rent.
* Of the command line client: the printing commands, deposit's amounts, the dump of
  signatures, and the versioned twin of `send_transaction_wrapper`, which nothing
  calls.

## 7. Observations

Things the code does that modelling brought out, and that no run states as a
property; for some of them a property makes an exception.

* Two overlapping `updateState` calls can leave the object older than the later
  call when both have resolved; `FreshUnlessOverlapped` says this is the only way.
* The vault refresh left over by a rejected `updateState` may be answered after a later
  call has read its clock. That call then ends with a vault state newer than the clock
  it is priced with, and `poolInfo` computed from another vault state: the exception
  of `CoherentWhenQuiet`. If the vault reported in between, the time since its last
  report is negative, which the vault program refuses (`state.rs:98`).
* `QuoteResult.fee` of the Rust library leaves out the protocol fee it also
  charges (`dynamic-amm-quote/src/lib.rs:54` and 200).
* An amount out that equals `getMaxSwapOutAmount` is refused (`utils.ts:292`
  against 639).
* The `roundUp` of the deposit quote is `divRound` (`index.ts:2179`), so the amounts
  in can be one atom below what the LP tokens cost.
* The quote before the launch, asked the other way round (selling the new token),
  returns what stays in the vault rather than what leaves it, and without a vault
  on the source side counts all that is swapped in as the pool's new balance; its
  `fee` is the amount less the protocol fee; and it changes the vault state its
  caller passed in, so a second quote starts from a changed vault (`utils.ts:404`).
* The unclaimed fee of a lock can come out as minus one: the virtual price is an
  integer root divided by the LP supply, and the rounding of both can lower it when
  the supply changes.
* A vault that has more than doubled gives a rounding gain back: with 28 tokens for
  10 vault LP tokens, depositing and withdrawing at once returns one token more than
  was deposited, because the deposit quote takes a share of the pool's tokens and the
  withdrawal a share of its vault LP tokens.
* In a stable pool an imbalanced deposit followed by a one-sided withdrawal of the
  same token can gain one atom, by the rounding of fractions to the nearest.
* The iteration for D may alternate between two values up to its limit in a pool of
  dust.
* `computeInAmount` takes the source balance off the new one unscaled
  (`stable-swap.ts:209`) although the new one is scaled (188-199). In a pool of 16
  tokens of multiplier 3 and 22 of multiplier 1 it asks 11 tokens for an amount out of
  1 that one token buys; `InAmountBuysAsked` is about pools without scaling.
* `deposit` looks at `poolState.lpSupply` and its quote at `accountsInfo.poolLpSupply`
  (`index.ts` 1774 and 1602), two reads of one supply; `UserTransactions` has one flag for both.
* `createConfig` reuses the index of a closed config (`index.ts:198`).
* `create_pool` of the command line client passes the derived LP mint of an existing
  vault A, but the recorded one of vault B (`create_pool.rs:49` and 75); the
  estimate of a fee multiplies micro-lamports by units without dividing by a
  million (`rpc.rs:244`); and "Cannot send transaction" may be printed of a
  transaction that landed, if the answer about it was lost.
