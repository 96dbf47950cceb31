# ShadowLend: formal models

TLA+ models of ShadowLend, a lending protocol for Solana: an Anchor program
(`programs/shadow-lend/src/lib.rs`), a browser client (`app/sl-client.js`,
`app/index.html`), a sketch of MPC circuits (`arcium/src/circuits.rs`) and
scripts that set up markets (`migrations/`). TLC checks the models on small
instances; TLAPS proves every safety property that a passing run checks, and the
refinement of the abstract bank, for every instance. (One exception: `RiskIsCovered`,
which holds without interest only, has its theorem as `GrownRiskIsCovered`.)

    tlc -config Ledger.cfg MCShadowLend        # a run
    tlapm ShadowLendProofs.tla                 # some proofs

PROJECT.json lists, for machines and readers alike, components, runs, the fault
that each property catches, the source lines of each definition, the findings,
the hazards of the code and the theorems.

## Inventory

| Part | State | Operations | Interacts with |
|---|---|---|---|
| Markets | `Market`: LTV, rate, `borrow_index_e18`, `last_update_slot`, `total_supplied`, `total_borrowed`; a mint; a vault | `initialize_market`; accrual inside every other instruction | clock |
| Faucet | `amount_per_claim`, `claim_count`, `ClaimReceipt` per wallet and mint | `set_claim_amount`, `claim_faucet` | SPL mint |
| Positions | `Position`: `supplied`, `borrowed`, `borrow_index_snapshot_e18` per wallet and market | `supply`, `withdraw`, `borrow`, `repay`, `liquidate` | vaults, Pyth prices, the user's other positions through `remaining_accounts` |
| User stats | `UserStats` counters | `init_user_stats`, `record_action` | mirrors what the page did; the ledger does not read it |
| Client | wallet, program, price cache of 30 s | reads of markets and positions, then one transaction each | RPC, wallet adapter, program |
| Wallet session | wallet, program, remembered name, the connect in flight | `connect`, `tryEagerConnect`, `disconnect` | wallet extension, `localStorage` |
| Web page | rendered state, refresh timers | panels, activity stream | client |
| Circuits | none | `check_ltv`, `check_liquidatable`, `accrue_interest` | not called yet |
| Migration | the mints made so far | `initialize_market` in a loop, then writes `app/config.js` | program |

Where each is hard:

- *Markets and positions.* A debt is a stored number plus the index it is dated
  by. Every instruction restates some debts and reads others as stored. The two
  totals of a market are kept by separate additions and saturating subtractions
  beside the positions they summarise. `liquidate` changes two positions, two
  markets and two vaults that may be the same ones. Correct when: tokens, totals
  and positions agree after any sequence of calls of any users; debts change by
  tokens and time alone; no user takes a risk that is not covered; only users
  under water are liquidated, at a fair price.
- *Faucet.* One claim per wallet and mint, with an amount that changes in between.
- *Client.* Reads and the transaction are apart: positions may be opened, prices
  may move, another submission may execute in between; a failed read looks like
  an empty position. Correct when what it lists is enough for the program's
  check.
- *Wallet session.* Three asynchronous operations write the same two variables,
  and the page copies one of them. Correct when program, wallet and page are of
  one session, and nobody is locked out.
- *User stats.* A chain of calls, each made for the wallet of the moment, mirrors
  what the chain confirmed. Correct when counters add up and invent nothing.
- *Circuits.* They repeat in other arithmetic what the program decides. Correct
  when both decide and charge alike.
- *Migration.* Several steps of which one may fail.

## Modules

| Module | Models | Uses |
|---|---|---|
| `ShadowMath` | saturating integers, pricing of amounts, the borrow index and the debt it restates (`lib.rs` 631-721) | |
| `ShadowLend` | the program: markets, faucets, positions, instructions; its properties | `ShadowMath`, instance `Bank` of `LendingBank` |
| `LendingBank` | abstract: what the program promises, without indices, prices and totals | |
| `Client` | submissions of the browser over the program: reads, then the transaction | `ShadowLend` |
| `WalletSession` | connect, silent reconnect, disconnect, the page's copy of the wallet | |
| `UserStats` | the counters of the program and the page's mirror | |
| `Circuits` | the three functions for MPC | `ShadowMath` |
| `Accrual` | one debt through all histories of touches, against the circuits | `Circuits` |
| `MCShadowLend`, `MCClient`, `MCWalletSession`, `MCUserStats` | finite instances, start states, symmetry | the module they name |
| `ShadowMathProofs` | lemmas about the arithmetic: what rounds which way, what saturates | `ShadowMath` |
| `ShadowLendProofs` | theorems about ledger and faucet, with the step of the program that all later proofs take | `ShadowLend`, `ShadowMathProofs` |
| `BankProofs` | what users owe, and the refinement of `LendingBank` | `ShadowLendProofs` |
| `HealthProofs` | what users risk: the health check, liquidations | `BankProofs` |
| `ClientProofs` | all of it behind the client, whose listings are old | `Client`, `HealthProofs` |
| `AccrualProofs`, `UserStatsProofs`, `WalletSessionProofs` | theorems | the module they name |

### How the models correspond to the code

**The program** (`ShadowLend`). A transaction is atomic and an instruction that
fails changes nothing, so every `require!`, `checked_*`, account constraint and failing token transfer is a
conjunct of the action, and each instruction is one action with all it writes.

- `Supply`, `Withdraw`, `Borrow`, `Repay`, `Liquidate`, `InitializeMarket`,
  `SetClaimAmount` and `ClaimFaucet` are the instructions of the same names.
- `CurrentIndex`, `Debt` and `AccrueMarkets` are `accrue_market` and
  `accrue_position`: the first two give the values that they leave, the last
  stores the index. `SetPosition` stores a position together with its snapshot.
- `Covered` is the health check of `withdraw` and `borrow`, `Underwater` that of
  `liquidate`. As in the code, the instruction's own positions count with accrued
  debts, the listed ones with stored debts. What is listed is the caller's
  affair: users withdraw and borrow through the client, which lists what
  `ClientListings` says; a liquidator passes any of the borrower's other positions
  (`LiquidatorListings`), since the program asks for none to be there.
- `AllFresh` asks for a fresh price in the instruction's own markets and of each
  listed position that holds anything; the walk passes over empty ones first.
- `Liquidate` writes fields back (`WriteBack`) in the order of the account structs: the
  debt side, then the collateral side. When both are the same account, the
  second write wins, as when Anchor writes its two copies back.
- `AdvanceSlot` and `PublishPrice` are the outside: the clock and the feeds.

Abstractions: account addresses, seeds, bumps, signatures, rent and events are
left out; `admin` is not a variable, since only the signer of
`initialize_market` may call `set_claim_amount` and which user that is matters to
no property. A position's copies of its market's feed, LTV and decimals never
change after it is opened, so the market's are read. Slots and unix seconds are
one clock; `MaxPriceAge` and `Rate` are in its units. A market is identified
with its mint. Only positions of the borrower himself are listed, which the
program checks, and each at most once, which it does not check but the client
keeps to: a listing is a set, and a caller who passes a position twice is outside
of the model. In `ShadowLend` the client's reads happen in the step of the
transaction; `Client` sets them apart.

`U64Max`, `U128Max`, `RateScale`, `BpsDenominator` and the decimals are constants
with the assumptions the code justifies, so that runs use narrow integers and
meet their limits while proofs cover the real widths.

**The abstract bank** (`LendingBank`). A reserve, purses, deposits and what is owed now.
`Bank` maps `reserve` to the vaults, `purse` to the wallets, `deposit` to `supplied`,
and `owed` to `Debt`, the debt at the present index. The clock maps to
`Interest`, which charges all debtors at once; touching a position maps to no
change of `owed` beyond the tokens moved; opening a market, a changed claim
amount and a published price are stutters. A liquidation of a market against itself
is no step of the bank (finding 1), so the run that checks the refinement
liquidates across markets only.

**The client** (`Client`). A submission is one run of `modifyPosition` or `liquidate`:
`Submit` is the code up to the first read, `ReadPosition` one turn of the loop that
collects the cross accounts, `Execute` the confirmed transaction, `Abandon` every
way in which nothing comes of it (a failed price read, a declined signature, a
refusal, a dropped transaction). `Execute` takes the accounts as they are then
and the listing as it was read. `Around` is what lists no positions: the setup of
markets, faucet claims, the clock and the feeds. Two submissions of one user may overlap,
since `openModal` takes the loading mark off the button. `Lists` is the filter on
what was read: a position counts when it holds anything.

**The wallet session** (`WalletSession`). A step is what runs between two waits for
something outside the page. `connect` waits at the extension (twice, after an
opaque error) and at the IDL; `tryEagerConnect`, started by `Boot`, at the same
two places; `disconnect` at the extension. `SetWallet` and `IdlAnswers` are the tail
both connects share: `buildProgram` takes the wallet of the moment it runs.
A promise that is settled already costs no step. `Reload` and `Revoke` are the
crash and restart of this part: only `localStorage` and the extensions'
permissions survive.

**The counters** (`UserStats`). `InitUserStats` and `RecordAction` are the instructions.
A submission of the page goes through the transaction, `appendHistory`,
`ensureStatsInited` with its read and its creation, and `record_action`; each waits,
may fail (`Fail`), and acts for the wallet in use when it is made (`CallWith`).

**Accrual and circuits.** `Accrual` has one market and one debt. `UseMarket` is
`accrue_market` in any instruction of another user, `AccruePosition` that of the debtor
followed by `accrue_position`. The circuits are operators beside it; the sum that
`accrue_interest` may overflow is either a panic or what is left of it, since the
build decides.

Definitions marked `fault:` are variants of the definition that follows, with a
plausible slip in it. No action uses them; each shows that a property fails when
the code is wrong in that way (PROJECT.json, "mutants").

## Properties

Of the program:

- `TokensConserved`: wallets and vault of a mint hold what its faucet minted.
- `OneClaimEach`: the claim counter is the number of receipts.
- `SupplyLedger`: `total_supplied` is the sum of the positions.
- `DebtLedger`: `total_borrowed` is at most what the positions owe. It is not
  equal: interest is subtracted from it when repaid and never added.
- `Solvent`: vault plus loans cover what was supplied.
- `DebtDated`: a debt's snapshot lies between the market's first index and its
  present one.
- `DebtIsTokens`: within a slot, what a user owes changes by the tokens that move
  between him and the vault; the clock never lowers it.
- `RiskIsCovered`: a step in which a user borrows or takes collateral out leaves his
  debt, at current indices over all markets, within his LTV-weighted collateral.
  With interest it is false (finding 2).
- `StoredRiskIsCovered`: with interest this is so for the debts as they are stored.
- `GrownRiskIsCovered`: and what he really owes exceeds the collateral at most by
  the factor by which that debt of his has grown that grew most since he
  touched it, and a unit of rounding for each debt that has grown.
- `SeizureJustified`: who loses collateral was under water over all markets. It is
  false when the liquidator leaves collateral out (finding 5).
- `ListedSeizureJustified`: it is true of every liquidator who lists the positions
  with collateral, whatever debts he leaves out and however old they are stored.
- `SeizurePriced`, `LiquidationHelps`: who loses collateral loses no more than the value
  repaid plus bonus, and is not deeper under water after it, whatever was listed.
- `ImplementsBank`: the program is a bank that holds exactly what depositors put
  in and did not take out, and whose debts grow for all debtors at once: charging
  them lazily as positions are touched makes no difference.

Of the client:

- `RiskIsCovered` again, over submissions: a listing that is out of date still
  covers every debt when a user has one submission under way at a time,
  because only his own borrows give him debts. The run has no interest, so that
  a violation would be the listing's and not finding 2 again.
- `ReadSeizureJustified`: a liquidation read some steps before it executes seizes only
  from a borrower really under water, unless it has overlooked collateral of his.
- `OverlookedByDeposit`: it comes to overlook collateral in one way, that the borrower
  supplies it after the read.

Of the wallet session:

- `ProgramFitsWallet`: the program signs for the wallet in use or for none.
- `PageShowsWallet`: the page shows the client's wallet, except while one is set up.
- `SessionInv`: both, with the types and the guard of `connect`; inductive.
- `ConnectSettles`: the guard against a second connect is always released.

Of the counters:

- `ProofsAddUp`: `proofs_submitted` is the sum of the kinds, at the limit too.
- `NothingInvented`: all wallets' counters together never exceed what the chain has
  confirmed. It is over all wallets because the mirror signs for the wallet of
  the moment: wallet by wallet it is false.
- `StatsInv`: the inductive invariant behind both.

Of accrual and circuits:

- `TouchingIsFree`: no history of touches makes a debtor owe more than none.
- `RoundingIsSmall`: touching forgives less than one unit per slot, and what that would have earned.
- `NeverForgiven`: a debt never falls below the principal.
- `AtLeastSimple`: the index grows by simple interest or more.
- `CircuitChargesAlike`: before the first touch, the circuit charges what the program does.
- `CircuitsJudgeAlike`: circuit and program judge every debt alike, at the limit too.
- `AccrualInv`: a debt is at most the principal's share of its snapshot; inductive.

### Fairness

The program acts only when called and nothing schedules calls, so no fairness is
assumed of it, of users or of their submissions, and all properties of program
and client are safety. One module has liveness: `WalletSession` assumes weak
fairness of what the page waits for, that an extension answers `connect`
(approves, refuses or fails), that a fetch of the IDL returns, that the silent
reconnect and a disconnect return, and that `Boot` runs. A promise of a wallet or
of `fetch` settles in the end; one that never does is outside of the code's reach,
which has no timeouts. Clicks, revocations and reloads have no fairness.

Deadlock is not checked: with bounded clocks and counters and finitely many tokens
there may be nothing left to do, and a client may rest.

## Runs

| Run | Instance | Shows | States |
|---|---|---|---|
| `faucet` | 2 users, 2 markets, u64 of 2 bits, from an empty ledger, claims of 1 or 2, 2 slots, liquidation across markets | `LedgerInv` (the inductive invariant), `OneClaimEach`, `ImplementsBank` | 215 000 |
| `ledger` | 2 users, 2 markets, u64 up to 5, debts doubling per slot, 3 slots, amounts 1 and 2, any pair of markets liquidated | `TypeOK`, `SupplyLedger`, `DebtLedger`, `Solvent`, `DebtDated`, `DebtIsTokens` | 245 000 |
| `liquidation` | 3 markets, interest in one, a price that rises, any of the borrower's positions listed by a liquidator, 2 slots | `StoredRiskIsCovered`, `GrownRiskIsCovered`, `ListedSeizureJustified`, `SeizurePriced`, `LiquidationHelps` | 76 000 |
| `accrual` | principals of 1 to 40 units, rates of 0 to 3 tenths per slot, 7 slots, all histories | `AccrualInv`, `TouchingIsFree`, `NeverForgiven`, `RoundingIsSmall`, `AtLeastSimple`, both circuit properties | 5 256 |
| `client` | 3 markets, one submission of the borrower and one liquidation under way, a price that rises, 2 slots, no interest | `RiskIsCovered`, `ReadSeizureJustified`, `OverlookedByDeposit` | 587 000 |
| `session` | 2 extensions, 2 overlapping disconnects | `SessionInv`, `ProgramFitsWallet`, `PageShowsWallet`, `ConnectSettles` | 57 000 |
| `stats` | 2 wallets, 2 submissions, counters of at most 2, 1 confirmed transaction of each wallet and kind | `StatsInv`, `ProofsAddUp`, `NothingInvented` | 2 970 000 |
| `stale_debts` | that of `liquidation` | `RiskIsCovered` violated, see Findings | |
| `partial_listing` | that of `liquidation` | `SeizureJustified` violated | |
| `same_market` | `ledger`, a market liquidated against itself | `SeizureCredited` violated | |
| `same_mint` | `ledger` | `NoSameMintBorrow` violated | |
| `overlap` | `client` with two borrows of one user under way and prices that rest | `RiskIsCovered` violated | |

Why the bounds are enough.

- *Program.* Two users give a borrower and a lender who is also the liquidator. Two
  markets give the cross-market debts, three give a market that is neither the
  debt's nor the collateral's, so the walk over listed positions matters. In
  `faucet` a second claim of 2 overflows a u64 of 3, so the limit of the mint is
  met. In `ledger` a debt of 1 becomes 2, then 4: the third index makes partial
  repayment of interest, saturation of `total_borrowed` and liquidation of a
  market against itself happen. In `liquidation` the integers are wide
  enough that nothing saturates; an LTV of 15/20 and a bonus of 1/20 are the
  production values of BTC and of the 5% bonus; prices of 1, 20 and 30 make the
  seizure round. The borrower can hold collateral in two markets and a debt in
  the third, so a listing may be short of one collateral, of the other, or of the
  debt. `MaxPriceAge` is 0 or larger than the clock's bound, so both
  stale and fresh prices are met. `ledger` and `liquidation` start from
  `Funded`, the state after every market was opened and every user has claimed,
  with the admin setting the claim amounts in between; `faucet` covers how it is
  reached.
- *Client.* It starts from `Prepared`, which a supply, a withdrawal and the claims reach:
  the borrower has collateral in one market and open, empty positions in two,
  so each of his calls reads two listings, and each may be out of date by a
  supply, a repayment, a withdrawal, a price, a slot or a liquidation that came
  in between.
- *Session.* Two extensions are enough for every operation to meet one of another
  wallet; of two disconnects, one may return when a new session stands.
- *Stats.* Two submissions can both see no account and both create it, and may be of
  the same wallet or not. A counter of 2 fills up when both wallets' mirrors
  sign for one of them, and the sum of its kinds overflows before.
- *Accrual.* Each slot may be touched by nobody, by others or by the debtor, in any
  order; the rates and principals make every restatement round, up to a loss of
  several units, and the largest debts meet the 64-bit limit.

`SYMMETRY` is used in `faucet` and `stats`, where users (and pages) are interchangeable;
`ImplementsBank` is a safety property and treats users alike.

## Findings

1. `liquidate` accepts the same market on both sides. The second copy of the
   account is written back over the first, and the repayment is not credited
   (`lib.rs:545-556`; run `same_market`). The ledger stays solvent all the same:
   `Solvent` and `SupplyLedger` are proved with that case included.
2. `accumulate_remaining` counts stored debts (`lib.rs:811-819`), so a withdrawal
   or a borrow can leave the real debt above the limit its comment states (run
   `stale_debts`). The check is right about the debts as stored
   (`StoredRisksAreCovered`), and the real debt exceeds the limit by no more than
   these have grown since (`GrownRisksAreCovered`). In `liquidate` the same reading
   only makes the check more cautious (`ListedSeizureJustified`).
3. The README of the repository says that same-mint borrowing is disabled
   (`README.md:24-25`). Only the order supply, then borrow is (`lib.rs:271`; run
   `same_mint`).
4. The README says that the program walks every position the user has
   (`README.md:21-23`). It walks those the client listed before the wallet signed,
   and the page lets a second submission start meanwhile (`index.html:3146-3149`):
   two borrows that overlap list the collateral alone, and both execute. No
   price need move for it (run `overlap`).
5. The comment on `liquidate` says that the listed accounts are those of every other
   market "so the program can verify global health" (`lib.rs:388-390`). The program
   sums the positions it is passed (`lib.rs:735-768`): a liquidator who leaves out
   a market where the borrower has collateral seizes from one whose collateral,
   over all markets, covers his debts (run `partial_listing`). The client lists them
   all, and misses one only when the borrower supplies it after the read
   (`OnlyDepositsAreOverlooked`). Price, bonus and cap of the seizure hold whatever is
   listed, and so does `LiquidationHelps`.

Seen while modelling, without a statement in the repository to hold them against:

- A silent reconnect that is refused forgets the remembered wallet, also when the
  user has connected another one since (`sl-client.js:224`).
- `recordAction` signs for the wallet of the moment (`sl-client.js:553`), so a
  transaction may be counted for another wallet.
- When the IDL cannot be fetched, `connect` succeeds with a wallet and no program
  (`sl-client.js:180`), and nothing builds one until the user reconnects.
- A position whose read fails is left out of the listing (`sl-client.js:665`). `Client`
  has this as `ReadsFail`; a borrow against an unlisted debt follows at once.
- The README still lists liquidation and interest as not there (`README.md:37-40`).

## Proofs

All theorems hold for any values of the constants that satisfy the assumptions of
the modules (`ASSUME`, each evaluated by a run too): finite sets of users and
markets, any widths, rates, prices, exponents, amounts, wallets, pages and bounds.
Some have hypotheses of their own, which the table lists.

| Hypothesis | Says | Why it is met |
|---|---|---|
| `ProductsFit`, `DebtFits` | a debt times an index is within u128 | 2^128 holds the greatest u64 at an index of 18; in run `ledger` the greatest product is 5 * 8, of 4095 |
| `GrowthFits` | what `accrue_market` computes is within u128 | an index of 18 at the greatest deployed rate, 200% a year, leaves room for 7 * 10^8 slots, nine years, between two accruals |
| `CrossMarketOnly` | debt and collateral of a liquidation are of two markets | the page offers no other pair; finding 1 shows what happens otherwise |
| `CompleteListing` | a user who withdraws or borrows lists each position he has (of liquidators it says nothing) | what his client does; replaced by the two below in `ClientProofs` |
| `OneSubmissionEach`, `ReadsEveryMarket` | a user has one submission under way; the client's list has all markets, and no read fails | findings 4 and the list after it show what happens otherwise |
| `BonusBelowOne` | LTV times bonus is at most 1 | true up to 9523 bps; deployed are 7500, 8000 and 8500 |
| `ValuesFit` | no debt's value and no sum of them reaches u128 | a u64 times an i64 price does not; TLC confirmed it of run `liquidation` |

TLC was asked about each hypothesis that is not about constants alone before it
was used: the runs that check a property satisfy the hypotheses of its theorem.

### The program and its callers

`ProgramStep` is `Next` without the client: withdrawals, borrows and liquidations list
any set of positions, and amounts are any u64. `Spec => Program`
(`SpecIsProgram`) and `ClientSpec => Program` (`ClientIsProgram`), so what is proved of
`Program` holds for the client that reads and sends in one step, for the one that
does not, and for any other caller who passes no position twice. Only the theorems
about the health check ask what is listed.

### The ledger (`ShadowLendProofs`)

`LedgerInvariant`: `Spec => []LedgerInv`, and from it `TypeCorrect`, `SupplyLedgerHolds`,
`SolventAlways`, `DebtDatedAlways`.

No property of the ledger is inductive alone. That a wallet or a vault stays
within u64 (SPL tokens are unchecked sums here) follows from `TokensConserved`: no
one holds more than was minted, and minting is checked. That the saturating
subtractions of `liquidate` are exact, and so keep `SupplyLedger`, follows from
`SupplyLedger` itself: a seizure is at most a position, a position at most the
sum. `Solvent` needs that exactness: the vault loses what `total_supplied` loses,
while `total_borrowed` falls by no more than the vault gains. `DebtDated` needs
`MarketsFirst`, that positions exist only in markets whose index has started, and
that indices only grow; opening a market, which resets its index and totals,
needs the other half of it, that nobody has a position there yet. `LedgerInv` is
their conjunction, with one lemma per instruction. Sums over users are cardinalities
of sets of units (`Held`), so that the library's facts about finite sets apply;
`HeldUpdate` says how a sum moves when one user's share does.

`OneClaimAlways`: `Spec => []OneClaimEach`. Opening a market sets its counter to 0, so
the property needs that receipts exist in opened markets only (`ClaimsInv`); the
claim itself adds a new receipt because `Unclaimed` forbids an old one, and
the checked counter is exact because types hold (`LedgerInvariant`).

### What users owe (`BankProofs`)

`DebtsMoveByTokens`, `DebtLedgerHolds` and `SpecIsBank`.

All rest on how `Debt`, the debt at the present index, reads after a step. Accruing a
market stores the index that was read anyway (`IndexStays`), so debts nobody touches
keep their reading; a touched position is dated by the present index, and a debt
at its own snapshot is the stored amount. So within a slot a debt moves by what
the instruction adds or cancels, and that is the tokens. The clock only raises
the index, and a larger index restates no smaller debt, while the product fits.
`DebtLedger` needs the same: a restatement never lowers what a position stores, so a
repayment lowers the positions by no more than `total_borrowed`, or that
saturates at nothing.

`SpecIsBank` is the refinement, `ImplementsBank`, with one lemma per move of the bank:
each instruction is a deposit, withdrawal, loan, repayment or seizure at the mapped
state, a tick of the clock is `Interest`, the rest are stutters.

### What users risk (`HealthProofs`)

- `SeizuresArePriced`, `SeizuresAreCredited`: the price of a seizure is two conversions,
  from the debt's tokens to dollars and from dollars to the collateral's, with
  powers of ten that may fall back to 1. `RoundTripLoses` says that tokens bought with
  an amount of dollars are worth no more than it, at every price and exponent and
  where a product saturates.
- `StoredRisksAreCovered`: the check walks positions with a fold of
  saturating additions. The fold is shown to be the sum of its terms, capped at
  u128: one turn of it adds one term (`AccumulatedTurns`), and of the sets where
  the two differ a smallest one cannot exist (`AccumulatedAlone`). Sums are
  cardinalities again, so a listing that leaves out empty positions makes
  the same sum; both sides are capped alike, so a comparison survives the cap. What
  the instruction leaves is what the check was made of: the debt of its own market
  restated and the others as stored, which is `StoredRiskIsCovered`.
- `GrownRisksAreCovered`: from there to what is really owed. A debt restated is at most
  its stored amount times the growth of its index (`DebtShare`), which is at most
  the growth of the index that grew most; the worth of a debt grows by no more
  than the debt does, but for the rounding down of the stored one's worth, a unit
  for each debt that has grown (`WorthShare`, `SatMulShare` where the product with the
  price saturates). `SharesAdd` sums that over the markets, and the cap of the
  sum at u128 only lowers the left side.
- `SeizuresAreJustified`: the check of `liquidate` counts some debts as stored, or not
  at all, which is at most what is owed (`ProductsFit`), and all the collateral there
  is, as the property says. So whoever fails it is really under water.
  It is proved of `Program`, for any liquidator.
- `LiquidationsHelp`: the debt falls by the value repaid (`RepaymentLowersDebt`), the
  weighted collateral by at most LTV times bonus of it (`SeizureLowersCollateral`),
  and roundings favour the borrower; also when the seizure is capped by the position.

### The client (`ClientProofs`)

`ClientKeepsLedger`, `ClientMovesDebtsByTokens`, `ClientKeepsDebtLedger`,
`ClientSeizuresArePriced`, `ClientIsBank`, `ClientLiquidationsHelp`: with reads apart from the
transaction, failed reads, and any number of overlapping submissions, because all
that is left of a submission when it executes is a step of `Program`
(`SubmissionInv`: what is under way can be sent).

`ClientStoredRisksAreCovered` and `ClientGrownRisksAreCovered` are about what a user has
listed of himself. The inductive invariant is `ListingInv`: for each withdrawal or borrow under way, every market
where its user has a debt *now* is its own market, is listed, or is still to be read. A
read keeps it because it lists what is not empty and skips what is; others keep it
because no step of another user opens a debt of his (`OthersOpenNoDebt`); his own steps
would not, which is `OneSubmissionEach`. It says nothing of collateral, which may have
been seized since: what is missing there makes the check only stricter. In run
`overlap` TLC finds `ListingInv` false, as expected.

`ClientSeizuresAreJustified` and `OnlyDepositsAreOverlooked` are about what a liquidator
has read of his borrower. The inductive invariant, `ReadingInv`, says that a liquidation
under way reads and lists positions other than the two it names, each of them
listed, passed by, or still to be read. What is passed by (`Overlooked`) is
either empty, and stays so until its owner supplies, or was not readable; when
nothing is, the listing is that of `SeizuresAreJustified`. That removing a market
from the list of markets removes that one alone, `RemovedOnly`, is where the code skips
its own markets.

### Accrual (`AccrualProofs`)

`AccrualInvariant`, `TouchingAlwaysFree`, `CircuitsAlwaysJudgeAlike`. The invariant compares
without dividing: `borrowed * RateScale <= principal * snapshot`. A restatement keeps
it because the share of a share, rounded down, is at most the share
(`ShareOfShare`); that the product of debt and index saturates only makes it
smaller. `TouchingIsFree` follows by rounding both sides down. The circuits compare
products where the program compares with a truncated quotient; `QuotientIsLargest`
says that for whole numbers it is the same.

`IndexAtLeastSimple`, `CircuitChargesTheSame`: the index holds simple interest up to the last
accrual (`SimpleInv`), and each accrual adds at least the simple interest since,
as the index never falls below its scale. Before the first touch, growth is
linear, and the scale divides out of both formulas.

`NothingForgiven`, `RoundingAlwaysSmall`: a restated debt never falls below the stored
one, hence not below the principal. For the losses, `RoundedInv` compares, again without
dividing, the principal's share with the stored debt plus one unit for each slot in
which it was restated (`Losses`), each grown with the index since.

### The counters (`UserStatsProofs`)

`StatsInvariant`, `ProofsAlwaysAddUp`, `NothingEverInvented`. `NothingInvented` is not inductive:
a record would exceed it unless its own transaction is known to be confirmed.
`NeverAhead` adds the mirrors under way to the counters, so that `Confirm` raises
both sides by one, `Recorded` moves one unit from the mirrors to a counter, and a
failure only drops one. `CallsSigned` is needed so that a withdrawal, which has no
kind to count, never gets as far.

### The wallet session (`WalletSessionProofs`)

`SessionInvariant`, `ProgramAlwaysFits`, `PageAlwaysAgrees`. The two properties are inductive
with the types and the guard of `connect`; the interesting steps are `IdlAnswers`,
where the program is built for the wallet of the moment, and `Disconnected`,
which may end a session begun after it.

### What stays with TLC

- Liveness (`ConnectSettles`): the prover has no rules for `ENABLED`.
- That the hypotheses of a theorem are needed: the runs that expect a violation.
- `RiskIsCovered` in run `client`, where nothing accrues. It is what `GrownRiskIsCovered`
  says when no debt is overdue.
- That the hypotheses which speak of states (`ProductsFit`, `DebtFits`, `GrowthFits`,
  `ValuesFit`) hold in an instance. With clocks that never stop they would not:
  an index that compounds for ever leaves every width.

## Not modelled

- *The rest of the page*: markup, rendering, the activity stream, the timers that
  re-read totals. One of its reads answers late without asking whose it is
  (`index.html:2914`); it writes rows that no other part reads.
- *Price cache and choice of a price account.* The model has one price account per
  feed. A cached account that has grown too old fails in `Fresh`, like any other.
- *Market migration.* A loop of the modelled `initialize_market`. What else it does, the
  list of mints it writes at the end, has no stated behaviour after a failure
  or a second run.
- *Local history*: a log for display. That its failure skips the mirror is in `UserStats`.
- `app/src/arcium.ts` (stubs that return zeros), `scripts/build-idl.js` and the IDL (data),
  tests and deploy scripts.
- `last_health_bps` and the timestamps of `UserStats`: the page passes a health it never
  sets, so the field stays 0, and nothing reads it.

SPL token, Pyth receiver, Anchor and wallet extensions are external: modelled as
the code uses them.

## Plan

Done: the program, the client, the wallet session, the counters, accrual and circuits
as models; all safety properties of the passing runs as theorems. What is left,
in order of importance:

1. Listings as sequences in which a position may come twice, if the program comes to
   refuse such listings or the repository to say what they mean.
2. The price cache with several accounts per feed, and a page that shows what
   late reads answer, if the code comes to promise something about either.
