# Cynergy Trade: TLA+ models, checks and proofs

This directory models the state that must not go wrong in the trader: the paper
ledger and the decision cycle that writes it, the emergency switches, the LIVE
order path, the scanner's token lifecycle, and what leads into a position and out of
it: signals and sizes, the caps of the three ways in, the AI with its proposals and
its budget, the idempotency guards, followed wallets, exit observations and the
evidence kept of past signals. The modules are translated from the TypeScript sources,
action by handler. TLC checks them on small instances; TLAPS proves the most important
of the properties for every value of the constants.

Paths below are relative to the repository; `index.ts` is `apps/trader/src/index.ts`.

## 1. The system

One Node.js process (`apps/trader`) per deployment, one `ChainRuntime` per chain. A
timer starts `decisionCycleAll`; a boolean makes overlapping ticks return at once.
A cycle flushes fills the journal has not taken yet, monitors every open position
(observe, mark, persist, exit), then evaluates entries, applies at most one AI
proposal and polls copied wallets. HTTP requests, provider callbacks and AI
requests run between the awaits of the cycle. State lives in three places: process
memory, the database (PostgreSQL or SQLite) and, in LIVE mode, the chain.

| Component | State it keeps | Operations | What makes it correct |
|---|---|---|---|
| Decision cycle (`index.ts`) | `pendingFills`, `exitIssues`, `accountingIssues`, `shuttingDown` | flush, monitor, exit, enter, AI actions, copy, shutdown, restore | a confirmed fill becomes durable once; entries stop while it is not; exits never stop |
| Paper book (`paper-book.ts`) | fills by order id | record, reconcile, snapshot | the book's quantities are the positions' |
| Position manager (`position-manager.ts`) | positions, applied orders and intents, in-flight set | open, reduce, exit, tighten, restore | no sale twice, no more than held, stops only tighten, unknown fills stay exposure |
| Journal (`journal.ts`) | positions, orders, intents tables; a promise per position | `updatePosition`, `recordConfirmedPaperFill`, recovery reads | rows equal orders; late or repeated writes do no harm |
| Emergency control (`emergency-controller.ts`, `pg-emergency-persistence.ts`, `http-server.ts`) | flags in memory, `system_state` rows | kill, resume, stop-entries, automatic stop | a confirmed kill stays; stop-entries leaves exits alone |
| Execution routers (`execution-router.ts`) | claimed intents | PAPER, SHADOW, LIVE execute | an order of unknown outcome is never repeated |
| Idempotency guards (`idempotency.ts`) | claimed ids in Redis, PostgreSQL, memory | claim, fall back | one grant per intent, and one more at most for each outage of a store |
| Risk engine (`risk-engine.ts`, `strategy-performance.ts`) | none | evaluate | gates before sizing; never above the caps; a worse situation does not make a larger order |
| Strategies and regime (`strategy`, `scorer.ts`, `feature-engine.ts`, `regime-detector.ts`) | price samples of the regime | evaluate, score, detect | missing data does not pay |
| Ways into a position (`index.ts`: ensemble, copies, AI) | positions, cooldowns, the blacklist | entry, copied entry, ENTER | their caps hold together |
| Scanner (`scanner.ts`) | candidates, a state machine per token, re-entry queue | discover, screen, refresh, revive, archive, mark entered or exited | a rejected or exited token returns only as intended |
| AI proposal runner, agents, budget (`ai-*.ts`, `jev-agent.ts`) | one flight, one ready proposal; conversations; cached verdicts; spend of the UTC day | start, ask, retry, take, apply, dispose; begin, acknowledge, restore | no stale or overlapping proposal; no call is forgotten |
| Copy-trade tracker (`copytrade-tracker.ts`) | cursors, seen keys | poll, hand on | a swap is copied at most once, history never |
| Exit observations (`exit-observations.ts`, `trade-guards.ts`) | cached pool depth and security, requests that are out | observe, refresh, dispose | an exit rests on current data, and does not wait for ever |
| Cohort gate, blacklist, shadow tracker | `shadow_decisions`, a cached verdict per strategy, the list | record, evaluate, refresh, add | every signal is evaluated in the end |
| Providers, reports, dashboard, alerts, backtest | - | network clients, observers | out of scope, see section 7 |

The hard behaviours: the database call between "the fill is confirmed" and "the
fill is durable" may fail, be applied and lose its reply, or be applied late; the
process may die at any await and restart from rows and orders written by different
statements; HTTP requests save the emergency flags while the cycle saves them; a
LIVE transaction may land after the router gave up on it; a provider, a model or an
indexer may answer late, out of order, with what it knew before, or never, while the
deadline, the day and the process pass on. `PROJECT.json` lists each
hazard at its line with the properties that cover it.

## 2. Modules

| Module | What it is |
|---|---|
| `Positions` | the pure part: sale quantities, accounting validation, tightening, restore, the WHERE clause of `updatePositionRow`, the checks of `recordConfirmedPaperFill` |
| `PaperLedger` | one chain in PAPER mode: cycle, fill queue, book, journal, shutdown, crash, restart |
| `WriteBehind` | what the paper book promises of its positions (abstract) |
| `PaperLedgerProofs`, `PaperLedgerSafety`, `PaperQueueProofs` | theorems about `PaperLedger`: its types, its tables, its queue; that it implements `WriteBehind` |
| `EmergencyControl` | kill and stop flags, their persistence, the HTTP requests, the gates of the cycle |
| `EmergencyProofs` | theorems about `EmergencyControl` |
| `LiveTrading` | LIVE entries and exits: router, chain, position status, row writes, crash, restart |
| `LiveTradingProofs` | theorems about `LiveTrading` |
| `Scanner` | the token lifecycle: discovery, screening, refresh, re-entry and revival, with the entries and exits of the cycle |
| `RiskEngine` | the gates and the size of an entry, the performance multiplier, the PAPER fill, as operators on a request |
| `Signals` | features, scores, the four strategies and the regime, as operators on a candidate |
| `Sizing` | a situation that gets worse, and the order each strategy would make in it |
| `Entries` | the three ways into a position and the account they share |
| `AiDesk` | proposals, conversations, the budget and its journal |
| `AiDeskProofs` | theorems about `AiDesk` |
| `ClaimGuards` | the chain of idempotency guards, and the outages of its stores |
| `CopyTracker` | followed wallets over an indexer that is late |
| `ExitQuotes` | `ExitObservations` of one position |
| `Evidence` | recorded signals, their evaluation, the cohort gate, the blacklist |
| `Desk` | `Sizing`, `Entries`, `AiDesk`, `ClaimGuards`, `CopyTracker` side by side |
| `DeskProofs` | theorems about `Desk` and its parts `ClaimGuards`, `Entries`, `Sizing`, `CopyTracker` |
| `Watch` | `Scanner`, `ExitQuotes`, `Evidence`, `PaperLedger` side by side, with their fairness |
| `WatchProofs` | theorems about `Watch` and its parts `Scanner`, `ExitQuotes` |
| `MCPaperLedger`, `MCEmergency`, `MCLiveTrading`, `MCScanner`, `MCDesk`, `MCWatch` | model values for TLC |

`Sizing` extends `Signals`, which extends `RiskEngine`; `Entries` extends `Sizing` for
the same `RiskSize`. `Watch` takes `PaperLedger` by INSTANCE, since some names of its
variables are taken. `Desk` and `Watch` compose parts that share no state in the code
but what each module has of the others as its environment (one decision cycle runs at a
time, and what one part reads of another it reads again at its own step). A behaviour
therefore is one of one part, chosen at the start: the product would only interleave
independent steps, and the state space is the sum of the parts.

### PaperLedger

`mem` is `PositionManager.positions`; `book`/`bookQty` the fills of `PaperBook`;
`pending` is `rt.pendingFills`, each with the clone of the position it was queued
with; `issue` the tokens with a `:journal` entry in `rt.exitIssues`; `bookOk` says
that the restore succeeded (`rt.paperBook` set, no accounting issue). `row`,
`orders` and `orderQty` are the tables. `late` holds UPDATEs whose client lost the
connection while the server still had the statement.

`phase` is the program counter of the cycle, with an action between any two awaits
whose order matters: `flush` (one queued fill per step), `load`, `monitor`,
`persist`, `exit`, `entry`, `ai`, `copy`. `resume` is where `flushPendingFills`
returns to. `Shutdown`, `Crash` and `Land` interleave with every step. A sale is
`ExecuteSale`: the in-memory commit of `sellPosition`, the book's record and the
queueing of the fill, which the code does without an await between them; its flush
follows as steps of its own. A crash between the router's answer and the queue is
the same state as a crash with the fill still queued: nothing was durable.

Abstracted: dollar amounts; prices, marks and the peak (`Observe` changes nothing the
properties tell apart, and does not advance `updatedAt`); which exit signal fires
(any may); intent and audit rows (a failing `recordTradeIntent` of a queued fill is
`FlushFails`, of a sale the second half of `ExecuteSale`, of an entry no step);
which market and strategy propose an entry. A cycle skipped by the kill switch is a
stutter here. `updatedAt` advances by one at each change: two changes separated by
an await are assumed to have different millisecond stamps and the clock not to run
backwards. A restart waits until the late statements have been applied.

`WriteBehind` is the ledger seen from outside: a position is none, open or closed and holds
units; a fill counts at once (`Enter`, `Sell`) and becomes durable later, the oldest first
(`Settle`); a process that dies loses what was not durable (`Lose`). `PaperLedger` implements
it with `counted` mapped to the position in memory, or to its row where the process has
none, `kept` to the rows, and `waiting` to the queue without the fill at its head whose
commit was applied and not answered (`NotDurable`). Failed and lost writes, retries,
UPDATEs that land late, refused and repeated ones, marks, tightened stops, restarts and
the book are all stutters of it.

### EmergencyControl

`flags` is the controller's state, `table` the two rows of `system_state` the
requests change, `saving[c]` the `persist()` caller `c` awaits: its snapshot of the
flags and the next key to write. Callers are HTTP requests and the cycle itself (the
automatic stop). `Fifo` chooses the database: SQLite runs the statements of the
process in the order of issue (`SqliteDatabase.enqueue`), the PostgreSQL pool
promises none. `ahead[c]` are the callers whose saves began before that of `c` and are
still under way: under `Fifo` their statements come first (`InOrder`). The cycle is reduced to its gates: the kill switch at its head, the
stop flag between monitoring and entries, the risk engine's flags and the last check
of `executeEntry`, and the order after it. `command`, `told`, `late` and `latest` are
observers. `disabledStrategies`, `readOnlyMode` and the other keys have no setter
that is called; `closeAllPositions` is only ever cleared and never read, but the third
`persist()` of a resume, which clears it, is there (`resume3`).

### LiveTrading

`txs` holds every submitted transaction with its fate on the chain and whether the
program was told; `held` the wallet's tokens. A BUY delivers what was quoted or
less; a SELL lands only if the wallet holds the quantity. `mem`, `row` and `late`
are as above with the status `CLOSING`. The sale is quoted in dollars times 1e6, not
in tokens, so any quantity may come back (`SubmitSale`), and `QuantityMatches` is the
comparison that follows. Every failure inside `sellPosition`'s try sets `CLOSING`,
also one before submission (`SaleRefused`): nothing in the code moves such a position
on again, which is stricter than `docs/trading-techniques.md:175`. A slot of `Pos` is
one strategy's holding of one token.

### Scanner

`cand[t]` is the candidate and the state machine of a token (`UNKNOWN` before it has
one): its status, whether its history holds an ENTERED, its rejection reasons and
`rejectedAt`. `screening[t]` counts `runInitialScreening` calls that await their data,
`refresh[r]` a `refreshCandidates` with the candidates it has still to fetch: the
timer starts one whether or not another is under way. `queue` is `reentryQueue`.
`held`, `phase`, `todo` and `now` are what the cycle contributes: positions per
strategy, the trade candidates it took, the one it evaluates and its ENTER decisions.
Each awaiting call finishes on whatever state it then finds, and `Moved` skips a step
the transition table does not allow, as `Scanner.transition` does. `BeginEntry` is the
last look at the candidate before the data fetch of `executeEntry`; `EntryFilled` is
the fill with `markEntered`, whatever happened to the token between the two.

Abstracted: snapshots, features and scores (a fetch is followed by any verdict of the
filters and either side of the promotion bar), the order of the Maps, ages and
cooldowns (any candidate may be stale, any queued token due, and `Cooled` lets the
revive cooldown pass), the risk engine (`EntryRefused`), the mode (PAPER), and the
autonomy level (not `auto`). The AI veto, the cohort gate and the blacklist only skip a
candidate. A catastrophic stop parks a token like an exit for its security. There is
no restart action: a process starts in `Init` with any positions of an earlier one and
a scanner that knows no token, since the scanner persists nothing of its states.

### RiskEngine, Signals, Sizing

Floating-point numbers are integers: dollars, percent, tenths of a percent, parts per
million, rounded down where the code keeps a fraction. `Rejections(r)` is the set of
gates a request fails, one field of `Gates` per gate of `evaluate`; `Charged` is the
exposure it is held against, with the size asked for. `RiskFraction` folds the seven
multipliers. `SecurityDataMissing` is the case of a token no provider has indexed.
`Signals` has an operator per feature, score, strategy condition and confidence; a
dimension whose observation is missing drops out of the score and the weights of the
rest are scaled up, as in `scoreCandidate`. `SeriesRegime` and the operators around it
are `RegimeDetector` over a series of price samples. `Sizing` starts from a candidate
and lets one thing get worse at a time: the security verdict, the pool, the market, the
drawdown, the free capital.

### Entries

`held` are the positions that are not CLOSED, `cash` and `peak` the account, `barred`
the cooldown and the blacklist. `EnsembleEntry`, `CopiedEntry` and `AiEntry` are the
three callers of `executeEntry`, each with its own checks and no other: a copied entry
asks neither the cooldown nor the blacklist, an ENTER with a copy profile skips the cap
of the AI. An entry is one step, since the cycle awaits it before it goes on and nothing
else opens positions; what may happen to a token or to the kill switch during those
awaits is in `Scanner`, `EmergencyControl` and `AiDesk`. `Exit`, `HalfExit` and
`PriceMoves` change what the next entry is charged to.

### AiDesk

`flight` and `ready` are the runner's; `applying` is the proposal the decision cycle
works through, with the step its first action is at (`next`, `observe`, `review`,
`commit`, `journaled`), each an await of `runAiAction` or `executeEntry` after which the
code looks at the clock and the switches again, or does not. `chats` holds a conversation
for the classifier, the trader and the veto: rounds, one retry, one deadline that ends
the conversation and not the HTTP request (`LateAnswer`). `usage`, `today`, `writes` are
`AiBudget`, `saved` its rows in the journal; `coverage` and `boot` are `budgetCoverage`,
`budgetBootDay` and the two issues that pause proposals. A restart may cross midnight
between reading the day and restoring it. `made` counts the attempts that were really
made, `slips` the writes a crash or the journal lost. In veto mode the runner is idle
and the reviews are those of the ensemble's entries (`ReviewOfEnsemble`).

Abstracted: what is said (a reply is one of `RawReplies`, well-formed or not), prices of
tokens (an answer costs one unit), backoff, one token.

### ClaimGuards

`ClaimGuards` is `FallbackIdempotencyGuard` over Redis, `executed_intents` and memory, with
the chain `index.ts` builds at boot. A claim may fail before or after the store recorded
it, Redis forgets (`PX`), the memory forgets all when full, the process restarts with
another chain. `grants` counts how often each intent was granted.

"At most once" does not hold when stores fail, so the property counts: `GrantsPaid` says
that an intent is granted at most once more than outages befell it. The outages are history
of what happens *around* the guards, and no answer of a guard changes it: a claim of the
intent that a store does not answer (`ClaimFails`), the intent's expiry in Redis
(`Expire`), the end of a process that had nothing but its memory (`GuardsCrash`), a start
on another store than the one before (`BootGuards`). A guard that answers wrongly, forgets
early or asks in another order adds grants and no outage. The one condition is
`overrun`: a process whose memory stands alone was asked for more intents than it holds;
it is computed from what was asked, not from what the memory did. Behind a durable guard
the memory may forget freely, and the property holds all the same. Every intent may be
claimed again, which the routers do not do today.

### CopyTracker, ExitQuotes, Evidence

`CopyTracker`: `shown` are the swaps the indexer shows as done; events may be done in any
order, and the swaps of one event, which share its logical time, are done together.
`PageOf` is what it answers with, the newest `PageSize` events of a wallet as far as they
are done, newest first and the swaps of one event in any order (`WalletSwaps`). `Polled` is
a wallet's turn of `poll` (the first answer is a baseline only), `CopyCycle` hands fresh
BUYs on and drops them while entries are stopped; `CopyRestart` forgets everything.
`ExitQuotes`: `waiting` are the observers and their deadlines, `out` the requests that
are out and joined, `depth` the cached pool (the cached security report goes the same
way and is not a variable of its own); a snapshot may be dated before or after the
request, belong to another token, or come after disposal. `Evidence`: `rows` are
`shadow_decisions`, `evaluating` the batch read once and priced row by row, `gate` the
cached verdict and its refresh, `listed`, `listWrites` and `listSaved` the blacklist in
memory, its writes that are not awaited, and its row.

## 3. Runs

| Run | Instance | What it shows |
|---|---|---|
| `ledger` | 2 positions of one token, entry of 3 units, 4 orders, 2 failing calls, 1 crash or shutdown, 1 late statement | the safety properties and the two action properties of `PaperLedger`, and that it implements `WriteBehind` |
| `emergency` | 2 positions, 2 callers, 2 requests, SQLite, 1 failing statement, 1 crash | the kill switch survives, settles, lets one order through; exits go on under stop-entries |
| `emergency_pool` | the same on the PostgreSQL pool | violation: the kill switch is lost |
| `emergency_kill` | the same | violation: exits stop under the kill switch |
| `live` | 1 slot of 2 units, 4 transactions, 2 failing calls, 1 crash, 1 late statement | unresolved sales are never executable in the process that made them or through a CLOSING row; quantities add up; CLOSED means sold |
| `live_buy` | 1 slot, no fault, no crash | violation: a BUY of unknown outcome is repeated |
| `live_sale` | 1 slot, no fault, 1 crash | violation: a sale of unknown outcome is repeated after a restart |
| `scanner` | 2 tokens, 1 strategy, 1 watchlist place, 2 refreshes, 2 screenings of a token, 1 restored position, 1 entry, 1 copy slot | the safety properties of the scanner under every interleaving of screenings, refreshes and the cycle |
| `watch` | `Watch`: 1 token, 2 entries; 2 observers, a clock of 2; 2 signals, batches of 1, 1 crash; 1 position, 3 orders, 2 failing calls, 1 late statement, 1 crash or shutdown; with fairness | a token rejected for another reason than its security is looked at again; an exit is decided on current data and its observer does not hang; a recorded signal is evaluated in the end; a queued fill is written in the end, unless the process dies with it |
| `scanner_reentry` | 1 token, 2 entries | violation: a token is bought again after an exit for its security |
| `desk` | `Desk`: five candidates, eight verdicts, pools and price series; 2 tokens, 2 entries; 2 HTTP attempts over two days, 1 fault, 2 boots; 2 intents, 2 callers, 2 failures; 2 wallets, 5 swaps of which two share an event, 1 restart | order sizes, caps and slots, proposals, the budget, grants and outages, copied swaps |
| `desk_nodata` | `Desk` with one candidate, a warning of score 30 whose data goes missing | violation: a token without security data is bought, here for more than before |

Why the bounds are enough to be interesting. Three units make a half that rounds
down and leaves an odd remainder; four orders are an entry and a partial and full
exit of one position and an entry of the other; two positions of one token share
the `:journal` flag; two faults allow a failed write followed by a failed or lost
retry; one late statement can be overtaken by every other write. Two HTTP requests
and the automatic stop give two saves under way at once. Four transactions are a
BUY, a partial sale, a sale after it and a repetition after a crash. Two tokens and one
watchlist place make screenings and the re-entry queue compete for it, and one entry
beside a restored position makes a second one of the same strategy possible. Every action
of every module fires in a passing run. Two opened positions are the smallest number that
can exceed a cap of one (`MaxCopies`, `MaxSlots`, `MaxAiOpen`) or the dollar caps, which
one full position stays under and two do not; the prices 1 and 2 make an account rise and
fall. A clock of 2 with days of 2 gives the desk a midnight, and cycles and timeouts of 1
let a flight, its deadline and its expiry fall on each side of it; two attempts are a call
and its retry, or a call and the next round; two queued writes (`MaxQueue`) let a crash
lose more than the last; a fault is a crash, a shutdown or a failed journal call, and with
two boots one of them happens with a record to restore. Five swaps on pages of two events
and a ring of one make pages lose events and the ring lose keys, one of them between two
swaps of the same event. Two callers and two failures
let a claim fall through both stores, and one of three grants (`MaxGrants`) is then one too
many; two intents are one more than the memory holds. The eight verdicts are answers of
the providers: a clean token on Solana and TON, one with a low score, warnings of
score 65 and 0, nothing known, a provider that failed, a rejection. Two opened positions
never exceed two concurrent ones, so in `desk` that conjunct of `SlotsHold` is idle (with
three the run does not end in five minutes); it rests on the proof. Batches of one and two signals are the smallest
instance in which an older signal can starve a younger one.

`CHECK_DEADLOCK FALSE` is set where the bounds, not the code, end the behaviour: an
idle process with no request left, or with every transaction used, just waits.
`Interchangeable` permutes tokens and refreshes in `scanner`, which has no liveness
property.

The properties, by the question they answer:

- Do the tables agree with the fills? `DurableReconciled`, `ClosedFinal`, `RowFinal`.
- Does memory agree with the tables and the book? `BookReconciled`, `SettledAgree`,
  `ExitsDurable`, `LedgerComplete`.
- Is the ledger, seen from outside, a write-behind that loses only what was not durable?
  `WriteBehindImplemented`, a refinement.
- Can the queue always go on? `HeadAcceptable`, `OnlyHeadBuys`, `FillsDrain`.
- Can a restart manage what it finds? `RowRestorable`, `ExposureManaged`.
- Are exits only ever tightened, durably? `DurableRatchet`.
- Does a confirmed kill stay, and what does it stop? `KillSurvives`,
  `SettledPersisted`, `OneLateEntry`, `StopKeepsExits`, `KillKeepsExits`.
- Is an unknown outcome exposure, never a second order? `UnresolvedNotExecutable`,
  `TokensAccounted`, `ClosedSold`, `UnknownNeverRebought`, `UnknownNeverResold`.
- Does a token return only as intended, and always when it should? `SecurityFinal`,
  `ClosedQueued`, `RejectedRevived`, `NeverReentered`.
- Do concurrent refreshes respect the limits? `WatchlistBounded`, `OneSlotPerStrategy`.
- Does a worse situation ever make a larger order, and missing data none at all?
  `SizeNeverGrows`, `NoDataNoTrade`.
- Do the caps hold across the ways in? `CapsHold` (dollars), `SlotsHold` (counts).
- Does the AI act on what is stale, or after it was told to stop? `NoStaleProposal`.
- Is every HTTP attempt in the record of its day? `CallsAccounted`.
- Is an intent granted once, and again only for an outage? `GrantsPaid`.
- Is a swap copied twice, or history as news? `EmittedOnce`.
- What does an exit rest on, and does it wait for ever? `FreshDecision`, `ObserveEnds`.
- Is every signal evaluated? `OutcomesEvaluated`.

Each has a mutant of the code, defined next to what it changes ("Mutant of ..."),
under which TLC finds the property violated.

## 4. Fairness

`CycleStep` is weakly fair: `setInterval` starts a cycle again and again and a cycle
runs to its end, whatever its database calls answer. `Land` is fair: a server
finishes or drops a statement it holds. `Restart` is fair: `scripts/trader-daemon.mjs`
and `restart: unless-stopped` start a dead process again. A database call fails at
most `MaxFaults` times, so from some point on the database answers; `FillsDrain`
holds under that assumption and not without it, and it assumes that the kill switch
is off in the end, since a halted cycle does not flush. In `EmergencyControl` each
step of the cycle is fair by itself except `BeginEntry`: nothing obliges a strategy
to enter. `CycleDone` ends the entry phase. In `Scanner` refreshes are started and go on
(`setInterval`), a provider call is answered or times out (`ScreeningDone`) and the
revive cooldown passes (`Cooled`); nothing is assumed of the cycle, of discovery or of
the verdicts. In `Watch`, beside that and the three of the ledger: time passes and a deadline's timer fires
(`QuoteTick`, `DeadlinePasses`), while no provider of a price is assumed ever to answer;
decision cycles go on and read due signals (`EvaluateDue`), a price request is answered
one way or the other, a crashed process is started, and a token that is not dead is
priced in the end if asked for again and again (strong fairness of `PricesNext`, since
failed attempts come in between). `Desk` has no liveness property and no fairness.
No fairness is assumed of HTTP requests, of the market, of crashes or of the chain.

## 5. Where documents and code disagree

1. `emergency_pool`: the emergency keys are saved one by one, without a transaction
   and without serialising saves. On the PostgreSQL pool an older save overwrites
   `kill_switch` of a newer one and the next restart runs without the switch
   (`docs/deployment.md:18`, `docs/architecture.md:101`). SQLite is not affected:
   run `emergency`.
2. `emergency_kill`: the kill switch stops exits too
   (`docs/architecture.md:73`, `docs/trading-techniques.md:167`, against `README.md:83`).
3. `live_buy`: a BUY of unknown outcome leaves nothing behind that prevents the next
   cycle from buying again (`docs/architecture.md:103`, `README.md:111`).
4. `live_sale`: `CLOSING` is written after the monitor has answered, so a crash in
   that minute leaves the row executable (the comment at `index.ts:1241`).
5. `scanner_reentry`: exits for security "park the token at REJECTED (never
   re-entered)" (`scanner.ts:358`). If a refresh rejects the token while its entry is
   awaiting, `markEntered` is skipped, the later exit finds a token that is REJECTED
   without an ENTERED in its history, and it is revived, watchlisted and bought again.
   What does hold, and is proved, is `SecurityFinal`: a token that carries the mark,
   or the reason, stays rejected.
6. `desk_nodata`: "missing data → no trade" (`README.md:110`, `docs/architecture.md:105`,
   `docs/trading-techniques.md:22` and `:116`). On Solana and TON a token whose security
   nobody could tell is bought at half the size, as the comment at `risk-engine.ts:118`
   and the tests want it. The order is not even always smaller than before: a warning
   costs 40 % and its low score the confidence of the strategy, missing data costs 50 %
   and its dimension drops out of the score. In the run an order of 100 dollars becomes
   one of 101. `SizeNeverGrows` therefore excepts this step, and bounds it.

Seen while modelling and not checked by a run:

- The automatic stop at the daily loss limit is never cleared when the day rolls over,
  though `docs/trading-techniques.md:166` says it "restarts fresh next UTC day".
- A token that passes its filters while the watchlist is full stays ELIGIBLE: nothing
  lists it later (short of an exit's queue entry) and nothing archives it, since
  ELIGIBLE has no step to ARCHIVED.
- `drainReentryQueue` says its step "no-ops unless CLOSED"; it also moves an ELIGIBLE
  token or a TRADE_CANDIDATE to WATCHLIST.
- A second strategy's entry in the same cycle is refused, because the token is ENTERED
  by then and `entryRejections` wants a TRADE_CANDIDATE.
- A position restored after a restart leaves no mark in the scanner when it is exited
  for its security: the token is then unknown to it, or at a state the exit cannot
  record as entered.
- A security rejection can be replaced by the verdict of another screening of the same
  token still under way (hence the condition on `screening` in `Condemned`).

- `idempotency.ts:2` and `docs/architecture.md:102` promise an intent "at most once,
  EVER", and `idempotency.ts:71-72` call `executed_intents` the "forever-record" behind a
  guard that forgets. With Redis healthy the database is never asked, so what Redis
  forgets is granted again; so is what was granted by a fallback once the first store is
  back, and what a memory without a store held when the process ended or when it was full
  (`idempotency.ts:26`). `GrantsPaid` says how often, and that there is no other way.
- A restore of the budget that fails, or a boot that crosses midnight, sets
  `budgetRestoreIssue` for the life of the process (`index.ts:586-597`): AI proposals stay
  paused. In veto mode calls go on, count from zero and overwrite the record of the day;
  the record then says it is partial, which is why `CallsAccounted` asks for `Covered`.
- The retry of a failed request does not ask the cost cap again (`ai-agent.ts:262`).
- A swap whose event is still in progress when a newer one of the wallet is taken lies
  behind the cursor when it is done, and is never copied (`copytrade-tracker.ts:71`).
- A profit factor without a loss counts as 1, so the first small loss of a winning
  strategy can raise its multiplier (`strategy-performance.ts:63`). `SizeNeverGrows` is
  about what is observed, not about results, and leaves the record fixed.
- Without holder data the dimension drops out of the scores and no multiplier of the risk
  engine answers for it; an UNKNOWN verdict with confidence .5 or more is sized in full
  where a WARNING costs 40 %.
- Stop and targets are set from the price of the decision, the entry is filled at a fresh
  one (`index.ts:1361`, `index.ts:1453`).
- The copy cap counts open positions, the slots count those with exposure
  (`index.ts:1956`); in PAPER mode the two agree, and `Entries` has one of them.
- The veto's verdict on a token is reused for ten minutes, whatever the new thesis says
  (`ai-agent.ts:393`).

## 6. Proofs

The theorems hold for every value of the constants: any number of positions, tokens,
orders, transactions, faults, crashes and outstanding statements. What they assume of the
constants are the named assumptions of the modules, which TLC evaluates in every run.

**PaperLedger.** `PaperLedgerProofs` proves `TypeCorrect`: `Spec => []TypeOK`, one lemma
per action. `PaperLedgerSafety` proves `LedgerCorrect`: `Spec => []LedgerInv`, and from it
`DurableReconciledAlways` and `RowRestorableAlways`. The assumptions are `SizeAssumption`
(an entry buys more than one unit), `StopAssumption`, `NoPosAssumption`,
`TokenAssumption` and `BoundsAssumption`.

`DurableReconciled` is not inductive: whether an UPDATE keeps the quantity of a row
depends on what it carries. `LedgerInv` therefore speaks of `Snapshots(p)`,
everything that is or may still be written to the row of `p`: the position in memory,
the row, the snapshots of queued fills and the late UPDATEs. Two of them that name
the same exit order hold the same quantity (`SnapshotsAgree`); since `RowAccepts`
compares exit orders, a write that is accepted cannot change the quantity, however
late it comes. The other conjuncts say that snapshots are well formed (an open one
has the whole size; a partial one has spent TP1, has an exit order and some tokens
left; a closed one has none), that the queue is not ahead of memory, that only existing
positions are monitored or written, and that a dead process holds nothing. A step of the
program either leaves the snapshots as they are up to exits and time (`Like`), or adds
one under a fresh order id; the lemmas of `PaperLedgerSafety` follow that distinction,
and each action is one of the two.

`PaperQueueProofs` proves `QueueCorrect`: `Spec => [](LedgerInv /\ QueueInv)`, and from it
every other safety property of the run `ledger`: `BookReconciled`, `LedgerComplete`,
`HeadAcceptable`, `OnlyHeadBuys`, `SettledAgree`, `ExitsDurable`, `ExposureManaged` and
the action properties `DurableRatchet` and `ClosedFinal`. That the head of the queue can
be written says nothing of the fill behind it, so `QueueInv` speaks of the whole queue:
the fills queued for one position are a chain (`Chained`). The first fits the row, or is
the one that was committed without an answer, and then the row already holds what its
snapshot does; each fits the snapshot of the fill before it; the last carries the
position as it is in memory; and no late statement names the exit order of a queued
fill. `OrdersFresh` says that ids are used once and that only the head can be durable
already, `BookInv` that the book is the orders table and the queue together. Outside the
queue there are the versions of a row (`RowInv`): with nothing queued the row differs
from memory by its exits at most (`Settled`); no version is later than the one in memory
(`MemoryLatest`), and of two under one exit order the later has the tighter stop
(`Ratcheted`), which is why a statement that lands late, in whatever order, cannot loosen
a stop; what the table has open is in memory (`Managed`).

From the two invariants it proves `LedgerIsWriteBehind`: `Spec => WriteBehindImplemented`.
Each action is shown to be a step of `WriteBehind` or a stutter of the three mapped values.
A commit of the head of the queue is a `Settle` whether its reply came or not, because only
the head can be durable already (`OrdersFresh`) and the position it is for is in memory
(`Chained`); that the fill is later found durable is a stutter. An entry finds nothing
waiting since its own gate looks at the queue. An UPDATE, also one that lands late, changes
no holding: what passes the guards of a row is a version under the row's own exit order, and
such versions hold the same (`SnapshotsAgree`). A crash is `Lose` because a dead process
counts what its rows hold, and a restart counts the same, since every row can be restored.

**EmergencyControl.** `EmergencyProofs` proves `TypeCorrect` for either database, and
`EmergencyCorrect` with `KillSurvivesAlways`, `SettledPersistedAlways` and
`OneLateEntryAlways` under `Fifo`, that is for SQLite; the run `emergency_pool` shows the
first of them fail on a pool. A kill that stands is set in memory; once its first key is
written, or it was confirmed, the table has it and no save under way would still clear
it; until then only a save that began before it could, and that one writes first
(`KillInv`). The save begun last carries the flags of memory and the keys it has written
are right (`SettledInv`).

**LiveTrading.** `LiveTradingProofs` proves `LiveCorrect`: `Spec => []LiveInv`, and from it
`TypeOK`, `UnresolvedNotExecutable`, `TokensAccounted`, `ClosedSold` and the action
property `RowFinal`. `TxInv` and `ControlInv` say what is true of the transactions by
themselves and what the cycle awaits in each phase. `PositionInv` orders the versions of a
position (`VersionsOrdered`: one that is CLOSING is later than all that are not, so no
late statement makes a row executable again), says that with one BUY the wallet never
holds more than any version of the position says (`VersionsBacked`, `HoldingsBacked`),
that a sale of this run of the program that is open to doubt is the one being awaited, or
its position is no longer executable (`SalesResolved`), and that what the position says it
holds is what its answered transactions leave (`Accounted`).

**Scanner and ExitQuotes.** `WatchProofs` proves five theorems about `Scanner`, from
`CopyAssumption`, `TokAssumption` (tokens are finitely many) and `ScannerBounds`:
`ScannerTypeCorrect`, `ClosedAlwaysQueued`, `OneSlotAlways`, `WatchlistAlwaysBounded` and
`SecurityAlwaysFinal`. The invariant `ScannerInv` adds two facts to the properties: the
decisions left on a candidate are of strategies that do not hold the token
(`DecisionsFresh`, without which the entry that finishes after its await could be the
second), and a token without a candidate is not being screened. `Follows(c, d)` says
what any number of steps other than a revival may do to a candidate; it is transitive,
so screening, refresh, archiving, draining and exits are each shown to follow it once.
The watchlist grows in two places only, after a look at its size with no await between
(`GrowthByOne`, `Drains`); every other step is `NoGrowth`. Of `ExitQuotes` it proves
`QuotesSpec => []FreshDecision`.

**ClaimGuards.** `DeskProofs` proves `GuardsSpec => []GrantsPaid` (`GrantsAlwaysPaid`) from
`ClaimGuardsAssumption`: the bounds are naturals, callers finitely many. The count of the
grants alone is not inductive, since a claim that a store did not answer is an outage
before it is a grant, and a grant to come need not have had its outage yet. `Paid` counts
both: the grants of an intent, the claims of it that have been passed on to a fallback and
are not answered (`PassedOn`), and one more if the first guard does not hold the intent
(`Due`) are together at most one more than its outages. `MemoryFits` is what makes a memory
that stands alone a first guard that does not forget unless it was overrun: what it holds
was asked for in this process. `AsksChain` keeps a claim inside the chain, so the memory,
which never fails, is always there to end it.

**AiDesk.** `AiDeskProofs` proves `AiSpec => []NoStaleProposal`. `ProposalsInv` adds that the
snapshot of whatever is researched, ready or being applied is not of the future and that
its deadline is a number; the steps are grouped into research, application, conversations,
the process and the rest, and each group shown to keep what the next one relies on. The
look at the clock after each await is what the proof uses: drop any one of those before
the order and `ActsInTime` has no premise.

It also proves `AiSpec => []CallsAccounted`, from `AiDeskAssumption` (periods are positive,
the rest naturals). What memory says of a day is not what its record says: an attempt is
counted at once and written in its turn. `BudgetInv` therefore speaks of the three places
a day is in. In memory (`DayOK`) a covered day lacks at most the writes that were lost;
a queued write (`WriteOK`) may in addition lack one attempt for each write of the same day
queued behind it (`Lag`), and so may the record in the journal (`RecordOK`), of all that
are queued. So a write that is done makes the record exactly as good as the write was
(`RecordWritten`), one that fails costs one more lost write (`RecordLost`), a crash as many
as were queued (`ProcessGone`), and a restart, when nothing is queued, may take the record
for memory (`Restored`) but covers only what the record says it covers. `PhaseInv` is what
a start relies on: until the record is restored the day begins at nothing and no day is
covered. `BeginRequest` is the only step that makes an attempt, and adds one write with it
(`QueueGrows`). That `today` is never ahead of the clock, so that a day not begun has no
attempts, needs the monotonicity of division (`DivMonotone`).

**Entries.** `DeskProofs` proves `EntriesSpec => []SlotsHold` and `EntriesSpec => []CapsHold`
from `RiskAssumption`, `RiskOrder` (limits are naturals, the drawdown and liquidity limits
not zero) and `EntriesAssumption` (ids of strategies, profiles and the AI are distinct;
prices are positive and there is one; the slippage tolerance is below the 20000 basis
points from which the PAPER router refuses every order). For the counts it restates them
as sizes of classes of positions (`Within`), shows once what one more, one less and one
replaced position does to any class, and that a request the engine sizes found fewer than
`MaxConcurrent` positions (`SizedLeavesRoom`). For the dollars it needs what the sums and
folds of the model compute: `MapThenSumSet` adds up a set in an order of its own, so
`TotalUnfolds` shows, by an induction over the subsets of a finite set
(`SubsetInduction`, from the well-foundedness of the naturals), that any element may be
taken out first; `FractionNat` does the same for the fold over the seven multipliers,
`RecursionExists` is behind both. With these, `SizeFits` says that an approved order is no
larger than what was asked for, which fits under both caps, and than 95 % of the free
capital; `FillPriced` that a PAPER fill has a price above zero; `EntryFunded`,
`SaleFunded` and `HalfExitFunded` that each step keeps `AccountInv`, the partial sale
because the share of the cost it takes out is never more than the cost (`ShareBetween`).

**CopyTracker.** `DeskProofs` proves `CopySpec => []EmittedOnce` (`CopiedAtMostOnce`) from
`CopyAssumption`: finitely many swaps, each of a followed wallet, with positive logical
times; no bound on pages or on the ring is needed but that both hold something. The
invariant `CopyInv` says that a swap which was dealt with, that is handed on, in hand, or
history when a baseline was taken, is `Passed`: behind the cursor of its wallet, or
followed by at least as many events as a page has, in which case no answer shows it again
(`AfterGrows`: events only get older). That is what survives a restart, after which the
cursor starts from whatever the new baseline showed, and a ring that has forgotten the
key. Within one page the cursor does not move, so what `Taken` folds over is shown,
swap by swap, to hand on only swaps that were neither passed nor in hand, each once
(`TakenFacts`); the fold's function is obtained from `RecursionExists`.

**Sizing.** Of the chain from observations to the size of an order the part that does not
depend on what the scores make of a token is proved monotone. `WorseIsNotLarger` is about
`RiskSize` alone, with its rounding at every one of the seven factors: `Worse(q, r)` is "in
no input better", and a request nowhere better than an approved one gets no more.
`FractionFalls` carries this through the fold over the multipliers (an induction over
the subsets of its positions), `DivMonotone` and `ClampFalls` through the shares and the
clamps, `LeastFalls` through the caps. `MarketAndAccountNeverRaise` follows for `Sizing`:
`SizingSpec => NeverRaised`, where `NeverRaised` is `SizeNeverGrows` for the steps
`MarketTurns`, `AccountFalls` and `CapitalUsed`, including what they do to the regime
(`RegimeFalls`: a deeper drawdown leaves it or makes it `RISK_OFF`) and to the decision to
enter.

**The compositions.** `DeskBehavesAsItsParts` and `WatchBehavesAsItsParts` prove that each
behaviour of `Desk` and `Watch` is one of the specification of each part (of `Evidence`,
of `PaperLedger` inside `Watch` and of `Sizing` excepted, where the theorem about `Desk` is proved directly,
`DeskNeverRaises`). `DeskIsSafe` and `WatchIsSafe` state what follows for the
specifications that TLC checks.

Only model-checked: the rest of `SizeNeverGrows`, for a security verdict that gets worse
and a pool that shrinks. Both change the scores, whose weights are scaled up when a dimension
drops out, so the confidence of a strategy may rise while the multiplier for the missing
data falls. Whether the product rises depends on the weights, the thresholds and the
size of an order, and is not a fact about every value of the constants. For a warning whose
data goes missing it does rise, by less than 7 percent (the bound is argued in `Sizing`). And the liveness
properties (`FillsDrain`, `StopKeepsExits`, `RejectedRevived`, `ObserveEnds`,
`OutcomesEvaluated`), which rest on fairness and ENABLED and are outside what the prover
handles.

## 7. Not modelled

- Floating point: money, marks and scores are integers, rounded down.
- Provider clients, their caches and parsers: their answers are inputs, late or missing
  where the code waits for them. Migrations and the SQL dialect.
- Reports, dashboard, alerts, the activity bus and log tailing: they read and change
  nothing the trader reads back. Backtests: an offline replay, sequential.
- Of the AI: prompts, the snapshot the model sees, what a tool answers, the lessons memory
  (`index.ts:1704-1711`), how an EXIT or TIGHTEN finds its position.
- Of the strategies: suggested exits, reasons and risks as text, features no strategy
  reads. Of the shadow tracker: its memory path without a database and its statistics.
- Of the copy tracker: amounts, proxies and malformed events, the activity ring.
- The SHADOW router and the order state machine, which only annotate. Of the scanner:
  the discovery feed and snapshot persistence. Reading of the configuration.

## 8. Plan

Done, in this order: `Positions` and `PaperLedger` (the core), its type and safety
proofs, `EmergencyControl`, `LiveTrading`, `Scanner` and its proofs; then `RiskEngine`,
`Signals` and `Sizing`, `Entries`, `AiDesk`, `ClaimGuards`, `CopyTracker`
(composed by `Desk`), `ExitQuotes` and `Evidence` (composed with `Scanner` and
`PaperLedger` by `Watch`), and a theorem each for the guards, the proposals, the exit data and the slots; then the
proofs of the queue, of `EmergencyControl`, of `LiveTrading`, of the caps and of the AI's
budget; then `WriteBehind` with the proof that `PaperLedger` implements it, the proof of
`EmittedOnce`, the monotonicity of the size, the theorems about `Desk` and `Watch`, and the
count of grants against outages.

Left:

1. The half of `SizeNeverGrows` that is about a token's security and pool, for weights and
   limits under which it holds.
2. The SHADOW router with the order state machine.
3. A safety property of `Evidence`, whose runs check liveness only.
