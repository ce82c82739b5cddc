# A TLA+ model of FlashPatch and its agent market

FlashPatch is built on a kit for agents that trade with each other: they bargain by
mentions in a CoralOS session and settle in SOL over an escrow program. The repository
holds the escrow and arbiter programs, the kit's runtime (`packages/`), the market's agents
and the FlashPatch swarm (`coral-agents/`), and examples that use them (`examples/`). This
directory holds TLA+ modules of the parts that move money or keep state, TLC
configurations that check them on small instances, and proofs that TLAPS checks.
`PROJECT.json` says for every definition which lines it models, lists the runs, and lists
the hazards each property is for.

In `Market`, `FlashPatch` and `Broker` prices are in units of 0.0000001 SOL, since the wire
format misreads small ones; otherwise amounts are small numbers. `None`, `Unset`, `NoEscrow`
and the like are model values.

## 1. The system

| component | state | operations | model |
|---|---|---|---|
| escrow program (`escrow/programs/escrow`) | one account per buyer and reference | initialize, release, refund | `Escrow` |
| arbiter program (`escrow/programs/arbiter`) | the config; vaults that own escrows | init_config, open, arbitrate_release, arbitrate_refund | `Arbiter` |
| policy middleware (`agent-runtime/policy`) | none | enforce, policyFromEnv | `Policy`, `PolicySession` |
| market protocol (`agent-runtime/market`) | none | format and parse, selectBids | `Protocol` |
| coral runtime (`agent-runtime/coral`) | the unread mentions | reply, send, waitForMention, waitForMentionInThread | `Mail`, `Broker` |
| buyer, sellers, verifier (`coral-agents/buyer-agent`, `seller-agent`, `verifier-agent`) | a round and its locals; quotes and awarded orders | one loop each | `Market` |
| exploit detector (`coral-agents/exploit-detector`) | seen signatures, inEmergency, a round | poll, emergency round | `Detector`, `FlashPatch` |
| patch generators, sandbox verifier | quotes, awarded orders | one loop each | `FlashPatch` |
| threshold deployer | submissions, passes and status of each round | alert, submission, verdict | `Deployer`, `FlashPatch` |
| FlashPatch feed (`examples/flashpatch/feed`) | the state shown to the dashboard | poll, /api/state | `FlashPatchFeed` |
| broker (`coral-agents/broker`) | one request: quotes, purchase, charge | one loop | `Broker` |
| LLM buyer (`buyer-agent/llm_buyer.ts`, `guard.ts`, `wallet.ts`) | the guard of one purchase | fetch_data, pay_and_retry | `Purchase` |
| TxODDS proxy (`examples/txodds/server/proxy.ts`) | requests that await, the ledger | settle, pay-intent, pay-verify, grade-runs | `Proxy` |
| marketplace feed and run ledger (`examples/marketplace/feed`, `agent-runtime/ledger`) | the files of each round | poll, persist, replay, reputation | `Feed` |

Agents share nothing but mentions and the chain. A mention is opaque text; what pairs an
answer with its request is the round it carries, and what pairs a payment with an order is
the reference. Money is locked by a buyer (directly, or behind a vault that only the
arbiter's key can settle), and a seller works only when it finds the order on the chain. Every
call of the chain or of a server is awaited, and everything else of the process can run
meanwhile; in an agent nothing else does, in the proxy and the feed other requests do.

What is hard about it, and what the properties are for (each is listed with its line under
`hazards`):

* mentions arrive late, again, or not at all, and rounds go on meanwhile: terms, deliveries
  and verdicts of one round reach another;
* a transaction may land although the call that sent it throws, before it does or any time
  after: books and chain disagree;
* a session restarts with rounds counted from 1, on a chain that kept the earlier orders;
* release, refund and a new use of the same address race around a deadline;
* polls, requests and handlers act on what they read before they awaited something;
* a wait in one thread loses what arrives in the others, and answers come to an earlier wait;
* a language model chooses whom to pay and how much, as long as the code lets it;
* files are written one after the other, and a crash stops that anywhere;
* numbers change on the wire, floors exceed budgets, lists have limits.

## 2. The modules

`Settlement` is the abstract specification of a rail: an order is locked for one seller,
then paid to that seller in full, or handed back once its deadline is reached. `Escrow` and
`Arbiter` implement it (`ImplementsSettlement`, a refinement that is proved as well as
checked: an account is worth its lamports and what its escrows hold). The models of agents (`Market`, `FlashPatch`, `Proxy`)
settle over `Settlement`, so that what was checked of the programs is what they rely on.

* **Escrow, Arbiter.** One action per instruction, with the account constraints as guards.
  Transactions are atomic and the clock only moves forward. `MCArbiter` gives it two
  wallets and two vaults. Fees are left out, and nobody sends lamports straight to a
  program address. `Worth` sums what an account owns; `Order` is an escrow account seen as an
  order of `Settlement`.
* **Policy** is `enforce` clause by clause; the caller's facts and the policy are records.
  **PolicySession** puts the buyer's bookkeeping around it: ask, send, land, and either see
  it confirmed (`Confirm`) or have `rpc()` throw (`RpcThrows`). `rpc()` throws when it stops
  waiting, which takes nothing back: a transaction that had not landed by then is `adrift`, and
  may land at any later moment (`LandLate`), also right after the next deposit. One that
  never landed is one that stays adrift. `unseen`, `landedAt`, `lastSeen` are history; the
  last two are of the landings that `rpc()` waits for.
* **Protocol** has one operator per message, with the fields agents act on, as they are read
  back. `Wire` is what printing and parsing does to a price: 5e-7 is read as 5.
  `SelectBids` keeps a seller's last bid, and `Place` is where it stands: at its first.
* **Registry** is the table of patches of the FlashPatch example and the simulated check of a
  patch against an exploit, which the patch agents and the verifier both use.
* **Mail** is the mailbox: a wait is answered with a batch of unread mentions of which only
  the first is handled, and may be answered again with one that was handled already.
* **Market.** One process per agent; a step is one handler, up to its next wait or its next
  call of the chain. The buyer's `pc` is the wait or call it is at. A bounded wait may end
  at any time, so there are no timers. The language model chooses freely (proposal, winner,
  verdict) within the clamps of the code, and with it the branch that does without a model.
  `served` and `attested` are history. `NewSession` stops every agent and starts it again.
* **Deployer** is the state machine of `threshold-deployer`, used by itself (alerts,
  submissions and verdicts in any order) and as the deployer of the swarm.
* **Detector** is the watch: `Poll` fetches the list, `Examine` takes one signature of it,
  with RPC calls that fail and a chain that grows in between. `missed` is history.
* **FlashPatch** is an emergency: the detector's round, the patch agents, the sandbox
  verifier and `Deployer`. `hired` is what PATCH_AGENTS names, chosen once among `Hirings`: the
  detector sends its alert and its WANT to those agents. A patch agent that generates its patch
  hears nothing (`working`).
  The relative imports of these agents do not resolve in the repository's tree
  (`../../txodds/...`); they are modelled as they are written. Nothing reads a clock, so it
  stands still.
* **Proxy.** One process per request; a step is what runs between two awaits. `Fail` is the
  `catch` that falls back from the arbiter rail to the direct one, and then gives up.
  `Date.now()` is the rail's clock: it is the nonce of a reference, so that requests of one
  tick share it. Topping up the arbiter's key is a call that may throw. A wallet may pay under
  any reference that was handed out (`WalletPays`, whose reference pay-intent binds as a
  settlement does); `PayVerify` looks for a transfer of that reference and at least that amount
  (`Transferred`) and records a settled run each time it finds it.
* **Feed.** `fetched[p]` is what poll `p` was answered; `record` and `lines` stand for the
  files `run.json` and `transcript.jsonl` of a round, by the number of messages they were
  written from, or `Torn`. `WriteRuns` is the sequence of writes, of which a crash leaves a
  prefix and a file in whatever state. `Fold`, `RunRecord`, `Replay` and `Score` are the
  functions of the code. The session that is watched is the buyer's, sellers' and
  verifier's messages in the order the agents can send them. Messages that name no round,
  VERIFY and ERROR change no round and are left out.
* **Purchase.** One tool loop at a time. A turn's tool calls are chosen when they run; the
  endpoint may show any challenge. `pc` is the call that is awaited: of the model (`Think`,
  `Exhausted`), the endpoint (`Challenged`, `Told`, `Retry`) or the chain (`Land`, `Confirm`,
  `Unseen`). The guard is reset by `PurchaseAgain`, as each call of `purchase` makes its own.
  `challenges`, `paid`, `landed`, `unshown` are history, of the present purchase.
* **Broker.** One request at a time: `pc` is the wait or the call it is at. A thread is named
  by its seller and the request it was opened for (`createThread` makes a new one each time),
  a reference by the quote or charge it was generated for. Customers and sellers are an
  environment: a customer asks, pays and claims transfers when it likes; a seller answers
  as `seller-agent/src/payment.ts` would have it, or is silent. These sellers are assumed
  altogether: in the tree no agent answers `request` and none calls `payment.ts`, so what the
  module shows of the broker is against sellers of that kind, not of one in the repository. `requester` and `served` are
  history.
* **FlashPatchFeed.** `threads` is the session, `answers` the polls under way, `shown` the
  answer the state was built from: `BuildState` folds its messages in the order of the
  threads, as the coral server lists them. One state stands for all emergencies, so a field
  holds the round of the message it was taken from. `key` is what the server calls the text of a
  message; the feed reads `content` and skips a message without it (`Readable`, `Texts`), so it
  is one of the things the model leaves open (see below, where code and documents part).

The modules named `MC...` give TLC the constants a `.cfg` cannot write. The modules named
`...Proofs` hold the proofs. Definitions with a comment `Mutant:` are plausible mistakes;
each property was seen to fail when its mutant takes the place of the definition it is a
mutant of, so that no property holds by the shape of the model.

## 3. The runs

| run | question | bounds, and why they are enough | states |
|---|---|---|---|
| MCArbiter | Do the programs keep every deposit, and implement the rail? | 2 wallets, 2 references and their vaults, deadlines up to 2, amounts 0, 1, 3, rent 2: every pair of orders, on either rail, around either deadline | 76,608 |
| PolicySession | Do the caps hold on the chain? | amounts 1 to 3, cap 4, interval 2, 8 ticks, one transaction of each amount adrift, 3 unseen at most: several deposits below and at the cap, seen, unseen and late | 58,447 |
| MarketRounds | Do late, lost and repeated mentions, or a restart, harm a deposit or a payment? Do rounds end? | 2 sellers (one direct, one arbiter), a session of 2 rounds and one of 1, batches of 2, 1 repeat: round one's messages reach round two, the second session meets the orders of the first | 642,682 |
| MCDeployer | Is a round deployed once, and with the best patch? | 2 agents, 2 patches, 2 rounds | 26,953 |
| MCDetector | Does each exploit raise one alarm? | 4 transactions, a list of 3, 1 failing call: an exploit can be pushed off the list or fail | 39,243 |
| FlashPatchRounds | Is an emergency paid once, within budget, for a verified patch, and does it end? | 2 of 3 patch agents, with floors of 50000 and either 100000, whose patch fails, or 150000, which a budget of 120000 refuses; 2 emergencies, batches of 2 | 264,236 |
| MCProxy | Does the ledger say what happened? | 2 requests of amounts 2 and 1, cap 3, funds 4, 2 ticks, 1 transfer of a wallet that may be verified twice: requests share a tick or do not, with each other and the wallet, both rails, all failures | 420,270 |
| FeedPolls | Does the ledger read back as what was shown, and catch up? | 2 polls, 2 rounds, 8 messages (one whole round), 1 crash | 270,707 |
| MCPurchase | Does the guard hold, whatever the model asks for? | amounts -1, 2, 3 and a budget of 5: two payments fill it, a third exceeds it; 3 turns of 2 calls, 2 recipients and references, 2 purchases | 162,708 |
| MCBroker | Is what is delivered paid for, and the right data? | 2 customers, a seller at 30 and one at 200 with a cap of 100, markup 1.2, 3 messages of customers: one asks twice, or one asks while the other waits and claims its transfer | 678,715 |
| FlashPatchFeed | Is the present emergency shown, and the whole session in the end? | 2 emergencies, 13 messages in all (one emergency takes 8), 2 polls under way, restarts and failing polls without a bound, messages the feed can read or not | 537,576 |
| FlashPatchDeploy | Is a verified patch deployed? (no) | 3 agents, 1 emergency | violation |

What the passing runs show:

* On the chain, a deposit leaves only to its seller in full, or back after its deadline;
  terms never change; a vault keeps nothing a sweep could take away; nothing is lost
  (`EscrowBacked`, `VaultHoldsOnlyRent`, `Conservation`, `PaidOrDeadlineReached`,
  `TermsFixed`).
* The buyer's caps, checked against its own books, hold of the chain up to the deposits it
  did not see confirmed, in time or ever (`SessionCapHeld`). The interval holds between a
  deposit that was seen confirmed and the next that lands while `rpc()` waits for it; one whose
  `rpc()` had thrown may land at any moment, and is counted in `unseen` (`DepositsSpaced`).
* In the market a deposit is for the round and seller that were awarded, at no more than
  was bid and asked, even when the price was misread on the wire (`LockedAsAwarded`); a
  payment needs a delivery and a verdict of the same order (`PaidOnlyVerified`); an order is
  served once per deposit (`DeliveredOncePerDeposit`).
* In an emergency the same holds, with one deposit per emergency (`BudgetPerEmergency`): it
  is within the budget, although an agent may ask for more (a cap that is not checked breaks
  that part), for the price and the seller of the award (terms of an agent that was not
  awarded break that), and made once (a second attempt after a deposit that threw breaks that).
* The deployer upgrades once, with the best patch then submitted, after a pass
  (`DeployedOnce`, `DeployedBestAfterPass`).
* The watch raises one alarm for each exploit it could fetch (`OneAlarmEach`,
  `EveryExploitRaised`).
* Each run of a settle request names a release of its own, and a run of pay-verify a transfer
  that pays for it, which another run of pay-verify may name too (`SettledMeansPaid`); a request
  that overlaps others keeps its record, and a fallback costs one more deposit at most
  (`EveryAnswerRecorded`, `OneDepositPerRail`, `LockedOnlyReleasable`).
* A purchase pays within its budget and only what it was shown, although a payment is counted
  after it was sent: one that was not seen confirmed ends the purchase (`WithinBudget`,
  `PaidWhatWasSeen`, `NoSilentPayment`, `PurchaseEnds`).
* The broker delivers once per payment of its own charge, and the data bought for that very
  request; it keeps its spread, but on tiny prices, and is exposed by one purchase per
  request (`ServedOncePaid`, `RightData`, `SpreadKept`, `OnePurchasePerRequest`, `CycleEnds`).
* Of a server that lists the text of a message as its `content`, the FlashPatch feed shows the
  last emergency, forward only, but for one transition, and catches up after any number of
  failures; of one that lists it as `text` it shows nothing, ever (`ShowsLastEmergency`,
  `GoesForward`, `CatchesUp`).
* The feed shows the furthest stage, replays what it showed, and rates sellers soundly on
  whatever a crash left readable, and its ledger catches up with the session
  (`StatusIsFurthestStage`, `ReplaysAsShown`, `RatingSound`, `LedgerCatchesUp`).

Some bounds leave a case to the proofs. In `FeedPolls` no bid comes late or twice, and in
`MCBroker` every purchase is at 30, where the markup loses nothing by rounding: the lemmas and
theorems of `FeedProofs` and `SpreadIsKept` of `BrokerProofs` hold for sessions of any length and
for any price. In `MarketRounds` both sellers are paid into one wallet; `LockedAwarded` and
`PaidVerified` of `MarketProofs` hold for any wallets.

No run lists a type invariant: those of the modules with proofs (`TypeOK`, `DeployerTypeOK`)
are theorems for every value of the constants, and the properties of the other modules leave
no room for a value of another type.

Deadlock is not checked: every model stops when its bounds are reached, and the agents are
meant to idle then.

### Fairness

* `Market`, `FlashPatch`: weak fairness of the buyer's, or the detector's, own round. Each of
  its waits has a time limit and each of its calls returns or throws, so it can always go
  on; nothing is assumed of the other agents in the passing runs (`RoundsGoOn`,
  `EmergencyEnds`), and no exploit is owed. `FlashPatchDeploy` assumes in addition that the
  verifier, the deployer and the patch agents run, so that its counterexample is not an
  agent that stopped.
* `Detector`: the watch keeps running, its calls return (or fail, up to the bound).
* `Proxy`: every request whose call returns or throws goes on, unless the server stops.
* `Purchase`, `Broker`: weak fairness of the agent's own step. Every wait of the broker has a
  time limit, every call either returns or throws, and the buyer's loop counts its turns;
  customers, sellers, the endpoint and the model owe nothing.
* `FlashPatchFeed`: `setInterval` polls for ever (weak fairness of `Fetch`), and polls that
  could be handled are not all lost to failures and restarts (strong fairness of `Handle`,
  since each of those takes the answers away).
* `Feed`: some poll is fetched and handled again and again; nothing says which.

### Where code and documents part

One disagreement has a run (see `findings`). Others were met while modelling and have
none, since a single step shows them or a document says too little:

* a deposit that lands while `rpc()` throws is not counted, so that a session may lock more
  than its cap by it (`policy.ts:22` calls the cap hard; `SessionCapHeld` says by how much);
* a deposit whose `rpc()` threw may also land later, right after the next one, since the
  buyer goes on without asking what became of it (`buyer-agent/index.ts:257`; `policy.ts:15`
  promises a minimum interval between deposits; `DepositsSpaced` says between which);
* the FlashPatch feed reads `msg.content` and skips a message without it
  (`flashpatch/feed/src/server.ts:104`, `:108`). The other reader of the same server takes `text`
  first, "verified against real devnet output" (`marketplace/feed/src/coralState.ts:6`; the agents'
  `mcp.ts:292` does too), and the session recorded beside it, `tests/coral-session.json`, has
  `text` and no `content`. Of such a server every message is skipped and the dashboard stays
  IDLE. The repository does not hold the server, so both are modelled; `ShowsLastEmergency` says
  what is shown in either case;
* nobody calls `refund` or `arbitrate_refund`: an undelivered order stays locked after its
  deadline (`escrow/README.md:25`);
* a reference hashes nothing of the session, so a restarted session binds the reference
  of an order that may still be locked; its deposit then throws;
* the detector awards the highest price, which stands for nothing but the floor
  (`README.md:288` says highest confidence), and it pays on the verdict, before any
  deployment (`README.md:66`, `start.ts:12`);
* the detector marks a signature as seen before it fetches its transaction, and lists
  10 transactions per poll: what fails, or is pushed off, is never looked at again (both are
  exceptions spelled out in `EveryExploitRaised`);
* the deployer counts every submission of a round when any verdict passes, so that patches
  that failed meet the threshold (`threshold-deployer/index.ts:144`; `index.ts:5` says it
  waits for the verifier's pass, `:7` counts verified patch agents);
* two settle requests that overlap both pass the policy, as each counts only what is written
  on disk: together they may exceed the session cap (`proxy.ts:224`; `policy.ts:22` calls
  the cap hard);
* the proxy binds the reference to the odds the board has at that moment and records the read
  it had cached before, which may be another (`proxy.ts:362` and `:500`); requests that
  come before there is a token each mint one (`ensureToken`, `proxy.ts:84`);
* the LLM buyer may name any amount within its budget, though not any recipient
  (`llm_buyer.ts:15` says "no hallucinated recipients/amounts"); a negative amount passes the
  guard and throws when it is sent;
* the config account of the arbiter is taken as the buyer's own when it exists; one made for
  another arbiter fails each release (`buyer-agent/arbiter.ts:87`);
* the broker rounds its price to six decimals: below a cost of 0.0000025 SOL the markup, and
  more, may be lost (`broker/index.ts:77`; `:9` says the broker keeps the spread);
* `PATCH_DEPLOYED` after a release takes the dashboard from RELEASED back to DEPLOYED, though
  App.tsx orders the phases the other way (`flashpatch/feed/src/server.ts:226`); its count of
  verified patches is set to 0 by each verdict, as no agent sends the results it counts
  (`:196`), and a round released without a deployment keeps the time of an earlier one;
* `ReplayGuard` is called by nothing but its test;
* a score is rounded: of 120 rounds won one may be unsettled under a score of 100
  (`ledger/reputation.ts:54`), which `RatingSound` states;
* the feed keeps a seller's first bid of a round, the buyer its last;
* an older poll that is handled last writes an older state over a newer one, until the next
  poll (`store.ts:15` says a folder always reflects the furthest state);
* pay-verify may be asked twice for one transfer: it writes a settled run each time, with the
  same reference (`proxy.ts:541`, `:545`), and each counts in what the policy is told was spent
  (`:224`). `proxy.ts:378` says that the reference makes an order correspond to its read; a run
  of pay-verify corresponds to a transfer, but not one to one;
* a `run.json` that is torn fails every later request of the proxy.

## 4. What is proved

`tlapm` checks the following for every value of the constants, under the named assumptions
of the modules (`AmountsAssumption`, `RentAssumption`, `VaultAssumption`, `CapsAssumption`,
`PurchaseAssumption`, `BrokerAssumption` and the others): amounts are naturals (integers in
`Purchase`), the rent is positive, each reference has a vault of its own, which signs nothing,
the caps are naturals, a confidence is from 0 to 100, there is a seller to ask, and the model
values that stand for nothing are none of the values. TLC evaluates them on its instances.

* `ArbiterProofs`: `TypeCorrect`, `Backed`, `VaultsPassThrough`, `NoEarlyClawback`,
  `TermsNeverChange`, `RailImplemented`, `NothingCreated`. The inductive invariant is `IInv ==
  TypeOK /\ EscrowBacked /\ VaultRents`. None of the three is inductive alone: balances stay
  naturals because a release takes from an account what `EscrowBacked` says is in it, and a
  vault is left with whole rents because what it closes held one rent and the deposit, which
  went to the seller. `VaultRents` drops the bound that `VaultHoldsOnlyRent` puts on the number
  of rents for TLC. Each instruction is one lemma (`InitializeKeeps`, `ReleaseKeeps`,
  `RefundKeeps`, `OpenKeeps`, `ArbitrateRefundKeeps`), and one more that maps it to its step of
  the rail (`InitializeRefines`, `OpenRefines`, `ReleaseRefines`, `RefundRefines`,
  `ArbitrateRefundRefines`). The refinement needs `OneOrder`: a vault is the buyer of the one
  order its reference names, so that a sweep takes exactly what the vault is worth. What an
  account is worth is a sum over its escrow accounts, so accounts and references are assumed
  to be finitely many (`FiniteAssumption`). `SumAt` says that changing a function at one
  argument changes its sum by as much; it is proved by induction over the set of the finite
  subsets for which it holds (`SubsetInduction`), as `SumFunction` is the recursive function of
  a `CHOOSE`, which has to be shown to exist first (`TurnFixed`). `NothingCreated` then follows
  from the refinement: each step of the rail is a `Move` between two accounts.
* `PurchaseProofs`: `PurchaseTypeCorrect`, `BudgetHeld`, `OnlySeenPaid`, `NothingUnshown`, for
  any budget and integer amounts. What is paid on the chain differs from what is counted only
  while a transfer is between landing and being seen, and the budget has room for it by
  then (`Counted`); a transfer that throws there ends the purchase (`UnderWay`). Whom it pays
  is what the guard allowed (`Guarded`), which a challenge had shown (`AllowedWasShown`).
* `MarketProofs`: `MarketTypeCorrect`, `DeliveredOnce`, `PaidVerified`, `LockedAwarded`, for any
  sellers, prices, batches and sessions. What makes the properties hold is what an unread
  mention may say, so most of the invariant is about mailboxes: nothing is heard of a later
  round, and of the present one a DEPOSITED, DELIVERED or VERIFIED only once the buyer is past
  its deposit, and about the order of its terms (`Hearing`). What the buyer acts on belongs
  together (`Bargain`). A round is settled with one seller (`OneSeller`), which hears of the
  award before it hears of the deposit (`InOrder`). It forgets an order before it works on it,
  so that a deposit it may still serve was not served yet (`ServedOnce`). `LockedAwarded` needs
  that the budget is below one SOL, or that the prices are read as they were written: a
  misread price is a whole SOL at least, which such a budget
  refuses; with a larger budget the deposit may exceed what was bid.
  Of a session under the policy (`SessionSpec`), `SessionCapKept` and `SpacingKept`, for all
  caps, amounts and intervals. The invariant `Booked` says that what the chain locked is what
  the books count, what was never seen confirmed, and the deposit that has just landed; that
  the cap already allows for the deposit under way; and that the books' time of the last
  deposit is no earlier than its landing, which is why spacing by the books spaces the
  landings that `rpc()` waits for. What is adrift is in no book: when it lands it is one more
  that was never seen confirmed.
* `FlashPatchProofs`: of the deployer in an open world (`DeployerSpec`), `DeployerTypeCorrect`,
  `NeverTwice`, `BestAfterPass`. `DeployedIsMarked`: a deployment in the history is of a round
  that is marked, and no step takes a mark away. `BestIsBest` shows that the sort finds a
  greatest confidence, by the well-foundedness of the naturals. Of the swarm,
  `FlashPatchTypeCorrect`, `BudgetHeld`, `PaidAfterPass`, `NothingDeployed`, from an invariant in
  five parts: the types of the world and of the detector's round; that the terms are those of
  the winner's bid (`Bargain`); that a locked order is of an earlier round, and of the present
  one only past its deposit (`OrdersOfRounds`); and what an unread mention may say, or a patch
  agent may be working on (`Hearing`). The detector's WANT goes to patch agents alone, whichever
  of them it hires (`HiredPatch`).
  `NothingDeployed` is the disagreement of `FlashPatchDeploy` for every instance: the deployer
  hears the alerts and nothing else (`Untold`), so no patch is ever deployed. Of the detector's
  watch (`WatchSpec`), `DetectorTypeCorrect` and `AlarmedOnce`, for any chain, list limit and
  failures: an alarm is raised only for a signature that was noted (`RaisedIsSeen`), and one
  that is noted is never examined.
* `ProxyProofs`: `ProxyTypeCorrect`, `RunsArePaid`, `AnswersRecorded`, `DepositsBounded`,
  `LocksReleasable`, for any number of requests, transfers and verifications. The round of a run is asked
  for in the step that writes it, so that a run is added and none replaced
  (`PersistAppends`), and it names at most the release just made, or a transfer that is on the
  chain and stays there; `DepositsCounted` bounds the
  deposits of a request by where it is and whether the arbiter rail failed it.
* `BrokerProofs`: `BrokerTypeCorrect`, `ServedOnce`, `DataOfItsRequest`, `BoughtOnce`,
  `SpreadIsKept` (for a markup of at least 1.2, the default, `broker/index.ts:22`), for any
  customers, sellers, prices, markup and mailbox. What was delivered was charged under the
  reference of its own request, which is an earlier one than that under way (`Booked`), so
  that no transfer carries two of them; what the broker holds is of the present request, since
  a thread says what was bought in it (`Present`); and until the present request is bought for
  there is at most one purchase for each earlier one (`Purchases`).
* `FeedProofs`: `FeedTypeCorrect`, `ShownAtFurthestStage`, `ReplaysTheSame`, `RatedFairly`, for
  any sellers, prices, polls, crashes and lengths of a session. The rounds of each moment of
  the session tell a story in which every stage followed the one before it (`Story`,
  `Prefixes`); this needs that what the rounds hold is what was said (`Linked`), that rounds
  are opened one after the other (`InTurn`), and that what may be said next is what the story
  allows (`SaysAllowed`). A file on disk was written at a message of its round (`Disk`), so
  each record is a round of some moment, and what was written last is there (`Kept`). Between
  two moments a round that is not spoken of stays as it is (`UnspokenStays`), and a round is
  made by its own messages, whichever others they are mixed with (`FoldKept`, `FoldConcat`):
  that is why folding the files of the disk, round after round, gives what was shown.
* `FlashPatchFeedProofs`: `OfTheLastEmergency`, `EmergenciesGoForward`, for any agents, numbers
  of emergencies and polls, threads of any length, and messages the feed can read or not. What
  cannot be read folds to the state without a round (`StateUnread`); the rest is about what can.
  The inductive invariant is about the
  session and the answers: a thread is opened by its only alert and speaks of its own emergency
  alone (`Opened`), and an answer, whether it is under way or shown, brings at least the alert
  of each thread it knows (`Brought`); a restart and a poll in any order keep it. Put
  together, the messages of an answer are in the order of the rounds, each opened by its alert
  (`Ordered`, `ByThreadIs`). Folding such messages gives a state that is of the round of the
  last of them (`Faithful`): an alert comes before anything else of its round, so what is set
  after it is set by that round. Two answers that end in the same thread are in the same
  phase once each has heard as much of it, since the phase after an alert depends on what
  follows the alert only; from there the phase goes on as the longer answer does
  (`PhaseForward`).

Every invariant and action property of the runs has a theorem. What stays with TLC is liveness,
which needs ENABLED: `RoundsGoOn`, `EveryExploitRaised`, `EmergencyEnds`, `EveryRequestEnds`,
`LedgerCatchesUp`, `PurchaseEnds`, `CycleEnds` and `CatchesUp`.

Operators and theorems that take an operator for a parameter (`SelectSeq`, `FoldLeft`, the library's induction) cannot be
used in a proof here. Induction is done on sets instead: a set of numbers that holds 0, and the
next of each it holds, holds them all (`NatSet`; `SeqSet` for sequences, `SubsetInduction` for
finite sets). A recursive function is a `CHOOSE`, which has to be shown to exist (`Recursion`,
`FoldFixed`, `TurnFixed`); sums are reasoned about through `SumFunction`, `RoundTranscript` is a
recursive function, and `SelectBids` is a set.

Where a function is changed at two arguments that may be the same (a release by an owner who
is its own seller), the change is written in two steps, since `tlapm` reads `@` in the second
part of one EXCEPT as the value before the first, unlike TLC.

## 5. What is not modelled

* **Replay guard of the seller.** Nothing calls it.
* **The proxy's reads.** The board, odds, scores, the TxLINE token and its mint script are a
  vendor's data; what is read is good or bad, freely.
* **Feed fixtures and the launching of a session** (`/api/start`), `REFUNDED` and
  `SANDBOX_RESULT`, `PATCH_SUBMITTED` between agents: no agent sends them.
* **LLM completion, harness adapters, want feed and reputation clients.** What they return is
  a free choice in the models.
* **Launchers, scripts, front ends, docs site.** They configure, start or render.
* **Event mode of the buyer (WANT_FEED).** It chooses which round is opened; rounds are
  opened freely here.
* A `send` that fails is a mention that is lost.

## 6. Plan

Done, in this order: the programs and the rail; policy and its session; the market; the
FlashPatch swarm, its detector and its deployer; the proxy; the ledger and the market feed; the
LLM buyer; the broker; the FlashPatch feed; proofs of the programs, the policy, the deployer,
the detector, the proxy, the LLM buyer, the broker, the market, the swarm and both feeds;
the refinement of the rail by the programs. What would add most from here:

1. The measures behind the liveness properties: that no step of a purchase, a cycle of the
   broker or a request of the proxy goes back, which needs no ENABLED.
2. The proxy's ledger with torn files, on which the feed's model already stands.
