# Bone Dry in TLA+

Bone Dry is a Uniswap v4 hook (`Tap`) for a pool that holds nothing: a swap is filled, in its own
transaction, out of the wallets of 1inch Aqua makers. Around it are a SwapVM instruction that lets a
maker cap what a strategy may promise (`_encumberedCap`, opcode 35), an indexer that turns Aqua's
events into a maker book (a subgraph, and a Postgres index refreshed by a cron job), and a web
application that plans routes, publishes strategies and shows the book.

This directory holds TLA+ modules translated from that code, the TLC configurations that check
them on small instances, and TLAPS proofs of what matters most.

## 1. The system

| Part | State | Operations | Talks to |
|---|---|---|---|
| `Tap` hook (`contracts/src/Tap.sol`) | none between swaps; in a swap `Ctx`, depths, slices in hand | `beforeSwap`, `_fill` | PoolManager (take, sync, settle), Lens, SwapVM router |
| `Wellhead` | none | `swap`, `unlockCallback`, `_settle` | PoolManager, the swapper's tokens |
| `Lens` | none (views) | `quotableDepth`, `coverage`, batch | Aqua `rawBalances`, ERC-20s |
| Opcode 35 (`vm/Encumbrance.sol`) | none; reads its arguments, Aqua and the wallet | `build`, `parse`, `_encumberedCap` | Aqua, ERC-20s, the SwapVM context |
| Opcode table, router | constant | dispatch | SwapVM |
| Beacon and `BeaconStrategy` | constructor constants | `extruction` | a Chainlink feed |
| Subgraph (`subgraph/src`) | Maker, Position, Strategy, Commitment, Protocol entities | one handler per event | Aqua, router and Tap events |
| Postgres index (`web/lib/indexer.ts`, `indexedDepth.ts`, cron) | strategies, depth and scan rows | `refreshIndex`, readers | RPC, subgraph, route API |
| Strategy cache (`web/lib/aqua.ts`) | one promise per chain, a module-wide scan window | `cachedStrategies`, `indexStrategies` | RPC |
| Route API (`web/app/api/route`) | response cache, in-flight table | `GET` | planner, books |
| Planner (`web/lib/router.ts`, `solvencyEngine.ts`) | none | `planLikeTap`, `replayTapFill`, `dedupeByMaker`, the choice between books, the waterfall | quotes |
| Publishing (`web/app/api/strategy`, `web/lib/makerBook.ts`, `encumbrance.ts`) | none | declared total, cross-chain ratio, program bytes | index, Aqua |
| Swap desk (`ui/Desk.tsx`, `ui/app/Swap.tsx`, `PreflightModal`) | selection, generation, browser cache, modal | load, `executeSwap` | route API, wallet |
| Maker desk (`ui/app/Provide.tsx`, `Portfolio.tsx`) | tab and job state | ship, approve, dock; previews | strategy API, wallet |
| Reports (`/api/coverage`, `/api/exposure`, `/api/makers`) | head variable, list cache | reads of index and chain | subgraph, Postgres, scan, Lens |
| Records (`/api/reliability`, `/api/history`, `/api/apps`, `/api/liquid-pairs`) | none | paged scans, joins, counts | RPC, subgraph |
| Panels (about twenty effects), radar (`lib/crossChain.ts`), subgraph search (`lib/subgraphMcp.ts`) | React state, browser cache | fetch what is selected, compare chains | the APIs, an MCP server |

What is hard here. On chain nothing interleaves inside a transaction, but everything may have moved
since the route was computed, the depths read first go stale as the same wallet fills twice, any
fill may revert after tokens were borrowed for it, and integer division leaves remainders that must
still be placed. Off chain, event handlers keep redundant totals that must agree whatever order of
ship, push, pull and dock the chain produces; the index is written in several statements without a
transaction; caches and in-flight tables are shared by requests that interleave at every `await`.

What makes each part correct:

- *Tap*: a swap is whole or nothing; no token or allowance stays in the hook; the debt to the
  PoolManager closes; a maker who cannot deliver does not cost the swapper the fill.
- *Opcode 35*: a fill through it never takes backing promised to a sampled sibling.
- *Subgraph*: a position's total is the sum of its strategies' remaining balances, its live list and
  counters agree with the strategies that are live.
- *Index*: what a reader sees is a book the chain had; a refresh that stops half way is repaired.
- *Caches*: a response is never older than its lifetime, one computation is shared, nobody waits forever.
- *Planner*: what it promises, the hook delivers; what it shows adds up to what it promises.
- *Publishing*: the declared total counts everything promised, in the units and roundings the contract uses.
- *Desks*: what is signed was re-read for its own chain and pair; what is reported done is done there.
- *Reports*: a maker called short, docked or unreliable was so at a block, and no answer is staler than tolerated.

## 2. Modules

| Module | Models | Checked and proved in |
|---|---|---|
| `Aqua` | the ledger of one direction tokenIn -> tokenOut: maker wallets, allowances, Aqua's virtual balances, PoolManager, hook and swapper; `Lens.quotableDepth` | extended by `Tap` |
| `Tap` | one action per step of `Wellhead.swap` / `Tap.beforeSwap` / `_fill`, with every revert | `MCTap`, `TapProofs` |
| `AtomicSwap` | what a swap promises, in one step; `Tap` is shown to implement it | instanced by `Tap` |
| `Ranking` | sorting and filtering as the site's lists do, by the places elements end up in | `PlannedSwap`, `Beacon` |
| `PlannedSwap` | the planner per book, its replay of the hook, the choice between books; extends `Tap`, which carries the plan out | `MCPlannedSwap` |
| `Answer` | the answer of `/api/route` and the waterfall drawn from it | `MCPlannedSwap` |
| `Encumbrance` | opcode 35 inside one maker's book of strategies | `MCEncumbrance`, `EncumbranceProofs` |
| `Publishing` | `POST /api/strategy` over that book, with an index that lags | `MCPublishing`, `EncumbranceProofs` |
| `Preview` | what the Provide tab computes beforehand | `MCPublishing`, `EncumbranceProofs` |
| `Wire` | the bytes of a program: written by the site, walked by the router, the maker book and the route API | `MCPublishing` |
| `Beacon` | Chainlink-priced strategies under opcode 35, and the site's reading of the same feeds | `MCPublishing`, `EncumbranceProofs` |
| `Aquifer` | the subgraph's Aqua handlers behind the chain that feeds them | `MCAquifer`, `AquiferProofs` |
| `RefreshIndex` | the job that fills the Postgres index, statement by statement | `MCRefreshIndex`, `RefreshIndexProofs` |
| `RouteServer` | how requests to `GET /api/route` share quotes | `MCRouteServer`, `ServerProofs` |
| `SwapDesk` | the swap page: selection, loads, browser cache, modal, `executeSwap` | `MCSwapDesk`, `SwapDeskProofs` |
| `MakerLedger` | every block of one maker's history, and `Lens` over it; extended by `StrategyScan` | `MCMakerViews`, `MakerViewsProofs` |
| `StrategyScan` | the paged log scan and the promise shared between requests | `MCMakerViews`, `MakerViewsProofs` |
| `MakerViews` | coverage, exposure and makers: each read in its order | `MCMakerViews`, `MakerViewsProofs` |
| `Panels` | nineteen effects of the site that fetch what is selected, as policies of one machine | `MCRadar`, `PageProofs` |
| `Radar` | the comparison of a quote here with one on the other chain | `MCRadar`, `PageProofs` |
| `Discovery` | the search for subgraphs over an event stream | `MCRadar`, `PageProofs` |
| `MakerDesk` | shipping, approving and docking from press to receipt | `MCMakerDesk`, `PageProofs` |
| `Records` | hook, router and Aqua logs, their handlers and scans, reliability and history, the counts of apps and of liquid pairs | `MCRecords`, `ServerProofs` |

1inch Aqua, SwapVM, Uniswap v4, the ERC-20s, Chainlink, The Graph's node, Postgres, React, viem and
the wallet are outside the repository. They are modelled from how the code uses them and marked
external in the map.

Operators with a suffix after an underscore (`HandBack_Nothing`) are faults: mutated forms of the
definition that follows. With a fault in its place one of the properties fails, which shows that
the property depends on the code it is about. A property with `Inv` at the end of its name is the
conjunction of a module's type invariant and its smaller named invariants.

### Tap

`led` is the ledger as the running transaction sees it, `snap` the ledger before it; a revert
(`Revert`) puts `snap` back, as the EVM does. `pc` walks `depth` (pass 1), `dust` (the remainder of
the divisions), `place` (pass 2), `sweep`, `settle` (end of `beforeSwap`) and `pay` (Wellhead and
the PoolManager's own check that every delta is closed). Makers and other pools' traders act only
between transactions, but in any way the constants allow.

The router's programs are outside the repository. A *faithful* strategy quotes `x \div Rate` and
delivers it when Aqua can pull it; any other strategy may quote anything, revert, use only a part
of its slice or pay another amount than it quoted. The properties that must hold whatever makers do
are checked (and proved) with such strategies present.

### Encumbrance

One maker, one wallet, two tokens, several strategies. `program` is what a strategy hash commits to,
hence constant: the declared total and the sibling list are a snapshot, while fills in both
directions, docking and the maker's transfers go on moving what they describe. `Accepts` and
`Executed` are `_encumberedCap` with its six sample slots (`Slot`), its comparison of the declared
total with the sample, the utilisation test, the haircut or penalty and the floor. The price that
earlier instructions computed is any amount. `Ship` declares whatever the maker likes.

### Aquifer

`aqua` is the chain; `Ship`, `Dock`, `Push`, `Pull` append to `log` the events they emit, and
`Index` handles the oldest, so the index lags by up to `MaxLag` events. Handlers are whole actions,
because the node commits an event's entities together. `position`, `strategy` and `remaining` are
the entities; `halted` is a handler that aborted (`toI32`, a missing required field), after which
the node stops. `BooksAgree` and `CountersAgree` compare the index with the chain once it has caught
up (log empty, not halted); `CompleteIsComplete`, `MissingIsCurrent` and `UtilIsOneInstant` are about
the index's own rows and must hold at every moment.

### RefreshIndex

Each job walks fetch -> upsert -> select -> dock -> depth -> stamp, one page or batch at a time, and
may fail before any statement (an exception, or the platform's `maxDuration`). Jobs overlap: the
workflow has no concurrency group. The listing is paged by cursor while strategies open and close.
`Served` is the join a quote reads (`depthFromIndex`). A strategy opens once and trades one token.

### RouteServer

Handlers interleave only at their two awaits, so everything up to the first (`Arrive`), from a
settled promise to the next (`Resume`), and from the end of the computation to the answer
(`Planned`, `NoPlan`, `Throws`) is one action. Plans carry only their key and the time of their
first read. `finally` deletes the key's entry whoever owns it by then, as in the code. A request
with `fresh=1` takes neither a cached plan nor another's computation, and registers nothing.
`Tick` is the clock; it does not advance while a settled promise has waiters that could run, which
is the event loop's rule that continuations of a settled promise run before the next timer.

### PlannedSwap and Answer

`plan` is the last answer of `PlanRoute`; `SwapAsPlanned` sends it with the quoted output as the
floor, and `fresh` says that nobody has moved since. `Candidates`, `Limits`, `Shares` and `Replay`
are `dedupeByMaker`, `planLikeTap` and `replayTapFill`, for one book; `BestOfBooks` chooses.
`AnswersAddUp` evaluates the whole answer in every state the balances reach. Plans in which one
maker serves both passes (`swept`) are set apart from `QuoteIsHonoured`: see section 6. So are amounts beyond
a v4 delta (`MaxDelta`), which the planner does not look at and the hook refuses.

### Publishing, Preview, Wire, Beacon

Each publication (`pubs[p]`) reads the index, the chain and perhaps the other chain, one action per
await; `Sign` is the maker's wallet, any time later. `quiet` says that nobody else moved meanwhile.
`Preview` recomputes the same totals as the page does. `Wire` and `Beacon` add no state: programs
and prices are pure, so `ReadsBack` is evaluated for every program of the instance and
`SpreadIsPaid` for every pair of prices, sizes and spreads, `Extruded` prices being passed through the
curve of opcode 35 as the program does.

### SwapDesk

Script runs to its next await in one step. `gen` counts loads, `loads` are the requests under way,
`runs` the invocations of `executeSwap` with the route and selection they closed over, `asked` what
the wallet was asked to sign. `shown` is the quote on screen and `cache` the browser cache.

### MakerLedger, StrategyScan, MakerViews

`hist` is the chain, block by block, because readers look at different blocks of it. A request
(`req[r]`) records for every number it returns the block that number is of; the properties compare
the answer with the ledger at those blocks. `scan` are log scans; `shared` is the promise that
requests join.

### Panels, Radar, Discovery

A panel is a record of choices (`guard`, `resets`, `fails`, `flag`, `stops`, `idle`, `again`,
`follows`), each read off its effect. A behaviour is one panel's: they share nothing. `Radar` adds the desk's
own quote beside the panel that asks the other chain. `Discovery` is a separate machine (`search`):
requests by number, replies in any order, late or never, a stream that breaks and a timer.

### MakerDesk

A job is one press. It keeps the chain it was built for while `net` (the page) and `wallet` move; a
transaction goes to whatever chain the wallet is on. State set by a job whose tab was left is lost
(`Mounted`).

### Records

`chain` is one transaction per block; `Logs(kind, b)` what it emits. `index` is the subgraph after
`indexed` blocks; `scan[k]` pages one kind of log back from a head of its own. One request at a time. A
listing (`/api/apps`, `/api/liquid-pairs`) counts the first `First` live strategies the subgraph gives, grouped by app,
by pair or by token.

## 3. Runs

| Run | Shows | Instance | States |
|---|---|---|---|
| `tap` | `TapInv` (types, accounts that add up and close, nothing kept in the hook), `AllOrNothing`, `OneGoodMakerIsEnough`, whatever one of the makers answers | 2 strategies, routes of 1-2 entries incl. the same one twice, 2-3 units, 2 maker moves | 982k |
| `planned` | `PlannedInv` (plan, remainder), `AnswersAddUp`, `QuoteIsHonoured`, refinement `IsAtomic`, `SwapEnds` | 4 strategies at rates 1 and 2, 2 books, one wallet in both, 7 units, balances 2-3, a hand-made route with two siblings | 363k |
| `encumbrance` | `SiblingsStayCovered`, `NoFillAtMaxUtil`, `EncumbranceInv` (types, a monotone curve) | 2 strategies in 2 x 3 programs (short, repeated, over 100%), 2 tokens, balances 0-3 | 269k |
| `aquifer` | `BooksInv`, `SiblingsAreCurrent`, `UtilIsOneInstant`: totals, counters, completeness and utilisation equal the chain's | 3 strategies, 2 tokens, lag 3 | 152k |
| `refresh` | `RefreshInv`, `DocksOnlyTheClosed`, `Converges` | 2 strategies on 2 pages, 2 jobs, 3 chain events, 1 failure | 837k |
| `route` | `RouteInv`, `PlansAreCurrent`, `Answered` | 3 requests, 2 keys, clock to 3, lifetime 1, computation up to 2 | 450k |
| `desk` | `DeskInv`, `SignsWhatItReread`, `DoneOnItsChain`, `BusyEnds` | 2 chains, 2 pairs, 1 change of market, 3 loads, 1 swap | 313k |
| `publish` | `DeclarationInv`, `InstructionsAreRead`, `DeclaresItsBook`, `RedIsRefused` | 2 publications, 3 hashes, amounts 0 and 2, 2 moves of others, slots 1; words of two bytes; 6 sizes, 3 prices | 371k |
| `views` | `ViewsInv`, `ClaimsAreReal`, `AnswersAgree`, `AnswersAreRecent` | 3 strategies of 2 apps, 3 blocks, 2 readers, 2 scans, 1 fault, lag and lifetimes 1 | 1.95M |
| `panels` | `PanelsInv` (what is shown, spinners, the search), `AdviceHolds` | 19 panels, 3 selections, 3 loads, 6 quotes; searches of 2 tokens, lists to 3, 2 endpoints | 726k |
| `makerdesk` | `MakerDeskInv`, `OutcomeIsReal`, `WaitingEnds` | 2 chains, 2 rows (one listed under a wrong token), 2 presses, 2 mounts | 320k |
| `records` | `RecordsInv`, `VerdictsAreEarned`, `HistoryIsTheBook` | 3 strategies (one hash under two apps), 3 blocks, pages of 2, 1-3 of them, listings of 2 rows, 1 fault | 2.02M |

Why the bounds are enough to meet the hard cases:

- *Tap*: the interesting fills need two candidates that fail differently, a wallet that the first
  fill exhausts, a remainder of at least one and a sweep; all occur between `tap` and `planned`. What
  a hostile maker may do depends on no other maker, so one is enough. `Budget` bounds what the swapper
  can spend, and with it the number of swaps.
- *PlannedSwap*: seven units over depths that leave remainders; two strategies on one wallet force
  the choice of one; the second book is worth choosing when the first is drained; after a swap a
  wallet is empty, which makes ghosts and refusals. The five prices are a fair one, one off the
  tolerance, other decimals, a missing and a stale one. `ProbeShare`, `GeometricSteps`, `LinearSteps` and
  `TrimPasses` stand for the constants of the search (a thousandth, 16, 12 and 4 passes); a coarser search finds less, never more.
- *Encumbrance*: one capped strategy and one that it samples, drains or mis-declares; the sibling's
  app and the repetition of a slot are varied. Rounding shows at balances of 1 to 3 because the
  curves are in basis points above and below the whole.
- *Publishing*: two publications that count before either ships; a book larger than the slots, so
  that sampling matters; any ship, fill, dock or transfer between two reads. `WordBytes` and
  `ShortBytes` shorten the 32-byte words of a program: walking it depends on lengths only. `Base` is a
  real byte, so that a count of 255 arguments is still the limit. The terms are both sliders at their end, where the
  haircut is largest; `RedIsRefused` promises a fill on `Sliders` only, because the route accepts any `widenBps` of
  16 bits, and one far above 100% leaves nothing of an order and reverts.
- *Aquifer*: `a` has opcode 35 and lists `b` but not `c`, so lists can be complete, incomplete and
  change; three events of lag let a ship, a fill and a dock be pending together.
- *RefreshIndex*: two pages are needed for a strategy to move across pages, two jobs to overlap.
- *RouteServer*: two waiters on one computation (the fall-through) plus its owner is the least that
  lets a finishing computation delete another's entry, and two keys let the cache exceed its
  maximum. `CacheMax = 0` stands for 200: the size is compared before the insertion.
- *SwapDesk*: an overtaken load needs two, one that overtakes both and a re-read; `MaxGen`,
  `MaxRuns` and `MaxMoves` bound loads, presses and changes of the market.
- *MakerViews*: disagreement needs a read at each of three blocks with a move between; the scans
  must overlap and fail, and the lifetime of the shared promise must end during one.
- *Panels*: a third load behind two answered in the wrong order; the six quotes are nothing, all at a
  fair and at a bad price, all but dust, exactly the threshold of "partial", and a sliver at the best price.
- *MakerDesk*: two jobs of two chains, so that one's receipt could be taken for the other's.
- *Records*: pages of two blocks over three leave a page boundary inside the history and a budget that
  runs out before the floor; listings of two rows are cut when all three strategies are live. A wallet's swaps have the budget
  the code computes, which suffices for the window.

## 4. Fairness

- `Tap`, `PlannedSwap`: `WF` on the steps of a transaction that has begun. The EVM executes it to its
  end or reverts it; makers owe nothing.
- `RefreshIndex`: `WF` on the steps of each job: the schedule fires for ever, and a job that does not
  fail runs on to its end. Nothing is assumed of the chain; failures are bounded, so eventually a job is neither disturbed
  nor killed.
- `RouteServer`: the event loop runs the continuation of a settled promise (`Resume`), and a
  computation ends (`Finish`), because every RPC read has a timeout. Nobody is obliged to arrive.
- `SwapDesk`: timers fire, and `getJson`'s deadline of 30 s ends every load one way or another.
- `MakerDesk`: a job that waits for a request, for the wallet's answer once it answered, or for a
  receipt goes on: viem gives up after 180 s. Nobody has to sign.
- Every other module has safety properties only.

## 5. Proofs

Checked by TLAPS for every value of the constants, under the named `ASSUME` of each module (types of
the constants, that markers such as "no one" are not members of the sets, and that a maker's strategies, which are
logs of a chain, are finitely many). Those of `Aquifer` also say that a ship lists 1 to 254 distinct tokens (Aqua
keeps the count in a byte, where 0 and 255 are markers) and that amounts are at least one.

- `TapProofs` - `IInv` says one thing per phase. `Resting`: outside a transaction the ledger is the
  snapshot and nothing is owed. `Starting`: before the first fill nothing has moved. `Placing`:
  between fills `FillAccounts` holds and the balances a fill may not touch are as before.
  `Paying`: after settlement the hook is clean, nothing is left over, and the PoolManager's balances
  moved by exactly what was asked and what was found. `NoOpenBooks`: no settlement has failed.
  `FillAccounts` alone is not inductive: closing the debt needs the untouched balances, and it says
  nothing between `settle` and Wellhead's payment, where `WholeOrNothing` is decided. Theorems:
  `TypeCorrect`, `NothingStranded`, `AccountsAgree` and `BooksClose`, together `Consistent` (`TapInv`);
  `WholeOrNothing` (`AllOrNothing`); `SwapsAreAtomic` (`IsAtomic`: under the refinement mapping every step of
  the router is a whole swap of `AtomicSwap`, another pool's move, or a stutter); `BooksClose`
  (`BooksAlwaysClose`: the rounded shares never sum to more than the input). The last one is a sum over
  the route, which would be an induction; `Counting` says instead that a function exists whose values are the
  partial sums so far, and the first pass of `beforeSwap` extends it as it reads, so the steps of the
  program carry the induction.
  `GoodMakerSuffices` (`OneGoodMakerIsEnough`) follows one maker through a transaction: `Measured` (pass 1 found
  it deep enough), `CarriesOn` (what it can still deliver is at least what is left to place, and the PoolManager holds
  the input for `OffersLeft`, every offer that may still come), `SweptUp` (once the sweep has passed it nothing is
  left). `AccountsAgree` gives neither: that the wallet keeps up is a fact about the other makers' fills, which
  move no token of a wallet that is on the route once.
  `NoSliceOfDust` is `RemainderRidesFirst` (a part of `PlannedInv`): `Rides` carries the rounded shares as a function,
  as `Counting` does, through the loop that takes them off the dust and the pass that places them.
  All of this is proved of `AnySpec`, the hook called with any route, amount and floor. `Spec`, whose calls are those of
  the constants, and `PlannedSpec`, whose calls are also the plans', both implement it.
- `TapProofs`, the planner - `QuotesAreHonoured` (`QuoteIsHonoured`) is a simulation between two programs: the planner's
  replay and the hook. `PlanInv` says what a plan is worth while nobody moves (`Stands`): its candidates are faithful,
  have depth and distinct makers, and `Foreseen` runs `P` (the pro-rata pass) and `W` (the sweep) exist whose end places
  all of the input and pays the promised output. That every plan stands goes through each operator of the planner: the
  filters and sorts (`RankedIs`, `AmongIs`, `ByDepthIs`), the ceilings, the rounds of trimming, the solo plan and the
  choice of the book. `Followed` then goes through the hook: after candidate `i` the transaction's accounts are those of
  `P[i]` or `W[i]` (`Agrees`), a maker the run has not filled is as it was (`Spared`), and what is left covers
  the shares still to come (`Room`, so that the hook's cap at `remaining` never cuts a share). A skip in the hook is a candidate
  the replay passed over (`SkipMeans`), a quote one it filled (`QuotedMeans`); no fill reverts, because a maker
  is filled once. There the premise `~plan.swept` is used, and nowhere else. `Honoured` goes through the ends of a
  transaction and finds that only the payment is possible. Sums of amounts are folds of the community modules; `IsFold`
  and `Recurs` name what they and the recursive functions do step by step, which `Climb` turns into facts about every
  index. Theorems: `PlansAreCarried` (`PlannedInv`, from `PlansAreTyped` and `PlannedSliceOfDust`), `PlannedSwapsAreAtomic` (`IsAtomic` of `PlannedSpec`).
- `RefreshIndexProofs` - `IInv`: `ChainOK` (what is open follows from the history of the chain), `TableOK`,
  `JobsOK` and `FetchedOK` (each row a job fetched is of its block), `KnownOK` (docking is decided from the page
  set as read), `LoneOK` (a job with the tables to itself leaves them as the index was at its block), `LastOK`.
  A second layer (`Opened`, `AtRest`, `PagedOK`, `SeenOK`, together `Complete`) counts pages: a full page adds
  `PageSize` rows by cardinality, so a fetch that ends on a short page has seen everything. Theorems
  `IndexIsRight` (`RefreshInv`), and `DocksAreCloses` (`DocksOnlyTheClosed`) where the listing fits in
  `MaxPages` pages: `indexer.ts:43` calls the bound a ceiling, and beyond it the property fails, as section 6 says.
- `EncumbranceProofs` - `TypeOK` is inductive; its difficult step is that a fill subtracts an
  *adjusted* amount, which needs arithmetic lemmas on the haircut. `Covered`: the floor keeps
  `declared` in the wallet, `declared` is at least the sample, and the fill cannot raise a sampled
  book on its own token. `BelowMaxUtil` shows that rounding the utilisation down never admits a fill
  the exact quotient refuses. `Monotone` needs monotonicity of integer division; with types it is
  `TypedAndMonotone` (`EncumbranceInv`).
  Publishing needs `PInv`: `HashesOK` (what is listed or indexed has shipped; a hash that a request was given has
  not, and is no other request's) and `QuietOK` (a request nothing overtook has listed the live book and counted it,
  stage by stage). Without `HashesOK` the new strategy could sample itself or change what another declares. Any
  other's step ends `quiet`, so a request's own steps are all that `QuietOK` has to follow. The sample is then within
  the book (`ListSum`: six slots, each strategy once, over the sums of any finite set). Theorems `Declares`
  (`DeclaresItsBook`), `RedIsTrue` (`RedIsRefused`), and `PublishesSoundly` (`DeclarationInv`). Its last part, the
  chart, is about a sort and a filter: `Ranking` says where elements end up by counting those before them, not by
  recursion, so that `RankedIs` (the result is the set, in order) follows from facts about cardinality. Two facts of the code are assumptions: a maker's strategies are not none, and
  a feed has at most 18 decimals (with more, a price could round to nothing and be divided by).
- `ServerProofs` - of `RouteServer`, in three layers. `Inv` is types and bounds (`TypeCorrect`). `JInv` adds that
  only shared computations own pending promises: without it, one that registered nothing could be
  thought to delete its key's entry (`JoinsRunning`; with the bounds, `BoundedAndRunning`). `CInv` adds ages: a cache entry's
  read is at most a computation older than its stamp, and whoever waits does so on a promise for its
  own key whose plan, once there, is at most one computation old (`Current`).
  Of `Records`, one invariant, `HInv`, whose parts each need the one before. `ChainOK`: a transaction is one that
  Aqua and the hook allow, so a dock follows its ship. `IndexOK`: the entities are those of the blocks handled; the
  counters follow from an induction through a transaction's calls (`HandledIs`), in which a refusal's identity is what
  makes the second of a swap count for nothing. `ScansOK`: what a scan holds is every log between its head and
  the next page, and it starts and ends with the request it is for, never with another. `AskOK`: an answer was
  made from one of the two at the block it names, and stays so while the chain grows.
  Theorems `RecordsStand` (`HInv`), `RecordsAreExact` (`RecordsInv`), `VerdictsEarned` (`VerdictsAreEarned`) and
  `HistoryIsOfTheBook` (`HistoryIsTheBook`). The last needs that the swaps of a window can be put in order at all
  (`Sortable`), that the pages allowed reach the window's end for any page size (`EnoughPages`), and that a listing's
  makers are an image of its strategies (`RowCounts`). Two assumptions on the constants: there are finitely many
  strategies, and strategies of one hash have one maker, which the bytes hashed begin with (`web/lib/aqua.ts:320-327`).
- `PageProofs`, of the pages that are one machine each. The maker desk: `DeskIInv` is `StartedOK` (a job not started is `NoJob`; a dock is of a row, for the row's chain,
  pressed in a mounting of the portfolio), `SentOK` (what was sent had been simulated and went to the job's own
  chain; what its status says has happened there), `ShippedOK` (the line names a job that was published).
  They are needed because the receipt is read long after the press, when page and wallet have moved.
  `FlagsOK`: a flag is up exactly for the one job of the tab on screen that is under way, and no dock is in the
  step that reloads; it is what `OneAtATime` needs, since a tab that is left takes its flags with it and leaves its
  jobs. Theorems `TypeCorrect`, `ReportsAreTrue` (`OutcomeIsReal`), `PressesAreSingle` (`MakerDeskInv`).
- `SwapDeskProofs` - `IInv` is `PageOK` and `RunsOK`. `PageOK`: the timer is set for what is selected or not at
  all, the cache answers what it is asked, and the newest load is for what is selected unless the timer will start
  another. Without it a late answer could be the newest and of a selection left since. `RunsOK`: from the second
  reading on, a swap keeps a plan for its own pool that is good enough (`Kept`). Neither outlives a swap that is
  done, whose reload asks for what was selected when it began; `Settling` says so. Theorems `PageIsCurrent`
  (`DeskInv`), `SignsItsOwn` (`SignsWhatItReread`), `DoneWhereItRan` (`DoneOnItsChain`).
- `PageProofs` again, the panels and the radar: the advice is arithmetic: `BetterIsBetter` and `AdviceOf` turn the products the code compares
  into amounts, and a rounded share that shows nothing into dust (`AdviceIsSound`, of `AdviceHolds`). The panels
  need `Newest`: the newest load of a guarded panel is for what is selected. Theorems `SpinnersAreStopped`
  (`SpinnerIsStopped`), `PanelsSettle`. `PanelsAreRight` (`PanelsInv`) adds the search, by two layers more.
  `Stored`: the loads begun are the first numbers, so the next one is new, and what a cache or the screen holds
  answers one of them. `SearchInv`: `Sorted` (each loop has dealt with the tokens before the one it is at, and no two
  wait for one number), `AllWait` (while the stream is open every loop waits for what it asked last, and nobody else
  has asked), `OneLoop` (with one endpoint nothing is asked twice) and `Honest` (an answer given is what was said).
  `ToldIsSaid` speaks of the end only: while replies arrive it is `AllWait` that ties a number to one loop and one
  token, and so what is written down to what was asked. `Served` is the state between hearing a reply and turning to
  the next token, where the loop waits for nothing.
- `AquiferProofs` - the index lags, so nothing relates its rows to the chain's books of the same moment. A *view*
  is what each strategy is held to owe per token and which are on; `Seen` is the one the rows give. `ComesOut`: from
  `Seen` there is a trace of views along the events not yet handled, each one `Follows` the last as its event says,
  and the view at the end `Agrees` with Aqua's books. A ship, fill or dock extends the trace at its end (a ship by
  an event per token, where `ShipView` is the view halfway); a handler drops its first view, and the lemmas
  `ShippedMakes`, `DockedMakes`, `PushedMakes` and `PulledMakes` show that it leaves the rows of the second. Beside it
  `ChainOK` (a live book is one list, whole), `RowsOK` and `CountsOK` (totals and counters are the sums over `Seen`).
  Together they show what the code cannot check itself: no floor at zero is ever reached, since what a handler gives
  back was in the sum. At an empty log `Seen` agrees with the books. Theorems `BooksAreTheChains` (`BooksInv`) and
  `UtilisationIsOfOneInstant` (`UtilIsOneInstant`). `SiblingsStayCurrent` (`SiblingsAreCurrent`) adds `SibsOK`: the live
  lists are the holders in `Seen`, and what a row keeps of its siblings is what it shares a token with. Its hypotheses
  are those of section 6, without which it is false: no live hash is shipped again (`aqua.ts:225`, for all three), the
  maker's strategies are of one app (`aqua.ts:374`), and any two list at most one token in common (`aqua.ts:307`). Sums over a
  finite set are taken as the community modules define them, and the lemmas on them (`FoldStep` to `SumChange`)
  rest on well-founded induction over its subsets.
- `MakerViewsProofs` - `SharedOK`: no scan outlasts `MaxScan`, the shared one has not failed, every scan under way
  began no later than the shared one, and the stamp of the entry is at most `MaxScan` after the shared one began.
  The third is what a scan that renews another's entry needs: it is itself young. `ReqOK`: before it has an answer
  a request has no source, and an index that was judged was near enough to the head of the request's arrival.
  Theorems `TypeCorrect`, `SharedScansAreRecent` (a part of `ViewsInv`), `RecentAnswers` (`AnswersAreRecent`).
  Then the lists. A strategy is shipped once and docked once (`BornOnce`, `NeverBack`), so what the pages read so
  far tell (`Paged`, `PagesOK`) is the book at the scan's head of the blocks read so far; a newest page first
  cannot show a ship without its dock. What the cap cuts is of the oldest, since the cap takes the newest
  (`NewestListed`). With the sharing it is `ListsAreBooks` (`ViewsInv`).
  Then the answers. `Told` says of a request, stage by stage, what each field it has filled is of: `Counted` (the
  promises are those of the strategies it lists, at the block it read them), `Stood` (what stands behind them, at the
  blocks of the balance and of the allowance), `Claimed` (what the contract said at its block). It takes the
  history as an argument, which only grows, so a step keeps what older blocks told (`Whole`, `Backed`). Theorems
  `VerdictsAreReal` (`ClaimsAreReal`) and `AnswersOfOneBlock` (`AnswersAgree`). Both are about sums over any finite
  set of strategies: `SumStep`, `SumLess` and `SumGrows` evaluate the community modules' `MapThenSumSet` by taking a
  subset least in the library's well-founded order of finite subsets, whose theorems (`WFMin`,
  `FS_StrictSubsetOrderingWellFounded`) take no operator as a parameter.

Only model-checked: liveness (`SwapEnds`, `Converges`, `Answered`, `BusyEnds`, `WaitingEnds`),
`AnswersAddUp` (counts and sums over `SelectSeq`, which no installed prover evaluates) and `InstructionsAreRead`
(an induction over the bytes of a program).

## 6. Where code and documents part

Met while modelling, kept out of the properties (which state what the code does ensure) and recorded here.

On chain and in the subgraph:

- `Tap.sol:251` takes a slice outside the `try`. Slices kept after failed fills use up a PoolManager that
  holds just the input, and the next `take` reverts a swap that a listed maker could have carried
  (`Tap.sol:32-33` says a failing maker is skipped). `OneGoodMakerIsEnough` assumes a second loan.
- `Encumbrance.sol:203`: docking siblings does not lower a strategy's utilisation, which is computed
  from the declared total (`README.md:376-377` says it does).
- `aqua.ts:307` (subgraph): a docked strategy that shares two tokens stays in its sibling's missing list;
  `aqua.ts:374`: one under another app triggers no recompute; `aqua.ts:225`: a hash shipped again for a
  second token drops the first from `totalCommitted`. `MCAquifer`'s strategies are under one app and
  trade a token at a time.
- `swapvm.ts:98`: the utilisation is unbounded and `toI32` halts the index.
- The RPC scan counts a maker that refused twice in one swap twice; the subgraph counts once.

Server:

- `router.ts:432`: the replay's sweep counts a maker's wallet a second time, so a quote it publishes can
  revert (depths 5 and 1 at 2 and 4 per unit, input 27), contrary to `router.ts:294-295`.
- `indexer.ts:133`: a job with an older fetch docks what a newer one inserted (`indexer.ts:128-129` calls its list authoritative);
  `indexer.ts:82` stops silently at `MAX_PAGES`.
- `route.ts:192`: a plan nobody can fill settles no waiter's promise with a plan, and all compute again.
- `coverage/route.ts:133-134,182` counts drained sides kept by the Postgres index as under-collateralised.
- `solvencyEngine.ts:147-149` calls the overlap "the difference" of two totals; it is so only when every
  fillable strategy draws a slice (`RowsAccount` states the identity that holds).
- `refusals.ts:151-154` needs both logs; a failed scan of one returns an empty list, so a maker may be
  called unreliable for one refusal, or reliable for none seen (`reliability/route.ts:20-22`). Twelve pages
  of 1,501 blocks reach 18,012 back on Base, while `windowBlocks` reports 50,000; `history.ts:100` says
  "every strategy" and reaches 9,006 blocks.
- `aqua.ts:189` (web): the scanned window is a module-wide variable another chain's scan overwrites;
  `makerBook.ts:465`: an unreadable chain adds nothing to a ratio "across every chain"
  (`strategy/route.ts:203`); `makerBook.ts:13` promises the floor that `refusesNow` leaves out.
- `graph.ts:225` cross-checks with the first strategy's app only. A failed read is zero in
  `exposure/route.ts:93-95`, which says unknown. An index is trusted at any lag when the head read fails.
- `api/price` says that no feed is configured also when reading it failed.
- `subgraphMcp.ts:203`: an answer without a text is reported as no subgraphs found.

Pages:

- `Desk.tsx:555-556`: after a refusal for a changed book the modal counts down again and calls
  `executeSwap` without a press; after `done`, "swap again" opens a modal that starts nothing.
- A stale answer that lands in the 250 ms after a switch is shown under the new selection
  (`Desk.tsx:288-296` says not); changing the amount leaves the old route up until the next answer.
- `CrossChainRecommendation.tsx:88-94` answers from the cache without a number of its own, so an older
  request may replace it; the card compares against whatever quote is up, of another amount too.
- `Provide.tsx:436` can never refuse (`net.id` is the closure's); the transaction names no chain, and
  Base and Ethereum share an Aqua address, so a strategy built for one may be published on the other. With no
  backing anywhere the preview shows less than the route declares; `Provide.tsx:562` colours at equality what
  comment and contract refuse strictly above. `fetchExposure`, `reloadBalances` and both lookups are unguarded.
- A wallet that disconnects during a load leaves `useMakerBook`'s flag up.

## 7. Not modelled

- Gas, storage layout, event payloads, authentication, formatting, layout and rendering, and the ABI encoding
  of routes.
- `/api/pool`, `/api/price`, `/api/tokens`, `/api/beacon-spread`: read-only joins for display, without state of their own.
- `Lens.quotableDepthBatch` is `quotableDepth` per strategy. The append-only entities of the subgraph are
  modelled by the counts `Records` compares.
- In `Records`, strategies shipped by another than the maker their bytes name. The hook asks for the balance of the
  maker that is named (`Tap.sol:118-121`), so it fills none of them; the index would mix up the two ships of one hash.
- Parsing and validation of requests, configuration, token lists.
- The landing page, and the drawing of charts.
- Chain reorganisations, and RPC nodes that answer for blocks they have not seen.

What is left to do: the proof of `AnswersAddUp`.
