# FeralTravels in TLA+

FeralTravels plans overland trips. A driver writes to an assistant, Penny, who edits the
trip's itinerary through tools; the access to Penny is a subscription bought in the App
Store, given by a promo code, or managed by an admin. The server is a set of stateless
serverless invocations over one PostgreSQL database, with a web and a mobile client in front.

These modules specify the parts in which money, privacy or the driver's plan depends on the
order of events: the **subscription state**, **Penny's durable turns**, the **itinerary** a
turn edits, **fuel planning**, what the **phone** holds of the account that is signed in, and
the **breaker and the message gate** at Penny's door.
TLC checks them on small instances, TLAPS proves the main safety properties for instances
of any size. Paths below are relative to the repository.

## 1. Inventory

| Component | State | Operations | What is hard | What makes it correct |
|---|---|---|---|---|
| Subscriptions and ledger (`src/server/payments/webhook.ts`, `entitlements.ts`, `promo.ts`, `reactivation.ts`, `src/lib/promoCode.ts`) | `subscriptions` (one row per user), `subscription_events`, `promo_codes` | store webhook, transfer between accounts, promo redemption, admin revoke and undo | events late, repeated or at the same time; crashes between statements; three kinds of writer on one row | each event counts once; the newest event decides; one purchase funds one account; null never becomes "for ever" |
| Penny's turns (`src/server/repos/pennyTurns.ts`, `src/app/api/trip/replan/route.ts`) | `penny_turns`: status, created_at, one running slot per trip | accept a send, promote, run the tool loop, apply, done or error, drain the queue | the same send posted twice; sends from two devices; time budgets; process death | one turn at a time per trip; a send is applied at most once; none is forgotten |
| Account state and breakers (`src/server/payments/states.ts`, `switch.ts`, `breakerCheck.ts`, `alerts.ts`) | resolver over a row and the account's age; switch, lock and breaker readings cached per instance | `getAccountVerdict`, `checkBreakerGate`, `setPennyLocked`, `claimAlert` | stale caches, one on top of another; reads in flight over an invalidation; failed reads | a flip is heeded after two lives of a cache, the spend after one; one alert per cooldown |
| Itinerary (`src/server/repos/trips.ts`, `src/lib/penny/schedule.ts`, `contiguityGate.ts`) | legs, in `sort_order`, rest days, dates | add, edit, move, delete a leg; `rebuildTripSchedule`, `repairLegContinuity` | a batch of edits half applied; routes looked up for ends that move on; repairs that must settle | legs meet; the order is the calendar's; a route is of its leg's ends; rebuilding is idempotent; what is driven stays |
| Finn (`src/lib/finn/`, `src/server/fuel.ts`) | stops and `fuel_status` per leg | place stations along a leg; plan lazily, earlier days first; invalidate; pick, dismiss | days opened in any order and at once; kills; an edit while a plan is computed; arithmetic at the edge of the range | never dry between stations; the plan does not depend on the order of opening; picks survive |
| Sign-in (`src/server/auth/`) | one-time codes, resend ladder, sessions | send, store, verify, exchange | simultaneous submissions and sends | a code opens one session; the ladder counts every send |
| Message gate (`src/server/messageGate.ts`, `src/lib/strikes.ts`, `src/server/ipLimit.ts`) | strikes and lock per account, counters per address | judge a message, bump a counter | strikes read before a slow call and written after | one message at a time, three in a row lock, and only those |
| Penny's tool loop (`src/lib/claude.ts`) | the conversation of one turn | model calls, tools, some of which write at once | outlives its budget | modelled only as far as the turn sees it |
| Onboarding (`src/server/onboarding.ts`) | answers on the trip | snapshot, submit an answer | answers repeated or out of order | the question asked is the first unanswered one |
| Account deletion (`src/server/deleteAccount.ts`) | everything of one user | delete, revoke tokens | partial failure | rows gone, tokens revoked |
| Client caches (`src/lib/resourceCache.ts`, `entitlementCache.ts`, `pennyRunStore.ts`; `mobile/lib/api.ts`, `cache.ts`) | entries in memory and on disk, requests in flight, generation; the token | revalidate, edit, sign in and out, 401, launch | answers after sign-out; slow answers; a disk that refuses | nothing of the last account; no stale block |
| Purchase flow (`mobile/lib/purchases.ts`, `purchaseFlow.ts`) | the id RevenueCat bills; a screen's phase | identify, buy, restore, poll | a purchase while the id is still asked for; answers after sign-out | the buyer is billed |
| Repositories of routes, stops, vehicles, tasks, announcements, usage; UI; scripts | rows | plain reads and writes | - | - |

How they interact: everything meets in the database. The store calls the webhook route,
which answers 200 once an event is dealt with and 500 when anything throws; the store then
repeats it. A send to Penny first reads the account state, which reads the subscription
row; it then creates a turn, and the turn edits the itinerary, which invalidates fuel plans.
Opening a day reads legs, vehicle and declared tank and writes stops and a status. The
clients read turns, trips and entitlements back by polling, through the resource cache.

## 2. Modules

| Module | What it is |
|---|---|
| `SubscriptionRules` | the pure rules about one row: the type map of events, upsert, what a revoke remembers, what an undo restores, which rows a promo may not replace |
| `Subscriptions` | every writer of the two payment tables, one database statement per step |
| `SubscriptionProperties` | what the payments code is trusted for, and the inductive invariant behind it |
| `PennyTurns` | a send from its post to the last turn its request drains |
| `PennyTurnProperties` | what a driver may count on, and the inductive invariant behind it |
| `ItineraryRules` | the pure rules of the itinerary: order, gate, insertion, rebuild, repair, dates |
| `Itinerary` | what a turn does to the legs, edit by edit, and the pipeline after it |
| `ItineraryProperties` | what a driver may count on after a turn |
| `FiniteOrders` | lemmas on finite sets of numbers and orders: a least and a greatest, counting what is below |
| `ItineraryRules_proofs` | lemmas on those rules: the order of legs, the rebuild, what a repair plans |
| `FinnRules` | the arithmetic of fuel planning: the tank walk, the anchor, one round of placement |
| `FuelPlans` | day-opens and what changes under them, one statement or search per step |
| `FuelPlanProperties` | what lazy planning promises, with a reference that plans the whole trip in order around the driver's picks, and the five inductive invariants |
| `MobileSession` | the phone's cache, requests, token and billing id through sign-ins, refusals and launches |
| `MobileSessionProperties` | what the phone may never show or bill after its account changed |
| `Admission` | what a message passes before Penny: the breaker with the owner's lock, the account's cap, the strikes |
| `AdmissionProperties` | what the owner and a driver may count on there, and the inductive invariant behind it |
| `ClaimOnce` | the abstract promise of the first two components: work is claimed at most once and takes effect at most once, after the claim |
| `MCSubscriptions`, `MCPennyTurns`, `MCItinerary`, `MCFuelPlans`, `MCMobileSession`, `MCAdmission` | the instances TLC runs |
| `Subscriptions_proofs`, `PennyTurns_proofs`, `Itinerary_proofs`, `MobileSession_proofs`, `Admission_proofs`, `FuelPlans_proofs` | the inductive invariants and theorems |

`SubscriptionRules` is extended by `Subscriptions`, `ItineraryRules` by `Itinerary` and
`FinnRules` by `FuelPlans`. The property modules of `Subscriptions` and `PennyTurns` instantiate
`ClaimOnce`, with the claims read off the tables: a ledger row or a redeemed code in one, a
turn that has left the queue in the other.

### Subscriptions

`sub`, `ledger` and `redeemed` are the tables. `proc[r]` is one invocation: the statement it
is at and what it has read. `ReceiveEvent` finds the user, reads the newest applied
timestamp and decides; `RecordEvent` inserts the ledger row; `LoadExisting` and
`WriteSubscription` read and overwrite the plan. A transfer goes `ReadOrigins`,
`MoveSubscription` and then one best-effort `LogOrigin` for every origin. The transfer is a
transaction, but its select takes no lock and the database runs at READ COMMITTED, so the
select and the writes are two steps. The admin's two transactions are one step each: what
they read is what they lock or recompute in SQL. `Crash` ends an invocation anywhere; what
it has committed stays. The store delivers an event again until `answered`, and beyond that
up to `MaxDuplicates` times. Dates are naturals on one axis; our clock is `clock`, and an
event may arrive at any time from its own timestamp on (`Prompt` names those that are
answered before the clock moves past them). Product ids, payloads and logging are left out.
`says` in a ledger row is not a column: it is the status that the row's type and payload
report, so that a row's meaning is there to compare with the plan.

### Penny's turns

`status` and `created` are the rows of `penny_turns` and their order; `req[r]` is an
invocation with its program counter, its turn and the rounds it has drained. The partial
unique index and the status guard of the update are `Promotable`. `LoopTimesOut` rejects
the race but leaves the tool loop in `lingering`, as the code does. `MarkTurnDoneThrows`
commits or does not: an update whose answer is lost is both. `ApplyActions` is everything
between the end of the loop and the update to done. Its failure, `ApplyThrows`, is before
the first action or after the last; what a half dispatched batch leaves in the itinerary is
for the itinerary module. `Crash` ends a request anywhere, `HardKill` where the time of the
request (300 s) may run out although each loop keeps its own budget (280 s): from the drain
on. What decides before a turn exists (consent, subscription, spend, message gate, strikes)
only decides whether there is a send, and is left out. A lookup that finds the key already
there is no step: it changes nothing.

`effects` in both modules and `capped` in the second are history variables: no guard reads
them.

### The itinerary

`PennyTurns` says that the turns of a trip run one after the other; `Itinerary` is what one of them
does. `legs` is the table, from leg ids to legs; `turn` is the batch under way and how far it is.
`StartTurn` reads the trip and passes the batch through the gate (`FindGapCreatingDeletes`); every
edit is a step (`AddLeg`, `UpdateLeg`, `DeleteLeg`, `RenameTrip`, or `Skip`), but for a position
report, which is three: `ReportPosition` commits the new start of the leg, `RerouteLeg` asks
Directions and stores the route, `PinTrip` writes the trip's row, and `ReportThrows`,
`PinTripThrows` and `Killed` come in between. Then come `RebuildTripSchedule`, `PlanRepair`, one
`RepairLeg` for every leg to be chained, and `SyncTripEndDate`, each best effort as in `route.ts`.
The `...Throws` actions are the statements that fail after part of their work, `EditThrows` is a
failure before any; `Killed` ends the turn anywhere. Directions may find no route at any call.
`travelled`, `strayed` and `troubled` are history variables; `strayed` holds the legs whose new
start is committed and whose route from there is not, and no guard reads it but the one of
`PinTripThrows`, where it tells whether the re-route had succeeded.

Places are marks on a line in km, so that the thresholds of 1 and 50 km bite. A read that
orders by `sort_order` may return equals in any order (`Ties`). Left out: titles, notes,
costs, names, waypoints, segments; edits that null a coordinate; the distance and time of a
leg, which come from Penny on an update (what `route` claims is the geometry); assigned
nights, which no caller passes any more (`anchorByLegId` is empty), so that a rebuild
inserts and deletes nothing; writers outside a turn.

A trip to start from is one that earlier turns have settled (`SettledTripAssumption`): its
legs are in order and chained, and its routes are their legs' own. A report says where the
driver is and, as `reportPosition.ts` fills it in, on which day (`BatchAssumption`). A trip
of rest days alone is never rebuilt, so that two of its legs may share a `sort_order` for
ever and the leg the end date was counted from may be read first or second:
`EndDateIsLastDay` asks for some order of the equals.

### Fuel plans

`route`, `range`, `declared` and `unplaced` are what a plan rests on; `status`, `cached` and `stops`
are what it leaves. `req[r]` is a day-open: `ReadStatuses` and `DecideCascade` queue the earlier
days the tank depends on (`sourcePrerequisiteLegs`); then each is planned as in `planOneLeg`:
`LoadLeg`, `MarkComputing`, `ReadTank` or `ReadDefaultVehicle`, `WalkBack`, `LookAhead`,
`SearchLeg`, the placement loop round by round, the transaction that replaces the stops as
`BeginStore`, `DeleteOptions`, `CommitStore` (at READ COMMITTED a delete does not see what another
is about to commit, so duplicates may remain, as in the code), and `Settle`. `FailLeg` and
`FailTarget` write failures; `SearchThrows` is whatever fails inside the one `try` of `planOneLeg`,
`Killed` whatever fails outside it. The actions of the last section change the trip and invalidate
leg by leg.

Several selects of one walk are one step, and so are the vehicle and the declaration. The
trip's vehicle may be unreadable: then the user's default one is planned for, with whatever
range it has. A fuel stop added by hand without a distance (`unplaced`) is a refuel for the
cascade (`HasFuelStop`) and nothing for the tank's walk (`Refuels`), as in the code. Routes
have a geometry and lengths in whole km. A search returns the stations of the route or
throws; how stations are found, filtered and projected, and incomplete results, are left out,
and so is `MAX_ITERATIONS`, which no route reaches. One editor changes the trip at a time.
The placement loop awaits nothing, so its rounds could be one step; they are several because
that reads better. `pure`, `calm`, `grounded` and `upToDate` are history variables: they tell plans
that were under way during a change, which the code cannot tell, from those the properties
are about. A calm request was opened after every change, and so was each that was at work
beside it: an older one may still write down a plan of the trip as it was, or a failure that
lifts a warning, behind the back of one that has counted on it. `NeverOverUnplannedDays` speaks
of calm requests. It excuses days that have nothing to plan, and days behind one that failed
meanwhile: the failure takes the place of a warning at which the tank's walk had stopped, and the
days before it were never asked for.

A late plan is not stopped by the change it missed: it may leave stops on a day that is planned
again afterwards, or that is now a rest day, where the tank's walk still takes them for refuels.
So a day counts (`Firm`) if it is a drive, or a day off that leads from one place to another, and
is `Whole`, or any other rest day and is `Bare`. The driver who picks such a leftover
changes what later plans stand on, so that for the history variables `SelectStop` of it is a change.

Which plans are compared with the reference is said by `grounded`, and it is meant to be as many as
the code's promise covers. A request that was opened with nobody at work, and is met by nobody until
its walk (`alone`), counts whether or not the days before it had been planned: its cascade plans
them, and that it does is what the comparison tests. One thing is asked of them, `InSight`: each is
planned or there to be planned, and no fuel stop, warning or declaration lies behind an unplanned
one, because behind such a day the cascade does not look. An edit of a day before one that keeps its
stops, a stop added by hand, or a declaration on a day nobody has planned, leads there; the run on
`NothingUnplannedBehind` and section 5 say what comes of it. A request that others have met counts
if its walk found the days before it `Firm`: another may at that moment be planning one of them, and
then the code fails the day instead of waiting for it. A plan for the default vehicle is not `pure`,
and does not count: it is no plan of this trip, though the code stores it as one.

A pick of a stop that an up-to-date plan has placed is no change: the reference is planned around
the picks (`TripAsItIs`), and comes out the same. `NeverPastRange` speaks of days with fewer than
`MAX_STOPS_PER_LEG` stops: at the limit the plan may have been cut off, and section 5 says what then.

### The phone

`token` is what the keychain will hold once its calls have ended, `keychain` what it holds,
`settling` the call under way; `held` and `disk` are the cache, `generation` its counter, `requests`
what is in flight. A request is served (`Serve`) and its answer lands later (`Arrive`, `Tell`,
`Identified`), or it fails, or it is refused with a 401 (`Reject`), which signs out whoever is
signed in by then; two at once clear the token twice, and their keychain calls end as one. A list
whose load failed leaves an empty one where none is held (`EmptyListed`). `Launch` is a kill and a
start. The data of an account is a version that only grows; a verdict is blocked in the odd ones.
Asking for the identity and logging in to RevenueCat land together; purchases are one at a time; a
screen that outlives the sign-out may still store what it fetched. The keychain is external
(expo-secure-store): it serves calls in order and never refuses, while the disk may refuse, which
leaves the old file. Left out: listeners and rendering, the indicator of running turns, offerings,
restore and offer codes, which go through the gate of `Buy`.

### At Penny's door

`lock` is `app_meta.penny_locked`, `usage` the rows that cost money, `strikes` the two columns
of the account. `lockCache[i]` and `factCache[i]` are the module variables of `switch.ts` and
`breakerCheck.ts` in instance `i`; the second keeps the lock the first gave it, stamped anew.
`req[r]` is a message: it asks for the facts (`Post`), whose two kinds of read are answered
or fail (`ReadSpend`, `ReadLock`, `...Fails`), and an answer that is cached lands in a step of
its own (`LockAnswered`, `FactsAnswered`); then `CheckCaps`, `ReadStrikes`, `Classify` and
`WriteStrikes`, each failing or cut off anywhere (`Killed`), and `RecordUsage` once Penny has
answered. `Look` is the admin's page, which asks past the facts' cache and through the lock's.
`FlipLock` writes the lock; `DropCaches` follows on that instance alone.

The four aggregates are one, a count of turns in one window, and so are the two caps; the
sign-up breakers are the same code behind another gate. Where a query throws, `Promise.all`
answers before the others are in; here it waits for the lock. How a message is sorted is left
to chance (`Tiers`). Left out: admins, who are exempt; alerts and the address counter, which
are one atomic upsert each; the cost of the classifier; the paywall switch, the same cache
failing open. `flippedAt`, `failedAt`, `row` and `alone` are history: `row[a].junk` is the row of junk
that any real message and the lock end, and `calm` says that since it last ended no message overlapped
another and no write was lost.

## 3. Runs

| Run | Instance | Shows |
|---|---|---|
| `SubscriptionsConcurrent.cfg` | 2 accounts, a stranger, 2 requests at once; a purchase, a refund and a transfer, a code, an admin action, one duplicate, one crash or lost insert; about 262,000 states | `EffectAtMostOnce` (refinement of `ClaimOnce`), `EntitlementHasTrace` |
| `SubscriptionsSequential.cfg` | one request at a time; 5 events of a subscription's life, three of which may be late, one duplicate, a code, 2 admin actions; about 35,000 states | `NewestEntrySays`, `OnePurchaseOneAccount`, `NoEndlessStoreRow`, `UndoRestoresWhatWas`, `AppliedTakesEffect` |
| `SubscriptionsRace.cfg` | a renewal and a refund, 2 requests | violates `NewestEntrySays` |
| `SubscriptionsTwoAccounts.cfg` | a purchase, its transfer, a late renewal, one lost insert | violates `OnePurchaseOneAccount` |
| `PennyTurns.cfg` | 3 sends on one trip, 2 requests, a drain of one round, one mishap of any kind; about 229,000 states | `OneTurnPerTrip`, `DoneMeansApplied`, `AppliedAtMostOnce`, `NoForgottenTurn` |
| `PennyTurnsLoop.cfg` | the same without mishaps | violates `OneLoopPerTrip` |
| `Itinerary.cfg` | 3 trips of 3 to 5 legs, 2 turns out of 21 batches of up to 3 edits, 2 mishaps; about 204,000 states | `DaysInOrder`, `NeverJumps`, `RouteIsOfItsLeg`, `RebuildSettles`, `DeletesLeaveNoNewGap`, `BehindYouUntouched`, `EndDateIsLastDay`, `RebuildKeepsTheRoute` |
| `FuelPlans.cfg` | a trip of 3 days on a tank of 4, 2 requests, 2 opens, one change or failure of any kind, to and from a rest day too; about 990,000 states | `OpeningOrderDoesNotMatter`, `NeverPastRange`, `WarnedOnlyIfImpossible`, `FewestStopsThatReachTomorrow`, `NeverOverUnplannedDays`, `OneSearchPerLeg`, `ComputingIsHeld`, `PicksAreKept` |
| `FuelPlansDeclared.cfg` | the same trip, one request, one declaration | violates `NothingUnplannedBehind` |
| `MobileSession.cfg` | 2 accounts, 2 sessions, 3 requests of which 2 are under way at once, a cache of 2 entries, 3 resets or launches, one refusal of the disk; about 1.5 million states | `SignedInSeesItsOwn`, `OneRequestPerKey`, `AnswersInOrder`, `DroppedVerdictStaysDropped`, `BuyerIsBilled` |
| `Admission.cfg` | one account, 2 instances of which requests reach one, 2 requests, 3 messages, caches of 2 ticks and a clock of 3, one flip in the first tick, one failure; about 1.9 million states | `BreakerIsHeeded`, `StrikesFollowTheRow` |
| `AdmissionPinned.cfg` | 2 messages, no flip, one failed read | violates `FailedReadPinsNothing` |

**Bounds.** Two requests are enough for every race between two statements; the proofs
cover more. Two accounts and one purchase are what a transfer is about. The five events of
the sequential run hold every kind of change (buy, move, renew, cancel, refund), and the
late ones arrive in every order. `MaxClock`, `MaxFaults`, `MaxDuplicates` and `MaxAdmin`
bound the clock, crashes, repeats and admin actions. Three sends and two requests are the
least with a turn running, one being drained and one arriving; `MaxDrain` is 1 instead of 5
so that the bound of the drain is reached. One mishap is enough to lose any one statement or
request. All three kinds of mishap can happen, but one per behaviour, and one trip stands for any:
the proofs do not limit the number of mishaps. Only `SubscriptionsConcurrent.cfg` uses a
symmetry set, of the two requests, among the runs on the first two components; the others
check liveness or have nothing to permute. Deadlock is not
checked: a server with nothing left to do stops.

The trips of the itinerary have a rest day between drives, two visits of one place, a drive whose
end is not known, and neighbours 30 km apart (within the gate's 50 km, beyond the repair's 1 km).
Two turns are needed for a report to be followed by an edit behind the driver, or a half done turn
by a whole one; the second mishap is for a failed repair after a failed edit. The fuel trip has a
rest day, then a day that fits the tank but leaves too little for the next morning, then one of two
stops; a change turns a day into a rest day or into a long drive past no station, and a declared low
tank makes a day too remote. Two opens and one change are what a late plan, a repeated plan and a
plan over a failed day need; the requests are symmetric. The phone's three generations hold a
sign-out, a sign-in and a launch; three requests started hold one that is late, one that is joined
and one of another kind, and no more than two are under way when one starts (the identifications the
app starts by itself not limited); a cache of two entries evicts the third key; the accounts are
symmetric. At Penny's door a cache lives for two ticks and the clock runs for three: an entry of an
age of one still serves, the facts' cache stamps it anew, and it serves for one tick more, so that
the two lives add up; a request may live for one tick, so that a reading lands later than it was
asked for. Instances share nothing but the tables, so requests reach one of them, and the flip is
made there or elsewhere, in the first tick (`LastFlip`): a later one would not be two lives old
before the clock ends. The account starts with one strike; two messages more lock it, and a third
comes after the lock. One turn in the window opens the breaker. `SignedInSeesItsOwn` needs the bound
of one refusal: a disk that refuses at the sign-out and at the sign-in both leaves the old account's
snapshot for the next launch.

**Events are not free.** The sequential instance delivers the purchase and the transfer
promptly, and one request runs at a time. Without the first, a transfer that overtakes its
purchase breaks `NoEndlessStoreRow` (section 5); without the second, a race breaks
`NewestEntrySays`, and `SubscriptionsRace.cfg` shows it. Both are what the code does. Section 4 says for any
events what is needed of them. The origin of a
transfer is excluded from `NewestEntrySays` and `UndoRestoresWhatWas`, since a transfer
asks for staleness at its destination only (see section 5).

**Fairness.** `Itinerary`, `FuelPlans`, `MobileSession` and `Admission` state no fairness and check
safety only: their code has no timer or retry that would end what was interrupted. In the others,
`Continue(r)` is weakly fair: the platform runs what it has started, and for Penny the budget ends
every loop. Events are strongly fair: RevenueCat repeats an event until it gets a 200, and the
platform starts an invocation for it however busy the ones modelled here are. Crashes, mishaps,
sends, codes and admin actions are never fair: nobody promises them. `AppliedTakesEffect` is checked
where nothing crashes, since a crash between the ledger row and the write loses an event for good,
as `webhook.ts` says it accepts. `NoForgottenTurn` excuses what a mishap or the drain's bound leaves
behind: the code leaves both for the next send.

## 4. What is proved

`Subscriptions_proofs`, for any accounts, events, codes, requests and bounds:
- `TypeCorrect`: `Spec => []TypeOK`. The strengthening `Typed` adds what each step has read
  (`RequestOK`): a request that writes has a user and an event to write.
- `ClaimsRefined`: `Spec => EffectAtMostOnce`. `ClaimsHeld` is the invariant: an unclaimed
  token has no effect; a request between claim and effect holds the claim alone, and the
  effect has not happened. The steps that insert a ledger row or claim a code map to
  `Claim`, those that write the plan to `Effect`, the rest stutter.
- `NoEntitlementWithoutTrace`: `Spec => []EntitlementHasTrace`, with `TraceFirst`: whoever
  is about to grant has already left the trace.
- `PlanFollowsLedger`, `UndoRestores`: `Spec => []NewestEntrySays` and
  `Spec => []UndoRestoresWhatWas`, if there is one request and no fault, the conditions of
  the sequential run; with two requests the race of section 5 breaks the first.
- `NoRowIsEndless`: `Spec => []NoEndlessStoreRow`, under the same conditions and
  `EndsComeFirst`.
- `PurchasePaysOnce`: `Spec => []OnePurchaseOneAccount`, under the same conditions and
  `EventsFollowOwner`.

The first two of these four share `InTurn`. The plan alone says nothing of a revoke to come: an
account agrees with its ledger (`Agrees`) both as it stands and with the revokes taken off, which is
what makes an undo right. While a request works, the accounts it has half written are excepted
(`HalfWritten`) and what it holds for them is the newest entry of theirs (`HasTheNewest`, which
needs the staleness check), no entry of the ledger is ahead of the ones already said
(`NothingAhead`), and a second revoke keeps the plan the first had remembered (`RevokesRemember`).

The last two do not hold of every sequence of events: the code takes an event at its word, and
section 5 and `SubscriptionsTwoAccounts.cfg` show what comes of it. So they say what they need of
the store, as predicates on the constants (`SubscriptionProperties`). `EndsComeFirst`: an event for
a live plan that carries no expiry, and each account that a transfer names as an origin, comes after
a prompt event that gave the account one; and a transfer has an origin among our accounts.
`EventsFollowOwner`: there is an account that each purchase belongs to at each moment (`Owners`),
such that an event names the purchase and is sent to the account it belongs to, and not of the
moment at which it changes hands (`ReportsToOwner`); a change of hands is a transfer, and every
transfer to an account of ours is prompt (`MovesAreTold`); and it takes all that an origin has had
since a prompt event told of a purchase of it (`MovesTakeAll`). Everything not named prompt may come
as late as it likes, or never, in any order and more than once. `LifeIsTold`, an ASSUME of
`MCSubscriptions`, has TLC find that the events of the sequential run satisfy both.

Both rest on `ToldInTurn`. Whatever is prompt was recorded before our clock moved past it, and what is
recorded is in the hands of the one request or has taken effect (`EventsInTurn`). So when anything later is
handled, what the account was promptly told before has happened (`ToldHasHappened`), and no
entry of the account is newer than what is in hand (`HandlesInTurn`). `EndsInTurn` then
needs little more: a row never loses its end, but for the undo of a revoke where there was no row, and
that row has none; so the expiry an event leaves out is found in the row.

For `OnePurchaseOneAccount` the row must be compared with someone who knows better. `Holder` is the
account a purchase belongs to as far as it has been carried out: in the moment of a transfer it is
still the old owner until the transfer has happened. Rows entitle by a purchase of their holder only
(`HoldersEntitled`). A late event of a former owner must then be stale, so whoever has lost a
purchase has a ledger entry of the loss, or is left to be given one by the transfer at work
(`LostIsLogged`): this is the insert the code calls best effort, and why no fault is allowed. And a
transfer must take away what it is said to take away, although it copies the purchase from whatever
its origin's row names: that is one the account has had since it was last promptly told
(`NamesInTurn`). TLC checked the three invariants, before they were proved, on the sequential
instance and on one with three accounts, two purchases and nine events (about 310,000 states).

`PennyTurns_proofs`, for any sends, trips, requests and bounds:
- `TurnsTypeCorrect`: `Spec => []TypeOK`.
- `SlotExclusive`: `Spec => []OneTurnPerTrip`.
- `DoneWasApplied`: `Spec => []DoneMeansApplied`.
- `TurnsRefined`: `Spec => AppliedAtMostOnce`.

`OneTurnPerTrip` is not inductive: nothing in it ties a request to its row. The
strengthening `TurnsInv` adds that a request before its effect has its turn `running`
(`SlotHeld`, `BeforeEffect`), that at most one turn of a trip is running (`OneRunning`),
that no two requests hold one turn (`HeldByOne`), and how often a turn has been applied at
each step (`EffectsMatch`). A request past its effect no longer keeps the slot: its update
to done may have been committed and its answer lost, so that another request is already at
work on the trip when it marks the turn as an error. That is why `Works` ends with `apply`.

`MobileSession_proofs`, for any accounts, keys, sessions, requests and bounds:
- `SessionTypeCorrect`, `KeysAskedOnce`, `BuyerBilled`, `VerdictStaysDropped`:
  `Spec => []P` for `TypeOK`, `OneRequestPerKey`, `BuyerIsBilled` and
  `DroppedVerdictStaysDropped`.
- `AnswersStayInOrder`: `Spec => AnswersInOrder`.
- `OwnAccountOnly`: `Spec => []SignedInSeesItsOwn`, if the disk refuses at most once.

They share one invariant, `SessionInv`. `BuyerIsBilled` alone says nothing of an
identification under way: `TokenPhase`, `OwnIdentification` and `KnownId` tie the token, the
call under way and the id the store remembers to one account, unless an identification
outlived a sign-out. An answer is in order because what it may replace is no newer than what
was there when it was asked (`AnswersOld`), and one request per key asks at a time. A dropped
verdict stays dropped because the disk holds what memory holds unless it refused
(`DiskFollows`). For `SignedInSeesItsOwn`, `OwnEntries` is added: what is held and on disk is of
the account that is signed in, and in between there is nothing but a snapshot the disk has
refused to clear; a second refusal would break it.

`Admission_proofs`, for any accounts, instances, requests and bounds:
- `AdmissionTypeCorrect`, `BreakerHeeded`, `StrikesInARow`: `Spec => []P` for `TypeOK`,
  `BreakerIsHeeded` and `StrikesFollowTheRow`.

Their invariant is `AdmissionInv`. A message that has passed says nothing of what the caches hold,
so each reading carries its own bound: a lock in its cache is wrong only if it was flipped since it
was asked for (`LockCached`); what a request or the facts' cache has of it, only if that was less
than one life earlier, or the value is TRUE and a read failed no earlier (`LockRead`); and a sum
covers every turn recorded before it was asked for (`FactsCached`, `ReadsOK`). The two lives of
`LockIsHeeded` are these two in a row. `Stamp` matters: counted from the landing, an answer could be
of any age. For the strikes, `JudgedAlone` says that a message judged by itself has read what is
stored, so that what it writes is one step from it. `RowIsOwed` ties the row of junk, which any real
message ends, to the count that only a message judged alone and stored ends: while messages come one
by one they are the same, and where they overlap only the second bounds the strikes. The lives need
to be positive and nothing else is asked of them: the bound on how long a request runs is not used.

`Itinerary_proofs`, for any trips, batches, turns and mishaps:
- `TypesHold`, `RoutesBelong`, `BehindStays`, `SettledInOrder`, `SettledChained`,
  `RebuildIsIdempotent`, `EndDateHolds`, `GateLeavesNoGap`: `Spec => []P` for `TypeOK`,
  `RouteIsOfItsLeg`, `BehindYouUntouched`, `DaysInOrder`, `NeverJumps`, `RebuildSettles`,
  `EndDateIsLastDay` and `DeletesLeaveNoNewGap`.
- `RebuildKeeps`: `Spec => RebuildKeepsTheRoute`.

They rest on `ItineraryRules_proofs`, which needs no state. Whatever order a read gives to
legs of equal `sort_order`, it is a total order (`PrecedesOrders`), so a first, a last and a
previous leg exist, and counting the legs before each numbers them from 0 without a gap
(`FewerBelow`, `AllNumbers`, `IndexCounts`). The rebuild is one more such order: by drive,
and behind each drive its rest days (`BeforeOrders`); `Rank` counts in it (`RankCounts`), so
what is rebuilt is numbered, keeps its drives in order and has every rest day behind a leg
that ends where it is spent (`RebuiltIs`, `RestsAreBehind`). If no two drives end at one
place, the nearest stop of a moved rest day is the one it was moved to, and the order is
found again (`RebuiltAgain`).

Their invariant is `IInv`. `RouteIsOfItsLeg` must hold between the statements of a report, where
start and route differ for the legs in `strayed` and for no others, whatever is killed there. It is
inductive only with what a repair has yet to write: its target is a leg of the trip, of which there
is one target, and a retry starts where the leg does (`TargetInv`). `BehindYouUntouched` needs that
the drives behind come before the current leg in the order, which every later edit and rebuild
keeps, and that none of them is a target (`BehindInv`): the plan of a repair takes only legs that
come after the current one. What holds of a settled trip is established part by part, so
`SettledInv` says it at each step of a whole pipeline: after the rebuild the trip is in order,
during the repair every leg ahead is chained or still has its target (`WillBeChained`), before the
date is written all are chained; and until the next edit is applied nothing of it is lost
(`Undisturbed`). A repair writes no end and moves no rest day, so chaining one leg never breaks the
link to the next, and its targets may be worked off in any order.

`DeletesLeaveNoNewGap` compares what the gate simulated with what the dispatch then does. The
simulation is a fold over the batch. For a batch of deletes the states it passes through can be
written down, what is left after the deletes at each set of places, so the recursive function of the
fold exists, and a smallest place where it differed from them would not differ (`SimulateDeletes`).
Gaps depend on order and ends only (`SameGaps`), so a batch whose simulation shows none leaves none,
and if one delete is the culprit the same is known without it (`GateHolds`). `GateInv` carries this
to the end of the batch: there was a trip the gate saw, of which the legs are what the deletes
dispatched and not held back have left (`GateSaw`).

`FuelPlans_proofs`, for any trips, days, requests, tank and bounds:
- `SearchedOnce`, `ComputingHeld`, `FuelTypes`, `SourcedInOrder`, `FewestStops`:
  `Spec => []P` for `OneSearchPerLeg`, `ComputingIsHeld`, `TypeOK`, `NeverOverUnplannedDays`
  and `FewestStopsThatReachTomorrow`.
- `PlansAreOrderFree`, `RangeIsNeverPassed`, `WarningsAreHonest`: `Spec => []P` for
  `OpeningOrderDoesNotMatter`, `NeverPastRange` and `WarnedOnlyIfImpossible`.
- `PicksKept`: `Spec => PicksAreKept`.

The first invariant is `LazyInv`. A bill is one exactly when the memo holds an answer
(`BillIsMemo`), so a search that finds the memo filled is never made. A computing day is held
by a request at every step between its mark and its outcome, also through the clean-up of a
failure (`MarkIsHeld`), and what such a request writes is never the mark again
(`OutcomeIsKnown`); a request that plans has a day to plan (`HasADay`). What a transaction is
about to delete is the planner's, since a pick waits for the rows a delete has locked
(`VictimsAreOptions`). These proofs carry the shape of a request and not its types.

The types need the arithmetic. The tank's walk is a recursive function over the days, shown to
exist day by day (`WalkExists`), whose values are whole kilometres from zero up, because what a
stop or a declaration leaves is clamped; a placed stop is one of the leg's stations
(`FarthestIsSafe`); and a number is free for the rows of a plan while those in the table and
those about to be deleted are finitely many (`SomeNumberIsFree`).

`NeverOverUnplannedDays` says something of the moment a day is settled; what makes it true is
decided when the request reads the statuses and, later, the stops, while others write both.
`CalmInv` ties the steps together. A day is `Covered` when every unplanned day before it has a
`Stopper` behind it, a stop, a warning, a failure, a declared day or a stop without a distance. What
a request read as unplanned includes all that still is, and each warning it read is covered
(`SeenIsCovered`); so the day at which it starts is covered and every unplanned day behind it is on
its list (`PlansInOrder`), whichever day the anchor turned out to be. A calm request only ever turns
a covered day into a planned one (`CoverKept`) or into a failed one, which is a stopper
(`CoverGrows`), and takes its days in their order, so this holds for all others at each step
(`CoverStays`).

`FewestStopsThatReachTomorrow` is a comparison with every other choice of stations, made when
the last stop is placed. `GreedyInv` makes it at each round: whoever gets through to the next
day's fuel has stopped at least as often up to where the plan stands (`GreedySoFar`). A round
keeps that because, where the end is out of reach, every such choice has a station in reach
ahead (`StationAhead`), and the plan takes the farthest. When the loop ends with the reserve out
of reach no choice reaches it (`ReachesOn`); otherwise the stops are a chain, each in reach
of the one before, and the end of the last (`ChainIsDriven`).

`PlansAreOrderFree` and the two beside it speak of what a whole series of requests has left behind.
`ReferenceInv` compares it with the reference, day by day and field by field: what is up to
date of a day, its stops or its status, is what the reference has there, and a warning of the
reference is one no choice of stations averts (`PlansAgree`); a request that nothing has
disturbed has read the trip as it is (`ReadIsSo`), and if it stands on planned days
it is planning the reference's day (`PlansReference`). An ungrounded
plan may be anything, but marks nothing as up to date. The reference is two recursive functions,
one over the stops of a day and one over the days; that they have a solution is proved by
supposing a first value that differs (`GreedyFromIs`, `ReferenceIs`). On firm days the tank's
walk, which goes back and stops at the first refuel or warning, burns what the reference burns
going forward from the first day (`BurnIsReference`); the look-ahead leaves the same reserve
(`LookIsReference`); each round of the placement puts the stop the reference puts next and leaves
it the rest to place (`PlacedOne`, `PlacedAll`). A plan is stored around the picks, so a stop of it
that the driver picks at whatever step is still a stop of the reference (`PicksOfThePlan`). From
`PlansAgree` the three properties follow: a day of the reference that is not warned is driven on its
stops.

That a request which meets nobody stands on planned days is what its cascade is for, and is proved as
`SteadyInv`. When it is opened every day before its own is firm, or there to be planned where the
cascade looks (`InSight`); what it reads of them is so (`SteadyReq`); so the days it queues are all
that are not firm (`CascadeFillsIn`), each with somewhere to go, which ends as ready or warned and
not as `none`. While it plans one, what the walk found before it keeps it grounded, the rows its delete
has seen are all there are, and so the day is firm when the next begins (`GetsFirm`, `SettleSteady`).
Without the cascade, or with the newest day first, none of this holds, and TLC finds the reference missed.

TLC checked `ReferenceInv` and `SteadyInv` on the instance of `FuelPlans.cfg` before they were
proved, and the first on variants with a rest day that leads somewhere, a rest day without
coordinates and a limit of one stop.

The assumptions are the named ASSUMEs of the modules: the constants are of the right kind,
and `None` is none of them. TLC evaluates them in every run.

Only model-checked: `AppliedTakesEffect` and `NoForgottenTurn`, which are liveness under fairness
and out of the prover's reach. Every safety invariant and action property that a passing run checks
is proved.

## 5. What the code does otherwise than it says

Five runs end in a violation; each quotes the comment or test it contradicts in
`PROJECT.json`, under `findings`.

1. *A renewal beats a refund.* `decideFromEvent` reads the newest applied timestamp before
   the event is recorded. Two events delivered at once both pass, and the older may write last.
2. *One purchase, two accounts.* The ledger row of a transfer's origin is best effort, yet
   nothing else makes a late event of the origin stale.
3. *Two tool loops on one trip.* A loop that has outlived its budget is not stopped, while
   the slot goes to the next turn.
4. *A declared day nobody has planned.* The cascade (`src/lib/finn/sourcingOrder.ts`) takes the
   day of the declaration for an anchor like one with a fuel stop and plans only the days after
   it; the tank's walk starts at its beginning and counts its kilometres without the stops it
   will have. Opened first, a later day is planned for a tank that is emptier than it will be, or
   fails as impossible; opened after the declared day it is another plan.
5. *A failed read pins the app shut.* `pennyLocked` answers TRUE for a read that failed and does
   not cache it; `readBreakerFacts` takes the answer for a fact, and `breakerFacts` caches it
   for thirty seconds.

Seen while modelling, without a run of their own: a transfer that overtakes the purchase finds no
row at the origin and writes an active row without an end, although the comment above
`defaultTransferSubscription` says that reading the origin prevents it; a drained turn may be ended
by the platform, since its budget is its own and `maxDuration` the request's, and its row stays
`running`: with the index nothing else of that trip can run; a revoke and a redeemed code are logged
with our clock, so they make a TRANSFER that was delayed on its way stale; a transfer un-revokes a
revoked origin by expiring it; a cancellation without an expiry that arrives before the purchase
leaves an endless row; two transfers at once may both read the origin live; between the check and
the grant of a code a purchase may arrive. A `done` whose answer was lost is overwritten with
`error`, and with it the slot is free early. A turn whose last step failed is an error in the
transcript although its changes are in the trip.

Seen while proving `PurchasePaysOnce`, and excluded by `EventsFollowOwner`: the staleness test is
strict, so an event of the former owner with the very timestamp of the transfer still revives it,
and one of the new owner that is handled before a transfer of the same timestamp entitles both for a
while. An event for a live plan without a transaction id keeps whatever purchase the row names, even
one that has moved on. A transfer takes the purchase from the row of its origin and not from the
store: where an account has had two purchases, it is the one told last that moves, whichever was
meant. And, excluded by `EndsComeFirst`: after a transfer from nobody we know the destination's row
names no purchase and has no end.

Fuel: editing a vehicle's range (`src/app/api/vehicles/[id]/route.ts`) invalidates no fuel plan,
while giving the trip another vehicle invalidates all of them, so that days stay ready for a tank
the vehicle no longer has; a plan under way while its leg is invalidated lands afterwards and stays
until it expires; re-routing a leg invalidates that leg and not the later ones, whose tank has
changed with it; nor does dismissing a stop invalidate anything; a plan of more than
`MAX_STOPS_PER_LEG` stops is stored up to the limit and called ready. A trip's vehicle that cannot
be read is taken for none (`resolveVehicleForTrip`): the day is planned for the driver's default
vehicle, stored as ready and cached for 48 hours as if it were the trip's. A fuel stop without a
distance is a refuel for the cascade, which then plans no day before it, and none for the tank's
walk, which counts those days as if they had no stops.

Itinerary: of two drives that end at one place the first gets the rest days of both, so that a
rebuild (`src/server/repos/trips.ts`, "idempotent") moves a rest day of the second visit; a drive
without an end strips its rest days of their place. When several deletes of a batch are each found
to be the culprit, all of them are held back, and a further delete that was none goes ahead and may
leave a gap of its own. The gate's simulation puts a new leg last where the dispatch would insert
it. Deleting the current leg makes the repair rewrite legs behind the driver. An update whose last
statements throw is reported as failed although the row is written. A repair that throws midway
loses the list of legs it has moved, so their fuel plans stay. A report that finds no route keeps
the old one and invalidates no fuel plan; one that throws or is killed after its first statement
leaves the leg's new start with the old route, distance and time, and the trip's row where it was,
and says only that it failed. A report whose last statement throws has been carried out.

Phone: `src/lib/resourceCache.ts` never shares a request across a sign-out, `mobile/lib/purchases.ts`
does: an identification that is answered after the sign-out sets the id "never trusted across
one", and the next account's purchase is billed to the one before (buy, sign out, the answer
lands, sign in, buy); `BuyerIsBilled` excludes it by `crossed`. A late 401 of an old session
clears the new one's token. A screen that outlives its sign-out stores identity and verdict
past the generation check (`via = "told"`). A refresh that fails drops a blocked verdict whoever
it is of; one that was asked before a purchase was confirmed may bring the block back. A failed load of
the trips stores an empty list where none is held, past the generation check, and so for the next account,
until its own load is answered. A list
answered before an edit undoes it on the screen until the next answer. A save the disk refuses
leaves the next launch with an older snapshot, not with a cold cache.

Penny's door: the failed read of the fifth run is the exception with `failedAt` in `LockIsHeeded`.
The facts' cache takes the lock from the lock's own, up to thirty seconds old, so a flip may take
sixty to reach an instance, where `src/app/api/admin/penny-lock/route.ts` and `constants.ts` count
on thirty; and a read that was under way brings the old value back on the very instance that
flipped. The gate reads the strikes before it asks the classifier and writes them after,
unconditionally, so messages judged at once overwrite each other. Of two junk messages one strike is
lost. Of a junk and a real one, both of which read one strike, the junk one may write last: its two
stand where the real one's zero should, and the next junk message locks the account although no
three came in a row and "a real message clears the record" (`src/lib/strikes.ts`). A message judged
beside the one that locks the account writes `lockedUntil` null over the lock, although a real
message is "not a lock lift". A write that fails is logged and forgotten, so a real message may
clear nothing. `StrikesFollowTheRow` is exact where messages come one by one (`calm`) and bounds the
strikes, by `owed`, where they do not.

## 6. Plan

1. `AccountState`: `resolveAccountState` over the rows of `SubscriptionRules`, the trial,
   the per-account switch and the paywall switch; what an account may do never contradicts a
   row that has been stable for longer than the cache. Composed with `Admission`.
2. `OtpSignIn`: codes, attempts and the resend ladder with simultaneous requests.
3. Composition of `Itinerary` and `FuelPlans`: the legs a turn invalidates are those whose
   plans its edits changed; the writers of legs outside a turn.
4. `Subscriptions` with two transfers of one purchase at once.
5. Further abstract specifications: a plan of the whole trip in one step for the day-opens,
   an atomic counter for attempts and strikes.

The remaining components of the table are plain reads and writes, rendering, or calls to
other services, and are not planned.
