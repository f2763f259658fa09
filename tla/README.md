# A verification project for buykoins-be

buykoins-be is the NestJS/Sequelize/PostgreSQL backend of a service that pays
TikTok creators for their earnings: users ask to be credited, administrators
approve, users withdraw to a bank account, move earnings to a wallet, top the
wallet up with Paystack and fund virtual cards with it through Sudo. A widget
on partner sites leads users through the same operations step by step. A back
office of administrators answers, decides and configures.

The modules here model the parts of the backend that move money or decide where
it goes, the people and cards these depend on, and the back office. They are
written from the source under `src/src`, one action per query, transaction or
outgoing call, because that is where handlers of a Node.js process interleave.
`PROJECT.json` gives, for every definition that stands for code, the file and the
lines it stands for.

Contents: [inventory](#inventory) · [how the code runs](#how-the-code-runs) ·
[modules](#modules) · [runs](#runs) · [bounds](#bounds-and-why-they-are-enough) ·
[fairness](#fairness) · [proofs](#proofs) · [what the checks show](#what-the-checks-show) ·
[not modelled](#not-modelled) · [plan](#plan)

## Inventory

State, operations, interactions, what is hard, and what makes each part correct.
"Modelled" parts name their module.

| Component | State it keeps | Operations that change it | Calls and shared state | What is hard | What makes it correct |
|---|---|---|---|---|---|
| **accounts** (`users.earnings`, `users.wallet`, `transactions`) - `Accounts` | two decimal columns per user, one row per movement of money | no service of its own: every service reads the `User` row, computes, `save()`s and creates a `Transaction` | shared by payouts, credit requests, payments, cards, widget | columns are written as absolute values from instances read earlier; nobody locks the row when reading | never negative, but for the earnings of a user who made a negative widget deposit; equal to the sum of the rows; a value that was checked is the value that is used |
| **payouts** - `Payouts`, `PayoutBook` | `payouts` | `createPayout`; `processPayout`, `completeManualPayout`, `rejectPayout` (admins service) | accounts, settings (rates, fees), bank accounts, Sudo | external transfer between two database steps, no idempotency key, lost answers, two administrators | at most one open, decided once, charged exactly when completed, sent once |
| **credit requests** - `CreditRequests` | `credit_requests` | `createCreditRequest`; `approveCreditRequest`, `rejectCreditRequest` | accounts, bank accounts, S3 | status checked before the transaction, S3 upload between check and insert | one pending, approved exactly when credited, credited once |
| **payments** - `Payments` | `payment_transactions` | `initializePayment`, `verifyPayment`, `handleWebhook`, `transferEarningsToWallet` | accounts, Paystack | polling and webhook race, late answers, row locks in a row | only paid charges are deposited, once, and success is final |
| **card funding** - `CardFunding` | `cards.balance`, `card_transactions` | `fundCardFromWallet` | accounts, Sudo | three Sudo calls inside one open transaction that holds the user row | wallet, card rows and Sudo's account agree |
| **widget** - `WidgetSessions` | `widget_sessions` | `initSession`, `getSession` (expires), `submitStep`, `completeSession`; the gateway calls the same | calls payouts; accounts; `onboarding_requests` | two frames of handlers, expiry while served, late saves; asks nothing of the data a step submits | a session closes once and moves its money once |
| **bank accounts** - `BankAccounts` | `bank_accounts` | `addBankAccount`, `verifyBankAccount`, `setPrimaryBankAccount`, `deleteBankAccount` | payouts and approvals read the verified / primary row | every check and its write are separate statements; no unique index | one primary, verified by its own code, kept |
| **card management** - `VirtualCards` | `cards` (status, default) | `createCardForUser`, `updateCard` (freeze, unfreeze), `setDefaultCard`, `deleteCard` | Sudo | two systems with a failure in between; default counted after the insert; Sudo's refusal of a cancellation is ignored | Sudo's cards are accounted for; both statuses agree; one default |
| **Sudo customers** - `VirtualCards` | `sudo_customers`, the JSON column `users.sudoCustomerOnboardingData` | `saveOnboardingStep`, `completeOnboarding`, `verifyIdentity` | Sudo, cards | find-or-create without a lock, one JSON column saved whole from stale instances | one customer per user; completed only with a customer |
| **auth** - `Auth` | `users` (address, code, status, TikTok account), tokens | `signup`, `verifyEmail`, `resendVerificationCode`, `tiktokCallback`, `suspendUser`, `unsuspendUser` | e-mail, TikTok | code compared and cleared in separate statements; a raw UPDATE of all statuses at sign-up; placeholders for addresses | an address counts as verified by the code mailed to it; a suspension holds |
| **users** - `Auth`, `VirtualCards` | profile columns | `updateProfile` (address), `verifyIdentity` | accounts (dashboard, read only) | check and save of the address apart | an address is set once |
| **onboarding** - `Onboarding` | `onboarding_requests`, `users.onboardingStatus` | `createOnboardingRequest`; `completeOnboarding` (widget session); `completeOnboarding` (admins) | the users rows of auth; payouts and credits require the status | find-or-create, creation outside the transaction, three writers of which one has the checks | onboarded only with a completed request; `createOnboardingRequest` takes one only when the account is ready |
| **admins** - `Admins` | `admins` | `createAdmin`, `updateAdmin`, `suspendAdmin`, `unsuspendAdmin`, `deleteAdmin`, one-time passwords | guards of every back-office route | instances saved late, OTP compared and cleared apart | a row changes as somebody asked; super admins are kept; an OTP works once |
| **settings** - `Settings` | one row of `platform_settings` | `getOrCreateSettings`, one update per category | read by payouts and the widget | singleton created by find-or-create; JSON column merged in memory; limits checked against each other | one row, which has what was reported as saved |
| **support** - `Support` | conversations, messages, onboarding auth codes | open, message, read mark, status; generate, replace, verify a code; broadcasts | notifications, sockets | counts taken after concurrent inserts, broadcast later | none opened while one is open; one alert at most; the total shown is the total |
| **notifications** - `Notifications` | `notifications`, rooms of sockets | `create`, `broadcastAnnouncement`, read marks, `delete`; connect, disconnect | called after commits by everything | rows created one by one; push may be lost | an answer stands for one row per recipient |
| email, storage, gmail reader | none | calls to Postmark, S3, a mailbox | called after commits | may fail, caught | - |
| configuration, database, common, deployment | none | pool of 5 connections, 30 s to acquire one | shared by all handlers | pool exhaustion behind slow Sudo calls | - |

## How the code runs

One Node.js process serves all requests. A handler is an `async` function that
runs without interruption from one `await` to the next; at an `await` any other
handler may run. `Requests` models this with a fixed set of request slots:
`pc[p]` names the `await` slot `p` is suspended at, `"idle"` if none. Between
two labels everything the code does is one action.

The database is PostgreSQL at its default isolation level, READ COMMITTED, and
Sequelize is used without row locks (no query has a `lock` option):

* `findByPk`/`findOne` returns what is committed at that moment;
* `save()` writes only the columns whose value changed, as absolute values;
* the first write to a row in a transaction locks it until the end of the
  transaction; another writer waits and then overwrites.

A transaction that does not read between BEGIN and COMMIT, and makes no outgoing
call, therefore takes effect at its commit and is one action (`Post`). Two
handlers do more inside their transaction, and are split: `verifyPayment` reads
the user in it after locking the payment row, and `fundCardFromWallet` calls
Sudo three times while it holds the user row (`LockUser`, `rowLock`).

External services are part of the environment. Sudo may carry a transfer out and
answer, carry it out and lose the answer (axios gives up after 30 s and the code
cannot tell), or refuse. A handler may fail at every `await`: one action per
component (`PayoutHandlerFails`, ...) stands for refusals, failing queries, the
error paths' rollbacks, and the death of the process. Since handlers keep their
variables in memory only, a crash of the whole process is every slot failing in
turn. E-mails and notifications are sent after commits inside `try`/`catch` and
change nothing the models see.

### History variables

Most promises the code makes in its error messages ("Only pending payouts can be
processed", "If already processed, return existing", ...) are kept by a check
that is separate from the write. They can hold only as long as no other handler
comes between, and the project states exactly that: which promise survives every
interleaving, failure and retry, and which only those where two handlers do not
work on the same row.

* `overwrote[u]` (`Accounts`): columns of `u` once saved from an instance that
  another commit had made stale (`stale[p]`).
* `raced` (`Requests`): rows, and users for "find nothing, then insert", that
  two slots ever worked on at the same time. Each component says what a slot
  works on (`PayoutWorksOn`, ...); its specification adds the shared ones. In
  `Settings` and `Support` it also holds topics, such as the total of unread
  messages, that belong to no row.
* `closedOnce`, `closedAgain` (`VirtualCards`): cards once closed while they were the
  default, and users for whom such a card was closed again.
* `unbooked`, `forgotten`, `unclosed`, `abandoned`, `interrupted`: external
  transfers, money a session moved, customers and cards at Sudo, whose handler
  failed before the database heard of it; `unannounced` likewise for broadcasts.
* `provedTo`, `misused`, `acknowledged`, `reported`, `answered`: what a code, a
  one-time password or an answer stood for when it was used or given.
* `funded`, `moved`, `payoutRows`, `payRows`, `creditRows`, `cardRows`: how often
  something was done.

No guard reads any of them, except that `funded` and `moved` carry bounds.

## Modules

| Module | Models | Notes |
|---|---|---|
| `Requests` | request slots | used by every other module |
| `Accounts` | the two balance columns, the transaction rows by kind, row locks, what each slot holds in memory; operators `ReadUser`, `LockUser`, `Post`, `DropUser` | its second half is the abstract specification `AccountsSpec`: balances change only by posting one row, covered by the balance or credited by a widget (`PostCollected`) |
| `Payouts` | `createPayout`, `processPayout`, `completeManualPayout`, `rejectPayout`, Sudo's transfers | implements `AccountsSpec`; one request at a time, implements `PayoutBook` |
| `PayoutBook` | what withdrawals promise | abstract: no handlers, no Sudo; other services move the earnings in steps of their own |
| `CreditRequests` | creation, approval (balance or direct), rejection | extends `Accounts` |
| `Payments` | initialise, verify, the webhook, transfers to the wallet, Paystack | payment row locks (`payLock`) besides the user's |
| `CardFunding` | `fundCardFromWallet` with `getCardById`'s refresh, Sudo's card accounts, purchases | the user row stays locked across the calls to Sudo |
| `WidgetSessions` | sessions, steps, expiry, completion | extends `Payouts`: a slot has a widget frame (`at`) and the payout frame it calls (`pc`) |
| `BankAccounts` | add, verify, set primary, delete | its own tables only |
| `VirtualCards` | the onboarding of a user as Sudo's customer, the cards of the user, Sudo's customers and cards | the requests of a behaviour are bounded |
| `Calls` | a count of requests | bound of the modules below |
| `Auth` | the users row: sign-up, verification, e-mail change, TikTok link and sign-in, suspension | no specification of its own: `Onboarding` composes it |
| `Onboarding` | requests to be onboarded, those a widget session inserts included, their completion by administrators, and `Auth` | `PeopleSpec` |
| `Admins` | administrators, their roles and status, the guard, one-time passwords | |
| `Settings` | the settings row: limits, JSON column, columns saved unchecked | |
| `Support` | conversations, messages, alert and total for administrators, auth codes | |
| `Notifications` | notification rows, announcements, sockets and rooms | |
| `Backoffice` | the four before it on the same request slots | they share no row, so a behaviour takes the requests of one of them, its `topic` |
| `MoneyFlows` | all that write the balance columns, on the same users and slots | checks that together they implement `AccountsSpec`, and that their locks form no circle |
| `AccountsProofs`, `PayoutsProofs` | theorems about the balance tables and about withdrawals | see [proofs](#proofs) |
| `WalletProofs` | theorems about `CreditRequests`, `Payments`, `CardFunding` | |
| `MoneyFlowsProofs` | theorems about `WidgetSessions` and `MoneyFlows` | extends the three before it |
| `BankAccountsProofs`, `VirtualCardsProofs`, `OnboardingProofs` | theorems about the module of the same name; `OnboardingProofs` covers `Auth` | |
| `BackofficeProofs` | theorems about `Admins`, `Settings`, `Support`, `Notifications`, as composed in `Backoffice` | |
| `MC*` | instances for TLC | constants and symmetry only |

Operators marked "Mutant" restate one definition with a plausible bug (a dropped
check, a missing rollback, a column too many). No specification uses them: they
document which mistake each property would catch, and every property of a passing
run is violated when its mutant takes the place of the definition.

### From code to action

A row of the code's table is an element of a constant set with its status
`"none"` until it is inserted. Reading and checking a row at the start of a
handler is the guard of the action that starts it; a failed check answers at once
and changes nothing, so it needs no action. A check after a later `await` is the
guard of that label's action, and its refusal is the failure action. Examples:

| `processPayout` (`admins.service.ts`) | `Payouts` |
|---|---|
| `Payout.findByPk`, status must be pending (901-914) | `ProcessPayout` |
| `User.findByPk`, earnings must cover (916-947) | `ProcessPayoutReadUser` |
| `sudoApiService.fundTransfer` returns / throws (946-965) | `SudoAccepts` / `SudoAnswerLost`, or `PayoutHandlerFails` if nothing was sent |
| `applyPayoutCompletion` (974-1019) | `ApplyPayoutCompletion` |
| any error, rollback (1050-1053) | `PayoutHandlerFails` |

Amounts are small integers: all computation on them is addition, subtraction and
comparison, plus one multiplication by the rate. Amounts below the columns'
precision are not modelled. DTOs let only positive amounts in (`Amounts`); the data of
a widget session has no DTO, and `Collected` are the integers it may hold, 0 and
negative ones included.

## Runs

Twelve runs; ten pass and two show a disagreement between the code and what
it says of itself.

| Run | Instance | Shows |
|---|---|---|
| `MCPayouts` | 2 slots, 1 user, 2 payouts, amounts 1-2, earnings 2-3, 2 transfers | `PayoutsInv`: no negative balance, a column differs from its rows only where a stale instance was saved, status, debit and row go together; sent money is booked, about to be, or lost sight of by a failed handler; decided payouts stay decided; one open payout, one charge, one transfer for rows no two handlers worked on at once; `AccountsSpec` |
| `MCMoneySequential` | 1 slot; 1 user, earnings 2, 2 payouts, 1 session, 1 credit request, 1 transfer at Sudo, amount 1, sessions collect -1, 0 or 1, fees 1 and 3 | with every failure and lost answer but one request at a time: payouts, sessions and credit requests implement `PayoutBook`, the books add up, and no balance is negative but the earnings of a user with a negative deposit (`BooksAddUp`) |
| `MCMoneyCredits` | 2 slots, 1 user, 2 credit requests, transfers to the wallet | credit exactly with approval, once for rows not raced (`CreditsInv`); one pending; `AccountsSpec` for credits and transfers together |
| `MCMoneyWallet` | 2 slots, 1 user, wallet 1, 1 reference, 1 card, Sudo funds up to 2 | only paid charges are deposited, once for rows not raced (`DepositsInv`); success is final; the user row is locked exactly while Sudo may be moving money, both tables of rows agree, Sudo's transfers are accounted for (`FundingInv`); `AccountsSpec` |
| `MCMoneyLive` | 2 slots, 1 user, 1 reference, 1 card | every request is answered although handlers wait for each other's row locks |
| `MCWidgetSessions` | 2 slots, 1 session, 1 payout | for sessions not raced, money moves once, and steps advance, expired sessions move nothing and closed ones stay closed, with the payout handler called by the widget handler |
| `MCBankAccounts` | 2 slots, 1 user, 3 rows, 2 numbers, 2 codes | never two primary accounts; primary implies verified, primary kept, verified by the current code, numbers verified once for rows not raced |
| `MCVirtualCards` | 2 slots, 1 user (new or a customer), 2 customers and 3 cards at Sudo, 5 requests | completed onboarding means a customer; what Sudo has is accounted for; one customer, one default, equal statuses for what was not raced |
| `MCOnboarding` | 2 slots, 2 users, 2 addresses, 2 TikTok accounts, 2 codes, 2 requests, 5 calls | onboarded means a completed request; `createOnboardingRequest` takes one only with a TikTok account and a real address, a widget session from anybody; verified by the code mailed to the address, address set once, suspension holds, one pending request, and none of `createOnboardingRequest` once onboarded, for rows not raced |
| `MCBackoffice` | 2 slots, 4 calls, on administrators (2), settings (2 rows, 2 limits, 2 keys, 1 switch), support (1 customer, 2 conversations, 2 messages, 1 auth code row) or notifications (2 recipients, 3 rows) | administrators change as asked and are kept, OTPs work once; one settings row with what was reported; no conversation opened beside an open one, one alert at most, the right total; an announcement answers for every recipient |
| `MCPayoutsSentTwice` | 2 slots, 2 payouts | **violation**: two administrators process one payout, Sudo transfers twice |
| `MCSocketsSilent` | notifications, 2 calls | **violation**: a socket that connects with a token of the backend joins nobody's room |

`AccountsSpec` stands, in every run that checks it, for everything that was proved
of it (`AccountsInvariant`): typed tables, no negative balance without a negative
deposit, a handler's instance is a committed row, and books that add up except for stale saves. The
composed runs therefore check `AccountsSpec` and not those invariants one by one.
Which components meet in a composed run is set by its constants: those whose set of
rows is empty take no step that writes. Deposits and fundings meet because both hold
row locks, credits and transfers because both add to a balance; payouts meet widget
sessions, which call them. All at once is more than TLC can enumerate in minutes, and
what a component may do to the tables of `Accounts` is the same in each.

In the same way `MCBackoffice` takes the four topics one at a time: their states
are disjoint, so an interleaving of two topics is one of each. `VirtualCards` and
`Onboarding` touch columns of the users row that no other module has.

`CHECK_DEADLOCK FALSE` is in every configuration because the system may rest:
once every row is decided and the bounds are used up, every further request would
be refused, which is not a step.

## Bounds and why they are enough

* **Slots.** Two. The violations of concurrency that the code admits need two
  handlers: one that has checked and one that writes. With one slot the same runs
  show what failures and retries alone can do. A third handler adds queues of
  writers, whose steps are pairs again: each `Post` reads its own instance only.
* **Users.** One (two in `MCOnboarding`, where addresses and TikTok accounts are
  unique across rows). No action touches two users' rows, and the tables of different
  users share nothing but the slots.
* **Rows.** Two payouts and two credit requests, so that "one pending" can fail;
  three bank accounts, so that a user has a primary one, another one and one more
  to add; three cards in `MCVirtualCards`, because a default card that is closed and
  closed again does harm only beside two others (two cards hid this); elsewhere one
  reference, one card, one session, where properties are about a single row's life
  (a second one only repeats it beside the first).
* **Amounts.** 1 and 2 against balances up to 3, so that an amount fits, just fits
  and does not fit; rate 2 with fees 1 and 3, so that the quote for amount 1 is
  positive with one fee and negative with the other. A session of `MCMoneySequential`
  collects -1, 0 or 1: a deposit that takes, one that `!amount` refuses and one that
  adds. `MCWidgetSessions` collects 1 only, as its properties tell no amounts apart.
* **`MaxCalls`, `MaxCardCalls`** (4 or 5): requests in one behaviour, in the modules
  whose handlers could be called forever. Each violation that two handlers cause
  needs the two and the requests that set the rows up: a sign-up, a code, the two
  verifications; an onboarding, a card, the two changes.
* **Symmetry.** Sets of model values that are only compared are permuted.
  `MCBackoffice` swaps several sets together: any product of permutations of the sets
  is an automorphism, so a subgroup of it is sound, and a smaller one is faster.
* **`MaxTransfers`, `MaxFunded`, `MaxMoves`** cap what would otherwise repeat
  forever: a payout that is processed again after each lost answer, a card funded
  again, a deposit session completed again after a failed close. Two is one more
  than the correct number.

## Fairness

Only `MCMoneyLive` needs it.

* `WF` of a slot's steps that wait for nobody: the event loop resumes every
  handler, outgoing calls end after at most 30 s (axios timeout), queries end.
  The failure action is among these steps, so nothing is assumed about success.
* `SF` of the steps that wait for a row lock: PostgreSQL grants a lock in the
  order of the requests, so a waiting writer is not passed over for ever, while
  the step is disabled whenever another transaction holds the row.
* Nothing is assumed of users and administrators: no request must be made, and a
  customer need not pay.

## Proofs

Checked by `tlapm` for every value of the constants that satisfies the assumptions
named in the modules. They say that null values are distinct from the rest, that
amounts that pass a DTO are positive and those of widget sessions integers, rates and
fees natural (the settings' validation), that bounds are numbers, that addresses and TikTok placeholders are
different things, that the default limits of the settings are limits
(`SettingsAssumption`), and, where a proof sums or counts over cards, that there are
finitely many of them (`CardFundingAssumption`, `VirtualCardsAssumption`). Nothing is
assumed about fairness.

Every invariant and action property that a passing run checks is the statement of a
theorem. `MCMoneyLive`'s liveness is the exception.

### One argument, many times

Almost every promise of the code is a check in one statement and a write in a later
one. The invariants are therefore built in two layers, which also say why the code is
right where it is.

1. **What holds whatever interleaves** (`PayoutsSound`, `CardsSound`, `PeopleSound`,
   the parts named `..Informed`): types, what a suspended handler holds - its row
   exists, its amount was asked for, its instance covers the amount - and what is
   committed together. These facts are stable because rows are never removed, status
   changes only forward and an instance belongs to one handler.
2. **What holds of rows that no two handlers worked on at once** (`PayoutsAlone`,
   `CardsAlone`, `PeopleAlone`, `..HandlerSound`, the parts named `..AsRead`): what a
   handler checked is still true where it is suspended. It rests on one fact about the
   history variable, that what two slots work on *now* has been noted
   (`SharedPayouts \subseteq raced` and the like). So if a row is not in `raced`, the
   slot that works on it is the only one, and another slot's step writes other rows.
   Then the table's own promise - one pending, charged once, one default - is a
   consequence of the check, made at the commit.

Each component has a lemma that a step of slot `p` keeps what every other slot knows
(`OtherPayoutHandlersAlone`, `StepKeepsSound`, ...); then one lemma per handler shows
what `p` itself knows afterwards.

### Money

**`AccountsProofs`.** `AccountsInvariant`: `AccountsSpec => []AccountsInv`. The
invariant is inductive as it stands, with two parts that exist for its sake:
`SeenWasCommitted` (an instance in memory is a committed row, and the current one
unless a commit came between) makes both the bound of the balances - the value
checked is the value subtracted from, so only a negative deposit takes earnings below
zero - and the reconciliation provable. One lemma
per operation; `Post` is the only one that moves money. `OneAtATimeReconciled`: with
one request slot nothing is ever stale, so the books always add up (`Reconciled`).

**`PayoutsProofs`.** From a state that satisfies the invariant, every step of a
payout handler is a step of `AccountsNext` or leaves the tables alone
(`PayoutWorkAccounts`), so `AccountsInv` is kept without looking at the tables again
and `PayoutsImplementAccounts` follows. The invariant adds what the refinement needs:
rows have an owner and an amount that somebody asked for, and a handler past its check
holds the instance of that owner and enough earnings in it. From it `PayoutsInvariant`
with its corollaries, `PayoutsNeverReopened`, and, for payouts that were not raced,
`PayoutsPaidOnce` and `PayoutsOnePending`. `PayoutsTransfersCounted`: the slots
suspended between Sudo's answer and the commit form a finite set, and a step changes the
number of transfers, the charges, the forgotten transfers and the size of that set
together.

**`WalletProofs`.** Credit requests and payments in the same way, each with its
refinement of `AccountsSpec`. `FundingInvariant` is different: it is about sums. What
Sudo moved to the cards of a user (`FundedUnits`) is compared with what is charged, held
by the one handler that has the row lock, and forgotten; the row lock makes "the one
handler" true, and a step changes one card's summand and one of the three others.

**`MoneyFlowsProofs`.** A widget handler does to users and payouts what a payout handler
does, or reads or credits a user itself (`WidgetWorkKinds`), so both invariants are kept
side by side: `WidgetInvariant`, `WidgetSessionsAdvance`. The composition: no
component's invariant says anything of a slot that runs another component's handler, so
it survives every step that moves between awaits it does not have, touches one slot and
treats the tables of `Accounts` as `AccountsNext` does (the lemmas named `..Elsewhere`).
Hence the conjunction `MoneySound` is inductive for `MoneySpec`, and everything proved
of the parts holds of the whole: `MoneyImplementsAccounts`, `MoneyDeposits`,
`MoneyFunding`, `MoneyCredits`, `MoneySuccessIsFinal`, `MoneyWidget`. The runs check
these two components at a time; the theorems, all at once and for any number of slots.
With one slot, `MoneyReconciled` (the books add up, `BooksAddUp`) and
`MoneyImplementsBook`: withdrawals implement `PayoutBook`. The refinement needs that an instance is never stale, that `createPayout`
goes on with an amount its instance covers (`AskedCovered`), and the layer-2 invariant
with `raced = {}`. With two slots both statements are false (see `MCPayoutsSentTwice`),
which is why `OneRequestAtATime` is a hypothesis and not an assumption of the modules.

### Rows, people, back office

**`BankAccountsProofs`.** `BankInvariant`, `BankNumberVerifiedOnce`, `BankPrimaryKept`,
`BankVerifiedByItsCode`. `OnePrimary`, part of the first, needs nothing of `raced`.

**`VirtualCardsProofs`.** `CardsInvariant` and `CardsAccountedFor` from the first layer:
the tables and what Sudo has only grow in the sense that matters (a customer or card that
exists, exists), so what other slots hold stays true. `OneCustomer`, `StatusAgrees` and
`OneDefault` from the second, with what each handler did at Sudo and has not saved yet
(`CardAsRead`), and what it found out about default cards (`DefaultsAsRead`).

**`OnboardingProofs`.** `PeopleInvariant`: a placeholder address comes with a TikTok
account, the row a handler works on exists, and an account that was ready for a request
stays ready whatever the other handlers write, which is why the requests that
`createOnboardingRequest` inserted (`asked`) are of accounts that are ready. For rows that
were not raced: the code in a row was mailed to its address, one request at most is
pending, and none of `asked` once the user is onboarded (`RowAlone`), from which `VerifiedAddressProved`, `OnePendingRequest`, `EmailSetOnce`,
`SuspensionHolds`.

**`BackofficeProofs`.** `TopicKept` says that suspended handlers are of the behaviour's
topic; each of the four components has an invariant that a step of another topic leaves
alone. The one-time passwords need that a password is on one row only and gone once used
(`OtpsApart`); the alert of a conversation needs that the first message claims it and
whoever counts later finds another message than its own (`AlertsApart`, `AlertToCome`);
the total shown needs that it is right or the one handler on its way will correct it
(`TotalToCome`); an announcement, that its recipients so far have a row each
(`NotifiedSoFar`).

### Only model-checked

* `EveryRequestAnswered`: liveness under fairness is out of the prover's reach.
* The two violations, `SentOnce` and `ConnectedJoinsRoom`, which are false.

### What the proofs changed

* `OneDefaultUnlessRaced` was false as it stood. `deleteCard` does not refuse a closed
  card, and such a card may still have `is_default`: create `c`, which becomes the
  default, create `d`, delete `c` (`d` becomes the default), create `e`, delete `c` again,
  and `e` is a second default. With two cards TLC could not find this; the induction step
  could not be proved. Now the history variable `closedAgain` names the users it happened
  to, the property excepts them, and the run has three cards.
* `FundingInv` speaks of the one handler that may be under way for a card, which the row
  lock makes true, instead of a sum over handlers, and counts units of money as the
  elements of a finite set (`FundedUnits`): the library has facts about cardinalities.

## What the checks show

What holds in every interleaving, with failures, lost answers and crashes: no
balance is negative but the earnings of a user with a negative widget deposit; the amount a handler checked is the amount it subtracts from;
money in the books is lost or made only by a save from a stale instance; a payout
is charged exactly when completed and a request credited exactly when approved; a
decided payout is never reopened; only charges that were paid are deposited; no
two fundings of one wallet are with Sudo at once; no user has two primary accounts;
nobody waits forever; nobody's card onboarding is marked completed without a customer at
Sudo, and no customer or card at Sudo is dropped by anything but a handler that
failed; whoever is onboarded has a completed request, and whoever asked through
`createOnboardingRequest` had a TikTok account and a real address; `save()` brings no old role or status of an
administrator back; administrators are alerted of a conversation at most once; and
an announcement that is answered has one row per recipient.

What the code does not secure against two handlers on one row (drop
"`UnlessRaced`", or "`UnlessOverwritten`", and TLC finds the schedule). These properties exempt the very
interleavings listed here: they do not show that the hazard cannot happen, they show that
nothing else breaks the rule. `PROJECT.json` says so at each hazard it is true of.

* two `createPayout`, or two `createCreditRequest`, leave two pending rows;
* two `processPayout` transfer twice (`MCPayoutsSentTwice`); a completion and a
  rejection end as "rejected" and charged;
* two approvals credit twice; an approval and a rejection end rejected and credited;
* two verifications deposit twice; a verification that asked Paystack too early
  writes "failed" over a success;
* an approval, a deposit, a funding or a transfer that overlaps another one writes
  the balance back as it was before it: the earnings, or the wallet, lose or regain
  the other amount;
* two completions of a session move its money twice; a slow submission sets the
  step back;
* a bank account added again while it is verified or made primary ends primary and
  unverified, or verified by a code that was replaced; one that becomes primary
  while it is deleted leaves the user without;
* two onboardings of one user make two customers at Sudo, one of which no table
  knows; two first cards leave the user without a default; a card frozen while
  another request reopens it is frozen on one side only;
* two `createOnboardingRequest`, or two `completeOnboarding`, leave two requests; a
  code sent again while an earlier one is being verified is wiped or accepted late;
  `signup`'s raw UPDATE of a row that was suspended meanwhile makes it active; two
  e-mail changes replace an address that may be set once;
* a one-time password works twice; an administrator who becomes a super admin while
  being suspended is suspended;
* two first readers of the settings make two rows; two updates of the JSON column
  lose keys; two first messages alert nobody, and their totals may arrive in the
  wrong order; two verifications accept one auth code twice.

### Where code and comments disagree

Two disagreements have runs: `MCPayoutsSentTwice` ("Only pending payouts can be
processed") and `MCSocketsSilent` (the notification gateway takes `payload.id` where
tokens carry `sub`, so a room is joined by nobody and every push goes nowhere;
clients see notifications when they fetch them). The others are visible in the
models, which follow the code:

* submitting the last step of a deposit session completes it without crediting
  anybody, and `completeSession` then returns at once (`widget.service.ts:171`);
* Sudo's transfer lies inside the transaction of `fundCardFromWallet`, "to ensure
  atomicity", and is not rolled back with it (`cards.service.ts:443`, `FundFails`);
* a deposit session credits whatever amount it was sent, if it is not empty
  (`widget.service.ts:335`): a negative one is committed as a negative CREDIT row, may
  take the earnings below zero, and is what `NoNegativeBalance` excepts;
* a completed onboarding session inserts a pending request without the checks of
  `createOnboardingRequest` (`widget.service.ts:274`), also for a user who is onboarded
  already, whose request then stays pending, since `completeOnboarding` refuses such users;
* the first verified bank account should become primary, but the count comes after
  the update and is never 0 (`bank-accounts.service.ts:219`, `VerifyCommit`);
* the Paystack webhook, "no auth required", is behind its controller's
  `JwtAuthGuard`, so it credits nothing (`payments.controller.ts:77`,
  `PaystackWebhook`);
* an update that gives only a new minimum payout is not compared with the maximum
  (`settings.service.ts:179`), so `MaximumAboveMinimumUnlessRaced` speaks of updates
  that give a maximum;
* `deleteCard` closes the card also when Sudo refused to cancel it, and leaves its
  `is_default` set (`cards.service.ts:557`), so a card reopened later is a second
  default; and it does not refuse a card that is closed already, so that deleting a
  former default card once more makes another card a second default.

## Not modelled

* The pool of five connections. A failed acquire is one of the failures a handler
  may meet; that `fundCardFromWallet` can starve the pool is listed as a hazard.
* The state of a transfer at Sudo after it was accepted: `getPayoutTransferStatus` only
  reads it, and no code acts on it.
* Fractions. Amounts are DECIMAL(15,2) in the database and numbers in JavaScript.
* Verification codes' 15 minutes and 6 digits: expiry is a refusal, equality is all
  that matters of a code.
* Of the widget gateway the rooms. The onboarding session itself is not a session of
  `WidgetSessions`: what its completion does to requests is in `Onboarding`, where it may
  happen at any time for any user.
* Widget amounts that are no number: they are stored as they come, and the commit then
  fails or writes NaN.
* Of auth: passwords, `login`, `refreshToken`, `changePassword` and the resets, which
  change no column that is modelled, the signing of tokens, and the HTTP exchange with
  TikTok, whose outcome is an open id.
* Of support: assignment and priority, one column each that only lists read; of
  admins: names, permissions, which no route asks for, and the statistics.
* Code without a caller: `getOrCreateSudoCustomer`, `syncCardTransaction`, the
  cleanup of old notifications.
* Validation of request bodies: inputs are those that pass the DTOs. The data of a
  widget session has none, and is any integer.
* E-mail, storage, mailbox reader, database configuration, response formatting and
  deployment scripts keep no state or only format it: a call to them ends or fails,
  which the failure actions cover.

## Plan

The components that keep state are modelled. What is worth adding next, in order:

1. Proofs: that the row locks of `MoneyFlows` form no circle, as a safety invariant
   (a handler that holds the row of a user waits for no lock), which is the part of
   `EveryRequestAnswered` that a proof can reach.
2. Proofs: the reconciliation of users on whom no two handlers ever worked at once,
   which is more than "one request slot".
3. The pool of connections with the handlers that keep one across calls to Sudo, and
   "everybody is answered" under it.
