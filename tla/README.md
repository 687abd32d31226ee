# A verification project for Clean Architecture Manga

The repository is a virtual wallet: an accounts API (ASP.NET Core over SQL
Server), an OpenID Connect identity server, and a React client. This directory
holds TLA+ specifications of it, the configurations TLC checks them with, and
proofs that TLAPS checks. Paths below are relative to `src/`; `api/` stands for
`accounts-api/src/`.

## Inventory

| Part | State it keeps | Operations | Interacts with |
|---|---|---|---|
| Domain (`api/Domain`) | an account's credits and debits | `Deposit`, `Withdraw`, `GetCurrentBalance`, `IsClosingAllowed` | called by the use cases |
| Use cases (`api/Application/UseCases`) | one scope per HTTP request | open, close, get, list, deposit, withdraw, transfer | repository, unit of work, exchange, output port (callback to the controller) |
| Validation decorators, `Notification` | the messages of one request | refuse or pass on | wrap the use cases |
| SQL persistence (`api/Infrastructure/DataAccess`) | tables Account, Credit, Debit; the rows each `DbContext` has loaded | lookups, `LoadTransactions`, `Add`, `Update`, `Delete`, `Save` | shared by all requests |
| In-memory persistence (`*Fake`) | collections in one singleton | the same | shared by all requests, without a lock |
| Currency exchange | the service keeps a dictionary of rates per scope | `Convert` | an HTTP service, or constants |
| Controllers, presenters, `ExceptionFilter` (`api/WebApi`) | the view model of one request | one action per use case | the client |
| Feature flags | the list of controllers at start-up | `PopulateFeature` | configuration |
| User service, authentication | none | `GetCurrentUserId` | the bearer token |
| Web client pages (`wallet-spa/src/pages`) | the form's fields, whether it was submitted | one submit per page | the accounts API |
| Web client session (`store/authService.js`, `oauth.js`, `privateRoute.js`) | the user in session storage | sign in, expiry, sign out (silent renewal is switched off) | the identity server and its cookie, which all tabs share; every API call |
| Identity server (`identity-server/Quickstart`) | the login cookie, the external cookie, pending authorization requests, grants | login, logout, external login, consent, device flow, revoke | IdentityServer4, a library |
| Hosting, deployment, view models, tests | configuration, copies | | |

What is hard in it:

* **Concurrency.** Every request is a scope of its own. Requests share only the
  database, and the repositories use neither transactions around several
  commands, nor locks, nor row versions. A use case reads, awaits and then
  writes; what it decided on may be outdated by then.
* **Partial failure.** `AccountRepository.Delete` is three commands, each
  committed alone. A transfer saves its debit before it converts its credit.
  Any command may throw, the host may stop, and nothing repairs afterwards.
* **Ordering.** Credits are loaded before debits; debits are deleted before
  credits, and credits before the account.
* **The exchange.** The real service fills its dictionary at each `Convert`, so
  the second one of a scope throws; its rates may change from call to call.
* **Clients.** A lost answer is indistinguishable from a failure, and nothing
  identifies a request that is sent again.
* **Tabs.** A browser's tabs have a token each but one local storage and one
  cookie at the identity server; each may sign in, expire and sign out while
  the others do.
* **Threads.** The in-memory collections are one singleton, changed by every
  request's thread without a lock; an update takes an account out and adds it
  again, as two calls.
* **Decimals.** A conversion is two rounded quotients, the check of a debit
  rounds what is left to the cent, the column rounds the debit.
* **A list shortened under its loop.** `PopulateFeature` removes controllers
  from the list it goes through.

What makes the parts correct:

* Domain and persistence: every entry has its account, entries are immutable
  and disappear only with their account, a balance below zero takes a race.
* Use cases: a refusal changes nothing, an `Ok` is a receipt, a transfer makes
  no money, owners act on their own accounts, every request is answered.
* In-memory store: no open account is lost; one listing per account and no
  overdraft, as long as its updates do not meet.
* Money: no account is short by more than the cent that roundings explain, and
  what is shown can be withdrawn.
* Controllers: one status per answer; the client never takes a failure for a success.
* Feature flags: exactly the controllers with all flags on remain.
* Client session: a tab shows its user's data only, a sign-out ends the
  session of nobody else unless they had come after it was accepted, an expired
  token leaves the private pages.

PROJECT.json lists the components with their status and the hazards at their lines.

## The modules

| Module | What it holds |
|---|---|
| `AccountDomain` | the pure part: totals, balance, closing check, conversion |
| `AccountsApi` | the state machine of the accounts API over SQL |
| `AccountsApiProperties` | its invariants, action and liveness properties, and the inductive invariant |
| `Ledger` | the abstract specification: what the API promises its clients |
| `LedgerRefinement` | `AccountsApi` read as a ledger, by a refinement mapping |
| `MCAccountsApi` | small instances for TLC |
| `AccountDomainProofs` | TLAPS proofs about totals and roundings, for every finite set of entries |
| `AccountsApiProofs` | TLAPS proofs: the inductive invariant and what follows from it |
| `BalanceProofs` | TLAPS proofs: transfers make no money; overdrafts and lost deposits take a race |
| `LedgerProofs` | TLAPS proofs: the API implements the ledger |
| `WalletPages` | a tab of the web client in front of the whole API, with its properties |
| `MCWalletPages` | small instances of it for TLC |
| `WalletPagesProofs` | TLAPS proofs: the pages run the API, go on only after their posting was saved, and then show it |
| `ClientSession` | sign-in, expiry and sign-out in the tabs of one browser, with its properties |
| `ClientSessionProofs` | TLAPS proofs of its safety properties |
| `MoneyExchange` | the decimals of amounts: conversion, check, column |
| `MCMoneyExchange` | an instance of it for TLC |
| `MoneyExchangeProofs` | TLAPS proofs of its invariants |
| `FakeStore` | the use cases on their threads over the in-memory store, read as a ledger too |
| `FeatureGates` | the loop that takes disabled controllers out |
| `DevelopmentHost` | `FeatureGates` and `FakeStore` composed: a host without SQL Server |
| `DevelopmentHostProofs` | TLAPS proofs: what the loop leaves, what the store keeps, and that it implements the ledger |
| `MCDevelopmentHost` | an instance of it for TLC |

`AccountDomain` is used by all that count money; `Ledger` is implemented twice,
by `AccountsApi` and by `FakeStore`.

### AccountsApi

**State.** `accounts`, `credits` and `debits` are the tables. `run[r]` is the
scope of request `r`: where its code is (`at`), what was asked (`input`), the
lookup it does next, the accounts still to load, the entries its `DbContext`
holds, the money last converted, whether the exchange's dictionary is filled,
and its `answer`. A request that was answered stays at the point it reached, so
the properties can speak of what it did without any auxiliary variable.
`faults` counts the requests that were cut off.

**Granularity.** A step runs from one await that leaves the process to the
next. One SQL command is one step, for no transaction spans several.
`SaveChanges` is one step: EF Core wraps the INSERTs of one call in a
transaction. The code between two awaits (the balance check, adding an entry to
the loaded account) is part of the step before the next await.

**Actions and code.**

| Actions | Code |
|---|---|
| `Receive` | controller, then `*ValidationUseCase.Execute` |
| `LookUp` | the query of `AccountRepository.GetAccount` / `Find` (by owner for closes and withdrawals only) |
| `ListAccounts`, `NextAccount` | `AccountRepository.GetAccounts` |
| `LoadCredits`, `LoadDebits` | `LoadTransactions` |
| `AnswerNotFound`, `GetAccount`, `GetAccounts`, `CloseAccount` | the use cases after their lookups |
| `Withdraw`, `Transfer`, `Deposit`, `CreditTransfer` | `ICurrencyExchange.Convert` with the check or the entry that follows it |
| `ConvertThrows` | `CurrencyExchangeService.ParseCurrencies` on a filled dictionary |
| `SaveAccount`, `SaveDebit`, `SaveCredit`, `SaveThrows` | `Add`/`Update` and `UnitOfWork.Save`; an INSERT whose account is gone violates the foreign key |
| `DeleteDebits`, `DeleteCredits`, `DeleteAccount` | the three commands of `AccountRepository.Delete`; the foreign keys cascade |
| `AnswerOk` | the output port's `Ok` after the last command |
| `Fault` | a command or a call that throws, or the process that stops |

**Abstractions.** Amounts are whole cents: a stored value is the converted
amount rounded to the cent (`RoundedQuotient`), and the fourteen or more digits
that `decimal` keeps until the INSERT are not modelled. A new entity takes the
name of its request as its Guid, since a request makes at most one of each
kind and Guids are fresh. The rates of the exchange are any table of the
constant `Rates`, chosen anew at each conversion: one table for the fake
exchange, several for the service (`MoneyExchange` has the digits; its
`CentsAreEnough` bounds what this leaves out by a cent, and with it `OverdraftTakesARace`
holds of the code to the cent that `ShortByACentAtMost` names). Dates and texts are left out. The message
lists of `Notification` are reduced to whether there is one.

**Deliberately wrong variants.** Definitions whose comment starts with
"Mutant" are what the code would be with one plausible bug. Nothing uses them;
PROJECT.json pairs each with the property that must fail under it.

### Ledger

`Ledger` knows neither scopes nor queries nor an exchange: it has the books
(`accounts`, `credits`, `debits`), and of each request what it `asked`, its
`phase` ("new", "asked", "debited", "closing", "done") and its `answer`. It
says which postings each use case makes (`Open`, `Deposit`, `Withdraw`,
`PayOut` then `PayIn`, `Erase` then `Close`), which refusals each output port
has (`MayRefuse`), that a refusal precedes every posting and an `Ok` follows
the last, that an entry has the asked amount converted at one of the rates,
and that only the owner withdraws and closes. It is as weak as the code: a
transfer is two postings, a close several, and an `Error` may stop either
between two of them. It does not promise that funds suffice, for the API does not keep
that promise (`overdraft`, `deleted_funds`).

`LedgerRefinement` maps the books to the tables and the phase to the point a
request's code has reached (`PhaseAt`); `ImplementsLedger` is the ledger's
specification under that mapping.

### WalletPages

**State.** `tab` is what one browser tab shows: its page, the account in its
route, the call whose answer led to it (`from`), the calls whose answers it
awaits, and the answer it shows. `wire` holds the calls that have left the
browser and not reached the API. Below it is the whole of `AccountsApi`: a
call becomes a request when it arrives, and keeps its name.

| Actions | Code |
|---|---|
| `Visit`, `Mount` | the routes, and what `Accounts.componentDidMount` or the constructor of `Account` fetch |
| `SaveOpenAccount`, `SaveCloseAccount`, `SaveDeposit`, `SaveWithdraw`, `SaveTransfer` | the `save...` method of each form, as often as the user clicks |
| `Redirect` | the `then` that sets `submitted`, and the `<Redirect>` it renders |
| `Show` | `setState(response.data)` of the fetching pages |
| `Catch` | the `catch` of every call, and bodies that hold nothing the page looks for |
| `Arrive`, `Lose`, `Elsewhere` | the network, and everybody else's requests |
| `Serve`, `Break` | the steps and the faults of the API |

`Status` is what the output ports of the controllers answer, with the
`ExceptionFilter` on as in `appsettings.Production.json`: its `JsonResult`
carries no status code, so an error leaves with 200. What saves the forms is
that they read a member of `response.data.transaction` (or `.account`), which
throws when it is missing; the form that closes an account reads
`response.data.accountId`, which does not (`Confirms`, run `false_close`).

**Abstractions.** There is one tab; other tabs and users are `Elsewhere`. The
fields of a form are the inputs of its submit. Links between pages, the
Cancel button and typed addresses are all `Visit`, over the pages in `Links`.
A page left for another hears no answers: React ignores the state of a
component it has unmounted. Calls carry a valid token; what becomes of tokens
is `ClientSession`'s. When the instance has run out of names, a page is mounted without its call.

### ClientSession

**State.** `page[t]` is what tab `t` shows: a page of the client, or a stage of
its way through the identity server, with the sign-in request it goes on with,
the user its form, its code or its sign-out is about, whose tokens it has sent
for (`awaits`), the token of its pending call and whose data it shows. `stored[t]` is the user in the tab's session
storage, `signins` the sign-in requests whose state is in the local storage all
tabs share, `cookie` who is logged in at the identity server, `external` who has
just come back from the external provider, in a cookie for all tabs too.

**Granularity.** A request carries the cookies of the moment it is sent, and
what its answer sets counts from the moment it arrives; so a login, a sign-out
and an external login are two steps each (`Login` then `SignedIn`), and other
tabs go on between them. A page runs on until the navigation that leaves it
gets through: a tab whose token has expired is on its way out (`ending`), and a
late answer may still be shown there, and tokens that were sent for may be
stored there after the old one was removed. Then two navigations are under way,
that of the sign-out and that of `navigateToScreen`, and either may win.

| Actions | Code |
|---|---|
| `OpenHome`, `OpenPrivate`, `OpenLogout`, `signoutRedirectCallback` | the routes of `wallet-spa`, among them `PrivateRoute` |
| `SignIn`, `signinRedirectCallback`, `UserLoaded`, `ExchangeFails` | `AuthService` and the callback page; a failed sign-in leaves that page loading |
| `Call`, `Answer` | the interceptor of `oauth.js`, which looks the token up at each call |
| `Expire`, `AccessTokenExpired`, `ExpiredAgain`, `SignOut` | `accessTokenExpired` and `logout`; a private page has two user managers, one in `AuthProvider` and one in `SideMenu` |
| `LoginForm`, `Login`, `SignedIn`, `CancelLogin`, `LogoutPage`, `ConfirmLogout`, `SignedOut` | `AccountController` of the identity server; its forms hold for the user they were made out to (`FormHolds`, the antiforgery token) |
| `Challenge`, `Callback`, `ExternalSignedIn` | `ExternalController`, which takes the user and the request to go on with from the external cookie, whichever tab it came from |
| `Authorize`, `Denied`, `EndSession`, `ComeBack` | the endpoints of IdentityServer4 and the provider (external) |

`overtaken` is a history variable in the page: somebody else logged in after
the server had accepted what the tab waits for.

**Abstractions.** Passwords are right. The protocol between the libraries is
reduced to what each side keeps: a code is good for the user it was given for,
a tab's new sign-in replaces its old one, and `clearStaleState` may drop any
that waits. Users of the provider are provisioned under ids of their own, so they
have no password (`ExternalUsers`). Silent renewal is switched off
(`authConst.js`), so no tab asks for its route. `signoutRedirectCallback`
is a route that the shipped configuration of the server does not lead to; a
typed address does.

### MoneyExchange

**State.** The totals of each account's credits and debits, in cents, for
requests one after the other: what concurrency does is `AccountsApi`'s. A
decimal is a whole number of units, `Scale` of which make one and `Cent` of
which make a cent. `Divide` rounds at the last unit as `decimal` does at its
28th digit, `Round` is `Math.Round` (half to even), `Stored` is the rounding of
a `decimal(18,2)` column, `Fits` its largest value. `Convert` is that of
`CurrencyExchangeFake`, whose second quotient throws when the first is zero
(`Throws`). The actions are the use cases that move money, each with all its
steps; a transfer whose credit does not fit keeps its debit, as in the code.

**Abstraction.** A tie in the last digit goes up, where `decimal` takes the even
one. The theorems hold for every `Scale`: they use of a quotient only that it is
within half a unit of the true one.

### FakeStore, FeatureGates, DevelopmentHost

Without SQL Server the host keeps everything in `MangaContextFake`; the
component tests run on it too. Nothing awaits there, so a request runs on its
thread without a pause and its steps are the calls it makes on a collection:

| Actions | Code |
|---|---|
| `Ask`, `LookUp`, `SingleThrows` | the use cases' lookups in `AccountRepositoryFake`, `Find` among the user's own accounts; `SingleOrDefault` on a list that has the account twice |
| `Check`, `Post` | `GetCurrentBalance`, `IsClosingAllowed`, `Account.Deposit`, `Account.Withdraw`: everyone holds the same object |
| `Update`, `Delete`, `RemoveOld`, `Add` | the repository's methods, which find the old account, remove it and add it |
| `Return` | `UnitOfWorkFake.Save` and the output port |
| `Tear` | two threads in one `List<T>` at once, one of them changing it |

`listed[a]` is how often the list has account `a`. `met` is a history variable:
which requests each was under way together with. `torn` says that two threads
were in one collection at once: `List<T>` then promises nothing, and neither
does the model, which stops. A thread is in the list (`Listing`), in the entries
of the account it posts to or sums up, or, to answer, in those of every account
that it shows with its balance (`Uses`; `AccountModel` of each account that
`GetAccounts` has listed, `mine`). What remains are the interleavings *between* the
calls, which already lose, double and revive accounts. The collections `Credits`
and `Debits` of the context are written and never read, so they are left out,
and accounts have one currency.

`FeatureGates` is `PopulateFeature`: `i` goes down the list, `flags` are those
of the gate in hand, `TakeOut` shortens the list. A gate names at most one
feature (`GateAssumption`), as all of `WebApi/UseCases` do; with two disabled
features in one gate the code would take out a neighbour.

In `DevelopmentHost` the loop runs first; then the controllers that are left
serve requests from the store.

## Properties

Safety:

* `NoOrphanEntry`: entries belong to accounts that exist.
* `RefusedLeavesNothing`, `OkIsAReceipt`: what an answer says is what the
  tables hold.
* `TransferMakesNoMoney`: a transfer's credit never exists without its debit,
  unless the origin was being closed.
* `OverdraftTakesARace`: a balance below zero needs two debits of which neither
  request had loaded the other's, or a close in progress. One request alone
  never overdraws.
* `DeletedFundsWereUnseen`: money that a close is about to delete came in after
  the close loaded the account.
* `OwnersActOnTheirOwn`: the owner checked at the lookup is still the owner
  when the debit or the delete is sent.

Pages:

* `MovedOnMeansPosted`: the page after a deposit, a withdrawal, a transfer or an
  opening appears only once that posting is in the tables, whatever else was
  clicked, lost, refused or answered late.
* `PageShowsThePosting`: what that page shows contains the posting: it is
  read after it, although by several queries amid other requests. No trace of
  an account remains on the dashboard after its close.
* `PagesInv`: answers reach the page that asked and no other.

Session:

* `ShowsItsUsersData`: however late an answer, a tab never shows one user's
  data under another's token.
* `NobodyElseIsLoggedOut`: no form and no sign-out of a tab, however old, ends the
  session of somebody it neither names nor was made out to, unless the server had
  accepted it before they logged in and it is answered late. Those who come
  back from the provider replace anybody: nothing in `ExternalController.Callback`
  looks at who is logged in.
* `SignInSettles`: see Liveness.

Money:

* `ShortByACentAtMost`: the roundings of check and column can leave an account
  a cent below zero without any race, never more, however many requests follow.
* `CoveredIsAccepted`, `BalanceCanBeDrawn`: they refuse no money that is there,
  and the balance shown can be withdrawn, which leaves an account that can be closed.
* `CentsAreEnough`: the conversion of `AccountDomain` is that of the code, to a cent.

Without SQL Server:

* `OnlyMeetingsDoubleOrRevive`: whatever meets, no open account is ever lost from
  the list. One that is listed twice takes two updates of it that met, and so
  does a request that throws, at one of its accounts; a closed one that is listed
  takes an update that met the close. Reads, refused closes and requests about
  other accounts excuse nothing.
* `OverdraftTakesAMeeting`: a balance below zero takes two payments out of the
  account by requests that were under way together.
* `AloneItIsALedger`: one request after the other, the store implements `Ledger`:
  what the component tests see is what `AccountsApi` promises under concurrency.
* `ServedAreThoseThatAreOn`, `NothingIsDoneThatIsOff`: the loop over the shrinking
  list leaves exactly the controllers that are on, and only they change the store.

Actions:

* `ImplementsLedger`: every step of a request is a step of the ledger or
  invisible to it.
* `LoadedBalanceIsCovered`: because credits are loaded before debits, the
  balance a request holds is never above that of the tables at that moment,
  unless the account is being closed.
* `EntriesComeAndGoInTime`: no entry is written for a request already answered;
  none disappears but by a close of its account.

Liveness: `EveryRequestIsAnswered`, and `DebitIsCredited`: with the fixed rates
a transfer that debited goes on to credit, unless cut off by a fault or a close.
`CallsSettle`: no page awaits a call for ever. `SignInSettles`: if the user types no more
addresses into a tab, whatever fails or goes on in other tabs, its sign-ins and
sign-outs come to a page that stays, and a private page whose token has expired
does not stay.

### Where the texts and the code differ

| Run | Statement | What happens |
|---|---|---|
| `overdraft` | "Informs it is out of balance." (`Withdraw/IOutputPort.cs:16`) | two withdrawals load the same balance, both pass the check, both are saved |
| `deleted_funds` | "Close account calls *Account Cannot be Closed* in case of existing funds." (`CHANGELOG.md:96`) | a deposit saved after the close's load is deleted |
| `real_transfer` | "The updated balance." (`Transfer/TransactionsController.cs:54`) | with the exchange service every transfer throws after its debit was saved |
| `false_close` | "The closed account id." for status 200 (`CloseAccount/AccountsController.cs:55`) | a close that throws is answered with 200 and no id; the page redirects as after a success |

## Runs and bounds

| Run | Instance | Distinct states |
|---|---|---|
| `races` | 3 requests, 1 account holding 2 cents, 1 fault; withdrawals of 1 and 2, a deposit, reads, closes, a stranger | 41,689 |
| `transfers` | 3 requests, 2 accounts of different currencies, 1 fault; transfers both ways and to oneself, closes, deposits | 463,902 |
| `service` | 2 requests of any kind, also invalid ones and ones about each other's new accounts, 1 fault, the exchange service with two tables of rates, fairness | 25,368 |
| `pages` | 3 calls, 2 accounts, 1 fault; a tab with the forms to deposit, transfer, open and close, somebody else's closes | 618,641 |
| `calls` | 2 calls of any kind, from a tab that deposits and withdraws or from elsewhere, 1 fault, fixed rates, fairness | 61,648 |
| `session` | 2 tabs, a user with a password and one of the provider, fairness of one tab | 912,166 |
| `money` | 2 accounts in dollars and in kronor, a dollar of 10 cents of 4 units, 8 amounts from a quarter of a cent to one whose dollars vanish, totals up to 14 cents | 17,956 |
| `development` | 3 requests of any kind, 2 accounts of one currency, 7 controllers; everything on, or at most two features | 180,819 |

Three requests are what the races need: two that collide and a third that
closes the account or witnesses the result (an overdraft takes two debits, a
lost deposit takes a deposit and a close; no action involves the state of more
than one other request). Three calls are what a page needs: a form clicked
twice and the fetch of the page after it, or a form, that fetch and a close
from elsewhere. Two cents and amounts of one and two separate "covers
both", "covers one" and "covers none". One fault at any point is enough, for a
fault only stops its own request. `MaxFaults` is the only bound on a counter,
and it bounds the instance, not the code. Requests are interchangeable in the
safety runs, hence the symmetry; the liveness runs use none. `AllAnswered` lets
the instance end, so a deadlock would be a request that is stuck.

Two tabs are enough for the session, since a tab's steps read of the others
only the cookies and the local storage, and another tab of another user can put
any value there; of two users one logs in with a password and one through the
provider, so that each way of logging in meets the other. The theorems have
any number of either. Of the tabs one is `Watched`: the actions
treat them alike, and a tab settles by its own navigations whatever the other's do. The toy decimals of `money` keep what matters: a cent of four
units has a half and values on either side of it, `Scale` is small enough for
quotients to lose digits and for a large amount to have no reciprocal, and the
rates do not divide each other; `MaxTotal` bounds the totals only.
`development` has every way that two requests meet at an account and a third
that finds what they left; deadlock is not checked there, since a
host that has served its requests, or is torn, stops. Two features that
are on leave five turned off around them, at every distance from each other.

## Fairness

`FairSpec` asks weak fairness of `Step(r)` for each request: the thread pool
resumes a continuation whose await has completed, and every command and every
call completes or throws (SQL commands and `HttpClient` have timeouts). Nothing
is assumed about the arrival of requests or of faults. Weak fairness suffices
because no request ever waits for another one: its step, once enabled, stays enabled.

`PagesFairSpec` asks weak fairness of `Arrive(r)`, `Serve(r)` and `Deliver(r)`:
a call reaches the API unless its connection fails, the API goes on as above,
and the browser runs the handlers of a settled promise. `Lose` is a choice of
the network and has no fairness; a call it takes has settled too. Nothing is
assumed of the user.

`FairSpec` of `ClientSession` asks of the tabs in `Watched` weak fairness of
`Redirects(t) \/ AccessTokenExpired(t)`: a tab whose navigation or request is
under way, or whose token's timer in oidc-client is due, does not stay as it is for
ever. It asks nothing of the other tabs, of the user (whose typed addresses
`SignInSettles` takes to have stopped, for they can send a tab round for ever), of
the provider, nor of the moment a token expires.

## Proofs

Every safety invariant and every action property of a passing run is a theorem
for every value of the constants: any number of requests, accounts, tabs and
controllers, any amounts and rates.

`AccountsApiProofs` and the modules that extend it assume what `AccountsApi`
does: ids are distinct, the seeds and the inputs are typed, rates are positive,
`None` is nothing else, the seeded entries are finite collections, and each
seeded account covers its debits (`SeedsAreCovered`: `SeedData` gives its
account 400 and takes 50):

* `Invariance`: `Spec => []IInv`;
* `TypeCorrectness`, `EntriesHaveAccounts`, `RefusalsAreClean`,
  `ReceiptsAreHonoured`, `OwnershipIsRespected`: the invariants `TypeOK`,
  `NoOrphanEntry`, `RefusedLeavesNothing`, `OkIsAReceipt`, `OwnersActOnTheirOwn`;
* `EntriesComeAndGo`: the action property `EntriesComeAndGoInTime`;
* `AmountsAreNamed`, `TransfersMakeNoMoney` (`BalanceProofs`): the invariants
  `EntriesAsNamed` and `TransferMakesNoMoney`;
* `BalanceInvariance`, `OverdraftsAreRaces`, `DeletedFundsCameLate`,
  `LoadedBalancesAreCovered` (`BalanceProofs`): the inductive invariant
  `BalanceInv`, the invariants `OverdraftTakesARace` and
  `DeletedFundsWereUnseen`, and the action property `LoadedBalanceIsCovered`;
* `LedgerIsImplemented` (`LedgerProofs`): `Spec => ImplementsLedger`;
* `PagesRunTheApi`, `PagesInvariance`, `MovingOnMeansPosting`,
  `ReadingInvariance`, `PagesShowThePosting` (`WalletPagesProofs`): `PagesSpec`
  implements `Spec`, and the invariants `PagesInv`, `MovedOnMeansPosted`,
  `ReadingInv` and `PageShowsThePosting`.

The others do not need the API:

* `TotalCountsCents` (`AccountDomainProofs`): the total of a collection is the
  number of its cents;
* `SessionInvariance`, `TabsShowTheirUsersData`, `SessionsAreTheirUsers`
  (`ClientSessionProofs`): `SessionInv`, `ShowsItsUsersData` and the action
  property `NobodyElseIsLoggedOut`, for any tabs and users;
* `AccountsAreShortByACentAtMost`, `WhatIsCoveredIsAccepted`,
  `WhatIsShownCanBeDrawn`, `CentsAreEnoughForAccountsApi`, `AmountsStayNatural`
  (`MoneyExchangeProofs`): `ShortByACentAtMost`, `CoveredIsAccepted`,
  `BalanceCanBeDrawn`, `CentsAreEnough`, `TypeOK`, for any precision and
  amounts, and for rates of which none is more than `Cent` times another
  (`RatesAreNear`: those of the code lie between 0.80668 and 9.31944, and a
  cent has at least 10^14 units there);
* `GatesInvariance`, `OnlyWhatIsOnIsServed` (`DevelopmentHostProofs`): `GatesInv`
  and `ServedAreThoseThatAreOn`, for any controllers, gates and settings;
* `PaymentsInvariance`, `StoreInvariance`, `OverdraftsAreMeetings`,
  `MeetingsDoubleOrRevive` (`DevelopmentHostProofs`): the inductive invariants
  `PaymentsInv` and `StoreInv`, and `OverdraftTakesAMeeting` and
  `OnlyMeetingsDoubleOrRevive`, if ids are distinct, inputs are typed and the two
  accounts of `MangaContextFake` cover what they have paid (800 and 300);
* `HostTypes`, `NothingThatIsOffIsDone`: `HostTypeOK` and `NothingIsDoneThatIsOff`;
* `AloneInvariance`, `OneAfterTheOtherItIsALedger`, `WithoutMeetingsItIsALedger`:
  `AloneInv` and the action property `AloneItIsALedger`, and from them that a
  store whose requests never meet implements all of `Ledger`.

**The inductive invariant.** None of these is inductive alone. That a refusal
is clean needs to know at which point of which route it was given (`OnRoute`).
That an entry has its account needs to know that an account row is written
once, by a request that had not finished opening it (`RowsAreAccountedFor`:
rows belong to ids `Opened`). Ownership needs that an id once looked up is
never given to another account (`LookedUp`). That an Ok is a receipt needs the
receipt from the Save on (`SavedOrErased`), up to a close that has begun to
delete (`Erasing`), which no step takes back.

**The argument.** `RequestsMoveAlone` says what a step of one request leaves
alone; `TablesMoveAsTheyShould` says how it may change the tables. From these
two, `ErasingIsForGood`, `OpenedIsForGood` and `OpenedKeepsItsRow` give what
stays true of accounts, and one lemma per conjunct of `IInv` shows that it is
kept: `TypePreserved`, `RouteIsKept`, `RowsStayAccountedFor`,
`LookedUpIsKept`, `SavedIsKept`. TLC checks `IInv` in the run `service`.

**Transfers.** `EntriesAsNamed` is inductive relative to `IInv`: an entry, and
the money about to become one, has the amount the client named whenever the
client named the currency of its account. It rests on `QuotientOfAMultiple` of
`AccountDomainProofs`
(rounding a multiple of the rate divides exactly) and on the currency of an
opened account never changing (`NamedForGood`). With the debit's receipt from
`SavedOrErased`, `TransferMakesNoMoney` follows.

**Balances.** A total is a fold over a set in an order nobody chose, and the
provers have no induction over data. `AccountDomainProofs` goes round it:
an entry of five cents is five pairs, and a collection is the set of all its
pairs (`Cents`), so facts about cardinalities apply. The count of pairs solves the equation
of the fold (`CentsSolve`), and a smallest subset on which another solution
differed would differ on a smaller one (`SolutionIsCents`). Hence totals add up,
grow with the set, and lose what an entry taken out held.
`BalanceInv` is inductive relative to `IInv`. An overdraft is made of debits,
so it says of every request what its balance was made of: what it has loaded is
in the tables, up to a close (`LoadedWasThere`); at its debit the check still
stands on what it loaded (`Checked`); and the debits of no request were all
loaded (`SeedDebitsSeen`), without which two requests might be blamed for what was there
before either. Take the last debit that led below zero: if it had loaded all
others, its check covers them, against credits that can only have
grown. `LoadedBalanceIsCovered` follows from the order of the two queries,
`DeletedFundsWereUnseen` from `Checked` at the close's first command.

**The ledger.** `Priced` is inductive relative to `IInv`: rows keep the
currency they were opened with, money about to be saved is a conversion of the
asked amount, and only an account that was asked for can be missing.
`OneRequestIsSeenToMove` and `QuietStep`, `AnsweringStep`, `PostingStep` turn a
step of the scopes into one of the ledger's variables; one lemma per action
names the ledger's step, and `StepsAreLedgerSteps` gathers them.

**The pages.** `PagesRunTheApi` shows that every step of the pages is a step of
the API or leaves it alone, so the theorems above hold beneath them. `PagesInv`
is inductive: a call on the wire has no request yet, so no page can have been
answered by it, and an answer once given stays (`Received`,
`ApiStepsKeepPages`); `MountedPage` and `ClientStepsKeepPages` treat the
client's steps (`PagesInvariance`). With the receipt of an Ok
(`ReceiptsAreHonoured`) it gives `MovingOnMeansPosting`.
`PageShowsThePosting` needs to look into the fetch that is still going on.
`ReadingInv` says that the call a page made after a posting has read what was
posted or has yet to (`ReadsInTime`, from `ToRead` and `DebitsToRead`: the queries
still before it), unless a close is erasing it; and that an
opened account has the owner who asked for it, so that the query by owner finds
it. `ApiStepsKeepReading` treats the queries, `ClientStepsKeepReading` the
moment a page is mounted, when everything is still to be read.

**The session.** `SessionInv` is inductive as it stands: private pages have a
token, and tokens come only to a page that has sent for them, be it on its way
out by now (`TokensAreWhereTheyBelong`); what a private page asked for or shows is
its token's user's (`PagesHaveOneUser`), which every navigation re-establishes
because a new page shows nothing. What the server has
accepted is of whom the cookie names, or nobody is logged in, or the tab was
overtaken (`AcceptedInTime`). `SafeTab` says all this of one tab; a step keeps it in
the tab it is taken in (`OneTabAtATime`), and only a login touches the others
(`LoggedInIsSafe`). The two properties follow.

**The decimals.** Lemmas on `Round` and `RoundedQuotient` bound a rounded
quotient by half its divisor. From them a debit that passes the check is at
most half a cent above the balance (`CoversToHalfACent`), so its stored value is
at most a cent above (`AcceptedIsAlmostCovered`), and an account that is short
pays nothing more: `ShortByACentAtMost` is inductive (`MoneyInvariance`); `CoveredIsAccepted` is a fact about any
state. `BalanceCanBeDrawn` rests on a round trip: within `Precise`, an amount
divided into the rate, and the quotient divided into it again, gives the amount back
(`RoundTrip`). `CentsAreEnough` compares two ways to the same cent: the two
quotients of the code, whose result is less than a unit from the
true value for equal rates and about half a cent for rates as far apart as
`RatesAreNear` allows (`TwoDivisionsComeClose`), and the one of `AccountDomain`.
Rounded to the cent, they meet or are neighbours (`CentsComeClose`).

**The gates.** `GatesInv` says that the list is untouched as far as the loop
has not come, and holds behind that what is on and nothing else; taking out
an element moves only elements behind it. At the end nothing is untouched.

**The in-memory store.** `PaymentsInv` is inductive: whoever is under way with
another has met it (`TogetherMet`), so the balance a payer has checked is there
until it is taken, unless another whom it met has taken it (`CheckStands`).
`ListedInv` says where an account is that has been opened: in the list, in the
hands of a request that is about to add it, or deleted (`NotLost`). One that is
listed, or that a request has found (`Holds`), has been opened (`OnlyOpened`), so
nobody adds an account that was not. It is listed once, and not at all while
somebody holds it to add, unless two updates met (`NotDoubled`); and a close that
has deleted it leaves nobody holding it whom it did not meet, unless it met an
update (`NotRevived`): a request that comes later finds nothing. `SingleOrDefault` throws on a
second listing only, so an error takes the same two (`ErrorTakesUpdaters`). The
two together are `StoreInv`, from which both properties follow.

**The store as a ledger.** One request after the other, the call in hand is the
only one under way (`OnlyCall`), and `StoreInv` says exactly how often an account
is listed at each point of the request about it (`Lists`, `AloneListed`). `AloneInv` adds that only owners pay and close, and that a new
account has no entry but its first. Each call on a collection is then one
posting of the ledger, an answer, or nothing: one lemma per action, and
`CallIsSeen` turns a step of the scope into one of the ledger's variables.
`[]Alone` turns the action property into the whole of `L!Spec`.

**Model-checked only.** Liveness, which needs fairness and ENABLED, both out of
the provers' reach: `EveryRequestIsAnswered`, `DebitIsCredited`, `CallsSettle`,
`SignInSettles`. And what the runs that expect a violation
show, which is a counterexample and needs no proof.

## Not modelled

* **What the provider knows** (`AutoProvisionUser`, claims): the provider is a
  service; `ClientSession` has only whom it sends back.
* **Consent, device flow, grants** (`ConsentController`, `DeviceController`,
  `GrantsController`): the wallet's client requires no consent, no
  client uses the device flow, and grants are the library's; the pages pass one answer on.
* **How a token becomes a user** (`ExternalUserService`, JWT validation): a
  lookup of one claim; a request's `user` is its result.
* **GetAccount, version 2**: the same use case with a spreadsheet as its answer.
* **Appearance** (`Header`, `Layout`, `theme.js`, most of `SideMenu`): it keeps
  no state but whether a drawer is open.
* **The service worker** (`serviceWorker.js`): `index.jsx` unregisters it.
* **Silent renewal**: switched off, and its route is never asked for.
* **Hosting, view models, identity server configuration, deployment, tests**:
  they keep no state of the system.
