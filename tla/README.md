# TLA+ models of the airline booking system

Four Node services (auth, flight search, booking and payment, notification),
each with its own PostgreSQL database, talk over HTTP and RabbitMQ; a React
frontend talks to all of them. This directory models the parts in which
several requests, jobs, services or failures meet, and the pages of the
frontend, in which one user meets answers that come late, fail or are lost.

## 1. Inventory

| Component | State | Operations | Meets others through | What makes it correct |
|---|---|---|---|---|
| Booking lifecycle (`booking.service.js`) | `Bookings.status` | create, confirm, fail, cancel, cancel and refund, admin cancel | HTTP to flight search, events | status, money and seats agree, whoever acts at once |
| Payment (`payment.service.js`) | `Payments.status`, unique per booking | initiate, gateway refund, mark refunded | transactions with the booking row, gateway | one charge, a CONFIRMED booking is paid, a refund is recorded |
| Gateway (`mockPaymentProvider.js`) | none | charge, refund | awaited by payment | external |
| Expiry job (`expire-bookings.js`) | instances listed | list, expire, announce | races with every request on the booking | unpaid bookings end, paid ones are not touched |
| Creation saga (`createBooking`, `createBookingRound`, `flightService.client.js`) | where a request is | look up, reserve, compensate, insert | seat calls with a 5 s limit | a stored booking owns its seats, failures give them back |
| Database connections of the booking service (`models/index.js`, `crud.repository.js`) | Sequelize's pool | take, keep for a transaction, give back, time out | every statement; a payment holds one with its booking's row and asks for a second | a shortage stops nobody but around payments, and leaves booking and payment row agreed |
| Seat inventory (`flight.service.js` seats) | `totalSeatsLeft` | decrement, increment | concurrent calls of the booking service | in range, oversold only by what is known |
| Flight search cache (`getFlights`, `_clearFlightCache`) | Redis `flights:*`, 5 min | read, fill, clear by SCAN | every write of a flight | a result is outdated only until the clear of the write, or for a reason that is known |
| Flight catalogue (cities, airports, airplanes, flights) | four tables with foreign keys | create, update, delete | an admin's page, seats sold meanwhile, bookings' snapshots | what was put on offer less what was sold is what is left; times, durations and snapshots agree |
| Notifications (`notification.service.js`, `messageQueue.js`) | queue, `Notifications` | publish, consume, mail, record, acknowledge | RabbitMQ at least once | an acknowledged event was mailed or is recorded as failed |
| Departure reminders (`booking.service.js` upcoming, hourly job) | `Notifications`, times in bookings | hourly list, check, send | overlaps with itself, flights that change | one reminder for each leg, in its last day |
| Sessions and accounts (`auth.service.js`, `user.service.js`) | `Users`, `Sessions`, roles | register, log in (password, code, Google), refresh, log out, change or reset password, roles, delete | concurrent requests about one account, nightly cleaning | session limit, no session survives a password change, an account keeps a role and a way in |
| One-time passwords (`auth.service.js`) | Redis `otp:*` with attempts and time limit | send, verify | concurrent verifications, time limit | few attempts, one use, one code |
| Token refresh and sign-in state (`axios.js`, `AuthContext.jsx`) | token, refreshing flag, waiting requests | sign in, request, 401, refresh, retry, sign out | all calls of a tab, overlapping sign-ins | every call is answered; the token is the user's |
| Admin dashboard | rows of a tab, one form, one edited id | load, edit, save, create, delete | writes against rows that have changed since | a save writes what the admin saw and typed |
| Search, booking, payment, list and password pages | form, results, what was loaded, request on its way | the buttons, answers in any order or lost | the services | what a page says is so |
| Shared messaging and middleware | channel of each process | connect, publish, subscribe | RabbitMQ | in the modules of its users; error formats and logging not modelled |
| Routes, validation, swagger, migrations, seeders, list of notifications, menu, layout | none that several actors share | | | section 7 |

Hard behaviours: every handler is a chain of `await`s between which any other
handler may run; a row loaded before an await is used after it; transactions
whose options the repositories drop; calls to another service that time out
although they are still served; crashes between two awaits; jobs that overlap
with themselves; events delivered again; pages whose form goes on being edited
while an answer is on its way. `PROJECT.json` lists each under `hazards`, at its
line, with the properties that would catch it.

## 2. Modules

| Module | Models | Kind |
|---|---|---|
| `PurchaseContract` | what the booking service promises about money | abstract specification |
| `BookingPayment` | payment, cancellation, refund, expiry of bookings | specification of the code |
| `BookingPaymentProofs` | money, seats and events of `BookingPayment`, and its refinement of the contract | proofs |
| `SeatInventory` | the seat counter of the flight service | specification of the code |
| `BookingSaga` | creation and seat compensation over `SeatInventory` | composition |
| `BookingSagaProofs` | the counter stays in range and exact; the saga over it: stored bookings own seats, fit, and give back what they do not keep | proofs |
| `SearchCache` | flight search over Redis, and the clearing of its keys | specification of the code |
| `SearchCacheProofs` | which outdated results can remain | proofs |
| `OneTimePassword` | codes in Redis: sending, verifying, attempts, time limit | actions for `Accounts` |
| `Accounts` | an account's row, roles and sessions under all its requests | specification of the code, over `OneTimePassword` |
| `AccountsProofs` | sessions, passwords, roles and codes under any requests | proofs |
| `Notifications` | events, consumers, mails, records, the reminder job | specification of the code |
| `NotificationsProofs` | acknowledged is accounted for, SENT is true, no mail is spare | proofs |
| `ConnectionPool` | the booking service's pool and who holds what of it | specification of the code |
| `Departures` | times of flights, snapshots, 24-hour rule, list of reminders | specification of the code |
| `DeparturesProofs` | reminders come in time; what misleads is a change | proofs |
| `Services` | the last three parts, one in each behaviour | composition |
| `ServicesProofs` | who can lock whom out of the pool, and what a refusal leaves; each part keeps its promises beside the others | proofs |
| `BrowserAuth` | sign-in state, interceptors, refresh queue | specification of the code |
| `FlightCatalog` | the administered tables, foreign keys, seats being sold | operations for `AdminPage` |
| `AdminPage` | the dashboard over `FlightCatalog` | specification of the code |
| `SearchPage`, `BookingPages`, `PasswordPage` | the pages of a traveller | specifications of the code |
| `Browser` | one tab: any of the five, one in each behaviour | composition |
| `BrowserProofs` | sign-in state, the dashboard and the pages under any visit | proofs |
| `MC*` | instances for TLC | |

### BookingPayment

A handler `h` is one HTTP request: `op[h]` what it does, `on[h]` its booking,
`pc[h]` the step it takes next, `loaded[h]` the status of the instance it
fetched. One action is the code from one `await` to the next:

    initiatePayment        PayLoad PayCheck PayBegin PayInsert PayCommit PayGateway
                           PaySettle ConfirmFetch ConfirmSave ConfirmTell
                           PayDecline FailFetch FailSave ReleaseSeats Tell
    cancelBooking          CancelLoad CancelSave ReleaseSeats Tell
    cancelAndRefundBooking RefundLoad RefundPayment RefundGateway RefundCommit
                           ReleaseSeats Tell
    adminCancelBooking     AdminCancelLoad AdminCancelSave ReleaseSeats Tell
    expire-bookings.js     SweepList SweepExpire SweepTell SweepThrow
    environment            Age Throw Crash

`status` and `payment` are the committed columns. The transaction of
`initiatePayment` updates the booking first, which only locks its row
(`rowLock`), and makes the change visible at its COMMIT; the payment INSERT
commits by itself, because `CrudRepository.create` drops the options it is
given. The transaction of a refund has no await that anyone else could
observe between its two updates but for the row lock, so it is one action.
`charges`, `refunds`, `releases` and `published` record what was done outside
the database. `MaxFaults` bounds rejected awaits, crashes and lost releases.

### SeatInventory and BookingSaga

A decrement is one conditional UPDATE (`Decrement`); an increment is
`IncrementRead` and `IncrementWrite`, because `CrudRepository.fetch` and
`update` drop the transaction and the row lock `incrementSeats` asks for.
`take` and `give` hold the state of each call, `give` for each booking, flight and request
that gives back. `held` is the number of seats the service has answered for,
`stale[f]` records that an increment overwrote a value it had not read, and `regiven[f]` counts
seats given back for a booking that had given them back already.

A client of `BookingSaga` is one `createBooking` (no return flight) or
`createBookingRound` request and then the booking it made. `OutTimeout`,
`ReturnTimeout`, `UndoTimeout` and `ReleaseTimeout` give up on a call that is still served
later; `LoseCall` loses it; `Die` ends the process anywhere. `incrementSeats` of the
client never throws, so refused, lost and answered releases go on alike.

Any number of requests may end one booking (`Later[k]`): the user's cancel, a refund, an
administrator's cancel, a payment that is declined. Each loads the row and checks it
(`Check`), saves CANCELLED without looking again (`Cancel`), and sends increments of its
own (`Release`), so two that overlap both give the seats back. `Confirm` is a payment that
saves CONFIRMED over the CANCELLED. Which status lets which of them pass is
`BookingPayment`'s matter; here any passes while the booking stands.

### SearchCache

`Begin` is a search request; `Hit`, `Miss`, `Query`, `Fill` are the awaits of
`getFlights` and `QueryFails`, `FillFails` their rejections. `Write` is the commit
of any write of a flight, after which `Scan`, `Delete`, `Cleared` and `ClearFails`
are the loop of `_clearFlightCache`; `todo` holds the slots the cursor has still
to pass. A result is the version of each route its key reads, so that "outdated"
is a comparison. A command that rejects may have been executed. `excused` is
history: keys stored too late, and keys a failed or dead clear did not reach.

### OneTimePassword and Accounts

`op[r]` is what request `r` asks for, `pc[r]` the await it is at, `mine[r]` its
locals; a statement that is awaited is an action. The service uses no
transaction, so requests interleave between any two statements:

    register               RegisterFind CreateUser AddFirstRole CreateSession
    login                  LoginFind CountSessions EvictOne CreateSession
    loginWithGoogle        GoogleFind LinkGoogle or CreateUser AddFirstRole,
                           CountSessions EvictOne ReloadUser CreateSession
    _verifyOtp             OtpStart OtpRefused OtpFind OtpSpend
    sendOtp                SendOtp (GET, DEL, find, SET, SET pointer, mail, undo)
    refresh                RefreshFind RefreshUser RefreshSave
    logout, logout others  Logout LogoutOthers
    reset, change password ResetFind ChangeFind UpdatePassword DropSessions
    roles                  AssignRole UpdateRoleFind RoleRead RoleApply
    PATCH                  PatchUser (password, provider, Google id)
    delete                 DeleteUser (sessions and roles cascade)
    environment            Fail MailFails SessionAges CleanSessions CodeExpires

`user` is the one row with its roles, `sessions` the session rows, whose `born` is
the order of `createdAt`; a session bears the number `ver` of the password that was checked for it.
`PATCH /users/:id` has no validation and hands the whole body to the row, so `PatchUser` may
set a password (which the `beforeSave` hook hashes), the provider and the Google id to
anything, and deletes no session.
In `OneTimePassword`, `codes` are the `otp:<id>` keys with their attempts and
whether they expire, `pointer` the `otp:email:<address>` key. A wrong guess
reads the attempts (`VerifyGet`) and writes them back with KEEPTTL
(`VerifyCount`), which makes a deleted key again, without a time limit.

### Notifications

`task[t]` is the handling of event `t`, or a run of the hourly job; both go
through `FetchUser`, `FetchBooking`, `CreateRecord`, `SendMail`, `SaveRecord`
and, on any error, `Catch`, in the order of `handleEvent`. `Publish` is
`publishMessage`, which loses the event if its service never got a channel
(`linked`) or the queue is not bound yet. `Start` and `Subscribe` are the start of
the service; three subscriptions share one queue. `Ack` removes the message,
`Crash` ends every handler and queues what was not acknowledged again. A job run
is `RunStart`, `RunList`, and for each leg `RunCheck` (is there a SENT row?) and
the handler, then `RunNext`.

### ConnectionPool

`using` holds a connection for a statement, `open` for a transaction, `waiting`
has none. `Grant` and `TimeOut` are the pool's; `Read`, `Find`, `Update`, `Insert`,
`Commit`, `Charge`, `Save`, `Fetch`, `SaveBooking` are the statements of a payment, of
which the INSERT asks for a second connection while `open` keeps the first. A payment's
UPDATE locks the row of its booking (`Of`) until the COMMIT: `RowFree` is the guard of
every other UPDATE of that row, and who waits for it keeps a connection and has no time limit.
`Serve` and `CancelBooking` are a request that needs one connection at a time.

### Departures

`flight[f]` has departure, arrival and duration. `CreateFlight` runs the validator and the
hook; `PatchFlight` is the bulk update with any fields of the row, the duration too,
which validates what it is given and runs no hook. A request reads its flights (`ReadOut`,
`ReadBack`), takes the seats (`Reserve`) and stores what it read (`Book`); flights may change
in between, and `moved` has the bookings whose flight got another departure, or was
deleted, after it was read. `Refund` applies the 24-hour rule to the snapshot; `Run` is `getUpcomingBookings` for the hour, `Miss` an
hour without a run, `Tick` the clock.

### BrowserAuth

`hooks` is what `configureAuth` was last given: the token that its `getToken` closed
over and whether its `setToken` and `logout` reach the React state. `accessToken`
and `user` are that state, `isRefreshing` and `refreshSubscribers` the
module variables of `axios.js`. `call[c]` is a request: sent, answered 401,
refreshing or waiting for another's refresh, sent again. `sign[s]` is a sign-in, or the
restoring of the session when the page loads, from its request to the profile
it reads.

### AdminPage over FlightCatalog

`tab`, `shown`, `editingId` and `form` are the dashboard's state; the form and
the id are shared by all tabs. `write` is the request on its way: `Served` is the
service's handler on the tables, with its foreign keys (RESTRICT for flights,
CASCADE for the airports of a city) and, for flights, the seats it computes from
the airplane and the flight it read. `TakeSeat`, `ReturnRead` and `ReturnWrite` are
bookings that come and go meanwhile. `stale[f]` says which copies of the number of seats are
out of date, `overwritten` which flights got one of them written back.

### The traveller's pages

`SearchPage` has the two city boxes with the list they share (`cities`), the form,
`lastSearch`, searches on their way and the answer that is kept with what it
answers. `BookingPages` has `page`, what it loaded (`seen`), and the requests that write
(`asked`): the open page's, and others of pages that were left, of another tab, of an
administrator or of the expiry job. Each is served in steps that overlap on a row: `Check`,
then `BeginPayment`, which finds the one payment of a booking taken or takes it, and
`EndPayment` after the gateway; or `EndBooking`. Both save over whatever the row has become.
`PasswordPage` has the step, the typed email, and for which email the kept code and token are. `Browser` and `Services` put parts
that share no state side by side: `visit` and `part` say which one a behaviour is
about, and the others stay as they start.

## 3. Runs

| Run | Checks | Bounds | Result |
|---|---|---|---|
| `bp_safety` | types, one charge, confirmed is paid, refunded is over, seats of cancelled bookings come back, events true, money contract | 1 booking, 3 requests, 1 expiry run, 1 fault | holds |
| `bp_live` | no booking stays INITIATED, payments are decided, refunds recorded | 1 booking, 2 requests, 2 overlapping runs, 1 fault | holds |
| `saga` | seat range and ledger, stored bookings own seats, restoration, requests end | 2 flights, 3 clients (round trip, 2 one-way trips), 1 and 2 requests that end them, 1 fault | holds |
| `cache` | which outdated results can stay, searches are answered, clears end | 2 keys, 2 routes, 1 search at a time, 2 writers, 1 write per route, 1 fault | holds |
| `accounts` | session limit, old passwords end sessions, the account stays usable, codes are guarded, a revoked session stays revoked | 2 devices logged in or none, limit 2, every two operations (PATCH too) and the threes that share rows, 2 attempts, 1 fault | holds |
| `services` | records of mails are true, no mail twice, a shortage of connections is contained, reminders in time, what misleads is a change, work ends, everyone is answered | 2 events or a job run with up to 3 faults; 3 payments and a request about 2 bookings on 2 connections; 2 flights, 1 booking, a day of 2 hours, 1 change of any fields, 1 hour missed | holds |
| `browser` | the token is the user's, calls settle, the dashboard saves what it shows, pages tell the truth | 2 users, 2 ways to sign in, 3 calls, 2 tokens; 2 rows per table, 2 writes, 2 seats sold; 2 cities; 2 bookings, 1 request besides the page's; 2 emails | holds |
| `bp_seats` | README.md:35, a CONFIRMED booking keeps its seats | 2 requests, no fault | violated |
| `bp_expiry` | README.md:87, expired seats are restored | 1 run, no fault | violated |
| `bp_atomic` | README.md:447, payment start is atomic | 1 fault | violated |
| `bp_refund` | README.md:411, only CONFIRMED bookings are refunded | 2 requests, no fault | violated |
| `saga_oversell` | README.md:35, no flight is oversold | no fault | violated |

(README.md is that of the repository, `src/README.md`.) The largest runs are `accounts`
(1.5 million distinct states), `browser` (420 thousand), `saga` (310 thousand) and
`services` (165 thousand).

### Why the bounds are enough

Bookings do not interact in `BookingPayment` (no action reads one booking to
change another), so one booking shows every interleaving; three requests are
needed for a payment, a cancellation or refund that overtakes it, and a second of
either; the proofs cover every number. The saga needs a round trip whose legs are each
wanted by another client, so that either can be refused and a seat be taken between a read
and a write. Two requests end the one-way trip of the first flight, one the round trip: a second
release, a release beside a creation, and releases of both legs. All parties ask for one seat,
the flights have two seats and one, so that the last seat is contended and a full airplane
refuses an increment that a stale one, or a second release, has made wrong.
`saga_oversell` gives each booking one request that ends it, so that what it finds is
the overwritten decrement and not the second release. The cache needs a key that depends on both routes (a round trip, whose
two queries can straddle a write), one that does not, and two clears that overlap
each other and a search; the proof of `CacheStaleExplained` covers any number.

`accounts`: accounts share no row, so there is one. The limit of two sessions is
filled at the start, so that the first login has to evict, and a third login is
what exceeds the limit by two. `MCMixes` leaves out only threes of operations
that share no row, and a PATCH is in every two and beside the logins, resets and Google
links whose columns it sets; a wrong code needs two attempts to be counted once, and three
requests are a code that is sent, guessed and guessed again.

`services`: two events are what the order of mails and of acknowledgements can
depend on, two runs are an overlap of the job, and three faults with a single event
are a crash after a redelivery after a failed mail. Two connections are the least that lock:
by two payments of different bookings at their INSERT, or by one at its INSERT and another
payment or a request that waits for its row; two payments and a request are about one
booking, a third payment about another. Departures needs a return flight, a departure on
both edges of the day (`Day` = 2 and departures at 1 and 3), and one change of a flight, in
any fields, at any point of a booking. The
theorems about all three cover every value.

`browser`: two sign-ins, or one and two calls, of which one refreshes and one
waits or ends the session; a second refresh needs the second token. `MCPlans` sets
the dashboard against sales (two, to tell an overwrite from an answer), two writes of
an airplane, and tabs with and without rows of the same id. The other pages are small
enough to be explored whole, up to two bookings, cities or emails; one request beside the
page's is enough to cross it, and the proofs cover any number.

### Fairness

`bp_live`: the event loop resumes every handler whose await is done, cron starts the
job every five minutes, and time passes; nobody is assumed to send a request, and
faults are never fair. `saga`: the services go on with what they have begun, whichever of it
comes first, for every request and call takes finitely many steps;
`RequestsEnd` rests on the client's 5 s limit, which turns a lost call into an
answer. `cache`: a command or query that was sent is answered, in whatever way;
nobody is assumed to search or write, and a key need not expire, because Redis
removes it when it is next looked up. `services`: a queued message is delivered to
a consumer there is, and a handler goes on, because each of its calls has a time
limit or is a statement; nothing is assumed to restart the process, so `WorkEnds`
allows for a service that is down. A statement that has a connection is answered once the
row it updates is free, and
the pool's `acquire` limit is a timer, so who waits is granted a connection or
refused. `browser`: a request is answered or fails and the handlers of its promise
run; the user may leave the page alone for ever. `accounts` has no liveness: every
request is a finite chain.

Deadlock is not checked where every request may have ended: the system then rests.

### What the code does not keep

Five runs show the system doing what its documentation excludes:

1. `bp_seats`: a pre-payment cancel accepted while the payment is at the gateway
   releases the seats; `confirmBooking` then saves CONFIRMED without looking.
2. `bp_expiry`: the job reads `booking.flightId`, which the round-trip migration
   removed, and releases the seats of flight `undefined`.
3. `bp_atomic`: the payment INSERT survives a rollback of the booking's UPDATE;
   the booking stays INITIATED and every later payment is answered 409.
4. `bp_refund`: of two overlapping refunds both reach the gateway.
5. `saga_oversell`: an increment overwrites a decrement made since its read.

Each is stated next to the safety that does hold, which is weaker by exactly that
behaviour (`NoOversellUnlessStale`, `RefundedIsOver`). Other properties name the
exception in their own text, as history variables; the behaviour is in the model,
and the property says nothing else goes wrong:

| Property | Exception | Where |
|---|---|---|
| `StaleIsExplained` | a search that read before the write and stored after it, a clear that failed or died, each for at most 5 minutes ("prevents stale data", README.md:727) | `flight.service.js` |
| `NoOversellUnlessStale`, `RestoredAtRest` | `stale`: an increment that overwrote a write; `regiven`: seats given back again by a second request that overlapped in ending the booking, after which an increment may be refused by the capacity (README.md:35) | `flight.service.js:170`, `booking.service.js:292` |
| `SessionLimit` | `rushed`: logins that overlap between counting sessions and creating one (two sessions, README.md:345) | `auth.service.js:124` |
| `OldPasswordEndsSessions` | `spared`: a login that had checked the old password, a failed deletion, and every session there is when a PATCH sets a password | `user.service.js:27` |
| `ProviderAgrees` | `edited`: a PATCH that makes the provider disagree with the ways to log in, or takes one away | `user.controller.js:41` |
| `KeepsARole` | `clashed`: two role changes that overlap, or one that dies between its two statements | `user.repository.js:30` |
| `RevokedStaysRevoked` | `late`: a refresh that had loaded the session is still answered with an access token | `auth.service.js:246` |
| `CodesAreGuarded` | `crowd`, `tangled`, `revived`: overlapping guesses count once; a wrong guess writes a deleted code back without a time limit | `auth.service.js:70` |
| `AckedIsAccountedFor` | `muted`: Resend reports refusals in a result nobody reads; `silent`: a row that could not be saved, and a reminder that fails other than in its mail, for `notificationData` is out of scope in the catch ("No emails are lost", README.md:317) | `notification.service.js:97` |
| `NoSpareMail` | a crash before the acknowledgement, overlapping runs of the job | `notification.service.js:62` |
| `RemindedInTime` | outbound legs only: `'ROUND'` is compared with `'ROUND_TRIP'`, so a return flight is never listed (README.md:37) | `booking.service.js:384` |
| `OnlyChangesMislead` | `moved`, `patched`, `half`: the 24-hour rule and the list of reminders read the snapshot of the booking, which was read before it was stored; the bulk update computes no duration, takes any that it is given, and compares no single time (README.md:412, the flight service's README.md:92, the comment in its `models/flight.js`: "ensure client cannot manipulate duration value") | `crud.repository.js:23` |
| `TokenMatchesUser` | `overtaken`: two changes of the sign-in state that overlap | `AuthContext.jsx` |
| `CallsSettle` | `abandoned`: a call that waited for a refresh that failed is never settled, or is replayed by a later refresh with the token of whoever is signed in then | `axios.js:103` |
| `SalesSurvive` | `overwritten`: a saved number of seats that had changed since it was read | `flight.service.js` |
| `CityNamesAreCityNames` | `switched`: the edited id and the form survive a change of tab | `AdminDashboard.jsx` |
| `OneBookingPerForm` | `resent`: a form sent again after its answer was lost books twice | `Book.jsx` |
| `CancelledIsShown` | `crossed`: a booking that the service ended while a payment of it was under way, which may yet save CONFIRMED over what was reported; a failed reload leaves the cards as they were | `MyBookings.jsx` |
| `FailureIsFinal` | says it outright: "Your payment could not be processed. Please try again." offers a retry that cannot succeed, the booking being cancelled | `Payment.jsx:111-137` |
| `ResetsItsEmail` | `meddled`: an email typed while the code is being sent | `ForgotPassword.jsx` |

Met while translating, and part of the model without a property: the `getToken` closure
is not renewed by the `setToken` of a refresh (`AuthContext.jsx:37`), and the request
interceptor puts its token over the new one, so once the token of a sign-in has
expired a call and its repetition are both refused (README.md:753 promises
background refreshing); a password cannot be reset while signed in, because the request interceptor replaces the reset token
(`axios.js:79-82`); a city list that failed to load is never asked for again; text
typed over a chosen city leaves that city chosen; a payment that the pool refuses after its
charge leaves booking and payment PENDING with the money taken; a PATCH can take an
account's only way to log in. Outside the model: airplanes cannot be
created over HTTP (validation demands `modelNo`, the column is `ModelNo`).

## 4. Proofs

TLAPS checks, for every value of the constants that the assumptions below allow:

| Theorem | Says |
|---|---|
| `TypeCorrect`, `SagaTypeCorrect`, `CacheTypeCorrect`, `AccountsTypeCorrect`, `NotificationsTypeCorrect`, `PoolTypeCorrect`, `DeparturesTypeCorrect`, `ServicesTypeCorrect`, `BrowserTypeCorrect` | the type invariants |
| `ChargeOnce`, `ConfirmedPaid`, `RefundedOver` | the money invariants of `BookingPayment` |
| `MoneyNeverGoesBack` | no step takes back a decision about money |
| `SeatsComeBack` | `CancelledSeatsComeBack` |
| `EventsStayTrue` | `EventsAreTrue`: what an event said of a booking stays so |
| `ImplementsContract` | `BookingPayment` implements `PurchaseContract` |
| `SeatsSafe` | the counter is in range and agrees with its answers |
| `SagaImplementsSeats` | every step of the saga is a step of the counter or leaves it alone |
| `LiveOwns`, `SagaSeatsInRange`, `SagaLedgerExact` | stored bookings own their seats; the counter's invariants under the saga |
| `LiveBookingsFit` | `NoOversellUnlessStale`: stored bookings and seats left exceed the seats offered by no more than was given back twice |
| `SeatsRestored` | `RestoredAtRest`: they add up to these exactly once every request has ended, if nothing failed |
| `CacheStaleExplained` | which outdated results can stay in the cache |
| `AccountUsable` | `AccountStaysUsable`: an account keeps a role, and a way in until a PATCH touches it |
| `SessionsLimited`, `OldPasswordsEnd`, `RevokedForGood` | the session limit, the end of an old password's sessions and of a revoked one |
| `CodesGuarded` | `CodesAreGuarded`: few guesses, one use, one code |
| `RecordsTrue` (`AckedAccounted`, `SentTrue`) | an acknowledged event was mailed or is recorded as failed; SENT means mailed |
| `NoMailIsSpare` | `NoSpareMail`: a second mail takes a fault or an overlap of runs |
| `ShortageContained` (`LockIsPayments`, `RefusalsWhole`) | requests lock each other out only around payments at their INSERT; booking and payment row agree whatever was refused |
| `FewContendersNeverLock` | with fewer requests about bookings that are being paid than connections nothing locks |
| `DueIsListed` | `RemindedInTime` |
| `MisledByChange` | `OnlyChangesMislead` |
| `PartsUndisturbed`, `ServicesSafe` | beside each other the three parts of `Services` each do what their specification says, and keep what it promises |
| `SignedInAsShown` | `TokenMatchesUser` |
| `PagesTruthful` | `PagesTellTheTruth` |
| `AdminSavesTrue` | `AdminSavesWhatItShows` |

With them every invariant that a run checks is proved.

Assumptions, each named in the module that declares the constant:

- the null values are none of the values they stand beside (`NoneAssumption`,
  `PagesAssumption`, `SearchAssumption`, `PasswordAssumption`), bounds are naturals;
- seats: parties ask for at least one seat, flights start within their capacity, a
  trip's return flight is another flight (the validation schema refuses the same
  one), and finitely many clients ask for at most `MaxParty` = 10 seats each
  (`booking.validation.js:5,30`);
- endings: a request that ends a booking is not the one that made it (`RequestAssumption`);
- accounts: finitely many requests; rows that are there at the start agree with their
  provider, and no more devices are logged in than the limit (`AccountsAssumption`);
- mails and pool: events, legs and runs are finite and apart; requests are finitely
  many, each is about one booking, and the pool has a connection;
- departures: a day has at least an hour, flights are at natural hours;
- browser: a sign-in is not a call, nor is the restoring of a session either
  (`BrowserAssumption`); among the capacities that can be typed one is the
  largest (`CatalogAssumption`: the column is an INTEGER).

The money argument. `ChargedAtMostOnce` is not inductive: it has to be known who
may still reach the gateway. `MoneyInv` has four parts: the payment row matches
the gateway's charges (`RowMatchesGateway`); a handler past the INSERT finds the
row as it left it (`RequestMatchesRow`); there is at most one such handler for a
booking (`OneSettler`, from the unique index); and a payment not yet successful
has no refund (`NoRefundYet`). The refinement then maps each action to one step of
the contract or to none. `MoneyMovesOn`, read off `MoneyInv`, says that a payment row
only moves from NONE through PENDING to an end, and a recorded refund stays. That makes what a
handler knew of the row when it wrote it still true when it publishes
(`RequestKnows`), and so for ever true of the event (`EventsTold`). For the seats of
a cancelled booking it is enough that, without a fault, only the handler that saved
CANCELLED can be missing, and it is then on its way to the release.

The seat argument. The type invariant makes what an increment read a natural
number, which is what its capacity check needs; the ledger is inductive as it stands.
For `LiveOwnsSeats`, `CallsMatch` says at each point of a request which of its
calls may have been sent; only calls that were sent are ever served or lost. Sums
over clients are counted as sets: `SeatsOf(K)` is the number of pairs of a client of K
and one of its seats, so the library's theorems on finite sets apply and no induction
is needed. `held` and `regiven` then add up to the seats of the clients whose decrement was
granted and none of whose increments was (`HeldIsGranted`); the first increment for a
booking that read the true number, with nothing given back twice, never finds the airplane
full (`ReadsFit`). Without a fault (`Undisturbed`), every leg that was taken belongs to a
live booking, is about to be given back by a request, or was (`Tidy`).

The cache argument. `StaleIsExplained` is inductive with the type invariant. A key
leaves `todo[w] \cup found[w]` only by being deleted or, when it was visited and not
there, by not being in the cache; one that appears behind the cursor was stored
after the write of `w`, and is excused unless its result is that fresh. A write
puts every key into `todo`, so it outdates nothing that is not about to be cleared.

The accounts argument. Every step of a PATCH is accounted for by `PatchMoves`: it spares the
sessions that its password outlives, and marks the user whose provider it breaks. `TypeInv` already says whose sessions there are: they belong to
the row, and the request that created one has ended, so an id is created once and a
session that went does not come back. `AccountInv` adds what each request that is about to
write the row has read of it (`RowStage`), and for roles that the one replacement under
way keeps the wanted role. In `SessionInv` a login carries the number of the password
it checked (`LoginStage`); whoever creates a session without having been
overlapped is alone and leaves room (`RoomIsMade`), and of those that overlapped each
leaves room for one more, until the first of them has ended. `CodeInv` follows a code from its send through its guesses: the guesses that
were counted are at most the attempts in Redis, which is at most what the next guess
reads (`CodeHistory`). `OneCode` allows a second live code for each request that
revived or tangled one, and needs an injection: each code without a pointer (`Loose`), and a
pointer that is about to be lost (`Hit`), has an excuse of its own (`Excuses`).

The mail argument. The type invariant needs the number of subscriptions at each
point of the start (`BootCounts`) and that an event's handler is about that event
(`OwnTopic`); then a handler owns the row it made, nobody else writes it, its
verdict is what happened to the mail, and who ends has accounted for its event. A crash
ends the handlers and keeps what they wrote. For `NoSpareMail` the mails that may still
come are counted with those that did: for a departure, one for each active run that
has not passed it before a SENT row is there, and one for each run that had looked
before it was; the first run of a time without runs is the one mail that no
overlap pays for (`LegMails`).

The pool argument. `Connections` ties what each request holds to the statement it
is at: a transaction is open exactly between a payment's UPDATE and its COMMIT, and the
open ones are of different bookings. Then, when nobody can go on, the transactions are of
payments at their INSERT and every other connection is held by who waits for the row
of one of these (`LockHolders`), so both are among the requests about bookings being paid
(`Contenders`). `Stored` ties the step of a payment to its booking and its row, so that a
refusal finds them together.

The departures argument. What was read for a booking whose flights did not change since is
their departures (`SnapshotTrue`), before it is stored and after; so what the rule and the list compute from it is true of
the flight, and only `moved` bookings can be late or wrong. For reminders, a booking
that was confirmed before an hour is in that hour's list, and the hour does not end
before its run or its miss (`ListedInTime`).

The browser argument. Each page's invariant stands alone, for a step of one leaves the
others as they are (`BrowserInv` is their conjunction). Sign-in: unless `overtaken`, one change
of the sign-in state is on its way at a time (`OneChange`), and the cookie, and every
token a refresh brought, are of its user (`CookieMatches`). Search: at most one search
is on its way, and it is the last one. Booking: each page sends its own requests
(`OwnRequests`), so an answer finds the page it is for; one request at a time has a booking at
the gateway (`SlotsInv`), for its payment is unique; so what was reported as over and was not
crossed has no payment under way and none to come (`OverForGood`), and a declined payment
is the last of its booking (`DeclinedIsOver`). Dashboard: a copy of the number of seats that is not `stale` is
the number, and what the airplane of a flight has is what its copy was computed from.

Out of the prover's reach, and checked by TLC only: the liveness properties
(`InitiatedEnds`, `PaymentEnds`, `RefundIsRecorded`, `RequestsEnd`, `SearchesAnswered`,
`ClearsEnd`, `WorkEnds`, `EveryoneAnswered`, `CallsSettle`), which rest on fairness and
ENABLED.

## 5. Abstractions

Services:

- PostgreSQL runs READ COMMITTED; a failed COMMIT is a rollback.
- An `await` that rejects ends the request (`asyncHandler` answers an error);
  `Throw` and `Fail` can do so at every await but those that catch.
- Ownership checks are refusals: a request that meets one changes nothing, so it is a
  request that is not made. So is the 24-hour rule in `BookingPayment`; `Departures` has it.
- Passengers and amounts never change after creation; dates are in `Departures`.
- `eventPublisher.publish` is one step in `BookingPayment`: the payload plays no role there.
- A seat release of a booking with two legs counts as one in `BookingPayment`;
  `BookingSaga` has the legs.
- The account of `Accounts` has one email; a request of the browser that holds a token may hold
  any that was ever issued. Passwords are the number of the change that set them.
- The queue of notifications is a set, because the consumers set no prefetch; so the
  order of mails is not promised (`booking.consumer.js:16`).
- Who waits for a connection is in a set; `TimeOut` happens only while the pool is full,
  because a released connection is handed over at once. Two reads in a row count as
  one. The row lock is that of the payment's UPDATE, which its transaction keeps; a
  transaction that passes its connection on has the row and the connection for one step.
- The clock of `Departures` counts hours, with at most one run in each. A booking there is
  read, reserved and stored (the saga has the steps between), and ends by one request.
- A request of `BookingSaga` that ends a booking passes its check while the booking stands.

Frontend:

- One visit in each behaviour: a page's state is gone when it is left, and the
  sign-in state that all share is `BrowserAuth`'s. One part in each behaviour of `Services`.
- Reading the profile and setting the user is one step, and so is a load of a table and showing it.
- One write is on its way per dashboard, one request of a page that was left.
- Rows keep the fields that refer to others, capacity, seats, and the table their
  name was typed for; what validation or a unique key refuses beyond that may always
  be refused. Flight forms started from another table's row are refused.
- The text in a city box is empty or not; the list may suggest any known city.
- A request of `BookingPages` is checked, then served, refused, or its answer lost. The lock and
  the INSERT of a payment are one step, and so is what follows the gateway: `BookingPayment` has
  the steps. A refunded payment is still shown as SUCCESS there, for no page asks. Bookings
  are made by the page; requests of others are about those there are, and no more than
  `Others` are on their way. The frontend sets no time limit, so an answer is lost by the network only.

## 6. Plan

Done: the booking service, the seat counter, the cache, accounts and codes,
notifications, connections, departures, the catalogue and the pages. What is left,
most important first:

1. Theorems that say when a documented promise does hold, where a run shows that
   in general it does not (`NoOversellUnlessStale` is the first of them): confirmed
   bookings keep their seats when no cancellation meets a payment, a payment starts
   atomically when nothing fails, only CONFIRMED bookings are refunded when refunds do not
   overlap.
2. PATCH of a user's email, which changes the address that codes and mails go to.
3. The list of notifications in the frontend.

## 7. Not modelled

Routes, validation schemas, swagger, CORS, logging, rate limits, mail templates,
the menu, toasts and layout: no state that several actors share, or wording
only. Migrations and seeders run once; the constraints they leave (unique
`payments.bookingId`, the foreign keys of the catalogue, the cascades of users) and the
first rows are in the models. Of the fields that PATCH may set on a user, the email, the name and the
id are not modelled, nor is the page that lists notifications. Docker and deployment keep no state of their own.
