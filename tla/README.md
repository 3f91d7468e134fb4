# Vehicle Information Service: TLA+ specification

TLA+ models of the server of this repository, of its client library, of the
texts they exchange and of the example server; the TLC runs that check them on
small instances; and theorems about them checked by TLAPS.  Paths such as
`router.rs` are relative to `vehicle-information-service/src/`.

## The system

A worker of the server is a set of actix actors that share one thread and send
each other messages without waiting for them (`do_send`).

| Component | State | Operations | Talks to |
| --- | --- | --- | --- |
| `ClientSession` (router.rs), one per websocket | none of its own; its mailbox | a text frame (get, set, subscribe, unsubscribe, unsubscribeAll are forwarded; authorize, getMetadata and malformed texts are answered at once), a response to forward, the end of the connection | the manager, the websocket |
| `SignalManager` (signal_manager.rs, action/), one per worker | `signal_cache`, `addr_to_subscription_ids`, `path_to_subscription_id`, `subscription_id_to_subscription`, `set_recipients` | `UpdateSignal`, `AddSetRecipient`, `ClientMessage` of `Get`, `Set`, `Subscribe`, `Unsubscribe`, `UnsubscribeAll` | sessions, subscriptions, set recipients |
| `Subscription` (signal_manager.rs), one per subscribe request | filters, latest value, last value sent and when, interval timer | `NotifySubscriber`, `StopSubscription`, the timer | its session |
| filters (filter.rs) | none | `matches`: change, interval, range, minChange | called by `Subscription` |
| `AppState` and signal sources (router.rs) | the manager's address | `set_signal`, `spawn_stream_signal_source`, `add_set_recipient` | the manager |
| set recipients (the application's) | unknown | `Set` | called by the manager |
| protocol types (api_type.rs, api_error.rs, lib.rs) | none | the JSON of requests, responses and errors: tags and aliases, ids inside strings; paths are compared without case | all |
| client library (vehicle-information-service-client) | a connection per `VISClient`; the `Option<SubscriptionID>` a stream shares with the task that ends the subscription | `connect`, `get`, `subscribe`, `subscribe_raw`, `unsubscribe_all`, each of which consumes the `VISClient` | the websocket |
| example server (examples/server.rs) | per worker an `AppState`, a manager, a counter, a CAN socket and a `PrintSetRecipient` | the closure `HttpServer` runs in each worker; ticks, frames, sets | its manager |

What makes it correct, and what is hard about it:

- The manager holds a subscription in three maps, which its handlers update one
  after the other and use to index each other.  They have to agree, or requests
  are not answered, stopped actors are notified, or a client ends the
  subscription of another.
- A subscription lives in the manager's maps, in an actor with a mailbox, and in
  messages on their way to a session.  Subscribing, updating, unsubscribing and
  disconnecting interleave in any order; the acknowledgement must come before
  the first notification, no update may be lost or overtaken, and nothing may
  outlive its client.
- Messages to an actor that has stopped are dropped silently; what its mailbox
  holds is dropped when it stops.
- An interval is measured twice: by a timer on a monotonic clock, and by the
  filter on `SystemTime`, in different units.
- Numbers have three representations; integers wrap.
- Successes and errors share their tags, an id has many spellings, and requests
  are written by one implementation of serde's traits and read by another.
- The library tells its answer from a notification by what parses, and the
  connection may end between any two of its steps.
- The workers of a server share nothing.  A client is served by one of them, and
  every source has to be attached to each.

The actors of a worker are not persistent and nothing restarts them, so there
is no crash recovery to model.

## Modules

| Module | Models |
| --- | --- |
| `VisApi` | responses, errors and actor messages |
| `PubSub` | abstract: what subscribers are promised, with neither maps nor actors |
| `SignalManager` | the manager: its maps, one action per message; `PS == INSTANCE PubSub` is the refinement mapping |
| `Filter` | the filters as operators, for any integer width |
| `Subscription` | one subscription actor with its timer and its clock |
| `VisServer` | a worker: sessions, manager, subscriptions, sources, recipients, mailboxes |
| `VisJson` | which responses the library reads as a success, and which as an error |
| `VisClient` | the library over `VisServer` |
| `VisText` | requests and answers as JSON texts, written and read by both sides |
| `VisExchange` | a request and its answer as texts, and what each side makes of them |
| `ExampleServer` | the example server with all its workers |
| `SignalManagerProofs`, `SubscriptionProofs`, `VisServerProofs`, `VisServerAnswerProofs`, `VisClientProofs`, `VisClientStreamProofs`, `VisExchangeProofs`, `ExampleServerProofs` | theorems and proofs |
| `MCSignalManager`, `MCSubscription`, `MCVisServer`, `MCVisClient`, `MCVisExchange`, `MCExampleServer` | instances for TLC |

`VisServer` extends `SignalManager` and adds what surrounds it: its action
`ManagerHandle` takes a message from the manager's mailbox, is the action of
`SignalManager` for that message, and delivers what the handler put in `sent`.
`sent` is thus the set of `do_send` calls of one handler, by addressee; each
handler sends at most one message to an address.

`VisClient` extends `VisServer`: what the session writes (`wire`) is what the
library reads, as far as it gets (`position`).  A connection carries one call,
so that a client of `VisServer` is one call of one application.  The signal is
the counter of the example server, whose values show a gap or a reordering.

State and code correspond by name.  The differences:

- A `Vec` of ids is a set: ids are fresh UUIDs and no code looks at the order.
  A map from keys to such lists is total, an absent key being the empty set.
- The address of a subscription actor is the id of the subscription; the
  address of a session is the client.
- `issued` (the UUIDs that `Uuid::new_v4` has returned), `requests`, `wire` (what
  was received and written), `observed_before`, `handled_sets`, `answers` and
  `can_from` are history.
- In `VisServer` requests are numbered in the order they are received, and that
  number is the request id.  Time is left out: whether the interval of the filter
  is over when the timer fires is a free choice.  `Subscription` has the time.
- `Filter` counts floats in halves and does not round; its integers are as wide
  as `I64_MAX` says and wrap as in a release build.  Where `abs` of the smallest
  `i64` would panic in a debug build, the model wraps.
- A text of `VisText` is a function from member names to values, and a string is
  known by what it spells (an integer, a UUID, a path) and in which form; it is one
  of the three, so that a path spelt `"5"` is left out.
  `Unreadable` is the error of `from_str`; `Requests` are the actions the library's
  operations build, each with the UUID `ReqID::default` makes.
- `INTERVAL` of `VisClient` is the path the example's counter is published under;
  applications may ask for it in any spelling.
- `ExampleServer` has of a worker the manager's mailbox and the maps that `get`
  and `set` use: subscriptions, and sessions that stop, are in `VisServer`.

Definitions whose comment calls them a faulty variant are used by no specification:
they are plausible mistakes in the code, and each shows that a property would
notice one.

## Runs

| Run (cfg) | Shows | Distinct states |
| --- | --- | --- |
| manager (`SignalManager.cfg`) | `TypeOK`, `RegistryCoherent`, `EveryRequestAnswered`, `EndsWithOwner`, `PubSubSpec` | 19,038 |
| manager_unsubscribe_all (`SignalManager_UnsubscribeAll.cfg`) | `RemovesAllClientSubscriptions` is violated | |
| subscription (`Subscription.cfg`) | `TypeOK`, `Spaced`, `EventuallyCurrent`, `FiltersDecide` | 82,768 |
| min_change (`Subscription_MinChange.cfg`) | `ChangedByAtLeast` is violated | |
| notifications (`VisServer_Notifications.cfg`) | `ServerTypeOK`, `AcknowledgedBeforeNotified`, `SubscriptionsFollowCache`, `ClientHasLastValue` | 158,615 |
| requests (`VisServer_Requests.cfg`) | `AnsweredOnce`, `AnsweredInOrder`, `ListedIffRunning`, `DisconnectCleansUp` | 2,343,701 |
| liveness (`VisServer_Liveness.cfg`) | `EventuallyAnswered`, `EventuallyStopped` | 35,045 |
| streams (`VisClient_Streams.cfg`) | `ClientTypeOK`, `GaplessStream`, `ObservationsNeverGoBack`, `GetHasItsAnswer`, `UnsubscribeAllEndsNothing` | 1,481,617 |
| library_liveness (`VisClient_Liveness.cfg`) | `RawStreamBeginsWithAnswer`, `GetReturns`, `StreamCatchesUp`, `DroppedStreamsAreCleanedUp` | 6,348 |
| get_unwraps (`VisClient_Panic.cfg`) | `AnswerBeforeEnd` is violated | |
| exchange (`VisExchange.cfg`) | `LibraryIsUnderstood`, `AnswerIsLinked`, `AnswerIsReadAsMeant` | 662 |
| workers (`ExampleServer.cfg`) | `TypeOK`, `SetIsAccepted`, `SetReachesOneRecipient`, `CounterNeverGoesBack`, `FramesTakenAreDelivered` | 597,278 |

Run one with `tlc -config X.cfg MC....tla`.

### Bounds, and why they are enough

- *manager*: two clients, two ids, three spellings of two paths, two values, one
  recipient.  A handler looks at one client, one path, and the ids of either, so
  two of each have all the ways of being the same or not.  Messages arrive at
  any time with any content: there is no bound on their number, and the model
  is finite because ids are not issued twice.  There is one request id; that an answer
  carries the id of its own request rests on the theorem, which is for any number.
- *subscription*: 3-bit integers, all of them, so that every sign, the extremes,
  wrap-around and every pair of representations occur, with some floats around
  zero and a string; every kind of filter, alone and combined.  Intervals of 1 and
  2 units, a `Second` of 2 (1000 in the code: the proportion only has to exceed 1),
  a timer up to `MaxLate` = 3 units late, which lets two deadlines fire together,
  and a clock set once, forwards or backwards.  `FiltersDecide` covers every pair of
  numbers: where the subtraction is exact it says what is sent, where it overrates a
  change that none is missed, and where it underrates one that none too small is sent.
  It is proved for any width.
- *notifications*: one client with two subscriptions and three updates: a value, a
  newer one and one that returns to the first.
- *requests*: two clients, two ids, three requests of any kind, each of which may
  name the other's id; a disconnect at any time; one update or a recipient, which
  may stop.
- *liveness*: two clients, an id, two requests and an update.
- *streams*: two calls, which may be of the same application or of two, two ids, and
  a counter of three values, one of which the application cannot read.
- *library_liveness*: every operation and three counts.  One client is enough,
  because an operation has a connection of its own and the safety runs have two.
- *exchange*: request ids 0, 5, `U64_MAX` and one beyond either end, spelt with
  zeros or a sign, UUIDs in three spellings, every request of the library with every
  combination of filters, and malformed ones.  There is no bound on steps.
- *workers*: two workers, which have all the ways two connections can be served; two
  requests or frames together, two ticks of each counter, streams that end with an
  error at any time.

`MaxRequests` bounds the texts clients send, `MaxSources` the calls of sources,
`MaxReceived` the notifications a timer may add to what a client has been sent,
`MaxElapsed` and `MaxLate` the clocks, `MaxSetClock` how often the clock is set,
`MaxTicks` a counter and `MaxInputs` the requests and frames of the example.
`CHECK_DEADLOCK FALSE` is set for `VisServer`, `VisClient` and `ExampleServer`, whose
actors rest when these bounds are used up and all mailboxes are empty, and for
`VisExchange`, where an exchange is over once the answer to its only request has been
read.  `SignalManager` and `Subscription` can always go on.

The views of `MCVisServer` and `MCVisClient` leave `sent` and other history out, which
no action reads and no property of those runs mentions.  Neither a view nor symmetry is
used with liveness properties.

### Fairness

- `FairServerSpec` assumes weak fairness of `ManagerHandle`, and of `SessionHandle` and
  `SubscriptionHandle` per actor: the worker's executor polls every actor that has been
  woken, and a message wakes its addressee; an actor drains its mailbox when it is
  polled.  Nothing is assumed of clients, sources and timers.
- `FairClientSpec` adds to it, per client, that a text sent arrives while the connection
  lasts, that an application goes on polling a future or stream it has not dropped, and
  that either side notices a connection that was closed or lost.  A `get` that panics
  has returned, for `GetReturns`: that it may is what *get_unwraps* shows.  Nothing makes an application
  call, drop a stream or close a connection.
- `FairSpec` of `Subscription` assumes that time passes and that a timer that is due
  fires.

## Disagreements between code and documentation

Each of the first three has a run with a counterexample:

- **unsubscribe_all.rs:4** "Remove all client subscriptions when a client requests
  an UnsubscribeAll or the client disconnects."  The handler empties the lists of the
  paths only.  `addr_to_subscription_ids` and `subscription_id_to_subscription` keep
  the ids, also after a disconnect.  Notifications do end (`EndsWithOwner`), and
  the maps remain coherent, but they grow with every subscription, and a later
  unsubscribe of such an id answers success.
- **filter.rs:494** "Changed by at least x compared to last value."  The difference
  of two unsigned integers is `last.wrapping_sub(new)`: an increase wraps to a huge
  number and passes.  Other changes are underrated, and may be missed: an increase of
  more than half the width, signed integers further apart than an `i64` holds, and
  floats or mixed numbers of opposite signs, whose magnitudes are subtracted
  (filter.rs:603), so that a change from -5.5 to 5.5 counts as none.
- **lib.rs:163 of the client**: `get` unwraps the first item of its stream, which is
  `None` when the connection is closed before the answer; it panics where its
  signature has an error.

Met while modelling, without a run of their own:

- **unsubscribe.rs:15** "As a client unsubscribe from a subscription in order to no
  longer receive notifications."  Updates already in the mailbox of the subscription
  actor are sent after the answer to the unsubscribe.
- **filter.rs:423** "Err(...): Occurs when the value is not an integer".  With
  minChange, a first value that is not a number is sent and remembered, and makes an
  error of every later value, numbers included.
- **api_type.rs:66** the request id is "Returned by the server in the response".  The
  answer to a text that cannot be read has none, also when its request id could be read
  (router.rs:102); and an id is answered as the number it spells: `"005"` as `"5"`.
- **examples/server.rs:58** shows `"requestId": 104`; a request id that is not a string is
  refused.  **README.md:98 of the server** shows a notification with the action
  `subscriptionNotification`; the server writes `subscription`.
- **router.rs:224** a set recipient "will receive all `set` action requests for all
  clients": it receives those of the clients of the worker it was registered with
  (`SetReachesOneRecipient`).
- **tests/gets.rs:12 and tests/subscriptions.rs:50 of the client** assert that the
  example's counter is above zero; its first value is zero.

## Proofs

`tlapm SignalManagerProofs.tla` etc. check all of them; each is for every value of the
constants.

- **SignalManagerProofs**.  The inductive invariant is `IInv == TypeOK /\
  RegistryCoherent`; coherence is inductive given types, because `Subscribe` takes an
  id that has not been issued (`RegisteredAreIssued`) and `UnsubscribeAll` leaves
  exactly the two maps alone that have to agree about owners.  From it:
  `TypeCorrect`, `Coherence`, `RequestsAreAnswered`, `SubscriptionsEndWithOwner` and
  `Refinement`, the last by mapping each action to one of `PubSub` or to a stutter.
- **SubscriptionProofs**.  `TypeCorrect`; `FiltersAreDecisive`: the comparison of
  three representations is the order of the numbers (`LeIsOrder`), and the absolute
  difference is the distance, at most or at least that, by the representation that is
  subtracted (`UnsignedRates`, `SignedRates` and `FloatRates`, from what `%` does to a
  number that is at most once out of range, `Remainder`); `NotificationsAreSpaced`, for
  which `ClockInv` says that a clock nobody has set does not go back.
- **VisServerProofs**.  `ServerTypeCorrect`, `ListedWhileRunning` and
  `ServerImplementsManager`.  The invariant `ServerIInv` adds to the manager's that a
  stopped actor has an empty mailbox, that running actors have issued ids
  (`ActorsCoherent`), and `ListedIffRunning`.  A manager step preserves the last by
  `Ends` (proved of `SignalManager`) and because only `Subscribe` lists an id.
  `SubscriptionsAreCleanedUp` by `CleanUpInv`: a session
  that has stopped has its `UnsubscribeAll` queued behind everything else it sent, or
  owns nothing.  `CacheIsFollowed` by `FollowInv`: the last update in the mailbox of a
  listed subscription, or else its latest value, is what the cache has.
- **VisServerAnswerProofs**.  `AcknowledgementsComeFirst` by `AckInv`: the answer to a
  subscribe is with the client, or on its way to it, from the step that starts the actor,
  so whatever the actor sends comes after it.  `ClientsHaveLastValue` by `LastInv`:
  what a subscription believes it sent last is the last thing its client was sent, and
  of an id that was not issued nobody was sent anything.
  `AnswersKeepOrder` and `RequestsAnsweredOnce` by `RequestInv`: request ids ascend in
  the manager's mailbox, those in what a client was sent precede those of its requests
  still queued, no id is in both, and while a client is connected each of its readable
  requests is in one of the two.
- **VisClientProofs**.  `LibraryUsesServer`: `ClientSpec` implements `ServerSpec`, so
  all of the above holds under the library.  `UnsubscribeAllIsHarmless` by
  `ClientIInv`: what is in the manager's mailbox was meant by a call, and who owns a
  subscription has called `subscribe`.
- **VisClientStreamProofs**.  What the applications are given: `LibraryTypeCorrect`,
  `StreamsHaveNoGaps`, `TimeDoesNotGoBack`, `GetsAreAnswered` and
  `RawStreamsAreAnswered`, all from one inductive invariant, `StreamIInv`, which
  follows a count from the source to the application:
  - `WorkerInv`, the invariants of the worker proved above.  `AckInv` and `LastInv` are
    needed because the library takes the id of its subscription from the first text and
    relies on what follows it;
  - `OneRequest`, `ShapeInv`, `ActorInv`: a connection carries one request; what it
    receives is nothing, the answer, or the answer and notifications of the
    subscription it names; the actor that sends them belongs to that client and has the
    filters it asked for.  Without the first, the answer to a `get` could be another
    request's;
  - `CountInv`: the counts in the manager's mailbox are those from the one after the
    cached to the newest, in order, each there;
  - `ChainInv`, `StreamInv`: from the actor's latest value through its mailbox, and
    through what a client without filters has received, counts are consecutive.
    `FollowInv` ties the last of them to the cache, so that the next value the manager
    pushes continues it;
  - `LibraryType`, `IdleInv`, `ReadInv`: the items of a call are determined by the
    texts it has read, however often the connection ends or the application leaves in
    between;
  - `TimeInv`: what is received, in an actor or queued for one was cached after its
    client called, hence is no older than what anybody had then.
- **VisExchangeProofs**.  `RequestsMeanTheSame`, `AnswersAreLinked` and
  `AnswersMeanTheSame`, for integers of any width, any ids and filters, and with nothing
  assumed of the texts that clients write by hand.  Lemmas: ids, filters and each request
  of the library are read as what they were printed from (`IdsReadBack`,
  `FiltersReadBack`, `RequestsAreUnderstood`); an id that could be read is printed so
  that it is read again (`ReadRequests`); the members of a response tell its variant
  (`ResponsesAreShaped`).  `ExchangeInv` adds to them that the last answer is the
  request's, or a notification of the subscription it has opened, which is where the id
  of a later unsubscribe comes from.
- **ExampleServerProofs**.  `TypeCorrect`; `SetsAreAccepted` by `SetInv`: a worker that
  accepts connections has its recipient registered, or the registration is the first
  message in its mailbox; `FramesAreDelivered` by `BusInv`: the last frame in a
  worker's mailbox, or else in its cache, is the last its stream took since it was
  opened, also after its end; `CountersGoOn` by
  `CountInv`: what was read, what is cached, what is queued and what the counter has
  are in order; `SetsReachOneRecipient` by `OnceInv`: a request is in one place at most,
  waiting for a manager, on its way to a recipient as a `Set`, or handled by one
  (`Once`), and its client has been answered exactly when it is in one of the last two.
  Each step is shown to move a request from one place to one that was free
  (`MovedOnce`); that a place is free rests on request ids being fresh.

The assumptions are those on the constants: `None` is no value, id or recipient;
clients, ids and recipients are different; lower-casing is idempotent; request ids
are `1..MaxRequests`; filters hold numbers and intervals above zero; a call sends one of
the texts modelled; the three paths of the example are different, and what is written to
them are its frames and counts; values of `VisClient` are counts; no response is `None`;
`ReqID` and `SubscriptionID` are UUIDs or integers in range, and a `Filters` has the
members of its type.

Only model-checked is liveness, which is out of the prover's reach: `EventuallyCurrent`,
`EventuallyAnswered`, `EventuallyStopped`, `GetReturns`, `StreamCatchesUp` and
`DroppedStreamsAreCleanedUp`.  Every other property of a run that passes is a theorem.
The three properties that runs refute have none.

## Not modelled

- authorize.rs and get_metadata.rs, which are not declared in action/mod.rs and not
  compiled; the session answers these two requests by itself.
- actix, tokio and serde_json are not part of the repository.  What is used of them is
  modelled from its use: FIFO mailboxes, one thread per worker, timers, what parses.
- The growth of a mailbox: `do_send` goes past its capacity, in the model as in the code.
- An interval of zero, or one too large for an `Instant`: its effect is the timer's.
- Float rounding, timestamps, wording, logging and `Display`.
- The configuration of routes, which has no state, and the fallback of
  `serialize_result`, which these enums never reach.
- The command line of the example server, and the client's example, which is one call
  of `get` and a line of output.

## Plan

What is left, in this order:

1. Several workers with subscriptions: `VisServer` once per worker, with a
   client's connections spread over them, in place of the part of it that
   `ExampleServer` has.
2. The step simulations that liveness would rest on, without their fairness: that the
   actor whose turn `FairServerSpec` promises has something to do until its mailbox is
   empty, and that what is ahead of a request in it only shrinks.
3. For a subscription with filters, a theorem that relates what its client received to
   the values the source had, in place of `GaplessStream`.
