# Local Events: TLA+ models and proofs

This directory is the formal side of the Local Events repository: TLA+ modules
translated from `app/` and `web/`, the TLC configurations that check them on small
instances, and TLAPS proofs of what matters most for instances of every size.
All line numbers refer to the repository beside it (`src/` in `PROJECT.json`).

## 1. The system

| Component | Source | State | Operations |
| --- | --- | --- | --- |
| Reservation service | `app/reservations/service.py`, `models.py` | tables `reservations`, `event_holds`, `processed_webhook_events` | `create_pending`, `attach_session`, `cancel_pending`, `apply_webhook` |
| Reservation handlers | `app/api/reservations.py` | one SQLAlchemy session per request, whose identity map outlives each transaction (`expire_on_commit=False`) | `POST /api/reservations`, `GET /api/reservations/{id}`, `POST /api/stripe/webhook` |
| Checkout call | `app/reservations/stripe_checkout.py`, `app/services/retry.py` | attempt counter | create a session under the reservation's idempotency key, retry, give up |
| Stripe | external | sessions, Event objects, which Events were answered | pay, expire, deliver at least once and in any order |
| Database | `app/db.py` | SQLite (WAL, busy timeout) or Postgres at READ COMMITTED | locks taken by the statements above |
| Discovery service | `app/services/discovery.py` | none of its own; the cache | resolve a location, search every provider, merge |
| TTL cache | `app/services/cache.py` | ordered dict of key to (deadline, value) | `get`, `set`, `clear` |
| JamBase provider | `app/providers/jambase/` | none | `find_cities`, `search_events`, HTTP `get` with retries, mapping |
| Provider registry | `app/providers/registry.py` | dict filled at startup | `register`, `all`, `geocoder` |
| Enrichment | `app/services/enrich.py` | writes `event.signals` | distance (which can raise), days away, tags |
| Routes and configuration | `app/api/routes.py`, `app/config.py`, `app/main.py` | settings | date windows, startup guard |
| Search page | `web/app.js` | `state`, the candidate buttons | search, pick a candidate, filter |
| Reservation form | `web/app.js` | the disabled button, the status line | submit, go to Checkout |
| Success and cancel pages | `web/reservation-*.html` | poll counter, status line | poll a reservation, look it up once |

How they interact: a buyer's POST runs `create_pending` (one transaction), calls
Stripe under a retry loop, then runs `attach_session` or `cancel_pending`
(another transaction). Stripe later calls the webhook, any number of times and
in any order, and each delivery is one transaction of its own. Everything runs
as coroutines on one event loop, so another request can run at every `await`;
several processes can share one Postgres. On the search side a request resolves
its location (a cache lookup, then possibly an HTTP call), fans out one task per
provider (a cache lookup, then possibly an HTTP call, then a cache write), and
merges what came back in one synchronous step.

What is hard: two transactions that interleave (the capacity check, the status
check of two webhooks), objects read in one transaction and trusted in a later
one, notices that are duplicated, late or lost, crashes between two commits, a
retry whose first attempt did succeed, and on the search side values read
before an `await` and written to a shared cache after it.
`PROJECT.json` lists each of these under `hazards`, with its line and the
properties that would catch it. The properties that make each part correct:

| Component | What has to be true of it |
| --- | --- |
| Reservations | `event_holds` counts exactly the pending and confirmed spots; no event is oversold; a paid spot is kept; a row leaves `pending` once; an answered notice has done its work; every hold settles and every payment is confirmed |
| Checkout call | however often it is retried, one session per reservation |
| TTL cache | a hit is the last value set, no older than the TTL; only the least recently used key is evicted |
| Discovery | a page fits the search and the provider it is shown for; a place is never guessed; a failure is never cached; a dead provider never fails a search |
| Mapping and merging | one record per show, the first richest; the soonest shows of the window are shown, whatever else is on the page; no distance, size or show is invented; unknown places come last; facets count what is shown |
| JamBase provider | retries only where they help; picking a candidate leads to it; an outage is not told as an unknown place |
| Reservation site | the success page says nothing that is not so; who is refused holds nothing; no session is opened with a live key; holds settle and payments are confirmed across restarts under other secrets |
| Search page | a question is shown alone; the list answers the controls; an active filter can be turned off |

## 2. The modules

```
ReservationRows        rows and spots             TTLCache        get, set, eviction
  |-- ReservationLedger   abstract ledger           |-- CacheHistory   any sequence of calls,
  `-- Stripe              sessions, notices         |                  implements ForgetfulMap
        `-- Reservations      the service,          `-- Discovery      searches sharing the cache
              |               implements the      JamBaseClient   one HTTP call with retries
              |               ledger                `-- Geocoding      text -> place -> pick
              |-- ReservationsInvariant           Listings        record -> event
              |-- Buying      the site around it    `-- Merging        window, pages, merge, rank
              `-- MC*, *Proofs                    SearchPage      state of web/app.js
```

`MC*` modules hold the instances for TLC, `*Proofs` modules the theorems:
`ReservationsRowProofs`, `ReservationsProofs` and `BuyingProofs` (each extends the
one before it), `CacheHistoryProofs`, `DiscoveryProofs`, `MergingProofs`,
`GeocodingProofs` and `SearchPageProofs`. `map` in `PROJECT.json` gives the lines
behind each definition. A definition whose name starts with `Bug` is a plausible
bug of the definition that follows it, used to show that a property can fail.

### Reservations

One request is one value of `Reservations`, at once the id of its row and the
process that serves it; `Workers` handle webhook deliveries. `pc` tells which
statement a process executes next, and each action is one statement that another
transaction can come between.

| Code | Model |
| --- | --- |
| `reservations.status`, `event_id`, `quantity` | `status[r]` ("none" before the insert commits), `body[r]` |
| `event_holds` | `holdRows` (which rows exist), `held` |
| `processed_webhook_events` | `processed` |
| `reservations.stripe_session_id` | `saved` |
| `create_pending`: `_insert_hold`, `_add_hold`, `CapacityExceeded`, commit | `InsertHold`, `AddHold`, `Refuse`, `CommitPending` |
| `create_checkout_session` in `call_with_backoff` | `CheckoutOpens`, `CheckoutFails`, counter `tries` |
| `attach_session`, `cancel_pending` | `AttachSession`; `WriteRow`, `CommitCancel` |
| `apply_webhook`, `_transition` | `ApplyWebhook`, `DuplicateWebhook`, `Transition`, then `CommitIgnored`, `CommitConfirm`, or `WriteRow` and `CommitExpire` |
| exceptions and a process that stops | `RequestDies`, `WebhookDies`, a lost answer in `Answer` |

Database variables hold committed data. What an open transaction has written is
told by its stage and takes effect at its commit, which is the same as writing
in place because of the locks: `CanWrite` (SQLite admits one writer from its
first write to its commit), `RowFree`, `HoldFree`, `HoldKeyFree` and `NoticeFree`
(Postgres row locks and primary keys). A plain `SELECT` waits for nobody: that is
why `Transition` decides on a status that may be gone when the update runs.
`CommitCancel` and `AttachSession` have no status check because the code's check
reads the object `create_pending` left in the session, which always says pending.

`Stripe` is external. An idempotency key leads to one session; a session that is
paid or expires creates `Copies` Event objects; a notice stays in `sent`, so that
it can arrive late, again, and in any order. `Extra` adds the
expired-after-completed notice that `service.py:166` prepares for and types
nobody handles.

`ReservationLedger` is what the service promises: four moves on rows, `Reserve`
guarded by the cap as the rows themselves count it. `Reservations` maps to it by
forgetting everything but the committed rows.

### Buying: the site around the service

`Buying` puts `Reservations` where it runs: behind a guard, before browsers.

| Code | Model |
| --- | --- |
| `payments_enabled` (`config.py:29`), `app.state.payments_enabled` | `secrets`, `Off`, `On`; neither when the process refuses to start |
| `lifespan`, a restart | `Restart(s)` under any of `Settings`, once the requests in progress have ended; those that do not end die by `RequestDies` and `WebhookDies` |
| `_require_payments` and the handler | `Serve`, the actions of one request; `On` is asked at its first statement |
| `construct_event` | `Deliver`: a delivery is heard only by a process whose secret verifies (`Verifies`). The guard strips the secret and `construct_event` does not, so a padded secret is `On` and verifies nothing |
| submit handler of `app.js` | `Press`, then `Refused`, `Unreachable` or `GoToCheckout` |
| Checkout and its two return URLs | `PayInCheckout`, `LeaveCheckout`, `GoBack` |
| `GET /api/reservations/{id}` | `StatusOf` |
| `reservation-success.html`, `reservation-cancel.html` | `Poll` with its tries in `polls`, `LookUp`; the status line is `text` |

A tab is one value of `Buyers`; `post[b]` is the reservation its page is about. A
buyer whose POST gets no answer may press again, which is a second request.
Every step of `Buying` is a step of `Reservations` or leaves it alone (theorem
`SiteRunsTheService`), so what is proved of the service holds of the site.

### Cache and discovery

`TTLCache` is the `OrderedDict` as a sequence, least recently used first, with a
`clock`. `CacheHistory` drives it with any calls and keeps what the cache owes:
the last value put under each key and, in `since`, the keys used since that key
was, evicted or not.
`ForgetfulMap` is what any caller may rely on: a map that can forget a key at any
time and has to at its deadline, and in which only a put moves a deadline. The
refinement maps its known keys to those that `get` would hit.
`Discovery` runs several searches over one such cache, one action from one
`await` to the next: `LocateFromCache`, `Located`, `GeocoderFails`
(`resolve_location`), `StartFetch`, `PageArrives`, `ProviderFails` (`_fetch_one`,
started in the registry's order as `gather` does), `Answer` and `AnswerRaises`.
Values carry where they came from (`provider`, `place`, `filter`, `seen`; a
location carries the matches it was chosen from), so a page in the wrong place
shows. What is on a page is left to `Merging`, but for one bit: a `risky` page has
records on which `enrich` or `sorted` may raise. `_fetch_one` isolates the call of
a provider and not what `search` does with its records, so after the fan-out a
search with a risky page, fetched or cached, ends either way: in its answer, or in
stage "error" (a 500). Which of the two is decided in `Merging`, by the records
that stay after the merge and by the sort.

`Listings` is the way of one record to an event: `Kept` drops what has no id,
no date or a number that cannot be read, `MapEvents` maps the rest in order; ""
and blanks are missing; (0, 0) is no place (`HasPlace`); on a place that is `Unmeasurable` (a coordinate that Python
reads as infinity) `haversine_km` raises (`CannotMeasure`); the headliner, the
genres, the size label and `Completeness` are computed as `mapper.py`, `models.py`
and `enrich.py` do.
`Merging` is a search over such records. `Friday`, `DateFrom` and `DateTo` are
`_window_to_dates` on a calendar whose day 0 is a Monday. `pages` is what each
provider's API sends: any `min(limit, max_page_size)` soonest of the records it
has in these dates (`SoonestOf`), bad ones among them, in any order where dates
tie or cannot be read. `todo` holds the events of each page that are not merged
yet, `MergeOne` is one turn of the loop in `_deduplicate`, in the registry's
order, and `merged` remembers the turns; `RankAndCut` is `enrich` on every event,
the facets, `sorted` and the slice. Two exceptions end it instead: `EnrichRaises`,
the `ValueError` of a distance that cannot be computed, and `SortRaises`, the
`TypeError` of comparing a time with a zone to one without. `_normalize_title` is
the function `Folded`, and a start is a
day, a time and a form ("date", "seconds", "minutesZ") that decides what
`_parse_time` makes of it. The properties state the window in their own way, by
the days asked for (`Asked`), and not by `DateFrom` and `DateTo`.

### JamBase and the page

`JamBaseClient` is one `get`: the classes of reply that the code tells apart, the
attempts, and the result or exception. `Geocoding` makes such a call for each
text: `Look`, `Exchange`, then `FindCities` or `NearestCity` on the payload (empty
after a 404), or `LookupFails`; `Resolve` is `resolve_location`'s none, one or
several; `Pick` is a candidate button, which submits the candidate's label as a
new text. The API's matching (`Matches`, by prefix and by US state) is external.
`SearchPage` is the `state` object of `web/app.js`: `Search` starts a fetch,
`ArriveEvents`, `ArriveCandidates`, `ArriveError` and `FetchFails` are the ways it
ends, in any order, since nothing in the code ties an answer to the latest search.

## 3. The runs

| Run | Question | Answer |
| --- | --- | --- |
| `sqlite_twins` | On SQLite, with two Event objects per fate, expired-after-completed, crashes and lost answers: is the count exact, is an answered notice applied, is every change a ledger move? | yes |
| `postgres_races` | On Postgres, with three requests for two spots, Checkout retries, crashes: no oversell, a paid spot kept, one session per reservation? | yes |
| `settling` | The site, two buyers, restarts under five settings: do the pages tell the truth, is a refusal one, is no session opened with a live key? And when requests do not crash and the right secrets come back for good: does every hold settle and every payment get confirmed, although deliveries fail half way and answers are lost? | yes |
| `stuck_hold` | And when a request can crash? | no: finding 1 |
| `postgres_late_expiry` | On Postgres, does expired-after-completed leave a confirmed row alone? | no: finding 2 |
| `lru_cache` | Bound, TTL and least-recently-used order under any calls; does the cache implement a map that may forget? | yes |
| `shared_cache` | Overlapping searches on a cache too small for them: pages fit, no guess, no cached failure, and every located search is answered, unless a provider did answer with records on which the merge raises | hold |
| `merged_pages` | Every set of listings of two providers, every window, a Monday, a Saturday, a Sunday: first richest record, soonest shows of the window, nothing invented, unknown places last, facets, and no records but the two kinds of finding 3 fail a search | hold |
| `zoned_start` | Can one record fail a search? | yes: finding 3 |
| `pick_in_the_states` | Every set of US cities with events, every sequence of replies to the client: no guess, a pick settles, an outage is not "not found", what the client holds to be transient is retried | hold |
| `pick_abroad` | Does a pick settle outside the US? | no: finding 4 |
| `overlapping_answers` | Answers in any order; and a user who waits | hold |

### Bounds, and why they are enough

* `Reservations`: two or three requests for one event. Requests for different
  events share nothing but SQLite's write lock; two requests and a cap of two with
  quantities 1 and 2 give both "both fit" and "only one fits", three give a
  refusal followed by a success after a release. `Workers`: two deliveries at a
  time is what it takes for one to read what another changes.
* `Copies` is 2 where twins matter, `MaxRetries` is 0 or 1 (1 is the first value
  with a retry after a session was opened; the default is 2).
* `Quantities` is `{1, 2}` in the runs about the count: a release of the wrong
  number shows at 2. The runs with a liveness property of the reservations need
  only 1.
* `settling`: two buyers and two requests for one spot give a winner, a refusal, a
  second request after a lost answer, and a payment on a page that another
  buyer's webhook overtakes; one worker is enough, as what two do to each other is
  the matter of the runs before it. `Polls` is 2 for the code's 15: a try that is
  followed by another, and the last one. The settings are none, half a pair, a
  live pair, a test pair and a test pair with a padded webhook secret.
* `Horizon` bounds the clock. In `shared_cache` one tick is longer than the TTL
  (0), so that each entry is fresh or expired; `lru_cache` has a TTL of 1 and a
  horizon of 3, which separates "within", "at" and "after" the deadline.
* `MaxEntries` is below the number of keys in both, so evictions happen.
* The runs that check an inductive invariant (`IInv`, `CacheInv`, `SearchInv`,
  `MergeInv`) have the module's `TypeOK` in it; only `postgres_races` lists it, too.
* `merged_pages` takes every subset of eleven records (two of them bad, one at
  (0, 0), one at distance 0, one without a place, one at infinity, one with a zone,
  and one that is richer than an earlier record of its show) in which a provider
  lists a show once, with `Limit` 2 and `MaxPage` 3: pages are cut, and the merge
  can fall below, reach or pass the limit. The records lie on both sides of each
  window's end; Monday, Saturday and Sunday are before, inside and at the end of
  a weekend. `SoonestShown` asks for `Limit <= MaxPage`;
  beyond it the code asks for less than it could show.
* `pick_in_the_states` has five cities (fewer than the ten the code asks for, and
  as many as the five of `_nearest_city`), in every combination of having events,
  and the default `MaxRetries` of 2.
* `MaxSearches` is 3 in `overlapping_answers`: three fetches in flight can arrive
  in six orders. `patient` remembers whether the user has always waited.
* Symmetry is used for ids, workers and values that no definition orders, and in
  no run with a liveness property.

Deadlock is not checked where the system may stop: every request served and
every notice answered, a user who does nothing more, the clock at its horizon.
In `pick_in_the_states` a user can always type again, and deadlock is checked.

### Fairness

`stuck_hold` assumes what `Fairness` in `Reservations` states: the event loop runs
every handler it has started; Stripe ends an unpaid session (`expires_at`,
`stripe_checkout.py:59`) and delivers a notice again until it hears a 2xx (the
webhook answers 200 only after its commit, `reservations.py:149`); deliveries do
not fail for ever, as Stripe tries for three days only. Nobody has to pay, and a
request is not fair once it has died. `settling` assumes the same in
`SiteFairness`, where a request is run while its page waits, and one thing more:
the operator in the end leaves a process running whose secrets verify
(`<>[]Verifies`). Under a padded secret no payment is ever confirmed, and the code
gives no warning. Buyers are not fair: a hold settles although its buyer closes
the tab on any page. `shared_cache` assumes that
the event loop goes on with every coroutine and that a provider call ends:
every attempt has a timeout (`client.py:37`) and the attempts are counted. The
geocoder's step is fair, too, but may fail, and `LocatedIsAnswered` starts after it.
It does not ask that a search with a risky page be answered: that would be false of
the code (finding 3).

## 4. What is proved

| Theorem | Module | Says |
| --- | --- | --- |
| `TypeCorrect` | `ReservationsRowProofs` | `Spec => []TypeOK`, with no further assumption |
| `InvariantHolds` | `ReservationsProofs` | in a safe configuration, `Spec => []IInv` |
| `HoldIsExact` | `ReservationsProofs` | in a safe configuration, `held[e]` is the number of pending and confirmed spots of every event |
| `NeverOversold` | `ReservationsProofs` | in a safe configuration, no event has more of them than its cap |
| `ServiceImplementsLedger` | `ReservationsProofs` | in a safe configuration, the service implements `ReservationLedger` |
| `NobodyPaysTwice` | `ReservationsProofs` | `Spec => []OneSession`, in every configuration: however often Checkout is retried, one session per reservation |
| `NoNoticeIsLost` | `ReservationsProofs` | `Spec => []AnsweredIsApplied`, in every configuration: a notice answered with a 2xx has done its work |
| `PaidIsKept` | `ReservationsProofs` | in a safe configuration without expired-after-completed, a paid spot is never given away |
| `PaymentIsNeverUndone` | `ReservationsProofs` | in a safe configuration a confirmed row stays confirmed; outside of them `postgres_late_expiry` refutes it |
| `SiteRunsTheService` | `BuyingProofs` | `SiteSpec => Spec` |
| `SiteTypeCorrect`, `SiteIsConsistent` | `BuyingProofs` | `SiteSpec => []SiteTypeOK`, `[]SiteInv` |
| `NoRealCharge` | `BuyingProofs` | only a process with a test key opens sessions |
| `RefusalsAreTrue` | `BuyingProofs` | in a safe configuration, who reads a refusal holds nothing |
| `SuccessPagesAreTrue` | `BuyingProofs` | in a safe configuration without expired-after-completed, the success page says nothing that is not so |
| `SiteNeverOversells` | `BuyingProofs` | in a safe configuration, the site never oversells |
| `PageTypeCorrect`, `QuestionStandsAlone` | `SearchPageProofs` | types; candidates never stand beside a list, in whatever order answers arrive |
| `ListAnswersControls`, `GenresCanBeTurnedOff` | `SearchPageProofs` | for a user who waits, the list answers the controls and every active genre has its chip |
| `ClientRetriesWell`, `LookupTypeCorrect` | `GeocodingProofs` | types; the client retries only where it helps, for any number of retries |
| `PlaceIsNotGuessed`, `OutageIsNotAbsence` | `GeocodingProofs` | with at most ten cities (`FewCities`): no guess, and no outage told as an unknown place |
| `PicksAreFound` | `GeocodingProofs` | with at most ten cities whose labels keep their state (`Pickable`), the pick of a candidate leads to it; outside of that `pick_abroad` refutes it |
| `CacheIsConsistent`, `CacheTypeCorrect` | `CacheHistoryProofs` | `Spec => []CacheInv`, `[]TypeOK`: one entry per key, never more than the size |
| `HitsAreFresh`, `LiveKeysAreServed` | `CacheHistoryProofs` | a hit is the last value put, within its TTL; a live key is gone only after as many other keys as the cache holds were used |
| `CacheImplementsMap` | `CacheHistoryProofs` | the cache implements `ForgetfulMap` |
| `SearchesAreConsistent`, `SearchTypeCorrect` | `DiscoveryProofs` | `Spec => []SearchInv`, `[]TypeOK` |
| `PagesAreRight`, `NobodyGuesses`, `FailuresAreForgotten` | `DiscoveryProofs` | however searches overlap: the right page for the right search, no guess, no cached failure |
| `LocatedIsNeverLost` | `DiscoveryProofs` | a step property: once its place is known, a search can only go on to its answer, whatever the providers raise, or, with a risky page, to an exception of the merge |
| `MergingIsConsistent`, `MergingTypeCorrect` | `MergingProofs` | `Spec => []MergeInv`, `[]TypeOK` |
| `RichestIsKept` | `MergingProofs` | each show once, as its first richest record, in the order of first sight |
| `ShownIsListed` | `MergingProofs` | nothing outside the window or without a record is shown, on any day |
| `SoonestAreShown` | `MergingProofs` | a show of the window that is left out has a full list before it, but for the bad records on its provider's page |
| `UnknownPlacesSink`, `FacetsAreOfTheList` | `MergingProofs` | unknown places come last; with one provider's events the genre counts are those of the events shown |
| `OnlyTheseFailASearch` | `MergingProofs` | `Spec => []ErrorsHaveACause`: only a place that cannot be measured, or two starts of one day of which one keeps its zone, fails a search |

The ones about reservations hold for any finite set of requests, any events,
workers, buyers, settings, cap, number of retries and combination of faults. The
assumptions are those on the constants (quantities in 1..4, a positive cap,
workers and requests apart) and, where the table says so, `Safe`:

* `Prompt`: Stripe expires a session only after the request that opened it has
  ended. A session lives 30 minutes; a request gives up after
  `http_max_retries` retries (2 by default), each bounded by the timeout of
  Stripe's library, unless somebody sets that number very high.
* SQLite, or one Event object for each thing that happens to a session and no
  expired-after-completed (`OneEventPerFate`). On Postgres the others break the
  service: finding 2 and the remarks in section 6.

The argument. `HoldExact` is not inductive: a release made while the row is no
longer pending would break it, so the invariant has to say why that cannot
happen. `IInv` is `TypeOK`, `RowsInv` and `HoldsInv`.

* `RowsInv`: while a request runs, nobody else has moved its row
  (`RowFollowsRequest`), because a session only ends after its request
  (`NoticesAfterRequest`) and no webhook speaks of an open one. What a delivery
  read is still so when it acts on it (`MoversSeePending`): on SQLite since only
  one process has written anything (`OneWriter`), on Postgres since two
  deliveries that move one row would carry the same notice (`NoticesTellFate`),
  which the primary key of `processed_webhook_events` keeps apart
  (`OneDelivery`). Lemma `SoleMover` in `ReservationsRowProofs` is that step.
* `HoldsInv`: between the capacity check and the commit the event's row is
  locked, so the check still holds (`HoldLocked`); the count is exact; it is
  under the cap.

`ReservationsRowProofs` shows that every action keeps the types and `RowsInv`, and
`ReservationsProofs` that it keeps `HoldsInv`: lemma `LiveRowAddsClaim` says that
a row that becomes live adds exactly its quantity to the set of spots,
`CommitPendingKeepsHolds` and `ReleaseKeepsHolds` apply it in the two directions,
and every other action is a `QuietStepKeepsHolds` or, for a payment, a
`ConfirmKeepsSpots`. The refinement maps each commit to a ledger move, with `IInv`
giving the guards, and all other steps to stutters. TLC checks `IInv` in both
`sqlite_twins` and `postgres_races`.

Two theorems need no `Safe`, and so none of `IInv` but the types. `NobodyPaysTwice`
is invariant as it stands: a request asks under one key (`OneKey`). For
`NoNoticeIsLost`, `NoticeInv` says that a row is committed before its session is
opened (`RowsComeFirst`), so that a notice always finds it (`NoticesOfSessions`),
and that a delivery which ignores a notice it handles has read a settled row
(`IgnoredIsSettled`). It stays settled: a row never becomes pending again, whoever
else moves it, and that is all the theorem asks. Which of two notices it settles
to is what `Safe` is needed for.

The other payment theorems need more than `IInv`. `PaymentInv` adds: a delivery that
releases heard an expiry (`ExpirersHeardExpired`); an expired notice speaks of an
expired session (`ExpiredIsExpired`, which is what expired-after-completed takes
away, hence `NeverBoth`); and a session that can still be paid has a pending row
(`PayableIsPending`).

For the site, `SiteInv` ties each tab to the request behind its page: a page after
Checkout means that the request is done (`PagesFollow`), no two tabs share a
request (`OneTabEach`), a request in progress means a test key
(`ServedUnderTestKey`, from the restarts' guard), and a refusal means that the
request has ended that way (`RefusedHaveEnded`). `SuccessPageIsTrue` then follows
from `PaidKept` and from `ConfirmedStep`, the step form of
`PaymentIsNeverUndone`.

`SearchPageProofs` uses one invariant, `PageInv`, which for a user who waits says
what the one fetch in flight was asked. In `GeocodingProofs`, `ClientInv` says that
the log of a call is hiccups up to its last reply, and `FewCities` that a page of
ten has every match (`NothingIsCutOff`). It is needed: with more matches than a
page holds, of which one can be mapped, that one is taken without a question.

`PickInv` adds that the text of a pick is the label of a live city; with
`Pickable` (every place that can be shown lies in a US state, and no shown name
begins with another one of its state) such a text matches that city alone
(`LabelMatchesOne`). The instance of `pick_in_the_states` satisfies it, the one of
`pick_abroad` does not, and `MCGeocoding` assumes both, so that TLC says so.

`CacheInv` has three parts beside the types: an entry is what was put, with its
put's deadline; the entries stand in the order of their use (`OldestFirst`: of two
entries, the later one's key was used since the earlier one's); and a live key
that is gone has `MaxEntries` keys used since (`EvictedIsOldest`). The last is
inductive because of the second: when `popitem` takes the front, every other entry
of a full dict has been used since (`NewestIsFit`). `UseKeepsInv` is the step that a
hit and a set share. `CacheImplementsMap` then needs only which keys an operation
can add (`KeysAfterGet`, `KeysAfterSet`).

`SearchInv` says that the key of an entry determines what its value is
(`EntryFits`), so it does not matter who ran between a miss and the write: a hit
on a key is right for any search that computes that key (`LocationHit`,
`PageHit`). The steps of a search are of two kinds, those that move its stage
(`StageStep`) and those that end or start a fetch (`FetchEnds`, `FetchMisses`).

`MergeInv` follows an event from a page to the list. Soonest pages, events that
were mapped from a good record of a page, none of the good ones lost
(`NoneIsLost`), the first richest record of each show in the dict in the order of
first sight (`RichestOfEachShow`, `ShowsHaveAFirst`), and a list that is the cut of
the sorted dict. `MergingOne` is the loop's turn. Four arguments carry the rest:

* Ranks. `Sorted` puts at place n the element that has n elements up to and
  including itself. In a finite set with a total order these numbers run from 1 to
  its size, each taken once (`RanksGrow`, `RanksCoverAll`), and the sort key with the index as
  the last component is such an order (`OrderIsTotal`), so `Sorted` is a sorted
  permutation (`SortedFacts`); `map_events` keeps its records in the same way.
* Windows. Modulo 7, the dates sent to a provider are the days asked for
  (`FridayFacts`, `WindowIsAsked`).
* Two cuts (`SoonestAreShown`). A show that falls out of the sorted list leaves a
  full list before it (`CutOffMeansFull`). A record that falls out of its page
  leaves a full page of sooner ones (`PageIsFull`); the good ones among them are
  different shows, because a provider lists a show once, and each is in the list
  or makes it full (`SoonerPage`).
* One provider (`FacetsAreOfTheList`). Its page is no longer than the limit, so
  nothing is cut (`OneProviderFitsTheList`), and a permutation changes no count.

These theorems hold for any keys, values, sizes, searches, providers, records,
limits and days, under the named assumptions of the modules: providers have
different names (`ProvidersDistinct`, `ProvidersDiffer`: the registry is a dict),
the records that can be listed are finitely many (`UniverseFinite`), name a
registered provider and have natural times and seats (`RecordsTyped`), and the
windows are those of `DateWindow` (`WindowsKnown`).

Only model-checked: the liveness properties (`EveryHoldSettles`, `PaidIsConfirmed`,
`LocatedIsAnswered`), which are out of the prover's reach (`LocatedIsNeverLost` is
the safety part of the last). Every invariant and
every step or refinement property of a passing run is a theorem. The violations
are counterexamples found by TLC, and the theorems name what they need to be
excluded: a `Safe` configuration for `ConfirmedStays`, `Pickable` for
`PickSettles`, and for `NoRecordFailsASearch` the two causes of `ErrorsHaveACause`.

## 5. Findings

1. A hold can outlive everything (`stuck_hold`). The README says that a hold
   lasts until Stripe expires the session or the webhook confirms it. When the
   process stops between the commit of `create_pending` and Stripe's answer there
   is no session; nothing looks for old pending rows.
2. On Postgres a late expired notice can undo a payment
   (`postgres_late_expiry`). `_transition` reads the status without a lock and
   its `UPDATE` names the id only. Each of `SELECT ... FOR UPDATE` and an `UPDATE`
   guarded by the status would close this.
3. One record can fail a search (`zoned_start`): a start such as
   `2026-08-22T20:00Z` keeps its zone, and `sorted` raises on comparing it. So does a
   place: a latitude of `1e999` is valid JSON and becomes infinity, the mapper keeps
   it, and `math.sin` in `haversine_km` raises (`NoRecordFailsASearch` fails in
   `ZonedStart.cfg` with `Universe <- JamBaseAtInfinity`, too). Both happen after the
   fan-out, outside the isolation of `map_events` and of `_fetch_one`, and the page
   is cached before: the same search fails again until its TTL is over.
   `ErrorsHaveACause` says that no other records do this.
4. A candidate outside the US cannot be picked (`pick_abroad`): the region in its
   label is not in `US_STATES`, so the same question comes back.

## 6. Differences that no run shows

Met while modelling, and left to the reader of the code:

* README.md:169 promises retries for 5xx; `RETRY_STATUS` lists four of them, so a
  501 or 520 fails at once. `RetriesWhereItHelps` is stated by the client's own list
  and does not cover this; what the README says is `ServerErrorsAreRetried`, which
  fails as an `INVARIANT` of `PickInTheStates.cfg`.
* On Postgres two notices with different ids about one expiry, delivered
  together, release the spots twice. `HoldExact` fails in `PostgresLateExpiry.cfg`
  with `Copies = 2` and `Extra = {}`. It has the cause of finding 2.
* With `Prompt = FALSE` and `MaxRetries = 1`, `HoldExact` and `ImplementsLedger`
  fail on SQLite, too: a Checkout retry that outlasts its session ends in
  `cancel_pending`, whose check reads the object in memory, and the spots of an
  expired row are released again. `http_max_retries` has no upper bound.

* `_nearest_city` takes the city with the most events, not the nearest one
  (`Busiest`), and "Austin, Texas" loses its hint, because `US_STATES` has codes
  only (`Hint`).
* With two providers the facets count events that the cut removes;
  `FacetsMatchShown` is stated for listings of one provider.
* "Closest" sorts what the providers sent, the soonest events, and a distance of
  0.0 counts as unknown when dates and times are equal (`SortKey`).
* Searches that miss one key together all ask the provider, and the last answer
  to arrive is the one cached. On the page the last answer to arrive is the one
  shown, even to an older search: `ShownIsAsked` and `FiltersHaveChips` are
  stated for a user who waits.
* Texts without Latin letters fold to "", so two such acts on one night in one
  city are one show.
* A webhook secret with a space around it passes the startup guard, which strips
  it, and fails every signature, which does not (`Verifies`).
* A search that redraws the cards while a reservation is being posted gives the
  buyer a new, enabled button; nothing ties the two POSTs together.
* A buyer whose POST gets no answer has a hold and no way to its Checkout: the
  url was in the answer that was lost. The hold lasts until the session expires.
* With more than ten matching cities, of which one can be mapped, a place is
  guessed (`FewCities`).
* `cache_max_entries` below 0 would make `set` pop from an empty dict; the models
  assume a natural number.

## 7. What is not modelled

* The arithmetic of `enrich.py` (a distance is data here, and any coordinates on
  which `haversine_km` raises are `Unmeasurable`), `days_away` and the Festival tag;
  the wording of labels.
* The fields of `mapper.py` that are only copied to the page (addresses, urls, end
  and door times), and the genre and keyword parameters of a search, which only
  the provider applies.
* The cap of twenty genres in the facets, which only shortens the list.
* The bytes of a signature: a delivery is heard by a process with the right
  secret and refused by any other.
* `resolve_location` as an endpoint of its own, `/health`, the static files.
* Drawing of cards and the browser's geolocation in `app.js`.
* Loss of the database, and a cap that is lowered while more spots are held: the
  promise itself is then in doubt, and no document says what should happen.
* Time, except in the cache: pauses between attempts have no length.

## 8. What could come next

1. The site's `SiteInv` for several processes on one Postgres, with a restart of
   one of them at a time.
2. A database that is lost or restored from a backup while sessions are open at
   Stripe.
3. A cap that changes across restarts, with what the ledger should then promise.
