# A TLA+ development of the Tamga Python SDK

This directory holds TLA+ models of `tamga-python`, the configurations that check
them with TLC, and proofs checked by TLAPS. Paths such as `src/tamga/client.py`
are those of the repository.

The SDK is a synchronous client. It has no threads of its own, but its users do:
heartbeat loops are made to run in threads of the application, many applications
share one license, and all of them race on the server's rows. What can go wrong is
therefore rarely in one call. It is in what other clients do between the requests
of a call, in requests that are lost or carried out late, in the time that retries
take, and in key material that is older than the files it is to verify. That is
what the models are about. The server is not in the repository; it is modelled
only as far as the SDK says what it does, and it is left free to choose wherever
the SDK says nothing.

## Inventory

| component | source | state | operations | what makes it hard | correct when |
|---|---|---|---|---|---|
| machine activation | `MachinesClient` in `client.py`, `errors.py` | none of its own; the server's machine rows | `create`, `delete`, `get`, `list`, `activate_machine`, `activate_machine_idempotent`, `find_by_fingerprint` | up to a dozen requests of one call interleave with other clients; lost and late requests; paged search over rows that move | the machine returned is the right one; a refusal leaves no seat; a rollback hits only the call's own row; a re-activation finds its machine |
| requests and retries | `_request_with_retry`, `_is_retryable`, `_retry_delay`, `transport.py` | attempt count | one request, repeated after 429 | what was carried out is not known; negative or huge `Retry-After` | nothing is carried out twice; retries and pauses are bounded, and used up before giving up |
| machine heartbeats | `HeartbeatScheduler`, `heartbeat_interval_for_policy`, `PolicyResource.effective_heartbeat_window_seconds` | interval, stop flag | size, ping, sleep, `stop`, `reset_heartbeat` | time: losses, pauses and trips against the server's window, in whole seconds | the window holds with the losses it tolerates; the ping rate is bounded; a stopped loop ends |
| processes | `ProcessesClient`, `ProcessHeartbeatScheduler` | stop flag; the server's process rows | `create`, `ping`, `delete`, `stop`, `dispose`, `run_forever` | two threads share the flag; nobody reaps a row of a dead process | a disposed slot is free for good; slots are lost only to failures |
| offline files and key sets | `checkout/`, `models/signing_key.py`, `AccountsClient` | the key set a client holds | `verify_with_key_set` of both files, `signing_key_set` | the key set is older or newer than the file; the `kid` is inside the payload; clocks are off | genuine files are not called forged; nothing is read out of a damaged one; expiry holds |
| licenses | `LicensesClient` | none | validation, check-in, check-out, reads | single requests | covered where other components use them |
| listing | `list` methods, `_next_after_cursor`, `OffsetPage` | cursor held by the caller | one page a request | rows come, go and move between pages, the cursor's own row included; the last page is inferred from its length; limits above the server's | a listing that ends has missed nothing that stayed, and read nothing twice; it ends |
| entitlements, meters | `EntitlementsClient`, `LicenseResource` | a cached listing | `list`, `list_all`, `has_entitlement`, `refresh_entitlements`; increment, decrement, reset | no lock on the cache, revocation, failed fetches, the cut at 100 | an answer is true of the version it is from; a refresh lasts; a meter action is sent once |
| releases, artifacts | `ReleasesClient`, `ArtifactsClient` | none | `check_for_upgrade`, `list`, `get_download_url`, `download` | a URL that lapses between two requests of which only the first is retried | the URL is fresh when it is used |
| fingerprints | `fingerprint.py` | none | `canonical_form`, `machine_fingerprint` | many spellings of one machine, values that look like several | the same fingerprint exactly for the same machine |
| components, policies, proofs, crypto, transport formatting | the rest | none | single requests, pure functions | – | not modelled: stateless, or wrappers of a library |

The components meet in four places. Every client sends its requests through
`_request_with_retry`; `Heartbeat` therefore extends `Retry` and makes each ping
one of its calls, and `Updater` extends it for the request of a presigned URL.
Listings are read by callers between other calls: `Updater` extends
`KeysetListing`, too, and chooses what to download from what was listed.
Activation calls `validate_by_id` and the machines' `list`, `get` and `delete`.
Offline files are made by a checkout and verified with the keys `AccountsClient`
fetches.

## Modules

| module | models | code |
|---|---|---|
| `SeatLedger` | the promise of activation: who may take, keep and give up a seat | abstract |
| `Activation` | every request of concurrent activations, the server's rows, requests carried out late | `MachinesClient` |
| `ActivationProofs` | its theorems, and that it implements `SeatLedger` | |
| `Retry`, `RetryProofs` | one request, and its theorems | `_request_with_retry` |
| `Heartbeat`, `HeartbeatProofs` | the ping loop, its interval, the server's window; theorems | `HeartbeatScheduler`, `MachinesClient` |
| `ProcessLifecycle`, `ProcessProofs` | process slots and the scheduler's two threads, and theorems | `ProcessesClient`, `ProcessHeartbeatScheduler` |
| `OfflineVerify`, `OfflineProofs` | rotation, key sets, offline files; theorems | `checkout/`, `signing_key.py` |
| `Listing` | the promise of a listing | abstract |
| `KeysetListing` | cursors over rows that come and go; its theorems are in `UpdaterProofs` | `_next_after_cursor`, the `list` methods that use it |
| `Updater`, `UpdaterProofs` | an update: upgrade, listing, presigned URL, fetch; theorems, and that listings implement `Listing` | `ReleasesClient`, `ArtifactsClient` |
| `Entitlements`, `EntitlementsProofs` | threads that share a license resource and its cache; theorems | `LicenseResource`, `EntitlementsClient` |
| `Fingerprint`, `FingerprintProofs` | the canonical form of a machine's components; theorems | `fingerprint.py` |
| `MC*` | instances for TLC | |

**Activation.** `call[c].pc` says which request a client waits for: `create`,
`validate`, `rollback`, `get`, `search`. Since the calling thread blocks, a
request and its answer are one step; other clients step in between. A row is
identified by the call that asked for it. `GiveUp` is every exception that leaves
a call, and the death of the application: the request may then move to `late`,
from where the server may carry it out at any time. `rows`, `late` and `call` are
all the state. What the server may do is set by constants: `Scope` (uniqueness),
`Cap` and `Limit` (overage at creation and at validation), `Naming` (what a 409
puts in `meta.machineId`), `HonestPages` (whether page counts are true and page
numbers are heeded), `Hits` (what a search term matches). A `create` can also be
refused over cores, memory or disk, which machines do not count here, so
`LimitRefused` is free. Names and other attributes of machines are left out.

**SeatLedger.** Callers ask for a seat, get their own or an existing one, are
refused without one, or fail. A refused caller has no seat and never gets one
later; a caller gives up only its own. `Activation` maps its states to the
caller's status and its rows to seats.

**Retry.** `phase` is the place in the loop; `attempt` is the code's counter.
`sent`, `carried` and `slept` are history. A 429 means that the request was not
carried out, since the limiter stands in front of the handler; a 5xx or a timeout
says nothing. Time is in ticks so that jitter takes part.

**Heartbeat.** There is no clock: `age` is the time since the last recorded ping,
and steps add to it. `slack` is the part of it spent in requests and pauses,
`missed` the pings lost since. `LoopStep` is the thread; `Stop`, `Removed`,
`ResetHeartbeat` and `RunAgain` are others. The server compares whole seconds,
hence `Dead` one second after the window.

**ProcessLifecycle.** `app[a]` has the place of the main thread, the place of the
loop and the stop flag, so that `Check` (the flag is read) and `Pinged` are
different steps. Time does not matter here and is left out. The server frees no
row by itself.

**OfflineVerify.** A key is a number and a kid is the number of its key; a
signature is who made it and whether the bytes are as issued. `Verdict` is
`verify_with_key_set`, in the order of the code: scheme, usable keys, signature,
and only then payload, claims and expiry. A payload that is not ASCII raises a
`UnicodeEncodeError` while the message to verify is put together, before any key
is tried: the verdict `not_ascii`, whatever the set holds. `verify` with one key
is the same pipeline with one candidate. JSON, base64 and the ciphers are
abstracted to what can be read with which credential.

**KeysetListing.** A row is its place in the order `(created_at, id)`, so a
transaction that commits late is a row that appears before others. `rows` is the
server's; `cursor` and `seen` are the caller's; `there` remembers what was there
from the start. `LastPage` is the decision of `_next_after_cursor`, made from the
length of the page and the limit the caller passed, which the server may have
clamped. What the server does with a cursor whose row was deleted is not known
from the SDK, so it may seek past its place, find nothing, or refuse
(`LostCursor`). `ending` is history: it tells a listing that ended on a short page
from the two that end early. Nothing here sends requests: what includes the module
decides when a step is taken.

**Updater.** `pc` is the place in a session. The request for the URL is a call of
`Retry`, step by step. `age` counts from the moment the server signs the URL,
through the rest of the answer's trip, and, in `Fetch`, the trip to the storage
host; `Suspend` is a process that is held up in between. The server's answers
other than a URL (a 303 without a target, a gate that closed) end the session as
`ArtifactDownloadError` or another error.

**Entitlements.** A fetch is three steps of a thread: it asks, the server answers
with the holdings of that moment, the list is stored. Between them the holdings
change and other threads fetch and store, for the resource has no lock. Holdings
are kept version by version so that an answer can be judged by the version it is
from. The order of a page that is cut is the server's, so any subset of the right
size may come. `fresh` is history, too: whenever a list is stored, it is raised to
the beginning of the oldest fetch under way, which is the most that a resource
without a lock can keep to.

**Fingerprint.** Strings are sequences of code points, all that Python has, and
the operators follow `canonical_form`: trimming, validation of labels and values,
the check that labels differ, the sort by UTF-8 bytes, the join. A lone surrogate
in a value is refused by the encoder (`Encodable`): a `UnicodeEncodeError`, not a
`FingerprintComponentError`, though both are `ValueError`s. Items are pairs,
sequences of another length, or no sequences (`NoSequence`: a str, or what cannot
be iterated over), which `_pairs` refuses; a mapping is the list of its items. The
sort is any order of the components that leaves no smaller one after a larger.
SHA-256 is taken to be injective. The properties define what a machine is without
these operators (`Machine`, by the core of each value that begins and ends with no
space), and ask that both agree.

## Runs

| run | asks | bounds | result |
|---|---|---|---|
| `ActivationNamed` | all safety properties and the refinement, documented server | 2 clients, 2 calls each, 2 licenses in one scope, 2 fingerprints of which one contains the other, one with room for overage | holds, 1.6 M states |
| `ActivationUntrusted` | termination and fingerprints against a server that lies about page counts, 409s and page numbers | 3 clients, 1 call each, 2 pages | holds |
| `ActivationPrePatch` | recovery when a 409 names nothing | 2 clients, pages of one row | violated |
| `Retry` | everything about one request | 3 retries, 5 headers, 8 kinds of request; requests follow each other without end | holds |
| `HeartbeatLosses` | windows, rates, termination | windows null, 0, 1, 2, 3, 7 s; intervals by hand 0, ½, 2½ s; one retry | holds, 2.0 M states |
| `HeartbeatTwoLosses` | two losses are harmless from 3 s on | as above | violated |
| `ProcessSlots` | slots, flag, leaks | 2 applications with 2 runs each, 2 slots, symmetric | holds, 1.9 M states |
| `OfflineVerify` | verdicts | 3 keys, 4 seconds, clocks −1 to +2 s, tolerance 1 s | holds, 2.7 M states |
| `OfflineNoKey` | `InvalidSignature` means forged | as above | violated |
| `Updater` | completeness of listings and their refinement, freshness of the URL, termination | 4 artifacts, pages of 2, limits none, 0, 1, 3; URLs of 3 to 6 ticks, trips of up to 2; 2 retries | holds, 0.7 M states |
| `Entitlements` | truth of answers, refreshes, failed fetches | 2 threads, 2 codes, pages of 1, 3 versions, symmetric | holds, 0.3 M states |
| `Fingerprint` | equal fingerprints exactly for equal machines | 2 installations, up to 2 components each out of 33 | holds, 1.3 M states |

Why the bounds are enough. Activation needs two clients for each race, a second
call of the same client for retries after a failure, two licenses for a clash
across licenses, and pages of one row so that a deletion moves a row across a
boundary; a third client is used where calls are short. `Retry` does not depend on
how many retries there are beyond two. The windows are those at which the floor of
one second, the division by three, the fallback to 600 s and the server's
truncation differ; 7 s is one that three does not divide. Two processes and two
slots fill the policy and leak from it. Three keys give a current, a retired and a
twice retired one, and the clock passes both edges of the tolerance. Four
artifacts on pages of two give a full page, a short one, and an empty one after a
full last page; the limits stand for none, one the server raises, one it applies,
and one it lowers; the lifetimes asked for lie on both edges of what is accepted
and outside of it, and below and above two trips. Two codes on pages of one are a
license under its ceiling and one above; two threads make the race of two fetches,
and three versions a list that is two behind. The components of `Fingerprint` come
close to each other in each way the code tells apart: spaces at the ends, spaces
that are none, separators, an equals sign on either side, an empty value,
characters of two, three and four bytes, a lone surrogate, arguments that are no
pair, no sequence and no text. `CHECK_DEADLOCK FALSE` is set where the
model stops because the bounded calls are used up and the rows are gone, where the
thread has ended for good, or where both installations have all their components.

Fairness. `ActivationUntrusted` assumes weak fairness of each client's own steps:
httpx has a timeout (`timeout_seconds`), so a request ends, and nothing in a call
waits for another client. `HeartbeatLosses` assumes it of the loop's steps: its
thread is scheduled, sleeps end and pings are answered or time out. `Updater`
assumes it of a session as a whole: requests time out, `time.sleep` returns, and
the application goes on with what it began. That a session ends while artifacts
keep appearing rests on the places of rows being finite; an account to which rows
are added faster than they are read could keep a caller reading. Nobody else owes
a step: applications need not call, the server need not carry out a late request,
and nobody need stop a loop.

### What the violations show

Each is stated in `PROJECT.json` under `findings` with the line that says
otherwise.

* **A re-activation can fail against an older server.** With nothing named in the
  409, the search goes page by page; a machine deleted in between moves the
  searched row to a page already read.
* **Two losses are not always harmless.** A 429 pauses inside the ping; a minute
  of `Retry-After` is more than a short window. `WindowHeld` is what does hold:
  with less than a second of trips and pauses since the last recorded ping.
* **InvalidSignature can mean rotated.** For an encrypted file without its license
  key, `kid` cannot be read. `GenuineNotForged` holds with the key.

Five more places where the words and the code are apart, and which passing runs
contain:

* `HeartbeatScheduler` names the 404 as what ends `run_forever`; every other
  failed ping ends it, too (`Fails`). `HeartbeatLosses` has an application that
  runs the loop again, which is what it takes.
* `dispose()` may leave one ping behind, since the flag is read at the top of the
  loop; `OnePingAfterStop` is that it is one ping only.
* A page's `next_after` of `None` is to mean the last page. With a limit above
  100, which the server lowers, the first page looks short, and a server that
  cannot find a deleted cursor row may answer with nothing. `CompleteListing`
  leaves out exactly these two.
* `has_entitlement` may answer no for a code that is held once a license has more
  than 100; the code says so, and `AnswersTrue` is about the rest.
* `_request_with_retry` "returns the first non-429 response, or the last 429 once
  the retry budget is spent" (`client.py:833`). A negative `Retry-After` makes it
  do neither: `time.sleep` raises a `ValueError`, which is no `TamgaError` and
  which ends a heartbeat loop, too. `Retry` has it as the result `value_error`.

## Proofs

All theorems are for arbitrary constants that meet the named assumptions of the
modules; each assumption is evaluated by TLC in the runs.

* **Activation.** `IInv` is inductive: rows and stray requests come from calls
  that were made, with the call's number (`Provenance`); a call works on its own
  row while it validates and rolls back (`CallShape`); one that has not created a
  row, or denies having one, has none (`NoSeatYet`). The types alone are not
  enough: that a refused call stays without a row needs that no stray `create`
  bears its number, which holds because a request becomes stray only when its call
  ends in an error, and numbers are not used again. `RefusalLeavesNoSeat` and
  `FreshSeatIsSafe` follow from it in each state, `RollbackOnlyOwn` from it in
  each step. `ReturnedFingerprint` needs no assumption on the 409; `ReturnedIsOwn`
  and the refinement assume that it does not name another license's machine, which
  is what the code relies on, too (`GET /machines/{id}` is account-wide and the
  fingerprint is all the SDK can compare).
* **Refinement.** Every step of `Activation` is a step of `SeatLedger` or leaves
  its variables alone, under `IInv`, by cases on the actions.
* **Recovery.** `ReactivationRecovers` is proved for a server that names the
  machine of a 409 when it is on the caller's license. Three things carry it: rows
  that are there do not clash with each other (`Unique`), so the named one is the
  only one; a request under way or stray never makes a row that was there before
  (`Spent`), so one that is gone stays gone; and the search begins when none is
  left (`MineGone`). `Unique` needs a uniqueness scope that goes both ways
  (`SymmetricScope`), as it does between licenses under one policy; otherwise two
  rows can clash with a create, and the 409 may name the other one.
* **Finality.** `RefusalIsFinal` and `RemovalIsFinal` look further than one step:
  once a call has said that it left no machine, the machine it asked for is never
  there again, whatever is called later and whatever request comes late; and a
  machine that was removed is not made a second time. Both rest on `Spent`: a row
  bears the number of the one POST that makes it.
* **Retry.** `RetryInv` ties `sent` to `attempt` by phase, and gives `carried` at
  most 1 because only a 429, which carries nothing out, leads to a repeat. The
  bounds on sends and pauses are arithmetic on it. `DelayBound` is the lemma on
  `_retry_delay`.
* **ProcessLifecycle.** `LifecycleInv` is inductive: each run has a row of its own
  number, nothing disposed of is asked for again, a stray create is for a row
  nobody holds. Almost every action changes the record of one application;
  `OneRun` says once what such a change must keep, and `MainMoves` and `LoopMoves`
  specialise it to the two threads. `RefusedOnlyAfterLeak` adds that runs have
  different pids, and counts: rows that are held map one to one to the
  applications other than the one that asks (assuming finitely many applications,
  and as many slots).
* **Heartbeat.** A step of the loop moves its ping as `Retry` says or leaves it
  alone, so `RetryInv` carries over. Around it, `HeartbeatInv` counts the age of
  the last recorded ping: at most one interval for each ping lost, one more while
  the next is due, and the slack. `WindowHeld` is then arithmetic: `PingsFit`
  shows that three floored thirds fit into a window, and one-second intervals into
  a window below three. `RateBounded` follows from `since` being a whole interval
  at the top of the loop.
* **OfflineVerify.** `OfflineInv` says what rows an account ever publishes (the id
  of the key or one that no key has; retired ones before the current) and what
  claims it ever signs. The verdicts are case analysis on it. That a key in the
  set is enough for a genuine file needs that rows with other ids are tried as
  well, which is what `usable_keys` does.
* **Listing.** `ListingInv` is inductive: all that stayed up to the cursor was
  read, and nothing behind it was. `ShortIsLast` is the heart: a page shorter than
  a limit the server applied is all there is. `ListingImplements` is that every
  step of a listing is one of `Listing` or a stutter, whoever takes the steps.
* **Updater.** Its request and its listing keep `RetryInv` and `ListingInv`
  because each step of a session is a step of theirs or leaves them alone;
  `UpdaterInv` adds where the session is and how old the URL can be. `Listing` is
  implemented by the listings of a session for the same reason.
* **Entitlements.** `EntitlementsInv` is inductive: each list in hand or in store
  was taken from the version it names, no earlier than its fetch began.
  `RefreshLasts` needs that whoever fetches began no earlier than `fresh`: the
  oldest fetch under way is what `fresh` was raised to, and those that begin later
  begin at the version that counts, which is no older.
* **Fingerprints.** `SameMachine` and `DifferentMachines` are the two directions
  for every set of components, and `FingerprintNames` states both without the
  state machine, for any two lists. Four facts carry them. Trimming gives the core
  of a value, and there is one core (`Core` is a choice). A text made of words,
  each of which begins with a letter that no word has further on, can be read in
  one way only; UTF-8 is such a text (`Utf8` of different strings differs: a byte
  that leads, then bytes that continue), and so is the canonical form (the
  separator, then a component, which validation has kept free of separators). The
  first `=` of a component ends its label, since labels have none. And the sort
  depends on the set of components alone: it exists (rank each one by how many are
  before it), and it is unique because the order of the bytes is total and labels
  differ. Lists are treated by the least counterexample, for the library's
  induction theorems take an operator as a parameter.

Only model-checked: termination (`CallsEnd`, `LoopEnds`, `SessionEnds`), since
liveness under fairness is out of the prover's reach. What TLC adds to every
theorem is that its hypotheses are met: each property has a variant of the code
that breaks it in the same run.

## Plan

1. Done: activation and its ledger, requests, heartbeats, processes, offline
   files, keyset paging, updates, entitlements, fingerprints.
2. Done: every safety property the passing runs check is proved, and both
   refinements are.
3. Left: `Updater` over the time of the account, so that a license that expires or
   a release that is withdrawn closes the gate between the two requests for a
   reason; offline proofs, if they come to be more than one signature.

## Not modelled

Assembly of headers and queries, authentication schemes, parsing of resources,
health checks, the cryptographic wrappers and the offline proof: stateless, and
nothing happens in several steps. The same goes for single reads and writes of
licenses, machines, policies and components. A meter action is one POST that is
never repeated, not even after a 429; it is the action `increment` of the `Retry`
run, to which `AtMostOnce` and `RepeatsBounded` apply. Envelope parsing of files
is left out, since all it can do is refuse before a model of it would begin. Nor
is it modelled that the presigned URL is fetched without the API's credential and
that redirects are not followed: both are the text of one call, not a matter of
order, and `tests/test_artifacts.py` pins them. That a `ValueError` from a
negative `Retry-After`, or any failed ping, ends a loop unseen is an outcome the
models contain; no property forbids it, for the code does it.
