# A formal model of the latte C SDK

`latte-c` is a C library that an application links to check its licence. It
activates a licence key on this machine over HTTPS, keeps the signed token the
server answers with in a file, verifies that token locally on every
`latte_check`, and renews it in a background thread. This directory holds TLA+
models of it, the TLC configurations that check them and the TLAPS proofs about
them. Paths below are relative to the repository: `latte.c` is
`src/src/latte.c`, `latte.h` is `src/include/latte/latte.h`.

    tlc -config MCSdk_one.cfg MCSdk.tla      model-check one configuration
    tlapm SdkRenewalProofs.tla               check the proofs of a module

## 1. Inventory

| Component | Source | State | Operations | What makes it correct |
|---|---|---|---|---|
| SDK core | `latte.c` | per handle: `renew_in_flight`, `last_renew_attempt`, `renew_failed`, `renew_thread`, `renew_mu` | `latte_new`, `latte_check`, `latte_activate`, `latte_deactivate`, `latte_free`, `renew_thread_fn`, `latte_machines`, `latte_rename_machine`, `latte_config_*` | one renewal at a time; no call waits for one but `latte_free`; a renewal writes only its own activation's token; a released token does not come back; a live seat is not forgotten; the grace period bounds every acceptance |
| Validation rules | `validate.c` | none | `ll_validate_at`, `ll_license_is_valid`, `ll_in_grace_period_at` | the dates of a licence decide alike wherever they are read |
| Token verification | `verify.c`, `crypto/cert.c`, `crypto/jwt.c` | none | `ll_verify_activation_any_at`, `ll_verify_cert`, `ll_jwt_verify_ed25519` | a token once accepted lives exactly until its end; a daily key's tokens do not outlive its day by more than the longest grace period; the two token formats agree |
| Cache file | `storage/file.c` | one file, temporary files beside it | `ll_file_save_token`, `ll_file_load_token` | an atomic register, whoever writes and whatever fails or dies |
| Server protocol | `http/client.c` | none here; the activations on the server | activate, renew, deactivate, machines, rename | each answer of the server becomes the outcome the server decided on; pages of third parties cost no licence that they need not; times are the instants that were named |
| Threads | `thread.c` | a mutex, a thread handle | lock, unlock, spawn, join | join waits for the thread it names |
| Error mapping | `errors.c` | none | `map_network_error`, `latte_strerror` | every port error has a status |
| Licence keys | `crypto/key.c` | none | normalise, sanitise, checksum | the forms of one key are one key; a slip of the keyboard is not another app |
| Application ids, paths | `appid.c` | directories | parse, storage path | the processes of a user find one file |
| Base64url | `crypto/base64url.c` | none | decode | inverse of encoding, rejects the rest |
| Entitlements | `entitlements.c` | none | decode, look up | nothing is granted that is not signed; absent and empty stay apart |
| Domain records | `domain.c` | none | allocate, free | |
| Machine fingerprint | `machineid.c` | none | read and hash an OS id | the machine is the one the application asked for |
| In-memory storage | `storage/mem.c` | one token | save, load | not used by `latte.c` |
| C++ wrapper, tools, examples, cJSON | `latte.hpp`, `tools/`, `examples/`, `vendor/` | | | |

**How they interact.** The application's threads call the core. `latte_check`
loads the cache file, verifies and validates the token, may start the renewal
thread, validates once more and hands out a licence whose in-grace flag it
computes from `renew_failed`. `latte_activate` does the same first and calls the
server only if the cached token will not do; `latte_deactivate` calls the server
first and then empties the file. The renewal thread calls the server and writes
the file. The threads of one handle share its fields under `renew_mu`; handles
and processes share only the file and the server, without any lock.

**What is hard.** The file is read, and acted upon much later, by calls that
hold no lock meanwhile; `renew_mu` covers the last steps of a renewal and of a
release only, and only within a handle. Requests time out after the server has
handled them, or before. Saves may fail and the core mostly ignores that. The
process may die anywhere. Four dates and two clock readings decide whether a
token is accepted. Captive portals and proxies answer in the server's place. Two
processes may start for the first time at once, on directories that are missing;
allocations fail one at a time. `PROJECT.json` lists the hazards line by line with the
properties that guard against each.

## 2. Modules

| Module | Models | Used by |
|---|---|---|
| `ErrorMap` | the errors, `status_error`, `map_network_error` and the errors that cost a token | `LicenseServer`, `Sdk` |
| `Validate` | `validate.c`, all of it, as operators over a licence and a time | `Sdk`, `Verify` |
| `LicenseServer` | the server (external): what it decides | `Sdk`, `HttpClient` |
| `Sdk` | `latte.c`: calls, renewal thread, mutex, crashes, time | `Exchange` |
| `Calendar` | `days_from_civil` and `parse_time` of `client.c`, and the Gregorian calendar as the reference | `HttpClient` |
| `HttpClient` | the rest of `client.c`: what it makes of statuses and bodies; and (external) how the server says what it has decided | `Exchange` |
| `Exchange` | `Sdk` over `HttpClient`, pages of third parties, `latte_machines`, `latte_rename_machine` | |
| `CacheRegister` | abstract specification: an atomic register whose save may fail | refined by `AtomicFile` |
| `AtomicFile` | `storage/file.c` at the grain of system calls | |
| `Entitlements` | `entitlements.c` as operators over a claim | `Verify` |
| `Verify` | `verify.c`, `cert.c`, `jwt.c`: the chain, the token formats, and a machine that is offline for ever | |
| `LicenceKey` | `crypto/key.c` as operators over texts | `Setup` |
| `Setup` | `latte_config_*`, `latte_new`, `appid.c`, `machineid.c`, and how `latte_activate` recognises a key | |
| `MCSdk`, `MCExchange`, `MCAtomicFile`, `MCVerify`, `MCSetup` | instances for TLC | |
| `SdkProofs`, `SdkRenewalProofs`, `SdkLeaseProofs`, `SdkReleaseProofs`, `ExchangeProofs`, `AtomicFileProofs`, `VerifyProofs`, `SetupProofs` | theorems | |

The modules meet as follows. `Sdk` reads and writes the cache file in one step;
`AtomicFile` implements `CacheRegister` (a run and a theorem), which is what
makes that step sound. `Sdk` takes verification to be "the chain is trusted and
its end has not come"; `LivesUntilItsEnd` of `Verify` (a run and a theorem) says
that verification and validation of a bundle that has been accepted come to just
that, together with the dates `Validate` checks. `Sdk` and `Verify` share
`Validate`.

`Sdk` takes a reply to be one of the outcomes the server decides on
(`LicenseServer`). `Exchange` puts the HTTP layer in between: the server says its
decision as a status and a body, `HttpClient` reads them, and `AnswersAreOutcomes`
(a run and a theorem) says that every step of `Exchange` is a step of `Sdk` or the
page of a third party. So what is shown of `Sdk` is shown of the SDK over its
client, as long as it is the server that answers. `Setup` models what comes before
any of this: where the cache file is, which machine it is, and which key is meant;
in `Sdk` these are given.

### Sdk

A state is the clock, the server, the cached token, the HTTP call each thread
waits for, and per thread and handle where it is in the code. A handle stands
for a process; two handles in one process share no more than two processes do.

| Model | `latte.c` |
|---|---|
| `app[t].pc` and its locals | the C locals of `latte_check`, `latte_activate`, `latte_deactivate`, `latte_free` |
| `sdk[h]` | `renew_in_flight`, `last_renew_attempt`, `renew_failed` (lines 38-42) |
| `renewer[h]` | `renew_thread` and the locals of `renew_thread_fn` |
| `MutexFree(h)` | `renew_mu`: only the renewal thread holds it over several steps (a file access, then another), so a step that locks and unlocks in one go needs it free |
| `TryRenew`, `JoinRenewer`, `SpawnRenewer`, `SpawnFails` | `should_try_renew`, and the three parts of `maybe_start_renew` |
| `Check`, `CheckVerify`, `CheckFresh`, `DomainToPublic` | `latte_check`: load; verify and validate; `ll_license_is_valid`; `domain_to_public` |
| `Activate` ... `ActivateSave` | `latte_activate`: fast path, request, verification of the answer, save |
| `Deactivate`, `DeactivateReply`, `DeactivateClear` | `latte_deactivate` |
| `RenewReply`, `RenewLock`, `RenewWipe`, `RenewStore`, `RenewDone` | `renew_thread_fn`: answer; lock and `holds_activation`; wipe or save; unlock; clear `renew_in_flight` |
| `Free`, `FreeJoin` | `latte_free`, and the `latte_new` that follows it |
| `Serve`, `TimeOut`, `ServeLate`, `Revoke`, `Crash`, `Tick` | the environment |

One step makes at most one access to what other processes can see. Between any
two of them every other thread, the server and the clock may move.

`history` is the model's own: `forgotten` are the activations whose release has
emptied the file, `unreached[h]` those whose last renewal attempt could not reach
the server. No action reads it.

### Exchange and HttpClient

An answer is a record of the things `client.c` looks at: status, whether the body
is JSON, token, certificates, times, list of machines. `HttpPost`,
`HttpDeactivate`, `HttpMachines` and `HttpRenameMachine` are the functions of those
names; `Answers` (external) are the answers by which the server says each of its
decisions. `Respond` replaces `Serve` of `Sdk`; `Intercept` is a third party's page,
any status of `Pages` with a body that is not JSON. `answer` remembers what a
call's answer was until the code is done with it; no action reads it. A machine call
is two steps, `Ask` (the credentials are read from the cache) and `Told`.

### Setup

A state is the machine (which of `XDG_CONFIG_HOME` and `HOME` are set, what the
machine-id files hold, which directories exist or can be created), the cache
files, and per process a config and how far `latte_new` has come with it.

| Model | Code |
|---|---|
| `NewConfig`, `SetMultiInstance`, `SetMachineId`, `SetMachineName` | `latte_config_new` and the setters, whose copies may fail |
| `New`, `NewWithoutConfig`, `ParseAppId` | `latte_new` up to its `calloc`; `ll_parse_app_id` |
| `ResolveConfigDir`, `ResolveWorkingDir`, `MkdirP` | `ll_resolve_storage_path`, one `mkdir` a step; `ll_resolve_storage_path_local` |
| `Fingerprint`, `RawMachineId` | `latte.c:415-421`; `get_raw_machine_id` for Linux |
| `Client` | `ll_http_client_new` and the end of `latte_new` |
| `ActivateTyped`, `AnsweredFromCache`, `Meant` | `latte_activate`, as far as the typed key goes |
| `ParentAppears` | a directory is mounted or created while the processes run |

`asked` is the model's own: what the application asked for, against which
`RightMachine` holds what it got. So are `since` and `until` of a handle, the
directories' `epoch` when its search began and ended.

### LicenseServer

One machine, so a key has at most one live activation on it. `died[a]` remembers
when an activation was released or revoked. Every answer the code distinguishes
can come: a token, 403, 404, 409, 401, 429 or 5xx, a blocked release, a 200
without a token, a timeout before or after the server acted. `Faults` selects
which of them a run admits, along with failing saves, failing thread creation and
crashes. Renewals change nothing on the server, so a renewal request whose caller
has gone is not kept.

### AtomicFile

Inodes, the name of the cache, temporary names, and a record that takes several
writes. A save is `mkstemp`, writes, `rename`, or `remove` after a failure; a load
opens the file, asks for its size and reads that much. A process may die at any
point of a save; its temporary file stays (`orphans`).

### Verify

A bundle is a token with its three certificates; a signature is the key that made
it. `VerifyActivation` follows `ll_verify_activation_any_at` check by check,
`Verdict` adds `Validate`. The machine holds one bundle and only time passes.
`licence` is what the application holds: the entitlements of an accepted token, less
those whose copies failed (`Entitlements`): a list that could not be allocated is
empty, and an entry whose key could not be copied stays without a name. A number is
the literal that was signed; the code reads the double that cJSON's `strtod` makes of
it, so `Double` rounds to the spacing of the doubles of that magnitude, half to even,
and what is beyond every double is infinite. A licence is assumed to be there:
`domain_to_public` that finds no memory at all hands out none.

## 3. What the runs show

| Run | Instance | Properties |
|---|---|---|
| `one_process` | 1 handle that may die and restart, 1 thread, 2 keys; lost and late messages | the renewal, the release and the flag, while the cache changes hands between licences |
| `refusals` | 1 handle that may die and restart, 1 key, 2 activations; every refusal; failing saves and spawns; licence and certificates that end | what survives failures: the grace bound, the release, the live seat |
| `two_threads` | 1 handle, 2 threads; lost and malformed answers | what `renew_mu` and `renew_in_flight` are for |
| `everything_ends` | 1 handle, 1 thread; lost messages, failing spawns | liveness |
| `exchange` | 1 handle, 1 thread; every answer the server can word, pages of third parties, lost answers, crashes | `Exchange` |
| `cache_file` | 2 writers, 1 reader, failures and deaths | `AtomicFile` refines `CacheRegister` |
| `token_life` | some 3,650 bundles | the life of a token, the two formats, the entitlements |
| `setup` | 2 processes, 8 machines, some two dozen app IDs, 10 typed keys, failing allocations | `Setup` |
| `expired_status`, `unsaved_release`, `release_races_activation`, `release_races_process` | small | section 6 |

The properties of `Sdk`:

- `OneRenewalAtATime`: `renew_in_flight` is set exactly while one thread carries a
  renewal of the handle. It fails if any way out of `maybe_start_renew` or
  `renew_thread_fn` forgets to clear the flag, or clears it twice.
- `JoinNeverWaits`: the join in `maybe_start_renew` finds a thread that has
  ended, so `latte_check` stays local.
- `RenewalWritesOnlyItsOwn`: the answer of `holds_activation` is still true when
  the renewal writes. With one handle only: see section 6.
- `ReleaseIsFinal`: an activation whose release has emptied the file is not in
  the file again. One handle and one thread only: section 6.
- `RenewFailedIsCurrent`, `InGraceIsOfThisLicence`: the flag behind "in grace
  period" is about the activation in the cache and the licence handed out. The
  second needs saves that succeed: an application that switches keys when the disk is
  full is handed the new licence next to the flag of the old activation, which is
  still in the file (`latte.c:512-516`).
- `LiveSeatNeverForgotten`: the cache is emptied only of a token whose seat is
  gone or whose licence has ended. One thread, and answers that come from the
  server (no malformed ones).
- `AcceptedWithinGrace`: whatever renewals, processes, crashes and lost messages
  do, a token is accepted at most its grace period after the release or
  revocation of its activation.
- `RenewalEnds`, `CallsReturn`, `Recovers`: liveness.

Of `Exchange`:

- `AnswersAreOutcomes`: the client reads the very outcome the server decided on.
- `LicenceLostOnlyToAVerdict`: which pages cost a licence. `status_error` takes a
  404, a 403 and every other 3xx or 4xx but 401, 409 and 429 for the server's word,
  and `renew_thread_fn` empties the cache of it; a success that is not JSON, a 5xx
  and a timeout never do.
- `OkMeansReleased`: no page makes `latte_deactivate` forget a seat that is held.
- `TimesAreRight`: the times that are told are the instants that were named.

Of `Setup` and `Verify`:

- `SharedCache`: two processes of a user end up with one file, whoever creates its
  directory, as long as no other directory appears between their searches.
- `RightMachine`: a copy that failed never makes the machine another one.
- `TypoOpensNoHandle`: which mistyped app IDs pass the checksum. Neighbours that
  are swapped are always found; one wrong character is missed only where it counts
  the same: one outside the alphabet for 0 and, at every other place, one 16 further
  on in the alphabet.
- `KeyIsRecognised`: `latte_activate` answers from the cache for the licence whose
  key or alias was typed, and for no other.
- `EntitlementsAreSigned`: whatever copies fail, what is granted is granted by some item
  of that name, and a limit fits an `int64_t` and is some item's, to half the distance
  of two doubles: the signed number itself up to 2^53, and perhaps a neighbour beyond (a
  signed 2^53+1 is answered as 2^53, and 2^63-1, which becomes 2^63, is dropped). The
  first usable item of a name decides unless its own key could not be copied. If it could
  not, a later item of the name decides: of `{"a": false, "a": true}` the second may then
  grant `a`. While there is a list, no boolean and no whole number up to 2^53 is missing
  from it, though its key may be.

### Bounds, and why they are enough

- `MaxTime` 2 to 5 ticks, `GracePeriod` 1 to 3 (3 in violation runs only): in `refusals`,
  `two_threads` and `everything_ends` the clock passes the grace period of the first
  token, so expiry, refusal and renewal after it happen; these check what is about the
  end of a token. `one_process` and `exchange` stop at its last second: their
  properties are about who holds and writes what. `LATTE_MAX_RENEWAL_SECS` is 1, and
  0 where a renewal is to be possible from the first instant; `LATTE_MIN_RENEWAL_SECS`
  1 (0 in `everything_ends`, where the clock stops at its bound and a renewal has to be
  possible after that).
- `MaxAid` 2 activations: an activation, its release and a successor; 1 where the
  run is not about successors.
- `MaxLate` 1 request travelling without its caller, 0 where the run is about something else.
- `Pages` 200, 302, 403, 404, 409 and 511: one of each class that `status_error`
  tells apart and that a portal or proxy uses. `Stamps`: none, a leap day west of
  Greenwich and a New Year east of it; `MCExchange` also compares the closed form with
  a calendar counted day by day from 1970 to 2100.
- `setup`: `MaxSettings` 2 calls of setters (the second takes back the first),
  `MaxChanges` 1 directory that appears, `MaxFiles` 1 file that is written, which is
  enough to be recognised or not. `KeyBuffer` is 6 for 64, so that a key that does not
  fit is short; a key segment keeps its 32 characters. App IDs: one that exists,
  slips at both ends of the data and in the checksum, swapped neighbours, a wrong
  length, a wrong prefix.
- Two threads, two keys, two processes: the properties speak of pairs. No passing run
  of `Sdk` has two processes: what holds of them is proved (section 4), and what does
  not is `release_races_process`.
- `two_threads`, `one_process` and `setup` permute threads, keys and handles: they
  check safety only, and `HandleOf` is fixed by every permutation of the threads.
  `cache_file` permutes inodes and writers.
- `token_life`: the dates 0 to 11 around a grace bound of 3, every claim also
  missing or of the wrong type, both sides of every comparison. One defective part
  at a time, plus every combination of daily window and token date. Entitlements: no
  claim, and up to two items of one name or two. The double has `Significand` 4 for 2^53
  and the `int64_t` ends at 8 for 2^63, with literals in halves (`Unit` 2), so that each
  case happens within two digits: exact, fractional, rounded to a whole number, rounded
  to another one, rounded into the range and out of it, infinite.
- Deadlock is checked everywhere. A run never deadlocks because a new call can
  always be made.

### Fairness

`Fairness` in `Sdk` is weak fairness of three things: a call that has begun, the
renewal thread, and a network call (answer or timeout). The first two are an
operating system's scheduling, with one caveat: a mutex grants access fairly enough
that a waiting thread proceeds, which holds because the critical sections end and
no thread can hold the lock for ever by coming back (a handle renews once per
`LATTE_MIN_RENEWAL_SECS`). The third is `CURLOPT_TIMEOUT` (`client.c:93`). No
fairness is assumed of the server, of the application making calls, or of time.
`Recovers` states what it needs in addition in its own hypotheses: the application
keeps calling `latte_check`, and failures end.

## 4. What is proved

For any sets of handles, threads and keys, any faults, any bounds:

- `SdkProofs!TypeCorrect`. The invariant is `Shape`: `TypeOK` and `Locals`, which
  says that each place in the code has the locals its next step reads (a licence
  after the load, a request while waiting, a token before a save). Without
  `Locals`, `TypeOK` is not inductive: the next step would read fields of
  `NoToken`.
- `SdkRenewalProofs!OneRenewal` and `JoinIsImmediate`. The invariant adds `Baton`
  (the flag is set exactly while one thread, application or renewal, carries the
  renewal, and it is the only one) and `FreeAlone` (nothing else runs on a handle
  that is being freed). The argument: `TryRenew` takes the baton with the flag;
  the starting thread hands it to the renewal thread or drops it with the flag;
  the renewal thread drops it with the flag as its last act, so whoever takes it
  next finds that thread ended.
- `SdkLeaseProofs!GraceBound`, that is `AcceptedWithinGrace`. The invariant
  `LeaseInv` says of every token that somebody holds (the file, a call's locals, an
  answer, a renewal thread) that it was issued in the past and not after its
  activation ended, and of the server that an activation ends once (`ServerSound`).
  A crash, a lost answer or a race of two processes only moves or drops tokens
  (`Moves`), the server issues only for live activations (`OutcomesSound`), so what
  `ll_license_is_valid` accepts ended at most a grace period ago.
- `SdkRenewalProofs!OwnWrites`, that is `RenewalWritesOnlyItsOwn` for one handle and
  any number of its threads: both API steps that write the file take `renew_mu`.
  The hypothesis `OneHandle` is necessary, see `release_races_process` below.
- `SdkRenewalProofs!FlagIsCurrent`, that is `RenewFailedIsCurrent`, for one handle and
  any number of its threads. The invariant `FlagInv` adds that the flag is down when
  the renewal thread is about to empty the cache: the one write of the file that does
  not take it down itself, `RenewLock` having done so before.
- `SdkReleaseProofs!ReleaseHolds`, `SeatsAreKept` and `GraceIsItsOwn`, that is
  `ReleaseIsFinal`, `LiveSeatNeverForgotten` and `InGraceIsOfThisLicence`, for one handle
  called by one thread (`OneCaller`), its renewal thread running beside it. With two
  calling threads an activation can bring back or overwrite what a release is about
  (`release_races_activation`). The argument has two layers. For any threads and
  processes, `OwnInv` adds to `LeaseInv` what each party holds and has been told: a token
  that anybody holds is that of its key's activation or of one that has ended
  (`HeldOwned`); the answer to a release or a renewal is about the activation that was
  asked for, and "released" means ended (`CallSound`, from `OutcomesTell`,
  `RenewerSound`, `ReleaserSound`); what has been forgotten had ended
  (`ForgottenEnded`). For one calling thread, `SeatInv` adds that the licence a call
  works on is the cached one, unless the cache has been emptied, and that no token
  `latte_activate` has been granted is of a forgotten activation (`ThreadSound`). Why a
  renewal thread empties the cache is a third invariant: whatever it `Blames` had ended,
  or the licence had (`ExcuseInv`). `SeatsAreKept` needs answers of success that carry
  their token, `GraceIsItsOwn` saves that succeed.
- `ExchangeProofs!NetworkIsFaithful`, that is `AnswersAreOutcomes`, and
  `ExchangeTypeCorrect`. `ReadingIsTheReply`: for every outcome of the server and every
  answer by which it can be said, the client reads the outcome back; so `Respond`
  is `Serve`, and the other steps are `Sdk`'s own. The invariant is `Shape` of
  `SdkProofs` with the types of answers and machine calls.
- `ExchangeProofs!OkIsReleased`, that is `OkMeansReleased`, for any handles, threads,
  keys, faults and pages, and `ReleaseHoldsOverHttp`, that is `ReleaseIsFinal` of `Exchange`
  under `OneCaller`. Both invariants of `SdkReleaseProofs` carry over: a step of
  `Exchange` is one of `Sdk` or a page (`ReadingIsTheReply`), and a page tells nobody
  `OK` (`InterceptRefuses`), so it cannot make anybody sure of what is not so.
  In the same way, for any handles and threads, `GraceBoundOverHttp` and
  `OneRenewalOverHttp`: pages neither stretch the grace period nor start a second renewal.
- `ExchangeProofs!LossesAreAccountedFor`, that is `LicenceLostOnlyToAVerdict`, under
  `OneCaller`. The invariant `AccountInv` follows a refusal from the answer to the
  emptied cache: as long as a renewal thread `Blames` an activation, that has ended, or
  the licence has, or the remembered answer is a page taken for a verdict, or an
  incomplete success of the server (`RefusalsAccounted`, `PageIsAVerdict`); and the
  answer is remembered until the renewal ends.
- `ExchangeProofs!TimesAreInstants`, that is `TimesAreRight`, from
  `CivilDays`: the closed form of `days_from_civil` counts the days of
  the Gregorian calendar, for every year, month and day (`OneDayLater`: following
  days have following numbers). The cases are the months; `Eras` and `LeapDay` say
  how the 400-year eras and years that begin in March line up with the leap rule.
- `SetupProofs!CacheIsShared` and `MachineIsTheOneAskedFor`, from the invariant
  `SetupInv`. The search for a directory asks three questions, whose answers depend
  only on `parents \cup made`; a `mkdir` leaves that union as it was, since it creates
  only what could be created. So a search that began and ended in one epoch ends with
  `Choice`, whoever else was searching (`SearchIsSteady`). For the machine ID: until
  the fingerprint is made the config holds what was asked for or is marked as failed,
  and `latte_new` goes on with none that is marked (`ConfigIsAsked`).
- `SetupProofs!SetupTypeCorrect`, that is `SetupTypeOK`, from `SetupInv` and `OpenedInv`,
  which adds that a handle past the parsing has a key segment with a valid checksum,
  and one past the search a directory that exists.
- `SetupProofs!TyposAreRefused`, that is `TypoOpensNoHandle`, for app IDs of any length.
  `TyposAreCaught`: where two texts agree the loop adds the same to both sums
  (`SameTailSameSum`), so after a slip they differ by what it weighs (`TurnDifference`);
  and either of the first two characters of a checksum tells the sum modulo 32
  (`ChecksumTells`), so a slip within the checksum leaves one that tells.
- `SetupProofs!KeysAreRecognised`, that is `KeyIsRecognised`, for texts of any length.
  `Readings` says what a text spells without the loop: an increasing choice of places
  that leaves out just the separators. `ReadingIsCopied` and `CopyIsReading` say that
  the loop of `ll_normalize_key` copies the characters of the reading, and
  `LikenessIsFolded` that `ll_sanitize_key` folds exactly the characters that look
  alike. Both directions need room for one character more (`LicencesAssumption`): a
  key of exactly 63 characters would be recognised in every longer text that begins
  with it.

  The last two are inductions over a text. The library's induction theorem cannot be
  instantiated with an operator, but with a set it can: `Counting` says, from
  `WellFoundedInduction`, that a set with 0 and the successor of each of its members
  has every natural number, and the loops are recursive functions, not operators.
- `AtomicFileProofs!Invariance` and its consequences `NeverPartial`, `OwnTemp`,
  `Types`, `NothingLeftBehind`. The invariant: named and open files are whole,
  temporary files have one owner, a load's size is its file's size, and a dead
  process's file keeps its name.
- `AtomicFileProofs!Refinement`: every step of the file system is a step of
  `CacheRegister` or invisible to it. A save takes effect at its rename, a load
  looks when it opens the file.
- `VerifyProofs!Lives`, `DailyKey`, `TooOldUnreachable`, `Formats`, `Signatures`, `Types`. The
  invariant `ReadInStep`: the verdict is that of the present time, and an accepted
  token was accepted at some time past. `TooOldUnreachable` rests on
  `LATTE_MAX_GRACE_SECS <= LATTE_MAX_AGE_SECS` (`constants.h`: 90 and 365 days). `Signatures` says of every claim and
  every literal what `EntitlementsAreSigned` does, for any format of floating point
  whose spacings are powers of two without a gap (`DoubleAssumption`): `Rounding` misses
  by half a spacing at most, and the spacing of a literal is the finest it fits
  (`FinestSpacing`), so whole numbers that fit the spacing 1 come through (`PlainDecodes`);
  `CopiesAreParts` says what failing copies leave.

The assumptions are the `ASSUME`s of the modules: types of the constants; threads
and handles being different names; for the file that `Nothing`, `Garbage` and
`NotReading` are no records; and, in `Setup`, what the issuers of app IDs and licences
keep to (`IssuedAssumption`: a key segment over the alphabet with a valid checksum;
`LicencesAssumption`: native keys over the alphabet, none of them another's alias, both
shorter than 63 characters) and what it is that a text means (`TypedAssumption`: the key
it spells). TLC evaluates them in every run.

**Model-checked only.** The liveness properties `RenewalEnds`, `CallsReturn` and
`Recovers`: temporal proofs under fairness and `ENABLED` are out of the prover's reach.
Every invariant and action property of a passing run is stated by a theorem; those
that need `OneHandle` or `OneCaller` say so, and section 6 shows why they do.

## 5. What is not modelled

- The clock set back. `last_renew_attempt` in the future suppresses renewals.
- A power failure: `file.c` does not `fsync`, so a renamed file may be empty after
  one.
- The instant between `pthread_create` and `valid = 1` in `ll_thread_spawn`.
- Failing allocations, except those of a save, a spawn, an entitlement and those on
  the way to a handle. In `client.c` one ends a call with `NETWORK` whatever the server
  did, as a lost answer does; `client.c:21-23` does not look whether its copies failed.
- Third parties that answer with JSON: a success with a JSON body and no token costs
  the cache, as `client.c:156` has it, but here only the server sends it. Pages have no
  JSON.
- Claims that are dates or lengths with a fraction (`crypto/jwt.c` truncates them), or
  beyond 2^53 (beyond 2^63 its cast is undefined); the two clock readings of one verification and validation
  (`latte.c:537-549`) at different seconds; a token without activation id or key, on
  which a renewal is given up before the join (`latte.c:273-278`).
- What no property covers although the model has it: an activation that could not be
  saved, which is answered `OK` and is not in the file (`latte.c:513`); an answer to a
  renewal that is older than the token it replaces (`latte.c:252`); the in-grace flag
  when a second calling thread switches the activation between the load and the flag's
  reading (`latte.c:80`). `PROJECT.json` says why.
- The text of requests and answers: machine names, reasons, messages, fingerprints,
  metadata. A machine's name is only sent along; of its setter the failure is modelled.
- An application that frees a handle while a call of its own is in progress, or that
  changes its working directory while a multi-instance handle is open.
- JSON, base64, hex, SHA-256 and Ed25519 themselves; in `Setup` the fingerprint is the
  tuple of what is hashed. The Windows and macOS variants of `appid.c`, `machineid.c`
  and `thread.c`.
- The components that `PROJECT.json` lists as `not_modelled`: `base64url.c` (bits),
  `mem.c` (unused), the C++ wrapper (forwards every call), tools, tests, cJSON.

## 6. Where code and documentation disagree

Four runs are expected to end in a violation.

- `expired_status`: `latte.h:269`, `README.md:398` and `README.md:689` say that
  `latte_check` returns `LATTE_ERR_LICENSE_EXPIRED` once the grace period has
  elapsed or the licence has ended. It returns `LATTE_ERR_NOT_ACTIVATED`
  (`latte.c:553-555`); the one line that could say otherwise, 539, is never
  reached because `ll_verify_activation_any` sets only `INVALID_LICENSE`.
- `unsaved_release`: `latte.h:333-335` says that after `latte_deactivate` has
  answered, `latte_check` returns `LATTE_ERR_NOT_ACTIVATED`. If the file cannot be
  written the call returns `LATTE_OK` all the same and the token stays.
- `release_races_activation`: the comment at `latte.c:580-581` says the cache is
  cleared only once the seat is released. `latte_deactivate` clears whatever the
  cache holds by then, such as the token of a `latte_activate` that another thread
  has completed since.
- `release_races_process`: `README.md:759` says a renewal in flight during a
  release never writes a token back. Another process does not hold this process's
  `renew_mu`, and can empty the file between `holds_activation` and the save.

Three more have no run of their own. The comment at `latte.c:463-464`, and
`latte.h:251-252`, have `latte_activate` refuse a key that is implausibly long; the
buffer holds 63 characters, so `normalized_len > 256` at 466 is never true and a
longer key is sent cut off (`NormalizeKey`, whose `KeyBuffer` makes the case happen in
`setup`). And a key switched while saves fail may be handed out as in its grace period
because of the old activation, see `InGraceIsOfThisLicence` above. `entitlements.h` has
only whole numbers survive; a literal with a fraction too fine for a double, such as one
beyond 2^52, is rounded to a whole number and survives (2.5 in `token_life`, whose
doubles are coarse).

## 7. Plan

Done: every component but those listed as `not_modelled`.

1. `Lease`: what the SDK promises the application, abstractly (a seat, a lease that
   ends, a release), refined by `Sdk` with one handle.
2. Theorems: the refinement of `Lease`.
3. `Base64Url`, as operators against the inverse of encoding.
