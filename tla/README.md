# Golite: a TLA+ model of its sessions, accounts, migrations, routing and requests

Golite is a Laravel-like web framework in Go. This directory holds TLA+ modules of its core, the TLC
configurations that check them on small instances, and proofs that TLAPS checks. Paths below are
relative to the repository (`src/` in `PROJECT.json`).

## 1. The system

A `Kernel` (`app/Http/Kernel.go`) is an `http.Handler`: net/http calls `ServeHTTP` on one goroutine
per request, and every request runs through global middleware, routing, the route's middleware and
its handler as one recursive chain (`Context.Next`). Requests share the session manager, the
database, the log files and the tables filled at boot; everything else belongs to one request.

| Component | State | Operations | What makes it correct |
|---|---|---|---|
| Session manager, locks, handlers (`app/Http/Session`) | records by ID (map or files), one mutex per ID | Load, Save, Lock, Gc | a session whose requests all hold the lock loses no update and keeps its replaced IDs dead; a session stays with its client |
| StartSession, SessionBlock (`app/Http/Middleware`, `app/Http/SessionBlock.go`) | the request's session, original ID, queued cookie | before and after phases, lock, reload | the cookie names the session that is saved; every mutex is released |
| Session values and flash (`Session.go`) | values, old and new flash marks | Put, Forget, Flush, Flash, Now, Keep, Reflash, ageing at Load | a flashed value lasts one request, a plain one stays |
| Guard (`auth`), AuthController, auth middleware | rows of `users` and `password_reset_tokens` | register, login, logout, remember, forgot, reset | what is used, replaced, cleared or expired is never accepted again |
| Migrations runner (`database/migrations`), artisan | tables, tracking rows | migrate, rollback | a failure tears only its own migration; last in, first out; whole batches |
| CSRF middleware (`VerifyCsrfToken.go`, `Session.Token`) | a token in the session, a cookie, the pages sent | check, generate, sync | nothing changes without a token sent to that browser; token, session and cookie agree |
| Kernel: routing and pipeline | route table | add, match, dispatch, terminate | the first matching route; a stop stops; cleanup always |
| Groups, named middleware, controllers' rules (`Kernel.go`, `Controllers/Controller.go`) | lists of names, sharing arrays | group, extend, exclude, alias, expand, sort | a route runs what its own calls asked for, in priority order |
| Resource and singleton registrars | routes they added | Only, Except, Shallow, Creatable | exactly the routes of the last call |
| Context, input, uploads | the request, its parsed body, temporary files | Next, Input, Merge, Validate, File, cleanup | everybody reads the same body; temporary files go |
| Method override, trimming, empty strings | the request's method and input | per request | validated is what the controller gets |
| Recover, exceptions; proxies, hosts, roles, audit; responses, views, cookies | none between requests | per request | - |
| Container, injection, providers, configuration, bootstrap | filled at boot, then read | Bind, Make | - |
| Validation (`validation`) | none | rules, Validate | an accepted field has what its rules say |
| Encryption, hashing | none | pure functions | cryptographic |
| Logging | files, one mutex per channel | Write, prune | keeps the last days |

How they interact: StartSession calls `Manager.Load` before, and `Manager.Save` after, everything
nested in it; `.Block()` is nested inside and loads and saves again under its lock; handlers change
the session through `Context`, which rewrites the queued cookie; the CSRF middleware, between
StartSession and `.Block()`, puts a token into the session that the latter may then replace, or
answers the request itself, as auth and role may; AuthController combines a database change with a
session change; Recover, outside StartSession, turns a panic into a response after the unwinding has
skipped every save. `artisan` is a second program on the same database.

What is hard to test here: interleavings of requests on one session (the load is outside the lock,
responses may leave before the save, a timed-out waiter goes on unlocked, a request turned away before
`.Block()` saves all the same), file writes seen half-way,
panics and restarts between two steps, `auth` working without transactions, MySQL committing DDL on
its own. `PROJECT.json` lists each hazard at its line.

## 2. The modules

| Module | Models |
|---|---|
| `SessionEngine` | StartSession, SessionBlock, Manager, lock registry, memory and file handlers, Context's session calls |
| `FlashData` | one `Session`'s values and flash marks over successive requests |
| `SerialSession` | what the lock of `.Block()` promises: requests that read and rewrite a session one at a time |
| `SessionRefinement` | the mapping under which `SessionEngine` implements `SerialSession` |
| `CsrfSession` | the CSRF middleware, `Session.Token`, StartSession and `.Block()` around them, with records or with the stateless cookie driver |
| `Accounts` | `auth.Guard` on one account, statement by statement |
| `Migrations` | `migrations.Runner` in artisan processes |
| `Pipeline` | one request in `Kernel.ServeHTTP`: the handler chain, dispatch, Recover, terminate, uploads |
| `Router` | the kernel's route table under registration, matching, names and URLs |
| `MiddlewareStack` | groups, routes and named middleware at boot, and which middleware a route then runs |
| `Validation` | the built-in rules and the Validator, as operators |
| `RequestInput` | one request's body through method override, cleaning, CSRF check, Merge and Validate |
| `MC*` | small instances for TLC (`MCSessionEngine` also of the refinement, `MCRequestInput` also of `Validation`) |
| `*Proofs` | the theorems about each |

Operators whose comment begins "Mutant of" are variants of the code that the properties must tell
from it; they are not part of any specification.

### SessionEngine

One process per request; `pc[r]` is where its goroutine is. A step is one access to something that
requests share. `Started` is `Handle` of StartSession up to `next()`, and what csrf or auth then put
into the session; with `StartSession` the request goes on, to the lock if its route has `.Block()`,
and with `TurnedAway` one of them answers it (419, 401, 403, a redirect), so that the after-phase
saves what was loaded outside the lock. Which routes have such middleware in front is their field
`guarded`. `AcquireLock`, `GiveUpLock` are the two
exits of `lockRegistry.acquire`; `Reload` the second `Load`; `HandlerReturns`, `HandlerPanics` what
the route's handler does with the session; `DestroyOriginal`, then `WriteMemory` or `TruncateFile`
and `FillFile`, are `Manager.Save`; the encoding of a value that was put may fail (`EncodeFails`) and
leave the store alone; with the file handler the removal may fail (`DestroyFails`) and so may the
write, before or after the truncation (`WriteFails`), and nobody is told of any of these; `Unwind`
is the deferred unlock. `Deliver` is the moment the
headers reach the client: any time after the handler, so also before the save. `Arrive` picks the
route and the cookie the client holds at that moment. `Gc` and `Restart` belong to nobody.

Abstractions: a session's data is the set of requests whose update it contains; an ID is named by
the request and the place that generated it, since random 256-bit IDs do not repeat; the handler's
work is one step, as it is on the request's own copy. `Gc` may take any records, which includes those
that are really old, but none that is being written (`BeingWritten`: its time is now). `Load` treats
an unknown ID, an empty file and a torn file alike, as the code does. The stateless cookie driver,
which has neither lock nor record, is in `CsrfSession`. A second StartSession on one request is not
modelled.

`unlocked` is history: the IDs that some request has worked on, or saves, without holding their
mutex: on a route without `.Block()`, past its timeout, or turned away. What `.Block()` is for
(`LockedCopyIsCurrent`, `NoLostUpdate`, `RetiredStaysGone`) is stated of every other ID, in whatever
mixture of routes: the code does lose updates of those in `unlocked`, and the properties say that it
never goes beyond them.

### SerialSession and SessionRefinement

`SerialSession` is a store in which a request reads and rewrites a record in one step (`Update`), or
takes the data of an ID away, which ends that ID (`Take`), and puts it under a new one (`Publish`);
records may disappear, and nothing else happens to them. `SessionRefinement` maps the engine to it:
a record that is whole counts as it is, one that is torn or just destroyed counts as what the holder
of its mutex would bring back, and the second half of a change of ID is what the request still
carries. `ImplementsSerial` is that specification, with initial states and all. The promise is one
per session: `loose` are the IDs of which nothing is promised any more, mapped to `unlocked`, and
`Abandon` is the step at which a request begins to work on one without the lock. Every other session
keeps its promise beside it.

### CsrfSession

One process per request, with two goroutines that call `Session.Token`; of a session only the token
is kept, and a token or an ID is named by the request and the place that generated it. `Arrive` is
the client's request with any token it knows or another client's, StartSession's load and the CSRF
check; `Reload` is `.Block()` before its `next()`, `Handle` the handler's change of the session;
`TokenRead` and `TokenStore` are the two halves of `Token`, under the read and the write lock;
`Respond` writes the headers, `Save` and `SaveFails` are the after-phase of whichever middleware
saves, `Receive` and `GiveUp` what becomes of the response, `Lose` an expired record. The mutex of
`.Block()` is left out: a waiter may go on without it, so nothing that can happen here is excluded
by the code. `stateless`, chosen at the start, is the driver: with the cookie driver, `Load` decodes
the cookie and only a response whose headers are still open when StartSession saves carries the new
one.

`given` is history: what each client was sent. `paired` is history as well: what of the client's
XSRF-TOKEN and page is due to match its session; `spoiled` marks a response that promises nothing of
the kind, for the reasons in the comment of `TokenRoundTrip`, which are divergences listed below or
documented limits. A reload is such a reason only if the store did not have the session with its
token (`Unsaved`); what was saved has to come back. A change of ID is none: the token moves with it.
The Context of a request that is over is forgotten.

### FlashData

The keys of one session and their two sets of marks; `SaveAndLoad` is the encode of one request and
the decode and `ageFlash` of the next, `PanicAndLoad` a request whose session is not saved. `due`
records what the documentation promises for each key and is not part of the code. Requests come one
at a time; what overlapping requests do to a session is SessionEngine's subject. Keys only matter by
identity, values only by presence. `Increment` and `Push` store under a key as `Put` does.

### Accounts

One account. Each GORM call is a step, as Guard opens no transaction; the first statement of an
operation is folded into the request's begin. GORM's `Save` (every column), `Update` (one column),
`First`, `Create` and `Delete` (by primary key), and MySQL's unique keys, are external. A secret is
named by the request that made it; hashing is equality of names. `DatabaseError` is a statement that
fails after the first: Login, Logout and the deletion in ResetPassword ignore that. `Expire` lets
the hour of a reset token pass. `revoked` and `late` are history: what must not be accepted any more,
and which requests presented such a thing when they began. A request that began before the
revocation may still finish. `SpentTokenRefused` speaks of
histories without a failed statement and `ClearedRememberRefused` of those in which no reset has
saved its copy of the user; what happens otherwise is under "Known divergences".

### Migrations

One process per artisan command. Migrations are numbers in the order of their names; each command
runs a build with its own set of them, as branches have. A migration creates one table: creating it
twice fails, dropping a missing one does not (`DROP TABLE IF EXISTS`). On MySQL, the one driver
there is, both commit the transaction that the Runner opened, so `Up` and `Insert`, `Down` and
`Delete` are two steps each. `overlaps` is history: whether commands of the same kind, and of
different kinds, have ever run at once, which the code does nothing to prevent; `torn` is the
migrations at which a command failed between its two steps. `LastInFirstOut` and `RolledBackWhole`
are about commands run one by one. `TablesMatchRecords` allows either kind of overlap: of two
migrates, CREATE TABLE stops one, and a migrate and a rollback never work on the same migration. It
excludes both kinds in one history, where it is false: a migrate that read the rows before another
one wrote them can create the table that a rollback has dropped and is about to forget.

### Pipeline

One request. `stack` is the Go call stack of the recursive chain, a frame per handler with the
number of times it called `next`; `chain` and `index` are `Context.handlers` and `Context.index`.
What a middleware or handler does between two steps is chosen freely: call `next`, return without it,
take or store an upload, panic. `DispatchRoute` splices a route's middleware into the running chain.
A panic unwinds to the innermost Recover on the stack, or kills the request. A file is known by its
number and a place: its temporary path, or the n-th path that StoreAs moved it to; two files are never
stored at one path (`Store` draws random names). net/http's own recovery of a crashed handler is the
end of the model. Responses and their order are left out.

### Router

What `routes` packages do at boot, call by call; the server reads the table only afterwards. A route
is a record that stands for its pointer: `owner`, `action` and the `round` of the call that built it
are never the same for two of them. A URI is a sequence of segments, each the set of words it
accepts, so `Fits` is what the compiled regular expression decides, for constraints that do not span
a slash. `Kept` is the loop that appends to a new slice what it keeps of another, in `removeRoutes`,
`allowedActions` and the patterns alike. `DeclarationAssumption` types the declarations and says
that a group's prefix has no optional parameter, which the developer guide asks for; `Where` and
`Name` are chained to the call that adds the route, as they are in the code's examples. `BuildUrl`
is `buildURL`, which writes values as they are, and `Requested` what net/http makes of the result
before the table sees it: `Cut` are the words with a "?" or "#" and `Unescaped` decodes "%". The
words of the instance include one of each kind. Registrars keep their fields in `registrar`;
`wanted` is history. The 405 and fallback answers to a request are in `Pipeline`
(`DispatchNothing`); `Match` says which it is.

### MiddlewareStack

What the calls at boot make of the lists of middleware names, and what `resolveRouteMiddleware`
makes of these for a request. A Go slice is a view of an array (`Slice`, `arrays`): `Fresh` copies,
`Extended` is `append`, which writes into the array if there is room, so that the model has the
aliasing that the code must avoid. `NewGroup`, `SubGroup`, `AddRoute`, `Middleware`,
`WithoutMiddleware`, `WithMiddleware`, `MiddlewareGroup`, `AliasMiddleware` and
`ApplyControllerMiddleware` are the calls; `Expanded`, `Excluded`, `Resolved` and `Stack` the
resolution. `asked` is history: the specs each list was given. Exclusions are compared as
`WithoutMiddleware` got them, with their parameters (`ExcludedNames`; see "Known divergences"). The
group that a chained call is made on is any group so far. A middleware that is asked for twice runs
twice, since nothing removes duplicates.

### Validation and RequestInput

One request from the first global middleware to the controller, in the order of `public/main.go`:
method override, trimming, empty strings, CSRF check, any merges, Validate. A value carries its
dynamic type (string, `[]string`, number, bool, list, map, nil), since that is what assertions in
the code decide on; a string is a member of `Text`, whose table `About` says what `TrimSpace`,
`ParseFloat`, the regular expressions and the like say of it. net/http is external: it parses a body
once, a url-encoded one only for POST, PUT and PATCH. `Validation` is the package `validation`, rule
by rule; `Extend` is the constant `Custom`, and the wording of messages is left out.

## 3. The runs

Bounds: two requests of one client are enough for a race on one session, in `session_blocked` with
file writes in two steps, any failing write, a restart and a sweep, and a route of each kind
(`BlockedRoutes`: `.Block(0)` behind csrf, `.Block(0)` with a handler that may panic, a timeout, no
`.Block()`), so that every pair of them meets; three would show a waiter behind a waiter and a chain
of replaced IDs, and for those the theorems stand, which hold for any number. `session_clients` has
three requests, two of one client and one of another, and no sweep. One restart, since each run asks
about one crash between two steps; `session_live` has none, as a crash only ends requests. Requests
are handled once each, so their number is the bound on everything else. Accounts has four requests
of any kind (a login, a forgot, a reset and the use of what they left) and one failing statement.
Migrations has four commands on three different builds and two failures, enough to fail, retry and
roll back. Pipeline has two global stacks, one with Recover second, three routes, two uploads stored
up to twice, one failing copy; a middleware calls `next` at most once, as the code's documentation
expects (see "Known divergences"). Router has five calls on four registrars and two plain routes:
enough to declare two resources of the same name and re-register one twice. `middleware` has five
calls, up to four groups and two routes: a group, two clones of it and an append to each, which is
what it takes for two slices to meet in one array, or groups that contain each other. `csrf` has two
requests of one browser, which overlap or follow each other, one of another, and one loss: a token
is made, handed out, lost or moved with its session, and used. `input` starts from thousands of
requests (every combination in `MCSent`) and goes through each completely, with up to two merges, so
that the order of two shows. Request symmetry is used for safety only.

| Run | Asks | Result |
|---|---|---|
| `session_blocked` | patient, impatient, unblocked and guarded routes on files, failing encodes, writes and removals, panics, a sweep, a restart | cookies follow sessions; no stale copy, lost update or resurrected ID outside `unlocked`; implements `SerialSession` |
| `session_clients` | two clients, possibly with the same foreign ID, unblocked and impatient routes, panics, a restart | types; no data crosses; mutexes have owners |
| `session_live` | a mixture of all routes on files, failing writes, weak fairness | every request ends |
| `csrf` | forms, token fetches, blocked routes, logins and logouts of two browsers, both kinds of driver | only with a token of one's own; one token per request; the next form is accepted |
| `flash_cycle` | any calls on two keys | one request for flash, for ever for plain |
| `flash_reflash` | Reflash, Keep | **violated**: the value is aged away |
| `accounts_secrets` | four requests of any kind, a failing statement | replaced, used, cleared and expired secrets are refused |
| `migrations` | commands of three builds, overlapping or not, two failures | only a failed migration is torn; last in, first out; whole batches |
| `pipeline` | any behaviour of middleware and handlers | a stop stops; who ran is terminated; Recover recovers; no temporary file, no lost upload |
| `router` | any five registering calls | exact routes, static before parameter, local effects, live names, URLs that match unless a value needed escaping |
| `middleware` | any five configuration calls, circular and self-named groups | lists stay apart; a route runs nothing that was not asked or is excluded, all that was asked and no exclusion mentions, in priority order |
| `input` | the registration form, well and badly filled in, sent in every way | one reading of the body; input is what was sent; the controller gets the text that was validated |

The violation is described under "findings" in `PROJECT.json` with the sentence of the repository
that it contradicts.

Fairness is stated once (`FairSpec` of SessionEngine): weak fairness of each request's own steps. Go
runs every runnable goroutine, and `TryLock` is polled, so a step that stays possible is taken. A
mutex taken with `Lock` has in principle to be fair between waiters as well; with finitely many
requests each of which ends, weak fairness suffices. Nothing is assumed of clients (`Arrive`,
`Deliver`), of `Gc` or of `Restart`. Handlers are assumed to end: a handler that hangs holds its
mutex, in the code as well.

Deadlock is checked in the runs of sessions, accounts, migrations and the pipeline: the only states
without a step are excluded by `Quiescent`, `Answered`, `Idle`, `Over` and the like, which hold
exactly when everything has been handled. Registration in `router` and `middleware` simply ends, as
does the one request of `input`; no process of `csrf` waits for another.

### Known divergences

Disagreements between the code and its own words that were met while modelling and are not runs of
their own; the properties above are stated so that they hold beside them.

- A new visitor takes the lock: StartSession always records an original ID, while
  `app/Http/SessionBlock.go:69-71` says that a brand-new session skips it.
- `os.WriteFile` is not atomic: a process that dies inside it loses the session, and a Read before
  the lock can see an empty file, so that one of two blocked adds does not land
  (`docs/sessions.md:325`).
- `Flash` is visible in its own request, as `docs/sessions.md:179` says and `docs/sessions.md:191`
  denies.
- A request that csrf, auth or role turns away on a `.Block()` route never comes to the lock:
  StartSession saves the copy it loaded (`app/Http/Middleware/StartSessionMiddleware.go:75-81`, after
  `VerifyCsrfToken.go:69` or `AuthMiddleware.go:36-38`) over whatever the holder of the mutex has
  written, or under an ID that the holder has replaced. `docs/sessions.md:299-307` names only routes
  without `.Block()` as a race, and `app/Http/SessionBlock.go:16-26` takes the save to lie under the
  lock. The model has it (`TurnedAway`); the session is then in `unlocked`.
- Without `.Block()`, a request that loaded a session before another one replaced its ID saves it
  under the destroyed ID again (`app/Http/Session/SessionManager.go:175`, where `155-157` says that a
  stale ID cannot be replayed).
- A blocked route of a session without a token: the CSRF middleware, outside `.Block()`, generates
  one and queues it as XSRF-TOKEN, and the reload (`app/Http/SessionBlock.go:82-83`) drops the
  session that had it. Two overlapping requests of such a session likewise each generate a token, and
  the later save wins (the lost update that `docs/sessions.md` describes for unblocked routes).
- Under the cookie driver, `.Block()` reloads by an ID, which no cookie decodes to, and marks the
  session saved: the client's session is not seen and not sent back. `RegenerateSession` queues an ID
  as the cookie's value there. That a handler which writes its response loses the cookie is
  documented (`docs/sessions.md:125`).
- `docs/security-csrf.md:229-232` says that `RegenerateSession` implicitly invalidates the old CSRF
  token. It keeps all data of the session, the token too, as `app/Http/Session/Session.go:216-217` and
  `docs/sessions.md:204,243` say; `TokenRoundTrip` goes with these and with the code.
- A logout leaves the XSRF-TOKEN cookie of the emptied session; the next form fetched replaces it.
- Two overlapping resets that have both checked one token both succeed (`auth/password_reset.go:90`,
  where `docs/authentication.md:229-230` says that a used token can never succeed twice).
- The deletion of a used reset token may fail unnoticed (`auth/password_reset.go:103`).
- A reset saves the whole user as it was read, so a remember token that a logout cleared in between
  is back (`auth/password_reset.go:99`, `docs/authentication.md:204-206`).
- On MySQL, CREATE TABLE commits the transaction it runs in, so a failure between `Up` and the
  tracking row leaves a table that no row records (`database/migrations/runner.go:92-95`, where
  `66-69` and `docs/database.md:188-191` say that a failing migration's changes are rolled back), and
  the next run fails on it.
- The override header naming DELETE on a url-encoded form hides the form, its `_token` too, from
  everything behind it, since net/http no longer reads the body: the order of the readers matters
  (`app/Http/Input.go:22-24` says that it does not).
- A JSON number passes "required|min:8|confirmed" when it is at least 8 and is confirmed by the same
  number, and the assertion of the controller then makes it the empty password
  (`app/Http/Controllers/AuthController.go:40`).
- `Context.Flash` puts the input map itself into the session, of which its comment says that it
  copies it (`app/Http/Context.go:334-340`): a later `Merge` changes what was flashed.
- `WithoutMiddleware("role:editor")` excludes nothing: the name is kept with its parameters and
  compared with base names (`app/Http/Kernel.go:330`, `855-857`), while `321-322` and
  `docs/middleware.md:254-259` say that parameters are ignored. `RunsWhatWasAsked` demands nothing of
  a middleware that an exclusion mentions with parameters.
- A middleware that is contributed twice, by a group and by the route, runs twice
  (`app/Http/Kernel.go:849-876`).
- A middleware that calls `next` twice runs handlers past the end of what it wrapped: the second call
  goes on from wherever the first one stopped, also behind a middleware that stopped the chain.
- A copy that fails in `Context.File` leaves its temporary file (`app/Http/Context.go:430`).
- `Only` with an empty list restricts nothing; `Except` of a resource deletes a name that a plain
  route of the same name had before the resource took it (`app/Http/Resource.go:211`).
- `buildURL` writes a value as it is (`app/Http/Kernel.go:452-465`), and `match` sees the decoded
  path: a value with "?", "#" or "%", which a parameter accepts, is cut off or comes back as another
  one, so the URL of a name may not reach its route, or reach it with another value, where `433-437`
  speaks of a concrete URL. `UrlsMatch` is about values that a URL writes as they are.
- `/{x?}` does not match `/`, which `Route` builds for it without a value
  (`app/Http/Kernel.go:177-209`, `468-470`).

## 4. The proofs

All theorems hold for every value of the constants, under the assumptions written in the modules
(`ClientOfAssumption`, `RouteAssumption`, ... only type the constants and tell names apart) and those
that a theorem states.

*SessionEngineProofs.* `TypeCorrect` is inductive as it is.

- `LockDiscipline`: `LocksHaveOwners` is inductive given types.
- `CookieFollowsSession` needs `CookieInv`: the property itself, and that a request that has not yet
  reloaded its session still has the ID it started with.
- `SessionsNeverShared` needs `OwnershipInv`: an ID in a jar, a request or the store belongs to the
  client it was generated for, `Foreign` never has a record, and records and sessions hold only their
  owner's updates.
- `BlockedNoResurrection`, `BlockedCopyIsCurrent`, `BlockedNoLostUpdate` hold of any mixture of routes.
  They rest on `SerialInv`, which speaks of the IDs that are not in `unlocked`: from reload to unlock a
  request with such an original ID holds its mutex, so it is the only one that may write that record;
  any other ID it writes was generated by itself, and nobody else's original ID can be one that is
  retired while it holds it. `StartedSession` says what a request has when the two ways from
  StartSession part.

Its second part is the refinement: `BlockedIsSerial` is `Spec => ImplementsSerial`, without any
hypothesis about the routes.
The invariant adds to `SerialInv` that what a request is about to write is what its record holds, or
nothing after an Invalidate, beside its own update (`CopiesExact`), and that nobody's update is in
the store before its request has saved (`UnsavedUpdate`). Then every step is a step of `SerialSession`
or a stutter: the first half of a save that keeps the ID is a stutter and the second an `Update`; of
a save that changes it, the first half is `Take` (`TakeCopy` if the old record cannot be removed) and
the second is `Publish`; sweeps, restarts and failing disks are `Lose`; starting on an ID without its
mutex is `Abandon` (`AbandonStep`), after which that ID is mapped to nothing.

Its third part is about `FlashData`: `FlashIsOneRequest` and `PlainIsKept` relate each promise to the
marks (`FlashInv`): a value due in the next request is marked new and not old, one due now is marked
old, a plain one neither.

*CsrfSessionProofs.* `OwnershipInv`: every ID, cookie, record and token is with the client it was
generated for (which needs that `Load` never adopts an ID it does not know), what `Token` has
returned is the session's token (`Coherent`), and a request behind the CSRF check of a changing
route has offered a token that its client was given (`Entitled`). `HandledWithOwnToken` and
`OneTokenPerRequest` follow.

`ClientsHoldTheirToken` (`TokenRoundTrip`) is about a client between two requests whose own requests
do not overlap (an overlap ends the promise until the next form), and each step of a request can
spoil it, so `RoundTripInv` says what holds in between. A client of which anything is promised has
at most one request under way; until its response arrives the client has the cookie it sent
(`Settled`), afterwards the one that names a session yet to be saved (`InFlight`). What a request
queues always names the session it has (`QueuesItsSession`), what it has saved is that token or is
lost again (so a reload finds it, `ReloadFindsSaved`), and an ID still to be generated is in no
cookie and no session (`FreshIds`): a reload or a login therefore never meets a record of the same
name. With the cookie driver the argument is another one, since nothing is saved and the cookie
carries the token itself. `SentinelAssumption` and `CookieAssumption` only say that "none" is
neither a token nor a cookie.

*RouterProofs.* All properties of the run `router`, for any declarations, prefixes, parents, plain
routes and paths, and any number of calls.

- What `Kept` returns is a fact about every sequence. Its induction is carried out with a set of
  naturals and its least missing element, which needs no induction theorem: `KeptEmbeds` gives the
  increasing map from the entries kept to where they were.
- `RouteInv` is the types, that a registrar knows exactly its routes in the table (`OwnersInv`), that
  its fields allow what was asked for (`WantedInv`), that names stand for routes of the table
  (`NamedInv`), and that a registrar's routes are those of the picked entries of its table of actions,
  each once and in their order (`ListsInv`). The order is needed: without it nothing is known of
  which route answers.
- `TableIsExact` follows, as the entries of a table have different names. `StaticComesFirst` needs the
  order of each table (`Precedes`, checked entry by entry), and for Shallow, which moves the member
  routes and not the others, that two URIs of one length have at most one parent between them
  (`ParamsAlign`).
- `CallsStayLocal` rests on `Locality`: what a call leaves keeps its order, so the first route that
  serves a request stays the first unless one of the call's own is involved. `NamesStay` uses that
  all the routes of the call before have gone and those of a call are new, and `BuiltUrlsMatch` that a
  URL leaves out only what the pattern may, in the same order, and that the path of its request is
  that URL if every word is `Verbatim` (`VerbatimIsRequested`).

*MiddlewareStackProofs.* For any priority list, rules and lists of specs, any number of groups, routes
and calls, and any finite set of names (a program has finitely many; `NameAssumption`).

- `ListsStayApart`: `StackInv` says that each list shows what was asked of it and that an array with
  room behind some slice has that slice as its only owner, so that appending in place overwrites
  nobody. `ExtendedFacts` says what append does to the heap.
- The resolution is a filter, a concatenation and a stable sort, all written with `FlattenSeq`, a
  recursive function of the community modules. `FlatSums` gives it by its partial sums, and what
  follows is proved about these, by an induction stated with a set of naturals (`Induction`), as an
  induction theorem that takes an operator cannot be used: which elements a flattened sequence has,
  that `Kept` keeps those of the set and distributes over `\o`, that the buckets of a sort are in
  order (`SortFacts`).
- `RoutesRunWhatWasAsked` compares `Expanded`, which follows groups as the code does, with the least
  closed set of names (`Reached`). The recursion ends because the names it is inside become more, so
  the proof is by how many names are left: `Spread` says that an entry unfolds only to names that every
  closed set with its name holds, and that a name it does not unfold to is kept out by some set
  (`Avoids`), closed but for the groups being expanded. `ExpandedFacts` joins those sets into a
  closed one. `DirectInv` adds that only `Block` attaches middleware directly.
- `RoutesRunInOrder` follows from `SortFacts` and from `Rank` being the place in the list.

*AccountsProofs.* `NamesInv` says that each stored secret is named by a request that has written it
and in the right kind of operation. So the request that now writes has never been revoked, and
`PasswordInv`, `TokenInv` and `RememberInv` (the stored secret is not revoked) are inductive. The
theorems assume nothing of the requests; `SpentTokenStaysOut` and `ClearedRememberStaysOut` carry
the provisos of their properties ("as long as no statement has failed", "until a reset has saved").

*MigrationsProofs.* For any builds, number of commands and failures.

- `FailuresStayLocal` (`TablesMatchRecords`) needs `MatchInv`: table and row differ only where a command
  stands between them or has failed there (`HalfInv`). For that a migrate must not touch what a
  rollback is undoing: as long as no two of a kind have overlapped, what a migrate has pending is not
  recorded and what a rollback has to undo still is (`PairInv`), and if two of a kind have, no migrate
  runs beside a rollback. Each row has its own ID and migration (`RowInv`).
- `SerialLastInFirstOut` and `SerialRolledBackWhole` need `StackInv`, which holds as long as commands
  have not overlapped: batches ascend with IDs, migrations are recorded once, and the one running
  command works on the highest batch.

*PipelineProofs.* For any middleware, chains and number of uploads.

- `PanicsAreRecovered` needs `EscapeInv`: with Recover outermost, it is the bottom frame of every
  non-empty stack, so some Recover is always there to catch.
- `ChainsStop` assumes `MaxNext <= 1` and needs `ShortInv`: frames ascend, those below the top have
  called `next`, and once some position has stopped every frame is at or below it and has called
  `next`, so nothing new is ever entered.
- `RanAreTerminated` needs `CallsInv` (only the top call may not have called `next` yet, and nothing
  has been entered after it, so dispatch extends the chain behind all that was entered) and `RanInv`:
  `executed` is what is kept of the middleware in the chain as far as it has been entered, and
  `terminated` what is kept of the terminable in `executed` as far as it has been visited. `KeptTwice`
  joins the two. It does not bound `MaxNext`.
- `TempFilesGo` and `StoredFilesAreKept` need `FileInv`: every file that was created is tracked unless
  a copy failed, and a tracked one is on disk where `path` says until the clean-up.

*RequestInputProofs.* For any set of requests, texts, rule sets and overlays and any number of merges.
Of the table of texts it uses that trimming a trimmed text changes nothing and that "" is trimmed
(`TrimAssumption`, `TextAssumption`).

- `BodyIsReadOnce` needs `FormInv`: whoever has parsed the body did so under a method that reads it
  exactly if `BodyIsRead`, since the override can only turn a POST into another method before anything
  else has parsed, and with the header PUT or PATCH the body is read alike. `MethodInv` says where a
  changed method comes from.
- `HandlersSeeWhatWasSent` follows the input through the middleware (`CleanInv`): resolved, trimmed,
  nullified, and then as the merges made so far leave it. `MergeRight` and `MergeIfMissingRight` show
  that one more merge keeps every value right, the one by the last call that has the key and the
  other by the first.
- `ControllersGetTheText` assumes that `Extend` has not replaced `required`, `min` or `confirmed`, and
  needs `ValidInv`: what is kept in `validated` is what `Validated` gives for rules that did not fail.
  `Lookup` follows dots through maps. The input from a form has no map inside, so only a path of one
  segment finds anything (`LookupFlat`, by an induction stated with a set of naturals).

Only model-checked: `EveryRequestEnds`; liveness under fairness and ENABLED are beyond the provers used.

## 5. Not modelled

- Cryptography and hashing (`encryption`, `hashing`, `Cookie.go`, the coding of the cookie driver):
  what they promise is taken as given, a name stands for a random value or a hash.
- Responses, views, error pages and messages: formatting. When headers leave is in the models.
- Trusted proxies and hosts, the role, audit and logger middleware: comparisons of one request's
  addresses, or a line of output, with nothing kept and nothing to interleave.
- Logging: each channel appends under one mutex; which daily files are pruned depends on the file
  system and the clock.
- Container, injection, configuration, providers, `bootstrap`, `make:migration`: filled once before
  the first request, reflection, or the writing of a source file.
- Registering routes while requests are served: the application does not.

What could follow: a compositional model in which `RouteChains` of Pipeline are the results of
`MiddlewareStack` for the routes of `Router`; a login by remember cookie on a blocked route, whose
login the reload drops as it drops a token.
