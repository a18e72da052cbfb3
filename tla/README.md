# A TLA+ model of StreamRev

StreamRev is an IPTV panel: an API served by several worker processes, a
supervisor that starts them, cron jobs, FFmpeg processes that carry the streams,
and a database that all of them share.  This directory models the parts of it
whose correctness depends on the order in which things happen, or on several
places in the code deciding the same thing alike; it checks them with TLC on
small instances, and proves the most important results with TLAPS for every
instance.

Run a check with `tlc -config MCStreamEngine.cfg MCStreamEngine.tla`, a proof
with `tlapm StreamEngineProofs.tla`.  Paths below are relative to the
repository; `PROJECT.json` maps every definition to its lines, lists the hazards
that the properties are about, and gives for each property a mutant: an operator
`X_what`, the definition `X` with a plausible bug, which breaks it.

## How the program runs

* `src/main.py` is served by uvicorn with **several worker processes**.  Every
  module-level singleton (engine, connection limiter, login guard, process
  manager, protection tables, event dispatcher) exists once per worker, and
  dies with it.  A `SettingsService` with its cache lives as long as one request.
* Inside a worker, `async def` handlers run on one event loop and are atomic
  between two `await`s.  Plain `def` handlers run in a **thread pool**: they
  interleave at every statement, and nothing takes a lock.
* The **database** is shared.  A session works in transactions (MySQL,
  repeatable read, no row locks): a handler that reads, computes and commits
  writes an absolute value over whatever was committed meanwhile.  An UPDATE of
  a row that is gone raises `StaleDataError`; a DELETE of one only warns.  After
  a failed flush the session's objects are expired and its transaction is
  inactive, so that even reading an attribute raises.  A row deleted through a
  session takes the rows along that the session had loaded as its children; one
  deleted by a statement takes what the database's foreign keys say.
* **Commands and crons** (`src/service.py`, `src/cli/console.py`) are processes of
  their own that start, work and end; any of them may overlap with itself.
* Deaths: a worker or command can be killed between any two statements.  What it
  had committed, or written to a file, stays.

## Inventory

| component | code | state | operations | what is hard | what makes it correct |
|---|---|---|---|---|---|
| FFmpeg engine | `streaming/engine.py`, admin and internal stream routes | two dictionaries per worker; the processes | start, stop, restart, stop_all | threads without a lock, signals that are ignored, reused pids | no live FFmpeg without a handle, one per stream, stops wait, calls return |
| supervisor | `core/process/orchestrator.py`, `service.py` | the pid file; the service processes | start, stop, restart, heal | overlapping commands, crash before the file is written, reused pids, reboots | what was started is found again, once |
| stream queue | `domain/stream/queue_service.py`, `cron_queue` | table `stream_queue` | add, remove, retry, clear, pass | overlapping passes, rows removed under a pass, dying passes | it is a work queue: nothing is worked on twice, forgotten or revived |
| connection limit | `streaming_routes.py`, `connection_limiter.py`, `lines` | slots per worker, table `lines` | live, key request, kill, prune | check-then-insert in several workers, awaits, failed inserts, dead workers | bounded overshoot, nothing leaks, nobody is locked out for good |
| reseller credits | `reseller_api.py`, `line/service.py` | `resellers.credits`, `users` | create, extend, add, use, set | three transactions per purchase, lost updates | credits stay in range, who pays |
| bouquets | `domain/bouquet`, `bouquet_routes.py`, `mass_routes.py` | lists in JSON columns, the users' strings | create, add, remove, replace, mass change, delete | read-modify-write of lists, deletion under a request | access widens by a request that names it |
| rows and keys | `domain/models.py`, all of `domain/*`, the admin routers, the reseller panel | 19 tables that refer to each other | create, update, move, delete one, many, through a session or by statement | three ways of deleting, children moved or deleted under a request | no row names one that is gone, deletes take what depends and nothing else, they go through |
| library | `vod`, `category`, `epg`, `channel`, `radio` services; five front ends | categories, movies, series, episodes, radios, programmes, bouquets, packages | lists, menus, guides; edits; `cron:epg` | each front end filters, numbers and cuts off in its own code | menus lead somewhere, guides and seasons agree, a reseller sells what viewers get |
| accounts and portals | `stream_auth.py`, `mag_api.py`, `enigma2_api.py`, `player_api.py`, web player | rows of users, streams, bouquets | decisions; edits; expiry cron | copies of one decision, empty and odd strings | what is offered plays, what plays is listed |
| delivery | `streaming_routes.py`, `proxy_selector.py` | none of its own | live, segment, subtitle, thumbnail, key, RTMP, archive | seven copies of the checks, an ordered list of fallbacks | the doors that check agree, everybody permitted is served |
| login guard | `blocklist_service.py`, `security_routes.py`, `player_api.py` | a dictionary per worker; the rows `blocked_ips` and `max_login_attempts` | check, count, clear; block, unblock; the settings page | counting in two steps in threads, lists read and written back, a limit that changes | failures end in a lock that holds, listed addresses stay |
| lists in settings | `settings_service.py`, ticket, access code and tool routes | a JSON row each | read, change, write back; the settings page | overlapping rewrites, numbers by length, rows deleted under a request | numbers are unique, nothing is lost or brought back |
| protection tables, fingerprint, theft detection | `domain/security`, `modules/*` | tables; dictionaries per worker | add, check | - | nothing reads them to decide anything |
| registrations, HMAC tokens, xplugin sessions | `domain/registration`, `domain/hmac`, `xplugin_api.py` | rows; a dictionary per worker | register, approve, use | - | nothing else reads them |
| modules, events, Redis cache | `core/module`, `core/events`, `core/cache` | dictionaries filled at start | load, dispatch | - | - |
| dashboards, logs, tools, backups, codec, DRM, signals | `admin/*`, `streaming/*`, `core/process/manager.py` | files, none | build command lines and answers | - | - |

## The modules

| module | models | extends or uses |
|---|---|---|
| StreamEngine | the engine of one worker, its threads and processes | - |
| Orchestrator | the service supervisor | - |
| WorkQueue | what a queue promises (abstract) | - |
| StreamQueue | table and passes of the stream queue; implements WorkQueue | INSTANCE WorkQueue |
| Connections | slots, lines, live requests of several workers | - |
| Reseller | credits and purchases | - |
| BouquetAccess | three readings of a user's bouquet string | - |
| Bouquets | requests on bouquets' lists | BouquetAccess |
| Portals | accounts, streams and what each portal offers | BouquetAccess |
| Delivery | the streaming routes over the rows of Portals | Portals |
| Library | what the doors show of the library | BouquetAccess |
| LibraryChanges | the reseller's view, the requests on these rows | Library |
| Schema | the foreign keys of the model classes | - |
| Database | what MySQL and a session do with them (external) | Schema |
| Catalogue | the services of `domain/*` | Database |
| Backoffice | the admin routers and the reseller panel | Catalogue |
| LoginGuard | failed logins, locks, the block list | - |
| SettingLists | JSON lists in settings | - |
| StreamEngineProofs, ResellerProofs, BackofficeProofs, SettingListsProofs | theorems about the module of that name | the module, TLAPS |
| JobProofs | theorems about StreamQueue and Orchestrator | both, TLAPS |
| AccessProofs | theorems about Connections and LoginGuard | both, TLAPS |
| BouquetsProofs | theorems about Bouquets and LibraryChanges | both, TLAPS |
| PortalsProofs | theorems about Portals and Delivery | Delivery, TLAPS |
| MC*X* | the instance that TLC checks | the module, TLC |

Every action is one atomic step of the code: a dictionary operation or a system
call in the engine, a read or a commit where the database is shared, the
statements up to the next `await` on an event loop.

### StreamEngine (proofs: StreamEngineProofs)

`handle` and `active` are `_ffmpeg_processes` and `_active_streams`; `proc` and
`owner` are the kernel's view.  A thread is in `pc[t]`, with `sid`, `loc` (the
local variable `proc`), the call it is in (`op`) and its answer.  `start_stream` is
CheckActive, ReadPid, Popen, SetHandle, SetActive; `stop_stream` is GetProc,
Terminate, Wait, Reap, DelHandle, DelActive; `restart_stream` adds ReadInfo, and
`stop_all` CallStopAll and NextOfAll.  FFmpegs exit when they like and may ignore
SIGTERM (`Wait` has both outcomes of the timeout); a pid is recycled once its
`Popen` object is unreferenced.  The history variable `raced` collects the streams
on which two calls have ever overlapped: the engine has no lock, so NoOrphan,
OneProcessPerStream, TablesAgree and NeverForgetsLive hold for the other streams
only; OwnStream and StopWaits, which are only proved, hold for all of them.

Fairness: the interpreter schedules every thread inside a call, and a process
that was sent SIGKILL dies.  Nobody has to call, and SIGTERM need not work.

### Orchestrator (proofs: JobProofs)

One action per step of a service command on the pid file: ReadState, PlanNext,
Spawn, Truncate, Write for start and heal; StopRead, Signal, Unlink for stop; a
restart is the one after the other.  `trouble` is the history of what the supervisor
does not guard against: commands that overlapped, a command that died half-way,
a recorded pid that was given to another process.  `turn` is the service a start is
at, `left` those still to come.  Die, Exit, ForeignStart and Reboot are the machine's.

### StreamQueue and WorkQueue (proofs: JobProofs)

`status` is the table; `todo` and `cur` are a pass's list and its current item.
`cron_queue` calls `start_stream(stream.id)` without the required source, so every
item ends as failed and the commit of `completed` has no action.  A pass whose row
is gone raises in its handler too and gives up the rest of its list (Abort).
`disturbed` is a history: the items that two passes have held at a time or that were
retried while a pass held them.

WorkQueue is the queue that the panel shows an administrator: an item is
submitted, handed out, taken, finished or withdrawn; withdrawn items stay so, an item
handed out once is worked on once, and a waiting item is taken up in the end.
StreamQueue implements it (`Queue == INSTANCE WorkQueue WITH life <- ..., again <- disturbed`,
property ImplementsWorkQueue).  Fairness: the queue worker starts a pass again and again
(`workers.py`) and a pass that is not killed goes on.

### Connections (proofs: AccessProofs)

`limiter` holds the slots of each worker, `line` the table.  Admit is everything from
the authentication to `add_connection` in one handler; between the handler's database
statements only other workers run (`Occupied`), while `live_drm_key` lets its own
worker go on during its `await`.  Glance is a route that takes a slot and gives it
back before the event loop can run anything else (thumbnails, subtitles, segments,
RTMP): it cannot hold anybody up, but it discards the slot of a stream of the same
device, whose id it shares.  CreateFails shows what the failed flush does: the
`finally` clause raises in its first expression and the slot stays (`stuck`).
Fairness: handlers go on, every key request is answered, and `cron:connections`,
run each minute by the scheduler, removes lines that dead workers have left.
Left out: lines entered by hand (`POST /lines`) and changes of `max_connections`.

### Reseller (proofs: ResellerProofs)

`credits`, `there`, `owner` and `dated` are the rows; a request carries its
reseller, user, cost and the value it is about to write.  `Price` is what a package
costs: `official_credits`, or one when they are zero; they may be negative.  A purchase is
CreateBegin or ExtendBegin (the check), Insert or Update (the user's commit),
Reload (`use_credits` reads the row anew and checks again, its answer ignored by the
route; a negative price it refuses) and Commit.  Administrators' requests are a read and a Commit.

### BouquetAccess, Bouquets (proofs: BouquetsProofs)

BouquetAccess holds the three readings of a user's string of bouquets in the code, which
agree where the string holds a number and differ on words, on the empty string and on
administrators.  In Bouquets `rows` is the table, `string` the users' column and `req[a]`
the request an administrator's handler is in: the list it has read and the one it will
write.  A request is its read and its Commit, because two sessions of the database do not
see each other in between; Commit fails on a deleted row, and writes nothing for a list
that did not change.  Deleting a bouquet leaves its id in the strings of users.

### Portals, Delivery (proofs: PortalsProofs)

Portals has the decisions on one user and one stream, as each of the live route, the MAG
portal, the Enigma2 API, the player API and the web player makes them, side by side over
the same rows.  The actions are the routes and the cron that change rows; a property
compares two of the decisions in every reachable state.  `is_mag` stands for a user's
`is_mag` or `is_stalker`; the box itself is taken to be known by its address or by name.

Delivery adds the two limits that only the streaming routes know (output formats,
players), the client (country, restream header) and what surrounds a stream: its source,
its HLS files, the servers that have it, the off-air picture (`World`, a parameter of the
answer since the routes only read it).  Each of the seven routes that ask who is there is
one definition with its own copy of the checks; `Live` is the whole answer of the live
route, fallbacks in their order.  The two routes under `/hls/` ask nobody: `OpenServes` is
whether there is anything in the directory.  CheckingDoorsAgree compares the seven, and
says of the two that what the live route plays from the directory they serve to all.

### Library, LibraryChanges (proofs: BouquetsProofs)

`rec` is the content of the tables (categories, streams, films, series, episodes,
programmes, bouquets, packages), `bouquet` the string of the viewer and `allowed` the
packages of the reseller who looks.  Library has what the MAG portal, the Enigma2 API,
the player API with playlist and XMLTV, and the web player show.  A list that pages to its
end is a set; one that is cut off shows the `Newest` (of films and series, by id), and a
guide that is cut off the `Earliest`: a set of answers, since programmes that start
together have no order.  The short guides drop what is over, `PlayerGuide` has a window of
time, MAG and Enigma2 take the first rows of all.  The limits of the code (500, 10,000,
500,000; 10, 100, 200) are constants in their order.  LibraryChanges has what the
reseller API shows, and the requests: Save and DeleteRow with what the foreign keys
(`Refers`) take along, `link_channels`, `cron:epg`, and edits of the string and the
packages.  Lists in JSON keep the ids of deleted rows, which is where the doors could come
to differ.  ScopeIsWhatViewersGet says which of the rows a reseller is shown play: of the
created channels the enabled ones (`LivePlays`).

### Schema, Database, Catalogue, Backoffice (proofs: BackofficeProofs)

A row is `<<table, id>>`; `db` holds the foreign keys of the stored rows and `kind` the
few flags the services filter on.  Schema has one definition per model class: each key
with whether it is required, its ON DELETE rule and what the ORM does to it.  Database is
external: what an INSERT, UPDATE or DELETE statement does under these keys, and a delete
through a session, which is two steps: the read (SessionDelete) and the Flush, or the
RollBack when the ORM would clear a required column or a row it has read is gone.  One
such delete (`tx`) is followed at a time; the others interleave with it as transactions.
Catalogue has the operations of the services, Backoffice one definition per admin router,
and the requests of the reseller's panel on the rows he owns.

### LoginGuard (proofs: AccessProofs)

`attempts` is the dictionary of a worker.  A thread is a login request: CheckList,
CheckGuard, one of VerifyFails, VerifyRaises and VerifySucceeds, and for a failure
Count and Store, the two halves of `record_attempt`.  `wrong` is a history: the failures
recorded for an address since its last success.  An administrator's request is BlockIp or
UnblockIp (the read) and Set (the commit, which fails if the row has appeared or
gone meanwhile).  `limit` is the setting `max_login_attempts`, which every check reads anew;
the settings page writes it (SetLimit), overwrites the list (WriteList) and deletes or
renames its row (DeleteSetting).  The counter stops at `MaxAttempts`, the highest value the
setting may have: every higher count decides the same.  LocksHold therefore says that a
locked address keeps its count, and is locked until the limit is raised.

### SettingLists (proofs: SettingListsProofs)

One row of `settings`, whose kind of list is chosen at the start (tickets, access codes
or user groups, blocked providers); a request is a read with its change of the copy
(Create, Reply, Close, Delete, Block, Unblock, PostAlias) and Set, the commit.  Set
follows SQLAlchemy: an insert fails when a row has appeared, an unchanged text is not
written, an UPDATE fails when the row was deleted (`Gone`).  The settings page deletes the
row under the requests, and writes any list, or what is no list, into it; `foreign` is a
history: that it has stored tickets which are not numbered 1 to n, after which the
numbers are its own affair.

## Runs

| run | question | instance | distinct states |
|---|---|---|---|
| engine_threads | do the threads of a worker keep track of their FFmpegs? | 2 threads, 2 streams, 3 pids, symmetric | 2,173,711 |
| engine_calls_return | does every call return? | 2 threads, 1 stream, 2 pids | 105,001 |
| supervisor | does the supervisor find what it started? | 2 commands, 2 services, 2 pids | 1,778,484 |
| queue_passes | is the table the queue it is taken for, liveness included? | 3 items, 2 passes, 1 dying pass | 99,535 |
| connections | do the workers bound the lines, leak nothing, lock nobody out? | 2 workers, 2 live requests, a key request and glances of one user with a limit of 2, 4 rows, 2 crashes | 62,694 |
| reseller_credits | do the credits stay in range, and who pays? | 1 reseller, 2 users, 2 requests, packages for -1, 0 and 2 credits | 287,838 |
| bouquets | does access widen only by a request, and do lone requests do their job? | 2 administrators, 2 bouquets, 2 streams, 1 user | 163,872 |
| portals | do portals and routes agree, is everybody permitted served? | 1 user, 1 stream, 2 bouquets, a word, 5 lists of formats, 4 clients, 36 surroundings | 184,320 |
| login_guard | does the lock come and last, is a listed address lost? | 2 threads, 2 addresses, 2 administrators, a limit of 0, 1 or 2 | 2,743,920 |
| backoffice | do the rows stay together, do deletes take the right rows and go through? | 19 tables in 11 scopes, up to 2 rows of a table | 58,519 |
| library | do five front ends show the same library, as far as their lists reach? | 13 scopes of up to 4 rows, lists of 1 or 2 films, guides of 1 programme | 64,484 |
| settings_lists | are tickets, codes and names lost, renumbered or brought back? | 2 requests, 2 creations, 1 reply, 2 names, 4 lists of the settings page | 730,410 |

Why the bounds are enough: the races here need two actors, and the second stream,
item, user, address or device shows interference across keys.  Three pids for two
streams let an old FFmpeg live on beside its successor; two pids for two services let
a service start beside its old copy, since either may have exited.  With a limit of
two and two workers the table overshoots the limit, and two crashes leave as many
lines as the limit allows, so that the user is locked out until the cron has run.  A
limit of two failures and two threads let increments be lost, and the bound of
`LockoutComes` is reached; a limit of zero (also any text that is no number, or a negative
one) locks everybody.  A package for -1 credits passes the check without credits.

Tables do not fit into one run at once, so Backoffice and Library are bounded by
`Scopes`: the rows in use (and held by a session) are always within one of the listed
sets.  Every key of Schema has both its ends in a scope, as has every chain of two keys
that a delete could follow (reseller, user, line; series, episode; server, assignment),
and two rows of the table whose rows refer to one another or compete for a child.
Every comparison of Library is about a row, its category, a bouquet and a package, or a
second row of its kind, and each such group is a scope.  Three films and three series
overfill lists of one and of two, and two programmes guides of one (`WebLimit`,
`CatalogLimit`, `PlayerLimit`; `ShortLimit`, `MagGuideLimit`, `EnigmaGuideLimit`); times
are 0 and 1 (`LastTime`), which tell over, running and to come apart, and a day is one.  In
SettingLists the page stores (`PageLists`) the empty list, two entries in order, of which
a deletion and a creation (`MaxMade` is two) give a number twice, and two lists out of
order; one reply (`MaxReplies`) can be lost.  In Delivery one client is fit in
every respect and each of the others unfit, or unusual, in one; `Worlds` leaves out the
combinations that a route does not tell apart.  Other bounds: `MaxCrashes`, `Rows`,
`Items`, `Users`, `Bids`; nothing else is cut.  A run without deadlock check is of a
system that may stop: an administrator need not do anything, and bounded items run out.

## Fairness

Three runs check liveness.  *CallsReturn*: the interpreter schedules every thread inside
a call, and a process that was sent SIGKILL dies; nobody has to call and SIGTERM need
not work.  *ImplementsWorkQueue*: the queue worker starts passes for ever and a living pass
goes on; passes may die `MaxCrashes` times.  *LockoutEnds*: handlers go on, every key
request is answered by the provider or its timeout, and `cron:connections`, run each
minute by the scheduler, removes the lines that dead workers have left.

## Proofs

Eight modules prove every safety property that the runs check, for all values of the
constants: any number of threads, workers, requests, rows, items and users.  They assume
what the modules name in their ASSUMEs:

* special values are apart from the data (`None`, `NULL`, `Foreign`, `Gone`), and every
  table of the library has ids of its own (`TablesApart`, `RowsAreStored`);
* workers, lines and the threads of the login pool are finite sets;
* limits are naturals, those of the library's lists are in the code's order
  (`LimitsInOrder`), a reseller starts within his, and the highest value of
  `max_login_attempts` is positive; what a package costs is any integer;
* films and series are numbered by age (`Numbered`), and the sets of films, series and
  programmes are finite;
* no row of the schema has two CASCADE keys one behind the other (`CascadeAssumption`).

`Scopes`, `MaxCrashes` and the other bounds of the runs are constants as well, so what is
proved does not depend on them.

*StreamEngineProofs.*  NoOrphan alone is not inductive: a stop that deletes a handle is
harmless only because it has reaped the very process the handle names, which in
turn needs that no other call works on the stream.  `ClaimInv` and `OneCall`
say which call works on a stream, `HoldsProcess` and `OwnedProcess` what a thread
and a handle refer to, `CallProgress` how far a call has brought the two
dictionaries, and `AtRest` that they agree outside of calls.

*JobProofs.*  A pass of the queue commits from a list it read long ago, so that a
refinement step needs to know what the table holds now: an item that was not disturbed
has one holder (`OneHolder`), and the status that holder has left it with (`AsLeft`).
With these, every step maps to a step of WorkQueue or a stutter (`Implements`).
The supervisor's NoStray lets each process be named by the file or by some command's
copy of it, which is not inductive.  What is: as long as the commands do not overlap
(`OneAtATime`), *one* map names them all at each step of the single command, the file
until it has read it and its copy from then on; what it is about to spawn is not running, and
what it has signalled is no longer ours (`Found`).  WritesWhatItChecked, which holds for
overlapping commands too, needs that a recorded pid is its service or is dead
(`RecordsHold`), and that a loop leaves a record for every service it has passed
(`LoopRecords`).

*AccessProofs.*  OvershootIsBounded compares the table with the limit, but a worker
decides on its own slots and what it sees of the table.  What is inductive counts the
lines together with the workers that have decided to insert one (`PlacesTaken`): a worker
that decides sees a free place, so that there are at most `Max - 1` lines then, and
of the others each is about to insert one at most (`OneHandler`).  SlotsAreServed and
LinesAreServed need that a slot and a line belong to one request (`RowInHand`, `LeftWithoutSlot`).
A locked address stays locked because only a thread past the check resets a counter, and
such a thread has its address (`HasAddress`); the block list is treated as the bouquets
are (`OneEdit`).  The setting may change under it, so LocksHold is about the count and about steps that do
not raise the limit.  LockoutComes bounds the failures that threads record while they lose
each other's increments.  The counter says little about them, so the invariant is a
budget: what has been recorded, plus what every thread can still record from the counter
it has seen, is within `Failures` of the pool, in whatever order the threads come
(`WithinBudget`).  A store that takes the counter back gives the other threads more to
record; the thread that stores moves in the order to the place where its cost pays for
that.  The bound is reached in the run, so it cannot be sharper.

*ResellerProofs.*  A commit writes a value computed from credits that may be gone, so
CreditsInRange needs `WritesInRange`: the value was in range when it was computed
and the range does not depend on the credits.  PricesAreCharged needs that a lone
request for what has a price finds its reseller, user and credits again (`OneRequest`, `BeforeCharge`,
`CheckStands`).

*BouquetsProofs.*  The action properties are about a Commit, and what it writes was
decided at the read: the invariant says of every request in progress that its new list
is its old one with the one change it was asked for, so that a commit that
was not overtaken makes that change and no other.  The properties of the library compare
what several doors show in one state.  They rest on `LibraryIInv`, that a stored row has
the shape of its table and refers to stored rows only, which every deletion keeps
with what it takes along; on lemmas that say what each of the menus is, in one form
for all doors (`MenuOf`, `ListedIs`, `ScopeIs`); and on what `link_channels` can write
(`LinksReachStreams`).  OffersAreListed needs that of two lists of the newest the shorter
is within the longer (`NewestNest`), and GuidesAgree that a guide which misses a programme
is full of ones that start no later (`EarliestReach`).  ScopeIsWhatViewersGet holds although
lists keep the ids of deleted rows, because both sides look only at stored ones.

*PortalsProofs.*  The comparisons of the portals and of the seven checking routes follow
from the definitions and the types of the rows: they hold in every state, whatever order
the routes run in.  RoutesOnlyRead says that Delivery takes no step of its own, so that
what is proved of Portals holds of it.

*BackofficeProofs.*  Integrity is inductive.  Every request is one of three steps: a row
is added, columns get values their keys allow, or rows go with what is cleared and
cascaded.  The last keeps Integrity because a required key always cascades, an
optional one is cleared, and no cascade has a second one behind it: what the ASSUME of
Database and `KeysAreSound` say of the declared schema.  OnlyViewersRefuse needs besides
that what a session has read refers to the row it deletes (`SeenRefers`), and
OnlyDependentsGo what it will clear and take along, while other requests move and delete
the same rows (`Session`).

*SettingListsProofs.*  A commit writes a list that was computed from what was read, so
the invariant says of each request in progress that its list is numbered and keeps every
entry of what it has read (`Carries`) but the one it takes out; a lone request's list
then follows the row's.  What the settings page stores is numbered or remembered in `foreign`.

Some facts need induction over data: what `Without` leaves of a list, and that
`Failures` exists, satisfies its equation and grows with both arguments.  The
library's induction rules are about operators; here an induction is a lemma about a *set*
of naturals that holds 0 and, with each number, the next one, and it follows from the
theorem that a well-founded relation has minimal elements.

Only model-checked are the liveness properties, since the prover has neither fairness nor
ENABLED: CallsReturn, LockoutEnds, and the liveness part of ImplementsWorkQueue.

## Disagreements between the code and what is said of it

Met while reading; one request, or the one sequence named, shows each of them.  The
properties are stated so that they hold beside them.

Streams and the supervisor:

* `cron_queue` calls `start_stream(stream.id)` without the required source
  (`src/src/cli/console.py:1049`): every item of the queue ends as failed.  `cmd:queue add`
  fails always: it gives no server.
* `heal` accepts a recorded pid that was given to another process
  (`src/src/core/process/orchestrator.py:124`); WritesWhatItChecked excludes reused pids.
* `start_stream` answers with the pid of an FFmpeg that has exited, if nobody stopped the
  stream; `sync_with_db`, which nothing calls, would therefore restart nothing, against
  "Align running processes with ServerStream rows" (`src/src/streaming/engine.py:262`).  The on-demand routes only write rows.
* `src.domain.transcode` is imported and does not exist; `cron:recordings` and
  `cron:registrations` import models that do not exist; `cmd:hmac` uses columns that do
  not exist.

Accounts and credits:

* Extending a user who has an expiry date raises a `TypeError`, a naive date being
  compared with an aware one (`src/src/public/controllers/reseller/reseller_api.py:312`).
* The answer of `use_credits` is ignored, so that overlapping purchases give a user away
  (line 291; `README.md:146`); the reseller's device routes create and extend without credits.
* `official_credits` of a package may be negative (`line_routes.py:25,45`).  A purchase of
  it passes the check (line 282), the user is committed, and `use_credits` refuses the
  amount (`src/src/domain/line/service.py:211`), which is ignored: also a lone request
  then keeps the user for nothing.  PricesAreCharged is about prices above zero.
* `cron:users` disables expired users, and extending one does not enable him again.
* The bouquets a reseller gives a customer need not be within his packages.
* Approving a registration creates no user.  The ministra sync gives every box one address.

Access:

* The slot and the line of a live request are gone when its redirect goes out, so
  `max_connections` bounds requests in progress and not playing clients (`README.md:23`
  promises "Per-user max connections enforcement"); a failed insertion leaves its slot
  (`src/src/public/controllers/api/streaming_routes.py:478`).
* An edge that shares the database redirects again, since `_stream_on_local_server`
  looks at the main server.
* A MAG box is recognised by a MAC among the user's `allowed_ips`, which the live route
  then compares with the client's address: a user whose list is only a MAC is refused
  what the portal offers him.  OffersPlay is therefore stated for allowed addresses.
* A string of bouquets without a number in it restricts the MAG portal to nothing, and
  does not restrict the live route; the player API, the playlist and the web
  player list all streams whatever the string.
* `/hls/{stream_id}/index.m3u8` and its segments (`streaming_routes.py:531-544`, listed in
  `src/README.md:173-174`) serve the files of a stream to anybody, without an account;
  CheckingDoorsAgree is about the seven routes that ask.
* A locked address stays locked until the worker restarts or `max_login_attempts` is
  raised on the settings page, which then unlocks it; each worker counts on its own,
  and with two threads up to `MaxAttempts * (MaxAttempts + 3) / 2` failures pass.
* The movie and series routes look at the account only, not at bouquets or addresses.
* Radios: a reseller is shown those of `bouquet_radios`, the live route asks
  `bouquet_channels`.
* A reseller is shown created channels and radios that are disabled, which the live route
  plays for nobody (`streaming_routes.py:392-396`).
* The web player lists the newest 500 films and series and has no further page, the
  playlist the newest 10,000 films: an older one that a box is offered is on neither.
* The long guides of the MAG portal and the Enigma2 API are the first 100 and 200 rows of
  the channel, past programmes included, so that a guide may hold nothing that is to come.
* `get.php` with a token writes addresses with the user and password `None`;
  `/player/listings` passes a `Query` object as a category and fails; `vod/create_link` of
  the MAG portal is not supported.

Rows:

* Lines and activity are declared `ondelete=CASCADE` (`src/src/domain/models.py:323`), but a
  delete of their stream or server through a session is refused with an
  IntegrityError, because the session clears their required column first: OnlyViewersRefuse
  says that nothing else is refused.  The mass delete, a statement, does cascade.
* A child moved elsewhere while its parent is deleted through a session is cleared of its
  new parent (OnlyDependentsGo allows a column that did name the row).
* `update_episode` commits before it checks the series (`vod_routes.py`, 357-371), then
  answers 404.  EPG imports append what is there already.
* `link_channels` leaves the links of programmes whose name no stream has any more,
  against "Set EpgData.channel_id from Stream.epg_channel_id matching EpgData.epg_id"
  (`src/src/domain/epg/service.py:104`).
* Access codes and user groups are numbered by the length of their list, so that a number
  is given again after a deletion, and deleting it deletes both.  Nothing reads these lists, nor
  the blocked providers.
* The settings page may store any value under `tickets_data` and `blocked_ips`, or give
  another row that key: tickets then have what numbers it chose, and addresses leave the
  list without an unblock.

## Not modelled

* Nothing else depends on them: signals, the process manager and the process checker (no
  callers); the connection tracker, through which two pages list the live connections
  (`reseller_api.py:669`, `tools_routes.py:48`), its writing methods having no callers; the tables of blocked agents and networks,
  fingerprints and theft detection (no decision reads them); registrations and HMAC
  tokens; the xplugin sessions, which live in one worker's memory.
* Conversions and input and output: command lines, playlists, XMLTV, formatting, logging,
  backups, certificates, diagnostics, dashboards; cryptography and configuration;
  outside services (TMDB, Plex, providers).
* In modelled components: the order of lists, names, passwords and pages; the loads that
  decide among several online servers; heartbeats; what is on now; the pages on which a
  reseller sees his customers, their lines and activity; lines entered by hand and changes of `max_connections`; the
  columns of tables beyond keys and the flags that services filter on.

`PROJECT.json` gives the reason for each component.

## Plan

Everything above is modelled and checked, and the safety properties are proved.  What is
left would say more with the same modules: that Delivery implements one abstract decision
of who may watch what, in place of seven compared ones; that the engine implements a map
from streams to processes when calls do not overlap; and that the overshoot of
Connections is reached, which the run shows for two workers only.
