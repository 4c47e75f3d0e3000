# VPS Sentry in TLA+

VPS Sentry tails two logs of a host (sshd's and UFW's), stores what it parses in
SQLite, derives alerts and an event feed, samples the host, and serves all of it
to a dashboard. What is hard about it is not the volume but that nothing may be
lost, counted twice, or quietly not looked at: logs rotate under the reader,
cycles die half way, tables are swept while incidents are open, and every
absence of data looks like good news. These modules are about that.

`PROJECT.json` lists the components, the runs, the mutants, the hazards, the
theorems and, for each definition, the lines of code it stands for. File names
below are relative to `src/`.

## 1. The system

| Component | State | Operations | Talks to |
|---|---|---|---|
| log tailer, `sentry/tailer.py` | none of its own | `read_new_lines`, `_read_from` | the files behind a path; gets and returns a `TailPosition` |
| ingest cycle, `sentry/ingest.py` | the loop's counter; host and geoip caches | `_process_source`, `run_once`, `_record_logins`, `_sample_host`, `_sync_ports`, `run_forever` | everything below; runs in a thread of the API, or as a process (`--once`) |
| storage, `sentry/db.py` | `tail_state`, `ssh_events`, `scan_events`, `alerts`, `events`, `port_state`, `host_samples` | `transaction`, the inserts, `upsert_alert`, `record_tail_error`, `prune` | SQLite, one writer at a time |
| detection, `sentry/detect.py` | none | `detect_ssh_bruteforce`, `detect_port_scan` | storage, feed, geoip, fail2ban, inside the cycle's transaction |
| event feed, `sentry/events.py` | the table `events` | `emit`, `recent` | written by cycles, read by the API |
| listening ports, `sentry/collect/ports.py` | `port_state` | `collect` | `/proc/net`, the cycle, the score |
| host metrics, `sentry/collect/host.py` | last counters of network and processor | `sample` | `/proc`, the cycle |
| user accounts, `sentry/collect/users.py` | none | `read_ssh_policy`, `_classify_access`, `collect` | `/etc/passwd`, `sshd_config`, the score |
| geoip resolver, `sentry/enrich/geoip.py` | reader, `_attempted`, a lock, a cache | `status`, `_ensure_reader`, `lookup` | the database file; one resolver in the API, one in the ingestor |
| fail2ban client, `sentry/enrich/fail2ban.py` | ban list, reachability, time of the fetch, a lock | `banned_ips`, `status` | `fail2ban-client`; one client in the API, one in the ingestor |
| timestamps, `sentry/timeparse.py` | none | `parse_timestamp` | the parsers, with the cycle's reference time |
| posture score, `sentry/score.py` | none | `compute` | collectors, tables, fail2ban's status |
| API, `sentry/api.py` | one per process: config, clients, worker | one handler per endpoint, in a thread pool | tables (read), clients |
| parsers, services, config | none | see `PROJECT.json` | |
| dashboard, `static/app.js` | poll counter, `seenAlerts`, filters | `refresh` every five seconds | the API |
| tools, installer, deployment | none | `replay`, `seed`, `install.sh` | files, systemd, nginx |

**What is hard.** Two schedulers outside the program act on its input between any
two of its system calls: logrotate and the logging daemon. The cycle reads in one
transaction and writes in another. A second process may run the same cycle. The
API's threads share a client whose fields are written one after the other. The
clock enters in three places that disagree (log time, the cycle's reference,
`utcnow()`), and the sweep removes evidence under open incidents. Deduplication
keys (`inode:offset`, `alert:<id>`, `port_open:<port>:<hour>`, `src_err:<source>:<hour>`)
outlive what they name.

**What makes each part correct.**

* tailer: every line is stored once, in order, in the end; the position never
  passes a line that is not in the store.
* cycle: all or nothing; one source's failure leaves the other alone; a source
  that is not read does not look healthy.
* detection: an alert has its evidence, one incident is one alert, detection is
  never behind, and each new alert is announced.
* feed: an entry means what it says, once.
* ports: a listener is in the baseline or was announced; the most exposed
  binding is the one recorded.
* fail2ban: unknown is never presented as a verdict.
* host metrics: a rate is what happened, over the time it happened in, or nothing.
* accounts: nobody whom sshd lets in is said to have no access, but in cases that
  are known.
* geoip: one thread opens the file, once, and no state of the file costs an alert.
* reads: the figures of one page agree with each other and with the alerts.
* timestamps: the inferred year is right.
* score: what is not measured neither costs points nor passes for measured. (The
  code keeps the first but for fail2ban, and the second in part: section 3.)

## 2. The modules

| Module | Models | Runs |
|---|---|---|
| `LogDelivery` | the promise of tailing a log, abstractly | property of the run `tail` |
| `LogTail` (`MCLogTail`) | one source: daemon, logrotate, tailer, the source's part of the commit | `tail`, `tail_*` |
| `LogTailInv` | the invariants that make `LogTail`'s properties inductive; extends `LogTail` | `tail` |
| `LogTailProofs` | theorems about `LogTail`, and that it implements `LogDelivery` | proved |
| `Ordered` | a finite set in ascending order, the elements of a sequence at given positions; a helper | with `LogTail`, `PortSync` |
| `OrderedProofs` | lemmas about it, about least elements, and about sums over finite sets | proved |
| `Detect` (`MCDetect`) | the write transaction from rows to alerts, feed and logins; the sweep | `detect`, `detect_backfill` |
| `Queries` | `/api/stats` and `/api/timeline` over `Detect`'s tables; extends `Detect` | `detect` |
| `DetectProofs` | theorems about `Detect` and `Queries` | proved |
| `Ingestor` (`MCIngestor`) | the worker in time: cycles, failures, restarts, sweeps, `/api/health` | `ingestor` |
| `IngestorProofs` | theorems about it | proved |
| `PortSync` | `/proc`, `port_state` and port events | `ports` |
| `Rates` | the host collector's rates over the kernel's counters | `ports` |
| `Collect` | `PortSync` and `Rates` in one cycle's transaction | `ports` |
| `CollectProofs` | theorems about the three | proved |
| `Fail2Ban` | the cached client under the API's thread pool | `fail2ban`, `fail2ban_race` |
| `GeoIp` | the lazily opened reader under threads, and the worker's lookups | `fail2ban` |
| `Enrich` | what a process keeps of both enrichments | `fail2ban` |
| `EnrichProofs` | theorems about the three | proved |
| `TimeParse` (`MCTimeParse`) | year inference with the cycle's reference | `timeparse` |
| `TimeProofs` | theorems about it | proved |
| `Users` | the sshd policy and who may log in, beside what sshd does | `score` |
| `Score` (`MCScore`) | the rules over a changing host and failing collectors; extends `Users` | `score` |
| `ScoreProofs` | theorems about both | proved |

They are parts of one cycle: `Ingestor` has the cycle's stages and leaves what a
read returns to `LogTail` and what a commit derives to `Detect` and `PortSync`. The
interfaces are the tables: `LogTail`'s `rows` are `Detect`'s `Lines`, identified by
the same key; `Detect`'s alerts and breaches are `Score`'s `Attack` and `Breach`; the row
of `Rates` is `Score`'s `Sample`.

**LogTail.** A file is the sequence of its lines, all of one length, so an offset
counts lines; `torn` says that the last line of the daemon's file has no newline
yet. The cycle is split where another process can run: `Stat` (position read,
`path.stat`, choice among rename, copytruncate and append), `DrainRotated`,
`ReadPath` (the path is opened again, by name), `Commit` (rows, `INSERT OR IGNORE` by
inode and offset, and the position, in one transaction), `ReadFails`
(`record_tail_error`), `Crash`. `Env` names what the environment does, so that each
run says under which environment its property holds: rename or copytruncate
rotation, rotation in mid read, late writes to the renamed file, two rotations
without a commit in between, reuse of inodes.

**Detect.** `db` is the committed database and `txn` the transaction's view. `Begin`
inserts a batch and collects candidates; `Pass`, `Raise` and `Escalate` are the three
ways an evaluation of one detector and address can end; `RecordLogin` comes after
all of them; `Commit` or `Abort` end the cycle; `Prune` is the sweep. The two detectors
are one set of actions that differ in `Counting`, `Strength` and their parameters.
With `InOrder` cycles read each line once, in time order and not before it
happened; without it lines come in any order and again, which is what `LogTail`
and clock skew leave possible. The code evaluates addresses in sorted order, ssh
first: any order is allowed here, and none of the properties depends on it.

**Ingestor.** A cycle is `Begin`, two `Read`s, `Store` or `StoreRaises`, `AfterCycle`.
`fault` stands for everything that makes a transaction fail. Time passes only as
far as a cycle's longest duration or the end of a sleep allows.

**Queries.** A handler is a function of the database and the clock. `MCDetect` extends
it, so that its invariants hold after every cycle and sweep that `Detect` allows. A
connection of the API holds no transaction: what depends on two statements takes
two databases (`SharesInAll`).

**PortSync.** `sockets` says what each file of `/proc` lists, `hidden` which files
cannot be read; `Collected` is the set of results `collect` may return, since which of
several addresses within a file is kept depends on the kernel's order. `Exposure`
is the classification by text, with the way `_hex_to_ipv6` spells an address.
`Sync` is one action: it runs inside the write transaction.

**Rates.** `counters`, `jiffies` and `unread` are the kernel's, `prevNet` and `prevCpu` the
collector's memory, `row` the newest sample. `since` and `worked` are history: what really
passed since the reading that the collector remembers. `Measure(stored)` is `sample`,
with the row if the cycle commits and without it if it raises: the collector has
read either way. Time counts in cycles.

**Collect.** `Cycle` is `_sample_host` and then `_sync_ports`; `CycleRaises` the rollback that
`Rates` has to survive. The halves share no variable, so a behaviour in which the
kernel's counters change has no sockets and one with sockets has still counters.

**Fail2Ban.** A request waits for the lock, finds the cache fresh (`Cached`) or queries
(`Query`, then `Bans` and `Reachable`, or `Fails`, then `Release`), and only after that
reads the status (`Answer`). The fields are written one by one as in `_refresh`. The
clock is `time.monotonic()`: it is `Uptime` when the process begins, and a
`_fetched_at` of zero lies at the start of the host.

**GeoIp.** A thread that asks for the status looks for the file (`AskStatus`), reads
`_attempted` without the lock (`EnsureReader`), takes the lock and reads it again (`Lock`),
and opens the file (`Open`), which may have changed at each step. The worker's resolver
has one thread: `FirstLookup` opens, `Lookup` finds it opened or not. `found` and `again` are
history. `Enrich` runs it beside `Fail2Ban`; a behaviour asks of one of them only.

**TimeParse.** A calendar of leap and common years in which a line is written, a
cycle begins (and takes its reference) and reads. With `LateWrites` lines are also
written between the two. Days are counted as `datetime` counts them: the leap days
before a year in closed form, the days before a month from a table.

**Users.** A configuration is a sequence of directives. For each keyword the last
directive that gives it wins in the code, and the lists accumulate. `ReadPolicy` and `Access` are the
code's; `Admits` is sshd's own reading of the same sequence, external, against which
they are checked. An entry of `AllowUsers` or `DenyUsers` is the set of accounts and of origins that
it matches: sshd goes by that, the code by whether the entry is the account's name
(`Name`, `Pattern`). An account's keys lie in `.ssh/authorized_keys`, which is all the code looks at,
or elsewhere, and PAM may ask for passwords by keyboard, which the code does not read.

**Score.** The host as it is, the inputs that can be measured, two inputs that are
remembered and not measured for the score (`sample`, the newest row's disk figure;
`asked`, what the fail2ban client's last query came to), and hours since the last attack
and breach. fail2ban may be running and still not be asked: `"fail2ban"` is one of the
`Inputs` that can be lost. The rules are `Deducts`, what is listed as not assessed is `Unknowns`.

## 3. The runs

Deadlock is checked in `MCEnrich`, `MCFail2BanRace`, `MCScore` and `MCTimeParse`, where the
program can always do something; the others stop at a bound (lines written, the
clock, cycles without a reading) and say so.

### Runs that pass

The first property of five of these runs, the one named `...Inv`, is the component's
inductive invariant of section 4: it holds the types, and TLC found out with it
what had to be proved. Those of `timeparse` and `score` (`TimeInv`, `TypeOK`) are no more
than types and the range of what is parsed, and have no place in a run.

| Run | Properties | Why the bounds are enough |
|---|---|---|
| `tail` | `DeliveryInv`, `UnreadIsReachable`, `KeyNamesItsLine`, `DeliverySpec` | Two workers at any step each, three lines of which one is unparsable, two rotations and a crash: a line before, between and after the rotations, torn at any of them. The position rewinds, the rows do not. Liveness is in `DeliverySpec`. |
| `tail_rotations` | `NoDoubleCount` | Every rotation there is but in mid read, with three inodes for three files, so that one comes back. |
| `detect` | `DetectInv`, `AlertBackedByEvidence`, `IncidentsDisjoint`, `FeedMatchesAlerts`, `DetectionUpToDate`, `LoginsMatchRows`, `NewAlertIsAnnounced`, `NewAlertIsJustified`, `AlertsOnlyGrow`, `TotalsAreEvidence`, `NoBreachSlipsBy`, `ThreatIsNotMissed`, `ChartMatchesTotals` | Eight lines of two addresses and both detectors in any order and any batches, re-reads included; the threshold is two, window and cooldown one or two ticks, so each edge is met; the sweep cuts through the log, and ids are given again to another address. The day has one hour of two ticks: a row can lie before, in and after the chart. |
| `ingestor` | `IngestorInv`, `BlindnessShows`, `SourcesAreIndependent`, `OutageIsAnnounced` (within the cycle, and once an hour), `FeedIsSwept` | Two upsets (a log lost or found, a fault, a kill) at any two moments of eleven ticks: five or more rounds, six hours, two sweeps, and entries that outlive their retention. |
| `ports` | `CollectInv`, `BaselineOnce`, `KnownPortsWereAnnounced` (and what is announced closed was open), `PublicExposureIsRecorded`, `ThroughputIsReal`, `RatesAreKnown` | Two ports, two addresses, two files, any start and any three changes within two hours: a port can close, reopen and be hidden. Two interfaces with counters of one bit, five events (packets, work, interfaces that come and go, files that cannot be read, raising cycles, restarts) and up to two cycles without a reading: counters wrap between any two of them. |
| `fail2ban` | `ClientInv`, `QueriesAreSpaced`, `AnswerIsRecent`, `OpenedOnce` | Two threads, one of which waits while the other queries for longer than the cache holds; three requests, two expiries, the daemon changing at will, a host that has just started. Three threads at the reader: one inside the lock, one before it, one that finds `_attempted` set; the file in any of four states at each step. |
| `timeparse` | `YearIsRight`, `OnlyLeapDaysAreDropped`, `StampIsNear` | Half days around the end of each month of two years, one a leap year, in any order of writing and reading, also while a cycle runs. |
| `score` | `SeriousIsNeverGood`, `DenialsAreSshds`, `WeakSshdCosts`, `OnlyFail2BanPunishesBlindness` | Every host; any input lost, one at a time, with samples and answers of fail2ban that are older than that; each directive alone, combined, left out and given twice, names, patterns and hosts in the lists, every account with keys in either place; a budget of no port has the same two sides as six. The rules are independent of each other, so one lost input shows what several do. |

### Where the code departs from what the repository says

Each of these runs checks one sentence of a comment or a document and finds a
behaviour of the code that does not keep it. They are recorded as findings.

| Run | Property | What TLC shows |
|---|---|---|
| `tail_mid_read` | `NoDoubleCount` | "re-reading a region can never double-count" (`sentry/db.py:10`). A rename between `stat` and `open` labels new lines with the old inode; they are stored again under their own. |
| `tail_truncate` | `ReadLinesAreStored` | The key "is unique for a physical line on disk and changes when the file rotates" (`sentry/db.py:8-9`). After copytruncate new lines have the keys of old rows and are dropped. |
| `detect_backfill` | `EveryBurstAlerted` | The anchor "keeps the rules correct when backfilling" (`sentry/detect.py:10-12`). Only the window of the newest row is looked at. |
| `fail2ban_race` | `VerdictWasGiven` | "could not ask" and "not banned" "are never merged" (`PRODUCT.md:50-51`). List and status are read apart: a failed query's list is reported as a verdict. |

The modules state further sentences of the repository that TLC refutes in the
same way. They have no run of their own; the constants that show them are:

| Property | Sentence | Constants | What happens |
|---|---|---|---|
| `LogTail!PositionNeverRewinds` | "Re-read positions inside the write transaction" (`sentry/ingest.py:161`) | two workers, one rotation, `RenameOnly` | A slower process puts back a faster one's position. Harmless for the rows (`tail`). |
| `LogTail!UnreadIsReachable` | "we drain `<path>.1`" (`sentry/tailer.py:10-12`) | one worker, `LateWrite` | What the daemon writes to `.1` after the drain is never read. |
| `LogTail!ReadLinesAreStored` | the key "is unique for a physical line" (`sentry/db.py:8`) | one worker, `Reuse`, three rotations | Lines of a file with a reused inode are dropped. |
| `Detect!AfterAttackMeansAfter` | "that was attacking moments ago" (`sentry/events.py:34`) | `LoginThenBurst`, `LoginWindow = 6` | A login before the attack is filed as one after it. |
| `Detect!BreachIsFlagged` | "tripped an alert within the last hour" (`sentry/ingest.py:218`) | `BurstThenLogin`, `LoginWindow = 2` | A login right after an attack, read an hour late, is filed as routine. |
| `Detect!TotalsNeverShrink` | "totals across the whole incident" (`sentry/detect.py:18-21`) | `LongIncident`, `Retention = 1` | A sweep makes the total of an open incident go down. |
| `Ingestor!SamplesAreSwept` | "Kept short (see prune)" (`sentry/db.py:111`) | `MaxTime = 18`, no upsets | Host samples are never deleted. |
| `PortSync!AppearanceRaisesEvent` | "A port that appears when it was not there before raises a `NEW_PORT` event" (`README.md:287`) | as in `ports` | A port that reopens within the hour raises nothing; the feed ends with its closing. |
| `Fail2Ban!DeductionWasMeasured` | "A rule whose input is unavailable does not deduct" (`sentry/score.py:12`) | one thread | The score deducts for a client that nothing has asked yet. |
| `TimeParse!SkewIsTolerated` | "still catches the new-year rollover" (`sentry/timeparse.py:39-41`) | `NewYear`, `LateWrites` | A line of the new year in a cycle that began in the old one is dated a year back. |
| `Score!BlindnessNeverDeducts` | "A rule whose input is unavailable does not deduct" (`sentry/score.py:12-14`, `README.md:299-300`; "'Unknown' is a distinct answer from 'no'" in score deductions, `PRODUCT.md:178-180`) | as in `score` | A fail2ban that runs and cannot be asked (refused, timed out: "unknown" by `sentry/enrich/fail2ban.py:12-14`) costs ten points (`sentry/score.py:144`). `OnlyFail2BanPunishesBlindness` says that no other rule does this. |
| `Score!UnavailableIsListed` | "it is listed as not assessed" (`README.md:299-300`) | as in `score` | Unreadable `/proc` counts as no listeners; fail2ban is never listed. |
| `Score!NobodyIsOverlooked` | "it reports unknown rather than guessing in either direction" (`sentry/collect/users.py:12-13`) | as in `score` | Denied is who is let in by a pattern or a `USER@HOST` in `AllowUsers`, by a key that is not in `.ssh/authorized_keys`, or by a password that PAM asks for. `DenialsAreSshds` says that these are the only ones. |
| `Score!BlindIsNotQuiet` | "must never resemble a quiet network" (`PRODUCT.md:176-177`) | as in `score` | With its logs unreadable a host scores 100, nothing "not assessed". |
| `Score!FullDiskShows` | the same sentence | as in `score` | The newest sample counts whatever its age: with the sampler stopped a full disk costs nothing and is not listed. |
| `Score!PolicyIsEffective` | "each account is resolved against the effective sshd policy" (`sentry/collect/users.py:8`) | as in `score` | Of a directive given twice sshd takes the first, the code the last. |
| `Score!AccessIsCertain` | "it reports unknown rather than guessing in either direction" (`sentry/collect/users.py:12-13`) | as in `score` | Root with passwords on, no key and `prohibit-password`, and accounts outside `AllowGroups`, are said to have access. |
| `Score!NoShellNoSession` | "An account with a nologin shell cannot open a session" (`sentry/collect/users.py:4-5`) | as in `score` | The empty shell counts as one; it stands for `/bin/sh`. |
| `PortSync!LoopbackIsNotPublic` | "a service bound to 127.0.0.1 is not reachable", `_classify("::1") == "loopback"` (`sentry/collect/ports.py:13-15`, `tests/test_collect.py:20`) | as in `ports` | `_hex_to_ipv6` spells `::1` out in full, which `_classify` does not know: public, high severity. |
| `Queries!SharesAddUp` | "cannot inflate the denominator" (`sentry/api.py:194-195`) | as in `detect` | A sweep between the two statements of an answer makes the shares exceed the whole. |
| `GeoIp!UnreadableWasTried` | "database unreadable" (`sentry/enrich/geoip.py:46`) | as in `fail2ban` | Said of a valid database while another thread opens it. |
| `GeoIp!NoAlertIsStopped` | "it must never be able to stop one from being recorded" (`sentry/enrich/geoip.py:8-9`) | as in `fail2ban` | An invalid database raises an error of the library's own, which `_ensure_reader` does not catch: the cycle that was recording an alert ends. The next one succeeds (`OpenedOnce`). |
| `GeoIp!ReadyMeansCountries` | the status of `/api/health` (`sentry/api.py:371`) | as in `fail2ban` | It is the API's resolver's; the worker's may have looked before the file was there. |

### Fairness

Only `tail` has a liveness property. `FairSpec` assumes weak fairness of each
worker's cycle (`run_forever` loops whatever a cycle raises and never blocks
for ever: the lock has a timeout and so have the commands), of `EndLine`, `Create`
and `Reopen` (the daemon finishes the line it has begun, logrotate creates the file it
moved away and signals the daemon). Nothing obliges the daemon to log, a rotation
to be due, or a crash not to happen; crashes are bounded, since a cycle that dies
every time stores nothing. `OutageIsAnnounced` and `FeedIsSwept` are bounded-time
statements, safety over the clock, and need no fairness.

## 4. The proofs

Every invariant and every action property that a passing run checks is also a
theorem, for all values of the constants. What stays with TLC is named at the end
of this section.

| Module | Proves for |
|---|---|
| `LogTailProofs` | any number of workers, inodes, lines, rotations and crashes, any noise; the environment each theorem names |
| `DetectProofs` | every finite log, all thresholds, windows, retentions and clocks, cycles that read any lines in any order and again (`InOrder` may be either); any hour and day of the reads |
| `IngestorProofs` | any sources, intervals and upsets |
| `CollectProofs` | any finite set of ports and interfaces, any addresses, counters of any width |
| `EnrichProofs` | any number of threads, any time-to-live and duration of a query, enabled or not; any file at any step |
| `TimeProofs` | any years, any moments in them, any number of slots in a day |
| `ScoreProofs` | every host, any set of configurations, any budget, with or without the collectors |

| Theorem | States |
|---|---|
| `LogTailProofs!TypeCorrect` | `Spec => []TypeInv` |
| `LogTailProofs!NoDoubleCountTheorem` | without rotation in mid read: `Spec => []NoDoubleCount` |
| `LogTailProofs!KeyNamesItsLineTheorem` | if files stay: `Spec => []KeyNamesItsLine` |
| `LogTailProofs!ReadLinesTheorem` | if files stay: `Spec => ReadLinesAreStored` |
| `LogTailProofs!DeliveryInvariant` | under renaming alone: `Spec => []DeliveryInv` |
| `LogTailProofs!UnreadIsReachableTheorem` | under renaming alone: `Spec => []UnreadIsReachable` |
| `LogTailProofs!DeliveryTheorem` | under renaming alone: `Spec => Delivery!SafeSpec` |
| `DetectProofs!TypeCorrect`, `Invariant`, `DetectInvariant` | `Spec => []TypeOK`, `[]IInv`, `[]DetectInv` |
| `DetectProofs!EvidenceTheorem` | `Spec => []AlertBackedByEvidence` |
| `DetectProofs!DisjointTheorem` | `Spec => []IncidentsDisjoint` |
| `DetectProofs!FeedTheorem` | `Spec => []FeedMatchesAlerts` |
| `DetectProofs!UpToDateTheorem` | `Spec => []DetectionUpToDate` |
| `DetectProofs!LoginsTheorem` | `Spec => []LoginsMatchRows` |
| `DetectProofs!TotalsTheorem` | `Spec => []TotalsAreEvidence` |
| `DetectProofs!AnnouncedTheorem` | `Spec => NewAlertIsAnnounced` |
| `DetectProofs!OnlyGrowTheorem` | `Spec => AlertsOnlyGrow` |
| `DetectProofs!JustifiedTheorem` | `Spec => NewAlertIsJustified` |
| `DetectProofs!BreachTheorem` | `Spec => NoBreachSlipsBy` |
| `DetectProofs!ThreatTheorem` | `Spec => []ThreatIsNotMissed` |
| `DetectProofs!ChartTheorem` | `Spec => []ChartMatchesTotals` |
| `IngestorProofs!IngestorTypeCorrect`, `IngestorInvariant` | `Spec => []TypeOK`, `[]IngestorInv` |
| `IngestorProofs!BlindnessTheorem` | `Spec => []BlindnessShows` |
| `IngestorProofs!IndependenceTheorem` | `Spec => []SourcesAreIndependent` |
| `IngestorProofs!OutageTheorem` | `Spec => []OutageIsAnnounced` |
| `IngestorProofs!SweptTheorem` | `Spec => []FeedIsSwept` |
| `CollectProofs!CollectIsPortSync` | `CollectSpec => Spec` (of `PortSync`) |
| `CollectProofs!PortInvariant`, `CollectInvariant` | `CollectSpec => []PortInv`, `[]CollectInv` |
| `CollectProofs!BaselineTheorem` | `CollectSpec => []BaselineOnce` |
| `CollectProofs!AnnouncedTheorem` | `CollectSpec => []KnownPortsWereAnnounced` |
| `CollectProofs!ExposureTheorem` | `CollectSpec => PublicExposureIsRecorded` |
| `CollectProofs!ThroughputTheorem` | `CollectSpec => ThroughputIsReal` |
| `CollectProofs!KnownTheorem` | `CollectSpec => RatesAreKnown` |
| `EnrichProofs!EnrichIsBoth` | `EnrichSpec => Spec /\ GeoSpec` |
| `EnrichProofs!ClientTypeCorrect`, `ClientInvariant` | `Spec => []TypeOK`, `[]ClientInv` |
| `EnrichProofs!RecentTheorem` | `Spec => []AnswerIsRecent` |
| `EnrichProofs!SpacedTheorem` | `Spec => []QueriesAreSpaced` |
| `EnrichProofs!VerdictTheorem` | with one thread: `Spec => []VerdictWasGiven` |
| `EnrichProofs!GeoTypeCorrect` | `GeoSpec => []GeoTypeOK` |
| `EnrichProofs!OpenedOnceTheorem` | `GeoSpec => []OpenedOnce` |
| `TimeProofs!TimeInvariant` | `Spec => []TimeInv` |
| `TimeProofs!YearTheorem` | `Spec => []YearIsRight` |
| `TimeProofs!LeapDayTheorem` | `Spec => []OnlyLeapDaysAreDropped` |
| `TimeProofs!NearTheorem` | `Spec => []StampIsNear` |
| `ScoreProofs!ScoreTypeCorrect` | `Spec => []TypeOK` |
| `ScoreProofs!BlindnessTheorem` | `Spec => OnlyFail2BanPunishesBlindness` |
| `ScoreProofs!SeriousTheorem` | `Spec => []SeriousIsNeverGood` |
| `ScoreProofs!DenialsTheorem` | `Spec => []DenialsAreSshds` |
| `ScoreProofs!WeakSshdTheorem` | `Spec => []WeakSshdCosts` |

### The arguments

**LogTail.** Each theorem is about the widest environment we know it to hold in.
`Undisturbed` (no rotation between a cycle's `stat` and its commit) is all that
`NoDoubleCount` needs: then a cycle's label is the inode of the path, and `KeyInv`
says that among the rows, the batches under way and the lines that a cycle may still
read (`Shown`) a line has one key. Truncation and a reused inode change which line a
key names, but never give a line a second key, because what a new file holds is
newer than everything known (`LinesArePast`). With `FilesStay` (no truncation and no
reuse either) `FilesOnlyGrow` adds that a key still names its line, so that what `INSERT OR
IGNORE` drops is a line that is stored. These two theorems together with the runs
`tail_mid_read` and `tail_truncate` say which environments the comment on the key
(`sentry/db.py:8-10`) is true in.

Delivery needs `OnlyRenames`: logs are rotated by renaming, never while a cycle runs
or twice without a commit between, and the daemon reopens the path before it writes
again. logrotate's daily schedule beside a cycle every ten seconds makes the first
two likely, nothing enforces them, and `tail_mid_read` shows what happens otherwise.
`WriterInv` says where each written line is, `PositionInv` that what lies behind the
saved position is accounted for, `RowsInv` that the rows are ascending and reach
down without gaps, and `BatchInv` the same of what a cycle under way will have
covered when it commits. The proof is about any number of workers: when a slower one
commits after a faster one, its position goes back, and the invariant holds because
`Covered` speaks of what is accounted for, which only grows. `DeliveryTheorem` maps
the rows to `delivered` and the written lines, in order, to `written`: a line that
the daemon completes is a `Write`, a commit that stores rows a `Deliver`, every
other step a stutter.

**Detect.** Of `Detect`'s properties none is inductive: they speak of `db`,
which `Commit` replaces by `txn`. `IInv` states the same `TablesConsistent` of both, of `txn`
up to what the cycle still has to do (`todo` for `CaughtUp`, `logins` for
`LoginsRecorded`); at `Commit` both lists are empty. `IncidentsDisjoint` has to be
strengthened: two alerts about one subject must be apart by more than a window
(`Apart`), because `Escalate` reaches back a window before its anchor and could
otherwise run into the alert before. That is where `CooldownCoversWindow` is
needed: `config.py` reads window and cooldown independently, and with a cooldown
shorter than the window (its defaults are equal for ssh) the alerts of one
incident may overlap. For the sweep the invariant has that an entry of the feed
is never younger than its alert (`e.ts <= a.last`), so one cutoff for both removes the
entry no later than the alert, and an id is free only when nothing refers to it.
`DetectInv` adds how `txn` compares with `db` while a cycle runs: `AlertsGrown`,
`NewAlertsJustified`, `LoginsFiled`, and the totals. An action property of `db` is
then what these say at `Commit`, and at `Prune` what the sweep keeps.

**Queries.** `ThreatIsNotMissed` follows from `DetectionUpToDate`: the alert that
reaches to the newest row is active. `ChartMatchesTotals` is about a sum: a row in the
day's total lies in the bucket of its hour, in the first, partial hour, or ahead;
`OrderedProofs!SumOfClasses` says that sizes of disjoint classes add up.

**Ingestor.** `Timely` bounds where the clock can be at each stage. From it, what a read,
a commit and a sweep leave behind is bounded too: `SoundSources` says that a readable
log is `Fresh`, an unreadable one `Announced`, or the cycle that will see to it has
begun or is due (`Early`); `SweepIsNear` counts the cycles that are left to the next sweep. It
needs `RetentionCoversHours`, and freshness needs `StaleAfterCoversACycle`: the defaults leave a cycle 25
seconds, and `config.py` checks neither.

**PortSync.** `BaselineOnce` alone is not inductive, and in an earlier form (at most
one `MONITOR_START`) said less than the code's comment: it now says that the state is
empty exactly as long as nothing was recorded, and that the baseline is the first
entry. That is what `SyncNothing` is for, and why `FirstSync` has no port to announce.

**Rates.** `RatesInv`: what the collector remembers and what has passed since make up
what the kernel shows, exactly, or, when a counter fell, at most. A rolled back cycle
keeps both sides in step, and a restart drops both.

**Fail2Ban.** `CacheInv` bounds the age of the next answer: a query in progress has not
run longer than `MaxQuery`, its outcome is not older than its beginning, and while nobody
queries the outcome behind the cache is not older than the fetch by more than a
query, so a cache hit adds at most `Ttl`. `SpacedInv` counts queries up to the time of the
last fetch, or of the one that is going on; `FlagInv` ties the flag to the list from when the list is set.
With one thread nothing comes between the list and the status, which is
`VerdictTheorem`: what `fail2ban_race` finds is due to threads alone.

**GeoIp.** `OpenedOnce` is not inductive because a second thread might still be on its way to
`Open`; `GeoInv` adds that whoever is inside the lock has set `_attempted` and that
nobody has tried the file before, which the second read under the lock preserves.

**TimeParse.** The proofs are about the calendar: years do not overlap, a moment's year
and stamp give the moment back, a stamp read in the year after is between 365 and 366
days later, and 29 February is the only day that not every year has.

**Score.** The nine rules are looked at one by one (`NoRuleIsAdded`): none deducts of a host
that lost an input what it did not deduct before, but fail2ban's when a query
fails; so the sum grows by that rule's points at most. `DenialsAreSshds` compares the last
directive of a keyword (the code's) with the first (sshd's), which are the same
where it is given once (`GivenOnce`). Of an account that sshd admits, each early return of
`_classify_access` is then ruled out: a name in `DenyUsers` matches it from everywhere
(`NameMatches`), root is not barred, and who is not on the list by name, or has no
credential that the code knows of, was let in by one of the named cases. The theorem
is about all patterns and origins and not only those of the run.

**Assumptions.** `LogTailAssumption`, `DetectAssumption`, `QueriesAssumption`, `IngestorAssumption`,
`PortSyncAssumption`, `RatesAssumption`, `CollectAssumption`, `Fail2BanAssumption`, `GeoIpAssumption`,
`TimeParseAssumption` and `ScoreAssumption` are types, finiteness (a log, the ports and the
interfaces of a host), and values that can be told apart from others. Three say something of the
configuration, each at its place above: `CooldownCoversWindow`, `StaleAfterCoversACycle`,
`RetentionCoversHours`. TLC evaluates all of them in the runs of those modules. The three
environments of `LogTail` and the single thread of `VerdictTheorem` are hypotheses of
their theorems and not of the module, since other runs are about their negations.

**Layout.** Lemmas say what an operator returns (a selection of rows, a file read from an
offset, a month's first day, the least element of a set), then what an action
makes of the state, then that it keeps one part of the invariant; the invariant's
proof has one step per action, the theorems cite it. Where data would call for
induction, the lemma is about a set and argues from a least counterexample
(`OrderedProofs`), which needs no operator as a parameter.

**Only model-checked.** Liveness: the fairness part of `DeliverySpec`, for which the steps
above are the safety half; it needs `ENABLED`. The four properties of the runs that
expect a violation are refuted and not proved, but for the hypotheses under which two
of them hold. `TimeInv` and `ScoreProofs`' types are proved without being in a run.

## 5. Not modelled

* The regular expressions of the parsers, service names, wording of events: text.
* `/api/events`, `/api/ports`, `/api/users` and `/api/host`: they return rows that other
  components own, filtered or joined by one statement; rendering.
* The dashboard (`static/app.js`): a timer that does not wait for the last refresh, so
  an older answer may be drawn over a newer one until the next.
* Memory, load, uptime and the collectors of macOS: readings without state.
* Comments, `Include` and `Match` blocks of `sshd_config`: the code reads neither of the
  last two, and a configuration of the model has none. Nor the spellings that sshd takes
  and the code does not split (`key=value`, quoted values), nor Kerberos and host-based
  authentication, by which an account may get in without key or password. By any of
  these a denial can be wrong that `DenialsAreSshds` does not speak of. Keywords by which
  sshd only refuses (`DenyGroups`, `AuthenticationMethods`) bear on `AccessIsCertain` alone,
  which is refuted without them.
* A `<path>.1` that is compressed, unreadable or gone when it is to be drained: the
  tailer gives its tail up by design (`sentry/tailer.py:87-90`); `LogTail` assumes that it is there.
* With a database that fails, a state read that fails for a source whose log is
  there, and a `record_tail_error` that ends the cycle (`sentry/ingest.py:105-124`): see `Ingestor!Read`.
* A `fail2ban-client` that exits with 0 and prints no list, which the client takes for
  an empty one.
* Reading the environment: parameters are CONSTANTS with named assumptions.
* SQLite itself: a transaction is atomic, a rollback leaves nothing, and one
  process writes at a time.
* A copytruncated file that outgrows the saved offset before the next cycle, and
  the file that two quick renames skip: the tailer cannot see either. They are in
  the hazards.
* Daylight saving time in the year inference.

## 6. Plan

Done: `LogTail` with `LogDelivery`, `Detect` with `Queries`, `Ingestor`, `PortSync`
and `Rates` in `Collect`, `Fail2Ban` and `GeoIp` in `Enrich`, `TimeParse`, `Users`
and `Score`; theorems for the invariants and action properties of all of them.

Proving, in this order, what the sentences of section 3 need to be true:

1. `PositionNeverRewinds` for one worker; `BreachIsFlagged` and `EveryBurstAlerted` for a
   cycle that reads each line as it is written; `TotalsNeverShrink` between sweeps.
2. `SkewIsTolerated` without `LateWrites`; `SharesAddUp` over one database;
   `DeductionWasMeasured` after the first query; `UnreadableWasTried` for one thread.
3. `AppearanceRaisesEvent` for a port that stays closed over the turn of an hour;
   `LoopbackIsNotPublic` for version 4; `NoAlertIsStopped` with a database that is valid or absent.

Extending the model:

1. `Cycle`: `LogTail` and `Detect` composed over one table, two sources, so that a double
   count becomes a false alert and a lost line a missing one; one rotation and three
   lines per source.
2. `Dashboard`: overlapping refreshes, slow panels, an API that goes away.
3. The copytruncated file that regrows.

## 7. Running

    tlc -workers 2 -config MCLogTailTwo.cfg MCLogTail
    tlc -workers 2 -config MCCollect.cfg Collect
    tlapm DetectProofs.tla

`PROJECT.json` pairs every configuration with its module. The definitions marked
"Mutant" beside an operation are the mutated forms of it that each property is
known to catch.
