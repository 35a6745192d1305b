# TLA+ models of AI-SOC-Agent

This directory holds TLA+ modules translated from `src/src/ai_soc_agent`, TLC
configurations that model-check them on small instances, and proofs checked by
TLAPS. Paths below are relative to `src/src/ai_soc_agent` unless they say
otherwise.

## 1. The system

AI-SOC-Agent turns log lines into normalized events, keeps recent events in a
bounded window, runs a fixed set of MITRE ATT&CK rules over the window and
reports what they find, over HTTP, as JSON lines, or through a gateway adapter.

| component | state | operations | called by |
|---|---|---|---|
| Event window, `state.py` | sorted bucket, duplicate index and watermark per namespace; sequence counter | `append`, `snapshot`, `prune_expired` | server, syslog service |
| Rules, `patterns/*.py` | none | `matched_groups` through `qualifying_windows` | correlator |
| Correlator, `correlator.py` | none | `detect_patterns`, `correlate` | server, syslog service, CLI |
| Alert server, `server.py` | event window, alert dict, lock | `POST /ingest`, `GET /alerts`, `/health`, `/feedback` | HTTP clients, on a thread pool |
| Alert repository, `persistence.py` | one SQLite table | `load`, `apply`, prune | server |
| Syslog receiver, `ingest.py` | bounded queue, counters, transport, consumer task, two flags | datagram callback, `start`, `drain`, `close` | CLI, asyncio |
| Finding cooldown, `dedup.py` | ordered dict fingerprint -> time of acceptance | `accept` | syslog service, adapter |
| Syslog service, `cli.py` `_serve_syslog` | one window, one cooldown, one receiver | `handle(event)` | receiver |
| Feedback store, `feedback.py` | bounded list, lock | `add`, `query`, `count`, `summary` | server |
| Elasticsearch source, `sources/elastic.py` | none kept | `fetch_events` (paging) | CLI |
| Parsers, `parsers.py` | position and `_SyslogYear` within one file | `parse_line`, `parse_*`, `parse_file` | CLI, receiver, Elasticsearch source |
| Field mapping and enrichment, `field_mapping.py`, `enrichment.py` | none | `map_event`, the continent and the credential enricher | correlator |
| Batch commands, `cli.py` `scan`, `elastic` | the events of one run | load, `detect_patterns`, print | user |
| Settings, `config.py` | none | environment to numbers and sets | everything above |

Interactions. `POST /ingest` takes the server's lock to append to the window and
take a snapshot, lets go of it while the rules run, takes it again to merge what
they found into the alert dict, and commits to the repository before it assigns
the dict. The syslog service is one event loop: a callback fills the queue, one
consumer task empties it and calls the handler, which appends, detects, asks the
cooldown and writes, without an await. `POST` and `GET /feedback` run on the same
thread pool and share nothing with the alerts but the process. The batch commands
load everything first, from a file, a payload or page by page from Elasticsearch,
and run the rules once.

What is hard here: two requests whose snapshots are merged in the wrong order; a
commit that fails or a process that dies between two steps; the same bound
enforced by two rules (insertion order in memory, time on disk); coroutines that
test a flag before an await and act after it; `queue.join()` counting, where one
missed `task_done` blocks `close()` for ever; event time and wall-clock time,
neither of which is monotone; fingerprints and thresholds that depend on which
events are still in the window; one answer read under three holds of a lock;
paging by offset over something that moves; years guessed from months; a
fallback that starts a file again after half of it has been used. `PROJECT.json` lists each hazard with its line
and the properties that would catch it.

What makes the components correct, in a sentence each:

- window: the index is exact, the newest events are kept, counts add up;
- rules: the incremental loop finds the widest evidence, within window and cap;
- server and repository: memory equals disk, both bounded, no current
  detection lost, no count going down;
- receiver: every datagram is counted once, `drain` and `close` wait for what
  they must and return;
- cooldown and service: what is detected is accepted again once the clock shows the
  end of its cooldown, nothing is repeated within one;
- feedback: paging misses nothing that stays, the parts of an answer fit together;
- batch loading: a file is read in full and in order, its years are right up to
  the lines that were logged late, paging loses no more than the index changed;
- mapping and enrichment: a rule sees only validated continents and credentials,
  and the account a record names is the one it groups by, unless field mapping
  takes that account for empty.

## 2. The modules

| module | models | composed of |
|---|---|---|
| `EventWindow` | `WindowStateStore` | |
| `Subsequences` | selecting from a sequence and sorting a set, as operators that can be reasoned about | |
| `WindowRules` | the rules as data, and a from-scratch definition of what a rule reports | |
| `QualifyingWindows` | the loop of `qualifying_windows`, one event per step, and the correlator's older detectors | `WindowRules` |
| `Detection` | `detect_patterns` and the fingerprint of a finding, as operators | `WindowRules` |
| `AlertTable` | what the alert service promises of its alerts: an abstract specification | |
| `AlertServer` | `/ingest` on several threads, alert dict, SQLite repository | an `EventWindow` instance; implements `AlertTable` |
| `SyslogReceiver` | `SyslogUDPReceiver` | |
| `FindingDedup` | `FindingDeduplicator` as operators on its dict | |
| `SyslogPipeline` | `_serve_syslog.handle` | an `EventWindow` instance, `Detection`, `FindingDedup` |
| `FeedbackStore` | `FeedbackStore` and the `/feedback` endpoints | |
| `EventParsers` | the parsers, for one line or record | `WindowRules` |
| `EventPreparation` | field mapping and the two enrichers, for one event | `WindowRules` |
| `EventSource` | what the three ways of loading share | `EventParsers` |
| `LogFile` | `parse_file`, one line per step | `EventSource` |
| `ElasticSource` | `fetch_events`, one request per step | `EventSource` |
| `BatchScan` | the `scan` and `elastic` commands | `LogFile`, `ElasticSource`, `EventPreparation`, `Detection` |
| `MC*` | small instances | the module they extend |
| `SubsequencesProofs` | lemmas about `Subsequences`, sorting, flattening and induction | |
| `*Proofs` | theorems about `EventWindow`, `QualifyingWindows`, `AlertServer`, `SyslogReceiver`, `SyslogPipeline`, `FeedbackStore`, `BatchScan` | the module they extend, `SubsequencesProofs` |

Operators marked *mutant* in a comment stand beside the definition they vary: each
is a plausible bug, which the property named for it in `PROJECT.json` must catch.

### EventWindow

An event is identified with its fingerprint, `Ts[e]` is its time. The lists
`self._events[ns]` are always sorted by `(ts, sequence)` and only lose prefixes,
so `stored` is one set of `[ns, seq, event]` records ordered by `Older`.
`fingerprints`, `watermark` and `sequence` are the attributes of those names (an
absent key is `{}` or `NoWatermark`), `result` is the last `StateAppendResult`.
`AppendBatch` is all of `append`: watermark and cutoff, the loop that counts
expired and duplicate events and numbers the others, expiry, the capacity over
all namespaces, and the removal of empty namespaces. Each call is one step since
its callers hold a lock, or own the store.

### WindowRules and QualifyingWindows

`Predicate`, `GroupKey`, `Dimension` and `Evidence` give each of the six rule
variants its filter, grouping key, counted dimension and threshold. Field values
are abstract names; `None` is an absent field, `Dash` one that is present and a
placeholder to the rules (`""`, `"-"` or `"unknown"`), because some helpers fall back
for both and others only for the first. The raw text of an event is `"sudo"` if it
mentions that word anywhere and `None` otherwise (`Mentions`): no rule asks more of it.
`QualifyingWindows` then runs the loop: `windows` are the deques, `matched` the
dict in insertion order. Its properties compare it with `WidestEvidence`, which
has no deque and no running state.

`older` is what the correlator's older detector of the same rule reads of the same
events (`LegacyStamped`): any failure that has a key, of the families required,
whatever its action and whoever is on the allowlist. `LegacyAgrees` says what the two
still have in common. A group that is reported has an older alert; an older alert
has its group reported, unless it counts an event the rule does not look at or more
events than the cap.

### AlertServer

`stored ... result` belong to the `EventWindow` instance `W`; `alerts` and `order`
are the alert dict and its insertion order, `disk` the table. A thread's request
is `Ingest` (first locked section), `Commit` or `CommitFails` (second section up to
the SQLite commit) and `Publish` (the assignment of `store.alerts`, still under
the lock). `Crash` loses everything but `disk`; `Restart` is `create_app`, perhaps with
another capacity: prune, load newest first, delete malformed rows. `Correlate` is a parameter: the MC module
defines it from the brute-force rule of `WindowRules`.

`AlertTable` says what that amounts to without threads, window, lock or database:
one table from incident to alert, in which a report may replace an alert only by
one with more evidence and gives alerts up only when the table is full, and which
a restart reads back unchanged but for what no longer fits or cannot be read.
`ImplementsTable` maps `table` to the alert dict while the service is up and to the
rows on disk while it is down: a crash between a commit and its publication is then
a stop that makes the report in full, and a crash before the commit one that makes
none of it.

### SyslogReceiver

A step is what the event loop runs between two awaits. `Datagram` is the callback;
`Get*` and `Handler*` are the consumer task; `Start`, `Bind`, `StartWorker`, `Drain`,
`Close`, `PutStop`, `CloseReturns` are the coroutines, each cut at its awaits.
`unfinished` is the count behind `queue.join()`. asyncio itself is external:
`HasRoom` and `TaskDone` say how its queue is used.

### FindingDedup and SyslogPipeline

`entries` is `_accepted_at` in dict order. `Handle` is the whole handler: the event
is parsed with the year of the wall clock (`Parsed`; syslog text has no year),
appended, the snapshot is run through the rules in registration order, and each
finding goes through `accept`. `WriteFails` is the same call when `click.echo`
raises: the findings have been accepted all the same and are not written until their
cooldown is over, so the properties speak of acceptance. `ledger` is a history of acceptances, each with the snapshot it was found
in, that the properties speak about.
`SetClock` moves the wall clock, backwards too.

### FeedbackStore

`Build` is `add()` up to the lock, with the timestamp; `Store` is what it does
under the lock. The reader's `Query`, `Count` and `Summary` are the three calls
`GET /feedback` makes one after another; `NextPage` and `ReadAgain` are a client
that asks for page after page. The two filters work alike and are one here.
`beside`, `seen` and `owed` are history.

### EventParsers, EventSource, LogFile

A line or record is what the regular expressions and decoders make of it: its
form (`record`, `other`, `noise`, `blank`, `cut`) and its fields. `ParseSshd`,
`ParseEvtx`, `ParseNginx` and `ParseOkta` give the event a parser returns, or none.
`LogFile` reads a file line by line: `Resolved` is `_SyslogYear.resolve`, which knows
a month by its usual spelling only (`in_months`), while `strptime` takes any case, so
a line with another spelling is dated with the year as it is;
`StreamRecord`, `StreamBreaks` and `RereadLine` are the evtx reader, which streams
one document and on a parse error reads the file again as lines;
`LoadOktaDocument` and `ReadOktaLine` follow from what the first line is. A
document is modelled with each record on a line of its own. `from`, the line an
event was read from, is history.

### ElasticSource

`FetchPage` is one round of the loop: request at `offset`, in any order the
timestamps allow, convert the hits, advance, and stop on a page that is not full or
raise after the last allowed one. `DocumentComes` and `DocumentGoes` are the index
changing between requests; Elasticsearch itself is external.

### EventPreparation and BatchScan

`MapEvent`, `EnrichGeo` and `EnrichCredential` (together `Prepared`) are `map_event` and the two
enrichers on the dict of an event's extra fields; the several names of one field
are one key. The mapping has its own set of values that say nothing, which is larger
than the rules' (`_EMPTY_VALUES`, compared without case): `Null` stands for a text that is in the
first set only, such as `null` or `none`. An enricher leaves an event alone
only if it carries the enricher's own version (`GeoVersion`, `CredentialVersion`), and the
credential enricher replaces the raw text of an event it took a credential from. `BatchScan` puts the loaders in front of `Detection`: a load that
fails leaves nothing to scan, and `BatchOrder` is the order of the rules. In this
mode nothing puts the credential rule in its cross-source mode, although
`patterns/credential_stuffing.py:9` says the CLI drives that one.

## 3. The runs

| run | question | result |
|---|---|---|
| `event_window` | do dedup, expiry and shared capacity stay consistent? | holds |
| `qualifying_windows` | does the deque loop compute the widest evidence, in order, monotonically, and how far do the older detectors agree? | holds |
| `alert_server` | do racing requests, faults and restarts keep memory and disk equal, lose no detection, and implement `AlertTable`? | holds |
| `syslog_receiver` | are datagrams accounted for, does whoever waits have someone to wait for, and do `start`, `close` and a `drain` beside it return? | holds |
| `syslog_pipeline` | is anything kept silent after its cooldown, repeated too early, or repeated under a new fingerprint without cause? | holds |
| `feedback` | does a reader miss anything, or get parts that do not fit, while others write? | holds |
| `batch_scan` | are files read in full, with the right years and accounts, and is paging as good as the index allows? | holds |
| `active_buried` | is an incident that goes on listed above one that ended? | violated |
| `capacity_newest` | does capacity keep the newest alerts? | violated |
| `suppressed_actors` | do allowlisted actors never raise a finding? | violated |
| `fresh_expired` | are fresh events always accepted? | violated |
| `evtx_twice` | does a brute-force finding count each failed login once? | violated |

### What the violations show

- `active_buried`: the merge skips an alert whose count is not *greater*
  (`server.py:247`). In the trace address 1 fails twice, then address 2, then the
  first burst expires and address 1 fails twice again: the second burst has the same
  size, so the alert keeps the `last_seen` of the first and is listed below that of
  address 2. `GET /alerts` sorts by `last_seen` because an active incident was
  buried otherwise (the comment at `server.py:293`).
- `capacity_newest`: after a restart the dict is in `load()`'s newest-first order,
  and eviction pops its first key: the newest alert is deleted.
- `suppressed_actors`: the allowlist is asked about a rule's grouping key, which is
  a user for most rules; an allowlisted address still raises findings there.
- `fresh_expired`: one line sent on 31 December and received on 1 January moves the
  watermark a year ahead; everything after it is refused as expired.
- `evtx_twice`: the evtx reader yields what it has streamed before the parser
  raises, then reads the file again from its first line (`parsers.py:460`): a
  torn export, or one with a record on every line, gives records twice.

Two disagreements between a comment and the code beside it have no run of their own,
since a property that holds says what the code does instead:

- the docstring of `qualifying_windows` (`patterns/base.py:103-109`) promises "the first
  qualifying sliding window for *each* group", "capping at the first window per group".
  The loop returns the widest, as the comment at `133-135` says ("Keep the widest evidence
  this group ever reaches rather than stopping at the first qualifying window") and
  `EvidenceIsWidest` confirms. Of three events of one group within a window and a
  threshold of two, the docstring has the first two and the code all three.
- `dedup.py:36` says "Suppress repeated fingerprints for one bounded cooldown period".
  `accept` compares `now - previous` with the cooldown (`dedup.py:66`), and a negative age
  is smaller too: a finding accepted at 8, with a cooldown of 2, is still suppressed after the
  clock has been set back to 7, so the silence lasts for the step back as well. What holds
  is `EveryDetectionEmitted`: no finding goes unaccepted once the clock shows the end of
  the cooldown.

Two more observations that no text of the repository contradicts, and that are
therefore not runs: `close()` during `start()`'s await is undone when `start()`
resumes (`_serve_syslog` awaits `start()` first), and a burst is reported again,
under a new fingerprint and before its cooldown is over, when the event it started
with leaves the snapshot. `RepeatsHaveCause` says that a repeat has more evidence,
or an earlier first event, or some event of the earlier report is no longer in the
snapshot; rules that count kinds of events can also lose one of these to the cap on
a window. An earlier form of it said that the snapshot now starts later than the
earlier report. The run then had no events to refute that with, and the attempt to
prove it failed for a good reason: the event that left may share its timestamp
with another that stays. The property was restated about the events themselves,
and the run has been given messages with which TLC refutes the earlier form.

### Bounds, and why they are enough

- `event_window`: two namespaces, four events at times 0, 2, 2, 4, horizon 2,
  room for three, batches of up to two, sequence up to 5. Two events share a
  time, two are exactly one horizon apart, one pair is further apart, and both
  capacity eviction across namespaces and re-insertion after eviction happen.
- `qualifying_windows`: lists of up to five events from a set per rule, window 2,
  cap 3, threshold 2: events at, inside and beyond the window boundary, windows
  over the cap, two groups, placeholder and missing fields.
- `alert_server`: two threads, two identities, window events at three times; the
  capacity is 1 or 2 and chosen anew at every restart: 1 forces eviction, 2 lets
  everything fit (the premise of `NoDetectionLost`). Two faults cover a failed
  commit followed by a crash, one row may be malformed. `capacity_newest` needs
  three identities and one thread.
- `syslog_receiver`: queue of two and four datagrams fill and drain the queue with
  a handler suspended; `main` runs start and close, `other` drains twice.
- `syslog_pipeline`: two addresses, New Year at time 8, six messages of which
  several share a time, clock 7..9 with a year of
  8, horizon 3, cooldown 2, one cache entry (so that two findings compete), a
  snapshot of three events and four stored ones (5000 and 10000 in the program,
  where the snapshot's limit binds first too), windows of at most three (512), one
  failed write. `fresh_expired` uses a
  clock that only moves forward, two cache entries and no failures, so that it
  does not depend on those.
- `feedback`: two writers and a reader, two labels, a list of three records, pages
  of one, five records in all: the list evicts twice while it is being paged, and
  two records overlap with a tick of the clock between them.
- `batch_scan`: a year of three months of two days with a leap day every fourth
  year; it is the first month of year 5, so that half the dates belong to the
  year before. Every sshd file of up to four lines out of nine, evtx files of up
  to three of eight in three shapes, nginx files of up to two of seven, Okta files
  of up to three of seven in two shapes, payloads of up to two items, and three
  indexes of three to five documents paged by one, two or two, with four, two or
  three pages allowed and up to two changes meanwhile. So a file can go back a
  month and come forward again, break at any line, and be re-read after it has
  given events; a page can be the last allowed, exactly full, or change under
  the reader before and behind it. Accounts called `null`, a month spelled
  unusually, and enrichers' marks of another version are among the lines and items.
- `active_buried` has an address that comes back after its first burst has expired,
  and room for everything.

Sequence numbers, datagrams, errors and faults are capped by guards
(`MaxSequence`, `MaxDatagrams`, `MaxErrors`, `MaxFaults`, `MaxFailures`, `MaxAdds`,
`MaxChanges`); in the program they are unbounded counters that no guard reads. For
safety that only cuts runs short. For liveness `MaxDatagrams` matters: see Fairness.
`CHECK_DEADLOCK` is never turned off: what may stop has a step for being done, and
where a bound ends a run the clock or the reader still moves.

Symmetry is used only over names the code does not compare (namespaces,
threads, labels), and never in the run with a liveness property.

### Fairness

Only `SyslogReceiver` has a liveness property, `CallsReturn`. It assumes weak
fairness of each coroutine's next step and of the consumer task's next step:
asyncio runs every ready callback, and a step here stays ready until it runs. It
includes that the handler returns or raises, true of the service's synchronous
handler. What it claims is that `start()` and `close()` return, and a `drain()` once
`close()` has stopped accepting. Before that `drain()` need not: `join()`
(`ingest.py:151-153`) waits for a moment with nothing unfinished, which datagrams that
keep coming while a handler awaits never give it. In the run they stop at
`MaxDatagrams`, so a claim about `drain()` on an open socket would rest on that bound,
and none is made. `close()` stops accepting before it waits (`ingest.py:160-164`), so
for what is claimed the bound is no such assumption. Datagrams, transport errors, a failing bind and a raising handler are
not fair: they may never happen. `AlertServer` has none: a thread may stall for
ever outside the lock, and no property says otherwise.

## 4. The proofs

Each theorem holds for every value of the constants that satisfies the named
assumption of its module, and every invariant below is proved in three steps:
`Init` establishes it, `[Next]_vars` preserves it, it implies the property.
`PROJECT.json` lists the theorems with the property each one states.

### EventWindowProofs

For any namespaces, events, horizon, capacity and
batches satisfying `WindowAssumption`, every reachable state satisfies
`TypeOK` with `SequencesUnique`, `IndexMatchesBuckets`, `NoDuplicateEvents`,
`WatermarkIsNewest`, `WithinHorizon` and `CapacityBound`, and every step
satisfies `OldestLeaveFirst`, `WatermarkMonotone` and `CountsAccountForSize`.

The inductive invariant is the conjunction of those state properties. It is needed
as a whole: a fresh event is new to the bucket only because the index is exact
(else it would be stored twice), the index can be updated by removing the evicted
events only because no event is stored twice (else one copy would stay without
an entry), and eviction by rank removes exactly the surplus only because
`(ts, sequence)` is a total order. The proof has one step per action and one per
conjunct. The lemmas say what expiry and capacity remove (a set closed under
`Older`), that the capacity cut leaves at most `MaxEvents` items, and that the batch
operators number fresh events injectively. Cardinality facts come from
`FiniteSetTheorems`.

### QualifyingWindowsProofs

For every rule, setting (`RulesAssumption`) and list of events
(`InputsAssumption`): the loop finds the widest evidence (`EvidenceIsWidest`),
within one window and the cap (`EvidenceWithinWindow`), in the order in which
groups first qualified (`ReportedInOrder`), an event more never means less
evidence (`MoreEventsMoreEvidence`), and the older detectors agree as far as
`LegacyAgrees` says.

Four parts of the inductive invariant say what the running state stands for.
`DequeExact`: a deque is the window that ends at its group's last event, for the
events it has dropped can be in no later window, time being sorted, and those the
cap has dropped in no later one either, being older than `MaxWindowEvents` others.
`MatchedOnce` and `MatchedComplete`: each qualified group is in the dict once.
`MatchedWidest`: with the evidence of the *first* window in which it is widest, as
the loop replaces it only by a longer one. `MatchedInOrder`: in the order of the
first qualifying windows, as a replacement keeps its place.

`MoreEventsNeverLess` is about two lists. The window in which a group is widest
after an event has been removed lies inside one window of the full list, and more
events have at least as many members and representatives; a rule that counts
kinds keeps the latest event of each, so the cap could cut one of them, and its
premise excludes that. `EvidenceThatStays` goes one further, for the service: if all the
evidence a group had in one list is also in another, then its evidence there is
larger, or starts no later.

`DetectorsAgree` compares two loops over two selections of the same events: the rule's
(`Relevant`) is part of the older detector's, in the same order. An older detector has a
deque it does not cut, a set of active groups and a list of alerts, and no running
evidence. Its invariant (`LegacyInv`) holds after every number of events read. A deque
lacks only events that the last one read has left behind by more than the window, so with
the next event it is that event's full window; every alert is such a window and meets
the rule; a group that is active, or ever had such a window, has an alert. A window of
the rule's loop lies inside the older detector's window at the same event, and meets the
requirement there too, so a reported group has an alert. An alert all of whose events are
relevant is a window of the rule's own list, and within the cap it is one the loop finds.

### AlertServerProofs

For any number of threads and identities, capacities, batches and faults
(`ServerAssumption`), and for any function `Correlate` from a set of events to alerts
of distinct identities that gives none for no events: `TypeOK`,
`OrderEnumeratesAlerts`, `MemoryMatchesDisk`, `NoDetectionLost` where all identities
fit (`IsFiniteSet(AlertIds)` is all the theorem asks besides the property's own
premise), and, with a database (`Durable`), the refinement `ImplementsTable`.

`ServerInv` adds to the properties what holds between a commit and the assignment
after it (`InFlight`): the thread in there is the only one, what it is about to
publish is still what merging its findings into the *present* dict gives, and it
is what is on disk. Without that, `Publish` could bring back a dict from before another
thread's merge. `MergeKeepsEvidence` is the lemma about the merge and
eviction themselves: what stays has the same evidence or more, and something is
given up only if the dict ends full. It gives the steps of the refinement
(`Report`, or `Stop` when a crash falls between commit and assignment).
`NoDetectionLost` needs `LatestSeesAll` besides: the request that appended last has
the whole window among its candidates until it has merged them, however many
others with older snapshots merge before or after it.

### SyslogReceiverProofs

For any queue size, callers and programs in which a
caller starts at most once (`ReceiverAssumption`): `TypeOK`, `EveryDatagramCounted`,
`UnfinishedIsExact` and `DrainWaitsForHandlers`. The strengthening says that each
message is in one place (in the queue once, or in one task's hands), that it has
arrived, and that a caller with a consumer task has no `start()` left. It is needed
because the counts are of sets: without distinct numbers a message handled would
not lower the count by one, and without the last part a second `start()` could take
a message out of a running handler's hands. `drain()` then follows from the exact
count: it is woken only when `unfinished` is 0, so queue and hands are empty.

`CloseLeavesNothing` is proved where one caller starts and closes the receiver and
the others only drain it (`OneService(m)`), which is how `_serve_syslog` and the
tests use it. `ServiceInv` adds that the socket and the consumer are that
caller's, that whatever is queued has a consumer, and that while it closes the
sentinel goes in behind everything else. Without the hypothesis it is false:
with a second caller whose `close()` falls into `start()`'s await, TLC finds the
socket open after `close()` has returned.

`NoDeadlock` proves `NobodyWaitsInVain` under the same hypothesis: the safety half of
`CallsReturn`, for any number of callers. It takes `ServiceInv`, the exact count, and
that `join()` is waited for only while something is unfinished (`JoinHasReason`): the
unfinished is in a handler's hands or in the queue, and a queue that is not empty has
a consumer that has not yet met the sentinel. Without the hypothesis this is false
too: if two `close()` calls overlap, the second sentinel stays in the queue with the
consumer gone, and a later `drain()` waits for ever.

### SyslogPipelineProofs

For every rule setting, window, cooldown, cache size and movement of the clock
(`PipelineAssumption`, `DedupAssumption`): `TypeOK`,
`EveryDetectionEmitted`, `NoEarlyRepeat`, `RememberedUntilRipe` and
`RepeatsHaveCause`.

The window's part of the invariant is that of `EventWindowProofs`, taken over
through an instance. `DedupInv` ties the cooldown's dict to the history of
acceptances: the dict is a subsequence of the history, in the same order
(`Linked`), each entry has the time of the last acceptance of its
fingerprint, what is missing from the dict was past its cooldown when it left or has
`max_entries` acceptances after it (`Kept`), and each acceptance was due
(`Explained`). The history has the last acceptance of each fingerprint (`OneEach`). The order is what the bound needs: eviction takes the first entry, and
only because that one was accepted longest ago does its loss mean that the cache was
full of later ones. A third part (`Recent`) says that whatever the last event let
the rules detect has an acceptance whose cooldown the clock has not shown the end of. An
acceptance from before the clock was set back counts, which is how `accept` treats it;
where the clock is never set back (`StepsBack` false) no acceptance lies ahead of it, and
the last one is less than a cooldown old.

`RepeatsHaveCause` follows from `EvidenceThatStays`. `QualifyingWindowsProofs` is
instantiated with the service's rules, and the operators of the two copies of
`WindowRules` are shown equal one by one. If every event of the earlier report is
still in the later snapshot, then the later evidence is larger or starts no later; if
it starts at the same time the fingerprint is the same, and the two reports are one
record of the history, of which `NoEarlyRepeat` speaks.

### FeedbackStoreProofs

For any number of writers, records, page size and bound:
`NewestUpToOverlap`, on a clock that is never set back (`Tick`; the program takes
`datetime.now`, which can be, and then the order of records is the order of arrival and no
more), since a record being added is remembered by every stored
record with a later timestamp, and trimming takes records from one end only.

`PagingMissesNothing` needs that a record the reader still owes itself, and has not
seen, lies ahead of the offset (`UnseenIsAhead`): new records push it further back,
and trimming takes those behind it first. So a page that is not full has come
to the end of everything owed. `AnswerCoherent` follows from `ReadingsGrow`: between
the readings of one answer the list only grows or is full.

### BatchScanProofs

`YearsOffByLateLines` holds for every calendar and every sshd log
(`InputsAssumption`, `CalendarAssumption`): while the file is read, the reader's year is
the true year of the last dated line plus the number of late lines so far, where a dated
line is one whose month the reader knows (`HasMonth`): a line with another spelling takes
the year as it is, and nothing is claimed of its date.
`YearStep` is the arithmetic of one line: between two months less than a year
apart, the year added when the month number falls is the true change of year, and
one more if the line is late. `NextLate` says that from one dated line to the next
only that line can be late.

`ReadInFull` holds for every file of every type and shape. The events so far are
those of a pass that broke off followed by those of the pass going on
(`FileInv`), where a pass over the lines from one to another gives one event for each line the
parser knows, in order. Only the evtx reader has a pass that breaks off, and only
the Okta reader drops what it has.

`PagingLossBounded` holds for every index, page size and number of changes
(`PagingAssumption`). Two counts are kept at once (`PagingInv`): the documents the
offset has passed without reading them are at most those that went, and the
repeats so far together with the documents read that lie ahead of the offset again are at most
those that came. Neither is inductive without the set it charges: a
deletion pulls one document over the offset, an insertion pushes one back, and only
then can the next page miss or repeat it. The property asks for
distinct timestamps, as without them the order of the documents may change by itself,
and it takes an answer for a complete one: the code does not look at `timed_out` or at
failed shards (`sources/elastic.py:198-207`), and the model has no such answers.

`TypeOK`, `OnlyValidatedReachRules` and `AccountIsKey` hold for every input that
`ItemsAssumption` allows: the year is positive, a normalized item has the fields of
`NormalizedEvent`, and the time of a raw record parsed or did not. All three come of one
invariant (`ScanInv`): every event is `Faithful` to the item at the position it was
read from. It has a time, and if the item is a record that names an account, that account is what
the mapping makes of the event, or, if the mapping takes it for empty, the event is one
the mapping finds no user in (`Unnamed`), from which follows by what each rule goes then. `RawParsed` shows it for each parser, and the year the sshd
reader guesses enters only through the times: it is never before the year
preceding the current one. The rest is about single
events. Each enricher changes none but its own keys (`GeoEnriched`,
`CredentialEnriched`) and leaves no unvalidated value under the ones the rules read.
`PreparedTwice` needs to know of every derived field that if the first pass did not
derive it the second will not: `DerivedAgain` shows that the keys it is looked up by
are those no step of the preparation sets.

### Only model-checked

- `CallsReturn`, the liveness property: the prover handles neither fairness over
  these actions nor `ENABLED`. `NoDeadlock` proves what it rests on besides fairness:
  a waiting call always has someone at work for it.

## 5. What is not modelled

- Settings from the environment: a table of conversions read once, without state.
- Regular expressions and JSON or XML decoding: a record's form stands for what they
  make of it.
- `service`, `http_status` and the other mapped fields that no rule reads; the
  wording, severity and MITRE fields of a finding.
- LLM triage, report rendering, the rule manifest table, argument parsing: no state,
  or one external call.
- Authentication and request limits of the server, beyond the batch length.
- The gateway adapter: `scan()` accepts and yields with no await in between, so it
  uses the cooldown sequentially, as the service does.
- The rule engine of `shared_llm_core` is external; it is taken to run registered
  rules in order and concatenate their findings, as `src/tests/_contract_stub`
  describes it.

## 6. Plan

Order of work, most important first; steps 1 to 14 are done.

1. `EventWindow`, its run and its proofs.
2. `WindowRules`, `QualifyingWindows`, the older detectors.
3. `AlertServer` with faults, over an `EventWindow` instance.
4. `SyslogReceiver`, `FindingDedup`, `SyslogPipeline`.
5. `FeedbackStore`.
6. `ElasticSource`, `EventParsers`, `LogFile`, `EventPreparation`, `BatchScan`.
7. `AlertTable`, and `AlertServer` as its implementation.
8. Proofs about `SyslogReceiver`, `FeedbackStore` and the years of `BatchScan`.
9. Proofs about `AlertServer`, and that it implements `AlertTable` step by step.
10. Proofs about `QualifyingWindows` and `SyslogPipeline`.
11. Proofs about paging, forwards in `FeedbackStore` and `ElasticSource`, and about the
   reading of files.
12. `TypeOK` of `BatchScan` with assumptions on the fields of its inputs, then
   `OnlyValidatedReachRules` and `AccountIsKey`.
13. The older detectors as recursive functions over the number of events read, and
   `LegacyAgrees` by the same kind of invariant as the loop's.
14. That coroutines of `SyslogReceiver` never wait for a consumer that cannot answer.
