# Snapchat_Auto in TLA+

Snapchat_Auto turns a full-file-system extraction of a phone (iOS or Android) into a folder of
HTML reports about Snapchat, and can fetch Memories media from Snapchat's servers under a legal
authority. This directory models the parts of it where order, failure and timing decide whether the
result can be relied on.

## Inventory

| Component | Source | State | Operations | What is hard | What makes it correct |
|---|---|---|---|---|---|
| Cloud pacing and control | `scripts/cloud_download.py` (`Pace`, `Control`, `Engine._wait`, `_pace_wait`), `scripts/cloud_gui.py` (`progress_runner`) | pace and its version, paused, stopped, times sent | read pace, wait in slices, send, back off; Apply, Pause, Stop, Close | two threads and a clock | the rate and delay hold whatever is pressed and when; stop acts; closing returns |
| Cloud engine and store | `scripts/cloud_download.py` (`Store`, `Engine.run`, `_run_job`) | lock file, hash-chained manifest, numbered files, counters | lock, record, latest, next_path, fetch, decrypt, end, unlock | processes, exceptions, kills, half-written lines | one writer, chain unbroken, nothing overwritten or retrieved twice, totals right |
| Fetcher and host policy | `scripts/cloud_download.py` | part file, redirects | one GET | network errors | a failed fetch leaves no numbered file |
| Cloud jobs, attachment, refresh | `scripts/cloud_memories.py`, `scripts/cloud_refresh.py` | job list, attached files, run settings | choose jobs, attach, refresh | reads what an interrupted retrieval left, while another may be running | the latest successful retrieval per Memory and role, shown with its own hashes |
| Thumbnail pool | `scripts/data/poster_worker.py`, `scripts/data/poster_frame.py` | queue, slots, tries, results, cache | hand out, answer, time out, restart, copy | processes that hang, die, or answer late | each verdict is that file's, nothing lost, the pass ends |
| Ordered map | `scripts/parallel.py` | queue of futures | submit, yield | threads finishing out of order, exceptions | input order, bounded window |
| Progress and run window | `scripts/progress.py`, `scripts/run_window.py` | stage stack, step, skips, heartbeat | begin, end, step, start and finish a run | several threads on one state | every stage closed once, heartbeat only during a run |
| SQLite readings | `scripts/data/sqlite_open.py` | staged copies, two connections | open, read table, query, close | rows that differ between the readings, leftovers of an earlier staging | every row of either reading shown once, rightly marked |
| Partial report | `scripts/partial_report.py` | selection, resolution, included rows, reasons, frontier | resolve, expand, contain, write the expansion back | ids that moved since the selection was made, cyclic relations, a second build from the first one's result | each tick becomes the row it meant, the extract is what the policy asks for and every row in it is explained, what was reviewed is built |
| Selection files and the pages' ticks | `packages/snapchat_auto_selection`, `scripts/selection_file.py`, `SCSel` in `scripts/report_ui.py` | selection.js and its backups, each tab's store and its localStorage | tick, save, load, reload, migrate, install, expand | one selection in many copies, told apart by time stamps; failure between backup and write | the examiner's ticks are never lost, invented or called saved when they are not |
| Extraction | `scripts/data/extract_zip.py` | extracted tree, manifest | extract, reuse, undo earlier writes | interrupted runs | a partial tree is not taken for a whole one |
| Orchestration | `Snapchat_Auto.py`, `main` of the two parsers | run folder | extract, parse, report, refresh; full, partial, dry | one report failing, a run killed, another build's run over the same folder | the reports link to one another and are one build's, an extract holds only what it shows, the full reports are left alone |
| Decoders, rendering, search | the other modules of `scripts/` | none beyond the data read | decode, join, render | byte formats, layout | tested with fixtures, not modelled |

The run (`Snapchat_Auto.py`) extracts the archive, calls the parsers and then the reports one after
another in one thread, while the run window polls `progress`. The Memories report calls the cloud
retrieval, whose engine runs on a thread of its own behind the progress window (`Control` is the
state they share) and writes to `<run>/CloudDownloads`, the only state that outlives the run and is
written by more than one. A run may be repeated over the same run folder: in full, as a partial
extract in a folder of its own, as a dry run, or as a refresh of three reports after a retrieval. The
reports of a run read one another's manifests, so their order matters, and their pages share one
`selection.js`, which the examiner saves from a page or installs with the tool. The Memories and the cache_controller reports call the thumbnail pool,
which talks to its worker processes through pipes and one queue. Skips reach it through `progress`.

## What is modelled

### `CloudPace`: the engine thread against the progress window

`Engine` is the engine's thread, with a step wherever the code reads something the window can
change: `ReadPace` (`_pace_wait` reads the pace and computes the wait), `EnterWait`, `CheckStopped`,
`CheckPaused`, `CheckVersion`, `CheckLeft` (one turn of `_wait` each), `Send`, `FetchEnds`,
`FetchFails` (the answer, perhaps with a Retry-After). `Update`, `TogglePause`, `Stop`, `Close` and
`Joined` are the window's buttons. `Tick` lets time pass between any two of them, up to `Horizon`;
a nap of `_wait` lasts one tick and so is at least as coarse as the code's. Jitter is a choice of
0 .. jitter ticks.

| Run | Bounds | Shows |
|---|---|---|
| `pace` | 2 paces (cap 2 and 1), a minute of 3 ticks, 3 requests, horizon 5, 1 pace change | `MinuteCap`, `Spacing`, `StopActs`, `BackoffHonoured`, `CloseReturns` |

Three requests are one more than the cap, so that the window has to be waited for; a minute of three
ticks opens and closes within the horizon. The invariants also hold in the proofs for any values.
`MinuteCap` is about the largest cap ever in force on purpose: that the cap of the moment holds is
what the help text says, and not what the code does (see "Known divergences").

### `CloudEngine`: retrievals over one run folder

`Proc` are processes that may each run `Engine.run` into the same `CloudDownloads`. A manifest line is
told apart by its number, which stands for its hash; `prev` is the hash the line carries. A process
keeps its Store's cached hash in `prev`, its counters and its place in the loops. Every statement
that touches the disk is a step: lock (`Start`, or `LockFails` when it fails half-way), the session
line, the loop head with `latest`, `Send` with `next_path`, `Fetched` (the part file becomes the
numbered one) or `FetchFailed`, `Decrypted` or `NotDecrypted`, `RecordFile`, `RecordEnd`, `Unlock`.
`Stop` is the examiner's, `Raise` an exception anywhere between lock and unlock (in a wait or at the
head of the loops too), `Crash` a kill, and both may cut an
append short (`Interrupted`, when `MayTear`), leaving a line the next one runs into.
`RemoveStaleLock` is the examiner following the advice of the lock's error message. Waiting is left
to `CloudPace`; what it promises of Stop (at most one more request) is used here. "ok" is HTTP 200.

| Run | Bounds | Shows |
|---|---|---|
| `engine` | 2 processes, 1 job of 2 addresses, 2 attempts, 2 sessions, 1 crash, 1 exception, torn lines | the store's invariants, and `KeepsPromise` |
| `engine_jobs` | 1 process, jobs of 2 and 1 addresses, limits of 2, 2 sessions, 1 exception | `GivesUp` (at the limits, neither one more nor one less), `EndAccounts`, and `LockReleased` |

Two sessions are what it takes for one to find what another left (a stale cached hash, an orphaned
file, a lock, a torn line); one job with two addresses and two attempts reaches every way out of the
loops of `_run_job`; two jobs are needed for the counters and the totals.

`Retrievals` is the abstract specification: copies of each job under numbers of their own that are
never taken back, a second copy only in a retrieval that was asked for it, one retrieval at a time.
`KeepsPromise` says that `CloudEngine` implements it, with the numbers of the manifest's "ok" lines of
a job as its copies (`CopiesOf`) and the process between lock and unlock, dead or alive, as the writer
(`Writer`). Two processes in one folder, or a job fetched because its copy was not decrypted, break it.

### `CloudAttach`: reports beside the retrievals

`CloudEngine` composed with `attach()`, which the Memories report of every run calls, at any moment of a
retrieval. `BeginReport` reads the whole manifest (or the report fails on a torn line), `Publish`
handles one job, `EndReport` writes the pages, `CutReport` is a kill, perhaps in the middle of a
copy. The published file is told by the manifest line its bytes belong to; 0 is a copy cut off.

| Run | Bounds | Shows |
|---|---|---|
| `attach` | 1 process, 1 job of 1 address, 3 sessions, 1 crash, torn lines, 2 reports, 1 cut | `ShownRight`, `ShowsLatest` |

Three sessions give a copy that failed to decrypt and two that did not, so that the encrypted and the
decrypted numbers differ while a report is published under one of them.

### `PosterPool`: one thumbnail pass

`Init` is what precedes the loop: frames copied from the cache, videos of the same bytes put together,
and the rest in line (`todo`, ascending). The parent's loop of `run_jobs` is `Check`, then `Spawn` / `HandOver` / `HandOverFails` /
`SpawnFails` slot by slot, then `Get` (one line, or a deadline) with the verdicts it leads to, and
at the end `Leave` and `Finish` (cache and followers). A worker is `Ready`, `Open`, `Cut`, `Answer`,
`ImportFails`, `Die`. Whether a deadline has passed is chosen each time the parent looks at the clock, so
every race between an answer and the deadline is there, including the answer that lies in the queue
behind a START line. A video decodes, fails, or hangs the decoder; frames are none, torn or whole.

| Run | Bounds | Shows |
|---|---|---|
| `posters` | 3 videos, two of the same bytes, 2 workers, 2 tries, 1 death, failing spawn, import and copy | `VerdictsRight`, `Accounted`, `AnswersKept`, `CacheSound`, `PassEnds` |

Two workers and a restart are what a late line needs to be taken for another's; `Tries` is 2 rather
than 3, which leaves the first retry and the giving up. `MayFail` may also hold "decoder" (OpenCV
missing, which the worker answers NO for every video); the `posters` run leaves it out because then
"no" says nothing about a video.

### `PartialClosure`: from ticks to the extract

The evidence is constant: `Rows` (the ids this run has), `Links` (the edges, each owned by the report
of its `src`), `Parent` (a message's conversation), `Hits` (which rows an alternate identifier names),
`Group` (grouped Memories), `Positional` (messages whose id is only their place in the
conversation). `Init` chooses a selection file, a policy and the reports whose index was produced.

| Step | Code |
|---|---|
| `Resolve`, `ResolveRaises` | `resolve` with `_resolve_one`, `_lookups`, `_one_group`, and the seeds' reasons in `expand`; `AmbiguousSelection` and `LookupError` |
| `Pass`, `FrontierEmpty` | one turn of `expand`'s loop over the enabled relations; its condition |
| `Contain` | one turn of `_apply_containment`, in the loop and after it |
| `NextFrontier` | the end of a pass: one hop, the next frontier, or the pass limit |
| `Review` | `expanded_selection`, the examiner unticking rows in the full report, and a run given that file |
| `TakesPolicy` | `_partial_request`: that run takes the file's policy, or relations it is given (`overruled`) |

A selection's key record carries, besides the identifiers and `why`, a field the code does not have:
`of`, the row the examiner saw when it was ticked. It is what `TicksResolved` compares with, and
nothing else reads it. `IdentifiersTrue` says what the identifiers are taken for: one that names a single
row names the row it was recorded for, one that names several of a group names the whole group, that row
among them. The case of `MCPartialClosure` is true in this sense (it assumes so, and TLC evaluates it); ids
that moved, that are gone, that name several rows of one group or of two are all in it.

| Run | Bounds | Shows |
|---|---|---|
| `closure` | every selection of one or two out of 13 ticks (2 more that cannot be resolved), 6 policies, 3 sets of produced reports, 2 policies to overrule the file's, `MaxPasses` 2, 1 row unticked at the review | `TicksResolved`, `DisclosesAsAsked`, `TransitiveFollows`, `EveryRowExplained`, `ReviewedStable`, `BuildEnds` |
| `reviewed_is_built` | the same | two moved positional messages: the expansion names one twice and loses the other |

The evidence has ten of the eleven edges, some recorded from the far side, and cycles through three
reports. With a limit of 2 (25 in the code) some transitive builds are stopped and others end by
themselves. The limit is tested after the pass, so the build that is stopped "after
25 passes" has made 26 (`TypeOK`, which is proved, bounds `passes` by `MaxPasses + 1`).

A build from a reviewed expansion takes the policy the file carries, which follows nothing, unless it is
given relations of its own: `--relations` on the command line, and in the window always, since it passes its
check boxes with every run (`_relations_spec`). `_partial_request` warns and follows them again
(`tests/test_partial_cli.py:118` has it so), which `overruled` tells: such a build holds the reviewed rows
and what they are shown in, and may hold more. So `ReviewedStable` says for every second build that it is
not refused, leaves out nothing that was reviewed and calls no added row chosen, and that it holds nothing else
only for one that was not overruled. For the others it would be false ("Known divergences").

`ReviewedStable` and, of the second build, `TicksResolved` exclude reviews that keep a positional
message. A ticked one may carry the wrong record (`reviewed_is_built`), and one that was pulled in is
written with only its reason, so nothing proves its position and the second build is refused, or
lists it as dropped. Left out: the `max_rows` warning, the counts of links that leave the extract,
the wording of the provenance, and an index that fails in only one of the two builds.

### `RunFolder`: runs over one run folder

The steps of a run are a sequence (`Plan`), as the code is: one thread, one report after another, the
order of iOS, Android, a partial run and a refresh each as in their functions. A report in a folder
is told by the run that wrote its pages, the run that wrote its manifest, its build, whether the
evidence was whole, and the manifests it read (`saw`). `Fails` is a report that raises, which the
code logs: nothing written, or its pages with the old manifest, or both. `Ends` is an exception
nothing catches, or a kill, anywhere. `Rows` and `RenderDone` are the two passes of a partial run:
the first publishes every row's media (`unpruned`), the second removes what no page shows
(`_prune_media`, `_drop_sqlite_views`). `sound` remembers that a folder's last full or partial run went through
without a fault, which is what a reader of its index takes for granted. Removing what no page shows always
succeeds here; a removal that fails is only logged by the code.

An Android folder may hold, from the beginning, the flat `com.snapchat.android` folder an earlier version
extracted into (`flat`, external), whole or cut off. `Reusable` takes it on its name alone, as the code does, so
no run of this build extracts there again and none of its manifests vouch for it: `EvidenceWhole` is about the
other folders. This build writes only the layout of the device paths, and an earlier version run between two
runs of this one is not modelled.

| Run | Bounds | Shows |
|---|---|---|
| `run_folder` | 2 builds, 3 runs, 1 fault, both platforms, with an earlier flat folder and without | `LinksHold`, `FullReportsKept`, `ExtractClean`, `EvidenceWhole` |

Three runs are a full one, a partial one and a refresh, or a full run by each build and one more.

### `ExaminerSelection`: the ticks and their copies

A page's store is `SCSel`: `Apply`, `Stash`, `Restash`, `Touched` and `split` (`Kept`, `Quarantined`) as in
the JavaScript, and `Loaded` their order when a page opens. A tab has one page and its localStorage;
files are sets of ids with the stamp of their export and whether an expansion's policy is in them.
`Install`, `Write` and `WriteFails` are `install_selection` around its `os.replace`; `Regenerate` the stub a
run writes; `Expand` the file of `expanded_selection`. Every event takes an instant; `Second` instants
have one name for a backup; `Zone` is how far the local clock, which Python stamps with, is ahead of
the UTC the pages stamp with: the comparison is of text. `replaced` is no state of the program: it records
every file that was in place when an install began, and when, so that `PreviousKept` can ask for all of them. A
backup is named after the second, and of two installs in one second the later takes the name: `PreviousKept`
excepts a file that lost its name so (`NameTaken`), and nothing else. The clock only goes forward here.

| Run | Bounds | Shows |
|---|---|---|
| `selection` | 2 rows, 1 id of schema 1, 2 tabs, 7 instants of which 3 make a second, a zone of 6 | `BareNeverTicked`, `CleanIsSaved`, `PreviousKept`, `ReloadKeeps` |
| `policy_carried` | 1 tab, 6 instants | a reload keeps an expansion's ticks and drops its policy |

Six events are enough to load a file, tick, save, install another, fail and reload; two installs fit into one
second with the write of the first, or its failure, between them.

### `SqliteReadings`: a database read with its log and without

The app writes frames, checkpoints some or all of them, restarts the log at its head (leaving older
frames behind the new ones) or closes, until the phone is acquired; then `OpenViews` stages and reads one
database after another, in a temporary folder or in the working directory that databases of one name
share. SQLite's own behaviour (`Applied`, `Write`, `Checkpoint`) is external. One page holds one
row, and a table is looked at with a primary key and without, where equal rows cannot be told apart.
What `read_table` and `query_both` hand out is a set of entries: the row, its marker, its rowid and, for the
order of the two lists, the merged row it is listed with. `RowsAccounted` says that no reading's row is
missing or handed out twice (`Once`), and that the marker is the one the code gives (a row that only the log
has is marked "main+wal" by `query_both`, see below). A copy that fails while it is staged is not modelled.

| Run | Bounds | Shows |
|---|---|---|
| `readings` | 2 databases of one name, 2 pages, 2 values, 4 frames | `RowsAccounted`, `OwnReadings`, `LogReached` |
| `merged_is_its_own` | the same, with fewer frames | a database without a -wal is read through another's |

Four frames make a log with a page written twice, a checkpoint in the middle, and a restart over it.
`LogReached` is what carving adds: nothing the current log holds is out of reach of both the
readings and `superseded_wal_pages`. The converse, that the carved frames are exactly those the
readings cannot show, does not hold (below).

## Known divergences

Runs that expect a violation show three places where the code does something else than it says:
`reviewed_is_built`, `policy_carried` and `merged_is_its_own` (the findings in `PROJECT.json` quote the
lines). Others that came up while the models were written, and are part of them as the code has them:

* A build from a reviewed expansion follows relations again when it is given any (`Snapchat_Auto.py:1179`), and
  the window always gives its own (2372). The guide says that the relations need not be changed for this build, in
  the window and on the command line alike, and that it "adds nothing further" (`guide_partial_reports.md:74-88`);
  `tests/test_partial_cli.py:118` wants the override. `ReviewedStable` bounds the build from above only when
  no relations were given to it.
* A backup of `selection.js` is named after the second and put in place with `os.replace`: of two installs in one
  second the later takes the name of the earlier's backup, and the selection that the first replaced is gone
  (`format.py:241-244`, against `report_partial.md:58-59`). It is the only exception of `PreviousKept`.

* After the cap per minute is lowered, requests go on at the old rate: `_pace_wait` waits for the
  oldest request to leave the window and does not count again (`cloud_download.py:513`, help text
  `cloud_gui.py:209-212`).
* Pause is read only inside `_wait`, so it does not act when no wait is due (`cloud_download.py:514`,
  comment at 481), and Apply during a back-off ends it before Retry-After is over (628).
* A kill inside `record()` leaves part of a line, and `records()` and `verify()` raise on it
  (`cloud_download.py:401`, docstring at 427).
* The deadline of a thumbnail counts from the hand-over, so a worker slow to start has its video
  recorded as undecodable without having opened it (`poster_worker.py:338`, docstring at 264-266).
* Rows that containment adds are in no frontier, so under the transitive switch their links are not
  followed (`partial_report.py:857`, provenance text at 1165).
* When a report fails in the render of a partial run, what its index published stays in the extract
  (`ParseSnapchat_iOS.py:2022`, against `memories_media_report.py:5142-5147`). `ExtractClean` is about
  extracts in which no report failed.
* The settings are written before the reports, so after a cut-off run of a new build a refresh takes
  the folder for that build's and leaves two builds' reports side by side (`cloud_refresh.py:33, 57`).
  `LinksHold` is about folders without such a run.
* An interrupted iOS extraction is reused as a whole one (`extract_zip.py:554`), and on Android a flat folder of
  an earlier version is, with no manifest at all (565). In this build's own Android layout the manifest written
  last prevents it, which is what `EvidenceWhole` says.
* `expanded_selection` stamps its file with the local time and its offset (`partial_report.py:1541`), a
  page compares it as text with its own UTC stamps (`report_ui.py:542`): east of Greenwich the
  installed expansion wins over ticks made after it, west of it an older stash wins over the expansion.
* `superseded_wal_pages` does not read the frames' salts: left-over frames of an earlier log make it
  hand out a frame the merged reading shows, and keep others back (`sqlite_open.py:121, 127`).
* `query_both` and `read_sql` mark a row that only the log has as "main+wal"
  (`gallery_search.py:99` works around it), and so does `read_table` for every row when the file will
  not open without its log (`sqlite_open.py:328`).

## Fairness

* `CloudPace!FairSpec`: the engine's thread is scheduled and the window's join is taken when the thread
  has ended. A fetch ends because the socket has a timeout and the body a size limit. The examiner is not fair, so
  a retrieval may stay paused for ever; that closing still returns is what `CloseReturns` says.
* `CloudEngine!FairSpec`: each process's next step is taken. Crashes, stops and cleaning up are not.
* `PartialClosure!Spec`: `Build`, which is one function after another in one thread. `Review` is the
  examiner's and need never happen.
* `PosterPool!FairSpec`: only the parent, whose wait on the queue has a timeout, so that `Get` is taken
  when a deadline has passed. Nothing is assumed of the workers.

* `CloudAttach`, `RunFolder`, `ExaminerSelection`, `SqliteReadings`: none. Reports, runs and clicks are the
  examiner's to begin, and what they promise is about what may never happen.

## What is proved

For all values of the constants (under the modules' named assumptions), by TLAPS. Every safety invariant
and every action property the runs check is a theorem. In each module the inductive invariant (`Inv`, `IInv`, or a conjunction built up lemma
by lemma) is split into named parts, each with the lemma that a step keeps it.

* `CloudPace_proofs`: type correctness and the four safety properties of `pace`. The inductive
  invariant ties the wait under way to the requests already sent: what is left of it is at least what
  delay and cap still ask for, for the pace it was computed from; the proof that the cap holds rests
  on `sent` being in order and on each request having waited for the one `cap` places before it.
* `CloudEngine_proofs`: type correctness, the store's safety properties, the counts and the refinement, for
  any number of processes, jobs, addresses, sessions, crashes and exceptions, with torn lines or without.
  Each property has its strengthening: `Alone` (a process
  inside a retrieval implies the lock file, and there is one at most), `Linked` (the cached hash is the
  last line's, or none, or lost), `InHand` (the file being written is not yet recorded and its number
  is free), `AskedFor` (the job being fetched has not come, or was asked for again). `Alone` needs the
  examiner to remove the lock only when nobody holds it, which is what the error message asks.
  `Tracked` says that what the manifest has of the session under way lies behind the place of its process
  (`AttemptsInOrder`); `Counting` that its counters are the cardinalities of what its lines ask for and
  bring (`EndAccounts`); `Waits` that its two failure counts are the lengths of the streaks since the
  last file that came, without the job under way (`GivesUp`).
  `ImplementsRetrievals` is the refinement step by step: a job's copies change only when the record of a
  file is appended, under a number no other copy has, and the writer only where a retrieval begins or ends.
* `CloudAttach_proofs`: `ShownRight` and `ShowsLatest`, on top of the engine's theorems, since the reports
  take no step of the retrievals (`AttachIsEngine`). They rest on the manifest only growing and on a
  recorded file being kept; between `BeginReport` and `EndReport` the report's copy of the manifest may be
  behind it, but never behind what an earlier report showed.
* `PosterPool_proofs`: type correctness and the four invariants of `posters`, for any number of videos,
  workers, tries and deaths. The invariant (`Inv`) follows a job from the line (`InLine`) through the one
  slot it is handed to (`UnderWay`) and the one process that works on it (`Workers`) to the one unread line
  that ends it (`Unread`): a line that comes from a slot's present process tells of the slot's present job,
  so a late line of a killed process is nobody's. `Told` keeps an answer accounted for between the worker's
  saying so and the parent's reading it, `Placed` keeps each job somewhere, and `Led` ties a video of the
  same bytes to its leader.
* `PartialClosure_proofs`: type correctness and all five invariants of `closure`, for every finite
  evidence, selection and policy. `IInv` follows a build through both of its runs: every included row
  belongs to a produced report (`RowsProduced`), so each row kept at the review is found by its own id
  (`FoundByOwnId`); in the second run, unless it was given relations, none is enabled (`ReviewedFile`), and what
  it includes stays between the kept rows and what holds them (`ReviewedRows`); given relations, it only grows
  from the kept rows. That the pass limit bounds `passes` needs
  to be known at the start of a pass (`PassBound`).
  `Closure` is about the loop itself: at every step the included rows lie in every closed set with the
  seeds (`Disclosed`), each is reached from the seeds along the reasons recorded so far (`Explained`), and
  a row outside the frontier has been followed, or came in by containment (`Following`). `LeastClosed` and
  the reach of the reasons are iterations (`Iterated`); that iterating as often as there are rows ends in a
  fixed point (`IteratedIsClosed`) is proved by taking the least number at which something fails, which
  does for induction over numbers here.
  `TicksAlwaysResolved` has `IdentifiersTrue` as its hypothesis: the code can only resolve a tick to the
  row it meant if the identifiers written with it are that row's, which is up to the data they come from.
  What the theorem adds is that positions, shared identifiers and vanished rows never decide for another
  row.
* `ExaminerSelection_proofs`: type correctness, `BareNeverTicked`, `PreviousKept`, `CleanIsSaved` and
  `ReloadKeeps`, for any rows, tabs, clocks and zones. `Owned` says that no file but the one of schema 1
  has ids without a conversation; `Backed` that what an installation found is in the backup of its second, or a later one of that second is;
  `Sound` that the ticks of a page, and those of a tab's storage, are some file's unless they are marked
  unsaved, and that an open page with unsaved ticks has them in its storage.
* `RunFolder_proofs`: type correctness and the four properties of `run_folder`, for any builds, runs and
  faults. `Places` says where a run of each mode can be; `Extracting` what an extract holds, report by
  report, between the first pass and the second; `Full` and `Refreshed` which reports of a run are written
  already and what they have read, from which `LinksHold` follows at its end; `AndroidRuns` that an Android run
  past the extraction has a whole one, or an earlier version's flat one. `FullReportsKept` is a lemma about every step
  of a partial or dry run (`WritesApart`).
* `SqliteReadings_proofs`: type correctness, `LogReached`, `OwnReadings` and `RowsAccounted`, for any number
  of databases, pages, values and frames. The evidence is at rest while a database is open (`Rests`), so what was read at
  the opening stays what the evidence says. A database that has no log of its own and is staged beside the
  log of another one of its name is the finding of `merged_is_its_own`, and what `OwnReadings` leaves out.
  `RowsAccounted` is proved of `Compared` for any two readings: with a primary key and without, rows of one
  reading with the same key are the same row, each key has a first row in the merged reading (the
  one with the least number), and the four kinds of entries are told apart by marker and rowid. A database
  without a log is read once, and its two readings are alike (`Alike`).

Model-checked only:

* `CloseReturns`, `LockReleased`, `BuildEnds` and `PassEnds`: liveness under fairness is out of the prover's
  reach.
* The runs that expect a violation.

## Plan

What is left:

* An abstract specification of one pass of thumbnails (each video decided once, from its own bytes), and
  `PosterPool` as its implementation: `UnderWay`, `Unread` and `Led` are the facts it needs.

## Not modelled

* Most of the implementation's lines render HTML, JavaScript and prose, or decode bytes (the report
  modules, `data/media_meta.py`, `data/arroyo_content.py`, `data/ccl_bplist.py` and the like). They are functions of their input
  without state, order or failure that outlives them; a model of them would be the code again, and
  the fixtures of `tests/` say more. What the reports do to one another, to the run folder and to the
  examiner's selection is in `RunFolder` and `ExaminerSelection`.
* `cloud_memories.plan_jobs` and the proofs by content, `global_search`, `trace_ids`, `memory_leads`,
  `memory_backlinks`: joins over parsed rows. The address rules of the host policy: a table.
* `parallel.ordered_map`: a deque of futures, whose order and place of exceptions follow from the deque.
  `progress` and its heartbeat: they write log lines and nothing reads them back.
* `undo_earlier_writes` and the cleaning of `SnapFixedVideos`: one pass over names, before any report.
* The index page, the GUI's windows and the command line around the runs; build tools.
