# Formal model of the PPT automation worker

The worker is one Windows process. It asks the PHP servers for a job, downloads
the deck, opens it in desktop PowerPoint, publishes it to iSpring Cloud with the
Suite add-in, reads the share link in a browser and posts the result back. It
has one thread that matters, one PowerPoint, one browser and one customer's
deck at a time; what makes it hard is everything around that thread: servers
that mark a row in progress as they answer, a PowerPoint that hangs or dies, an
add-in that Office switches off, a picker that shows an old copy of the cloud,
files that are rewritten in place, and restarts between any two of these.

This directory holds TLA+ modules for that system, TLC configurations that
check them on small instances, and proofs that TLAPS checks for every instance.
`PROJECT.json` lists the runs, which source lines each definition models, and
the hazards the properties are aimed at.

    tlc -config PollWorkerFaults.cfg MCPollWorker     # a run
    tlapm PollWorker_proofs.tla                       # the proofs of a module

## The system

| Part | Source | State it keeps | Operations |
|---|---|---|---|
| Worker loop | `main.py`, `worker/loop.py` | stop flag, deadline of the private round | start, `run_once`, `_poll_private`, `_run`, stop signal |
| Backend client | `api_client/jobs.py` | none between calls | `get_next_job`, `send_job_result` |
| PHP queues | external | a status per queue row | hand over on GET, close on POST, requeue by ops |
| Cloud pipeline | `worker/cloud_pipeline.py` | none | `process`, `_report_failure` |
| Health file | `worker/health.py`, `scripts/worker_health.py` | failures in a row, unhealthy since | load, save, record, clear |
| Cloud job | `worker/cloud_job.py` | workspace directory, the PowerPoint in use, tries | `run_cloud_job`, `open_with_repair`, `addin_ready` |
| PowerPoint service | `powerpoint/service.py` | COM application, presentation, current path, watchdog flags | start, open, close, quit, terminate |
| Add-in state | `powerpoint/addin.py` | registry keys that Office also writes | check, enable, connect, pin |
| Publish dialog | `publisher/ispring_cloud.py` | the picker's copy of the cloud tree | destination, pick, publish, wait, overwrite |
| iSpring Cloud | `publisher/ispring_cloud.py` | folders, materials, public switch | locate, make folder, share, embed |
| Folder map | `publisher/ispring_cloud.py`, `config/institution_folders.json` | where each institution's folder was last seen | look up, remember |
| Legacy pipeline | `worker/pipeline.py`, `worker/local_run.py` and what they call | the workspace of a job number, orphan records | fetch, copy, open, publish to HTML5, validate, upload, report, clean up |
| Output storage | `storage/backend.py` | one place per material | upload a package to a folder or to S3, file by file; the HTTP store is not implemented |

How they interact. `WorkerLoop` calls `BackendClient`, and hands a job to
`CloudPipeline.process`, which calls `run_cloud_job`, posts the result and then
records the outcome in the health file. `run_cloud_job` drives PowerPoint
through COM (`PowerPointService`), Office through the registry (`addin`), the
publish dialog through UI Automation and the cloud through a signed-in Chrome.
Other actors touch the same state: the servers (rows), the operator
(`scripts/worker_health.py`), Office and a user at the desk (PowerPoint and the
registry), the watchdog thread of `PowerPointService.open`, and people who
rename or make folders in the library.

What each part must get right, and what makes it hard:

- **Worker loop**: never work while out of service; keep asking the shared
  queue although private queues may always have work; finish what was decided
  on and nothing more after a stop signal. Hard: signals, crashes and the
  private deadline fall anywhere.
- **Client and queues**: a result closes its own row and no other. Hard: every
  server numbers its rows from one; requests are lost, repeated and served late.
- **Health file**: three machine failures in a row stop the worker, whatever
  restarts happen, and only a person starts it again. Hard: read, count, write
  are separate steps, and the write truncates first.
- **Cloud job**: send a deck once, let go of its file, retry with a PowerPoint
  that knows the new folder and has the add-in, and end. Hard: PowerPoint is a
  process with a history that survives the job.
- **PowerPoint service**: an open that hangs must end, and its watchdog must
  not spoil the next one. Hard: two threads share the service object and the
  one POWERPNT.EXE of the machine.
- **Publish dialog**: the deck is sent to the project that the library named,
  a folder that is there is found, and no try leaves a second deck. Hard: a click
  reports nothing, the tree loads while it is read, only drawn rows exist, and
  two projects hold folders of the same name.
- **iSpring Cloud**: the link that is returned is of the deck just published and
  can be opened. Hard: decks are told apart by title, the list is late, the page
  keeps what the last job left on it, and the switch shows its state late.
- **Legacy pipeline and storage**: a reported link serves a whole package of its
  own run, and a package that is in place is on record if it was not reported.
  Hard: the workspace and the storage outlive a process that may die anywhere.
- **Folders**: an institution's decks stay in one folder, and the map that
  leads to it forgets nobody. Hard: four places (library, map, picker, queue
  row) each hold a name for the folder.

## The modules

| Module | Models | Uses |
|---|---|---|
| `ErrorStages` | the stages an error may carry, and which of them point at the machine | |
| `WorkerHealth` | the health file: load, count, the two steps of a save, clear | `ErrorStages` |
| `BackendQueue` | the PHP servers as the client sees them (external) | |
| `PollWorker` | the worker process: loop, client, pipeline, crash and restart | `WorkerHealth`, `BackendQueue` |
| `BreakerContract` | what the health file promises, in five actions; `PollWorker` implements it | |
| `PowerPointOpen` | `PowerPointService` against its own watchdogs, over the attempts of `open_with_repair` | |
| `CloudJob` | one job from download to the end of its `finally`, with PowerPoint, add-in and library | `ErrorStages` |
| `JobContract` | what a job promises its caller; `CloudJob` implements it | `ErrorStages` |
| `OpenContract` | what `open_with_repair` promises the job that calls it; `PowerPointOpen` and `CloudJob` both implement it | |
| `InstitutionFolder` | library, map and folder creation, job after job | |
| `PublishDialog` | the publish dialog: picker, branches, sweeps, overwrite prompt, completion | |
| `DialogContract` | what `publish_to_cloud` promises the loop around it; `PublishDialog` implements it | |
| `ShareLink` | the library page: four routes to the deck, share popup, switch, embed code | |
| `LegacyPipeline` | the local pipeline with its workspace and storage, run after run | |
| `..._proofs` | theorems of `PollWorker`, `CloudJob`, `PowerPointOpen`, `InstitutionFolder`, `PublishDialog`, `ShareLink`, `LegacyPipeline` | |
| `MC...` | the values TLC gives the constants | |

How they fit. `PollWorker` sees a job as one step from `work` to `post`, which
publishes or fails at a stage; `JobContract` is that step as a specification of
its own, and `CloudJob` implements it. `CloudJob` in turn has opening, the
dialog, the folder and the browser as steps that may end in one of several
ways; `PowerPointOpen`, `InstitutionFolder`, `PublishDialog` and `ShareLink` say
how they come to end so. For opening the two levels meet in `OpenContract`:
`PowerPointOpen` implements it with its threads and `CloudJob` calls it by it, so
that the one is the inside of the steps of the other.

| Step of `CloudJob` | Opened up in |
|---|---|
| `StartService`, `Open`, `OpenFails`, `AddinMissing` | `PowerPointOpen`, by `OpenContract` (`OpenEnds`: it does end, unless a call with no watchdog hangs) |
| `Locate`, `ProjectMissing` | `InstitutionFolder` |
| `PickProject`, `Upload` | `PublishDialog`, which keeps `DialogContract` (`DialogEnds`) |
| `FetchEmbed` | `ShareLink` (`BrowsingEnds`) |

### `PollWorker`, with `WorkerHealth` and `BackendQueue`

`pc` is where the worker's thread is: at the loop's condition (`loop`), at the
health gate (`once`), asleep, between private servers (`round`), waiting for a
GET (`get`), inside `run_cloud_job` (`work`), posting (`post`), and in the three
steps of recording the outcome (`record`, `truncate`, `write`). `due`,
`position` and `taken` are `_private_due` and the two loop variables of
`_poll_private`; `attempt` is that of the client's own loops; `healthFile` is
the file on disk and `pending` what `save` is about to write. `row` is the
status column of every server's queue and `latePosts`, `lateGets` are requests
whose caller has given up but which a server may still apply. `published`,
`streak`, `waited` and `lateStarts` only watch: no guard reads them.

The clock appears as `Tick`, which makes the private round due while the worker
sleeps, works or waits for a server: the interval is minutes and nothing else
the worker does takes that long. The operator clears the file at any time, as
`scripts/worker_health.py --clear` does: whatever it says, whether the worker
runs or not, and without a lock. A clear that falls between the worker's load
and the end of its save is overwritten. Slack, logging and the payload's other fields change no state and
are left out.

`BreakerContract` is the same machine seen as a count and a flag *working*.
`PollWorker` implements it with `count` taken from the file or, while it is
being written, from what is being written; a restart is a stutter, and so is a
clear that is overwritten.

### `PowerPointOpen`

One worker thread and one daemon watchdog per attempt, each of which may be in
the middle of `_cleanup_failed_open`. A step is what can happen between two
calls of the other thread: `_open_cleanup_done` is read in one step and set in
the next, references are dropped before `Quit`, and processes are terminated
after it. `ppt` numbers the POWERPNT.EXE processes, so a reference to one that
has gone differs from a reference to the one that runs. A taskkill may fail, which
its callers do not look at (`kill_fails`): the PowerPoint is then `spared`, and
stays what it was for the next attempt. `open()` looks at
`timed_out` exactly where the code does, and `join(timeout=1)` may give up on a
watchdog that is still cleaning up (`outlives_join`).

`OpenContract` keeps the phase of the call, the number of the try and whether a
POWERPNT.EXE runs. Here the phase is read off `pc` (`Phase`) and the try is
`cur`; in `CloudJob` it is read off the job's `pc` (`OpenPhase`), with `try` and
`ppt`. Its point is what a caller may rely on: only a try starts a PowerPoint,
no try but the first begins with the one before, and the error that blames
PowerPoint comes after the last try and leaves none running, except, in both, a
`survivor` of a taskkill that failed.

### `CloudJob` and `JobContract`

`ppt` is the running PowerPoint with what it carries from its start: whether the
add-in's tab is there, whether its copy of the cloud tree has the folder, and
the registration it will write back when it exits. `pc` follows `run_cloud_job`;
`usable` to `ready` are `open_with_repair`, with `try` its own loop and
`attempt` the loop around the publish dialog. `opened` is the application of the
service local to `open_with_repair` and `service` the one `run_cloud_job` holds;
they differ exactly when an exception leaves between them. `outcome` is how the
job ended, by its error's stage.

What PowerPoint and Office do is taken from the code's comments and marked
external in `PROJECT.json`: the add-in and its tree are read at start, the keys
are written back at exit, and an add-in whose process was killed may be
disabled unless it is pinned. A repair of the add-in may find its keys locked
(`locked_keys`) and leave it off, and a taskkill may fail (`kill_fails`). A job may begin with a PowerPoint that is not
running, that answers, or that does not, with the add-in on, off or missing.

`JobContract` keeps of all this whether the job has come back, whether the deck
may be in the cloud, and the outcome. Its point is the order: what was sent is
not sent again; a success is of a deck that was sent; an error after the deck
may have been sent carries neither the stage `download` nor `powerpoint`; and
the outcome stands while the `finally` runs.

### `InstitutionFolder`

`library` is the set of folders, `folderMap` the JSON file, `located` what
`locate_institution` returned. Remembering is three steps (decide, truncate,
write). A folder title is compared without case and surrounding space, as
`normalise` does; `squash` also removes its inner spaces. The map begins as one
seeded from the library: its entries exist, and it knows every institution whose
folder is outside the configured parents (README of the repository). People do
not edit the library during a run. `faults` is what may go wrong in a behaviour
and does not change in it, so that a property can say under which faults it
holds. `home` watches which folders are an institution's, by name or by the map,
and `mapped` which institutions the map ever knew.

### `PublishDialog`

The picker is a page: `listed` projects, `open` branches, `filled` ones whose
folders have come, and `view`, the first row drawn. `place` says where in each
project the institution's folder lies, if it does. `LabelsSeen` and
`FoldersSeen` are what a search of the tree returns: only drawn rows. The worker
(`pc`) resolves the parent, clicks its chevron, compares the number of rows
with what it was before (`before`, `grown`), sweeps the page up and down
(`steps`, `round`), clicks the row it found (`match`) and presses Publish;
`upload` and `decks` are iSpring's side, which may finish after the worker has
stopped waiting. A row is its number in its branch and a page the set of its rows,
so that how many there are is a cardinality; the page moves only while the picker
is up (`Picking`), and each dialog gets a new one. The deck is published again with the same name when its job is
tried again. Finding a window or a control (scores, automation ids, captions in
several languages) is abstracted to found or not.

`DialogContract` is a call of `publish_to_cloud` as the loop in `run_cloud_job`
sees it: it ends well only after iSpring has sent the deck, it says that the
folder is missing only before anything was sent, and any other error leaves open
whether the deck arrives, even later.

### `ShareLink`

`listed` is what a page loaded now would show, `rows` what the page shows,
`popups` the share popups open on it. `popups` and `rows` survive a job that
fails, as the browser does. The routes are those of `locate_material`, in its
order; each leads into one of the folders its comparison may match, or nowhere.
`open_share` looks for the row again by title on whatever page is there now, as
the code does. `public` is the truth about each deck and `shown` what the switch
of the first popup says. A page that fails to load leaves the popups there (`MayDrop`);
a row menu that does not open is opened the old way, by a text that other rows
may have; a popup without an embed code sends the search over the whole page. In
the last two, and behind a popup that would not close, the code may take another
deck's link or press another deck's switch: such a job is `astray`, a variable
that only watches. The cover title is left out: it is best effort, its result is
not looked at, and nothing else reads what it changes.

### `LegacyPipeline`

`disk` is the workspace of each job number with its source, working copy and
output, `storage` what each material's place holds; a file is the number of the
run that wrote it, or `Broken`. `pc` follows `Pipeline.process` and its
`finally`. `sent` is how far `upload_directory` has got, and the three backends
differ as they do in the code: the folder is emptied first and its copy goes on
past a file that fails, S3 is overwritten file by file (in any order) up to the
first that fails, `http_api` raises before it sends anything. `raised` is how the
`try` block ended: an exception becomes `original_error`, Ctrl+C passes both
`except`s, so that the `finally` block reports nothing and records nothing but
still cleans up. A run that is killed leaves disk and storage as they are.
`built`, `began`, `stored` and `outcome` only watch. PowerPoint is one variable
here, the run whose deck is open; closing it may fail without the run noticing.

## What the runs check

| Run | Instance | Shows |
|---|---|---|
| `worker_faults` | one private server of which a round takes two jobs, a row 1 on each server, every fault, two attempts of each request | results close their own row (`ResultsAreTrue`), no work while unhealthy, also for the second job of a round whose first one reached the limit; only the operator clears |
| `worker_live` | two private servers that refill, requests that fail, crashes outside a save, fairness | the shared queue waits one round at most and is asked for ever; exactly `Limit` machine failures in a row stop the worker (it implements `BreakerContract`); stop lets one more job start and then ends the process; every job is given up on at last |
| `open_races` | two attempts, late expiry, watchdogs that outlive their join, a dying PowerPoint, taskkills that fail, fairness | a deck handed on is open under its current name; opening keeps `OpenContract`, by which a retry begins without the PowerPoint before unless that withstood its taskkill; it ends though `Open2007` may hang, unless a call that nothing limits never returns |
| `job_faults` | three tries of each kind, every fault, fairness | a deck is sent once at most; the job keeps `JobContract` and calls opening by `OpenContract`; the job ends, unless a call of PowerPoint never returns |
| `job_desktop` | as above; PowerPoint may die and withstand a taskkill but exits when told to, the ribbon check does not raise | its file is let go of before it is deleted; a retry's picker has the new folder; a restart for the add-in's sake loads it once the repair says so |
| `folder_calm` | three parents, one of them only remembered, three names, two institutions, three sets of faults | one home per institution, the map forgets nobody, a made folder is found, no near pair in a parent |
| `picker_sweeps` | two projects of five and three folders, a screen of three rows, seven sets of faults, the deck published twice, fairness | the deck goes to the project the library named; a branch reported as expanded is open; a sweep sees the whole branch; no second deck; the dialog keeps `DialogContract` and ends |
| `share_links` | two jobs one after the other, an older deck, three libraries, fairness | the link is the job's own deck's and viewable and no other deck's sharing is touched, but by a job that went astray; the browsing ends |
| `legacy_runs` | two runs of the same job, four configurations, a process that may be interrupted or killed, fairness | a reported link serves a whole package of its run; an unreported one is on record; PowerPoint publishes its own deck; an incomplete output leaves the old package alone; each run ends, unless a call of PowerPoint never returns |

Three more runs find a statement of the repository violated:

| Run | Statement | What happens |
|---|---|---|
| `torn_save` | worker/health.py:12, the state survives a restart | `save` truncates first; a process that dies there restarts healthy and has forgotten its count |
| `picker_long` | publisher/ispring_cloud.py:148, a pass is longer than the longest branch | with the default of 20 steps a pass is about 300 lines; in a branch of 340 folders, opened at its bottom, the first ones are never drawn |
| `share_twins` | publisher/ispring_cloud.py:2780, the newest row in Recent is the deck just published | two servers number a job the same, the second deck is listed late, and the first one's link is returned for it |

### Bounds, and why they are enough

- *Servers and rows*: a shared and a private server with the same row number are
  the smallest case in which a result can go to the wrong row; a cap of two jobs
  in a round and a limit of two (`worker_faults`) let a failure inside the round
  reach the limit with another fetch of it to come; two private
  servers, a cap of one and a requeue are the smallest in which a round can go
  on for ever. `Requeues` bounds new work, `LateBound` the requests in flight.
- *Limit* = 2: one failure before the last, so that counting, resetting and
  reaching the limit differ. The theorems cover every limit.
- *Attempts*: two of each request (a first and a last); the code's own three
  of everything in `CloudJob`. `PowerPointOpen` has two of the code's three, as
  many as a watchdog needs to reach into an attempt that is not its own and is
  the last; the theorems are for any number. `born`, the number of PowerPoints,
  is bounded by the tries.
- *Folders*: two configured parents and one that only the map knows, two
  spellings of one name and another. Jobs are unbounded: the library is finite.
- *Picker*: a branch longer than the screen with the folder at its start, middle,
  end or nowhere, in either project or both; a pass of the sweep that is just
  longer than the page; two sweeps. `picker_long` has the real numbers.
- *Library page*: two jobs are the fewest in which one inherits the other's
  page; the titles are one within another or equal. Two rounds. The code presses
  the switch two times and then in three attempts, each as often as there are
  elements it may be; four presses (`Presses`) are an even number and more than
  one attempt, and the theorems are for any.
- *Legacy*: two runs of one job share both the workspace and the storage. Three
  packages: whole, whole with one file more, a stub.

`CHECK_DEADLOCK FALSE` is given where a job, a dialog or an open reaches its end.

### Fairness

- `PollWorker`: weak fairness of the worker's own steps. It is one thread, and
  every wait of its own has a timeout (HTTP, sleep). That `run_cloud_job` returns
  is assumed here; `CloudJob` says in which calls it may not. Nothing is assumed
  of servers, operator, clock or whoever restarts it.
- `PowerPointOpen`: weak fairness of each watchdog and of the worker's steps, but
  of none that is a call into PowerPoint. Those between the start of the watchdog
  and `done.set()` are watched; `Dispatch` (service.py:100), the look for
  `Open2007` (154), `Close` (237) and `Quit` (249) are not, and nothing in the
  code ends them. `OpenEnds` says: opening ends, or somebody stays for ever in an
  unwatched call, or in a watched one whose watchdog could not kill PowerPoint.
- `CloudJob`: weak fairness of the job's steps, whose waits have timeouts, except
  of `PowerPointCall`, the places from which it calls PowerPoint without one.
  `JobEnds` says that the job ends or stays in one of these for ever.
- `PublishDialog`: weak fairness of the worker's steps. Each wait has a limit
  (`PICKER_SEARCH_S`, the publish timeout); iSpring, its page and its cloud are
  promised nothing, so `TimesOut` is what ends a wait for them.
- `ShareLink`: weak fairness of the browsing, for the same reason (page timeouts,
  counted rounds and presses). The cloud may list a deck never.
- `LegacyPipeline`: weak fairness of the run's own steps but those that call
  PowerPoint, with `RunEnds` as in `CloudJob`; being killed is no step that must
  happen.
- `InstitutionFolder` states safety only.

## What is proved

The `_proofs` modules hold for every value of the constants that the modules'
named assumptions allow: any number of servers, rows, jobs, decks, folders and
tries, and any set of faults unless stated.

`PollWorker_proofs`:

1. *Types* (`TypeCorrect`). `TypeOK` alone is not inductive: what is posted
   for a job is computed from `job`, so the proof carries `JobInv`, that a job
   is in hand exactly from `work` to `write`. Their conjunction is `ControlInv`.
2. *The gate* (`GateCorrect`, `ClearCorrect`). `WorksOnlyWhenHealthy` is
   inductive with `ControlInv`; that only the operator clears follows, because
   a success is only recorded by a job that the gate let through. The operator's
   clear, which comes at any time, only makes a file healthier.
3. *Results* (`ResultsCorrect`). Strengthened by `PostsInv`: the job in hand
   goes back to the row it came from, and a success that is being posted, or is
   on its way late, is of a published row.
4. *Stop* (`StopCorrect`) and *rounds* (`RoundCorrect`): the late job leaves no
   way back to a GET; the jobs waited for are at most what the servers passed
   in this round may give. `StepsCorrect` needs `AttemptInv`, that a request is
   never made more often than it may be.
5. *The breaker* (`LossCorrect`, `LimitCorrect`, `ContractCorrect`), under
   `Reliable`: saves are whole and `WORKER_IGNORE_HEALTH` is off.
   `BreakerInv` says that the file's count is the observed streak except inside
   a save, and that a healthy file's count is below the limit. Inside a save the
   count that matters is the one that was loaded (`CountRead`), whatever the
   operator has made of the file since (`cleared`): such a clear is lost, and the
   row of failures starts at the last one that is not. `ContractCorrect`
   is the refinement: every step of the worker is one of `BreakerContract` or
   a stutter. `torn_save` shows that the assumption is needed.

`CloudJob_proofs`:

1. `JobTypeCorrect`, with `RestartInv` (a restart is only reached with a try
   left), which keeps `attempt` within `PublishTries`.
2. `UploadsCorrect`, with what each place of the program says of `uploads`
   (`UploadInv`), and on top of it `ContractCorrect`, the refinement of
   `JobContract`: a step before the upload decides nothing or raises with
   nothing sent (`EarlyStep`), and what is tidied up after has been decided
   (`DecidedInv`).
3. `FileCorrect`, if PowerPoint exits when told to and the ribbon check does
   not raise: while a deck is open some service variable refers to the process
   that has it (`HeldInv`, `DeckInv`), or a taskkill failed to end that process.
4. `PickerCorrect`, if PowerPoint exits when told to, with the same exception.
5. `AddinCorrect`, unless the licence is missing. The repair may fail, and
   PowerPoint may withstand the restart: the statement is of a PowerPoint that
   was started after one that ended and a repair that says the add-in is
   enabled. What is proved is that this report can be relied on, whatever Office
   and the exiting PowerPoint wrote before it.
6. `OpeningCorrect`, the refinement of `OpenContract`, without any assumption:
   `FirstTryInv` says that the job is at its first try where the loop is entered,
   and `StaysOrGoes` that outside a start PowerPoint only goes away, or becomes a
   survivor of a taskkill.

`PowerPointOpen_proofs`: `TypeCorrect`, `InUseCorrect`, and `RetryCorrect`. The two
safety properties share one invariant, `OpenInv`. `Abandons` gives the order in
which an attempt is abandoned (references, application, kill), so that the next
one begins after the kill, and only a start brings a PowerPoint up again; what
`RetryCorrect` excepts is a PowerPoint that withstood that kill (`spared`).
`OneHolder` says that only the attempt under way holds an application: that is
why an old watchdog can take the new PowerPoint away but not its deck alone
(unless that PowerPoint is a survivor on which it had already called `Quit`).
`DeckThere` follows the deck and its name along the worker's path while this
attempt's own watchdog is still (`DogsTell`: one that cleans up has said so).
On the same invariant rests `ContractCorrect`, the refinement of `OpenContract`:
what a watchdog takes down, of whichever attempt and whenever, is the contract's
`Lose`, or its `Survive` where the taskkill is refused, and nothing more
(`CleanupIsLoss`). `OpenIsWatched` is about the other direction: while `open()`
is inside a call made between the start of its watchdog and `done.set()`, this
attempt's watchdog waits, is on its way, or has tried to kill PowerPoint and
failed. It says nothing of the calls outside, which no watchdog covers.
`WatchInv` shows why: nobody has touched the flags of an attempt to come, and
until `open()` is past its calls nobody releases its watchdog or does its cleanup
for it.

`InstitutionFolder_proofs`:

1. `TypeCorrect`, with `TryInv`: the folder is made at most once and never on
   the last try, and a folder that is being remembered or picked was found.
2. `MapCorrect`: unless a write is torn, the map together with what is about to
   be written (`MapInv`) knows everybody it ever knew.
3. `EnsuredCorrect` and `NearCorrect`, for every set of faults. The first rests
   on a fact about sequences (`SearchInType`): every configured parent is asked.
4. `HomeCorrect`, without faults. `HomeInv` says that the map, or between
   truncation and write the data in hand, accounts for every institution's
   folder; so a search that finds nothing is right, and a picker that misses is
   only believed about the parent where the next step would find the folder.

`PublishDialog_proofs`, for any page, screen, sweep and number of rounds:

1. `TypeCorrect`, for which a page must be a finite set of rows. It is a union
   over the branches; that it is finite is shown by taking the shortest
   prefix of the branches that is not (`Least`), which stands in for induction.
2. In an orderly picker (it comes up whole and shut, and a click on a row reaches
   it; a chevron may still be missed, a branch fill late and no row tell under which
   project it is) `OrderlyInv` holds:
   only the branch of the parent that `resolve_parent` makes of the first screen
   is ever opened (`PageInv`), what the tree is compared with is the shut page
   (`ExpandInv`), so a growth means that it opened, and only a folder of that
   parent is clicked and sent to (`ChoiceInv`). From it follow `ExpandedCorrect`,
   `DeckCorrect` and, where the library's name is the name of one project and
   that project is on the first screen, `HolderCorrect`. On a lower screen the
   picker may resolve to a near match, as the code does.
3. `SweepCorrect`, under `SweepSpans`: there are two passes, a step is no longer
   than the screen, and a pass covers the longest page. `SweepInv` follows the page: the way up ends
   at its top, and on the way down the folder's row is still ahead of the
   screen. The defaults do not meet `SweepSpans`, which is what `picker_long`
   shows.
4. `ContractCorrect`, the refinement of `DialogContract`, for every picker and
   every fault: `SendInv` says that nothing is sent before the button is pressed
   and that a wait ends well only on a deck that was sent.

`ShareLink_proofs`: `TypeCorrect` always, and `LinkCorrect`, `SharingCorrect`
under `TitlesApart`: no two decks of the library have one title. `ViewableCorrect`
needs no such assumption. All three except a job that went astray, and each way to
go astray is a step of the model that marks it: a popup that would not close, a
row or a link that the code chose among several decks' by a text. So what is
proved is that these are the only ways. The heart is `PopupInv`: of a job that did
not, between the first route, which closes what covers the page, and the share
popup nothing is open, and after it only its own; so the first popup and the
first embed field are the job's, whatever earlier jobs left behind. `share_twins`
shows that `TitlesApart` is needed. `ViewInv` says that a switch which can be read
shows the first popup's deck, whosever that is.

`LegacyPipeline_proofs`: `TypeCorrect`, and one invariant, `IInv`, from which
`LinkCorrect`, `RecordCorrect`, `DeckCorrect` and `PackageCorrect` follow.
`PackageInv` walks from the deck to the package: each step that succeeds writes
what the next one reads, so what an earlier run left is never used. `StoreInv`
does the same for the storage, `ToldInv` keeps runs to come out of the
statement, and `OrphanInv` says that a stored package makes the record certain
before the failure is reported; of an interrupted run nothing is reported.

*What ends.* Liveness is out of the prover's reach, but most of it can be proved
without saying "eventually". Six modules have a theorem `StepsCorrect`: a number
read off the state, `StepsLeft`, is a natural number with a bound given by the
constants; every step of the actor makes it smaller; and no step of anybody else
makes it larger. So there is no loop in the code that some order of events could
keep going, for any number of tries, rounds, servers, files or rows. What is left
to fairness is that the actor does take its next step, which a call into
PowerPoint without a limit may keep it from.

| Module | Actor | Bound | Provable part of |
|---|---|---|---|
| `PollWorker` | the worker, once a fetch, a job or a stop is under way | `2 * PostAttempts + GetAttempts + 7` | `JobEnds`, `StopEnds` |
| `CloudJob` | the job | `PublishTries * (3 * OpenTries + 6) + 4` | `JobEnds` |
| `PowerPointOpen` | the worker; each watchdog | `22 * MaxOpens`; 7 | `OpenEnds`, with `OpenIsWatched` |
| `PublishDialog` | the worker | `Rounds * (SweepPasses * SweepSteps + 2) + 15` | `DialogEnds` |
| `ShareLink` | the browsing | `2 * Presses + 5 * Rounds + 5` | `BrowsingEnds` |
| `LegacyPipeline` | the run | files of a package + 15, if they are finitely many | `RunEnds` |

Only model-checked:

- that these ends are reached (`JobEnds` of both modules, `StopEnds`, `OpenEnds`,
  `DialogEnds`, `BrowsingEnds`, `RunEnds`): the step from the falling number to
  "eventually" needs weak fairness, that is `ENABLED`, and an induction over the
  number, and the prover has neither;
- `SharedKeepsBeingAsked`, which is a recurrence; `RoundCorrect` proves the bound
  behind it.

The type invariants are proved (`TypeCorrect` in every `_proofs` module) and
therefore not part of a run.

## Departures that no run shows

Met while reading the code and reproducible with the models by stating the
property and the fault named; none is needed to explain a passing run.

- README.md:48 says no GET is made again before the POST. A GET whose answer is
  lost is repeated (api_client/jobs.py:295), and the server has marked a row for
  each: the first is left in progress. `ResultsAreTrue` holds of such rows too.
- A limit that expires after `open()` last looks at `timed_out` (service.py:188)
  and before `done.set()` lets it return as if all were well while its deck is
  taken away. `InUseIsUsable` names this exception.
- `has_addin_tab` "never raises" (ispring_cloud.py:628), but the dialogs it
  dismisses are looked for outside its `try` (646): an exception there loses the
  only reference to the PowerPoint that has the deck (`probe_raises`).
- PowerPoint has a watchdog for `Open2007` and what follows it, and for nothing
  else: a job hangs for ever in a `Dispatch`, `Close` or `Quit` that does not
  return (service.py:100, 154, 237, 249; `PowerPointCall`). The liveness
  properties except these calls by name.
- taskkill may fail, and its code is returned and ignored (service.py:43-49): the
  next attempt works with the PowerPoint that should have gone (`kill_fails`).
- A repair of the add-in that cannot write its keys leaves it off and goes on
  (addin.py:104-115, 238-243; `locked_keys`).
- An operator's clear that falls inside a save is overwritten (health.py:106).
- Between two goes at the dialog `run_cloud_job` only asks PowerPoint to quit;
  one that is slow to exit (`slow_quit`) is used again, with the old tree
  (cloud_job.py:448 promises a fresh one). `PickerCorrect` assumes it exits.
- The add-in's registration is repaired although a PowerPoint may be running,
  which writes it back when it exits (cloud_job.py:288).
- A deck PowerPoint refuses counts as the machine's failure (health.py:113 says
  it should not): the stage is all that the breaker is told.
- A picker that misses a folder under another parent has one made under the new
  one (cloud_job.py:465), though the comment at 450 and README.md:59 make one
  only where there is none. `OneHome` leaves `picker_misses` out by name.
- The map's folder name is dropped (ispring_cloud.py:3627) though README.md:56-58
  publishes into the folder the map gives: an institution filed under another
  name gets a second folder. `OneHome` leaves `alias` out by name.
- `pick_project` looks "only under `parent_folders`" (ispring_cloud.py:1042), but
  `choose_match` (960-968) takes any row of the name when no row's parent can be
  read (`flat`). That does no harm while only the parent's branch is unfolded,
  and does when another's is (`open_before`). `PublishesUnderHolder` asks for an
  orderly picker.
- A folder map that is truncated and not written (`torn_write`) is empty to the
  next job, which writes its own entry alone.
- The check for names that differ in their spaces looks in the new parent only.
- "No 'closest row' fallback", because "Week 1" is inside "Week 10"
  (ispring_cloud.py:1860), but `open_share`, when a row's own menu does not open,
  takes the row by such a text after all (2961).
- "Everything in a dialog must be looked for inside this element"
  (ispring_cloud.py:1398), but an embed code that is not in the popup is looked
  for in the whole page (2360-2382, 2401-2406), which may show another deck's.
- A popup that neither its button nor a reload closes stays (2457), as it does
  when a page fails to load: the next route and the next job work behind it.
  `RightLink`, `ViewableLink` and `OnlyOwnSharing` except the jobs that these
  three lead `astray`.
- A sharing switch that is not found counts as on (ispring_cloud.py:2106);
  `ViewableLink` leaves `unmarked` and `lag` out by name.
- An orphan record that cannot be written raises out of the `finally` of
  `worker/pipeline.py` (200): neither the failure report nor the cleanup is
  reached. `NothingLost` speaks of runs that report.
- Ctrl+C in the legacy pipeline passes both `except`s (137-150): a package that
  is stored is neither reported nor put on record, and the workspace is deleted
  as after a failure.
- An upload that fails half way has destroyed the material's last package, whose
  link customers have (storage/backend.py:99): `LinkServes` ends where another
  upload begins.

## Not modelled

- *What is parsed and how it looks*: payload fields, settings, validators,
  logging, Slack, window titles and scores, the HTML of the share page, the
  name of a repaired copy in the legacy pipeline. None of it is read by a guard
  beyond the outcomes the models have.
- *The cover title* (`set_cover_title`) and *`verify()` of the storage backends*:
  the first is best effort and its result is unused, the second is called by
  tests only.
- *The add-in's three registry roots*, one registration here, and what
  `scripts/fix_ispring_addin.py` prints.
- *Trials and probes* (`browser_test/ispring_cloud.py`,
  `scripts/get_ispring_embed.py`, `scripts/try_ispring_publish.py`,
  `scripts/probe_*`): run by hand and imported by nothing in the worker. The trials are earlier copies of what `PublishDialog`
  and `ShareLink` model; the probes read windows and pages and print.
- *`scripts/publish_material.py`*: one cloud job run by hand, the same
  `run_cloud_job` that `CloudJob` models, whose outcome is then counted in the
  health file as the loop counts its own. It beside a running worker, or two of
  it, would share PowerPoint, the browser and the health file with nothing
  between them; the models have one job at a time.
- *Cloud, Office and PHP internals*: external, as the code relies on them.
