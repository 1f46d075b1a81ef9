# A TLA+ model of filearchiver

filearchiver moves the files of source directories into a dated archive, keeps a
SQLite registry of what it moved, and serves the archive over a small web
application that trashes files, resolves duplicates, tags files and prepares
browser-friendly proxies. This directory holds TLA+ specifications of the program, the
TLC configurations that check them on small instances, and proofs checked by TLAPS.

## 1. Inventory of the system

| Part | Code | State it keeps | Operations |
| --- | --- | --- | --- |
| Single-instance lock | `main.go` `acquireLock`, `releaseLock` | the file `.filearchiver.lock` | look, create, release; `os.Exit(1)` paths that do not release |
| Archiving run | `main.go` `processJob`, `processFile`, `handleCollision`, `copyAndVerify` | source directories, archive directories, tables `file_registry` and `history` | walk, skip, choose a place, copy, compare sizes, remove the source, register, log |
| Initialisation run | `main.go` `runInitMode`, `backupExistingDatabase` | archive directories, a fresh database, the renamed old one | back up, walk, register in place, move stray files into place, drop an empty `_duplicates` |
| Set-up run | `main.go` `runSetupMode` | configuration and ignore file | create if missing |
| Names and patterns | `shouldIgnore`, `validatePaths`, `isValidArchivedPath`, `isExistingDuplicateFile` | none | pure functions |
| Trash | `api/trash.go`, `api/duplicates.go`, `api/files.go`, `db/files.go`, `db/trash.go` | `trashed_at`, `restore_path`, `_trash/`, `file_actions` | delete, bulk trash, restore, delete for good, empty |
| Duplicates | `api/duplicates.go`, `db/duplicates.go` | `archive_path` of rows, files under `_duplicates/` | promote, delete, bulk delete, rescan (plan and apply) |
| Proxy worker | `proxy/worker.go` | `status`, two one-place channels, a semaphore, goroutines | start, stop, pause, resume, restart, reconfigure, loop, process |
| Proxy queue | `db/proxy.go`, `api/proxy.go` | `proxy_status`, `proxy_path` of rows, proxy files | enqueue, mark, reset, regenerate |
| Tags | `db/tags.go`, `api/tags.go`, the list and the viewer in `app.js` | categories, tags, `file_tags`; the copies of files' tags in the list and the viewer; calls that await replies | create, rename, move, delete, merge, assign; load a list, open, add, take off, move on, close |
| Thumbnails | `media/thumb.go`, `api/media.go` | thumbnail files | look up, generate, purge |
| Read-only parts | navigation, statistics, history, serving | none | queries |

The command-line runs and the web server are separate processes that share the archive
directories and the database; the lock covers only the command-line runs.

### What is hard here

* A run is a sequence of system and database calls with no transaction around them:
  it may be killed, or a call may fail, between any two.
* The lock is looked at and created by two calls, removed by name, and not removed at
  all by the error exits.
* A place in the archive is found free by one call and truncated by a later one.
* Roll-backs (`os.Remove(destPath)`) assume that the other copy is still there.
* The web handlers rename files and update rows in two steps, without a lock, from
  concurrent requests.
* An archiving run and the web server work on one archive and one database without a
  common lock: a place is emptied by the one and filled by the other.
* A browser saves the whole set of a file's tags from a copy that may be old, and goes on
  while its calls await their replies.
* The worker talks to its loop over channels that drop messages when full, next to a
  status field that is set at once.

### What makes each part correct

* Lock: at most one run; the file is freed after a clean run.
* Archiving run: no file is lost, whatever fails; what is in the archive is never
  overwritten; the registry describes the disk; runs end and the source drains.
* Initialisation run: nothing is lost, the registry describes the disk, every file gets its
  row, and running it again changes nothing.
* Trash: a row and its file stay together; what was trashed can be restored or deleted.
* Duplicates: a promotion or bulk delete leaves one intact copy of the content.
* Proxy worker: a pause stops dispatch, a resume continues it; no file stays in
  `processing`; a queued file is served at some time.
* Tags: no row of `file_tags` names a missing tag or file; names are unique in a category;
  a file loses a tag only when somebody takes it off, deletes it or merges it (in this code:
  only if users wait, see section 2).
* Run and web server together: no file is lost, and no request touches the run's copy.

## 2. Modules

| Module | Models |
| --- | --- |
| `RunLock` | the lock and the life of a process with respect to it |
| `Archiver` | a run past the lock, the disk, the tables, the owner of the source; extends `RunLock` |
| `ArchiveCustody` | what an archiving tool promises, as an abstract specification |
| `WorkerControl` | the proxy worker's status, its two channels, its loop and the handlers that steer it |
| `ProxyWorker` | the queue, the goroutines with their semaphore, enqueue, restart, regenerate, reboot; extends `WorkerControl` |
| `TrashBin` | concurrent requests that trash files and empty the trash |
| `InitMode` | a run with `-init` |
| `Duplicates` | concurrent requests that promote, bulk delete and rescan duplicates |
| `SharedArchive` | an archiving run next to requests that delete files and empty the trash; extends `Archiver` |
| `Tags` | categories, tags, tags of files, and the browsers that list files and edit their tags |
| `ArchiverProofs`, `ProxyWorkerProofs`, `TrashBinProofs`, `InitModeProofs`, `TagsProofs`, `DuplicatesProofs`, `SharedArchiveProofs` | theorems and their proofs |
| `MCRunLock`, `MCArchiver`, `MCWorkerControl`, `MCProxyWorker`, `MCTrashBin`, `MCInitMode`, `MCDuplicates`, `MCSharedArchive`, `MCTags` | constants for TLC |

### RunLock

`lock` says whether the file exists, `phase[r]` where process `r` is: `off`, `checked`
(between `os.Stat` and `os.Create` in `acquireLock`) or `locked`. `Check`, `Create` and
`CreateFails` are `acquireLock`; `Return` is the end of `main` with its deferred
`releaseLock`; `ExitOnError` is any `os.Exit(1)` before the jobs; `Crash` is a kill;
`RemoveStale` is the operator who follows the README and removes a left-over file when
no run is active. `SerialSpec` restricts the launches to those whose `checked` windows do
not coincide.

### Archiver

`source` is the set of files in the source directories, `archive[p]` what place `p`
holds: a file, `Partial` (the beginning of one) or `None`. A file stands for its content.
`Candidates[f]` is the sequence of places `handleCollision` tries for `f`: the dated
path, the same under `_duplicates`, then `_01` to `_99`; the places of different files
may coincide in any way. `registry[p]` is the sequence of `file_registry` rows whose
`archive_path` is `p`, each reduced to the content it describes; `history[f]` the
latest status logged for `f`. `owed` holds the files put in the source and not taken
back by their owner. Per process: `pc` the next call, `todo` what Walk has left, `cur`,
`slot` the file and the place it is at, `result` the status about to be logged.

| Action | Code |
| --- | --- |
| `Launch`, `GiveUp`, `Finish`, `Kill`, `Unlock` | the lock's steps and what they do to the job |
| `Begin` | jobs loaded, directory names read; those of a job that does not validate or of a directory that cannot be read are passed over |
| `VisitMissing`, `VisitIgnored`, `VisitFile` | the Walk callback |
| `ProbeFree`, `ProbeNext`, `TooManyDuplicates` | one `os.Stat` of `handleCollision` |
| `CreateDest`, `CreateDestFails` | `MkdirAll`, `os.Open`, `os.Create` |
| `Write`, `WriteFails` | `io.Copy` |
| `Verified`, `SizeMismatch`, `VerifyFails` | the two `os.Stat` calls and the comparison |
| `RemoveSource`, `RollBack`, `RollBackFails` | `os.Remove(srcPath)`, and `os.Remove(destPath)` after its failure |
| `Register`, `RegisterFails` | `logFileRegistry` |
| `LogHistory` | `logHistory`, whose failure is only printed |
| `Arrive`, `Withdraw` | the owner of the source directory |

Abstractions: several jobs, and the directories of one job, are one set of files visited
in any order; files are not empty; `io.Copy` is one step (a kill before it leaves
`Partial`, a kill during it the same); of two processes that write one place the last
one wins whole. A place that a path error makes unreadable counts as taken, as in the
code. The disk keeps what was written when a process is killed; a loss of power, which
could undo writes that were never synced, is not modelled.

`Spec` lets any number of runs do anything; `SoloSpec` is the same without two runs past
the lock at once, which is what the lock exists for.

### InitMode

`disk[p]` is the file at place `p`, `registry[p]` the rows of the fresh database that name
it; a file stands for its content and modification time, its name belongs to the place, so
that `Candidates` takes both. `pc` is the next call, `job` the job it works for, `todo` the
paths Walk has listed and are left, `both` whether files were listed inside and outside
`_duplicates`, `cur`, `slot`, `dest` the path it is at, how far the search has come and
where the file goes. `clean` and `settled` are history: nothing failed in the last run; a
run ended so, and nothing failed since.

| Action | Code |
| --- | --- |
| `Start` | `backupExistingDatabase` and `initDatabase` |
| `Walk` | `filepath.Walk`, whose errors are passed over |
| `PassOver`, `Keep`, `TakeUp` | ignored or gone; valid where it is (`isValidArchivedPath`, `isExistingDuplicateFile`); to be moved |
| `ProbeFree`, `ProbeNext`, `TooMany` | one `os.Stat` of `handleCollision` |
| `Move`, `MoveFails` | `moveToValidPath`: `MkdirAll`, `computeChecksum`, `os.Rename` |
| `Register`, `RegisterFails` | `logFileRegistry` |
| `Finish`, `RemoveUnseen` | the end of a job, where `_duplicates` is removed if no file was seen in it |
| `Kill` | the run ends anywhere |

One run at a time, which the lock is for. Several jobs may have one destination, which is
then walked again into the same registry (`Jobs`).

### ArchiveCustody

Files enter the source, a copy is stored at a free place, a copy may be discarded until
its place is settled, a file leaves the source only when some place that holds it is
settled, and settled places never change. `Archiver` maps `holds` to the whole files in
`archive` and `settled` to the places with a whole file that is not the copy a run is
between creating and releasing.

### WorkerControl

`status` is `Worker.status`, changed under the mutex at once; `pauseCh` and `resumeCh` say
whether the one-place channels hold a message; `loop` is where the goroutine is: `top` (at
the `select`), `held` (took a pause and waits in the inner `select`), `work` (list,
dispatch, wait), or `off` when `Start` did not start it. `saved` and `cfg` are the keys
`enabled` and `paused` in the database and in `Worker.cfg`; a request with several steps
has its place in `step` and what it read in `seen`.

| Action | Code |
| --- | --- |
| `PauseRequest`, `ResumeRequest` | `POST /api/proxy/pause`, `/resume`: `DoPause` and `DoResume` are `Worker.Pause` and `Worker.Resume` |
| `SaveSettings`, `ReadSettings`, `AssignSettings`, `Enqueue`, `Decide`, `Apply` | `PUT /api/proxy/settings` and `Reconfigure`, cut where the mutex is not held |
| `RestartBegin`, `Enqueue`, `LastResume` | `Restart` |
| `RescanBegin`, `LastResume` | the pause and the deferred resume of a rescan |
| `TakePause`, `TakeResume`, `NoMessage`, `NextTurn` | `Worker.loop` |
| `Reboot` | the process ends and `main` calls `Start` again |

`ControlSpec` lets requests come at any time; `PromptSpec` lets the status change only
when the loop has taken every earlier message. The `ctx.Done()` branches belong to `Stop`,
which `main` defers and never reaches: `ListenAndServe` ends by `log.Fatalf` or a signal.

### ProxyWorker

`proxy[f]` is the column `proxy_status` (`null`, the six values, `absent` before the row
exists and `gone` after it); `hasPath` the rows with a `proxy_path`; `disk` what is in the
proxy directory. `listed` and `batch` are the loop's local state, `at[w]` and `item[w]`
the goroutine that holds place `w` of `sem`.

| Action | Code |
| --- | --- |
| `Message`, `List`, `Dispatch`, `TurnOver` | `Worker.loop`; it refines `loop = "work"` of `WorkerControl` |
| `Mark`, `MarkFails` | `MarkProxyProcessing` |
| `Skip`, `Convert`, `Written`, `ConvertFails` | the `switch` of `process` and the external converter |
| `MarkDone`, `MarkFailed` | the end of `process` |
| `EnqueueLarge`, `EnqueueFails`, `EnqueueRest` | the two UPDATEs of `EnqueueEligibleFiles` |
| `RestartFailed` | `ResetFailedProxies` |
| `RegenRead`, `RegenRemove`, `RegenReset` | `POST /api/files/{id}/regenerate-proxy` |
| `Archived`, `Trash`, `Emptied` | what archiving runs and the trash do to a row, as far as the queue sees it |
| `ProxyReboot` | a kill at any point and `Start` with its three calls on the rows, of which one may fail |

Abstractions: sizes are `Large` or not, for one threshold; `max_workers` may take any value
at each listing, while the semaphore keeps its size; waiting times are left out, so the
loop may list again before a goroutine has marked its row. `archive_path` does not change;
a converter does not survive the kill of the server.

`ProxySpec` is everything; `PromptProxySpec` restricts pauses as `PromptSpec` does;
`ApartSpec` keeps requests to regenerate away from rows the worker has in hand, and new
rows out of the window between the two UPDATEs.

### TrashBin

`where`, `trashed`, `restore` are the columns `archive_path`, `trashed_at`,
`restore_path`; `disk` the places in the dated directories (`Homes`) and in `_trash/`;
`TrashNames[f]` the names `resolveTrashPath` tries. Each client runs one request: `at` its
next call, `todo` the ids it still has (or the rows it listed, with the paths read then),
`src` and `dst` the paths it read and chose. `condemned` is a history variable: the files
that some emptying of the trash has listed.

| Action | Code |
| --- | --- |
| `DeleteRequest` | `DELETE /api/files/{id}` and `POST /api/files/bulk-trash`, which do the same per id |
| `Read`, `Resolve`, `Rename`, `Record`, `Log` | `GetFile`, `resolveTrashPath`, `os.Rename`, `TrashFile`, `LogFileAction` |
| `TrashRequest`, `Answered` | restore and permanent delete: they stop at `file.TrashedAt == nil`, which `GetFile` never sets |
| `EmptyTrash`, `Condemn`, `Remove`, `Forget` | `DELETE /api/trash` |
| `Generated`, `Crash` | a proxy appears; the server is killed |

Abstractions: `resolveTrashPath` looks at all its names in one step (the steps between
this look, the rename and the UPDATE are what the runs are about); all paths are under
the archive root; the code behind the two refusals cannot run and is left out.

### Duplicates

`where[i]` is `archive_path` of row `i` (`NoPlace` without a row), `disk[p]` the content at
place `p`, of which there may be several copies. Each client runs one request: `at` its next
call, `todo` what it has planned and not yet begun, `cur` the change it works on,
`partner` and `victim` the primary of a promotion and the path read for it. `overlapped` and
`blind` are history: two requests have run at a time; an `os.Stat` of a destination failed.

| Action | Code |
| --- | --- |
| `PromoteRequest`, `ReadPrimary`, `RemovePrimary`, `MovePromoted`, `RecordPromotion` | `POST /api/duplicates/{id}/promote`, one call each |
| `BulkRequest`, `Unlink`, `Forget` | `DELETE` of all identical duplicates: `GetDuplicateGroups`, then per file `os.Remove` and `DeleteFileRecord` |
| `RescanRequest`, `Probe`, `Shift`, `Update` | rescan: `PlanRescan`, then per change `os.Stat`, `os.Rename` and `UpdateArchivePath` |
| `Kill` | the server is killed |

Abstractions: rows have checksums and are outside the trash; groups and changes come in
any order (Go visits maps so in a rescan); the purge of thumbnails is left out, and the
rescan's pause of the worker is in `WorkerControl`. Deleting one duplicate is the
trash's `DeleteRequest`.

`DupSpec` is everything. `CarefulSpec` restricts it as follows, each condition being
needed, as the configuration in brackets shows: one rescan at a time (`dup_rescans`); a
promotion runs alone (`dup_race`), when every row has its file (`dup_killed`), to a path
that is free or its primary's (`dup_orphan`); a primary that is replaced has the same
content, and nothing fails between its removal and the record; nothing fails between a rescan's
rename and its UPDATE (`dup_unrecorded`). Bulk deletes may overlap each other and a rescan,
and may fail or be killed anywhere, as may promotions of duplicates without a primary.

### SharedArchive

The run is `Archiver`, step by step (`RunStep`). `bin` is what `_trash/` holds, `binned[f]` the
`archive_path` of a row with `trashed_at`; rows outside the trash stay in `Archiver`'s
`registry`. Each request has its next call in `at`, its row in `row`, the path it read and
the one it chose in `src` and `dst`, and what an emptying has left in `listed`. `handle[r]`
is where a copy lies that run `r` has open and a request has renamed: the run goes on
writing to it there, and then finds no file at its destination. `condemned` is history, as
in `TrashBin`.

| Action | Code |
| --- | --- |
| `DeleteRequest`, `ResolveTrashPath`, `Rename`, `Record` | `DELETE /api/files/{id}`: `GetFile`, `resolveTrashPath`, `os.Rename`, `TrashFile` |
| `EmptyTrash`, `Remove`, `RemoveFails`, `DeleteRecord` | `DELETE /api/trash` |
| `Abort` | a call of a delete fails, or the server is killed |
| `RunStep` | any step of the run, of its owner and of the operator |

The audit log, the proxies and requests for several ids are in `TrashBin`. A file arrives once,
so that it stands for its row. Promotions and rescans are not among the requests: they
rename into the dated directories, over a copy a run may have open, which needs the
difference between a file and its name that no module makes.

`SharedSpec` is everything. `CarefulSpec` has one request at a time, for a file that is not in
the trash, and nothing fails between the rename and the UPDATE; the run may fail and be
killed anywhere. `shared_abort` shows why: a row left behind names a place that the run
fills with another file, and deleting that row takes this file away.

### Tags

`catName`, `tagName`, `tagCat` are the tables of categories and tags (`NoName` where there is no
row), `lastCat` and `lastTag` the ids handed out, `fileTags` the table `file_tags`. A browser
(one of `Users`) has the `list` of files with copies of their tags (`this.files`), the `file` in
its viewer with the tags on its `page` (`viewerFile`, `viewerFileTags`), and whether that file
is still the object of the list (`attached`). Its calls run beside each other: `load` holds the
calls of `loadFiles` and `save` those of `_saveFileTags` that await replies, each with the file it
was made for and what it has sent or read. `heirs` is history: the tags a tag has been
merged into.

| Action | Code |
| --- | --- |
| `CreateTagCategory`, `UpdateTagCategory`, `DeleteTagCategory` | the handlers of categories; a deletion sets `category_id` to NULL |
| `CreateTag`, `UpdateTag`, `DeleteTag`, `MergeTags` | the handlers of tags, each with one statement or transaction; `Admitted` is the foreign key and `UNIQUE (name, category_id)`; the target of a merge may be any id |
| `DeleteFile` | a file's row goes, and its associations by cascade |
| `LoadFiles`, `FetchTags`, `FetchThrows`, `LoadEnds`, `LoadFails` | `loadFiles`: the list is asked for, then each file's tags by a request of their own; the answer replaces the list when all have come |
| `ListUntagged` | results of a search and the list of duplicates, which come without tags |
| `Open`, `Close` | `openViewer`, `prevFile`, `nextFile`, `closeViewer`: the page shows the copy in the list, whatever is under way |
| `Click` | `addTagFromViewer`, `removeTagFromViewer`: the whole set is sent, from the page, whatever is under way |
| `FindFile`, `SetFileTags`, `Refuse`, `GetFileTags` | `PUT /api/files/{id}/tags` |
| `TakeReply` | the rest of `_saveFileTags`: the reply, tags or an error, becomes the tags of the file that is in the viewer by then |
| `Restart` | a kill, and `Migrate`, which seeds the default categories that are missing |

Statements and transactions are single steps: the server has one connection
(`SetMaxOpenConns(1)`). Requests of the manager of tags that are refused change nothing and
are left out. Colours and counts are left out.

`TagsSpec` is everything, and under it the code loses tags. One user in one browser is enough:

* two clicks, the second before the reply to the first: both sets come from one page, and the
  second drops the tag the first has added (`HastySpec`);
* previous or next before a reply: it is shown on the file that is open by then, and the
  next click saves the tags of the one file on the other (`MovingSpec`);
* the viewer is closed before a reply and the file opened again from the list, which was
  read before (`LeavingSpec`), or a file is opened while a list is loaded (`EarlySpec`);
* a file is opened from a search, from the duplicates, or from a list whose request for its
  tags failed (`UntaggedSpec`);
* a reply is lost in a restart, after the save was done (`RestartingSpec`);
* and with two browsers, when both list a file (`SharingSpec`).

`OrderlySpec` is the use that avoids each of these: a user waits for the reply to a save before
anything else, and for the list before a file is opened or its tags are edited; the list is
loaded while no file is in the viewer or by closing it, its tags come with it, a file is
listed in one browser at a time, and the server is not restarted while a save awaits its
reply. Nothing in the code enforces it. The manager of tags is not restricted: tags
are renamed, moved, merged and deleted and files deleted at any time, requests are refused at any
of their steps. The specifications in parentheses, in `MCTags`, are `OrderlySpec` with that one
thing allowed, and `NoTagLost` fails in each of them: none of the restrictions is idle.

## 3. Runs

| Run | Question | Result |
| --- | --- | --- |
| `lock` | Do launches that do not coincide exclude each other, keep their lock file, and free it unless killed or ended by an error? | yes |
| `archiver_solo` | No loss, registry and disk agree, stable archive, custody implemented, for runs that do not overlap | yes |
| `archiver_live` | Does a run end, does the source drain, does history claim no false SUCCESS, is there one row per arrival? | yes |
| `shared` | A run next to careful requests: no loss, rows and disk agree, the run's copy is left alone | yes |
| `init` | Does an initialisation keep every file, describe the disk, register all, settle, and end, with kills and failures anywhere? | yes, while `_duplicates` can be read |
| `control` | For pauses and resumes a turn of the loop apart: do the channels tell the loop what the status says, does a pause hold the loop, do settings take effect, is a worker without a goroutine shown as stopped? | yes |
| `queue` | Has a row in `processing` a goroutine and a row that is `done` its proxy, and is a row that was reset taken up again, if nobody regenerates what is in hand; is only what is small or unknown skipped, if no row arrives inside an enqueue? | yes |
| `queue_live` | Is a queued row served whenever the worker runs, so that a resume is never lost, does a paused worker fall silent, does the loop do what `WorkerControl` assumes? | yes |
| `trash` | Is the dated place remembered, every deletion audited, and does a file of a name of its own survive concurrent and repeated deletes, failures and kills? | yes |
| `duplicates` | Does a copy of every content survive careful requests that overlap, fail and are killed, is it registered, do rows and files agree? | yes |
| `dup_orphan` | The same for one user, no failures, and any offered promotion (duplicates.go:164) | no: a duplicate without a primary replaces another file |
| `tags` | In orderly use (section 2), with a manager of tags at work and restarts: references, names, no lost tag | yes |

Further configurations, run by hand (`tlc -config X.cfg MC....tla`), show where the
code departs from what its documents and comments say, or why a restriction of a run
above is needed. All find a violation. Where a configuration is listed with more than one
statement, the first is active and the others are commented out: TLC stops at the first
violation, so activate one at a time.

| Configuration | Question | Answer |
| --- | --- | --- |
| `lock_doubts` (`Exclusive`) | Is there at most one run (README.md:99)? | no: two launches both pass `os.Stat` |
| `lock_doubts` (`StaleMeansCrash`) | Does a left-over lock file mean a crash (README.md:99)? | no: `os.Exit(1)` leaves it |
| `archiver_race` (`NoLossAtRest`) | Is a file safe when two runs overlap? | no: the second run's roll-back deletes the only copy |
| `archiver_interrupted` (`ArchivedIsRegistered`) | Has every archived file a row (DEVELOPER_NOTES.md:77)? | no: a kill before the INSERT leaves none, and an archiving run repairs nothing |
| `init_again` (`SettledStays`) | Does a second run change nothing, if names may end in `_01`? | no: the duplicate of a_01 is taken for one of a, which is missing, and moved once more |
| `init_cleanup` (`FilesSurvive`) | Is every file kept if a look into `_duplicates` may fail? | no: `os.RemoveAll` of what the walk could not read |
| `init_jobs` (`RegistryMatches`) | Has a file one row when two jobs share a destination? | no: it is walked and registered twice |
| `control_lost` (`ResumeUnpauses`) | Does a resume unpause whenever it comes (worker.go:143)? | no: held for ever while shown as running |
| `control_lost` (`PauseSuspends`) | Does a pause suspend whenever it comes (worker.go:127)? | no: a dropped message, a stale resume |
| `control_two` (`SettingsTakeEffect`) | Do two concurrent settings requests take effect? | no: the older read is stored last |
| `control_reboot` (`SettingsInForce`) | Is a saved pause in force after a reboot? | no: `Start` reads it and does not use it |
| `control_two` (`RescanIsPaused`) | Is the worker paused during a rescan (duplicates.go:246)? | no: anyone's resume ends it |
| `queue_lost_request` (`QueuedIsTakenUp`) | Is a file that was reset converted again (db/proxy.go:262)? | no: the end of the running conversion overwrites the reset |
| `queue_no_proxy` (`DoneHasProxy`) | Has a row that is `done` its proxy, with requests to regenerate at any time? | no: removed during a second conversion |
| `queue_skipped` (`SkippedIsSmall`) | Are only small files skipped (db/proxy.go:187)? | no: a row inserted between the UPDATEs |
| `trash_collision` (`FileSurvives`) | Is the trash path safe (duplicates.go:61)? | no: two deletes choose one name |
| `trash_promises` (`RowsAndFiles`) | Does a second delete of a file leave its row right? | no: renamed, not recorded |
| `trash_promises` (`RestoreFinds`) | Can a trashed file be restored (trash.go:28)? | no: always 404, `GetFile` does not select `trashed_at` |
| `trash_promises` (`ProxiesRemoved`) | Does emptying the trash remove proxies (trash.go:175)? | no: the listing does not select `proxy_path` |
| `dup_race` (`LastCopySurvives`) | Is the last copy safe when a promotion overlaps another request? | no: it removes or replaces what the other counts on |
| `dup_killed` (`LastCopySurvives`) | Is it safe after a kill in a bulk delete? | no: the row of a removed file can be promoted, which removes the primary |
| `dup_unrecorded` (`LastCopySurvives`) | Is it safe when one UPDATE of a rescan fails or is killed, without promotions? | no: the row still names the place the file left; a later rescan moves whatever came there as if it were the row's, and a bulk delete removes it |
| `dup_rescans` (`LastCopySurvives`) | Is it safe when two rescans overlap? | no: both find one path free and rename to it |
| `shared_abort` (`Kept`) | Is a file safe when the server is killed between rename and UPDATE? | no: the row still names its place, a run puts another file there, and a second delete of the row takes that one |
| `tags_promises` (`NoTagLost`) | Does a tag stay if users do not wait: under `HastySpec`, `MovingSpec`, `LeavingSpec`, `EarlySpec`, `SharingSpec`, `UntaggedSpec`, `RestartingSpec`, `TagsSpec`? | no, in none of them: a set is saved from a copy that lacks the tag. The configuration names the values for each |
| `tags_promises` (`RepliesStayOnTheirFile`) | Does a reply keep "the list view fresh" (app.js:622), that is, is it shown on its own file? | no: on the file that is open when it comes |
| `tags_promises` (`MergeKeepsTheTarget`) | Does a merge move a tag's files to another tag (db/tags.go:210)? | no: a target that is gone is not noticed when the source has no files; the source is deleted |

Bounds. Three processes in `lock`: overlap of two can be prolonged by a third.
`archiver_solo`: one process (a second one could only repeat it, as runs do not overlap;
restarts after kills are included), two files of one name and a third whose
`_duplicates` place is the second's `_01` place, one kill and two failed calls, so that a
failure may hit the handling of another one. `archiver_live`: two places for two files, and
an ignored file; one process, as two that overlap may undo each other's copies for ever, and
`Drains` is then false. Its two invariants are proved for any overlap. `MaxArrivals`
limits how often the owner puts a file back.

`shared`: three files of one name for two places, so that a place which a delete empties is
the only one the run can take; two places in the trash, which run out; two failed calls and
one kill of the run, while requests come without bound.

`tags`: one browser and two files, so that the viewer moves between them, a load and a save, two
tags, one of which is merged into the other, two names and two categories, one of them seeded,
so that a name clashes when a tag is moved and a category is seeded again after a rename or
a deletion. Two browsers with one file, with three tags so that a merged one is merged
again, and two browsers with two files and one name have been run as well, with
the same result, and with the invariants of the proof.

`init`: three files of one day, one of which may be ignored, start in any arrangement over
six places, valid and not, inside and outside `_duplicates`; a search has three places and
runs out; one call may fail and one look into `_duplicates`; kills and further runs are
without bound. `Jobs` is 1: two jobs double rows (`init_jobs`).

`control`: one settings, restart or rescan request at a time, repeated without bound, next to
pauses and resumes of any number; one reboot and one failed access. The configurations with
two requests show what their overlap breaks. `queue` has one row, which arrives and leaves, and
one request of each kind next to the loop; `queue_live` two rows for one place in the
semaphore, so that the loop blocks on it and a row may be dispatched twice; one reboot and
one failed call may come anywhere.
`trash`: two clients and two files, as a third client could only repeat what two do to each
other; two names per file, so that they run out (`Free` is empty) when both are used; up to
two ids per request, which may be the same; one failed call or one kill (`OneMishap`).
`duplicates`: five rows. Four have one name, three of them one content and one the other: so a copy
can come to a place that the other content left, a stale row can name it, and a copy is
still there to lose. The fifth is a copy of another name and extension, which can be the
primary that a promotion of one of the others replaces. They lie anywhere in the dated
directories of two days and in both kinds of `_duplicates`. Two clients, one failed call,
one kill; two failed calls, three clients, and two contents with two rows each have been
run as well.

Deadlock is checked in the lock, control, `init` and `tags` runs. It is not in the others: the archiver
rests when everything is archived, the owner has stopped and nobody launches the tool, next
to requests as well; a disabled worker without requests rests; so does the trash when everything
is gone, and an archive without duplicates.

Fairness. `Progress`: a started process is scheduled, and each of its calls returns;
nothing else is assumed for `RunEnds`. `Operation`: the operator launches the tool again
and clears a left-over lock; it is assumed only for `Drains`, which speaks about repeated
runs. Kills and failures are finitely many by `MaxCrashes` and `MaxErrors`.
`InitSpec` assumes the same of an initialisation, and that nobody has to start one.
`LockFairness`: a run that is neither killed nor ended by an error returns.
`ControlSpec`: the loop's goroutine is scheduled and its waits are bounded (500 ms, 30 s).
`ProxyFairness`: the loop is scheduled when it can step, and so is the goroutine in each
place, whose database calls return and whose converter ends; the code sets no timeout on
converters, so this is assumed of them. That the loop, which blocks on the semaphore,
then still meets `ControlSpec` with its fairness is itself a property of `queue_live`. No
handler, reboot or failure is assumed to happen.

## 4. Proofs

All are for arbitrary sets of processes, files and places, arbitrary candidate sequences
and arbitrary bounds, from the assumptions named in the modules.

* `SerialLaunchesExclude`, `HoldersKeepTheLock` (`ArchiverProofs`): `SerialSpec` implies exclusion
  and that a holder's lock file exists. The inductive invariant `SerialInv` adds that nobody is
  between the two calls of `acquireLock` while somebody holds the lock.
* `TypesHold`: the type invariant of `Spec`, including that the search of
  `handleCollision` stays within the candidates.
* `NothingIsLost`, `RegistryDescribesDisk`: `SoloSpec` implies `NoLoss` and `RegistrySound`. Neither is inductive. `SoloInv`
  adds `Idle` (only a holder of the lock has a job, so the other processes cannot
  interfere), `PlaceKnown` (what the run found out about its place is still so: free
  before `os.Create`, partial before the copy ends, whole until it is registered, and in
  no row) and `SourceKept` (the file is still in the source unless its owner took it,
  which is what makes the two roll-backs harmless).
* `SettledPlacesLast`: the action property `ArchiveStable`, from the same invariant.
* `RunsKeepCustody`: `SoloSpec` implements `ArchiveCustody`; the lemmas `SamePlaces` and
  `PlaceGivenUp` deal with the steps that do not touch the disk.
* `SuccessImpliesRow`: `Spec` implies `SuccessIsRegistered`, from the invariant that a
  pending SUCCESS belongs to a registered file and that rows are only added.
* `RowsFollowArrivals`: `Spec` implies `RegisteredOnce`. The invariant counts: the rows of a file
  and the file itself, if it is in the source or on its way to a row, are together no more
  than its arrivals.
* `FaultFreeRunsRegister`: `Spec` implies `FaultFreeIsRegistered`, as a file leaves the source
  only in the step that takes its run to the registration.

* `StoppedWorkersStayStopped` (`ProxyWorkerProofs`): `status = "stopped"` exactly when there
  is no loop, for all of `ControlSpec`; inductive with the observation that only
  `StartWorker` touches either.
* `PromptStatusIsTrue`: `PromptSpec` implies `ChannelsTellStatus`. The invariant adds that
  at most one of the channels holds a message and which one goes with which status and
  place of the loop; without `Prompt` it is false, as `control_lost` shows.
* `SettingsReachTheWorker`: with one request at a time, `ControlSpec` implies
  `SettingsTakeEffect`. `SettingsInv` relates what the request has read to what is saved
  (`Follows`): they are the same, unless a pause or a resume came between them, and then the
  saved pause agrees with the status. `control_two` shows that the assumption is needed.
* `ProxyRefinesControl` (`ProxyWorkerProofs`): initial states and steps of `ProxySpec` are
  those of `WorkerControl`, so its safety theorems hold of the queue.
* `ProcessingRowsAreHeld`: `ProxySpec` implies `ProcessingIsHeld`, with any number of rows and
  places, from the types of the columns and of the goroutines' items.
* `OnlySmallAreSkipped`: `ApartSpec` implies `SkippedIsSmall`. The invariant says that between the
  two UPDATEs no large row outside the trash is without a status.
* `QueuedRowsAreTakenUp`, `QueuedRowsAreTakenUpBesideRegeneration`: with one place in the
  semaphore, `QueuedIsTakenUp` holds of `ProxySpec` without requests to regenerate and of
  `ApartSpec` with them. `HandInv` says that past `Mark` a row is "processing" or gone
  (`RowsTaken`), and that a request to regenerate is about no row in a goroutine's hands
  (`RegenAway`). With a second place a restart can queue a row which another conversion
  still ends on.
* `DoneRowsHaveProxies`: with one place and different proxies for different rows, `ApartSpec`
  implies `DoneHasProxy`. `DoneInv` adds to `HandInv` that the goroutine's output is at the path
  of its own row, partial and then whole (`OutputKept`). Both assumptions are needed: with
  `max_workers` above its default of one the loop may list a row that is dispatched and not
  yet marked, so that two conversions of one file overlap, and one that fails leaves the
  other's row done over a partial proxy; rows of one path overwrite each other's proxy. TLC
  checked `HandInv` and `DoneInv` on the instance of the run `queue` and with two rows.
* `DeletionsAreAudited` (`TrashBinProofs`): a request that is about to remove a row has logged it.
* `RestorePathIsKept` (`TrashBinProofs`): from the invariant that a row outside the trash
  names the dated place of its file.
* `DisjointNamesSurvive`: if no two files share a name in `_trash/`, `FileSurvives` holds of
  all of `TrashSpec`. The invariant says that a file, its row and every path that a
  request has read, chosen or listed for it (`PlanOf`) are among the places of that file,
  so that no rename or removal meets another file. `trash_collision` shows that the
  assumption is needed.
* `InitKeepsFiles` (`InitModeProofs`): `InitSpec` implies `NothingLost`, for any number of jobs.
  The invariant `InitInv` adds that the path at hand still holds its file and that a
  chosen destination is empty until the move, which then loses nothing.
* `OneJobRegistry`: with one job per destination `RegistryMatches` holds. `RowsInv` adds that
  rows are at held places, that no listed path and neither the path at hand nor its
  destination has a row, so that no file with a row is moved and none gets a second.
  `init_jobs` shows that the assumption is needed.
* `PlainNamesSettle`: under `PlainNames`, `InitSpec` implies `SettledStays`, for any number of jobs.
  `PlainNames` says of the files' possible paths that a candidate below `_duplicates` is the
  file's own path or one that `isExistingDuplicateFile` traces back to the first candidate;
  names that end in
  `_01` themselves break it (`init_again`). `SettledInv` says that after a run without
  failures each file stays where it is (`Placed`), because its path is valid, because its
  original is there, or because all its candidates are taken; none of these is undone by
  the move of another file, since the place it leaves is nobody's candidate (`MoveArranges`).
* `CleanRunsRegister`: under `PlainNames` and for one job, `CleanRunRegistersAll`. `RegisterInv` adds
  that in a run without failures each file has its row, is still to be done or in hand, or
  has found no place. TLC checked `PlainNames` and these invariants on the instance of the
  run `init`.

* `ReferencesAlwaysHold`, `NamesAlwaysDiffer` (`TagsProofs`): `TagsSpec` implies `ReferencesHold` and
  `NamesDiffer`, for any use of the browsers; both are inductive with the types.
* `TagsAreNotLost`: `OrderlySpec` implies `NoTagLost`, for any files, browsers, loads and saves. The
  invariant `CopiesCover` says that every copy, in a list, in a load under way and in a save with
  what was taken off, knows every tag its file has, under its id or that of a tag that was merged
  into it; a list may be behind only while a save of the file is answered. `UsersWait` says what
  waiting brings about: the viewer shows what its list has, a save is of the file in the viewer
  and the only one of its browser, and no two browsers list a file. `HeirsOfMerged`
  says that a tag which was not merged is its own only heir. Without waiting `UsersWait` fails,
  and so does the theorem's property.

* `LastCopyIsSafe`, `LastCopyHasRow` (`DuplicatesProofs`): `CarefulSpec` implies `LastCopySurvives`
  and `LastCopyRegistered`, for any number of requests, groups, places and copies. The
  invariant `Safe` says who may work beside whom (`Orderly`); that primaries have places of
  their own, and that one which may not be as its row says is alone in its group, so that
  no rescan prefers it (`PrimariesApart`); that a bulk delete plans only places under
  `_duplicates`; that what a rescan or a promotion has read stays true while bulk deletes go
  on beside it (`PlanHolds`, `PromotionHolds`); and, for every content, why a copy of it is
  left (`Kept`): a file that has no row, after an error or a kill; a primary that nobody
  moves, replaces or forgets; duplicates that have lost their primary and are left alone; or
  a copy between the two ends of a promotion. That a rescan's choice exists, the row with the
  smallest number, is the lemma `LeastOne`, by well-foundedness of the finite sets.
* `RowsAndFilesAgree`: `CarefulSpec` implies `RowsMatchFiles`. The invariant says that rows and files
  differ by the change which the one request has in hand, and by nothing else. TLC checked
  both invariants on the instance of the run `duplicates` before they were proved.

* `NothingIsLostBesideRequests`, `RowsStayTrue`, `RequestsLeaveTheRunAlone` (`SharedArchiveProofs`):
  `CarefulSpec` of `SharedArchive` implies `Kept`, `RowsTrue` and `RunUndisturbed`. `SoloInv` is no
  invariant here, since a row may name a place that the run is filling while a delete takes
  its file away. `RunInv` keeps what of it does not speak of rows. `WebInv` adds that what
  a run works on has no row and a file has one at most (`WorkIsNew`, `RowsApart`), so a
  request's row and the run's copy are never the same file; that rows no delete is taking
  away, in the archive and in the trash, name their files (`RowsHeld`, `BinHeld`); that
  whatever lies in the trash has a row for it, is going to get one, or was listed by an
  emptying (`BinKnown`), which then removes nothing else; and what a request has found out
  (`RequestsKnow`). `RunEffects` reduces the steps of a run to six effects on disk and rows. TLC
  checked the invariant on the instance of the run `shared` first.

Only model-checked: the liveness properties (`InitEnds`, `RunEnds`, `Drains`, `LockIsFreed`,
`PauseSuspends`, `QueuedIsServed`, `PauseFallsSilent`, and `ControlSpec` as a property with its
fairness), which are beyond the prover.

## 5. Plan

Done: the lock, the archiving run, the initialisation run, the proxy worker with its queue,
the trash, duplicates, tags, and the archiving run next to the trash. Next:

1. The pure functions on names and patterns (`shouldIgnore`, `isValidArchivedPath`,
   `isExistingDuplicateFile`, `validatePaths`) against reference definitions, which gives
   `Ignored`, `Dated`, `Original` and `Candidates` their meaning.
2. Files and names apart (inodes), so that promotions and rescans can run next to an
   archiving run.
3. The code of restore and permanent delete behind the 404, with the missing column as
   a parameter.

Not modelled, and why: set-up (creates files that are missing), the ALTER TABLE statements of
the migrations (idempotent DDL), the thumbnail cache (a thumbnail is never compared with its
source again, so it promises nothing that a change of the archive could break; the hazard
is listed), the converters (external programs), read-only queries, routing, media
serving, and the browser client beyond the tags of files (state of the user interface
only). The content of a file is fixed while it is in the source: a file that is rewritten
with the same size between the read and the removal is lost by the code, which compares
sizes only.
