# A verification project for knowledgebase_storage

The storage collects what happens in coding-agent sessions on many devices,
queues each session for a summary, lets workers that own LLM providers pull the
queue, and keeps the resulting notes as markdown. This directory models the
parts of it in which several actors touch the same state, checks them with TLC
and proves the most important properties with TLAPS. Paths below are relative
to the repository.

## 1. Inventory

| Component | State it keeps | Operations | What is hard | What makes it correct |
|---|---|---|---|---|
| **Session job queue** (`backend/services/jobs.py`, `repositories/job.py`, `routes/jobs.py`, janitor in `backend/__init__.py`) | `job` rows: status, claim token, attempts, deadlines, bookkeeping of background reopens | enqueue, claim, heartbeat, release, report, result, fail, retry; reclaim, purge, settle, sweeps | every actor races every other one; claims expire while the worker still works; some handlers commit half way or save a row read without a lock | one lease per session; late results fenced; no activity lost; the queue drains |
| **Owner decisions** (`services/decisions.py`) | `note_decision`, `note_pin` | forget (HIDE, PURGE), allow, move, pin | the note may be in production while it is deleted | a deleted note never comes back |
| **Session capture hook** (`hooks/kbstore_hook.py`) | files under its state directory: what was sent, memory digests, sessions to settle | Stop, SessionStart, Stop of a sub-agent, serve | runs as many processes at once, requests fail at any point | what the device said reaches the server once and in order |
| **Worker** (`cli/worker.py`) | slots per provider, seats, the claims held, config cache | claim, hold (heartbeat), produce with fallback, report, release, supervise | cancellation while a claim is in flight, fallbacks sharing the seats of other slots | no claim is forgotten, no seat leaks |
| **Session checkpoints** (`summarizers/session.py`) | progress of one summary across attempts | run, filed, prune | another worker continues a checkpoint | never mixes two conversations |
| **Memory merge and sync** (`repositories/job.py`, `services/background.py`, `services/notes.py`) | memory files, the `memory_merge` job of each | sync, ensure, carry, merge result | devices keep syncing while a merge is produced | no document that was taken in is dropped |
| **Raw transcript ingest** (`services/ingest.py`) | raw files, parts, digests | append at offset, rebuild | lost answers, truncated files | what is stored is a prefix of what the device holds |
| **Projects and aliases** (`services/projects.py`, `repositories/alias.py`) | directories, `project_alias`, `job.project` | resolve, merge, delete | a merge is a dozen commits | one step of alias leads to the live project |
| **Project links** (`services/links.py`, `repositories/link.py`) | `project_link` | write, absorb, judged, apply, drop, carry | check and save are not atomic | `part_of` has no cycle |
| **Background sweep** (`services/background.py`) | background `job` rows, overview files | sweep_overviews, sweep_links, sweep_relations, cascade | effect and settlement are two commits | bounded room, no endless rework |
| **Prompts** (`services/prompts.py`) | prompt versions | seed, draft, amend, activate | two commits per activation | one active version a stage |
| **Blobs and worktree files** (`services/blobs.py`) | blobs, parts, manifests | open, part, finish, sweep | sweeps race uploads | a manifest names complete blobs |
| **Git networks** (`services/git.py`) | networks, sources, bundles | carry_roots, source_of, uploads | look up, then insert | one network per root |
| **Settings** (`routes/settings.py`) | providers, runtime settings | put, delete, worker_config with ETag | the worker works from a cached copy | |
| **Sign-in and keys** (`services/auth.py`, `utils/jwtlib.py`) | users, failed attempts, API keys; the session is in the browser's tokens | login, refresh, logout, change of password, purge; create, use and delete a key | attempts are counted before they are written; a refresh may straddle a change of password; a used key is saved from an old copy | guesses are bounded, a changed password ends sessions, a deleted key stays deleted |
| **Sandbox** (`sandbox.py`, `repositories/sandbox.py`) | a lock, the running command, its scratch directory | run, limits, sweep, watchdog | commands that escape their process group, a clearing that misses some of it, a disk that is slow, callers that give up | a command starts as clean as the runner can make it; the limits of both sides add up |
| **Splitting and filing** (`services/split.py`, `services/jobs.py`, `services/decisions.py`) | the split of a session, its notes, pins | decide, ask, share, write, forget the rest; pin, move, forget, merge | the worker files by a plan while entries, pins and projects change | each request is in one note of a live project |
| **Reading and talking** (`services/extract.py`, `summarizers/base.py`, `summarizers/llama.py`) | the requests of a transcript; one conversation with a model | read lines; fold; rounds of lookups | the file grows between readings; context and calls run out in odd places | earlier requests read alike; no message is lost; every call is answered |
| **Import tool** (`tools/kbstore_import.py`) | nothing of its own | import raw files, sessions, memories, git | runs beside the hooks of the same sessions, on older copies | what is stored stays a prefix, the note covers what was announced |
| **Reset** (`cli/reset.py`) | the files of all projects | wipe jobs, remove what is derived, move nested projects up | may be killed anywhere and is then run again | what no transcript can restore survives |
| **Note rendering and search**, **user command**, **frontend**, **migrations** | | | text, presentation, schema history | |

How they interact: the hook posts to the routes; routes call services, and
services call repositories that share one database session per request. A
repository's `save` commits (`repositories/__init__.py:73-77`), so **a request
is a sequence of transactions**, and everything the handler loaded before a
commit is a copy that another request may outdate. `expire_on_commit=False`
(`settings.py:73`) keeps these copies in use. The only mutual exclusion is
`SELECT ... FOR UPDATE` in `find_by_session(lock=True)`, `claim_held` and
`claim_next`, and it ends at the first commit. The janitor is one task of the
api process; workers are other processes.

`PROJECT.json` lists the hazards at the line where they bite, each with the
properties that would catch it.

## 2. Modules

| Module | What it is |
|---|---|
| `JobQueue` | the queue of session summaries with everything that touches it |
| `SummaryLease` | the abstract specification of it: what a client may rely on |
| `Worker` | one worker process: slots, seats, fallbacks, orderly stop |
| `ProjectAliases` | names of merged projects, used by the next two |
| `ProjectLinks` | links between projects, their writers, and what merging does to them |
| `MemoryMerge` | memory files of merged projects and the jobs that unite them |
| `TranscriptUpload` | how a transcript gets from the device into the store |
| `LargeFiles` | large files: settle on the device, the chunk store of the server |
| `MemorySync` | memory files on several devices: pull, push, what each device remembers |
| `GitNetworks` | git history and snapshots, from clones to the networks of the server |
| `Checkpoints` | a session summarized request by request, and resumed |
| `Overviews` | the standing pages of projects: sweep, claim, completion, cascade |
| `Prompts` | versions of a stage's prompt |
| `Splitting`, `NoteFiling` | under which project a request is filed; where the notes are afterwards |
| `Extraction`, `Folding`, `ToolRounds` | reading a transcript, cutting up what is too long, the talk with a model |
| `Import` | the importer beside the hook of the same session |
| `Sandbox` | the runner of commands over files |
| `SignIn`, `ApiKeys` | login, refresh, change of password; API keys |
| `Reset` | `kb reset` |
| `MCJobQueue`, `MCWorker`, `MCProjectLinks`, `MCTranscriptUpload` | values of constants for TLC |
| `MCQueue`, `MCLease`, `MCSweep`, `MCLive`, `MCServices`, `MCProjects`, `MCReading`, `MCDevice` | several modules side by side for one run each, see below |
| `*Proofs` | inductive invariants and proofs |

A definition of a module sometimes has a variant beside it that no other
definition uses (`EnsuredAfresh` beside `Ensured`). A variant is what the code
would do with a likely mistake in it. Each property of a passing run is known
to fail when one of them takes the place of the right one; `PROJECT.json`
(`mutants`) says which.

The tables below list the properties of a module one by one. Where a module has
several that belong together, its last definition is their conjunction, and that
is what the run checks; every conjunct has a variant that breaks it:

| Checked | Conjuncts |
|---|---|
| `QueueSettles` | `PendingDrains`, `ActivityIsSettled` |
| `SeatsInOrder` | `SeatsCounted`, `WithinLimits` |
| `LinksSound` | the type, `OneLinkAPair`, `PartOfAcyclic`, `AliasesFlat` |
| `MergesLoseNothing` | the type, `MergeKeeps`, `NothingStranded` |
| `PushesHold` | the type, `StoredInOrder`, `PushRepairs`, `WellMeansHeld` |
| `LargeFilesHeld` | the type, `CompletedIsWhole`, `ReportedIsHeld` |
| `EditsReachServer` | the type, `SyncedWasHeld`, `PullKeepsEdits` |
| `NetworksHold` | the type and the four of `GitNetworks` |
| `RunsResume` | the three of `Checkpoints` |
| `DoneIsComplete` | `DoneSawEverything`, `DoneWasPassedOn` |
| `StageInOrder` | the three of `Prompts` |
| `FiledByPlan`, `NotesInPlace` | those of `Splitting`, of `NoteFiling` |
| `ReadingsAgree`, `FoldKeepsAll`, `TalkInOrder` | those of `Extraction`, of `Folding`, of `ToolRounds` |
| `ImportBesideHook` | the three of `Import` |
| `CommandsApart`, `SignInHolds`, `ResetIsSafe` | those of `Sandbox`, of `SignIn`, of `Reset` |

### JobQueue

**Grain.** A step is what runs between two commits of one request, which is
what the row lock makes atomic. Handlers that commit once are one action.
Where the code commits half way or saves a row it read without a lock, the
step is split, and the constant `Gaps` says which of these windows are open:

- `"absorb"`: `complete_session` stores a new project link, which commits and
  so gives up the row lock, before `written()` decides from the row it loaded
  earlier (`jobs.py:157-158`). `CompleteWithLinks` is the first transaction and
  `FinishWritten` the second. The second writes the columns that differ from
  the loaded ones and no others, as the ORM does (`Flush`).
- `"sweep"`: `rebuild`, `sweep_rebuilds` and `sweep_refinements` select rows
  and save them one at a time (`ListRow`, `SaveListed`). With the gap closed,
  the same passes are `Reopen`.

**Data.** A conversation is the number of its last turn, a note the number it
was written from, and `job[s].digest` the number the transcript digest stands
for. A column holding a time is kept as the comparisons the code makes with it:

| Field | Columns | Meaning |
|---|---|---|
| `status` | `status`, row absent | `ABSENT`, `PENDING`, `CLAIMED`, `DONE`, `FAILED` |
| `digest` | `transcript_digest` | what it was last enqueued with |
| `text` | `transcript` | whether the text is still in the row |
| `background`, `refined` | `background`, `refined_at` | reopened by a sweep; reopened for a better provider |
| `attempts`, `due` | `attempts`, `next_attempt_at` | failures; whether the backoff is over |
| `age` | `last_activity_at` | 0 active, 1 quiet for `job_idle_seconds`, 2 past the retention |
| `fresh` | `last_activity_at > claimed_at` | went on since the claim |
| `expired` | `claimed_at`, heartbeat | silent for the claim timeout |
| `token`, `by`, `completed`, `path` | `claim_token`, `summarizer`, `completed_at`, `note_path` | |

`GrowOlder`, `BackoffEnds` and `ClaimExpires` are the passing of time. Time is
not synchronous: any comparison may turn true at any moment, in any order.

**Actors.** `Stop`, `LosePost`, `Enqueue`: the device. The raw transcript is
appended before the post is sent. `enqueue` takes `now` before it gets the row
lock; `crossed` and `early` are the case in which a claim commits in between.
`ClaimNext`, `Heartbeat`, `Release`, `Fail`, `Complete`, `CompleteWithLinks`,
`Abandon`, `WorkerDies`: the workers. `work` holds the claims of live workers,
including those the server has given to somebody else since; `choices` is who
may end up answering (`fallback_order`, decided when the job is claimed). A
claim and the reading of the transcript that follows it are one step: the
earliest reading is the one that hands out the oldest text.
`ReclaimStale`, `PurgeTranscripts`, `SettleDecided`, `ScanTrivial`,
`SettleWithoutNote`, `Reopen`, `ListRow`, `SaveListed`: the janitor.
`settle_trivial` lists sessions, reads each transcript and settles with an
UPDATE that repeats its conditions, so it is two steps; `seen` says whether
the row has moved since. `Retry`, `Forget`, `Allow`, `RemoveProvider`: the
owner. `ServerRestarts` ends all requests and the janitor pass where they are.

**Left open on purpose.** Which claimable row comes first: the query orders by
priority and age but passes over locked rows, so nothing can rely on it.

**Left out.** A Stop whose upload fails while its post succeeds (the upload is
`TranscriptUpload`); the verdict PURGE, moves and the deletion of a project,
which drop the row; a session that is already hidden when its first post
arrives (`jobs.py:66-67` lets it in only without PURGE); the columns
`checkpoint`, `progress` and `last_error`, and a provider credited by a
checkpoint of an earlier claim (`Checkpoints` has these); the save of
`sweep_rebuilds` for a session without a stored transcript
(`background.py:263-267`), which touches `completed_at` only; the room other background kinds take. Claim tokens come
back from a finite set when nobody holds them any more: a uuid never does, so
this only adds behaviours.

| Property | Kind | Why it is not obvious |
|---|---|---|
| `NoLostActivity` | invariant | a DONE job is accounted for by the note, the owner's verdict or triviality, through retries, rebuilds, refinements that fail, claims that crossed an enqueue |
| `NoteNeverRegresses` | action | any number of workers may hold stale claims on the session and answer late |
| `HiddenStaysHidden` | invariant | half-finished completions, stale saves and rebuilds all write to the row afterwards |
| `RefineNeverWeakens` | action | who may answer is fixed at the claim; rows are reopened by stale saves meanwhile. Of jobs with a note: a forgotten one may be settled by the janitor |
| `PendingDrains` | liveness | a waiting job is claimable or settled in the end |
| `ActivityIsSettled` | liveness | the device's side of the same: what was enqueued is summarized, settled, thrown away or FAILED |
| `ImplementsLease` | refinement | the row, its stale columns and the workers' tokens amount to a plain lease |

### Worker

One worker process (`cli/worker.py`). asyncio runs one task at a time, so a
step is what a task does between two awaits. `slot[k]` is the task of seat `k`
with its local variables, `inflight` the counters of `Gate`, `cached` the
config, `request[k]` the claim request of a slot or its answer on the way. The
server is reduced to what a worker can tell: a job waits, is claimed, or is
settled, and its token is the slot that asked. `Supervise` fetches a config,
starts slots and prunes ended ones. `Ask` and `ServeClaim` are the claim, `Begin`
and `NothingToDo` its answer, `LoseClaim` an answer that gets lost.
`ProviderFails` goes on to the next of `Candidates` or ends with the `Verdict`:
release or fail. `Produce` is the answer of the provider, `Finish` the request
that ends the claim, `LoseFinish` the same with its answer lost, `Abandon` the
409 of a heartbeat. `Stop` is the signal, `HandOver` and `HandBack` what the
cancelled slots do with what they hold; `Kill` and `Restart` are the other ways
to end a worker. `Reclaim`, `Ripen` and `Continue` are the rest of the server: a
claim times out, a job waits long enough for a slower provider, and a settled
job is reopened. A request the network loses puts the claim into `dropped`. A
claim request nobody waits for any more is served before it is given up, or
never: the shield in `claim()` waits for its answer.

Left out: a second SIGINT; exceptions no handler expects; how often heartbeats
are sent; `retry_after` and the moment a released job is due (`JobQueue` has
it); the narrower choice of fallbacks for refined jobs (`JobQueue`'s
`Fallbacks`).

| Property | Kind | Why it is not obvious |
|---|---|---|
| `SeatsCounted` | invariant | a seat is taken by the slot's own provider and by fallbacks, and left in four ways, one of them cancellation |
| `WithinLimits` | invariant | tasks that hold different configs count into the same gate |
| `HandedBack` | invariant | the stop may find a claim in the queue of the network, in the answer, or half submitted |
| `FailsWhenNobodyIsLeft` | invariant | a busy provider, and one that waits for the job to age, must not count as failed |
| `EveryClaimEnds` | liveness | retries, fallbacks, 409s and lost answers must not leave a slot with a job nobody works on |
| `SlotsComeBack` | liveness | a slot ends when its seat goes; the supervisor must notice when it comes back |

### ProjectAliases, ProjectLinks

`alias` is the table `project_alias`; `links` the rows of `project_link`, with
`Ids` as identities; `judging` the open `project_link` jobs. `OwnerWrites` are
the routes (`WriteLink`, `ConfirmLink`, `ApplySame`, `DropLink`, `Merge`),
`WorkerWrites` what `absorb` and `judged` save (`AbsorbLink`, `Judged`) and the
jobs the sweep opens (`SweepLinks`). Writers run `settled()` and `would_cycle()`. With
`"check"` in `Gaps` a writer stays in `saving` between its check and its save,
and `Save` then writes only the columns that differ from what was loaded; a violated
unique constraint or a row deleted meanwhile ends the request. `Merge` moves
the links as `carry_links` does in its two passes (`Relinked`, `Demotions`),
drops the pairs and redirects the alias; here it is one step.

Left out: descriptions, `stated_by_user`, entries and pins, and whether the
directory of a project exists.

| Property | Kind | Why it is not obvious |
|---|---|---|
| `AliasesFlat` | invariant | resolving is one look-up; merges of merges, merging back, deletions |
| `OneLinkAPair` | invariant | a merge may bring two links onto one pair, in either direction |
| `PartOfAcyclic` | invariant | a merge closes cycles through projects it does not touch, and demotes link by link |
| `NamesAreLive` | invariant | verdicts arrive for pairs whose project is gone |
| `NoSelfLinks` | invariant | a late save may bring together columns of two states of a row |

### MemoryMerge

One memory file name; `file[p]` is what the file of project `p` says, a set,
`{}` when there is none. `merge[k]` is the `memory_merge` row whose session id
names project `k`: its `project` and `note_path` may differ from `k` after a
merge. `worker[w]` is a worker and its claim token. Records handed to a worker
are sets of documents, so the same document handed in twice counts once.

A merge of two projects is a dozen transactions and file operations.
`absorbing` is where it is: `Absorb` (a file only the source has is moved),
`HandInMemory` (`ensure_memory_merge`), `UnlinkMemory`, `ListMerges`,
`CarryDocument` and `DropCarried` for each listed row, `RemoveDirectory`,
`RedirectProject`, `RenameProject`. `CutShort` is the end of the api process at
any point. `ClaimMerge` is the claim with the reading of the records; `HandOut`
saves their digest later, when rows and files may have changed.
`CompleteMemory` compares the digest (`MovedOn`) and either writes the file or
gives the job back. `SyncMemories` is a device.

Assumed: the LLM keeps all it was handed (`Summary`); `ReclaimMerge` never
meets a claim request that still runs, since `stale_claim_hours` is at least 1.
Bounds by choice: the owner merges or deletes one project at a time. Two merges
at once could list a row, lose the lock, and drop it with a document that came
in between (`job.py:199-201`); nothing in the code or its documents rules two
merges at once in or out. Rows whose session id is already the target's
(`job.py:195-198`) need such a merge, or one cut short before.

Left out: attempts and backoff (a failure goes to PENDING or FAILED), the
copies under `archive/`, and entries. Notes and pins in a merge are in
`NoteFiling`; how a device decides what to push and pull is in `MemorySync`.

| Property | Kind | Why it is not obvious |
|---|---|---|
| `DocumentsKept` | invariant | a document handed in survives failures, retries, late answers, merges of merges and restarts until a file was written from it |
| `MergeReplacesWhatItRead` | action | the digest of a claim is saved after the claim, and compared after the work |
| `MergeKeeps` | invariant | what both files said is in a file or in a row at every point where a merge may be cut short |
| `NothingStranded` | invariant | a failed or claimed row of the source must be carried too |

`crossed` says that something else happened during a merge. `MergeKeeps` and
`NothingStranded` do not claim anything then: a text a device syncs between
`read_text` and `unlink` (`projects.py:143-146`), or into the directory before
`remove`, is lost, and a merge back under an old name that is cut short between
`remove` and `redirect` leaves files and jobs under a name that is an alias.

### TranscriptUpload

`push_transcript` of the hook and `IngestService.append`. The transcript only
grows, so its n-th piece is the number n. `hook` is the running hook, one at a
time per session, which the agent kills after its timeout (`Kill`); `put` are
the requests, of which a late one outlives its hook and runs at the same time
as those of the next. The server's side of a request is `Find`, the file
operation, and the commit that saves the row; the ORM writes only changed
columns. Two first requests that insert the row at once end like a lost one.
Left out: uploads of other files in parts (one step in `GitNetworks`).

| Property | Kind | Why it is not obvious |
|---|---|---|
| `StoredInOrder` | invariant | lost, late, repeated and torn requests never leave a hole or a repetition |
| `PushRepairs` | invariant | whatever came before, one undisturbed push ends with all it read in the store |
| `WellMeansHeld` | invariant | what the hook believes stored is stored, unless a request outlived its hook or the server died half way |
| `OriginalIsHeld` | invariant, **fails** | the same without the exception, see Findings |

### LargeFiles

Each device has one repository with one large file. `Edit` changes it and
`QueueLargeFiles`, the Stop, queues it: it touches the pending entry, whose time
is the number of the Stop. `task` is `settle` on that device: `Settle` and
`Fingerprint`, `AskBlob` and `AskMissing`, `SendPart` for each missing chunk up
to `EndOfParts`, `AddManifest` for the list in batches of one up to
`EndOfManifest`, completion in two steps (`Complete` reads and hashes the
chunks, `Lock` takes the row), `Report`, and `Close` and `Unlink` for the entry;
`GiveUp` is a failure at any of them. A failed GET counts as
"not there", as in the code; every other failure gives up until the next round.
Devices cut the file into chunks of their own size (`Cut`). `Rot` damages a
stored chunk, `Inspect` finds out, `Reopen` opens the blob again, and
`RestartServer` ends all requests.

Left out: the cache of assembled files and its release, deleted and shrunk
files, the fingerprint cache, `byte_size`, how long a repository must be idle.
There is no liveness property: two devices that cut a file differently can
reset each other's list for ever, and nothing in the code prevents it.

| Property | Kind | Why it is not obvious |
|---|---|---|
| `CompletedIsWhole` | invariant | two devices write the same list, between one's check and its lock too |
| `ReportedIsHeld` | invariant | chunks are shared by blobs; dropping damaged ones must not take sound ones |
| `NothingForgotten` | invariant | a Stop comes at any moment of an upload of what an earlier one queued |

`slipped` is a Stop between the last look at the entry and its unlink
(`kbstore_hook.py:661-662`): that one is forgotten until the next.

### MemorySync

`disk[d]` is the memory directory of device `d`, `synced[d]` its state file,
`kept` what the server has, by name; a digest is written as the content.
`syncing[h]` is what the hook of one session is doing: `AskMemories`,
`ReadDirectory`, `WriteFiles` for a pull, `Collect`, `SyncMemories` for a push,
and `SaveSynced` for both. Hooks of several sessions of a device run at once and
save the one state file over each other. `Restored` is what comes back of a
content after `render_memory` and `restore_memory`, which is not the identity.
`GiveUpSync` is a lost answer or a killed hook, `LoseState` one killed while it
writes its state. `held` remembers what the server ever had.
What is said of edits goes as far as the server: no device takes one for sent,
and no pull writes over one, that the server never had. That a sent edit lasts
is not said, because it need not: `SyncMemories` writes over what is on the
server without looking, so of two devices that edit a file the one that pushes
last wins, and when a pull then takes that to the other device, the other edit
is in nobody's files, only in `held`. `MemoryMerge` only unites projects. That
two devices agree in the end is left out for the same reason.

| Property | Kind | Why it is not obvious |
|---|---|---|
| `SyncedWasHeld` | invariant | what is in the state file is never sent again, so it must have arrived; hooks write it late, and over each other |
| `PullKeepsEdits` | action | a pull decides from a state file and a directory that others change meanwhile |

### GitNetworks

A clone has a branch (`head`, `objects`) and a working tree; `Ancestors` is the
history. `push[p]` is a hook and the request it waits for: `AskKnown`,
`PushHistory`, then on the server `LookUp`, `FoundNetwork` or `CarryRoots`,
`Register`, `Fetch`, `SaveSource`; after `Acknowledged` the same for the
snapshot (`PushSnapshot`). A step is what runs between two awaits, so two first
pushes may both find no network. `store[n]` is the repository of a network,
`source[c]` the row of a clone. Left out: how large a first push may be, beyond
small or not; several branches; the routes that read a repository.

| Property | Kind | Why it is not obvious |
|---|---|---|
| `HistoryWhole` | invariant | bundles lack what the server was believed to have; two clones push into one repository |
| `BundlesFit` | invariant | what the server named must be in the repository that the bundle goes to, though it may be registered in between |
| `OneNetworkARoot` | invariant | look up, then insert; `together` and `joined` name the cases in which it fails |
| `SkippedIsHeld` | invariant | the marker of a snapshot on the device outlives the requests that set it |

### Checkpoints

`segments` are the requests of the transcript, `stages` the version of the
prompts, `run[w]` a worker's run of the job: what it has, by segment, and what
it was given. `Summarize` is one group, `Report` a heartbeat with the
checkpoint, `MakerFails` goes on with the next provider or hands the checkpoint
back, `SubmitNote` ends it. `SayMore` and `AskAnother` are the session going on,
`ChangePrompts` other prompts. A part is kept with the text and the prompts it
was written from, so that the properties can ask whether they are those of the
plan. Left out: the check of single items against the transcript, and the
header.

| Property | Kind | Why it is not obvious |
|---|---|---|
| `NoteIsOfItsPlan` | invariant | a checkpoint crosses workers, a longer session and other prompts; segments are told apart by hash, groups by what they hold |
| `CreditIsWeakest` | invariant | a part may come from a provider two claims ago |
| `DoneStaysDone` | action | reports and failures each save a whole checkpoint |

### Overviews

`logs[p]` are the notes of a project, `page[p]` its page with what it was
written from (`saw`) and what there was at that moment (`had`), `row[p]` its
job. `StoreOverview` is the completion up to its first commit; `AskHolder` asks
for the page of one project above (`cascade`), which commits and gives up the
row lock, and `SettleOverview` saves the row as it was read. So a claim may be
reclaimed and given away in between (`crossed`), the row may be replaced, and a
request may end half way (`CutShort`). Left out: the room that background kinds
share, and how long a failed job rests.

| Property | Kind | Why it is not obvious |
|---|---|---|
| `DoneSawEverything` | invariant | whether it went on is decided before the cascade, and saved after it |
| `DoneWasPassedOn` | invariant | the cascade may stop anywhere; it is done again because the row is settled last |
| `PagesCatchUp` | liveness | a failed job, a lost answer or a change during the writing must lead to another round |

### Prompts

One stage. `prompt` are the rows, `asking[r]` a request with the row it read.
`ReadForSeed` and `SeedWrites` come first in every reading request; `SaveActive`
and `Retire` are the two commits of `activate`. `Deploy` is a restart, with
other defaults perhaps. `used` remembers the text a version had when it first
became active.

| Property | Kind | Why it is not obvious |
|---|---|---|
| `StageServed` | invariant | an activation ends between its commits, a seed runs beside it |
| `OneVersion` | invariant | the same the other way round |
| `UsedIsKept` | action | a summary names the version it was written with; amendments read the status long before they write |

### Splitting, NoteFiling

`Splitting` is the decision. `entry[o]` is where a project's entry puts it seen
from the working directory, `session` the requests with the lines that vote,
`plan` what the claim carries, `filed` what the worker has decided, `notes` the
note it submits. `Split` is the server's pass over the requests, `FileNext` the
worker's over the rows, `FilingFails` the next provider. Which project "the one
before" is depends on who placed it (section 4): `RepliesFollow` is the rule of
`consts/prompts.py`, for all cases in which the code keeps it, and
`RepliesPassOver` says what the code does in the others.

`NoteFiling` is what happens to the notes on the server. `notes` are the files
with the requests they hold. `Claim`, `Plan`, `WriteNotes`, `SaveJob` are one
completion; `PinRequest`, `Unpin`, `MoveNote` with `Relocate` and `Relink`,
`MergeProjects` with `ClearSource`, `RedirectAliases` and `Relink`, `Forget` with
`Erase`, and `Allow` are the owner. A merge goes into a live project or, back,
into a name that stands for the source (`MergesInto`), which then is a project
again. Files are written at once, rows at their
commits; the completion holds the row lock until it has absorbed links. `Restart`
ends whatever is under way. `settled` says that the last completion ran with
nothing in between: the properties that need it hold from then on, through
moves and merges, until another completion is disturbed. Bound by choice: one
session, and one command of the owner at a time.

| Property | Kind | Why it is not obvious |
|---|---|---|
| `OnlyNamedProjects` | invariant | the model answers with any name, and entries change after the plan |
| `RepliesFollow` | invariant | two passes, one on either side, must agree on what "the one before" is |
| `RepliesPassOver` | invariant | the first pass has no answer of the model yet, the second one has |
| `EachRequestOnce` | invariant | notes of earlier summaries, in projects merged or moved since |
| `NamedNoteIsThere` | invariant | the path is saved last, files move before |
| `NotesInLiveProjects` | invariant | the source directory is cleared, then the alias set |
| `ForgottenIsGone` | invariant | a completion may be under way |
| `PinsObeyed` | action | pins name projects that have been merged since |

### Extraction, Folding, ToolRounds

`Extraction` is `Reader`, line by line. The file is read whole each time, so
`reader` is the reader after the lines so far, and what a reading returns is
`Reading`, with the last traces flushed. Lines are kinds: requests, calls of
five kinds of tools, results, and what either agent writes besides
(`Transcribed`). A trace is exempt from the limit on commands when its text has
the word for failure in it (`extract.py:67`), which is so of failures and of
commands that mention it, called `"word"` here: `MAX_COMMANDS` is no limit on
them. The properties compare `Reading` with the file. A Codex answer is a
message that is noted with no question looked for (`extract.py:299-302`);
`OutcomesHaveCalls` is about Claude's questions only.

`Folding` is `chunk_transcript`, `split_text` and `fold`. A text is a sequence
of characters that know which messages they are of; an answer is of all
messages its part was of. A model may answer with nothing (`complete` of the
llama.cpp client takes it); what is lost so is noted in `unanswered`, and
`MadeOfAll` is about the rest.

`ToolRounds` is one conversation of the llama.cpp client: `StartRound`,
`Replied`, `RunTools` are its loop, `Dropped`, `TimedOut`, `Refused` and
`OutOfContext` what `post` and `answered` do with failures, `Completed` the
call without tools. Sizes are numbers; `sharing` is what the last answer had
room for.

| Property | Kind | Why it is not obvious |
|---|---|---|
| `EarlierRequestsStay` | action | traces are held back, results come late: checkpoints and splits name requests by position and digest |
| `EditsAndFailuresShown` | invariant | the limit on commands, and the flush at a request, must not take them, nor commands that mention a failure |
| `LeftOutIsSaid` | invariant | the limit runs over several lines of one request, and past the traces that are exempt from it |
| `StaysSubstantial` | action | trivial sessions are settled for good |
| `OutcomesHaveCalls` | invariant | results repeat in transcripts |
| `PartsFit`, `ReadInOrder`, `MadeOfAll` | invariants | estimates round, separators count, rounds run out |
| `CallsHaveAnswers` | invariant | unreadable, repeated and failed calls |
| `RepeatsAreTrue` | action | results are cut to fit after they were shown |
| `SharesUseTheRoom` | invariant | shares are given shortest first, in the order of calls |
| `OneAtATime` | invariant | which failures may be retried |

### Import

The hook of `TranscriptUpload` in coarse steps, and the importer beside it:
`ImportSends` starts from offset 0 without asking, and on a refusal goes on to
announce the session (`ImportPosts`). A request is one step; the copy may be
older than the transcript. `queued` is the job and `written` what the note was
made from.

| Property | Kind | Why it is not obvious |
|---|---|---|
| `HeldInOrder` | invariant | two writers, one of which starts over |
| `PushedMeansHeld` | action | an importer shortens the file under a push |
| `NoteHoldsAnnounced` | invariant | an equal announcement does not requeue; `failed`, `beyond`, `mixed` and `crossed` name the cases in which the note is made from less |

### Sandbox, SignIn, ApiKeys, Reset

`Sandbox` is the runner: `Connect`, `StartCommand`, `EndCommand`, `Reap`,
`KillAll`, `EmptyScratch` for each request, with ticks instead of seconds;
`LoseSocket` and `Exit` the watchdog. `processes` and `files` are the commands of
which something is still there. The clearing does its best and no more
(`sandbox.py:47-61`, `99`): `/proc` is listed once, so any process may have
been forked past the killing (`slipped`), and what `rmtree` fails at, or what is
not in the scratch directory at all, stays: the files of the commands in
`Elsewhere` always may, those of the others as long as processes live. What
`StartsClean` promises is therefore what the order of steps is there for: the
lock is not given back before the killing and the removal, and a clearing that
no process outlives makes up for those before it.

`SignIn` keeps tokens where the code does, in the browser: `CountFailures`,
`FindUser`, `RecordFailure` or `ClearFailures` and `IssueTokens` are a login
with other requests between its steps, `CheckRefresh` and `Refresh` a refresh,
`SetPassword` and `Purge` the rest. Times are the whole seconds that tokens are
stamped with. `remembered` are the failures including those purged.
`ApiKeys` is the row of a key with the requests that hold a copy of it.
Left out: CSRF tokens and cookies, sign-up, profiles.

`Reset` is `kb reset` step by step, with directories as paths of names.

| Property | Kind | Why it is not obvious |
|---|---|---|
| `StartsClean` | invariant | processes leave their group, write until they are killed, and may outlive a killing; what one clearing missed must not outlast the next that kills all |
| `AnsweredInTime` | invariant | four limits on one side, one on the other |
| `FailuresBounded` | invariant | requests count before any of them has failed; failures are purged and cleared |
| `SessionsEndWithPassword` | invariant | a refresh checks, then issues; stamps are whole seconds |
| `KeptInUse` | invariant | access and refresh token end at different times |
| `RevokedForGood` | action | a request that saw the key alive saves it after the deletion |
| `MemoriesKept` | invariant | projects inside projects are merged by name, in an order, and again after a kill |
| `EndsFlat` | invariant | the same |

### The MC modules that put modules side by side

Each of `MCQueue`, `MCLease`, `MCSweep`, `MCLive`, `MCServices`, `MCProjects`,
`MCReading` and `MCDevice` puts modules that share no state, or only the aliases, into one
run. A variable (`focus` or `part`) is chosen once and says which of them moves;
the others stay at one initial state, so that their instances add up instead of
multiplying. In `MCProjects`, `focus` is the pair of projects whose links are
explored, or empty.

## 3. Runs

| Run | Question | Instance |
|---|---|---|
| `queue` | Is activity accounted for, and does the queue drain? Does a revoked key stay revoked? | fair; one session, providers `strong` and `weak`, two tokens, two turns of which the first is trivial, two attempts, windows closed. Keys: one key, two requests, four seconds |
| `queue_lease` | Are late results fenced, and is the queue a lease? Are pages and prompts what their requests made them? Do hook and importer agree? | two turns, one attempt, no session quiet beyond the retention, `"absorb"` open. Pages: two projects, one part of the other, one log each, two changes. Prompts: three versions, two requests, two activations. Import: three pieces in blocks of one, two Stops, one import. |
| `queue_sweep` | Does a deleted note stay deleted; do refinements only improve? Is a resumed run one of its plan? | three ranked providers, of which `weak` may be removed, one turn, `"sweep"` open. Runs: two workers, two providers, two claims; the session gets a second segment, or the prompts a second version |
| `queue_lost` | Is activity accounted for with `"absorb"` open? **No** | two turns, two attempts |
| `queue_stuck` | Does the queue drain when providers are removed? **No** | fair, one turn, `weak` may be removed |
| `links` | Do requests and merges, one after the other, keep the links sound? Do readings, folds and talks keep what they read? | four projects, three link identities, windows closed. Transcripts of five lines, five calls (an edit, a question, two commands, a command with the word for failure), one command shown; folds of three messages; talks of two lookups, two rounds, two calls an answer |
| `projects` | The same for links with `"check"` open; do merges keep the memory files, and the notes of a session; does a reset? | three projects, links between two of them; or a memory file in two of them, each its own text, two workers, two merges, or one merge and one sync; or a session of two requests and two commands of its owner, such as a merge and a merge back; or five directories, up to three files and one kill |
| `links_cycle` | Is `part_of` acyclic with `"check"` open? **No** | two projects |
| `worker` | Are seats and claims accounted for? | two providers; configs with two seats for one provider or one for each; two jobs, one of them a background job; a seat moves from one to the other, and back at a restart; the worker's clock right or behind. Splitting: two projects, up to three requests. Runner: three scripts, one of which writes what cannot be removed, three calls. Login: one user, two browsers at two addresses, three failures, two passwords, three seconds |
| `worker_live` | Do claims end, do slots come back, do pages catch up? | fair; one seat each, and the second provider is switched off and on. Pages as in `queue_lease`, one token |
| `device` | Is what was pushed in the store? | transcripts: two requests, three pieces, chunks of two. Large files: two devices that cut differently, two contents, three Stops, one damaged chunk. Memories: two devices, three hooks, of which two run at once, two names, two edits. Git: two clones, three hooks, two networks, three commits of which one merges two roots |
| `upload_lost` | Is what the hook believes stored always stored? **No** | as `device`, four pieces |

What the bounds are meant to include:

- Rows of different sessions meet in two places only: a claim token must
  identify one row, and the room for background jobs. The proofs hold for any
  number of sessions, so the instances have one. Two tokens are two claims
  alive at once, one that holds the row and one that lost it, which is the
  case a fence is for. Two turns are a summarized and a newer conversation, and
  with `Trivial` an old one that needs no summary. Two attempts are a failure
  that retries and one that settles. `queue_sweep` needs three ranks: the
  summarizer of the note, the provider the refinement was meant for, and one
  that is worse than both or vanishes.
- Four projects are two that merge and a chain through two that do not. With
  three links, a cycle of three closes when two of the four become one.
  In `projects` the second merge may carry a row onto a row the first merge
  carried, and may be the way back; the sync is the device that changes a file
  while a worker has read it.
- Three slots are live at once (two of one provider, one of the other, or two
  and one that is being wound up): the smallest number at which a fallback
  meets a busy provider whose seats are taken by its own slot and by a guest.
- Of two upload requests one may be late while the other belongs to the hook
  that runs now. Three pieces in chunks of two are a full chunk and a short one,
  and allow a torn chunk, a short store and a resend. Two devices that cut one content differently are what makes
  one blob have two lists; one Stop more than uploads is one that comes in the
  middle. In `MCDevice` the damaged chunk comes neither with the third Stop nor
  with an edit (`RotOrWork`): each is a case of its own.
- Memories: two hooks of one device save over each other, a third is the other
  device; the second name is what `unlink` of the first may leave undone. Git:
  a merge of two roots is what brings two networks together, two pushes at once
  are what founds one twice.
- A project and the one it is part of are a page and the one that must be asked
  for after it. Three prompt versions are the built-in one, a draft and the
  draft that an amendment makes of a used one.
- Two segments that may each grow, and a second version of the prompts, are what
  makes a checkpoint stale; two providers what makes credit differ. The second
  segment and the second version do not come together (`OneChange` in `MCSweep`).
- Two requests of a session are filed together or apart; two commands are a merge
  after a move, or a merge back.
- Lookups of sizes 3 and 9 in a room of 16 with prompts of 2 and 14: one result
  fits, two do not, and with the longer prompt nothing does. Messages of 1, 3, 5
  and 9 characters with a budget of 4 tokens of 2: alone, together, at the limit
  and cut. At most one line of a transcript comes before the first request, and
  then the file is one line shorter; of the two plain commands, which are alike,
  the same one comes first (`RequestOpens` in `MCReading`).
- Three calls of the runner are a command that leaves something, one that waits
  for it and one after: what one clearing misses is met by the next and gone
  after that.
- Three failures with a limit of one per name and two per address make the two
  limits bite apart; a session of two seconds has a first and a second half.
- Three pieces in blocks of one let an importer start over under a push; two
  Stops are one before and one after what the importer sent.

`device` turns deadlock checking off: the edits and the Stops are bounded, and
when they are used up and all is settled nothing is left to do.

**Fairness of `JobQueue`.** The janitor runs every maintenance interval, so its
passes that free a row are weakly fair, and so is time. A request the server
accepted finishes. A slot of every provider keeps polling, and a poll takes a
claimable job: strongly fair per session, because a job may stop being
claimable between polls while the session goes on. `Answers` is strongly fair:
of the attempts at a session, not every one ends in a crash or a hand-back. No
fairness is assumed for the device, the owner, the sweeps that reopen work, or
a retry.

**Fairness of `Worker`.** A request is answered or times out, the call of a
provider returns or is cut off, since all of them carry timeouts (`ServeClaim`
and `Slot`). The supervisor loop comes round, which is all that is assumed of
it: which config it then finds is not. The janitor reclaims, but only claims
nobody works on have to be reclaimed. No fairness for the owner's settings,
signals, or the outcome of a provider's call.

**Fairness of `Overviews`.** The sweep comes round, workers poll and claims are
reclaimed: weakly fair per project. An answer to a claim and the settlement of
a request are strongly fair, since a claim that is reclaimed, or a request that
is cut short, is tried again. In `MCLive` the worker is stopped before the pages
are looked at, so that its fairness asks nothing of them; otherwise every
behaviour of the pages would count as unfair to the worker and the property
would hold for no reason.

## 4. Findings

- **`queue_lost`.** The comment in `written()` says that a session that went on
  while it was summarized is summarized again. When the result names a new
  project link, `absorb` commits, the row lock is gone, and an enqueue that
  gets in before `written()` is not seen: the job is settled DONE and the new
  turns stay unsummarized until the next one, a rebuild or a refinement.
- **`queue_stuck`.** A job reopened for refinement is offered to providers
  better than the row of the provider that wrote its summary. When the owner
  deletes that provider, nothing matches and the job is PENDING for ever, and
  counts against the background room. The README says that jobs drain.
- **`links_cycle`.** `write` asks `would_cycle` and saves later
  (`links.py:31-42`). Two requests that each link one of two projects under the
  other both pass the question before either is saved, and a project is part
  of itself.
- **`upload_lost`.** An upload at offset 0 truncates whatever is stored
  (`ingest.py:62`), and nothing tells a late first chunk from a wanted new
  start: the hook is killed, the next one pushes everything, then the late
  request truncates the file. A crash between the truncation and the save of
  the row leaves a `byte_size` the file does not have, which is the number the
  hook compares. The last hook of a session believes everything is stored, the
  store has less, and nobody sends it again.

Two more departures of the code from what the repository says, the extent of
which a passing run shows:

- `consts/prompts.py:98-99` tells the model: "A short reply that only continues
  the previous work belongs to the previous request's project." The server settles
  short replies before the model is asked (`split.py:40-50`), and what it goes by
  is the last request that was decided then. When the request in between is one
  that the model is asked about, the reply does not follow it: a request edits
  files of one project, a second one names no path and the model places it in
  another, and the "go on" after it is filed under the first. The worker's own
  memory of the request before (`session.py:184-185`) does follow the answer, but
  only requests that are asked about use it. `RepliesPassOver` is what holds there.
- `worker.py:211` tells the model of the file runner: "Files it writes are
  discarded afterwards." That is so of what `StartsClean` covers; directories that
  `rmtree` may not enter, files outside the scratch directory (`/dev/shm`, the
  directory of the socket), and those of a process that was forked past the
  killing may be met by the next command.

Observations that no text of the repository speaks about, so that they are
notes and not runs:

- An edit of a memory file that one device pushed may be replaced on the server
  by the push of another one that never saw it, and then by a pull on the first
  device too: no machine has it any more (`sync_memories` compares nothing).

- `NoLostActivity` also fails with `"sweep"` open: a stale save can reset the
  bookkeeping of activity enqueued in between. `RefineNeverWeakens` fails
  with `"absorb"` open: the second half of a completion that lost its claim in
  between writes its provider over that of a better note.
- A route may store a link of a project with itself (`Loops`); merging the
  project away leaves that link with a name nobody has.
- A verdict saved by `judged` late may change the kind of a link its owner
  confirmed in between.
- With `"check"` open a link may be saved for a project that has been merged
  meanwhile, and two redirects at once could chain aliases. `NamesAreLive` is
  therefore claimed with the window closed only.
- The row of a raw transcript lies when a resend from 0 is torn while
  `byte_size` equals the local size: the next push finds nothing to send.
- A Stop between the last look of `settle` at an entry and its unlink is
  forgotten until the next one (`kbstore_hook.py:661-662`; `slipped`).
- A merge loses what a device syncs between `read_text` and `unlink` of a
  memory file (`projects.py:143-146`; `crossed`).
- A merge back under an old name, cut short between `remove` and `redirect`,
  leaves files and jobs under a name that is an alias of another project.
- Two merges at once could drop a document that was added between listing the
  jobs of a project and dropping them (`job.py:199-201`).
- `README.md:41` speaks of the pages of the projects under a project; what its
  own page is written from has the paths of those pages only.
- The page of a project above that is claimed while `cascade` runs gets no
  second round from that cascade (`jobs.py:216`).
- A token issued in the second of a change of password, or by a request the
  change ran into, outlives it (`late` in `SignIn`).
- A move writes over a note that has the wanted name (`swallowed` in
  `NoteFiling`); a summary written into a project that is being merged away
  leaves the request in a note that the merge clears.
- Two activations that cross may leave a stage without an active version
  (`overlapped`); two seeds may insert two (`doubled`).
- Networks whose clones turn out to share a root later are never merged
  (`joined` in `GitNetworks`).
- An edit that comes first on its line of tools is not seen by `substantial`: a
  short session with nothing but that edit is settled as trivial.
- Importing a directory whose session is still going on may announce more than
  was uploaded (`beyond` in `Import`), and the hook's equal announcement later
  does not requeue the job; an older archive imported with `--raw` shortens the
  stored transcript; an importer that crosses a hook or a claim may leave a note
  made from less than was announced (`mixed`, `crossed`).

## 5. Proofs

Each theorem is about the specification of one module and uses only the named
assumptions on its constants: it holds for every number of sessions, providers,
projects, workers, requests and devices. The strengthenings were checked with
TLC before they were proved.

**`JobQueueProofs`.** `TypeCorrect` is used by all others.
`NoteNeverRegresses` is no state property, and nothing in the type says why a
worker that passes `VerifyClaim` knows at least as much as the note. **`Fence`**
does: claims at work carry distinct tokens; the worker whose token is in a
CLAIMED row was handed at least the version of the note, at most the raw
transcript; a token in a row that is no longer CLAIMED authorises nothing; a
completion in progress no longer has a worker. From it follow
`LateResultsAreFenced` and `QueueImplementsLease`, a step simulation: each
action is a step of `SummaryLease` or leaves `raw`, `note`, `Owner` and `hidden`
unchanged. `LeasesAreSound` is proved of `SummaryLease` from its six actions
alone (`Sound` is inductive there) and comes to the queue through that
refinement. `DeletedStaysDeleted` needs only that stale rows in `listed` and
`finishing` cannot write the status CLAIMED, and that a completion without a
claim writes no note; it is proved with every window open. `NothingIsLost`
needs **`Memory`**: what the row believes about the session (`Known`), that an
answer of the claim holder covers the row unless the row is `fresh`
(`AnswerCovers`), that a refined row with a completion is covered already,
which is what lets `fail` settle it (`Settled`), and that no window is open
(`NoWindow`). It assumes `Gaps = {}`; `queue_lost` shows that it must.
`RefinementsImprove` needs **`Refinements`**: whoever holds the claim of a
refinement was offered to better providers than the summarizer of the note
(`OffersBetter`), which the claim fixed and which stays true only because nobody
writes a summarizer under a claim; rows that a sweep read were at rest, so a
stale save puts the row back to waiting and never under a claim (`ReadAtRest`).
It assumes that `"absorb"` is closed, and fails without (section 4). The proof
attempt showed that the property needs the note: after an upload of a longer
session, a deletion and a stale save, a refined row whose note is gone is
settled in the janitor's name, beyond the bounds of the run.

**`ProjectLinksProofs`.** `LinksTypeCorrect` and `AliasesStayFlat` hold with
the window open. `NothingIsPartOfItself` and `PairsHaveOneLink` assume
`Gaps = {}` and need **`LinksInv`**: both properties at once, and `saving = {}`.
The hard step is the merge. Its two passes move the links of the source to the
target and demote a link to `related` when it would close a cycle: by
`CarriedSafe` what they leave has one link a pair and no cycle, whichever link
is looked at first. `NothingIsLinkedToItself` holds with the window open.
`NamesStayLive` assumes `Gaps = {}` and `~Loops`: a link of a project to itself
is met by both passes, but only one of its ends is changed.

**`WorkerProofs`.** **`WorkerInv`** is the type, `Seats` (the counter of a
provider is the number of tasks that occupy one of its seats, and the config of
one of these tasks bounds it), `ClaimsKept` (a claimed job is in the answer on
its way to the slot that claimed it, or with that slot, or in `dropped`), and
that only claiming slots have requests. With what a stop finds (`StoppingOnly`)
and what a slot has still to try (`Outlooks`) it gives `EverySeatIsCounted`,
`NoProviderIsOverloaded`, `StopHandsBack` and `FailureIsUnanimous`.
And of `Checkpoints`, **`CheckpointInv`**: what a run has found is of the plan
and the prompts of its claim, and was written by who has the credit for it, or
by the provider at work (`RunSound`); a checkpoint is whole, with the text of
each of its items (`SavedSound`); and the holder of the claim has taken over all
of the checkpoint that is of use to it (`Resumes`), so that its report, which
replaces the checkpoint, drops nothing. From it `RunsAlwaysResume`. That the
groups stay within the plan (`GroupsWithin`) is an induction over the plan: by
the least number at which two functions differ, or at which there is none, a
function with the equations of the recursion exists and is the only one
(`Built`, `BuildsAlike`). A null is assumed to be no run and no checkpoint.
And of `Splitting`, **`SplittingInv`**: the row of a short reply in the plan names
the project of the last row before it that the model is not asked about, when
there is one (`RowsSound`, by the same induction, over the requests), what is filed
follows the rows that are not asked about (`FiledSound`), and a note holds only
what was filed under its project (`NotesSound`). From it `NotesAreFiledByPlan`.
How votes are counted plays no part in it. And of `ToolRounds`, **`RoundsInv`**:
all calls but those being looked up have their answers right behind them
(`TalkSound`), what counts as shown is in the talk and was found (`SeenSound`),
and the two properties of single states. From it `TalkStaysInOrder`. That
results share their room without a rest is an induction over the results, from
the shortest on (`SharesSound`): once one is cut, no other needs less than an
even share of what is left (`Taut`), and giving one of them its share leaves it
so (`ShareOfTheRest`), so that the last takes all there is. Sizes are assumed
to be natural numbers, nothing else. And of `Folding`, **`FoldInv`**: every part
fits, and together the parts are about all messages but those `unanswered`, and
about nothing else (`NothingLost`). For the first round it rests on
`GatheredSound`, an induction over the messages: those read so far are, read one
character after the other, in the parts and, after them, in what is held back.
That cutting a text changes nothing of it (`PiecesAre`, `PiecesRead`) and its
pieces fit (`PartFits`, where the rounding of the estimate counts) are facts of
arithmetic; that texts put together read like the texts one by one is the
induction `BySnoc` over sets of sequences. From it `FoldsKeepAll`, for any sizes
and any number of rounds. A token is assumed to be at least two characters (the
code has `CHARS_PER_TOKEN = 2.0`), because with one a budget of one token would
fit no character; and a rendered message, which has a heading, not to be empty.
And of `Extraction`, **`ExtractionInv`**: the requests read are as many as the
file opened, a call that still waits for its result is pending, what the file
says of edits, commands and failures was told under the request that was open
(`CallTold`, `FailureTold`), and the answers read and the questions pending are
together no more than the calls (`Counted`), without which an answer could come
twice. A line is one step (`StepIs`): all requests but the last stay, and the
last one only grows (`Continues`), the traces that were held back included
(`View`). For that, and for the room that commands take, it rests on `AddedSound`
and `AddedAppend`, inductions over the traces of one line: with a trace more, a
line shows the same and one more or none. From it `ReadingsAlwaysAgree`.

**`TranscriptUploadProofs`.** **`UploadInv`** says that the store and every
chunk on its way are pieces of the transcript (`Ordered`), that the hook waits
for its own request (`Waits`), that without late requests nobody else writes
(`Alone`), where an undisturbed push stands between the answer it started from
and the end of the file (`Repairing`), and what row, file and hook have in
common as long as no request outlived its hook and no write was torn
(`Honest`). From it: `StoreIsAPrefix`, `OnePushRepairs`, `WellPushedIsHeld`.
And of `Import`, **`ImportInv`**: `HeldInOrder`, that nobody sends what it has
not read (`Sends`), and, while no call failed and no importer crossed a hook or
went beyond what was stored (`Untroubled`), that of hook and importer one works
at a time, that the hook goes on where the stored file ends, and that what is
announced is stored before a worker can read it (`Orderly`). From it
`ImporterAndHook`. That a push which ends well leaves everything stored holds
with trouble too: the last block of a push only lands when all before it is
there.

**`LargeFilesProofs`.** **`LargeInv`**: the list a request has checked makes up
the file, which must survive what other devices do between the check and the
lock (`Checked`); the chunks of complete blobs, and of those about to become
complete, are stored while the disk damages nothing (`Undamaged`); an entry
that still bears the time `settle` read stands for what was fingerprinted, or
for something older (`Rounds`). From it: `CompleteMeansWhole`,
`WhatIsReportedIsHeld`, `NoStopIsForgotten`. And of `MemorySync`, **`SyncInv`**:
what a hook goes by, whether it was answered, read from the state file or about
to be written there, was on the server (`GoesByHeld`), and a file that is not
any more what a pull read of it was edited since or deleted, or is what another
pull took from the server (`Accounted`). From it `EditsAlwaysReachServer`. The
one assumption about `Restored` is that a file comes back as a file.

**`MemoryMergeProofs`.** **`MergeInv`**: `DocumentsKept`, that no claim is taken
away while the request that claimed still runs (`Exclusive`), that the digest
of a claimed row is of what its worker was handed (`DigestsMatch`), and that
what a listed row was handed is still to be carried or has arrived
(`Accounted`). From it: `NoDocumentIsDropped`, `ResultsReplaceWhatTheyRead`.
`MergesKeep` and `NothingIsStranded` need in addition how far a merge has come
that nothing got in the way of (`Undisturbed`): that unfinished rows are where
their session id says, which of them are listed, and where the text of the
source is at each stage. And of `Reset`, **`ResetInv`**: from the end of the
first loop on, every project inside another that has a file is on the list with
all it is inside of (`NestedListed`). Taken from the inside out, a file that is
moved up is then at the top. That it meets a name which is not taken
(`VacantIs`) is a count: of one more title than there are files, one is free.
From it `ResetsAreSafe`; directories are not empty and the files are finitely
many. And of `NoteFiling`, **`FilingInv`**: nobody who is about to write notes
meets a decision to forget them (`DecisionStands`); a summary with which nothing
came between has no command beside it, obeys the pins as they are, and has
written every request into one note of a live project (`UnderWay`,
`PlanStands`); and between the steps of a command the notes are already where
the command takes them (`NotePlaces`: in a merge back, under a name that is not a
project's yet), while the row of the job is still to follow (`InPlace`). From it `NotesStayInPlace`. Each request stays in one note through
moves and merges because whole notes are carried to paths that are free
(`OnceMoved`), and is lost exactly where the model notes it (`swallowed`,
section 4).

**`GitNetworksProofs`.** `GitTypeCorrect` first. **`GitInv`**: repositories hold
whole histories, and what a row, a report or a bundle on its way relies on is in
the network it relies on; `store` never shrinks, so what a hook was told once
stays true. From it `RepositoriesWhole` and `BundlesAlwaysFit`.
`SkippedSnapshotsHeld` needs **`SkipsInv`**: of a clone that is not `blurred` one
hook pushes at a time, and a marker that the server's snapshot does not match
belongs to a push that has not heard of its success yet. `RootsShareNetworks`
needs **`RootsInv`**: while there is one first push at a time and no clone has
roots of two networks, what that push read is what there is, and no network but
its own has a root it is about to write (`RootsSound`). Together they are
`NetworksAlwaysHold`. The constants are assumed to be what they are in git:
ancestors are closed, and there are finitely many networks; `Nil` is none of the
values it stands beside.

**`ServicesProofs`.** Five modules without common state.
`Sandbox`: **`SandboxInv`**: one command at a time, and unless a process slipped
past the last killing only the holder of the lock has processes, or files that
can be removed (`OneCommand`). It gives `CommandsStartClean`, whatever else a
clearing fails to remove. `CommandsStayApart` adds how long a caller can have waited
at each stage of its script (`TimesInv`), and assumes that waiting, running,
reaping and clearing together are shorter than the caller's limit. The code's
limits are 10, 30, 5 and 55 seconds, which leaves a clearing ten.
`SignIn`: **`SignInInv`** is the type, `GuessesInv` and `SessionsInv`. A request
that passed `Throttled` and is not written yet is added to the rows it will
become one of: the sum stays under the limit and the number of browsers, also
when the janitor or another login clears rows (`GuessingIsBounded`).
`SessionsInv` says of each token what its acceptance would prove, and of each
request past its check what it will put into the next token; a change of
password makes exactly those late that it meets (`SessionsEnd`). With the
lifetime of a cookie since it was used this is `SignInAlwaysHolds`.
`ApiKeys`: `RevokedKeysStayRevoked` from the type of the rows.
`Overviews`: **`OverviewInv`**. While a request asks the projects above, all that
is owed for its page is on its list, and the row bears its claim or none
(`Undisturbed`), until another claim crosses it. The hard step is a second
answer for the same page: claims at work have distinct tokens
(`TokensApart`), so it must have crossed. From it `DoneLeavesNothingUndone`.
`Prompts`: **`PromptInv`**. A version that is being activated is active from the
first of the two commits on, and nobody else retires it unless two activations
overlap (`OneActivation`); between activations at most one version is active
(`OneActive`); what a request read of a version is either something no request
changes, or what entitles it to write (`ReadSound`). From it
`PromptsStayInOrder`.

The conjunctions `LinksSound`, `MergesLoseNothing`, `SeatsInOrder`, `PushesHold`
and `LargeFilesHeld` are theorems too, from those of their conjuncts.

Every invariant and every action property that a run checks is a theorem. Only
model-checked: the liveness properties `QueueSettles`, `EveryClaimEnds`,
`SlotsComeBack` and `PagesCatchUp`, because liveness under fairness is out of
the prover's reach. Where a module goes over a sequence it does it with a
recursive function, of which `Built` and `BuildsAlike` say that it exists and is
the only one: what a fold of the libraries returns cannot be proved here,
because its induction theorems take an operator.

## 6. Plan

What is left, in this order; (T) marks what to prove.

1. PURGE, which drops a job's row and its transcript, in `JobQueue`.
2. The sweep of relations between notes, and the room that the background kinds
   share.
3. `Worker` with `JobQueue` through the claims, instead of the reduced server of
   `Worker`.
4. The cache of assembled files and its release, in `LargeFiles`; settings with
   ETag.
5. The abstract side of `MemorySync`: which devices agree, and when.

## 7. Not modelled, and why

Frontend, migrations, packaging: presentation, schema history, no state that
several actors change. Prompt wording, rendering and parsing of notes, search
and the context a start prints: text; their outcome is a version number, a set
of requests or a choice here. The Anthropic client and the probe of a provider:
one call without rounds. The user command: only as the change of a password in
`SignIn`. How the importer sends memories and git: as the hook does. Relations
between notes: written into the notes by one kind of job, and read by nothing
that decides.
