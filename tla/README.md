# pwf verification project

TLA+ models of the pwf server, the properties that TLC checks on small
instances of them, and the theorems that TLAPS proves about them. The models
are translated from the Rust source (paths below are relative to `src/crates`,
the user documentation is in `src/wiki`). The modules describe the server, its file and registry
stores, the sessions it dispatches, the releases that share its database, the
terminal interface and the requests of the Neovim plugin; the command line appears as
the requests it sends, apart from the commands that manage the server.

1. [The system](#the-system)
2. [Modules](#modules)
3. [Runs](#runs)
4. [Fairness, deadlock and bounds](#fairness-deadlock-and-bounds)
5. [Proofs](#proofs)
6. [What is not modelled](#what-is-not-modelled)
7. [What could follow](#what-could-follow)

## The system

pwf keeps tasks and study notes as Markdown files, one directory for each
project, and the list of projects in a SQLite registry. One server process per
user answers the command line, the terminal interface and the editor plugin
over a local socket. People edit the same files in Obsidian or in an editor
while the server runs: the files have no owner.

| Component | State | Operations | Hard behaviour | What makes it correct |
|---|---|---|---|---|
| Task commands (`pwf-application/src/task`, `pwf-server/src/services/task.rs`) | the task files: status, `blocked_by`, completion data | create, clone, edit, complete, cancel, backlog, activate, remove | validation spans several files and an unlocked wait for the user | the dependency graph stays acyclic and complete; no save is lost; closed tasks change only as confirmed |
| Mutation lock and confirmation (`pwf-server/src/state.rs`, `services/confirmation.rs`) | `task_mutations`, one question for each stream | lock, drop while the user decides, lock again, time out | cancellation drops futures at any await | every command ends; nobody holds the lock while a user thinks |
| File transactions (`pwf-infra/src/file_transaction.rs`) | observations, pending changes | snapshot, expect, replace, remove, rename, commit | other programs write between all steps; publication fails half way | a commit is a compare and swap over its paths |
| Obsidian store (`pwf-infra/src/obsidian/store`) | the directories of the projects | find and read tasks, guarded writes, new notes, trash | duplicate ids, directories that come and go | a write replaces only what was read |
| Task index (`pwf-infra/src/obsidian/task_index.rs`) | cached scans, watched paths, event generations | read, invalidate, observe events | events are late, lost or fail; scans race with writes | reads are fresh up to the debounce; nothing outdated stays |
| Task sequence (`pwf-infra/src/project_store/task_sequence.rs`, `add_task.rs`) | `projects.last_task_number` | reserve, seed, retry | seeding is three steps, also across processes | no number is given out twice |
| Project store (`pwf-infra/src/project_store*`) | registry rows, one connection, a cache | get, list, add, update, pause, resume, rename | cached rows, cancelled statements | the cache never answers with an old row |
| Project rename (`pwf-application/src/project/rename_project.rs`, `pwf-infra/src/obsidian/project_rename.rs`) | source, staging, backup and destination directories, the row | stage, change the row, commit, roll back | two stores without a common transaction, no lock, crashes | no note is lost; row and directory move together or an error says otherwise |
| Study notes (`pwf-application/src/note`) | note files | add, edit, remove, list | no lock, no counter, an unlocked wait for the user | a note is never replaced by another one, and an edit keeps what others wrote |
| Snapshot worker (`pwf-server/src/project_snapshots.rs`) | generated index pages | one round a minute | reads from the index, shutdown, failing projects | pages catch up; a shutdown ends and nothing is written after it |
| Server lifecycle (`pwf-server/src/server.rs`) | serving, stopping, stopped | start, shut down | requests in progress, the worker | `Stopped` is the last thing that happens |
| Task listings (`list_tasks.rs`, `list_tasks/snapshots.rs`) | snapshots behind page tokens | first page, next page | expiry and eviction | pages of one listing belong together |
| Task graphs (`get_task_dag.rs`, `pwf-wire/src/task/dag.rs`) | marks and the stack of a search, projects read so far | traverse blockers, dependents or both | projects that cannot be read, changes between the reads, limits | what was read is shown, and circles are real |
| Sessions (`task/session`, `pwf-infra/src/session`) | a plan, a child process, a thread | plan, confirm, compare, prepare, launch | deadlines, late answers, cleanup that fails | what is launched was confirmed, and no thread is forgotten |
| Terminal interface (`pwf-tui`) | a draft, a dialog, a question, one pending request | load, edit, save, inspect, confirm, cancel | a channel with answers of cancelled requests; writes that outlive their request | no typing is lost, nothing is written twice unknowingly |
| Local transport (`pwf-local-transport`) | a socket path | bind, take over a stale socket, release | two servers at once | who serves can be reached |
| Database (`pwf-infra/src/database*`, `pwf-server/src/data.rs`) | the database with its log, a staged import | migrate, export, import | crashes between the steps, the supervisor | an import that succeeds is whole |
| Releases of the server (`pwf-infra/src/database/migrations.rs`, `pwf-server/src/lib.rs`, `pwf-cli/src/server.rs`) | the ledger of migrations, the registered executable | start, migrate, install, restart | two releases start at once, the supervisor starts failed servers again | a server serves the schema it was built for; a refused release does not displace one that serves |
| Markdown files (`obsidian/markdown_file.rs`) | the lines of a file | set and remove a property | the text is never rendered anew | an edit changes its own property only |
| Task bodies (`task/content.rs`, `shared/pwf-marker-sections`) | the body of a task | render or append shorthand, append and remove a report | users write sections, lists and code of their own | items reach their section, everything else stays |
| Neovim plugin (`lua/pwf/client.lua`, `pwf-nvim`) | one child, pending requests, timers | request, answer, exit, time out | answers, exits and timers in any order, a next child after the last | every call is settled once; no child stays behind |
| Settings, command line, client, wire format, models | configuration | parse, render, request | | see [below](#what-is-not-modelled) |

Interactions. A task command resolves its project in the registry, takes the
mutation lock, reads files through the task index, and commits a file
transaction; the store then invalidates the index. Creation also reserves a
number in the registry. The snapshot worker reads through the same index and
publishes with the same file transactions, but takes no lock; nor do notes,
project commands and renames, which is where they meet task commands.

The hazards that follow from this, each with its source line and the properties
that cover it, are listed under `hazards` in `PROJECT.json`.

## Modules

Every module begins with a comment that says what it models; `map` in
`PROJECT.json` names the lines behind each definition. A definition whose
comment begins with "Mutant" is a plausible bug of the definition after it; it
is not used by the specification and shows that a property can fail.

### Task commands: `Tasks`, `TaskBoard`, `TaskMutations`

`Tasks` has the data: statuses, task contents, vaults (one optional file for
each id), and the operators of the dependency graph with the validation of
`blocked_by.rs`. The revision of a file is the hash of its bytes, so the content
itself stands for it. `completed` stands for `completed_at`, `commits` and the
report together.

`TaskBoard` is what the commands promise: each of them is one atomic step, and
what it requires of other tasks holds in that step.

`TaskMutations` has the commands as the code runs them. `req[r].step` is the
place in the handler and its `execute` function:

| Step | Code |
|---|---|
| waiting, relocking | `task_mutations.lock().await` in `services/task.rs`, `lock_mutations` after a confirmation |
| locked | the guard is held; the record is read and checked (`ReadRecord`), or a number is reserved (`Reserve`) |
| allocating | a clone reserves its number |
| linking | `read_task_dependencies` and `blocked_by::validate` |
| preparing, prepared | a removal looks its target and its dependents up without the lock |
| asking | `GrpcConfirmationClient::confirm` |
| ready | `commit_task_writes`, guarded by the revision that was read |

A commit is atomic here: that several files change together, or not at all, is
the subject of `FileTransaction`, and a command changes the task file of one id.
`EditorWrite` is anybody who saves, creates or deletes a file. `Cancel` is the
server dropping the future of a handler whose client is gone: creations,
reactivations and removals run in tasks of their own and survive it from the
moment they hold their guard, the other handlers do not.

### File transactions: `FileChanges`, `AtomicCommit`, `FileTransaction`

`FileChanges` has the files, the three kinds of changes and what publishing
them does. `AtomicCommit` is a compare and swap over several paths; only a file
system that gives up half way leaves a prefix of the changes ("torn").
`FileTransaction` follows the code: a store takes snapshots, adds expectations
and changes (`add_observation`, `reserve_mutation_paths`), prepares temporary
files, reads every observed path again in the order of the paths, and publishes
one change after the other. The refinement mapping shows the files as they were
before the first publication until the transaction ends.

`Exclusive` chooses between the two situations of the code. With it, no other
program writes and no other transaction commits from the first check of a
commit to its end, as between two task commands under the mutation lock: then
commits are atomic. Without it, editors and the snapshot worker write at any
moment: then validation is still complete, and what can be overwritten is
exactly what was saved after its check. `disturbed` and `before` are history
variables that say this.

### Task numbers: `TaskSequence`

Creators reserve a number with one `UPDATE`; a row without a value sends them
through a scan of the directory, a second `UPDATE` that never lowers the value,
and one retry. In one server the mutation lock serialises creations; the
statements alone also protect several processes over one registry, and it is
these statements that the model interleaves, following the repository's own
test (`project_store/contract.rs:310`: "A concurrent seed from an older
snapshot must never rewind reservations"). The `SELECT` after an unsuccessful
`UPDATE` is part of the same step: the row never goes down, so what the
`SELECT` could see later leads to the same scan. A scan is one step.

### Project rename: `ProjectRename`

`dir` holds the notes in the source, staging, backup and destination directory;
`row` is the registry row with a counter for its other columns. The steps follow
`stage` (checks, `create_dir`, copying, rewriting), `rename_project` of the
store (one transaction that compares the row with the one that was read),
`commit_staged_rename`, `rollback_failed_install` and the rollback of the row.
`Fail` lets each step fail the way the code handles it, `Cancel` drops the
handler's future where it awaits the registry, `Crash` ends the process.
`broken` is set when an error tells the user that the rename ended between the
two stores, or when nobody was left to tell. `late` are the notes stored behind
the back of a rename, which the code does not promise to keep. Rewriting the
identity in the copied files is one step that fails or succeeds. Renames start
from the source directory only.

### Snapshot worker: `ProjectSnapshots`

`at` is the place in `project_snapshots::run` and in `refresh_project_snapshot`.
Tasks and notes are version numbers; `indexed` is what the task index still
answers with, which `Notice` ends (a file event, or the age of 60 seconds).
`unreadable` projects have a file that cannot be parsed. `server` is the
lifecycle of `server.rs`: the signal, the wait for the worker, and a crash.

### Task index: `TaskIndex`

One read at a time holds the index lock (`reader`), events arrive in `events`
and are observed without that lock, as the watcher's callback does. A directory
is a version number; `Parent` says which path is watched besides the directory,
and a directory may be the parent of another one. `live` are the watches that
still cause events: replacing a directory kills the watches inside it.
`pending`, `ready` and `generation` are the fields of `Changes`; the debounce is
"young" or "old". Evictions by bytes drop any set of entries, where the code
drops the oldest ones until the budget holds. `promised`, `seen` and `returned`
are history: what the next read must not miss.

### Listings and graphs: `TaskPages`, `TaskGraph`

Both extend `TaskBoard`, whose commands change the board between their steps.
`TaskPages` has the requests of several clients: reading the active projects one
after another while the board changes, collecting (filter, order, cap), keeping the listing as a snapshot and cutting pages from it, as
`ListTasksSnapshots` does, or collecting again for every page when the listing
is too large to keep. Expiry is a step of its own, because `prune` runs in
every request. `got`, `listing` and `steady` are what a client was shown and
should have been shown. `TaskGraph` has the search of `get_task_dag.rs` as an
explicit stack (`path`): each visit, the read of a project that it needs, the
nodes and edges it adds with their limits, and the checks of `TaskDag::try_new`
at the end. `TaskQueries` has both, and `QueriesTypeOK` is that they keep their types and
stay within their limits.

### Sessions: `Sessions`

One dispatch, `at` is its place. Planning reads one task after the other
without the lock; the comparison after the confirmation reads them again under
the lock. For Codex the dispatch then talks to a child process: `inbox` has the
requests on its standard input, `responses` what the reader thread has taken
from its output, and the child answers, answers with an error, stays silent, sends
lines that nobody asked for, or exits. `Deadline` may happen at any receive.
A task is what it says and whether it is active, and its revision stands for these
bytes: who puts earlier bytes back brings their revision back.

### Terminal interface: `Terminal`

The state of `App` and `Runtime`: the draft with its flag
`requires_inspection`, the dialog, the question, the pending request; `worker`
and `events` are the spawned task and its channel. `mutations` are the writes
that reached the server, which it may carry out (`CarryOut`) or refuse at any
time, also after the interface gave the request up. A revision is the hash of the exact
bytes (`pwf-models/src/revision.rs:12`), here the number of the contents that the one edited task
has come to, in the order of their first appearance. It is no counter: any write, of the server or of
somebody else, may bring earlier contents back and their revision with them (`Becomes`).
`holds` is a history variable with the edits that are in each contents. `sent`, `owed` and
`seen` are history variables of a draft: its submissions, those that failed for the user, and
those whose effect an inspection showed.

### Registry: `ProjectStore`

`doing` is the operation that holds the store's mutex, from its look at the
cache to its last statement. A caller may go away at any await; `sent` are the
statements of such callers that the connection still executes, before those of
the next operation. The cache is bounded by entries and bytes (`CacheBounded`); it is
emptied as a whole when another row does not fit, as `cache.rs` does.

`LocalData` has the registry beside renames, task numbers, notes and the socket, and
`LocalTypeOK` is what their other properties rest on: types, owners and bounds.

### Study notes: `StudyNotes`

Three kinds of commands, without a lock. A document is, for each of its parts, the
set of commands whose values are in it, which is what the property tells apart:
whose words were kept, replaced or appended to. The sources are in a note twice: as a list in
the front matter, which is a field, and as a section of the body. An edit that names the sources goes by
the list (`stored_sources`) and writes the section anew (`edit_section`), so what a user wrote into
the section alone goes with it; any other edit leaves the section as it is. Committing one file is one step.

### Socket: `ServerSocket`

`bind` of `unix/listener.rs` step by step (inspect, probe, compare again,
remove, bind, inspect, restrict, verify) and the guard's `drop`. Inodes
are used again, which is what makes the comparison of identities delicate.

### Export and import: `DataTransfer`

`data export` and `data import` step by step, with the server, its supervisor
and the write-ahead log that belongs to a database file. Each step may fail or
be the last one. `Installation` puts it beside `ServerUpgrade`: both are about the
same file, and `DatabaseStaysWhole` is what they promise of it together.

### Front matter: `FrontMatter`

A document is a sequence of lines told apart by their first characters.
`set_property` and `remove_property` work on line ranges as the code does; what a
document says is defined independently, by owners of lines, and compared. `TextLines` has what it shares
with the next module, and `Texts` puts the two beside each other and states `TextsChangeAsAsked`.

### Task bodies: `TaskBodies`

The body of one task is a sequence of lines. `Parse` reads shorthand, token by token,
into items for the sections of a preset; `Rendered` and `AppendMarkerSections` write them as a
new body or into the sections of an existing one; `CloseWith` and `Reopen` append a report and take
it off. The properties compare texts that are defined independently
of the functions: the words of each section, and what stands elsewhere.

### Releases: `ServerUpgrade`

`Catalog` gives each release the migrations it was built with, `ledger` are those in the
database. `startup` is the place of a server in `run_resident`: it binds its endpoint, looks at
the ledger without writing, migrates in one transaction and checks again. `command` is the
client's `install`, `restart` or `start` with its preflight, and `Supervise` is systemd, which starts
the registered server again unless it ended with the code for a history it
refuses. `doomed` is a history variable.

### Editor plugin: `EditorPlugin`

`job`, `waiting` and `calls` are the variables of `client.lua`; `unread`, `serving` and
`replies` are where a request can be between the plugin and a child. A child that
was stopped, or that exits, leaves its answers in the pipe, and Neovim reads them before or
after `on_exit`. `scheduled` are the callbacks that `vim.schedule` has not run yet.

`Clients` has `Terminal`, `Sessions` and `EditorPlugin` beside one another, and
`ClientsConsistent`, that none of them mixes up its requests.

## Runs

| Run | What it asks | Instance |
|---|---|---|
| `task_links` | Are two interleaved commands that create, link and remove tasks atomic board operations, and does the lock cover exactly the steps that need it? | 3 ids, a free vault and a chain, 2 commands |
| `task_progress` | Does any command overwrite a save it did not read, or change a closed task unconfirmed, and do all commands end? | 1 id, open or closed, 2 texts, 2 commands, 1 editor save, 1 crash, cancellations |
| `file_races` | What can a commit overwrite while others save at any time? Do edits of texts change only what was asked for? Does the file of the database stay whole? Five parts: transactions, front matter, task bodies, export and import, releases. | 2 paths, 1 transaction with up to 2 changes of all kinds, 2 saves; 3 lines, 1 edit; bodies of 1 to 10 lines, code that nothing closes included, 2 sections, shorthand of 3 tokens; 2 snapshots; 3 releases, 2 servers, 2 commands, 1 failure |
| `file_commits` | Are commits atomic if nobody else writes meanwhile? | 2 paths, 2 transactions with up to 2 changes, failures, 1 crash |
| `task_index` | Can a read miss what it must show, an outdated entry stay, or a watch be lost or kept too long? | 3 directories, one inside another, 2 writes, 2 entries, 4 watches |
| `task_queries` | Does the board stay consistent, do pages add up while it changes, and do graphs show what was read? | 3 ids in 2 projects; 2 clients, 3 listings, 2 snapshots; 2 changes during a graph |
| `graph_depth` | Is every task within the depth limit in the graph, as the help text says? **No.** | 4 ids, limits 1 and 2 |
| `project_snapshots` | Does the worker write what it may, catch up, and stop? | 2 projects, 2 changes, 1 failure of the registry or restart |
| `authored_pages` | Does the index page leave a project's authored page alone, as the wiki says? **No.** | 2 projects, no changes |
| `clients` | Do drafts survive, are retries informed and approvals deliberate; is what a session launches what was confirmed; does every request end; does the plugin settle each call once? | 2 projects, 2 requests, or 3 about a creation, or 4 about an edit of a task that comes to up to 3 contents; a dispatch of 2 tasks to Claude or of 1 to Codex, which may become active, inactive or differently worded at any time; 3 calls of the plugin, 2 at a time, 2 children |
| `blind_retry` | Does an inspection always show what a failed creation did? **No.** | 5 requests: list of projects, template, creation, inspection |
| `local_data` | Does the server keep what it keeps on the disk? Five parts: renames, task numbers, the registry, study notes, the socket. | 2 renames and 1 command; 3 creators, 3 numbers; 2 ids, 3 paths to 2 directories; 5 note commands, 2 numbers, 2 fields and the section of the sources; 3 servers, 2 inodes |

The parts of `local_data`, `file_races`, `clients` and `task_queries` share no state. They are
in one run each because they are small; `part` (or `session`) chooses the one that
moves, and the others stay at one initial state. A property named in the configuration may be a
conjunction (`LocalTypeOK`, `TextsChangeAsAsked`, `DatabaseStaysWhole`, `ClientsConsistent`, `QueriesTypeOK`)
whose parts have names and comments in their modules.

What they show:

* `ImplementsBoard` is the main result about task commands: whatever two
  commands read, validate and ask at the same time, each of them takes effect
  at its commit as if it had run alone. This is why the graph stays acyclic
  when two edits add opposite edges, and why a removal validates again after
  its confirmation. It holds only for the commands among themselves: an editor
  can always write a cycle, so `task_links` has no editor.
* `NoLostUpdate` and `ClosedTasksChangeByConfirmation` hold with an editor,
  because every write is guarded by the content that was read.
* `SavesSurvive` is the honest form of the guarantee for the files: a save made
  before the last check survives, a save in the window between the check and
  the rename does not. The code has no stronger one, and no file system call it
  uses could give it.
* `RegistryNamesTheNotes` and `SuccessMeansMoved` hold for renames that were
  not interrupted and did not report a failed rollback. `NotesKept` holds
  always, crashes included: the notes a rename found are in one of the four
  directories at all times.
* `ReadsAreFresh` is about everything that a command wrote before the read and
  every event older than the debounce, not about saves whose events are still
  on their way. `OutdatedEntriesGo` says that every outdated entry has a reason
  to go soon.
* `PagesAddUp` is what a client of pages may rely on: a kept listing is what was read for
  its first page, and not a moment of the board, because the projects are read one
  after another (`list_tasks.rs:514`); and a listing too large to keep at least never goes back and misses no
  task that was listed all the while. `OnlyNewerListingsEvict` says that a token
  within its minute fails only because of newer listings.
* `CirclesAreReal` holds for what the query read. The query reads one project
  after the other, so a circle it reports may consist of edges of different
  moments; the property is about the tasks as it read them.
* `RetriesAreInformed` has a proviso, which is a finding: F5 inspects the project
  that the browser shows and not the one of the draft, so `blind_retry`
  shows a creation sent twice although the inspection said to look first.
* `EditsApplyOncePerView` needs the expected revision that every edit carries: the
  interface cannot know whether a request that it gave up is still carried out. A revision is
  a hash of contents, so the guarantee is about contents and not about the number of times that something is
  carried out. Say that a submission times out, the inspection shows the task unchanged, the
  submission is carried out late, and somebody puts the earlier bytes back, as the undo of an
  editor does: then the user's retry under the old revision is accepted, and both submissions
  have been carried out. The property allows this, and the run has it: the contents that the retry changes
  are those that the user saw, with nothing of the first submission in them.
  What it excludes is a second edit on top of a first one that the user was not shown.
* `ThreadsAccountedFor` covers every way in which the requests to the app server can
  fail, the clean-up included. A client that goes away after the thread was named
  leaves the thread behind; the code says nothing about that and no property does.
* `ClientsConsistent` has, for the plugin, that each call is settled exactly once, that a child runs
  while calls wait for it and is stopped with the last, and that the exit of a child
  fails only what that child was asked, also when the next child runs already.
* `AppendedToSections`, `RenderedAsParsed` and `ReportsComeOff` are conjuncts of
  `TextsChangeAsAsked`. The first one has a proviso that its proof needed: the body does not end in code
  that nothing closes. A user may write such a body, and reopening leaves one when the last
  "report" of a body is in its code, because `remove_report` looks for the separator in code as well. In
  such a body a Markdown parser reads the appended items as code; whether the code means
  otherwise is not said anywhere. The last one has a proviso, too: `remove_report` looks for the
  report's heading, so a body in which the user wrote such a section, of a task
  that was closed without a report, loses that section when the task is reopened, where the
  comment at `content.rs:369` says that the last report appended by the program is removed.
* `ServesItsRelease` and `StopsOnlyForASuccessor` are conjuncts of `DatabaseStaysWhole`. They hold
  because the endpoint is bound before the database is looked at: whoever would migrate must
  own the endpoint. They are therefore stated for servers with one endpoint. With another
  endpoint (`PWF_RUNTIME_DIR`) on the same database a second release migrates under a
  server that serves; `UpgradesAreWhole` holds then, too.
* `ServingMeansReachable` and `ImportsAreWhole` exclude, by a history variable, two
  actors at one time (two servers that start or stop, two imports, a server that
  its supervisor starts under an import). There the code has windows between a
  check and its use that no lock closes, and does not claim otherwise.
* `EditsStayInPlace` is about documents in which a property's value on its own
  line continues only in indented lines. A blank line or a comment in the middle of such a value
  is YAML too, and the edit then replaces only the lines before it.
* `authored_pages` is a disagreement between the wiki and the code.
  `wiki/obsidian.md:23` says that the server writes `pwf-index.md` and line 25
  that the authored `<project title>.md` remains available;
  `project_snapshot_path` (`pwf-infra/src/obsidian.rs:21`) names the page after
  the directory, and `wiki/projects.md:13` gives a project the directory's name
  as its title by default. The first refresh replaces the authored page.
* `graph_depth` is one between the help text and the code. A task that was met at
  the limit is marked complete, and a shorter path to it does not follow it any more: with 1
  blocked by 2 and 3, 2 by 3, 3 by 4 and a limit of two edges, task 4 is missing.

## Fairness, deadlock and bounds

Fairness is assumed in five specifications.

* `TaskMutations!Fairness`: a step of a running handler happens (`WF`
  of `ServerStep`; the runtime polls ready tasks and file operations return).
  `Decline` is weakly fair because `confirm` waits at most 30 minutes
  (`confirmation.rs:9`). Getting the lock is strongly fair, because tokio's
  mutex serves its waiters in order; weak fairness would not do, since the lock
  is taken and released again and again. Clients owe nothing: `Send`, `Confirm`
  and `Cancel` have no fairness.
* `Sessions!DispatchFairness`: the same for the steps of a dispatch, the question
  and the lock. `Deadline` is one of the steps, since every receive has a
  deadline (`client.rs` `REQUEST_TIMEOUT`); the child owes nothing.
* `Terminal!TerminalFairness`: the worker's steps, of which its deadline is one
  (`OPERATION_TIMEOUT`), and the loop that takes its events. The
  server and the user owe nothing.
* `EditorPlugin!PluginFairness`: the timer of a request fires (`uv` timers) and Neovim's main
  loop runs what was scheduled. The child, its pipes and the server owe nothing.
* `ProjectSnapshots!Spec`: `Work` is the loop of a spawned tokio task, `Stopped`
  is the server's await of that task, and `Notice` happens because a read of an
  entry older than 60 seconds scans again. Changes, shutdown and crash have no
  fairness, and `PagesCatchUp` assumes in its own statement that the project in
  the end stays enabled and readable.

`CHECK_DEADLOCK FALSE` is in the configurations, whose systems really stop:
commands, creations, transactions, renames, servers and dispatches are each used
once, and the counters of the environment are bounded. `CommandsEnd`,
`EveryRequestEnds` (which covers requests of the interface, dispatches and calls of the
plugin), `PagesCatchUp` and `ShutdownEnds` exclude that a command, a
request or the worker stops where it should go on.

Every bound is a constant: `MaxEditorWrites`, `MaxCrashes`, `MaxWrites`,
`MaxSnapshots`, `MaxChanges`, `MaxFileChanges`, `MaxFailures`, `MaxUpdates`,
`MaxInterrupts`, `MaxDisruptions`, `MaxListings`, `MaxGraphChanges`,
`MaxRequests`, `MaxRevision`, `MaxNotices`, `MaxRestarts`, `MaxKills`,
`MaxTransferFaults`, `MaxLines`, `MaxEdits`, `MaxTokens`, `MaxShorthands`, `MaxCalls`,
`MaxServerCommands`, `MaxServerFailures`, and the sizes of the sets. They are
enough for the cases the properties are about (`MaxRevision` is the number of contents that the edited
task may come to; a dispatch needs no such bound, since its tasks move among `Wordings`):

* two commands are enough for every race between two handlers, because a third
  could only hold the lock, which the other two do already; three ids are needed
  for a cycle that neither of two edits closes alone, and for a blocker of a
  blocker;
* two paths and two changes are the smallest torn commit; two saves can change a
  file and change it back;
* three creators let two of them seed while the third reserves; three numbers
  reach the limit;
* two renames meet at the staging directory, and two failures reach every failure of
  a rollback;
* two index writes are one before and one during a debounce; two directories of
  which one contains the other share a watched path, and a third one makes the
  watch table compete;
* three listings of two clients evict a snapshot that a token still names, and a
  listing of three tasks with their bodies exceeds the bytes of all snapshots;
* three tasks have every shape of a circle and of two paths to one task, and a limit
  of three nodes is exceeded by what the depth limit adds;
* three requests are a creation, an inspection and a creation again; an edit needs
  four, with its target; three contents are those before the first submission, those it makes, and
  those of the second one or of somebody else, and every write may go back to any of them. Others come
  to new contents only first, which is enough for the target to be outdated;
* two wordings let a task change and change back between plan, comparison and launch; two tasks
  are compared one after the other for Claude, and one is enough for the protocol of
  Codex, which begins after the comparison;
* two projects are read before and after a change of the board;
* one note at first, with sources in its body alone or in both places, and a second one from a creation
  have the two places differ; an edit names one of two fields, the sources or another;
* three servers are one that was killed, one that takes its socket over and
  one that tries to; two inodes make the second socket get the number of the first;
* two imports follow each other, and two faults fail a step and kill the server;
* three lines are a property, what belongs to it and what follows;
* three tokens are a marker, a word and the marker of another section or of a further item; the longer
  bodies have a section with items, code that contains a heading, and a section or a report after it;
* three calls of the plugin with two children are one that waits, one that ends with it and
  one that needs the next child, and two in flight reach the limit;
* two commands of the client are the installation of a release and of its successor; the third
  release is one whose history differs.

`MaxTaskNumber` stands for 9999, `MaxDirectories` for `DIRECTORY_COUNT_MAX` (16)
and `MaxWatches` for `WATCH_COUNT_MAX` (twice as many), `MaxSnapshots` for 16
listings of at most 16 MiB, `MaxNodes` and `MaxEdges` for 512 and 2048.

## Proofs

| Theorem | Statement |
|---|---|
| `TaskBoardProofs!BoardAcyclic` | `Spec => []DependenciesAcyclic` |
| `TaskBoardProofs!BoardBlockersExist` | `Spec => []BlockersExist` |
| `TaskBoardProofs!BoardStaysWellFormed` | the invariant behind both, with types and completion data |
| `TaskBoardProofs!BoardStaysConsistent` | `Spec => []BoardConsistent` |
| `TaskBoardProofs!GraphTypeCorrect` | `GraphSpec => []GraphTypeOK` |
| `TaskBoardProofs!RefusedCirclesAreReal` | `GraphSpec => []CirclesAreReal` |
| `TaskBoardProofs!AnswersShowWhatWasRead` | `GraphSpec => []GraphShowsWhatWasRead` |
| `TaskBoardProofs!PagesTypeCorrect` | `PagesSpec => []PagesTypeOK` |
| `TaskBoardProofs!SnapshotsStayBounded` | `PagesSpec => []SnapshotsBounded` |
| `TaskBoardProofs!ListingsAreWhole` | `PagesSpec => []PagesAddUp` |
| `TaskBoardProofs!NewerListingsEvict` | `PagesSpec => []OnlyNewerListingsEvict` |
| `TaskBoardProofs!QueriesAreTyped` | `PagesSpec /\ GraphSpec => []QueriesTypeOK` |
| `TaskMutationsProofs!CommandsAreTyped` | `Spec => []TypeOK`, the lock included |
| `TaskMutationsProofs!NobodysSaveIsLost` | `Spec => NoLostUpdate` |
| `TaskMutationsProofs!ClosedTasksStayClosed` | `Spec => ClosedTasksChangeByConfirmation` |
| `TaskMutationsProofs!CommandsAreAtomic` | `Spec => ImplementsBoard`, if `MaxEditorWrites = 0` |
| `FilesProofs!TransactionsValidateFirst` | `Spec => []PublishedAfterValidation` |
| `FilesProofs!TransactionsKeepSaves` | `Spec => SavesSurvive` |
| `FilesProofs!CommitsAreAtomic` | `Spec => ImplementsAtomicCommit`, if `Exclusive` |
| `LocalDataProofs!HoldersDiffer` | `SequenceSpec => []NumbersNotShared` |
| `LocalDataProofs!NumbersIssuedOnce` | `SequenceSpec => IssuedOnce` |
| `LocalDataProofs!StagingHasOneOwner` | `Spec => []StagingOwned` |
| `LocalDataProofs!RenamesLoseNoNote` | `Spec => []NotesKept` |
| `LocalDataProofs!RegistryAgreesWithFiles` | `Spec => []RegistryNamesTheNotes` |
| `LocalDataProofs!RenamedMeansMoved` | `Spec => SuccessMeansMoved` |
| `LocalDataProofs!ProjectsStayApart` | `StoreSpec => []ProjectsApart` |
| `LocalDataProofs!ReadsAlwaysShowTheRows` | `StoreSpec => []ReadsShowTheRows` |
| `LocalDataProofs!NotesAreTyped` | `NotesSpec => []NotesTypeOK` |
| `LocalDataProofs!NotesChangeOnlyAsAsked` | `NotesSpec => NotesChangeAsAsked` |
| `LocalDataProofs!CacheStaysBounded` | `StoreSpec => []CacheBounded` |
| `LocalDataProofs!ServingIsReachable` | `SocketSpec => []ServingMeansReachable` |
| `LocalDataProofs!LocalDataIsTyped` | `Spec /\ SequenceSpec /\ StoreSpec /\ NotesSpec /\ SocketSpec => []LocalTypeOK` |
| `FilesProofs!UpgradesAreTyped` | `UpgradeSpec => []UpgradeTypeOK` |
| `FilesProofs!NoUpgradeIsPartial` | `UpgradeSpec => []UpgradesAreWhole` |
| `FilesProofs!ServersServeTheirRelease` | `UpgradeSpec => []ServesItsRelease`, which is about servers with one endpoint |
| `FilesProofs!OnlySuccessorsReplace` | `UpgradeSpec => []StopsOnlyForASuccessor`, likewise |
| `FilesProofs!TransfersAreTyped` | `TransferSpec => []TransferTypeOK` |
| `FilesProofs!ImportsTakeTheWhole` | `TransferSpec => []ImportsAreWhole` |
| `FilesProofs!TheDatabaseStaysWhole` | `TransferSpec /\ UpgradeSpec => []DatabaseStaysWhole` |
| `TextsProofs!FrontSafe` | `FrontSpec => [](FrontTypeOK /\ EditsStayInPlace)` |
| `TextsProofs!BodiesSafe` | `BodySpec => []` of the other conjuncts of the next one |
| `TextsProofs!TextsSafe` | `FrontSpec /\ BodySpec => []TextsChangeAsAsked` |
| `TaskIndexProofs!WatchesAreCounted` | `Spec => []` of the watch counts that the index keeps |
| `TaskIndexProofs!IndexIsConsistent` | `Spec => []IndexTypeOK` |
| `TaskIndexProofs!ReadsShowWhatWasPromised` | `Spec => []ReadsAreFresh` |
| `TaskIndexProofs!OutdatedEntriesAreTold` | `Spec => []OutdatedEntriesGo`, if directories of tasks lie at most one in another |
| `ProjectSnapshotsProofs!SnapshotsAreTyped` | `Spec => []TypeOK` |
| `ProjectSnapshotsProofs!OneRefreshComesLate` | `Spec => []OneLateRefreshAtMost` |
| `ProjectSnapshotsProofs!RefreshesShowTheirRound` | `Spec => RefreshShowsTheRound` |
| `ClientsProofs!DispatchesAreTyped` | `DispatchSpec => []DispatchTypeOK` |
| `ClientsProofs!LaunchesAreConfirmed` | `DispatchSpec => LaunchedAsConfirmed` |
| `ClientsProofs!ThreadsAreAccountedFor` | `DispatchSpec => []ThreadsAccountedFor` |
| `ClientsProofs!CallsAreTyped` | `PluginSpec => []PluginTypeOK` |
| `ClientsProofs!ChildrenServeThePending` | `PluginSpec => []ChildServesPending` |
| `ClientsProofs!CallbacksRunOnce` | `PluginSpec => []CalledOnce` |
| `ClientsProofs!ExitsDisturbNobodyElse` | `PluginSpec => []ExitsAreOwn` |
| `ClientsProofs!RequestsAreTyped` | `TerminalSpec => []TerminalTypeOK` |
| `ClientsProofs!RequestsComeOneByOne` | `TerminalSpec => []OneRequest` |
| `ClientsProofs!NothingIsApprovedByChance` | `TerminalSpec => []ApprovalsAreDeliberate` |
| `ClientsProofs!TypedTextSurvives` | `TerminalSpec => DraftsSurvive` |
| `ClientsProofs!RetriesFollowTheInspection` | `TerminalSpec => RetriesAreInformed` |
| `ClientsProofs!EditsNameWhatWasShown` | `TerminalSpec => EditsApplyOncePerView` |
| `ClientsProofs!RequestsAreNotMixedUp` | `TerminalSpec /\ DispatchSpec /\ PluginSpec => []ClientsConsistent` |

They hold for every number of ids, paths, transactions, commands, creators,
renames and projects, under the assumptions that the modules name (bounds are
naturals, the marker values are not values of the data, titles are numbers in
their order, a registry has finitely many ids).

* *Board.* Acyclicity is stated without paths: every nonempty set of tasks has a
  member that none of the others blocks. Together with "blockers exist" it is
  inductive. An edit is the interesting step: a set without such a member would
  lie, with the edited task, inside what the new blockers reach, which the
  validation excludes; a removal needs that nothing is blocked by its target,
  and a creation that nothing can be blocked by an id that does not exist.
* *Graphs.* What a query reads only grows (`Onwards`), and whatever was said of a task that was read stays
  true when more is read; this is what lets commands change the board between the reads. The stack is
  a path from the root along visible edges, so a task that is met while it is on the stack
  closes a circle. Every node and every edge comes with such a path within the depth limit
  (`Led`), which makes an answer sound. For completeness the invariant says of every visited task that
  what is beside it was met or is still left on the stack (`Walked`); when the stack is empty the
  visited tasks are closed under what is visible (`Settled`), the first traversal stays so during
  the second, and `Connected`, which is a least set, lies within them. It needs that a query for
  dependents has read every project before it starts, because otherwise a project that is read later
  would add dependents to tasks that are complete. The graph stays connected to its root, so the check at
  the end fails for circles only.
* *Listings.* The snapshots kept are the last ones made, numbered without gaps, because expiry and
  eviction drop the oldest ones. An entry is evicted only when it and all newer ones do not fit
  beside the newcomer, by their number or by their bytes, which is what a refused token tells.
  What a request has found while it reads the projects is always a board, although of no
  single moment, so that sorting and capping it is what it would be for any board.
  A token goes on behind the last task shown, for the query it was made for. What was shown of a
  kept listing is its beginning, and any entry under the token's number is that listing,
  since numbers are not used again. A listing that is collected anew, in the order of the ids, has a
  weaker invariant: every task that was there all the while was shown or lies behind the token. It uses that
  `Precedes` is a strict total order, so that a listing is sorted and what was shown lies before the token. That
  sorted listings, sums and least numbers exist is proved by counting.
* *Task commands.* The inductive invariant says of each command what it relies on
  at its step: its operation and target, the record it read with a status and a
  revision that were accepted, and, when it is ready to commit, that what it
  validated still holds of the files as they are. The last part is kept because
  a command that validated holds the lock until it commits, and no other commit
  happens without it; it is claimed only while nobody saved a file in an
  editor. The rest does not need that, so the two properties about lost saves and
  closed tasks are proved with any number of editor saves, and the refinement
  without them. A commit is then one operation of the board (one lemma for each
  kind of command), and every other step changes no file.
* *File transactions.* The inductive invariant says of a validating transaction
  that every checked path was observed and holds its observed content or was
  disturbed since; of a publishing one that no observed path is unchecked, that
  its changes touch observed paths and touch each path once, and that paths not
  yet published hold what was observed, or were disturbed. Without "each path
  once", which `reserve_mutation_paths` provides, the second change of a path
  would go over the first one.
* *Atomic commits.* The abstract files are what the files were before the first
  publication. That a finished publication is the whole of the changes applied at
  once, and an unfinished one a prefix of them, is shown for every number of changes by
  the least counterexample. `Exclusive` is the situation of two task commands
  under the mutation lock.
* *Sequence.* The inductive invariant bounds everything that was ever issued, held
  or found by a seeding scan by the row. `MAX` in the seeding statement keeps it,
  and it makes a fresh number larger than all of these.
* *Project rename.* The proof has two layers. First, ownership: a rename that has
  not written the row read one that named the source, the staging directory
  belongs to the rename that created it, and the row to the one that wrote it
  until it is done or has changed it back. Each step of a rename is summarised by
  what it does to the row and to the staging directory (`Disciplined`), and that is
  enough to keep the owners. Second, where the notes are: in the source until it
  moves, with a complete copy from the writing of the row on; then in the backup,
  and in the destination from its installation on. The hard case is a rename that
  breaks off between the backup and the source. The notes are in neither place
  then that the next rename would look at, and what keeps it away is the staging
  directory that was left behind (`SourceHolds`). So the code that refuses a
  leftover staging directory is load-bearing, although nothing there says so.
* *Registry.* What the cache holds is what the rows are, and where it lists
  projects it lists all of the ones the row table has; the exception is an operation
  that changes rows, and statements of callers that went away, while the cache is
  empty. Clearing the cache before the first statement, and executing statements in the order
  they were sent, keep this. The bounds of the cache need that a row which does not fit empties it; the
  bytes of a listing are a sum over a finite set, which exists, and is a number, by
  counting its members.
* *Study notes.* Each command is typed by its stage, and the file it read at
  `saving` is compared with the file it replaces.

* *Socket.* As long as servers start and stop one at a time (`crowded` is false), a server that owns the
  socket is the one whose inode the path names, and nobody serves while another binds or
  removes the path. No two servers listen at the same inode, although numbers of inodes are used again.
* *Upgrades.* The registered server, while it runs, has the registered release. Whoever holds the
  transaction has applied a beginning of its release's migrations, and all of them at the commit, so the
  ledger goes from one release to another at once. With one endpoint, no two servers are past
  binding, so nobody migrates while another one serves. A command that is about to stop a
  server which has served since the preflight knows that the ledger is a beginning of its own migrations
  (`SuccessorKnown`); it stays one, because whoever serves does not migrate.
* *Export and import.* A bundle is written part by part with the manifest last, so that whoever finds a
  manifest finds the whole. As long as nothing overlaps (`mixed` is false), the import under way is the only one, the
  staged file is its own from the migration to the replacement, no server runs while files are put in
  place, and the log is gone before the database is replaced. That order is what keeps the log of the old database
  from being replayed into the new one.
* *Front matter.* A document is cut into the fences, the lines above a property, its own, those
  below and the body. What two blocks say of a name, one after the other, is what the first says and then what
  the second says, as long as the second is settled: nothing in it belongs to a property above
  (`SaidOfBoth`). In a well-formed document what comes below a property is settled, because `property_range`
  goes as far as the property does; this is where a value that goes on behind a
  blank line would break the argument, and why `EditsStayInPlace` asks for documents without one. The line that
  is put in says itself and is settled, so only its own name says something else. Where nothing starts the name, the new line goes
  behind a whole property, and below it is settled as well.
* *Task bodies.* The blocks of lines are those of the lines above a heading outside of
  code, that heading, and those of the lines below it (`AroundHeading`, `Fresh`): nothing goes
  on with a heading, and the state of the scan at it does not depend on what was above. So a body is cut at the
  section that gets items. Blank lines at its end may go (`TrimFacts`); the new lines, read on top of any blocks of the section,
  add exactly one text for each item, in the style of the list they
  continue or as a new block (`ItemLinesReady`, `ListedReady`, `ParagraphsReady`); and what is below
  starts with a heading. The claim about one section (`Grown`) then goes over all of them by counting, the
  missing headings in order at the end (`GrowsAll`); rendering is the same from an empty body. For reports, the separator that is
  removed is the last one, and in a body that was just closed that is the one that was appended. The inductive invariant (`BodyInv`) adds to
  the properties that a closed task has the body it was closed with and its report (`ClosedAsAsked`), which is what
  carries `ReportsComeOff` from closing to reopening, and that a section has one of the three styles.
* *Task index.* The count of a watched path is the number of the entries and reads that use it, and
  every entry has both of its watches; a read that fills an entry counts as a user from
  the moment it adds them. A reader's promise is the newest write and the newest told event
  when it began, and an entry that is older than a promise is one whose batch has failed, is
  pending for less than the debounce, or is not `ready`. An outdated entry has an event on its way, a
  generation that is not applied, or a failed watcher. Here `NestedOnce` is needed: with
  directories of tasks three deep, nobody tells what is replaced above a watched parent, and only the
  age of an entry ends that. That the table of watches never fills up follows from twice as many
  places as directories.
* *Snapshot worker.* Rounds are numbered by the changes of the configuration, and a late write
  can only be the one that was under way: the number of late writes is zero while snapshots are
  enabled or a refresh has not begun. What a round writes lies between what
  was there when the round began and what is there now.
* *Dispatch.* At `compare` every position below `progress`, and after it every
  position, is as it was read or was saved by an editor since. No command comes in between, because the
  lock is held from the comparison to the end of the dispatch. What was there between the plan and the
  comparison does not matter: a task that changed and changed back is as it was read. No
  plan names a task twice, which the request validates.
* *App server protocol.* The number of a request tells its operation, since they are sent in one
  order, and so what its answer may say. Both channels hold true messages only: a request
  asks what the client knew then, and an answer names a thread that exists. Threads only move onwards (created,
  named, deleted), so that a message stays true while it waits.
* *Plugin.* There is a child exactly while somebody waits, everybody who waits does so for that
  child, and who waits has no outcome yet. This is more than the code compares when a child exits (the job that
  it knows), and shows why that comparison is enough.
* *Terminal interface.* The proof says of every event in the channel, by its kind, what holds if it is
  the one of the pending request (`Told`): nothing else runs under its number; if it is a result of a
  write, the pending request is one; if it is an inspection, there is a draft to show it for, and
  it shows everything that failed submissions of this draft are known to have done. This stays true
  while a request is pending because the draft cannot then be left, saved or typed into, and it holds of no earlier
  request, because numbers are not used again. That edits apply once per view is a
  statement about contents: an earlier submission of the draft is known to the user, or it is not in
  the contents that the later one names (`WorkMatches`), wherever the submission waits. An inspection
  gives the draft a revision together with the edits in its contents (`View`), and a submission that is in
  some contents has been carried out (`AppliedMatches`), so a new one is in none. What the contents of a
  revision hold never changes, and the server carries out an edit only on those it names; it is therefore of no
  account which contents the task went through meanwhile (`ContentsFollow`).

Only model-checked: liveness (`CommandsEnd`, `EveryRequestEnds`, `PagesCatchUp`,
`ShutdownEnds`), which is out of the prover's reach here. Every other property of a passing run is
proved, the composed ones from the specifications of their parts: the run chooses one part for each behaviour, the
theorem takes them together. None of the modules uses
RECURSIVE operators: reachability is a least set, and sums, scans of texts and the publication of a sequence of
changes are recursive functions. Where a proof needs such a function to exist, or a number for it, it
counts: a set of numbers that holds zero and every successor is all of them (`Counting`), which
follows from the well-foundedness of the naturals without an operator as a parameter.

## What is not modelled

* The text of files, apart from the lines of properties, the sections of bodies and the section of a note's
  sources: values, titles, a note whose content itself has the heading of the sources,
  rendering, the validation of presets, placeholders. They are functions without state, tested as such in
  the repository.
* Several projects in the task models. Dependencies cross projects in the code;
  one set of ids stands for all of them (`TaskGraph` divides it among projects),
  so a project that is renamed or removed under a dependency is not covered.
* Other processes beside one server, except creators of tasks (`TaskSequence`), servers
  at one socket, imports and releases that start.
* Files that somebody adds by hand under a number above the sequence: a later creation
  (`obsidian/store/add.rs:35`) writes its note to a file of its own, and the id is then declared twice, which later
  reads report. A rename rewrites ids in the files of its own project only (`project_rename.rs:291`), so
  blockers in other projects keep naming the old id. Nothing in the repository promises
  otherwise in these two cases.
* Poisoned mutexes, permission bits, symbolic links, and byte accounting other than
  its effect on eviction.
* Network and process plumbing: the gRPC stack, health checks, limits on
  connections, logging, the pipes of Windows; and generated code.
* The command line, apart from the management of the server on Linux, and the lists and previews of the Neovim
  plugin: they send one request for each command and render the answer. `pwf server stop` and `uninstall`,
  launchd and the Task Scheduler of Windows. The client library, wire format and
  models, which convert and validate values; the schema changes of migrations.

## What could follow

1. Several projects in `Tasks`, with a rename under dependencies.
2. The rewriting of references in a project rename, on top of `FrontMatter`.
3. A composition of `TaskMutations` with `FileTransaction` and `TaskIndex`, in place of the
   atomic commit and the fresh reads that the former assumes.
