# OmniSci: TLA+ specifications

OmniSci adds a research workbench to the OmniGent agent server: a project
directory with a SQLite database of tasks, research log entries, runs,
artifacts, reviews, issues and approvals, compute providers that execute jobs,
storage providers, and a gate that asks a person before anything leaves the
machine. This directory models that core (`science/omnisci/`), and three parts
of the OmniGent server it runs in (`omnigent/`) where concurrency and failure
matter most: the scheduler of recurring tasks, and the tunnels over which runners
and hosts are reached. The rest of OmniGent is not modelled.

Contents: [components](#components), [what is hard here](#what-is-hard-here),
[modules](#modules-and-the-code-they-model), [runs](#runs), [findings](#findings),
[proofs](#proofs), [not modelled](#what-is-not-modelled), [plan](#plan).

Model checking: `tlc -config RunsShared.cfg MCManagedRuns`.
Proofs: `tlapm ManagedRuns_proofs.tla`.

## Components

| component | state | operations | correct when | module |
|---|---|---|---|---|
| approval gate (`service.py` 686-730, 819-915, 991-1069) | approvals table, stored policies | `_require_approval` from the compute and storage calls, `request_skill`, `resolve_approval`, `revoke_approval`, `set_policies` | nothing runs without a grant; a one-time grant is used once; a denial or revocation is final; a client that asks gets through | `Approvals` |
| managed runs (`service.py` 951-1132) | runs and artifacts tables, the provider's own records | `submit_job`, `get_run`, `list_runs`, `cancel_run`, `_sync_run`, `_collect_run_outputs` | one job per idempotency key; row and artifacts agree; outputs are registered, all and once; the row comes to show the provider's status | `ManagedRuns` |
| provider contract (`compute/base.py` 185-193) | one record and one job per run | `submit`, `status`, `cancel`, `collect` | a reported success is real | `ProviderRecord` |
| local provider (`compute/local.py`) | `run.json`, the process group | `submit` (synchronous), `cancel`, `status`, `collect` | a killed run is no success; a run on record as over has no process; a cancel sticks; every run ends on record | `LocalRun` |
| scheduler providers (`compute/scheduler.py`, over `ssh.py`) | `run.json`, outputs manifest, `outputs.tar`, remote directory, exit code file, cluster job, accounting | `submit` (asynchronous), `status`, `cancel`, `collect` on Slurm, PBS and Grid Engine | as above; outputs are not removed before they are here, unless collections copied at the same time; `remote_cleaned` is true | `SchedulerRun` |
| ssh provider (`compute/ssh.py`) | as above, without a scheduler | `submit` (synchronous), `collect` | as above | staging, collection and cleanup in `SchedulerRun`; its own `submit` planned |
| Modal provider (`compute/modal.py`) | run records, manifest, sandboxes | as above | sandboxes are released; artifact ids are stable | planned |
| records (`service.py` 305-685) | tasks, log, reviews, issues | create, update, complete, review, raise and resolve issues | references exist; an issue is raised once and its life cycle is respected | planned |
| export and import (`service.py` 1230-1565) | archive, staged files, tables | `export_project`, `import_project` | an import leaves all or nothing; an export is closed under references | planned |
| migrations (`domain/db.py`) | schema version | open, migrate | every version is applied once | planned |
| skills (`skills/`) | skill directories, lockfile | install, upgrade, rollback | directory and lockfile agree | planned |
| infrastructure configuration (`infrastructure.py`) | one JSON file | load, replace | no update is lost | planned |
| scheduled tasks (`omnigent/server/scheduled/`, `routes/scheduled_tasks.py`) | task row, job objects and timers, `_IN_FLIGHT_TASKS`, background fires | `start`, `stop`, `add`, `update`, `remove`, tick, `on_fire`, `_run_fire`; create, patch, delete | the timers follow the row; one fire at a time; no occurrence twice; a dead task winds down; sessions are recorded | `ScheduledTask` |
| runner tunnel (`omnigent/runner/transports/ws_tunnel/`, `routes/runner_tunnel.py`) | registered session, requests in flight, waiters | connect, `register`, `deregister`, requests, response frames, `wait_for_runner` | no request and no waiter is left behind when tunnels replace each other; a broken response is no whole one | `RunnerTunnel` |
| host tunnel (`omnigent/server/host_registry.py`, `routes/host_tunnel.py`, `stores/host_store.py`) | registered connection, the host's row | connect, `upsert_on_connect`, `register`, heartbeat, `deregister`, `set_offline` | a host id has one owner; a host that is gone does not stay live | `HostTunnel` |
| sessions, runner, host, harnesses, policies, web client of OmniGent | | | | not modelled |
| storage providers, registries, routes, MCP server, command line | none of their own | adapters | | not modelled |

How they interact. Every HTTP request, MCP call and command builds its own
`ScienceService` (`omnigent/server/routes/science.py` 44-57; the handlers are
synchronous and run in a thread pool, 134-159; `mcp_server.py` 36), hence its own
repository and connection. A repository call is one committed SQLite
transaction; the lock in `Repository` belongs to one instance and protects
nothing across requests. `update` writes the whole row its caller read earlier.
So the atomic step of the models is one repository call or one provider call,
and anything may happen between two of them.

The OmniGent parts run on the server's event loop: what happens between two
`await`s is atomic there, and is one action. Store calls go to threads
(`asyncio.to_thread`) and land while the loop goes on. The two registries are
locked and are used from several loops; what one loop has to tell another it
schedules there as a callback. The scheduled tasks start sessions on a host that
is reached through the host tunnel, and talk to the runner started there through
the runner tunnel; a wake of a managed host drops both tunnels
(`routes/sessions.py` 7223-7226), which is an action of both modules.

## What is hard here

`PROJECT.json` lists the hazards one by one, at their lines. They come in seven
families:

* read, decide, write in separate transactions (approvals, idempotency keys,
  collection of outputs), with many processes and no lock between them;
* commands on other machines that fail, or do their work and lose the reply
  (scheduler providers);
* whole rows and whole files written back from memory, over what others wrote
  in the meantime (`runs` rows, `approvals` rows, `run.json`);
* several effects without a transaction around them (provider and table,
  artifact inserts and run row, `cancel`'s signal and its record), any of which
  may be the last one before the process dies;
* things that must eventually happen and are driven only by later calls
  (reconciliation, collection, the end of a run);
* objects that outlive their registration: the tick of a job that was removed,
  the handler of a connection that was replaced, the waiter that `register` has
  taken out, each of which still changes shared state when it comes to its end;
* clocks and silence: timers that count real time while the schedule reads the
  wall clock, and peers that go away without a word.

## Modules and the code they model

### `Approvals`

State: the table `approvals` (a function from ids to rows; an id is the rank of
`created_at`, the order in which `_require_approval` walks the rows), the stored
`policy`, for every client its call, the policies its service loaded, the gates
it has passed and why, and the row it is about to write; for every operator the
row it read. `grants`, `revoked` and `uses` are history variables.

| action | code |
|---|---|
| `Begin` | a service is built and loads the policies |
| `PassExempt` | `_enforce_compute_approval`: the policy needs no approval |
| `Refuse`, `PassWide`, `TakeOneTime`, `NeedApproval` | the four outcomes of the walk in `_require_approval` |
| `Consume`, `Request` | the second transaction: the row marked as consumed, or the new pending row |
| `Perform` | the call behind the gates |
| `RequestSkill` | `request_skill` |
| `ResolveRead`, `ResolveWrite`, `RevokeRead`, `RevokeWrite` | the two transactions of `resolve_approval` and `revoke_approval` |
| `SetPolicies` | `set_policies` |
| `Crash`, `OperatorCrash` | the process dies between two transactions |

A call is a sequence of gates: one for a submission, a read or a write, two for
`storage_copy`. Scopes are abstract; the constant `StartsWith` is the prefix
relation between them. Which fields of an execution specification make a
submission need an approval is abstracted to the set of actions the policies
exempt.

### `ManagedRuns` and `ProviderRecord`

`ProviderRecord` is the contract of one run of any provider: the record that
`status` reports and the job itself. The record may show anything the provider
has not ruled out, but `succeeded` only when the job ended well; `cancel` stops
an active job. `FinalRecords` says whether a terminal record stays (providers
that look at a cluster may regress), and `MayVanish` whether `status` can fail
to find the run.

`ManagedRuns` has the tables `rows` and `artifacts`, one instance of
`ProviderRecord` per run, and for every client where its call is, the copy of the
row it works on, the copies it has still to reconcile (`list_runs`) and the
artifacts it has still to insert. One action per repository or provider call:

| action | code |
|---|---|
| `FindRun`, `GateRefuses`, `ProviderSubmit`, `FirstStatus`, `AddRow` | `submit_job` |
| `GetRun`, `ListRuns` | `get_run`, `list_runs` up to the read |
| `CancelRun`, `ProviderCancel`, `CancelRefused` | `cancel_run` |
| `StatusChanged`, `StatusSame`, `StatusUnknown`, `UpdateRow` | `_sync_run` |
| `Collect`, `AddArtifact`, `AddDuplicate`, `SaveOutputs` | `_collect_run_outputs`; `AddDuplicate` is an insert that fails on the primary key |
| `Abort` | the process dies or a call raises, anywhere |
| `JobEnds`, `RecordMoves` | the provider's side |

A collection is numbered: a provider outside `StableRuns` makes new artifact ids
on every `collect`, one in `StableRuns` (Modal, by its manifest) repeats the
first.

### `LocalRun`

One run of the local provider. `run.json` is a variable that may hold a record,
nothing (truncated by `write_text`), or text that no longer parses (two writers
that overlapped). `submit` is a program counter over 221-293: the queued
record, the launch, the running record, the wait, the second look at the file,
the time limit, the final record. Each canceller reads, signals the process
group when the record has a process id, and writes its own copy back. Processes
die, and their child lives on.

`early` remembers that a cancel found no process id on record. `Conforms`
states that this is an implementation of `ProviderRecord`, with the last
completed write as the record and the process as the job.

### `SchedulerRun`

One run of a scheduler provider, and the second implementation of
`ProviderRecord`. State: `run.json` as in `LocalRun` (status, job id known,
directory recorded as removed), the outputs manifest, `outputs.tar`, whether the
declared outputs are whole in the workspace (`here`), the remote directory, the
exit code file in it, the job, whether the accounting knows its end, and for
every caller where it is, the record it holds and what others did to the files
it has open (`hand`: they are `sound`, were truncated under it (`cut`), or, for
the archive, were unlinked (`gone`)).

| action | code |
|---|---|
| `WriteQueued`, `MakeDirectory`, `Upload`, `Enqueue`, `KeepId` | `submit`; `Enqueue` and `MakeDirectory` happen whether or not their reply arrives |
| `SubmitFails`, `RecordFailure`, `SubmitCleanup`, `SubmitDies` | its error path, and its death |
| `StatusOver`, `StatusRead`, `ExitCodeFound`, `ExitCodeMissing`, `QueryScheduler`, `QueryUnknown`, `ReportStatus` | `status`: the record, then the exit code file, then `_query_scheduler` |
| `CancelRead`, `CancelCommand`, `CancelReplyLost` | `cancel` |
| `CollectRead`, `WriteManifest` | `collect`, its beginning and its end (`ssh.py` 417-424, 447-459) |
| `OpenArchive`, `StreamOutputs`, `StreamFails` | `collect` creates or truncates `outputs.tar` and has `tar` on the cluster fill it (432-441) |
| `OpenOutputs`, `CopyOutputs`, `ArchiveFails` | `_extract_outputs`, the unlinking of the archive, and an archive that is missing or breaks off (442-443, 474-512) |
| `Clean`, `CleanSkips`, `CleanFails` | `_cleanup_remote` |
| `OpenRecord`, `WriteRecord` | `_write_record`, truncation and text |
| `Abort` | a remote command or a write raises, or the process dies, anywhere |
| `JobStarts`, `JobRequeued`, `JobExits`, `JobKilled`, `Book` | the cluster |

`Answers` and `FinalState` are `_query_scheduler` of the three dialects: what it
can return for a job in each state, before and after the accounting has its end.
Abstractions: nobody knows a run before `submit` has returned, so its writes are
single steps; the manifest is written in one step, and only its existence
counts; the declared outputs of a job that ended well exist, and there are some;
`cleanup_remote` has its default; logs are only a point where a call can fail;
the job script ends when it has left its exit code.

All collections of a run use the same `outputs.tar` and extract to the same
files, so a collection can be hit by another at each of its steps: its archive
truncated while `tar` fills it or while it is read, the archive unlinked under
it, an extracted file truncated while it is written. `hand` keeps track of that;
a call that was hit may raise, or go on and leave files with holes or leave some
out, since nothing compares what came with what was declared. The archive has
the same bytes in every collection, so whoever writes to it, an ssh left behind
by a dead process included, writes what belongs there. Listing the archive and
copying its members are one step with a beginning (`OpenOutputs`) and an end
(`CopyOutputs`), files being truncated at its beginning, and the archive is
unlinked with its end. `rm -rf` is one step: a tree that is removed while `tar`
reads it, which takes two collections at the same time or a cancel, is not read
in part.

### `ScheduledTask`

One recurring task (the scheduler keeps nothing two tasks share): its row, the
job objects that exist for it, where the tick of each is, the in-flight key and
the background fires. A job is an object: after it left `_jobs` a tick that has
begun still holds it, and `Rearm` compares identities as the code does.

| action | code |
|---|---|
| `Start`, `StartFails`, `Stop`, `Exit` | the server boots and loads the schedule or fails to, shuts down, dies |
| `Create`, `Patch`, `Delete` | the requests, each with the scheduler call that ends it (`Register`, `Remove`) |
| `Advance`, `SetClock` | time passes; the wall clock is set |
| `Wake` | `_tick`: the timer has run down and the coroutine is queued |
| `SkipTick`, `FireTick` | `_fire_and_rearm` and `_fire_job` up to `on_fire`: too early, too late, or due |
| `ReadRow`, `Resume` | `on_fire`: the thread reads the row; the key is looked up, a background fire starts, the job is armed again |
| `RunFire`, `Validate`, `CreateSession`, `Override`, `Grant`, `Dispatch`, `Record` | `_run_fire`, each step of which may also fail (`CreateFails`, `OverrideFails`, `RecordFails` and the second branches) |
| `Discard` | the done callback |

Abstractions: a rule is the set of instants at which it fires (strictly after
the wall clock, as `next_fire_after`); time is in units of which `Cap`, `Grace`
and `Tolerance` are multiples; the id of a deleted task is not used again; the
outcome of validation and of the launch is any; the owner check and the
validation of requests come before the row is touched and are left out.
`fire()` is called only by tests. `job.running` follows from `tick`.

### `RunnerTunnel`

One runner: the registered session (`current`), the handler of each connection,
the connections over which the runner still answers (`wire`), the requests and
the waiters. A response is a head, `Chunks` body frames and an end; `routed` and
`ran` count the frames for which a callback was scheduled and has run on the
request's loop. Callbacks of one loop run in order, so an abort, after which no
frame finds the request, is always the last.

| action | code |
|---|---|
| `Accept`, `Refuse`, `HandshakeFails`, `Register` | the handshake of the route, `register` |
| `RunnerVanishes` | the network |
| `HandlerStops`, `HandlerEnds` | a helper task ends (sender, receiver, pings); the handler deregisters its own session |
| `DropStaleTunnel` | the wake of a managed host |
| `Open`, `QueueFrame`, `TakeHead`, `TakeBody`, `GiveUp` | `handle_async_request`, the body iterator, `aclose` or a cancellation |
| `ReceiveFrame`, `RunFrame`, `RunAbort` | `route_response_frame`, its callback, the callback of an abort |
| `Wait`, `SetResult`, `Expire`, `Leave` | `wait_for_runner` and `_resolve_connect_waiter` |
| `OtherWaits`, `OtherLeaves` | waiters for other runners, which share the cap of the server |

`Exchange` is what the caller of one request is promised (the contract of
`httpx.AsyncBaseTransport` as `transport.py` implements it): a call, a response,
its chunks one after the other, and one end; a call ends well only with the whole
body. It knows nothing of connections, sessions and callbacks. `RunnerTunnel_proofs`
shows each request of `RunnerTunnel` to implement it, with `Phase` as the mapping
of its program counter.

Left out: WebSocket channels through the tunnel, the runner's side, frames that
`_receive_loop` cannot decode and drops (`runner_tunnel.py` 669-679), which only a
faulty runner sends, the connect and disconnect hooks, loops that are closed while a request is on them.

### `HostTunnel`

One host id: the registered connection, the handler of each connection, which
outbound queues hold the sentinel, and the row (owner, status, and whether
`updated_at` is recent enough). Writes of heartbeats are threads (`touches`) that
land when they like. The clean-up is in the places a handler goes through:
`deregister`, `set_offline`, and both once more in the `except` clauses when a
helper task or the first clean-up raised (`host_tunnel.py` 313-356).

| action | code |
|---|---|
| `Accept`, `Refuse`, `Upsert`, `Register` | owner check, hello, `upsert_on_connect`, `register` |
| `HostVanishes`, `Crash` | the network; the server dies and the row stays |
| `Touch`, `TouchLands` | `heartbeat` and `update_harness_readiness` |
| `HandlerStops`, `Deregister`, `SetOffline`, `SetOfflineFails` | the end of a helper task and the clean-up |
| `DropStaleTunnel` | the wake of a managed host |
| `Lapse` | 90 seconds without a write of the row |

Left out: the futures of launch, stop and file requests; `delete_host` and the
rotation of ids; re-owning, which only a single-user server does; a second
replica with a connection of its own.

## Runs

Bounds in brackets. All are small because each property concerns one key, one
approval scope or one run at a time, and every race in this code is between two
callers: two clients, cancellers or callers give every pair of overlapping
calls, and a third one only repeats what one of them did before.

| run | shows |
|---|---|
| `approvals_races` [2 clients, 1 operator, 2 approvals, copies, submissions and skills, changing policies] | `OperationBacked`: no copy is performed unless each of its gates was justified by a grant or a policy; `RevokedUnusable`, `ConsumedUnusable`, `DeniedIsFinal`: the stale rows that callers write back revive nothing; `TypeOK` |
| `approvals_retry` [1 client, 1 operator, 3 approvals] | `CopyEventuallyPerforms`: three approvals suffice, although the refused second gate wastes the first |
| `approvals_reuse` | violation of `OneTimeUsedOnce`, see findings |
| `runs_shared` [2 clients, 1 run, 2 outputs, 2 collections, 1 abort, regressing records] | `OutputsRegistered`, `OutputsWhole`, `ArtifactsAccountedFor`, `TypeOK` |
| `runs_serial` [1 client, 2 keys, 2 runs, one with stable artifact ids, 1 abort, regressing records] | `OneRowPerKey`, and `RegisteredOnce`: an output is registered once when no call was cut short or the ids are stable |
| `runs_live` [2 clients, 1 run, 2 outputs, 2 aborts, 7 collections, terminal records final] | `OutputsEventuallyListed`, for good; `StatusConverges`: stale statuses do not last |
| `runs_race` | violation of `OneJobPerKey`, see findings |
| `local_races` [2 cancellers, 1 death, cancel at any time] | `SuccessIsReal`, `TerminalReleases` (unless a cancel came early), `RecordSettles` (unless a process of the server died), `Conforms`, `TypeOK` |
| `scheduler_races` [2 callers, Slurm and Grid Engine, 1 failing call] | `SuccessIsReal`, `TerminalReleases` (of records with a job id; not on Grid Engine, whose error state is taken for a failure), `OutputsKept` (unless a cancel was asked for or two collections copied at the same time), `RecordSettles` (unless the accounting never learns of the job), `Conforms`, `TypeOK` |
| `scheduled_task` [2 rules, 2 job objects, 2 fires, time 0 to 4, timers capped at 2, grace and tolerance 1, 1 setting of the clock] | `ScheduleFollowsRow`, `OneFireAtATime`, `FiredOnce` (unless the clock was set back or a capped timer fired), `DeadTaskWindsDown`, `SessionsAreRecorded`, `TypeOK` |
| `runner_tunnel` [2 connections, 1 request, 1 chunk, 2 waiters, caps of 1 and 2] | `NobodyIsStranded`, `ResponsesAreWhole`, `WaitersAreCounted`, `NoLostWakeup`, `LostRequestsEnd`, `TypeOK` |
| `host_tunnel` [3 connections, two of one user and one of another] | `OneOwner`, `GoneHostGoesOffline`, `TypeOK` |

`MaxApprovals`, `MaxRounds`, `MaxAborts` and `MaxCrashes` bound what is unbounded
in the code: requests, collections, calls cut short, deaths. The properties
compare at most two of each (two rows of one scope, two collections of one run),
which the bounds reach. `uses` counts to 2, enough to tell one use from more.
With `MaxRounds` exhausted a collection is not started; in `runs_live` the bound
is never met (eight collections give the same states as seven), so it keeps no
run from listing its outputs. Two overlapping operators are left to the proof of
`OperationsAreBacked`: each of them may overwrite the other's decision, which the
properties of `approvals_races` besides `OperationBacked` exclude. Deadlock is
checked except for the local and the scheduler providers, where a run really
ends, and for the OmniGent parts, whose bounds (time, connections) come to an end.

The failing call of `scheduler_races` is enough for a collection that dies while
it copies and another that takes over. PBS is left out there to keep the run
small: its final statuses are those of Grid Engine (`FinalState`), and its answers
and its accounting those of Slurm up to which final status it is, so each of its
steps is one of the other two schedulers. The proofs are for all three.

In `scheduled_task` two rules are one that fires twice within a timer's reach and
one whose first wait is longer than a timer; two job objects are the registered
one and the one an unfinished tick holds (a third could only be another such
one, and waits), two fires are enough for the second of `OneFireAtATime`. In
`runner_tunnel` two connections are the old and the new one, and the two caps are
both met. In `host_tunnel` the third connection is there for the other user.
The retry specification of `approvals_retry` stutters only once the copy
is performed, so a client that runs out of approvals is reported as a deadlock.

Symmetry is used only in `runs_shared` and `runs_serial`, which have no temporal
property, over clients and keys, which no definition tells apart.

### Fairness

* `FairSpec` of `MCManagedRuns`: a call that has started goes on (weak fairness
  of `Proceed`; the thread pool runs handlers to their end, `Abort` is bounded),
  and somebody asks for each run again and again (strong fairness of `GetRun`,
  since it needs an idle client). Nothing in the core reconciles on its own:
  the second half is an assumption about the web client and the agents, which
  poll. Jobs and provider records are under no fairness.
* `FairSpec` of `MCLocalRun`: threads are scheduled, and the time limit of
  `process.wait(timeout=...)` passes. The process may run for ever.
* `FairSpec` of `MCSchedulerRun`: of the calls that have started one goes on (a
  thread that hangs for ever is allowed for), somebody asks for the status again
  and again (as for managed runs), the scheduler's commands do not fail to print
  for ever, and the accounting catches up. The job is under no fairness; a cluster without accounting is outside `RecordSettles`.
* `FairSpec` of `RunnerTunnel`: the ping loop of a connection whose runner is
  gone, or which is not the registered one, ends its handler (three intervals
  without a frame, or `send_text` raises), the handler gets to its end, and the
  loops run what is scheduled for a request. Callers, waiters and the runner are
  under no fairness.
* `FairSpec` of `HostTunnel`: the same for the host's handlers, threads write in
  the end, and 90 seconds pass. `set_offline` may fail each time.
* `RetrySpec` of `MCApprovals`: the client repeats its call when nothing is
  pending and the operator approves each request; the question is whether that
  cooperation is enough.

## Findings

Each is a run with `"expect": "violation"`; the counterexample is what the code
does.

1. `approvals_reuse`: two overlapping calls both read an unconsumed one-time
   approval and both pass (`service.py` 1058). A test of the repository states
   that the second use is refused. For one client and one operator it is
   (theorem `OneTimeIsUsedOnce`).
2. `runs_race`: two overlapping submissions of one idempotency key both find no
   row and both create work (957, 985), against the docstring of `submit_job`. A
   retry of a submission that was cut short after `provider.submit` (975) does
   the same. There is no third way (theorem `OneJobForAKey`).

Known limits, which the properties state as exceptions or which nothing here
excludes:

* Two overlapping reconciliations of a run that has just succeeded register its
  outputs twice (`RegisteredOnce` is about one client). With stable artifact ids,
  a collection cut short after an insert makes every later one fail on the
  primary key (`service.py` 1105), and with it `get_run` and `list_runs`.
* `cancel` of a local run whose record has no process id yet signals nothing and
  records it as cancelled while the process runs (`local.py` 364;
  `TerminalReleases` excepts it). A cancel that has returned may be overwritten by
  the record `submit` holds in memory (292). When the server dies nobody records
  the end of a local run (`RecordSettles` excepts it).
* A scheduler job whose id was lost with the reply of `sbatch` or `qsub` runs on
  behind a failed record; the remote directory of a run that failed or timed out
  is never removed.
* Collections of a scheduler or ssh run that overlap before there is a manifest
  can lose outputs (`OutputsKept` excepts them; `shared` in `SchedulerRun`). One of
  them truncates `outputs.tar` (`ssh.py` 432) while the other reads it, the cut
  falls between two members, and the other writes its manifest and removes the
  directory with outputs missing. Or it truncates a file that the other has
  delivered (497), and dies, after the manifest and the removal (458, 459): the
  outputs are on the cluster no more and not whole here, and every later `collect`
  finds the manifest and takes them for collected. Two reconciliations of a run
  that has just succeeded overlap like this. `ManagedRuns` takes `collect` to
  return all outputs and does not see it.
* A process that dies between the truncation and the text of the manifest leaves
  an empty one, and every later `collect` of the run cleans up and raises. The
  outputs are whole in the workspace then.
* An occurrence of a scheduled task is fired twice when the clock is set back, or
  when a capped timer ends within `_DUE_TOLERANCE_S` before it (`scheduler.py`
  277: the tick fires, and `_arm` finds the same occurrence still to come). A fire
  in flight when its task is deleted leaves a run row without a task, and when
  `update_conversation` raises the session it had created is recorded nowhere
  (`fire.py` 364).
* A runner connection whose hello cannot be decoded takes out the live tunnel of
  the runner (`runner_tunnel.py` 596). A response that had arrived whole is
  reported as aborted when the tunnel breaks before it was read.
* The clean-up of an old host connection takes out the one that replaced it and
  sets the row offline (`host_registry.py` 331 has no generation guard, unlike the
  runner's): a connected host may stay unregistered and offline although its
  heartbeats go on, since `heartbeat` does not write the status.

The passing runs show what survives these races: nothing is performed without a
grant, rows and artifacts stay consistent, statuses converge, no killed run
counts as a success, the timers follow the rows, and nobody waits for a tunnel
that is gone.

## Proofs

Proved for every value of the constants under the named assumptions of the
modules (`ApprovalsAssumption`, `ManagedRunsAssumption`, `LocalRunAssumption`,
`SchedulerRunAssumption`, `ScheduledTaskAssumption`, `RunnerTunnelAssumption`,
`HostTunnelAssumption`; they only say that bounds are numbers, that the prefix
relation is reflexive, that a call has a gate, which schedulers there are, that
there is a rule, that waiters are finitely many and that the placeholders for
"none" are none of the things they stand for).

* `Approvals_proofs`: `TypeCorrect`, and `OperationsAreBacked`
  (`Spec => []OperationBacked`). `OperationBacked` is not inductive: an operation
  is justified by rows that were read several steps before. `BackedInv` adds
  that every row that shows as approved was granted in its breadth
  (`RowsGranted`), that a consumer holds a copy of a granted row for the gate it
  stands at (`ConsumersGranted`), that an operator's copy agrees with its row in
  what the row asks for (`OperatorsHold`), that a request under way has an id
  nobody else has (`RequestsFresh`), and that each gate passed so far is
  justified (`PassedJustified`). No step changes what a row asks for, and grants
  are never taken back, so justifications last. `RevokedStayUnusable`,
  `ConsumedStayUnusable` and `DenialsAreFinal` are proved under `OneOperator`
  (operators do not overlap; clients may). `SettledInv` says that what was
  revoked or used is dead, that a row once granted is never a pending one again,
  and that an operator's copy is still what it read. A dead row cannot be revived
  by a stale copy because a client's copy differs from its row only in being
  marked as used. `SettledStaySettled` is the action property behind them: an
  approval that is decided and of no more use stays so through every later step.
  `OneTimeIsUsedOnce` proves, for one client and one operator, the property the
  run `approvals_reuse` refutes for two clients: `UnusedHeld` says that whoever is
  about to mark a row as used holds one that was not used. Crashes do not matter;
  the overlap of clients is the only way to a second use.
* `ManagedRuns_proofs`: `RunsInvariant`, and from it `TypeCorrect`,
  `OutputsAreRegistered`, `OutputsAreWhole`, `ArtifactsAreAccountedFor`. The
  properties speak of rows, but rows are overwritten by copies: `RunsInv` says
  the same of every copy a client holds or has still to reconcile, of the batch
  it is inserting (what it has left and what is in the table make one
  collection), and that a recorded success is a real one (`RecordsSound`). The
  argument is that artifacts, rows, ended jobs and known runs are never taken
  back (`Kept`), so whatever was sound when it was read is sound when it is
  written. `KeysAreTrue`: no stale copy ever changes the key of a row.

  Under `Alone` (calls do not overlap, what `runs_serial` checks with one client):
  `OneRowForAKey` and `OutputsRegisteredOnce`, and `OneJobForAKey`, the property
  that `runs_race` refutes, as long as no call was cut short. `SerialInv` says
  that the key a client submits is unused, that its copies list the outputs
  their rows list, and that without interruptions every job has its row or a client
  about to insert it. `RegisteredInv` adds that without interruptions the
  artifacts of a run are those its row lists, or those the one client at it has
  inserted so far, and that with stable ids all of them come from one collection,
  whatever was cut short.

  Under `FinalRecords` (providers whose terminal records do not change), for any
  number of overlapping clients: `EndsAreTrue` says that a row or copy that shows
  a run as over shows how it ended (`EndsInv`), so that the only stale writes are
  those of a live status, and `ConvergedRowsStay` that a row that has converged, with
  no such write under way, stays as it is. The second needs `SubmissionsFresh`: a
  run that is being submitted has no row yet.
* `LocalRun_proofs`: `RecordInvariant`, and from it `TypeCorrect`,
  `SuccessesAreReal` and `LocalConforms` (`Spec => Conforms`: the local provider
  implements `ProviderRecord`, the contract `ManagedRuns` is built on).
  `RecordInv` extends the property from the file to the record in `submit`'s
  memory, and adds that a canceller never holds a terminal record.
  `TerminalRunsAreReleased` needs `ReleaseInv` besides: a canceller that has
  sent its signal leaves no process alive, as long as no cancel came early.
  `FinalRecordsStay`: once `submit` is over, nobody puts a live status on record
  again; what may be found instead of a final record is garbled text, or a file
  that a cancel has truncated (`FinalInv`; the cancel that read a live record is
  the reason it is not obvious: all it can write is `cancelled`).
* `SchedulerRun_proofs`: `RunInvariant`, and from it the safety properties of the
  module (`TypeCorrect`, `SuccessesAreReal`, `TerminalRunsAreReleased`,
  `OutputsAreKept`, `CleanedRunsAreGone`) and `SchedulerConforms`. `RunInv` says of
  every record a caller holds what the properties say of the file (`Sound`), that
  the exit code file is the job's own, that a call about to clean up has the
  outputs here or is a cancel, and what exists at each step of `submit`. The
  argument is again that nothing relevant is taken back (`Moves`): an ended job
  does not come back, a removed directory stays removed, a manifest stays, so a
  record that was sound when it was read is sound when it is written, however
  late. `OutputsAreKept` needs `DeliveryInv` besides, since a manifest is only
  known to be right while no two collections have copied at the same time: the
  one that copies then has a sound archive and sound files at every step
  (`CopyInv`), there is no manifest while it does, and it writes one when the
  outputs are whole; a collection that finds a manifest copies nothing. What a
  collection left that died half-way is truncated by the next. `SettledRecordsStay`: when the job has ended, the accounting knows it and
  no call holds a live status to write, no later call changes that, whatever the
  scheduler's commands answer (`Settled` is preserved by every step).
* `ScheduledTask_proofs`: every safety property of the module. `ScheduleInv` adds
  to `ScheduleFollowsRow` that a server that is down has no job and no tick.
  `FireInv` adds to the properties of fires at which places a fire can be once a
  session or a run row was left by a dead task: a second one would have to pass
  the second look at the row. `NoOccurrenceTwice` needs `Ordered`: what a timer or
  a queued tick stands for is later than what was fired last, and a timer runs
  down no earlier than its occurrence is due; capped timers and a clock that is
  set back are exactly what breaks it.
* `RunnerTunnel_proofs`: every safety property of the module. `RequestInv` adds
  that only requests under way are in flight and that nothing is read that was
  not sent; `WaitInv` that whoever is in the map has no result scheduled, so that
  the count goes down once, by `register` or by the caller. `CallbacksInOrder`
  (`FramesInOrder`: no callback runs before its frame or after an abort, no chunk
  is read before it arrived) and `LostRequestsHaveAWayOut` (a request under way has
  its abort scheduled, or waits on the registered session, whose handler has its
  clean-up before it; from `EntryIsOwned`) lead to `RequestsAreExchanges`: each
  request implements `Exchange`.
* `HostTunnel_proofs`: `TypeCorrect`, and `OwnerIsFixed`: `OneOwner` is inductive,
  since the row has an owner for good once `upsert_on_connect` wrote it.
  `EntryMinded`: the registered connection has a handler that is still to take it
  out and was not told to stop, so the registry keeps no entry nobody minds.

The hypotheses `Alone`, `OneClient`, `OneOperator` and `FinalRecords` stand in the
statements of the theorems that need them. The first three say that calls do not
overlap, as when one agent works in a project; without them the properties are
false, which the violation runs and the known limits show. `FinalRecords` is a
constant of `ManagedRuns`, true in `runs_live`: the provider does not write over a
terminal record, so that there is something to converge to. A run of the local
provider meets it unless a cancel that had read a live record writes after
`submit` did, and one of a scheduler provider unless a late reply is written.

Only model-checked: the liveness properties, since fairness and ENABLED are beyond
the proof system. What each of them rests on that needs no fairness is proved:

| checked by TLC | its safety half, proved |
|---|---|
| `StatusConverges` | `ConvergedRowsStay`, `EndsAreTrue`: what has converged stays, and only live statuses are stale |
| `OutputsEventuallyListed` | `OutputsAreWhole`: what is listed is all of it |
| `RecordSettles` of `LocalRun` | `FinalRecordsStay` |
| `RecordSettles` of `SchedulerRun` | `SettledRecordsStay` |
| `LostRequestsEnd` | `LostRequestsHaveAWayOut` |
| `GoneHostGoesOffline` | `EntryMinded` (for the registry; the row depends on time) |
| `CopyEventuallyPerforms` | none |

Induction over data and RECURSIVE operators are out of the proof system's reach
too; no module here uses either.

## What is not modelled

* Contents: commands, logs, checksums, log paging, files, names, times other
  than the order of `created_at`.
* `validate` and the sandbox launcher of the local provider, which change no
  state; the reuse of process ids after a process is reaped.
* Storage providers and path checks: single library calls and string functions.
* The components marked planned above. Their hazards, for whoever models them:
  releasing a Modal sandbox fails after the run is known to be over, and its
  timeout races `status` (`modal.py` 273, 323); an export reads table after table
  while others write, and an import may fail half-way (`service.py` 1272, 1394);
  two processes open a workspace between a migration and its version (`db.py` 70);
  two reviewers raise one issue, and a reopened issue keeps its old resolution
  (`service.py` 616, 709); two installs or two configuration updates read and
  replace one file (`install.py` 183, `infrastructure.py` 51).
* The rest of OmniGent, some 365,000 lines: sessions and their events, the
  runner, the host process, the harnesses for agent programs, policies, command
  line and web client. Much of it is input and output of other programs; the
  session state machine (`routes/sessions.py`, `runner/app.py`) is the part worth
  modelling next. The map therefore covers under one percent of the repository's
  lines: these modules are about its core parts, not a survey of it.

## Plan

Done: 1. `Approvals`; 2. `ProviderRecord` and `ManagedRuns`; 3. `LocalRun` and
4. `SchedulerRun`, each with its refinement of `ProviderRecord`; 5.
`ScheduledTask`; 6. `RunnerTunnel`; 7. `HostTunnel`.

Next, in this order:

8. `ModalRun`: sandbox lifetime and release, manifest, as a third implementation
   of `ProviderRecord`; `SshRun`, the synchronous `submit` over ssh, as a fourth.
9. `ScienceRecords`: tasks, reviews, issues and their fingerprints; references
   never dangle.
10. `ExportImport`: an export read table by table while others write; an import
    that fails at any step leaves nothing.
11. `Migration`, `SkillsLock`, `InfrastructureConfig`.
12. The life of a session: launch, runner exit and resume, over both tunnels.

Composition: a submission that passes the gate and then submits (`Approvals`
with `ManagedRuns`), to state that a refused submission leaves no job and that a
consumed approval is worth one job.

Theorems: conformance of each further provider, and, for the modules to come,
what is stated of the present ones: their safety properties, and that what their
liveness properties reach is kept.
