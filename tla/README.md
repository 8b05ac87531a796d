# Ferry in TLA+

This directory models Ferry, a service that migrates legacy repositories: a Go
backend (`src/backend`) that admits *migration runs*, nine agent workers that
hand a run on to each other through chat rooms of the external service Band,
and a React front end (`src/frontend`). The modules are checked with TLC; some
theorems about them are proved with TLAPS. `PROJECT.json` names, for every
definition, the lines it stands for.

## 1. The system

### Processes and stores

| process | entry | what it runs |
|---|---|---|
| api | `cmd/api/main.go` | HTTP handlers, the run scheduler's loop, the mirror's loop, guest cleanup |
| agents | `cmd/agents/main.go` | nine workers, each with a WebSocket to Band; handlers run concurrently |
| runner | `cmd/runner/main.go` | sandbox containers for the workers |
| browser | `src/frontend` | React application, session in `localStorage` |

They share Postgres (rows of runs, messages, plans, users, refresh tokens),
Redis (the run queue, slot and liveness keys, step keys, files and documents of
a run, the pub/sub channel to the mirror), Band (rooms and messages) and GitHub.

### Inventory

*State* is what the component keeps; *hard* is what makes it hard to test.

1. **Run scheduler** (`internal/scheduler`). State: a mutex; the run rows;
   `ferry:run:queue`, `ferry:run:slot:<id>`, `:active:`, `:terminal:`. Operations:
   `Admit`, the reconcile loop, `start`, `fail`, `failStaleRuns`. Called by
   `StartRun`; shares its rows and keys with `CancelRun`, the mirror and the
   workers, none of which take the mutex. Hard: every store call is a separate
   step; clients hang up; the api restarts between two steps. Correct if running
   migrations never count on the same provider key, a queued run is not lost, a
   run that ended stays ended, and no run waits or plans for ever.
2. **Run handlers** (`internal/runs`). Create, start, cancel and rerun a run,
   approve a database plan, read-only views, the live stream. Hard: status
   checked before the scheduler's mutex.
3. **Agent workers: message handling** (`internal/worker/worker.go`, `store.go`,
   `prompts.go`, `pr.go`). State: message ids handled by this process; in Redis
   the step keys, the run's files, their previous snapshot and its documents.
   One operation, `handle`: claim, skip what is over, claim the step, mark,
   publish, do the stage, store, hand off, mark. Hard: redelivery, restarts, a
   second kickoff, errors after the effect, the rework loop. Correct if a stage is
   never run by two handlers at once, hands off once, reads what its own cycle
   wrote, and the recorded outcome agrees with GitHub.
4. **Worker connection** (`worker.go` `Run`, `phoenix.go`). The WebSocket:
   connect, join, drain, backfill, reconnect with a growing delay. Hard: messages
   and rooms announced while the socket is down or the join is under way.
5. **Stage execution** (`repoexec.go`, `consult.go`, `codecheck.go`, `diff.go`,
   `source.go`, `llm.go`). Model calls with retries and a per-key limiter,
   extraction of files, sandbox verdicts.
6. **Band service and client** (`internal/band`). Creates the room and sends the
   kickoff; posts, marks and lists messages.
7. **Band mirror** (`internal/bandmirror`). One loop that turns published
   messages into rows, a database plan, uploaded artifacts and the final status.
8. **Guests** (`internal/guest`, `internal/guestcleanup`, and the creation of runs
   in `internal/runs` and `internal/ferry`). State: the admission mutex, a counter
   per address in Redis, the rows themselves. Admission counts first and the
   INSERT follows in the handler; a periodic purge deletes expired guests. Hard:
   requests given up half-way, counters that expire, runs that come back to
   life, numbers chosen by `MAX + 1`. Correct if the caps hold and a guest's
   requests do not take each other's run number.
9. **Authentication** (`internal/auth`, `internal/http/middleware`) and the
   **browser session** (`frontend/src/lib/api.ts`, `auth-provider.tsx`). Rotating
   refresh tokens on the server, a stored pair and a shared refresh in the browser.
   Hard: lost answers, sign-out during a refresh, several tabs.
10. **Sandbox workspaces** (`internal/sandbox`). A container per run, created on
    demand, dropped at the end of the run or by a reaper.
11. **Home page and launcher** (`features/home`, `routes/login.tsx`,
    `auth-callback.tsx`, `components/app-shell.tsx`). State: the account, the route
    and one form. It asks the server about a repository while the user goes on
    typing, and launches a run of what was resolved. Hard: answers in any order,
    a session that ends anywhere, forms that are gone when their answer comes.
12. **Live run data** (`lib/hooks.ts`). The poll of a run and the event stream of
    its messages, merged into one list. Hard: reconnects replay nothing, the two
    sources give a message different ids, the last poll decides what is shown for
    good. Correct if nothing is lost or listed twice and one stream is open.
13. **Run page** (`routes/run.tsx`, `features/runs`, `lib/pipeline.ts`). Panes, layouts,
    badges, the code viewer with its asynchronous highlighter, the crew's
    speech. Correct if what it shows belongs to what is selected.
14. **Voyage scene** (`features/voyage`). Beside React a canvas runs a state machine
    of its own: the stages of the crossing and the inspection of the ship, in a
    frame loop that stops when the page is hidden and does not exist under
    reduced motion. Hard: three loops that tell each other what changed.
    Correct if they stay in step and a completed run moors.
15. **What the scene draws**: the crew of the cutaway (`cutaway/crew-sim.ts`), the two
    harbors (`harbor.ts`, `voxel/harbor-models.ts`), voxel models (`voxel/`); and small
    pure parts: the renderer of messages (`components/markdown.tsx`) and the theme
    (`components/theme-provider.tsx`).
16. The rest: GitHub clients, schema migrations, audit log, configuration, blob
    storage, generated queries, an unused queue helper and an unused earlier
    design of the agents (`internal/queue`, `internal/agents`, `internal/models`);
    landing pages, sprites and interiors drawn pixel by pixel, interface
    components and mock data.

`PROJECT.json` lists each of them under `components` with its status, and under
`hazards` what is hard to test in this code, at its line, with the property that
covers it or the reason why none does.

## 2. What is modelled

### `RunScheduler` (with `SlotPool`, `MCRunScheduler`)

| variable | code |
|---|---|
| `status`, `started` | `migration_runs.status`; `started_at` as none / within `staleAfter` / older |
| `queue`, `slotKey`, `active`, `terminal` | the Redis list and keys |
| `pipes` | pipelines kicked off in Band and not yet ended, with the slot in their context |
| `mu` | `Scheduler.mu` |
| `pc`, `arg`, `slot`, `alive` | per caller (each `StartRun` request, and the reconcile loop): where it is, its run, its slot, whether its request context is still alive |
| `cancel`, `mirror` | where each `CancelRun` and `finalizePRRun` is |
| `owed` | not in the code: calls of `Admit` for a run less its kickoffs |

Every call to Postgres, Redis or Band is one action, so that any other process
may act between two of them. A request takes `ReceiveStart` (the pending check,
outside the mutex), `Admit`, then either `PushQueue`, `MarkQueued`, or `LoadRun`,
`Activate`, `StartRoom`, `PinSlot`, `Persist`; `FailRow` and `FailKeys` are
`fail`. The loop takes `Reconcile`, then `Allocate`, `PopRun`, `CheckQueueable`
and the same start steps. `Age` and `Expire` are time: the stale timeout and the
TTL of the keys. `HangUp` cancels a request's context (its later store calls
fail), `Crash` restarts the api. Errors the code only logs are a choice between
"written" and "not written"; the constant `Faults` says which may happen.

`SlotPool` is the abstract promise: a set of <<run, slot>> pairs in which no two
share a slot. `RunScheduler` implements it under `held <- Held`, the rows that
count and their slot keys.

### `BandPipeline` (with `StageRelay`, `MCBandPipeline`)

One run; all Redis keys of the workers contain the run id, so runs do not meet
here. `chat` is the sequence of messages posted in the run's rooms; `mark` what
Band was told of each; `handled` the memory of the process; `pc[m]` where the
handler of message m is; `steps`, `active`, `terminal`, `files`, `prev`, `docs`
the Redis keys (files and documents abstracted to the rework cycle that wrote
them); `pr` GitHub; `published` and `status` the mirror's side. `lost` is not in the
code: the steps whose last result did not reach `files` and `docs`.

`Receive` is `handle` up to `shouldSkipRun`, then `ClaimStep`, `MarkProcessing`,
`CreatePR` (GitHub Connector only), `StageSucceeds` / `StageEndsRun` /
`StageFails`, `Store`, `HandOff` / `EndOfPipeline` / `HandOffFails`. A stage may
have come to nothing (fault `blank`) and Redis may not take what it wrote
(`store`): then `Store` leaves the older document or files, or none, and the line
goes on. A read of the files that fails ends the run as one without files.
`CreatePR` may fail before the branch, between branch and pull request, or with
the pull request open and the answer lost (`"unheard"`). `Mirror` consumes a
publication; `Restart`, `KickoffAgain` (the scheduler starts the run twice),
`EndedByApi` (the row is failed, then the room is dropped) and `LosePublished`
come from outside. `Faults` selects the failures and `MaxFailures` bounds how many
occur in one behaviour.

`StageRelay` is the abstract promise: one baton that goes down the line of stages
and may be sent back from the judge to the maker within a budget.
`FollowsPipeline` states that the chat implements it, with the step of the last
message as the baton.

### `WorkerConnection` (with `MCWorkerConnection`)

One worker and its socket, below `BandPipeline`: that module lets Band offer
every unprocessed message at any time, this one says how a message gets to the
worker at all. `pc` is where `Run` is (`connect`, `join`, `rejoin`, `list`,
`backfill`, `read`, `closing`), `todo` what its current loop has left; `once`,
`joined`, `handled` are the worker's memory; `busy` is what `dispatch` handles,
`drain[k]` what the drain of chat k does (`Off`, about to poll, or the number of
the message it handles), `attempted[k]` what it was offered. `members`, `msg`,
`subs`, `joining` and `wire` are Band's side: participants, inboxes, topics
joined, `phx_join` frames under way, and the events pushed and not yet
dispatched.

The loop is `Connect`, `JoinAgentRooms`, `Rejoin`, `EndRejoin`, `ListChats`,
`Backfill`, `EndBackfill`, `ReadFails`, `Closed`; beside it run `Dispatch...`,
`DrainMessage` / `DrainEnds` and `HandlerEnds`. `Drop` loses the connection,
`Restart` the process. A handler is reduced to claim, work, and one of three
ends (marked, not marked, failed), because what it does in between is
`BandPipeline`'s subject. Two variables are not in the code: `leftover`, the
chats the process was never told of (they are left alone on purpose, see the
comment at `worker.go:124`), and `clean`, which says that on this connection no
call failed, no join lagged behind and no drain gave up in front of a message.

Not in the module: the growing delay before a reconnect (no property depends on
its length), the heartbeat, the `/me` call before the loop, the capacity of the
event channel (a full channel only delays the reader).

### `SessionRefresh` (with `MCSessionRefresh`)

The tabs of one browser and the token service. An issue of an access and a
refresh token is a numbered pair; 0 is no token. `stored` is `localStorage`,
which all tabs share; per tab there is the `AuthProvider` state (`react`), the
module variable `refreshInFlight` (`inflight`) and the refresh request with its
answer (`req`); `call` and `token` are the concurrent calls of `authedFetch` and
of `ensureFreshToken`. `issued`, `owner`, `purged`, `revoked`, `expired` and `stale` are
the server's rows and time. A guest is purged after 24 hours (`config.go:358`,
`cleanup.go:144-150`) while its refresh tokens live for 168 (`config.go:312`): the rows
of its tokens (`Gone`) go with it, expired or not.

`Fetch`, `Answered`, `Unauthorized`, `EnsureFresh` and `RefreshEnds` are the
page's code between two awaits; `GetRefreshToken`, `GetUser`, `RevokeRefreshToken`
and `CreateRefreshToken` the statements of `Service.RefreshToken`, which run
without a transaction; the purge may come before each. `SignIn`, `SignOut` and
`Reload` are the user; `Lose`, `StoreFails` and `Reload` the failures,
`MaxTrouble` of them in one behaviour. A refresh without a stored token never
awaits, so its promise is settled before it is assigned: `inflight` then is
`"settled"`. `clean` is not in the code: no exchange was cut short after it
reached the server, and no two tabs exchanged one pair. The role switch, the 30
seconds by which a page refreshes early and the path of a call are left out.

### `GuestRuns` (with `MCGuestRuns`)

How runs are created. `call[q]` is where a request is (`lock`, `rate`, `session`,
`global`, `number`, `insert`, `admit`), for whom, and the number it has read; `mu` is
`Admission.mu`, held until the handler returns; `count` the counter of an address,
`rows` and `there` the tables. `Lock`, `AllowRun`, `CountSession` and `CountGlobal`
are `AdmitRun`, `GetNextRunNumber` and `Insert` (or `InsertRefused`) the two statements
of the handlers; the handler of `internal/ferry` goes on to `Admit` before it
returns. What becomes of a run is `RunScheduler`'s subject: here `AdmitBegins`,
`AdmitEnds` and `RunEnds` only say that it counts or is over, with the
unconditional writes of the scheduler kept, so a run cancelled while it is in
hand comes back. `WindowEnds` expires a counter, `Purge` deletes a guest,
`CallFails` is a failed call or a client that hangs up, `StrayLands` the commit of
an INSERT that was given up, `Crash` a restart of the api. Three variables are not
in the code: `created` (runs per address since its counter was set), `uncounted`
(runs made active behind the back of the admission) and `trouble`. A company
has one project here; each guest is a company of its own, as in the code.

### `Voyage` (with `CanvasInput`, `MCVoyage`, `VoyageProofs`)

The page of a run as three loops. `server` and `run` are the run in the database
and the page's copy of it; `page`, `start`, `intro`, `flag`, `shown` and `popup`
are React's state; `again` follows another `StartRun` of the same run (another
tab, or this page before a reload) that saw it pending too; `scene`, `ship`,
`zoom` and `told` the canvas's: `s.stage` with the beats passed in it,
`s.inspect.phase`, the zoom of the cutaway, and what the notifiers told last.
`Frame` is one frame of the loop with all its calls (`updateStage`,
`updateInspect`, the notifiers and the React handlers they reach); under reduced
motion there are no frames and every change redraws a still picture. Durations are
beats (`LastBeat`), and a frame may or may not complete one. `Poll` brings the
run's status, `StartRun` and its answers the launch, `CheckedAgain` and
`StartedAgain` the other request, which with all slots busy turns a run that is
planning back to queued (`scheduler.go:71-73`, `256-258`), and `Reload`,
`Remount`, `SwitchMotion`, `Hide`, `Show` and `Resize` are what happens to a page,
`MaxTrouble` of them in one behaviour. `steady` and `departed` are not in the
code.

`CanvasInput` says, as functions of one mouse, wheel or key event, when the actions
`ClickShip`, `LeaveInspect` and `ZoomInspect` are taken.

### `LiveRun` and `RunPage` (with `RunViews`, `Markdown`, `MCRunPage`, `RunPageProofs`)

`LiveRun` is the data of the page. The mirror stores a message and then publishes
it; `fetch` is the request for the run, which reads the row (`ReadRow`) and the
messages (`ReadMessages`) one after the other, and answers without messages when
their query fails (fault `rows`: `handler.go:474` drops the error), or with the
chat's transcript when there are no rows (fault `chat`); `conns` are the connect
loops of `useLiveRun`, one per run of the effect, each in `off`, `token`, `open`
or `timer` (there are `MaxTrouble + 1` slots, as many as the proof of `OneStream`
shows enough); `feed` and `agents` are the hook's state (`streamedIds`, which only
marks rows of the list as new, is left out). The files of a run come once a member
of `Generators` has written; the database plan, which the page only shows, is left
out. A message has Band's id in the stream and its row's in a poll; the page knows
it again by `MessageSig`, what it says (`Sender`, `Words`) and the second it was
created in, which another message may share. `Merged` is `mergeMessages`, said as
a set; an assumption of `MCRunPage` (`MergeIsTheLoop`) compares it with the loop
of the code on lists with such twins. `Sorted` is the sort by time and id of
`mergeMessages`, said by its result.

`RunPage` extends it with the panels: the open view, the badge of new artifacts,
the code viewer with its pending highlights (`tasks`, each alive or cleaned up),
the report dialog, the follow mode of the feed, and the crew that speaks new
messages. React's effects are functions of the state before and after a change,
and take part in the step that causes it.

`RunViews` is what panels derive from a run (pipeline nodes, the stop of the ferry,
chips, visible panels, log), `Markdown` the block and inline parser of messages.

### `Home` (with `RepoProfile`, `Theme`, `MCHome`, `HomeProofs`)

One tab from signing in to the page of a new run. `asking` counts the requests for
a guest's session under way, `sent` says that calls of this page's earlier session
may be: the answer to one of them may end the session in whatever state the
account is (`SessionExpired`, `auth-provider.tsx:167-175`), also while the next
sign-in waits for its answer, and that answer still signs in when it comes
(`GuestEnters`). `form` is the state of `RepoLauncher` that answers change, with
its ticket counter `seq`; `calls`, `checks` and `creates` are the requests under
way; `input` the text and its debounce. A question is asked by the debounce
(`TimerFires`), by Enter, by a suggestion and by "check again", and answered in
any order (`ResolveAnswers`). `Remount` is what happens to a form when its route
is left; `forms` numbers them. `asked` is not in the code. The server rates every
target as selectable, so its answer `below`, which the form knows, never comes.

`RepoProfile` holds the pure parts: the repository key read from an address, the
language profile with its rounding, the choices offered, the pages of recent
runs. `Theme` is the theme of a tab.

### `CrewSim`, `Harbor`, `VoxelModel`

Functions without variables. `CrewSim`: text of a bubble, who walks where when a
message comes, one tick of a member. `Harbor`: one frame of the boarding queue
with ramp, bridge, gate and stern door, one of the unloading, and the ground that
vehicles and dressings cover. `VoxelModel`: voxels kept and faces seen, the
painter's order, outline and foam. They are checked by the named assumptions
below, not as state machines.

## 3. What is checked

Passing runs:

| run | instance | shows |
|---|---|---|
| `SchedSlots` | 2 runs, 3 requests, 1 cancel, 2 slots; hang-ups, restarts, Band failures | `TypeOK`, `SlotExclusive`, `KickoffsAreAsked`, `ImplementsSlotPool` |
| `SchedQueue` | 2 runs, 3 requests, 1 cancel, 1 slot, one refused guest, Band failures, fairness | `NoLostQueuedRun`, `CompletedIsSilent`, `QueuedIsServed`, `PlanningEnds` |
| `BandSteps` | 1 rework, no database stage, up to 3 failures among restart, mark, stage, terminal stage, send, second kickoff, blank result, result not stored | `TypeOK`, `StepExclusive`, `HandoffOnce`, `InputsOfThisCycle` |
| `BandRelay` | 2 reworks with the database stage, up to 3 failures among restart, mark, terminal stage, pull request failed or unheard of, lost publication, run ended by the api | `ReportMatchesPR`, `SnapshotIsPrevious`, `FollowsPipeline` |
| `BandLive` | 1 rework, up to 2 failures among failed pull request, second kickoff, Redis error, handoff delivered but reported as failed, blank result; fairness | `RunFinishes` |
| `ConnDelivery` | 2 chats with a message each, 2 lost connections or restarts, every fault; fairness | `TypeOK`, `NothingDark`, `EveryMessageHandled` |
| `SessionTabs` | 2 tabs with 2 and 1 calls, 1 guest who may be purged, 3 pairs, a failure or reload; fairness | `TypeOK`, `NotStranded`, `OnlyExpiredRefused`, `CallsReturn` |
| `Guests` | 3 guests at one address and a member, 2 requests, 3 runs, caps 1 and 2, counter limit 2, one failed call, late commit, purge or restart | `TypeOK`, `LimitsHold`, `NumberIsFree` |
| `Voyage` | one run, 3 faults among refused start, second start, reload, remount, resize, hidden page, switch of reduced motion; fairness | `TypeOK`, `ReactInStep`, `LoadingOnce`, `ArrivedMoors`, `CutawayFits` |
| `RunPage` | a page that starts narrow, 2 messages of one second, 2 files in 2 cycles, 2 among failed fetch, answer without messages, broken stream, failed highlight and moves of the user | `PageTypeOK`, `OneStream`, `EachOnce`, `NothingLost`, `SpokenOnce`, `ViewerShowsFile` |
| `Home` | 4 repositories (two fit), 2 questions a form, 2 forms | `TypeOK`, `ResolvedIsLatest`, `LaunchFits` |

Three of these also evaluate assumptions, which compare a pure algorithm with a
reference definition on small inputs:

| module | assumption | says |
|---|---|---|
| `MCRunPage` | `PipelineInOrder`, `NoStepBack` | the pipeline is done, current, upcoming in this order, and a message takes it back only for a rework |
| | `OneChipEach`, `NewestFirst`, `MountedIsSeen` | chips without duplicates, the log from the newest message, the panels `RunPage` mounts are those `run.tsx` shows |
| | `MergeIsTheLoop` | lists merged as the loop of `mergeMessages` merges them, three messages of which two say the same |
| | `NoLineLost`, `NoCharLost` | the renderer of messages loses no line and no character |
| `MCHome` | `ProfileAddsUp`, `DetectedIsOffered`, `OneKey` | shares are sorted and add up, the detected language can be chosen, all spellings of an address are one repository |
| | `EveryRunOnOnePage`, `KeyShows` | pages of recent runs partition them, the theme key always changes what is seen |
| `MCVoyage` | `BubbleFits`, `MeetInTime`, `StaysInRoom` | bubbles fit, two members up to 28 cells apart have met when they talk, nobody leaves his room |
| | `NearestShown`, `HiderLater`, `FoamOnWater` | the painter's order shows the nearest voxel, foam is off the hull |
| | `CastsOffClean`, `UnloadsInLine`, `WayIsClear`, `StandsApart` | vehicles keep their gap, clear the ramp before the door closes, and drive through nothing but what is listed under "What does not hold" |
| | `ClickOrDrag`, `NoTurnLost` | a drag keeps the ship on the canvas and is no click, wheel turns are not lost |

One run is refuted by TLC, a statement of the repository's comments that the
code does not keep (quoted in `PROJECT.json` under `findings`):

| run | statement | what happens |
|---|---|---|
| `SchedSharedKey` | concurrent runs don't share a key's rate limit | cancel or stale timeout frees the slot while the agents go on with the key |

### Bounds and why they are enough

Two runs are enough for two to collide on a slot, three requests for two to ask
for the same run while the third holds the slot, one slot to force the queue and
two to make the choice matter (`SchedSlots` has 1.75 million states). In the
pipeline two reworks give a cycle that both follows and precedes another (a
snapshot of cycle 1 can be confused with 0 and 2), and the budget is exhausted;
one rework suffices for duplicates, because a duplicate only needs the same step
twice. `MaxFailures` is 3 where failures compound (a failed mark, a restart and a
second kickoff together), 2 under liveness. `MaxChat` bounds the chat: 21 and 16
are more messages than the longest chat these failures produce (two reworks: 17
handoffs and the kickoff; a second kickoff only adds itself, because its step is
claimed already), and 17 for `BandLive`, where duplicates of `sendlost` and
`redis` may be posted.

In the connection two chats show one of them served while the other is missed,
and two drops give a connection that is lost while the backlog of an earlier one
is still being drained; one message a chat is enough for `EveryMessageHandled`,
and the same instance with two (2.3 million states, safety only) was checked as
well.

In the session two calls share the refresh of one tab while the other tab signs
in, signs out or exchanges a token of its own; three pairs are a sign-in, its
rotation and one more of either; and one guest is enough for a purge at any moment
of an exchange.

For guests, two requests are enough to race for the last place under a cap or for
one number, three guests and a global cap of two for the global cap to bind when
none of the session caps does, and three runs for a third to break either. The
guests are symmetric, so one address serves as all. The same instance with two
troubles (1.8 million states) was checked as well. On the page of a run two
messages of one second may be listed in either order, and two cycles of two files
give a late highlight of the other file and of the older text; messages that say
the same are left to `MergeIsTheLoop` and to the theorems, which hold for any
`Words`. The page starts narrow, where the panels are tabs and the voyage is
unmounted behind them, and is widened by `ChangeLayout`; the instance that starts
in either layout (2.7 million states) was checked as well. In the voyage three
troubles let a reload, a resize and a switch fall into one crossing. On the home
page two questions overtake each other, the third repository is one that the form
refuses, and two forms give an answer whose form is gone.

### Fairness

The scheduler's loop runs on a ticker and Go runs every goroutine that can run:
weak fairness of `Reconcile`, of the loop's steps and of each admitted request.
`Age` is fair because time passes. Users, pipelines, the mirror and faults owe
nothing: `PlanningEnds` holds although a pipeline may stop for ever. In the
pipeline Band keeps offering unprocessed messages and the mirror keeps reading
(`Receive`, `Mirror`), and a handler that can take a step takes one: nobody is
obliged to fail or to stop. In the connection the loop, the dispatcher, every
drain and every handler are goroutines; weak fairness of the loop also says that
an attempt to connect succeeds in the end, and `ServerJoins` that Band acts on
the frames it has received. Nobody owes a message, and connections may be lost
until `MaxDrops`. In the session the server serves a request, the browser
delivers its answer and a `fetch` settles: weak fairness of `ServerStep`,
`RefreshEnds` and `CallStep`. Users, time and failures owe nothing.
In the voyage the browser draws frames in which time passes while the page is
visible, and the page polls: strong fairness of both, because a hidden page stops
them again and again. `ArrivedMoors` and `CutawayFits` ask in addition that the
page is looked at infinitely often, and `ArrivedMoors` that the run stays completed. The
request to start a run is made and
answered (weak fairness).

### What does not hold, and is not claimed

* `SlotExclusive` does not survive a failing Postgres or Redis call: `usedSlots`
  counts what it can read, and a slot may be given twice.
* `NoLostQueuedRun` does not survive a restart nor a failed `RPUSH`: a run popped
  from the list (`scheduler.go:113`) and not yet started is in no list when the
  api comes back, although lines 85-87 say "Self-healing across restarts".
* A run may be kicked off twice. `StartRun` checks that it is pending before `Admit`
  takes the mutex (`handler.go:640`), and `Admit` does not look again: with all slots
  busy its UPDATE (`scheduler.go:71-73`, `256-258`) turns a run that is planning by then
  back to queued, and the loop starts it once more. `KickoffsAreAsked` says what is
  left: never more often than `Admit` was called. The page of such a run goes back to
  its dock, and a reload shows the loading harbour again: `LoadingOnce` excepts it.
* A step that failed is not retried. `worker.go:402` and `460` release it to "allow a
  retry on redelivery", but the message id stays in `Worker.handled`, so the
  redelivered message is dropped until the process restarts.
* `StepExclusive` and `HandoffOnce` assume that `SETNX` answers: on a Redis error
  `claimStep` lets the step run. `HandoffOnce` also assumes that an error of
  `SendMessage` means that nothing was delivered.
* `ReportMatchesPR` does not survive the connector's own stage or handoff failing
  and the process restarting: the pull request step runs again, GitHub refuses
  the existing branch, and the run is reported failed with its pull request open.
  It and `FollowsPipeline` are about runs kicked off once. If GitHub opens the pull
  request and its answer is lost or cannot be decoded (`github/pr.go:100-104`,
  `142-155`), the run is failed with the pull request open; the property excepts it.
* A stage may work on what is not of its cycle. `store.go:83` keeps no document of a
  blank answer (`llm.go:290-342`), and the errors of `HSet` are dropped
  (`store.go:87`, `190`): the next stage finds the document of the cycle before or none,
  so a Commander may decide on the review of the previous cycle. `InputsOfThisCycle`
  excepts such results (`lost`). A failed read of the files counts as no files
  (`store.go:199-201`) and ends the run (`repoexec.go:153`) without a recorded outcome,
  so `RunFinishes` is claimed, and checked, without failures of the stored files.
* `SnapshotIsPrevious` does not survive a failed handoff of a rework followed by
  a restart (`worker.go:413` promises the prior cycle's files): the stage runs
  again and snapshots the files it wrote itself.
* A message may stay unseen until the next reconnect when a poll or the list of
  chats failed, a join lagged behind the drain it started, or a drain gave up
  behind a message that Band keeps offering because it was never marked processed.
  `NothingDark` and `EveryMessageHandled` are stated for connections on which none
  of this happened (`clean`), after any number on which it did. In particular "New
  runs are delivered via agent_rooms (room_added -> join + drain)"
  (`worker.go:127`) fails when a kickoff is posted after the drain's poll and
  before Band acts on the join.
* `NotStranded` and `OnlyExpiredRefused` do not survive an exchange that is cut
  short: the old token is revoked before its successor is stored, so a blip at
  that moment makes the next refresh answer 401, which signs the user out
  although `api.ts:33-36` promises this "never on transient/network errors". Nor do
  they survive two tabs that exchange the same pair: the sharing of a refresh
  (`api.ts:41-43`) is per tab.
* A guest is signed out by its purge, 24 hours after it came, although its refresh
  token would be good for a week: the row is gone and the answer is 401
  (`service.go:229-233`). Both properties except the tokens of purged guests.
* Whose tokens are stored: a refresh answered after the user signed out, or signed
  in as somebody else, writes its pair into what is stored by then.
* `CancelRun` does not stop a run that `start` is just bringing up: the UPDATE to
  planning is unconditional, so a cancel between `isQueueable` and that UPDATE is
  overwritten, although `scheduler.go:124` skips "runs that were cancelled while
  queued".
* A refresh without a stored token (`api.ts:47`, `80-82`) leaves a settled promise in
  `refreshInFlight`; after the next sign-in the page never refreshes again, although
  `api.ts:112-113` promises a refresh and a retry on a 401.
* The caps of guests do not count runs that were cancelled while `Admit` had them
  in hand, nor an INSERT that was given up and committed late; `LimitsHold` excepts
  both. An address creates one run more if its counter expires between the
  admission and the INSERT. A cancelled run frees its place at once, though its
  pipeline goes on. Members are not admitted: two of their concurrent creations
  may read one number, and the second fails with a 500.
* A purge that races with a start leaves a pipeline at work for rows that are gone,
  and what it failed to delete outside is named by no row any more.
* The loading phase need not end. The page leaves it in `onDeparted` (`run.tsx:282`),
  which the canvas calls at sea; a run that is over while the ship is at the dock,
  or any run under reduced motion, keeps the panels hidden until the page is
  opened anew, although `run.tsx:239-240` says that the harbor is shown "until the
  ferry sails out, then the control panels fade in".
* A switch of reduced motion starts a scene without telling React, and during an
  inspection leaves `inspecting` set; `ReactInStep` is stated for views mounted
  since. With reduced motion a resize can strand the cutaway (`inspect.ts:308`).
* A message that is stored after the run ended is not shown without a reload, and
  only the first 500 are ever listed. When GetRun cannot read the messages it
  answers 200 without them (`handler.go:474`); if that is the poll that finds the
  run over, the page asks no more and lists what it had, which is nothing on a
  page just opened. `NothingLost` is about the time after answers whose messages
  were read. Of two messages of one second that say the same the list may keep one
  (`hooks.ts:50-55`, `62-71`, `132`), so it compares what was said. Messages that
  GetRun took from the chat's transcript are listed again under their row's id
  (fault `chat`): `EachOnce` and `SpokenOnce` are checked and proved without it. A
  failed refetch unmounts the page until the next poll succeeds.
* The upsert of a database plan (`mirror.go:119`) keeps
  `approved_by`, so a plan rewritten by a rework would stay approved. No client calls
  the approval, and no agent waits for it.
* On the home page the answer about the app's installation has no ticket and may
  be an older one; Enter within the debounce resolves twice, and the second answer
  resets the branch; the answer to a created run navigates although the form was
  left. The buttons of the login may be enabled while an answer is awaited,
  because a call of the earlier session that is refused late ends the session that
  is just being made (`api.ts:49-55`, `62`, `auth-provider.tsx:167-175`), and a
  guest's answer that comes after a sign-out signs in again. On the canvas a drag
  of at most a pixel per event counts as a click.
* In the harbor a car that stands just short of the ramp at cast-off may roll onto
  it while it is stowed (`harbor.ts:255` says it holds), the tail of a vehicle that
  turns into the lane swings through the terminal, a lamp stands in the terminal
  and a bus in the truck beside it. Members of the crew more than 28 cells apart
  stop short of each other.
* Two tabs that toggle the theme at once can end with different ones.

## 4. What is proved

`RunSchedulerProofs`, `BandPipelineProofs`, `WorkerConnectionProofs`,
`SessionRefreshProofs`, `GuestRunsProofs`, `HomeProofs`, `RunPageProofs` and
`VoyageProofs` hold for every number of runs, requests, cancels and slots; for every
rework budget and every bound on chat and failures; for every number of chats,
messages and lost connections; of tabs, calls, users and pairs; of guests, members
and addresses, and every limit; of repositories, questions and forms; of messages,
files, failed polls and broken streams; of troubles and layouts of the voyage. Every
safety property and action property that a passing run checks is stated by one of
these theorems. They assume only the named assumptions of the modules
(`ConstantsAssumption`, `FreeAssumption`, `HomeAssumption`) and what
is written in each theorem about `Faults`.

| theorem | statement | needs |
|---|---|---|
| `RunSchedulerProofs!TypeCorrect` | `Spec => []TypeOK` | nothing: all faults allowed |
| `OneInside` | at most one caller is inside the critical section, and it holds `mu` | all faults allowed |
| `SlotsAreExclusive` | `Spec => []SlotExclusive` | no `redis`, `db` faults |
| `QueuedRunsAreKept` | `Spec => []NoLostQueuedRun` | no faults but `ctx` of clients and Band's, as stated |
| `SchedulerImplementsPool` | `Spec => Pool!Spec` | no `redis`, `db` faults |
| `KickoffsAreCounted` | `Spec => []KickoffsAreAsked` | all faults allowed |
| `CompletedRunsAreSilent` | `Spec => []CompletedIsSilent` | no faults but Band's |
| `BandPipelineProofs!TypeCorrect` | `Spec => []TypeOK` | all faults allowed |
| `StepsAreExclusive`, `HandsOffOnce` | `Spec => []StepExclusive`, `Spec => []HandoffOnce` | no `redis`, `sendlost` faults |
| `InputsAreCurrent` | `Spec => []InputsOfThisCycle` | no `redis`, `sendlost` faults |
| `ReviewerSeesPrevious` | `Spec => []SnapshotIsPrevious` | nor `send`, `store` |
| `OutcomeIsTrue` | `Spec => []ReportMatchesPR` | nor `send`, `stage` |
| `BandImplementsRelay` | `Spec => FollowsPipeline` | no `redis`, `sendlost`, `kickoff` faults |
| `WorkerConnectionProofs!TypeCorrect` | `Spec => []TypeOK` | all faults allowed |
| `NothingIsDark` | `Spec => []NothingDark` | all faults allowed |
| `SessionRefreshProofs!TypeCorrect` | `Spec => []TypeOK` | all faults allowed |
| `SessionNotStranded`, `RefusesOnlyExpired` | `Spec => []NotStranded`, `Spec => []OnlyExpiredRefused` | all faults allowed |
| `GuestRunsProofs!TypeCorrect` | `Spec => []TypeOK` | all faults allowed |
| `GuestsAreLimited`, `NumbersAreFree` | `Spec => []LimitsHold`, `Spec => []NumberIsFree` | all faults allowed |
| `HomeProofs!TypeCorrect` | `Spec => []TypeOK` | answers in any order, all may fail |
| `ShowsTheLatest`, `LaunchesFit` | `Spec => []ResolvedIsLatest`, `Spec => []LaunchFits` | answers in any order, all may fail |
| `RunPageProofs!OneLoop` | `PageSpec => []OneStream` | all faults allowed |
| `ViewerIsRight` | `PageSpec => []ViewerShowsFile` | all faults allowed |
| `ListedOnce`, `NothingIsLost` | `PageSpec => []EachOnce`, `PageSpec => []NothingLost` | no `chat` fault |
| `CrewSpeaksOnce`, `PageTypes` | `PageSpec => []SpokenOnce`, `PageSpec => []PageTypeOK` | no `chat` fault |
| `VoyageTypes`, `ReactIsInStep` | `Spec => []TypeOK`, `Spec => []ReactInStep` | all faults allowed |
| `LoadingIsOver` | `Spec => LoadingOnce` | all faults allowed |

A fault is excluded only where it breaks the property: with any one of the excluded
faults, alone or together with a restart and a failed mark, TLC finds the property
violated on the instance of its run (those of them that concern a reader are listed
under "What does not hold"). The one exception is `PageTypes`, whose proof takes the
length of the list from `EachOnce`.

`SlotExclusive` alone is not inductive: that two rows have different slot keys
says nothing of a caller that has chosen a slot and not yet written it. The
invariant used adds that whoever is past its scan of the used slots is alone
(`mu`), that the slot it carries is used by no counted run but its own, and that
between `PinSlot` and `Persist` the key of its run is that slot. A client that
hangs up ends the start or loses its writes in order, which is why the last
part speaks of live callers. `NoLostQueuedRun` needs that a run about to be
marked queued has been pushed, and that the loop's run was taken from the list.

`KickoffsAreAsked` needs `Counted`: what `Admit` was asked for and has not kicked off is
at least the entries of the run in the list (`Entries`) and the start that the holder
of the mutex is about (`Wanted`). An entry is pushed for one call, and popped for one
start. `CompletedIsSilent` excepts runs that
somebody is starting, which no step keeps: a start may end in many ways. `Silencing`
excepts only its late steps, from `StartRoom` on, and the moment before the
mirror's second write: every way out of them records the run as planning or removes
its keys (`LateStep`).

`HandoffOnce` needs the accounting of step keys: a step whose key is absent has
never handed off, a handler past its claim owns the key, and a handler that has
not handed off yet has no message of its step in the chat. `StepExclusive` is
part of the same invariant; a restart clears the handlers and keeps the keys,
which is what makes a step of a dead handler unrepeatable rather than repeated.

The other properties of the pipeline rest on one invariant, `OneBaton`: of the
steps that were ever asked for exactly one has not handed off, and it comes after
all the others in the order of the line and the cycles (`Rank`). So whoever is at
work works on that step, and only the baton's stage writes the stores. `Inputs`
says by the baton's place which cycle wrote each document and file, or that it was
lost on the way (`Result`), `Stored` the same of the handler that has just
written, `Snapshot` when the files of the cycle before are still in place, when
they have been saved, and that this is done once, and `Reported` that nothing is
said of the pull request before the connector tries, which happens once. For the
relay, `LastIsBaton` identifies the last message of the chat with the baton; then
a handoff is the relay's step from the stage it names.

`NothingDark` speaks of a worker that reads; it only becomes inductive when the
way there is described too. `Served` says for every chat which of the four
sources covers it while the loop is rejoining, listing and backfilling: a joined
chat is still in the loop's list or is joined and drained, another one is in
the backfill's list, announced on the wire, or left alone. `FirstConnection`
closes the case in which there is no backfill, `MessagesOK` says that a claimed
message is not a posted one (so an event that is dropped as a duplicate was not
the only trace of it), and `LoopOK` that a clean connection has no join under
way. The core of the argument is the order of two calls: a topic is joined
before its inbox is polled, so a message posted between the two is pushed.

`TypeOK` of the session bounds the pairs, which is only inductive together with
`Budget`: a call that was sent and an exchange that has begun each hold a pair in
reserve. `NotStranded` needs that while `clean` no two tabs present one token
(`Alone`), that a token the server has not come to revoke is not revoked
(`Presented`), that a pair on its way to a tab is known to nobody else (`Fresh`), each
unless the guest is gone, and that only a token that has expired or gone was refused
(`Refused`); the step that matters is a refresh, where a revoked stored token would
mean that the exchange which revoked it is still under way.

`LimitsHold` speaks of rows, and a request counts rows two steps before it adds
one. `Admitted` says that whoever has counted for a guest holds the mutex, `Checked`
that what it found is still so: all steps but an INSERT only let the counted runs
shrink (`NotMore`), and an INSERT for a guest needs the same mutex. `Rated` relates
the counter to the runs created, with the one run of slack that an expiring
counter costs. `NumbersAreFree` needs `Admitted` alone.

`ResolvedIsLatest` compares the form with the question asked last, and an answer
carries only a ticket. `LatestIsAsked` ties the two: a call under way with the
latest ticket is for `asked`, though a cleared field keeps that ticket alive.
`CardFits` says of the card what `LaunchFits` says of a launch, so that the two
clicks may be any time apart, and `Placed` says where a user can be. `TypeOK` has one
conjunct that is more than a type: the login is disabled only while an answer is
awaited, from the server or from GitHub, so that it cannot stay disabled. The
converse does not hold (section 3).

`OneStream` counts loops at work, and a new loop needs a free slot, so the closed
loops that still wait for their token have to be counted too: `Loops` bounds them by
the failures that threw the page away, and one for the end of the run. That there
is only one such end is `InOrder`: a run moves on, and neither the answer under way
nor the page's copy is ahead of it, so no poll takes a page back from a run that is
over to one that is live. `ViewerShowsFile` needs `Listens`: whatever highlight the
viewer has not stopped listening to is for the text it is open at now.

`EachOnce` is about a list of entries that come under two ids each. The proofs
start with the sort: `Before` orders the entries of the run totally, every finite
set of them has a sorted sequence, and it lists each once (`SortedLists`). From it
`MergeLists` derives what a poll makes of the list: no entry is dropped, no
message comes twice, and every message of the answer is there or one that says the
same (of those that are added, the first: `FirstIsNew`). `NothingLost` compares
the list with the answers under way: `Complete` says that the list says all that
the page's copy of the run has; that an answer under way for which the rows were
read has every message ever shown, but for those that the page lists from the
stream meanwhile; and that a copy which names the outcome and has its rows has
every row of it. `SpokenOnce` needs only that a message once spoken stays listed
under an id that the crew has heard (`Heard`): when the row's id replaces Band's
or the reverse, the list keeps the id it had.

`ReactInStep` compares three layers, the canvas, what its notifiers told last and
what React shows. `Echo` says that they agree except in one direction: the canvas may
not have told yet that the ship can be inspected, but what it told holds still. Every
redraw ends with the three notifiers, and the steps that skip `onInspectChange` do not
begin or end an inspection. `LoadingOnce` needs `Away`, as long as no second start was
admitted: the page's copy of the run is never ahead of the server's, which moves on
only, and a ship that has left its dock belongs to a run that waits no more, however
it came to be drawn there.

Only model-checked: everything under fairness (`QueuedIsServed`, `PlanningEnds`,
`RunFinishes`, `EveryMessageHandled`, `CallsReturn`, `ArrivedMoors`, `CutawayFits`),
because the prover used here decides no enabledness and derives no liveness; the
assumptions of the MC modules about pure algorithms (parser, crew, harbor, voxels,
profile), most of which are recursive or fold over sequences and would need an
induction over data.

## 5. What is not modelled, and the plan

Left out for good: sprites, interiors, sky and sea, styles and landing pages, prompt
texts, password hashing and token signatures, generated queries, configuration,
blob storage, the audit log, the unused packages. They keep no state that a
property here depends on.

Left out so far, in the order in which it is worth modelling:

1. *Mirror and plan approval*: transcript rows, the upsert of a database plan,
   approval. Little can be stated while nothing waits for the approval.
2. *Sandbox workspaces*: creation, use, drop and reaping of a container. The reaper
   removes a container by name after it has unlocked, so a stage that created a
   new one of that name can lose it in the middle of a command.
3. *Model calls*: the limiter's permits, retries after 429, inactivity timeouts.
4. *The purge's external deletions* (blobs, rooms, pull requests, branches), and
   migrations at startup.
5. *Composition* of `RunScheduler` with several `BandPipeline`s over the shared
   keys, so that the scheduler's abstract pipelines are those of the agents.
6. *Proofs*: what the abstract specifications promise by themselves (`SlotPool`,
   `StageRelay`), so that the refinements carry it over; `PageTypes` with transcripts
   that race with their rows; the operators of `RunViews` that need no recursion.
