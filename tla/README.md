# claudecord in TLA+

claudecord is a Discord bot that turns messages into runs of the Claude Code CLI. It is one
Python process and one asyncio event loop; message handlers, timers and clean-up tasks
interleave at their `await`s, file work runs in threads, and the CLI processes live and die on
their own. This directory holds TLA+ models of the bot, the TLC runs that check them, and proofs
about every module. Paths such as `runner.py:597` mean `src/src/runner.py`, line 597;
`README.md:165` is the repository's README.

## The parts of the system

| Part | State it keeps | Operations | What makes it correct | Modelled in |
|---|---|---|---|---|
| warm pool, `warm_pool.py` | dict slot -> idle process, in parking order; per process its slot, session, idle timer | acquire, park, forget, discard_processes, reset, the idle timer | one process per conversation; slot, dict and process agree; a timer exactly while parked; the cap; oldest out first | `WarmPool` |
| runner, `runner.py` | `_ACTIVE_CLAUDE_PROCESSES`, a `JobProcessScope` per job, the turn in progress | warm and cold turn, retirement, job timeout, terminate-all | a process has one owner, of its own conversation; what is alive is reachable or on its way out; jobs end | `Runner` |
| sessions, `sessions.py` | the JSON store, its cache, a lock | get (which expires), set, clear, clear all | an atomic map that survives crashes and failing writes | `SessionMap`, `SessionStore` |
| dispatcher, `main.py` | the concurrency gate, the backlog counter, each message's progress | on_message, `/clear`, `종료`, the life of a job | slots never leak; the backlog is exact; turns of a channel chain; what was ended stays ended | `Dispatch`, `MCForget` |
| outputs, `outputs.py` | none that outlives a call | choose the body, split it, send; collect attachments, send them in batches; notices | nothing lost or sent twice, no piece too long, fences intact, nobody left without a word | `Chunks`, `Outputs` |
| status, `status.py` and the ack in `main.py` | the ack message, the spinner task, edits on their way | spin, stop, the job's own edits | the final status is the last thing shown, on every path | `Answer` |
| orchestrator, `orchestrator.py` | job directories and their files | allocate, prepare, run, the sweep on every connect | a job's directory is there while it needs it, and goes some day | `JobRuns`; the stream of `run_job` in `Runner` |
| timing, parser, auth, greetings, errors | spans; projects cache; none | pure or nearly so | | not modelled (see below) |

How they interact. `on_message` allocates a directory, acknowledges the message, waits for the
gate, reads the session store, writes the job's files and calls `run_job` under
`asyncio.wait_for`, with a spinner task editing the ack meanwhile. `run_job` iterates over
`run_claude_stream`, which checks a process out of the pool or spawns one, and gives it back or
retires it in a `finally` clause. The session the answer names goes to the store, the ack gets its
final status, `send_outputs` delivers. `/clear` touches store and pool, `종료` pool, processes and
store; idle timers and the finaliser of abandoned streams retire processes in the background;
every (re)connect starts a sweep of old job directories in a thread.

Hard behaviours, and therefore what the properties are about: a deadline can cancel a turn at any
of its awaits, inside a clean-up too; `종료`, `/clear`, timers, sweeps and other jobs act between
any two awaits; a CLI process may never answer, exit at any moment or refuse to die; the store may
be cut short by a crash or refused by the file system; Discord may refuse any call, or carry out an
edit whose caller was cancelled; a value read before an await is used after it. `PROJECT.json`
lists these hazards with their lines.

## The modules

- **WarmPool** - the pool. Every method of `WarmClaudePool` is free of awaits, so each is one
  action (`Checkout`, `AcquireDead`, `Park`, `Forget`, `Expire`, `Discard`, `Reset`). The dict is a
  function from slots (key, session) to a process or `None`; its insertion order is the relation
  `older`. `Adopt` and `Exit` are the life of processes. `park`'s eviction loop is one step, because
  it runs at most once: `WithinCapacity` says so and is proved.
- **Runner** - EXTENDS `WarmPool` and composes its actions with the turns. `pc[j]` names the await
  job *j* is suspended in; `wp` the process its turn reads; `scope`, `active` are the sets of the
  code. `reap[r]` is what *r* - a job, the background task of a process, or `종료` - is waiting to
  see dead; the two waits of 5 s around SIGKILL are one wait, which ends when the processes are
  gone, or earlier when they are `Unkillable`. `asked` are processes that were told to exit, `loose`
  those of a stream that `run_job` left open by raising. `deadline[j]` is `wait_for`; `Timeout` is
  its cancellation, with a disjunct for each way a suspended turn reacts to it. The caller's part
  (`Start`, `Retry` on a stale session, `HandleTimeout`) is from `main.py`.
- **SessionMap** / **SessionStore** - the map callers expect, and the store: a call takes the lock and
  loads in one step, then opens the temporary file, writes it, renames it; `SaveFails` at each of
  these, `Crash` between any two. `SessionStore` implements `SessionMap` with `sessions` mapped to
  what the bot would answer from (`view`).
- **Dispatch** - a message from arrival to answer. The gate is `asyncio.Semaphore` with its FIFO and
  its woken-but-not-yet-running waiters, as Python 3.11 and later have it. The runner is taken for
  what it reports, the store for a map.
- **Chunks** - `_chunk`, the choice between messages and a file with a preview, and the sends. A line
  is its length and what `_chunk` and a Markdown reader see in it (a fence mark, its run, a language
  behind it, whether it ends in a newline); a piece is its length and the parts of lines it is made
  of, so that "nothing lost" and "reads alike" can be said without characters. There are two
  lengths: `len` counts code points, as Python's `len()` and so `_chunk` do; `Units` is what Discord
  counts, where an astral character (most emoji) is two. A line says at which offsets it has such
  characters (`wide`), a piece how many it got (`astral`). Each round of a loop of the code is an
  action (`NextLine`, `HardSplit`, `TakeLine`, `LastFlush`).
- **Outputs** - EXTENDS `Chunks`: `send_outputs`, from the body over `meta.json`, `manifest.json` and
  the inline pictures to the notice of an empty result. What is on disk is chosen when it is read.
  Every send may raise.
- **Answer** - EXTENDS `Outputs`: the ack over the life of a job, the spinner task, its cancellation,
  and the edits on their way in `flight`. An edit takes effect, if at all, before it returns, and one
  whose caller was cancelled may still take effect later.
- **JobRuns** - job directories, their two ages (mtime, and `created_at` of `job.json`), the working
  directory a conversation remembers, and sweeps entry by entry, with `rmtree` in its steps. A job
  resolves its directory (`Resolve`: the project named, nothing if the message names a session, what
  the conversation remembers, else its own), and `prepare_job`, which runs in a thread beside the
  sweep's, checks it (`Check`, `StartAfresh`, `Refuse`) and writes its files (`Write`) in steps that
  a sweep, a `/clear` or the end of a project can come between; so can they before `Run` reads
  `job.json` and looks again.
- **MCWarmPool, MCRunner, MCSessionStore, MCDispatch, MCAnswer** - instances with symmetry sets or
  the enumerated texts and listings; symmetry is used in safety runs only. **MCForget** adds a history
  variable for a question about what came before a command.
- **WarmPoolProofs, RunnerProofs, SessionStoreProofs, DispatchProofs, ChunksProofs, OutputsProofs,
  AnswerProofs, JobRunsProofs** - the theorems; each EXTENDS its module, and the proofs of the
  modules that one extends.

Operators commented `mutant:` are faulty variants of the definition that follows them; no
specification uses them. Replacing the definition by the variant makes the property that
`PROJECT.json` pairs with it fail.

Outside `src/` and therefore assumed: `asyncio.Semaphore`, `wait_for` and the finaliser of
asynchronous generators; POSIX rename; that Discord works off the edits of one message in the order
sent and refuses a message of nothing but whitespace; how a Markdown reader pairs fences
(`Chunks!Prose` and its neighbours).

## The runs

| Run | Instance | Shows |
|---|---|---|
| pool | 4 processes, 2 keys, 3 sessions, capacity 2; 3.6k states up to symmetry | the pool's books agree under any order of calls |
| turns | 2 jobs, 2 processes, 2 sessions, 1 key, capacity 1, one process `Unkillable`; 1.36M | whatever lives is tracked (`TrackedWhileAlive`) and attended to or told to exit (`NoneLeftBehind`); a job's scope is its current process; a process has one owner; a turn reads a process of its own conversation; the warm attempt is dead before its cold replacement starts |
| turns_end | 1 job, 2 processes, one `Unkillable`, under fairness; 43k | jobs end, unless the deadline was lost; parked processes leave; retired ones die, if they can; every step is one of `PoolSpec` |
| store | 2 threads, 2 channels, 2 sessions, TTL 1, clock to 2; 13k | the store implements the map; cache and file agree between calls; a reported clear is on disk |
| dispatch | 4 messages, 2 slots; 178k | the gate is exact, the backlog is exact |
| one_slot | 3 messages, 1 slot, 2 sessions, under fairness; 127k | turns of a channel chain, recovery drops only what is stale, every job finishes |
| answer | every text of up to 3 lines of 8 kinds, 3 files, listings of up to 2 entries, under fairness; 512k | the answer is whole; it fits, while the headroom has room for fences and emoji; it reads as it was meant, as far as `_chunk` follows the fences; listed files arrive once; who is owed a word gets one; the ack ends with its final status, on every path; every job gets to its end |
| job_dirs | 2 jobs, 1 project, 2 sweeps at once, retention 1, under fairness; 160k | no sweep takes the directory of a live job; a turn runs where it was prepared, whatever a sweep does between check, writes and run; directories go in the end |

Bounds. Two jobs are the fewest that interfere, and the default of `MAX_CONCURRENT_JOBS` is 2;
with capacity 1 each park displaces or evicts, which is when the runner has most to clean up.
Process objects are reused once they are gone, so two of them still give unboundedly many spawns.
Two slots and four messages have one waiter behind another while two run. One channel is enough for
the dispatcher: channels share nothing but the gate. `MaxClock` one more than the TTL lets an entry
age, expire and be replaced. `TerminateAll` takes one `종료` at a time. Each run of `store` starts
from every kind of file: none, one that does not parse, one that is not UTF-8, an entry with and
without a date. It does not let a good file fail to be *read* (`ReadErrors`): then the code moves it
aside and forgets every session, which its comment accepts. In `answer` the limits are scaled down
(7 characters to a piece, 13 to a message, 2 messages before the body becomes a file, 2 files to a
message), so that every branch is taken by texts of three lines: a line that just fits, one that
leaves a newline over when cut, one cut twice, lines with one emoji and with more than the headroom
takes, fences that nest or carry a language. In `job_dirs`
ages stop at `Retention + 1`, where all older ones behave alike; each thread connects once in an
age (`connected`); and a job, its wait in the queue included, is over within `Retention` days.

Fairness. `Runner!Fairness`: timers fire (`wait_for`, the idle task), a coroutine whose await is
over runs on, a finaliser runs, and SIGKILL ends a process that somebody is still waiting for,
unless it is `Unkillable`.
Nothing is assumed of the CLI: it may never answer. `DispatchLive`: each step of a message
happens, since Discord calls return or raise, and runs end by their deadline (`turns_end`).
`AnswerLive`: the job goes on, Discord answers, and a cancellation reaches its task; the spinner
owes nobody an edit. `RunsReconnecting`: jobs end, time passes, sweeps come to their end, a removal
tried again and again works at last (strong fairness: it may fail in between) - and `on_ready` fires
while it can, each thread once in an age. The last is needed:
under `RunsLive`, a bot that stays connected sweeps once and never again (see below).

### Where the code does not do what the repository says

Four runs have a counterexample; `PROJECT.json` quotes the line that says otherwise.

- `timeout_spares_others`: a turn parks its process and then awaits the retirement of the one it
  displaced; the parked process is still in the job's scope, another job takes it, and the first
  job's deadline kills it.
- `ended_stays_ended`: a turn that is running during `/clear` or `종료` stores its session afterwards.
- `fences_always_survive`: a line above the limit inside a fence is sent in parts that are messages of
  their own without any fence (`outputs.py:569-571`), so that code shows as prose, although the
  docstring of `_chunk` says that a fenced block never renders broken because it was split. Another
  way to the same, which TLC finds when such lines are left out of `MCAnswer!Lines`: the toggle
  at `outputs.py:575-581` takes every fence line for the end of the open block, so that a fence
  nested in a longer one, one of the other mark, or one with a language turns its one bit around,
  and the next cut closes and opens what it should not. `FencesSurvive` says what is left of the
  promise: it holds of every message up to the end of which `_chunk` follows the fences
  (`FollowedIn`).
- `safe_to_send`: a long answer that begins with a blank line, or has a line that fills the limit up
  to its line break, is cut into a piece that is only a line break, which Discord refuses. The run
  takes texts without emoji (`NarrowTexts`) to show this one. With emoji the property fails another
  way: a full piece of 1950 code points with more than 50 astral characters is above 2000 for
  Discord, since the headroom of `outputs.py:32-37` is 50. `DiscordTakesIt` therefore has the
  headroom as an antecedent (`HeadroomFor`).

Seen on the same models and not kept as runs:

- a store file that is not UTF-8 makes every call raise `UnicodeDecodeError` until somebody deletes
  it (`SessionStore!CallRaises`): `_load` catches `OSError` and `JSONDecodeError` only
  (`sessions.py:127`, against the comment at `sessions.py:94`);
- `wait_stderr_drained` swallows a cancellation (`warm_pool.py:173`); a stale-session retry then has
  no deadline (`README.md:165`). `JobsEndUnlessDeadlineLost` names this exception.
- `종료` terminates a snapshot; a job inside a spawn, or falling back to a cold one, has a live
  process afterwards (`README.md:326`).
- with two slots, two turns of one conversation have two live processes (`warm_pool.py:236` says one);
- a turn that completes while `종료` waits parks a process that is about to die, and the next turn
  may be handed it (`runner.py:262`);
- a retirement untracks a process even if it survived SIGKILL (`runner.py:513` against
  `runner.py:331`); a timeout that interrupts a retirement after SIGTERM leaves the process out of
  the job's scope (`runner.py:566`), where `종료` still finds it;
- a job may wait behind an ack that says it is being worked on (`main.py:410` is read before an
  await, `README.md:166`); an ack stays at "working" when `prepare_job` raises twice or the session
  cannot be stored (`main.py:479`, `main.py:567`);
- the sweep runs on connect only, so that the disk of a bot that never loses its connection grows
  although `orchestrator.py:130-134` says it does not; and it may take the directory of an old job in
  which a conversation still works (`orchestrator.py:358`), which `run_job` notices only before it
  starts the CLI.

## The proofs

Everything below holds for every value of the constants that satisfies the assumption in its
module: any number of processes, jobs, messages, channels, any limits, any set of texts and files.

| Module | Theorem | What it gives |
|---|---|---|
| `WarmPoolProofs` | `PoolInvariance`, `PoolTypeInvariance` | the inductive invariant of the pool; its types |
| | `OneProcessPerConversation`, `SlotsAreTrue`, `TimersExact`, `CapacityHolds`, `EvictionIsFair` | `OneParkedPerConversation`, `SlotTellsTheTruth`, `TimersMatchIdle`, `WithinCapacity`, `EvictsOldestOnly` |
| `RunnerProofs` | `RunnerInvariance`, `RunnerTypeInvariance`, `RunnerUsesPool` | the inductive invariant of the runner; its types; `PoolSpec` |
| | `TurnReadsItsOwn`, `NothingEscapes` | `RightContext`, `TrackedWhileAlive` |
| | `CleanInvariance` | `RunnerInv` strengthened by what scopes and disposals keep |
| | `OneOwner`, `OneProcessInScope`, `NobodyLeftBehind`, `FallbackStartsClean` | `ExclusiveUse`, `ScopeIsOneProcess`, `NoneLeftBehind`, `FallbackIsClean` |
| | `JobsReachTheirEnd`, `ParkedProcessesLeave`, `RetiredProcessesDie` | from fairness: `JobsEndUnlessDeadlineLost`, `ParkedLeaves`, `ExpiredDies` |
| `ChunksProofs` | `MessagesFit`, `CutMessagesRead`, `CutLosesNothing` | `DiscordTakesIt`, `FencesSurvive`, `NothingLost` |
| | `CuttingComesToAnEnd` | every round of the loops descends in a well-founded order |
| `OutputsProofs` | `HandingOver` | `NeverSilent`, `ListedFilesArrive`, `AttachedOnce` |
| | `HandedOverWhole`, `HandingOverComesToAnEnd` | the body keeps `FencesSurvive` and `NothingLost`; `send_outputs` descends too |
| `AnswerProofs` | `JobHandsOver`, `AnswersArrive`, `AnswersArriveWhole` | the job does what `Outputs` does, so all of the above holds of it |
| | `AnswersFit`, `AckEndsLabelled`, `FinalStatusIsLast` | `AnswerTypeOK`, `EndsLabelled`, `FinalStatusStays` |
| | `AnswersComeToTheirEnd`, `DeliveringDescends` | from fairness: `AnswerEnds`, if the handing over ends; it descends |
| `SessionStoreProofs` | `StoreIsConsistent`, `StoreImplementsMap`, `ClearsAreReal` | `StoreTypeOK` and `CacheMatchesDisk`, `MapSpec`, `ReportedClearIsReal` |
| `DispatchProofs` | `GateAndBacklog`, `OneSlotChains`, `RecoveryForgetsTheStale` | `DispatchTypeOK`, `GateExact` and `PendingExact`; `TurnsChain`; `RecoveryDropsItsOwn` |
| | `SlotsAreGivenBack`, `QueueMovesOn` | from fairness: a slot comes back; who waits moves up |
| `JobRunsProofs` | `SweepsSpareLiveJobs`, `TurnsRunWherePrepared` | `RunsTypeOK` and `LiveJobsKeepTheirs`; `RunsAsPrepared` |

**WarmPoolProofs.** `PoolSpec` keeps `PoolTypeOK`, `OneParkedPerConversation`, `SlotsAgree`,
`SlotTellsTheTruth`, `TimersMatchIdle` and `WithinCapacity`, and its steps satisfy
`EvictsOldestOnly`. The inductive invariant `PoolInv` is the conjunction of the six. None is
inductive alone: `WithinCapacity` needs to know that one removal takes one process away, which is
`SlotsAgree`; `SlotsAgree` after a park needs `OneParkedPerConversation`, so that the entry
overwritten was popped; `TimersMatchIdle` needs `SlotsAgree`, because removals go through the
recorded slot. Each method has a lemma; `PopKeepsInv` serves the five that only remove. The capacity
argument counts: a park adds one process to a dict within its cap, and if the result is above it,
taking the oldest away is enough. `EvictionIsFair` rests on `OnlyParkAdds` and `EvictsTheFront`.

**RunnerProofs** has two layers. `RunnerInv` joins `PoolInv`, `RunnerTypeOK` and `HoldInv`: a job has a
process exactly while its turn reads one, that process is not parked, no other job has it, and if it
is warm its key and session are those asked for. The parts need each other: `RunnerUsesPool`
(`Spec => PoolSpec`) needs `HoldInv`, since `PoolNext` parks only what is not parked and has a key;
`HoldInv` needs `SlotsAgree` and `SlotTellsTheTruth` when `Checkout` hands a process out. `RightContext`
follows. `CleanInv` adds, on top, what becomes of processes. `ScopeWell` follows a job's scope
through its turn: the process it reads, then empty or what is being retired, and empty wherever a
new attempt can start. `DisposalInv` says that what a retirement or a finaliser has in hand is
neither parked nor in use, and that what is parked or in use and alive is tracked (also when it is
`Unkillable`: only a retirement untracks). `NoneLeftBehind` needs both: `종료` empties the pool and
signals the *tracked* processes, a deadline leaves the process whose first event it interrupted to
the *scope*. `GivingUp` states once what a step has to do about the processes it takes from their
owner; every action is an instance. `ExclusiveUse`, `ScopeIsOneProcess`, `NoneLeftBehind` and
`FallbackIsClean` follow. `TrackedWhileAlive` is inductive by itself; what survives SIGKILL is excepted,
since a retirement untracks its process whether or not it died.

**SessionStoreProofs.** `StoreSpec => MapSpec`, by `StoreInv`: the cache, when there is one, is what
the file holds; a call in progress has the lock, and its draft is an outcome of that call on the
very cache it loaded; before the rename the draft is what the temporary file holds. So the rename is
the map's step and everything else, failures and crashes included, a stutter. All under
`~ReadErrors`; without it the statement is false, as the code says.

**DispatchProofs.** `GateExact` and `PendingExact` for any number of messages and slots, from `GateInv`
(holders are the messages inside, waiters are different messages that really wait, nobody waits
while a slot idles unless somebody was woken for it) and `BacklogInv` (the counter is the cardinality
of the messages under way). `TurnsChain` and `RecoveryDropsItsOwn` are stated for one slot and rest
on the gate: nobody else is between resolving a session and storing one.

**ChunksProofs.** `MessagesFit` and `CutMessagesRead` hold for any text and any limits, and say nothing
where their antecedents fail; that the antecedents are needed is what `safe_to_send` and
`fences_always_survive` show. `DiscordTakesIt` needs, of a buffer that is not yet closed, that it leaves
room for the closing fence within the limit, or holds one line behind a fence that had to be opened
again, which the headroom between the two limits pays for, next to the astral characters of the
piece (`HeadroomFor`); since those are known only in the end, the invariant says it for every number
of them. `FencesSurvive` and `NothingLost` speak of readers
that run over the items of a piece, so that the invariants have to say what such a reader has seen
when it stands at the end of the buffer. `FenceInv`: it is inside the fence that `_chunk` has noted as
open, which is the fence a reader of the whole text is in behind the last line cut, and every piece
already flushed ends outside any - all this as long as `_chunk`'s one bit has agreed with Markdown
at every line up to there, and no fence or line of code was above the limit (`Followed`). `TextInv`: the parts of lines in the pieces and the buffer, put one
behind the other, end just before `rest` of line `at`. Both carry over a flush because a closing line
brings the reader out and the opening line of the next buffer back in. The recursive readers are
handled by `Iteration` and `Least`: a recursively defined function on `0 .. n` has the values its
equation gives, which is proved from the library's well-foundedness of the naturals, since a set
of counterexamples can be named where an operator cannot be passed. Termination is stated as a
rank, `CutRank`: the stages left, the lines or messages left, whether the line is still whole, and what
is left of it. `CuttingComesToAnEnd` says that every round descends in the lexicographic order.

**OutputsProofs, AnswerProofs.** `NeverSilent`, `ListedFilesArrive` and `AttachedOnce` follow from what
`sent_paths` remembers: all that is queued or sent is in it, and a file in it has been accounted for.
`JobHandsOver` maps every step of a job to one of `send_outputs` or a stutter, which carries these and
the promises of the cutting over; `EndsLabelled` and `FinalStatusStays` then need only the ack: once the
job says how it ended nobody asks for a "working" any more, so none is behind a "final" in `flight`.

**JobRunsProofs.** A job that is not over is young by both clocks, and what a sweep is removing
belongs to a job that is over and stays so: `LiveJobsKeepTheirs` follows. A job that is prepared or
runs has its `job.json`, since a removal that could take the file away has begun only behind the end of
the job: `RunsAsPrepared` follows.

**Liveness.** The proof system has no rule for `WF_` or `ENABLED`. What it can do is propositional
temporal logic, so the theorems about liveness take fairness with the guard of each action written
out: `[]<>~guard \/ []<><<A>>_vars`. `TimerFires`, `Kills` and `Served` in `RunnerProofs` and `StepsOn`
in `DispatchProofs`, `GoesOn`, `Answers` and `CancelReaches` in `AnswerProofs` are these;
`GuardsAreRight` in `MCRunner`, `MCDispatch` and `MCAnswer` says that guard and `ENABLED` are the
same, and TLC finds it true in every reachable state of both instances of the runner, of 3 messages on
2 slots, and of `answer` (add it to a .cfg as an INVARIANT to see that). No other fairness is used.

`JobsReachTheirEnd` puts a job that is under way at one of seven stations (`Stations`): in an attempt
that resumes a session or in one that does not, behind either, unwinding under its deadline, timed out,
and killing what is in its scope. `StationMoves` shows that a step of anybody leaves it where it is
or takes it towards the end: the one way back, the retry of a stale session, leads to an attempt with
nothing to resume, which cannot be retried. `FairMoves` gives each station an action that must come. The
invariant behind both (`LifeInv`) says where a deadline can have fired, and that what a job then waits
for is a single process or nothing, so that one kill sets it free. A deadline that `wait_stderr_drained`
swallowed is the exception `JobsEndUnlessDeadlineLost` names. `SlotsAreGivenBack` has the stations of a
message inside the gate in the same way; recovery (a gone directory, a stale session) goes back only
once, because it leaves nothing to resume. `QueueMovesOn` says that
every job comes to the gate, that whoever waits has exactly one place, that while anybody waits somebody
has a slot, and so gives it back, and that whoever waits at place *n* then gets in or moves up.
`AnswersComeToTheirEnd` needs that a job which waits for an edit of its own has at most one other edit
before it (`AirInv`), so that two answers of Discord let it go on; behind that, the stations of a job lead
one way. What happens while it delivers is left to `DeliveringDescends`: only the job's own steps
move the hand-over, each down in a rank of naturals.

Model-checked only: what needs an induction *inside* temporal logic, on a rank without a bound. That
is `EveryJobFinishes` (on the place in the queue, with `QueueMovesOn` as the step), `AnswerEnds` (on the
rank of `DeliveringDescends`; up to that it is proved), and `EveryDirectoryGoes`.

## Not modelled

- The wording of messages, status lines and errors, the redaction of paths (`errors.py`), greetings,
  authorisation (`auth.py`), the parsing of commands (`parser.py`) - pure functions of their input.
- `timing.py`: spans for diagnosis, read by nothing else.
- What a renderer makes of an SVG, and the stream log and text that `run_job` collects from events:
  `Chunks` takes any text, `Outputs` any files.
- In `Dispatch`: failing saves and the TTL of sessions (see `SessionStore`; that the handler raises
  there is in `Answer`), and the rebuild of the gate when `MAX_CONCURRENT_JOBS` changes inside a
  running process.
- In `Runner`: pipes that `create_subprocess_exec` would not give (it was asked for them); the two
  halves of a retirement's wait; Windows, where terminating is already killing.
- Packaging, installers and examples.

## Plan

1. `Dispatch` over `SessionMap` with saves that fail and entries that expire, so that what `/clear`
   reports is related to what the store holds.
2. `JobRuns` with the gate of `Dispatch`: how long a job can wait, against the sweep's clock.
3. Proofs: the steps of `EveryDirectoryGoes`.
