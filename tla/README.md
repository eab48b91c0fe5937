# Verification of predicate-claw

TLA+ models of the authorization layer in this repository, checked with TLC
and, where a result should hold for every value of the parameters, proved with
TLAPS. The repository guards the tool calls of an AI agent: before a tool runs,
a sidecar ("authority") is asked; afterwards the execution may be verified
against the mandate it was given.

Paths below are relative to the repository root (`src/` in `PROJECT.json` is
that root, so `src/src/provider.ts` there is `src/provider.ts` here).

## 1. Inventory

| Component | State | Operations | Talks to |
|---|---|---|---|
| `GuardedProvider` (`src/provider.ts`) | none across calls; each call has its answer, its event, its exit | `authorize`, `guardOrThrow`, `verify`, `emitDecisionEvent` | authority client (await), telemetry sink (synchronous call), audit exporter (await) |
| `ToolAdapter` (`src/adapter.ts`) | none | `run`, `runShell`, `readFile`, `httpRequest` | `guardOrThrow`, then the tool |
| Authority client (`src/authority-client.ts`) | none | `authorize` with timeout and retries inside an external library; `toAuthorityDecision` | sidecar over HTTP |
| Circuit breaker (`src/circuit-breaker.ts`) | state, failure and success counters, time of the last failure, metrics | `allowRequest`, `recordSuccess`, `recordFailure`, `reset`, `withCircuitBreaker` | the guarded function, an `onStateChange` listener |
| SecureClaw plugin (`src/openclaw-plugin.ts`) | current session, metrics per tool, mandates awaiting verification | hooks `session_start`, `session_end`, `before_tool_call`, `after_tool_call`; `extractAction`, `extractResource` | the OpenClaw host (calls the hooks), one `GuardedProvider`, the process's working directory |
| Control-plane sync (`src/control-plane-sync.ts`) | last recorded versions and time | `syncControlPlaneState`, `recordSync`, `snapshot` | control plane over HTTP, `onStatus` listener |
| Runtime integrator, hooks, plugin API (`src/runtime-integration.ts`, `openclaw-hooks.ts`, `openclaw-plugin-api.ts`) | the tool registry it rewrites | `register`, one handler per tool | registry, `ToolAdapter` |
| Web and non-web evidence (`src/web-evidence.ts`, `non-web-evidence.ts`) | none | snapshots to state evidence | evidence providers |
| Python provider (`src/openclaw_predicate_provider/`) | none across calls | `guard_or_raise`, sidecar client, adapter, hooks, command line | sidecar over HTTP |
| File processor demo (`examples/file-processor-demo/`) | a run's listing, records and archive list; the files it leaves | list, read, aggregate, write, archive, report | sidecar that authorizes and executes |
| Market research demo (`examples/real-openclaw-demo/src/`) | browser, tracer, last snapshot, a run's leads; `leads.csv` across runs | launch, navigate, verify, extract, load, compare, save, clean up | sidecar that only authorizes, a browser, a language model, the file system |
| Other demos (`examples/`) | none | scripted walks through the library | - |

What is hard here:

* **Single-threaded concurrency.** Between two awaits JavaScript runs without
  interruption; across an await everything may have changed. Any number of tool
  calls are under way at once over the same breaker and the same plugin state.
* **Two meanings of "error".** `authorize` throws its denial inside the `try`
  whose `catch` turns errors into outages; `guardOrThrow` overrides outages
  when failing open. A denial mistaken for an outage becomes a permission.
* **Foreign code in the middle.** Telemetry sinks and state listeners are
  called synchronously and may throw anywhere; audit exporters are awaited and
  may never settle.
* **Keys and objects that outlive their owner.** A pending mandate is keyed by
  tool name and millisecond; a metrics object is fetched before an await and
  put back after it; there is one current session for the whole process.
* **Two looks at one thing.** The plugin derives the resource of a call before
  and after it, from parameters and a working directory that may differ by then;
  the research demo verifies a page and then extracts from it; both demos read a
  file and write it, or its copy, later.
* **Refusals that look like something else.** A refused read is an empty file, a
  refused listing an empty directory, a refusal with the words "not found" a first run.
* **Answers that are lost.** The sidecar may have executed what the agent never
  hears of.
* **Time.** Backoffs, the reset timeout, and failures that arrive long after
  the circuit opened.

Every one of these is listed at its line under `hazards` in `PROJECT.json`,
with the properties that would catch it going wrong.

Properties that make each component correct:

* Guarded call: no tool runs on a denial, or without an answer, or during an
  outage when failing closed; no allowed tool is turned away; every answered
  call leaves one faithful event; every call ends.
* Breaker: state and counters agree; it opens and closes on the evidence the
  configuration asks for; an open circuit recovers; retries end; nothing is
  called while it is open.
* Plugin: the guarded-call promise, for what the host runs; a mandate is only
  used for the call it was issued to, and the verdict on it is true; mandates do not
  pile up; the metrics of a session count its calls.
* Control plane: what is recorded is never older than the sync that fetched it,
  the versions reported never go back, staleness means what it says, every sync
  settles.
* Integrator and Python guard: the guarded-call promise, however often a tool
  is registered; no registered tool is reached past its guard.
* Demos: nothing is executed, or done, that was not granted for that very request;
  an undisturbed run is complete; saves merge leads by URL and write no lead again that they
  have saved; resources are released; a run ends, whatever fails.

## 2. Modules

    ToolGuard                 abstract: what a guarded tool call promises
      ^ refined by
    GuardedProvider           authorize / guardOrThrow / emitDecisionEvent -> GuardedProviderProofs
      ^ extended by
    ToolAdapter               + run                                     -> ToolAdapterProofs
    SecureClawPlugin          + the four hooks, over ToolRequest        -> SecureClawPluginProofs
      (ToolRequest: action and resource of a tool's parameters; MCPlugin: values for TLC)

    CircuitBreaker            the breaker and the retry loop            -> CircuitBreakerProofs

    PythonProvider            one pass through the Python guard
      ^ extended by
    RuntimeIntegrator         + register, hooks and adapter             -> RuntimeIntegratorProofs
                              (refines ToolGuard as well)

    ControlPlaneSync          syncs and the status tracker              -> ControlPlaneSyncProofs

    SalesReport               the aggregation
      ^ extended by
    FileProcessorAgent        a run of the demo over the sidecar        -> FileProcessorProofs
                              (MCFileProcessor: values for TLC)

    PredicateRuntime          predicates over a snapshot, the verdict over them
    PredicateSidecarClient    what the client makes of an answer
      ^ both extended by
    MarketResearchAgent       a run of the demo                         -> MarketResearchProofs
                              (MCMarketResearch: values for TLC)

**Grain of a step.** In every module a step is what JavaScript executes
between two awaits, synchronous callbacks included. This is exactly the
atomicity of the code, so interleavings that TLC explores are the ones the
event loop can produce. (`RuntimeIntegrator` splits two steps further; see there.)

### ToolGuard

The specification without mechanism: a call is answered at most once (`allow`,
`deny` or `unavailable`); its tool runs at most once and only on a verdict in
`Permitting`; a tool is never refused once its call was allowed. `Permitting`
is `{"allow"}` when failing closed; failing open adds `"unavailable"`, and for the
plugin also `"none"` (see below).

### GuardedProvider and ToolAdapter

`pc[c]` follows a call of `guardOrThrow`: `new`, `authorizing` (awaiting the
client), `exporting` (awaiting `exportDecision`), and `granted` or `refused`
once the promise settles. `exit[c]` is how `authorize` ends, `verdict[c]` what
the authority answered (a history variable the code does not keep), `told[c]`
and `audited[c]` the outcomes handed to the telemetry sink and the exporter.

| Action | Code |
|---|---|
| `Submit`, `SubmitUnhashable` | `authorize` up to the await; the intent hash throws outside the `try` |
| `AnswerAllow`, `AnswerDeny`, `AnswerFails` | the rest of `authorize`, up to the exporter's await if there is one |
| `EmitDecision`, `EmitError`, `Emit`, `SinkThrows` | `emitDecisionEvent` called from the `try` and from the `catch`, with a sink that returns or throws |
| `ExportSettles` | the code after `await exportDecision`; a rejection is swallowed |
| `Grants`, `Leave`, `Returned` | `guardOrThrow` |
| `Execute`, `Throw` | `ToolAdapter.run` |

An error thrown by the sink while a decision is reported goes to the `catch`
of `authorize`: `ActionDeniedError` is rethrown, anything else is reported as an
"error" event (a second call of the sink, which may throw as well) and becomes
`SidecarUnavailableError`. `SinkErrors` is the set of errors the sink may throw.

### CircuitBreaker

The fields of the object are one record; `AllowRequest`, `RecordSuccess`,
`RecordFailure`, `TransitionTo` are functions from a record to the record they
leave and whether the listener's exception escaped. An action chains them as
`withCircuitBreaker` does: `Enter` (to the first call of `fn`), `Succeed`,
`Fail`, `FailUncounted` (`fn` settles), `Wake` (a backoff ends), `Reset`, `Tick`.
The success path runs inside the `try`, so a listener that throws on closing
sends the success to the `catch` block; `CatchFailure` is entered with the
fields `recordSuccess` left.

The code uses time only as `Date.now() - lastFailureTime >= resetTimeoutMs`.
`sinceFailure` is that difference, counted up to `ResetTimeout` (`Never` for a
null `lastFailureTime`): the model is finite and time unbounded. `streak` is
a history variable: `fn`'s latest outcomes in a row, counted up to the thresholds;
`outcomes` another: how often `fn` has succeeded and failed, each counted up to `MaxTotal`,
as the metrics' totals are.

### SecureClawPlugin

`currentSessionId`, `toolCallMetrics` and `pendingMandates` are the variables of
the closure. The map of metrics holds references: `object` is the heap, and
an object is named by the call that created it, so that `Block` can put a stale
one back; `stragglers` is the history of it: the tools of which a call of another session
was blocked during the current one. `call[c]` holds the event, the context's
`__secureClawToolCallId` and what the hook keeps across its await. A key is `<<tool, Date.now()>>`.

`ToolRequest` is `extractAction` and `extractResource`: a parameter is a path (where
it starts, and its steps), another string (its words), or no string; `Walk` is
`path.resolve`. Both hooks apply it, each with the parameters and the working
directory of its moment: `authorized` is what was asked for, `touched` what the tool did
with the parameters it ran with, `actual` what `after_tool_call` reports.

The host is not in this repository. It is left open: calls are concurrent in
any order, a tool may be aborted so that `after_tool_call` never comes
(`HostAborts`), `HostSessions` says whether sessions may overlap or follow one another
(also then calls of the last may still be waiting when the next begins), hooks
of other plugins may rewrite the parameters of a call that was allowed (`HostRewrites`),
and the process may change directories (`Dirs`).
Assumed of it: both hooks of a call get the same context object, and a call
begins in an open session. When failing open, an error that is neither a denial
nor an outage lets the tool run ("Unknown error (fail-open)"): this is how
arguments that cannot be hashed get through without an answer, and why the
plugin's `Permitting` then contains `"none"`.

| Action | Code |
|---|---|
| `SessionStart`, `SessionEnd` | the hooks `session_start`, `session_end` |
| `BeforeToolCall` | `before_tool_call` up to its await: extraction, metrics, `guardOrThrow` |
| `GuardProgress` | the authority's answer and the exporter's, inside `guardOrThrow` |
| `Allow`, `Block`, `AllowUnknownError` | the rest of `before_tool_call`: mandate kept; denial or outage; any other error |
| `AfterToolCall`, `VerifyAnswers` | `after_tool_call` up to its await, and after it |
| `RunTool`, `Abort`, `ChangeDir`, `Tick` | the host and the clock |

### PythonProvider and RuntimeIntegrator

The Python guard keeps no state, so a pass through it is a function: `Verdict`
is what the authority said to a response, `SidecarAuthorize` what the sidecar
client makes of it (a decision, `SidecarUnavailableError`, or any other exception),
`Grants` whether `guard_or_raise` returns. A status that the client does not
know, a body that is not JSON and a missing local SDK are responses of their own.

`RuntimeIntegrator` puts tools around it. `register` finds the handler in the
registry and replaces it by one that calls the guard and then the handler found:
registering again wraps the wrapper. `layers[t]` counts the guards around a
tool; `depth[c]` is their number in the handler a call was given, which later
registrations do not change; `answers[c]` are the authority's answers, outermost
layer first.

| Action | Code |
|---|---|
| `Register` | `register`; with fewer than all tools wrapped, `registry.get` raised for the next |
| `Invoke`, `EnterLayer` | `guarded`, the hook, `run_shell` and so on, `authorize` up to its await; context builder, hash or request may raise |
| `Answer` | the rest of `guard_or_raise`, and the next layer up to its await |
| `Cancel` | the host cancels the task while it waits for the sidecar |
| `Execute`, `Raise` | the innermost handler runs, or the exception reaches the host |

In the code `Execute` and `Raise` follow an answer without a break; as steps of
their own they admit more interleavings, and give `ToolGuard` its two steps (the
answer, then the tool). Nothing a call reads after its first step is changed by
another. Under the refinement a call's verdict is the worst of its layers' answers.

The TypeScript integrator and hooks (`runtime-integration.ts`, `openclaw-hooks.ts`)
are the same program; beneath them lies the adapter of `ToolAdapter`.

### ControlPlaneSync

`pull[s][d]` is the request for document `d` of sync `s`: `sending` until the
headers are in, under the timer of `fetchWithTimeout`, then `reading` the body, when
the timer is already cleared. The response is determined when the headers are sent.
`sync[s]` is the promise of `syncControlPlaneState`: rejected by the first failure,
while the other request goes on. `latest` and `age` are the tracker, `age` being
`Date.now() - lastSyncedAtMs` counted up to `StaleAfter + 1`. `base[s]` is a history
variable: what was published when the sync began.

| Action | Code |
|---|---|
| `Start` | `syncControlPlaneState` up to the await of `Promise.all` |
| `PullFails` | network error, timeout, bad status or unreadable body |
| `BodyArrives`, `RecordSync` | the end of a pull; with the second, the sync, and the caller's `recordSync` |
| `Publish`, `Headers`, `Tick` | the control plane and the clock |

The loop that calls these is not in this repository. It is taken to record a
sync as soon as it succeeds and to start syncs at any time: one after the other, or
`overlapping` ones, a choice made in `Init`. An `onStatus` listener is called after
the fields are set; whether it throws changes nothing here.

### FileProcessorAgent and SalesReport

`pc` is the request of `run` under way, `phase` where `authorizeAndExecute` is in it:
`authorize`, `execute`, or `answered`, when `run` may go on. `inputFiles`,
`allRecords` and `archivedFiles` are its locals, `at` the position in `inputFiles` of
the loop under way over the `.json` files, `held` the content being copied. `mandate`, `executed` and `written` are history: what the mandate in
hand was issued for, what was executed last, and the paths written in this run.
The sidecar is external: it executes what it is asked to, on a mandate.

| Action | Code |
|---|---|
| `Authorized`, `NotAuthorized` | `authorize`; no mandate is as good as a refusal |
| `Performed`, `NotPerformed` | `execute`, with `success` or without |
| `PerformedUnheard`, `PerformedInError`, `Unheard` | the operation is performed and the answer lost, or performed and answered with an error status; any other exception of the client |
| `Listed`, `Read`, `AggregateData`, `Written`, `Reread`, `Copied`, `Rest` | steps 1 to 7 of `run`, each from an answer to the next request |
| `Start`, `Change` | the agent is started again over what is left; others write the input directory |

`Ask` makes the next request. A loop is one operator, `Loop(files, from, first, after)`:
it goes on at the next `.json` name, which `Seek` finds, with the first request of its body,
or, when there is none, with the request after the loop. `SalesReport` is `aggregateData`:
the records of a region are the set of their positions (`Of`), `Total` sums a field over
positions, `Aggregate` is the list of the regions' summaries in the order of the stable
sort (`Before`). Amounts are integers, and products, dates and averages are left out; the
language model's answer is only logged in the code.

### MarketResearchAgent, PredicateRuntime, PredicateSidecarClient

`pc` goes through the awaits of `run`; `failing` is the `catch`. The client's two calls
are functions of the answer: `Authorize` throws on everything but 200, and fails as
`failClosed` says; `Execute` always fails closed. `PredicateRuntime` has the predicates
over a snapshot, a string being the set of the substrings anyone looks for in it (and of
the one it starts with, marked `^`). `Elements` is what the tree walker makes of a page: one
element for every node with text on it, the text being that of all the nodes in it.
The snapshot is taken in two steps, since the code takes the url before its first
await and the elements after others.

| Action | Code |
|---|---|
| `InitializeTracer`, `AskLaunch`, `StartBrowser` | `initializeTracer`, `launchBrowser` |
| `AskNavigate`, `Navigate`, `AskLLM` | `navigateToTarget` |
| `CheckUrl`, `CheckElements`, `SnapshotUrl`, `SnapshotElements`, `Verify` | `verifyPageState` |
| `ExtractWithLLM`, `ExtractFromDOM` | `extractLeadsWithLLM`, and `extractLeadsFromDOM` when the model gives no list |
| `AskRead`, `ReadLeads`, `AskWrite`, `WriteLeads`, `AskDemo` | `loadExistingLeads`, `findNewLeads`, `saveLeadsToCSV` |
| `CloseBrowser`, `CloseTracer` | `cleanup`, at the end and in the `catch` |
| `PageChanges`, `OthersAdd` | the page moves; others add rows to the file |

`permitted` and `acted` are history: the requests the policy allowed and those the agent
performed in this run. `loaded` is the file as it was read, `steady` that the page has
not changed since the snapshot was begun, `saved` the URLs that saves have put into the file
to stay. A title or a URL is the list of the texts between its commas: `Parsed` takes, as
the split at every comma does, the second and third text of a row for its title and its URL,
so that a comma in either garbles the row (`Intact` says that neither has one).
`NormalizeUrl` drops the slashes at the end (`Bare`) and the capitals (`Lower`).

## 3. Runs

| Run | Instance | What it shows |
|---|---|---|
| `adapter_closed` | 2 calls, failing closed, a sink that throws anything, no exporter | no tool runs without permission (`OnlyPermittedRun`); nothing is granted that the sink was not told of (`NoSilentGrant`) |
| `adapter_open` | 2 calls, failing open, well-behaved sink, exporter that settles in the end | implements `ToolGuard` (`KeepsPromise`); one event per call, the right one (`OneFaithfulEvent`); every call ends (`EveryToolSettles`) |
| `adapter_throwing_open` | failing open, a sink that throws an ordinary error | **violation** of `DenialStands`: see findings |
| `breaker_safety` | 3 callers, thresholds 2, 1 retry, listener throwing except on closing | opens and closes only on consecutive outcomes; the totals are the numbers of `fn`'s successes and failures (`CountedOnce`) |
| `breaker_live` | 2 callers, 2 retries, listener throwing on every transition | state and counters agree; retries end; recovery after an outage |
| `breaker_retry_while_open` | 1 caller, 1 retry | **violation** of `NoCallWhileOpen` |
| `plugin_safety` | 2 calls, 2 tools, 2 overlapping sessions, aborts, 2 milliseconds, failing closed | pending mandates belong to allowed calls of the tool in their key; a call is verified with its own mandate unless it shares its key |
| `plugin_open` | 2 calls, 1 tool with 2 events, 2 directories, rewritten parameters, 2 sessions one after the other, failing open, no aborts | a call verified with its own mandate passes exactly when it did what was authorized (`VerdictIsTrue`); implements `ToolGuard`; `count` and `blocked` are those of the session's calls, whatever still waits of the last session, until such a call is blocked (`MetricsCountSession`); mandates drain; every call is done with |
| `python_runtime` | 2 calls, 3 tools, `register` up to twice, failing open, either backend | implements `ToolGuard`; nothing gets past the guard of a registered tool |
| `control_plane` | 2 syncs at a time, any number in all, 2 versions of each document, sequential or overlapping | nothing recorded is older than the start of its sync; sequential syncs never take versions back; a tracker not fed any more turns stale for good; every sync settles |
| `file_processor` | 2 `.json` files and another, one change by others, 2 runs | only what was granted is executed, inside the workspace, and the input only read (`ExecutedWasGranted`); no file is written twice in a run, also when answers are lost (`WritesOnce`); an undisturbed run is complete, whatever the last one left (`CleanRunIsComplete`). An assumption of the module, which TLC evaluates, compares `Aggregate` with `ReportOf` on every list of up to four records |
| `market_research` | 5 pages, 6 texts, URLs in 3 spellings, 1 change by others, 3 runs over one file | no act without a permission of the same run (`NoActWithoutPermission`); extraction from verified pages (`ExtractsFromVerified`); having read the file, the agent writes only if some URL of the run is not saved for good yet (`SavedIsNotNews`); a save has every lead of the run and every row read that no comma garbles, and no URL twice (`SavesMerge`); browser and tracer released; every run ends |

**Bounds.** Guarded calls share no state in `GuardedProvider`, so two calls
already show everything about their independence; what a call's own branches
can do does not depend on their number. In the breaker, thresholds of 2 are the
least for which "consecutive" means something (a run of outcomes can be broken),
and three callers let one settle late while another probes and a third fails;
`MaxRetries` of 1 and 2 covers first, middle and last attempt. `ResetTimeout` is
2 so that a failure can be recorded part of the way to the reset. `MaxTotal`
caps the metrics totals, and `outcomes` with them: 2 where they are observed, so that
an outcome not counted, counted twice or on the wrong side shows below the cap, 0 where they
are not. In the plugin, collisions,
stale objects and overtaking need two calls; two sessions are needed for one
to be left behind; `MaxNow = 1` gives both equal and different milliseconds.
Time stops at `MaxNow`, which only adds collisions. `Calls` are used once each, so
the models are finite; the runs of the adapter, the plugin and the integrator
therefore end, and deadlock is not checked there, nor for the control plane, whose
caller may stop syncing. It is checked for the breaker, which never stops.
`MaxRegisters = 2` gives every tool no, one or two layers and every way for the two
registrations to stop half way; the proof is for any number, and covers failing
closed, which the run does not. With two versions there is a newer and an older
one; two syncs suffice to overtake, and a name is reused as soon as both its
requests are over, so a leftover request of a rejected sync meets a later sync.

In `plugin_open` the two events name one file by different paths from one
directory, and two files from the other (`MCEvents`, `MCDirs`): both answers of the
verifier occur, and each for the wrong reason if the two hooks were confused. Time stands still
there (`MaxNow = 0`), so keys collide whenever they can; `plugin_safety` has the two milliseconds. In
the file processor two files are needed for the loops to go on after a refusal, a third
that is not `.json` to be passed over; their records make regions tie and merge
(`MCDocument`); one change can fall between any two reads; in the second run everything the
first left behind is met. In the research demo `TopN` is 2 instead of 3, so that two
posts fill a page; the pages are one with enough posts, the front page, the same with the
word "titleline" in its header, an empty one and a foreign one; titles and URLs with and
without a comma, one URL in three spellings, a URL met before and one not. A third
run reads what the second made of rows that were garbled or cut off by the first. A write that
fails is cut at the end of a row. `MaxChanges` and `MaxRuns` bound what others do and how often
the agents are started; both may stop, so deadlock is not checked there.

**Fairness.** Continuations run and timers fire, since the event loop is fair to
ready callbacks (`WF` on `Execute`, `Throw`, `Wake`, the hooks' continuations).
The authority client answers or times out (`ProviderConfig.timeoutMs`), so `Answer`
and `Settle` are weakly fair. Nothing is assumed about an audit exporter unless
the specification is called `FairExporterSpec`. In the plugin the exporter is
assumed to settle. Demand (`Enter`) is fair only in `BusySpec`, for
`RecoversFromOutage`: a breaker nobody asks stays open, since it leaves the open
state only inside `allowRequest`. `RecoversFromOutage` further needs a failure
threshold above 1 if the listener throws on closing: with 1, the closing success,
recorded again as a failure, reopens the circuit each time. The runs of
the runtime integrator and of the file processor check no liveness and assume no
fairness. In the research demo every await settles (`Agent` is weakly fair): page
loads and checks have their timers; that the language model answers, and the sidecar,
whose requests have no timer, is assumed. In `ControlPlaneSync` a request is answered or
times out. That a body which has begun to arrive ends is an assumption about the
network, since no timer covers it; nothing obliges the caller to sync.

## 4. Findings

* **Retries while open** (`circuit-breaker.ts:230`). "OPEN: [...] requests fail
  fast without calling sidecar" (line 6), yet in the retry loop a refusal by
  `allowRequest` only skips the backoff, and a caller waking from its backoff does
  not ask again. Without retries the property cannot be violated this way.
* **Throwing telemetry sink** (`provider.ts:204`). "authorization path must not
  fail on telemetry sink issues" (line 211) covers the exporter only. Failing
  open, a sink that throws while a denial is reported makes it an outage, and the
  denied tool runs. In the other direction an allowed call is refused.
Also seen, and not made a run:

* **Throwing state listener** (`circuit-breaker.ts:218`). `recordSuccess` runs
  inside the `try`: if the listener throws on closing, a success counts as a
  failure and, with retries left, `fn` is called again. The circuit then opens on
  fewer than the configured consecutive failures. TLC finds it when `"closed"` is
  added to `ListenerThrows` in `MCBreakerSafety.cfg`; the theorems `OpensOnEvidence`
  and `ClosesOnEvidence` hold without it.
* **Stale metrics** (`openclaw-plugin.ts:551`). A call refused after its session
  has ended puts its old object into the next session's map. `MetricsCountSession` excuses
  the tools this has happened to; TLC finds it, in `plugin_open`, when `\ stragglers` is taken
  out of the property.
* **Mandate keys collide** (`openclaw-plugin.ts:542`). The key of a pending mandate
  is the tool's name and `Date.now()`. Of two calls of one tool allowed in the same
  millisecond the first to finish is verified with the second's mandate, the second with
  none, where the documentation of `enablePostVerification` says "Verify execution matched
  authorization" (`README.md:353`). TLC finds it when the invariant `EveryMandateVerified` is
  added to `MCPluginSafety.cfg`.
* **Hung exporter** (`provider.ts:209`). The export "should never block the
  authorization path" (`docs/SLO_THRESHOLDS.md:97`) but is awaited without a timeout. TLC
  finds it when `MCToolAdapterOpen.cfg` is run with `FairSpec` in the place of
  `FairExporterSpec`, as a violation of `EveryToolSettles`.
* **Lost leads** (`market-research-agent.ts:876` and `:897`). A refusal to read whose text
  contains "not found", and any error of reading the file, count as a first run: the file is
  then overwritten with the new leads alone, where lines 863 to 865 say "FAIL CLOSED" and line
  947 that new leads are merged with existing ones. TLC finds it when `loaded.read =>` is taken out
  of `SavesMerge`.
* **Commas in titles and URLs** (`market-research-agent.ts:911`). Both are quoted when written
  and split at every comma when read: such a lead comes back with half a title, or half a URL,
  for its URL, is taken for new by every run, and the garbled row is kept beside it.
  `SavedIsNotNews` and `SavesMerge` excuse what a comma garbles, and no more: TLC finds the
  lead that is written again when `SavedNow` counts every lead as saved.
* **Title lines** (`predicate-runtime.ts:178`). The selector "titleline" is neither a class
  nor an id to `element_exists`, which then looks for the word in the text, name and class of
  every element: a page that has it in its text is taken to have more posts than it does.
  `ExtractsFromVerified` is about the other pages; `market_research` has such a page.
* A denial with status 403 is an outage to `authorize` of the research demo's client: with
  `failClosed: false` it becomes a permission (`predicate-sidecar-client.ts:112`). The agent sets `true`.
* The file processor goes on after a refused read or write: an incomplete report replaces a
  complete one, and files count as archived that are not (`file-processor-agent.ts:582`, `:632`).
* For a tool the plugin does not know, the parameters `path` and `target` are looked at only
  when the file path is the empty string (`openclaw-plugin.ts:170`).
* Half-open limits nothing although the comment at `circuit-breaker.ts:88` says
  "limited".
* Failures of calls begun before the circuit opened push recovery back
  (`OPERATIONAL_RUNBOOK.md:69` promises it after `resetTimeoutMs`).
* With overlapping sessions a request carries the session started last.
* An aborted tool leaves its mandate in the map for the life of the process.
* Overlapping syncs take reported versions back: the one that ends last wins,
  whichever began first (`control-plane-sync.ts:107`). `NeverGoesBack` is therefore
  about sequential syncs.
* Registering twice asks the authority twice for each call (`runtime-integration.ts:34`).

## 5. Proofs

`GuardedProviderProofs` holds the lemmas about one guarded call that the adapter's and the
plugin's proofs share. Its invariant `ProviderInv` has three parts per call: `CallInv`
(where the call is, what was answered, how `authorize` ends), `TrailInv` (the last event the
sink was told fits the exit) and `EventInv` (with a sink that never throws, one event, the
right one). The properties are not inductive by themselves because they speak of calls
that have settled, while what decides them happens earlier, before the exporter's
await: these carry it across. `EmitForm`, `SinkThrowsForm`, `EmitErrorForm`,
`EmitDecisionForm` and `AnswerForm` say once, for all actions, what an emission can leave
behind; `OthersUnchanged` that a call's step leaves the others alone; `VerdictOnce` that
the authority's answer to a call is final.

`ToolAdapterProofs` (any set of calls, any configuration, any sink) adds that the tool
moves only after the guard has settled:

* `TypeCorrect` and `NothingGrantedSilently`: no assumption beyond `ProviderAssumption`.
* `EventsFaithful`: with a sink that never throws.
* `OnlyPermittedCallsRun`: assuming `FailClosed`, or a sink that never throws. The
  run `adapter_throwing_open` shows the assumption is needed.
* `DenialsStand`: under the same assumption, the property that run checks.
* `AdapterKeepsPromise`: with a sink that never throws, `Spec` implements
  `ToolGuard!Spec`; every step maps to a step or a stutter.

`SecureClawPluginProofs` (any calls, events, sessions, directories; any behaviour of the
host that the constants allow):

* `TypeCorrect`, `PendingAreOwed`, `OwnMandateVerified`, `VerdictsAreTrue`: no assumption
  beyond those on the constants.
* `HooksKeepPromise`: with a sink that never throws, which the plugin's own does not.
* `MetricsAreCounts` (`MetricsCountSession`): for finitely many calls and a host that starts
  no session before the last has ended (`HostSessions = "sequential"`), at whatever moment, with
  any calls still waiting. The findings say what the property excuses and why.

The inductive invariant is `TypeOK`, `ProviderInv`, and per call `StageInv` (the host's
pipeline and the guard agree), `ReportInv` (while directories stay put, what the tool
touched is what the hook will report) and `KeyInv`, and per key `OwedInv`. `KeyInv` is the
heart: for a call that has a key, its own mandate waits under it, or was what it was verified
with, or another call has the same key. `PendingIsOwed` and `VerifiesOwnMandate` speak of a
mandate and of a call; neither says what happens to a mandate between the two hooks while
other calls come and go, which is what `KeyInv` adds. A step that changes one call leaves
the invariant of the others to `BystandersKept`; only `Allow` and `AfterToolCall` touch the
map, and `OtherKeyKept` and `OtherOwedKept` say why the other entries survive.

The metrics have an invariant of their own over `TypeOK`. `SessionInv`: the session that is
open is the current one. `ObjectInv`: the object in the map under a tool belongs to a call of
that tool which has begun, an object of a call that has not begun is blank, and a call that
awaits its decision holds an object of its tool, which is the very one in the map if the call is of
the current session and no straggler has put another there. `CountInv` is the property,
tool by tool. Without `ObjectInv` a refusal could be counted on an object the map has lost.

`CircuitBreakerProofs` (any callers, thresholds, retries, and listener):

* `TypeCorrect` and `CountersAlwaysAgree`. Each method is shown to take good
  fields to good fields (`AllowRequestGood`, `RecordSuccessGood`,
  `RecordFailureGood`, `ResetGood`), so any chain of them does, also one cut
  short by an exception (`CatchFailureGood`). The strengthening `RetriesLeft` says
  that a sleeping caller has a retry left, without which the attempt counter would
  leave its type on waking.

* `OpensOnEvidence` and `ClosesOnEvidence`: assuming the listener does not throw on
  closing. `EvidenceInv` adds to `IInv` that the counter in use is backed by
  outcomes: in a closed circuit `failureCount` is at most the length of the current
  run of failures, in a half-open one `successCount` at most that of successes.
  The actions alone say only that the counter reached its threshold.

* `OutcomesCountedOnce` (`CountedOnce`): assuming the listener does not throw on closing.
  The totals equal `outcomes`, which counts what `fn` did where it did it. What a method adds to
  the totals is read off the composition of an attempt's calls: one outcome, on its own side
  (`CountedStep`, over `EvidenceInv`); a listener that throws on closing would have a success
  recorded again as a failure.
* `NoCallWhileOpenWithoutRetries` (`NoCallWhileOpen`): assuming `MaxRetries = 0`. The run
  `breaker_retry_while_open` shows that one retry is enough to break it.

`RuntimeIntegratorProofs` (any calls, any number of registrations, either backend,
failing open or closed):

* `TypeCorrect`, `NothingBypasses` and `HandlersKeepPromise`: no assumption beyond the
  types of the constants.

The inductive invariant adds to `TypeOK`: `Progress` (a call that is asking has fewer
answers than layers and all of them permit it; one that was granted has as many;
one that was refused was not allowed by all), `Guarded` (once `register` has
returned, every tool has a layer: `NoBypass` is about a step, and this is what its
first state must satisfy) and `Layered`, which bounds layers by registrations.
`GrantsFacts` is the heart of the matter: over all responses, the guard lets pass only
verdicts that permit, and all that allow.

`ControlPlaneSyncProofs` (any syncs, any `StaleAfter`, any number of versions):

* `TypeCorrect`, `RecordsAreFresh` (`NotOlderThanStart`) and `VersionsNeverGoBack`
  (`NeverGoesBack`): no assumption beyond the types of the constants.

`PullInv` says that what a pull has fetched lies between what was published when its sync
began and what is published now. `SequentialInv` says that without overlap at most one sync
can still succeed, and that nothing newer than its beginning has been recorded: a leftover
request of a rejected sync cannot break it, since it records nothing. `LatestInv` is what the
next sync needs when it starts.

`FileProcessorProofs` (any files, contents, answers, changes and number of runs):

* `OnlyGrantedIsExecuted`: `GrantInv` adds that a call about to execute holds the mandate
  for that very request, and is not one of `demonstrateDenial`.
* `TypeCorrect`: `ListInv` (inside a loop `at` is at a `.json` name, and a listing names
  no file twice), `ContentsInv` (what is read, held and archived under a name is what that
  file may hold), `LogInv`, `CountsInv`.
* `NothingIsWrittenTwice` (`WritesOnce`): `WrittenInv` adds which paths can have been written
  when the loop is at a given position. That positions do not repeat is not enough: names must
  not either, which `ListInv` gives.
* `CleanRunArchives`: `CleanInv` says that, as long as nothing was refused or has changed, the
  listing is the directory and each answer the content of its file, and `ArchivedSoFar` that
  the files the loop has passed are in the archive and in `archivedFiles`, and no others.
* `CleanRunCompletes` (`CleanRunIsComplete`): `GatherInv` adds that `allRecords` is what was read
  of the files passed so far, in some order, and that the written report is its aggregation.
* `AggregationIsReport`: of every list of records, `Aggregate` is the report: the sum over a
  finite set does not depend on the order in which its elements are taken (`SumsTake`,
  `SumsAgree`), the sum over all records is the sum over regions of the sums within
  (`SumRegrouped`), and the list `Aggregate` chooses exists, since the summaries can be ranked
  (`SortingExists`).

`MarketResearchProofs` (any texts, pages, rows, answers, changes and number of runs):

* `ActsArePermitted`: `PermitInv` adds that a call about to act was permitted to;
  `AllowedByPolicy` says that neither of the client's calls takes anything but the policy's
  answer for a permission, given that the agent constructs the client with `failClosed`.
* `ResourcesAreReleased`: `ResourceInv` says what browser and tracer hold at each call, in
  step 8 and in the `catch`.
* `TypeCorrect`, with `ResourceInv`: no client is used that is not there.
* `ExtractionIsVerified` (`ExtractsFromVerified`): `SnapshotInv` says that what was snapshot
  is the page, as long as it has not changed; `TitleLines` that the elements counted by the
  predicate are no more than the posts, unless the page has the word "titleline" in its text.
* `SavedLeadsAreNotNews` (`SavedIsNotNews`): `NewsInv` says that the file has, for every URL in
  `saved`, a row with that URL and no comma (`Keeps`), and carries from the read to the write
  what was read and that something in the run's leads is not in it. `SaveKeeps` says that a
  save keeps what was kept in the rows read, `ParsedFacts` that a row without a comma reads
  back as it was written, `MergeFacts` that `Merge` has every URL of both lists once, the
  run's version first.
* `SavesMergeLeads` (`SavesMerge`): from `MergeFacts`, `ParsedFacts` and what `NewsInv` says of
  the rows read.

The library's induction theorems take an operator as a parameter. What a fold or a recursive
function computes is proved by induction on a set instead: `Smallest` is the least element of
a nonempty set of naturals, from `WFMin` and `NatLessThanWellFounded`; `Induction` says that a
set with 0 and successors holds all naturals; `SetInduction` the same of the subsets of a
finite set. The theorem to be shown is then the definition of that set.

Only model-checked: liveness, which is beyond this prover: `EveryToolSettles`,
`EveryCallEnds`, `RecoversFromOutage`, `MandatesDrain`, `EveryCallCompletes`, `GoesStale`,
`EverySyncSettles`, and `RunEnds` of the research demo. Every other property of the
runs that pass is a theorem.

## 6. Not modelled

* The authority client's own timeout and retries (an external library): its
  promise is fulfilled with a decision or rejected, at any time.
* Redaction of resources and arguments, labels of events, log texts, the hash of a tool's
  result in the execution evidence: they change neither what is asked nor what is decided.
* An authority client other than the default one: one that rejects with the provider's own
  `ActionDeniedError` (`provider.ts:110` rethrows it without an event), or has no `verify`
  (`provider.ts:180` then reports every mandate as verified).
* The comparison inside `verify` is the authority's; it is taken to compare the reported
  action and resource with the authorized ones.
* The duration of backoffs (jitter, exponential growth): a sleeping caller wakes at
  any time, which covers every duration.
* A clock that is set back: an open circuit then stays open for longer.
* Sync cursors, the contents of policies and revocations, and the comparison with a
  pinned version.
* The action and resource derived from a Python tool's arguments.
* Web and non-web evidence: pure conversions of a snapshot, without state or branches that
  a property here depends on. The command line prints the result of one call.
* Of the demos: the choice of a language model and its texts, trace events, screenshots,
  ranks and points of leads; line breaks, quotes and blanks at the ends of titles and URLs,
  which the file loses or breaks at as it does at commas; a write of the leads file that stops
  inside a row; products and dates of sales records, records that are `null`
  (the aggregation throws on them), amounts that are not integers (sums of floating-point
  numbers depend on their order). The integration, Kiro re-enactment and plugin smoke demos
  are scripted walks through the library with fixed inputs.

## 7. Plan

Order of work, most important behaviour first; all but the last two are done:

1. `ToolGuard`, `GuardedProvider`, `ToolAdapter`, with their proofs.
2. `CircuitBreaker`, with its proofs.
3. `SecureClawPlugin` over `GuardedProvider` and `ToolRequest`, with its proofs.
4. `ControlPlaneSync`, with its proofs.
5. `PythonProvider` and `RuntimeIntegrator`, with their proofs.
6. `SalesReport` and `FileProcessorAgent`; `PredicateRuntime`, `PredicateSidecarClient` and
   `MarketResearchAgent`, with their proofs.
7. The TypeScript integrator composed with `GuardedProvider` in the place of the
   Python guard: telemetry and exporter in every layer of a wrapped handler.
8. Redaction as pure operators, checked against a reference definition over bounded
   inputs (no sensitive path leaves unredacted); evidence conversions.

Theorems to come: that the wrapped handlers of item 7 keep the promise of `ToolGuard` through
any number of layers; that no sensitive path leaves the redaction of item 8.
