# A verification project for the compliance middleware (`aimw`)

`aimw` sits between an AI agent and its tools. Every tool call the agent proposes goes
through one method, `ToolCallInterceptor.handle`, which asks a circuit breaker, a policy
engine and, where the policy says so, a human, then runs the call in a sandbox and writes one
record into a hash-chained audit log. The modules here model these parts from the code under
`src/src/aimw/`, TLC checks them on small instances, and TLAPS proves the properties that
matter most for every value of the constants.

Run everything from this directory: `tlc -config X.cfg M` for the runs listed in
`PROJECT.json`, `tlapm M.tla` for the eight modules with theorems.

## 1. The system's parts

| Part (source) | State it keeps | Operations | What makes it correct |
|---|---|---|---|
| **Interceptor** (`interceptor.py`) | none of its own; each call of `handle` has a local `decision` | `handle`: check the breaker, decide with a time limit, resolve the requirements, execute, record the outcome, audit in `finally` | a tool runs only if it was really cleared; every way out of `handle` leaves exactly one true record; nothing but a human, or a tool that ignores its cancellation, can hold a call up |
| **Circuit breaker** (`reliability/circuit_breaker.py`) | per key `"agent:tool"`: recent outcomes and the time of the trip, in dictionaries (L1) or in Redis (L2) | `check`, `record_result`, `score` | lazy pruning and lazy closing never change an answer; pairs do not influence each other; a trip lasts one cooldown and rests on fresh evidence |
| **Audit log** (`audit/worm_log.py`, `audit/siem.py`) | a JSONL file; each logger caches the hash of the last record | open, `append`/`log_call`, `verify_chain`, forwarding to sinks | `verify_chain` accepts what was logged and finds what was changed; restarts, dying processes and full disks lose nothing silently, a machine that stops only what was not yet on disk; file and sinks agree |
| **Static policy engine** (`policy/static_engine.py`, `policy/rules.py`) | a rule set read once | `evaluate_tool_call` | the layers of the decision, in order |
| **Database policy engine** (`policy/db_engine.py`, `policy/db_rules.py`) | the tables of a rule store that other connections change at any time | `evaluate_tool_call`: up to eight SELECTs without a transaction | decides as the static engine on equal rules; a rule that refuses throughout is never missed |
| **Tool registries** (`registry/`) | the rule set or the rule store | `get_permitted_tools`: one SELECT for the names, up to four for each tool | a context is shown what the engine would let it use, and nothing that is hidden throughout |
| **Gateway** (`gateway/shim.py`) | a counter per agent | `handle_inbound`: identity, quota, masking | only a request that authenticates is charged, to its own agent, once |
| **Identity verifiers** (`identity/`) | a shared secret, or a list of tokens | `issue`, `verify` | a token verifies for its own session and agent, until it expires |
| **Guardrails** (`guardrails/`), **DLP** (`audit/dlp.py`) | none | `inspect_input`, `inspect_output`, `classify` | nothing acts on a prompt that a layer rejects; what is let through is masked |
| **Approval queue** (`hitl/approval.py`) | decisions by `call_id`, the requests shown so far | `set_decision`, `__call__` | answers as it was told for that `call_id`; nothing is consumed |
| **Sandboxes** (`sandbox/`) | the child process, the container or the tool's task | `execute` | ends within its timeout, reports success of nothing else, leaves nothing running unnoticed |
| **Pipeline** (`pipeline.py`) | none | `run`: gateway, guardrail, model, `handle` per proposed call, guardrail | one call at a time, in order; results agree with the trail |

How they interact: the pipeline calls gateway, guardrail and interceptor in turn. The
interceptor calls the breaker, the policy engine (under `asyncio.wait_for`), the approval
callback, the sandbox and the audit logger. Calls of `handle` run concurrently on one event
loop and share the breaker and the log. Separate processes share the Redis keys and the rule
store, and may share the log file.

Where it is hard: the awaits of `handle`, at each of which other calls run, time passes and a
task may be cancelled; a breaker whose in-memory backend relies on the order of a deque and whose
Redis backend spreads one check over four commands and one record over three; a log that must
survive restarts, half-written lines and records that never reached the disk; an evaluation that
reads tables other people are changing; a child process whose exit, time-out and cancellation
race; a loop over calls of which one may raise after others have run. `PROJECT.json` lists these
hazards by line, with the properties aimed at them.

## 2. Modules and how they correspond to the code

**Interceptor.** One action per await that can suspend. `Check` is everything from the entry
of `handle` to the await of the policy decision (the in-memory breaker never suspends);
`PolicyAnswers`/`PolicyFails` go on to the approval, the sandbox or the refusal;
`ApprovalAnswers`/`ApprovalRaises` and `SandboxAnswers`/`RecordRaises` likewise; `Cancel` is
a `CancelledError` at any of the three awaits, which only `finally` sees. Each action
includes `_audit_and_wrap` where the code reaches it. `pc` is the await a call is suspended
at, `decision` the local variable, `trail` the log, `breaker` the backend's state by key. The
policy engine, the human and the sandbox are the environment: they may answer anything the
data types allow. `policySaid`, `humanSaid` and `ran` are history: what really happened,
against which the trail is compared. `Stubborn` are the calls whose tool runs in process and
ignores its cancellation. `Faults` switches on what is outside `handle`: a breaker
backend that raises, cancellation, an audit write that fails.
*GovernedCall* is what all this promises: a call is refused or runs once, with its outcome,
and ends, by returning or by raising, in the step that writes its one record. `MayLose` names
the stages from which it may instead raise without a record; `Interceptor!Abstract` sets it to
none, to those before the run if the breaker may raise, to both if the disk may fail.

**Pipeline** composes GovernedCall with everything before and after it. `Arrives` is `run` up to
the first `handle`: authentication, quota, masking, guardrail, the proposed calls; up to there
the coroutines never suspend, so it is one step. `CallStarts` and `CallEnds` are steps of
GovernedCall for the call the loop is at, together with what the loop does next and with what the
approval queue is asked. `counts` is the gateway's counter, `decisions` and `received` are the
queue's, `results` and `reply` what the caller will be given. A result is taken from the record
of its call, as `_audit_and_wrap` makes both of the same values; that the two are equal is so by
construction, and what is checked here is their order and number.
`set_decision` may change an answer between any two steps. FakeLLMClient's script may be changed
by its owner at any time, so what it proposes is any member of `Scripts`. `presented` is history:
whether the token was good, said without reference to its text. Only tokens that were issued are
presented, so the comparison of signatures decides nothing here; forged tokens are the HMAC's
concern.
**SessionToken** is the token as a text, put together and split at its dots, because ids may
contain dots; words and signatures are atoms and an HMAC depends on all of its message.
**Guardrails** keeps of a text its tokens, the kinds of personal data and the injection markers
found in it; `mask`, `_jaccard` and `semantic_injection_score` are operators on these, with the
threshold as an exact fraction. `IsContext` and `IsInspectable` say what shape such a context and
such a text have; `PipelineAssumption` asks it of the instance.

**Sandbox** has executions of both kinds. For `DockerSandbox` the command line (`alive`,
`returncode`), the container (`work`) and the awaiting coroutine (`stage`) move independently:
the daemon starts and ends the container, the command line exits, the limit expires, the task
is cancelled. For `SubprocessSandbox` the tool is a task that is cancelled and waited for; a
tool in `Stubborn` need not stop.

**InMemoryBackend** holds the state of one key and each coroutine as an operator on it; none
suspends, so each is atomic. Timestamps are only compared with the present, so the model
keeps ages, and an age stops growing where no comparison can tell it from an older one.
**CircuitBreaker** is the facade over it; names are sequences of atoms, so that the string
key built by `key_for` is modelled as what it is. **BreakerContract** is the abstract
specification: for each pair a histogram of outcomes by age and the cooldown left, with no
deque, no pruning and no keys; `Total` adds the histogram up inside the window. `Recent` and
`Circuit` in CircuitBreaker are the refinement mapping: what the deque holds, counted
(`Histogram`), and the `CooldownLeft`. The interceptor uses the same `InMemoryBackend`.

**RedisBreaker** is the other backend for one key and several client processes. Each Redis
command is an action. `events` is the sorted set as a histogram by age (`Members` are the
members it stands for, `Count` their number), `lifetime` and
`tripped` the remaining lives of the two keys. `lag` counts how long a client has been
waiting, so that a cutoff computed before the command was sent may be `late` by up to as
much. A client may crash between any two commands. The reply of TTL is in whole seconds,
rounded, so in a key's last tick a check may find it gone or not.

**AuditLog.** `file` is the sequence of lines, `terminated` whether the last one has its
newline, `prev_hash` each logger's cache. A record's content is a model value; a digest is
the sequence of contents hashed into it, which is what SHA-256 without collisions amounts to.
`log_call` is the append up to the sinks: the write and the cache. Then comes one
`forward_best_effort` for each sink, which may raise; `sending` holds the record and the sinks
still to be tried, and between two of them another process may write or this one may end
(`Crash`). Sinks may be tried in any order, which is more than the code does.
`log_call_torn` is the write that ends early, on a full disk (the logger lives on, with its old
cache) or because the process died within it. `PowerFails` is the machine stopping. `append`
never calls `fsync`, so records whose `append` has returned may be lost with it: what survives is
any beginning of the file, whose last line may be whole, cut, or without its newline. That a
beginning survives supposes a file system that keeps the order of appends to one file.
`EditLine` and `RemoveLine` are changes made behind the logger's back. `appended`, `lost` (taken by
a stop of the machine) and `missed` (a sink that raised or was not reached) are history.

**PolicyRules** is the static engine as an operator, `StaticDecision`, on a rule set and a
question (the parts of context and request a rule can tell apart). **DbPolicyEngine** is the
database engine: `pc` is the layer whose SELECT comes next, `CheckLayer` executes it on the
rows as they are then, `Decide` is the last one, `Raise` the exception any of them may end
in. `Update` is a commit of another connection, between any two SELECTs, and `seed_example`
one of the commits of that function when it is run on a live store. `held`
is history: one fact, chosen at the start, that is watched for having held at every moment
since: a layer refuses, the function is not free of approval, or no row has changed.
**Registry** extends it with the listing of the database registry, SELECT by SELECT, on the
same store and against the same watched fact; `StaticManifests` in PolicyRules is the static
registry. A behaviour is either an evaluation or a listing: both only read.

**Proof modules**: *InterceptorProofs*, *AuditLogProofs*, *InMemoryBackendProofs* (lemmas on
the operators), *CircuitBreakerProofs*, *RedisBreakerProofs*, *PolicyProofs* (database engine
and registry), *SandboxProofs*, *PipelineProofs*.

Definitions whose name starts with `Mut` are faulty variants of the definition that follows
them. None is used by a specification. Substituting one for the original makes TLC refute the
property `PROJECT.json` pairs it with, which shows that the property constrains the code.

## 3. What is checked

| Run | Instance | Shows |
|---|---|---|
| `governed_calls` | 3 calls of one agent and tool, one of them stubborn; breaker raises, cancellation, disk fails | `CallsAreGoverned` (refinement of GovernedCall), `FailClosed`, `ReturnedIsAudited`, `TrailTruthful`, `OpenCircuitDrains`, `LeavesUnlessHeld`, `TypeOK` |
| `pipeline` | 4 requests of 2 agents, quota 1, scripts of 0 and 2 calls, one of them gated, the other stubborn, 2 ticks to the second | `TokensAdmitTheirOwners`, `QuotaIsExact`, `OnlyCleanPromptsAct`, `OneCallAtATime`, `ResultsAreInTheTrail`, `RequestsEnd`, `TypeOK` |
| `sandbox` | 1 container, 2 tools in process, one of them stubborn | `SuccessIsReal`, `NothingRunsUnnoticed`, `NeverHangs`, `TypeOK` |
| `breaker_pairs` | 2 agents, one tool, window 1, cooldown 2, 2 outcomes per key | `PairsKeepContract` (refinement of BreakerContract), `OldestFirst`, `DeniedPairFailed`, `TrippedCloses`, `TypeOK` |
| `redis_races` | 2 clients, delays up to 1 tick, crashes, window 3, cooldown 2, 2 members, of which one failure is enough to trip | `TripHasFreshEvidence`, `NotLockedOut`, `TypeOK` |
| `audit_edited` | 2 loggers in turn, 4 records, 1 sink, edits and removals | `VerdictExact`, `SinksMatchLog`, `DamageIsPermanent` |
| `audit_torn` | 2 loggers at once, 3 records, 2 sinks, full disks, processes that die writing, stops of the machine | `ValidKeepsAppended`, `SinksMatchLog`, `EverySinkIsTried`, `TypeOK` |
| `policy_live` | every store over 1 tool, 1 function, 2 roles, 1 pattern, 1 gate; an evaluation or a listing | `ForbiddenThroughoutIsRefused`, `MirrorsStatic`, `HiddenThroughoutIsNotListed`, `SeesWhatItCanDo`, `ListsLikeStatic`, `TypeOK` |

Why the bounds are enough. Calls of `handle` meet only in the breaker's key and in the trail: one
call fails, the next trips the circuit and the third meets it open or is past the check already
when it trips. Calls of different keys do not interact. Requests of the pipeline meet in the
quota, the queue and the trail: two of one agent with a quota of one give the last that is served
and the first that is not, the other agent's is not affected, and the fourth has a dot in its
session id. Two calls to a script give one that raises before, and one after, another has run.
Half-second ticks give instants on and between the seconds of an expiry. Executions in the
sandboxes do not interact at all, so one of each kind is enough. In the breaker, a window of one
tick gives outcomes that are new, on the boundary and too old, and two outcomes per key give a
failure rate of 0, of exactly the threshold and of 1. In the log, four records give a first, a
last and two inner lines, so a line can be edited with another removed before or after it; three
give a record before and one behind a torn line, and two sinks one that raises before the other.
`DamageIsPermanent` is not claimed where the machine may stop: it may take the damaged end of the
file with it. Sinks are sent records in the order of the file only where one process at a time has
it, so it is `audit_edited` that checks this part of `SinksMatchLog`. Two Redis clients give every pair of commands in both orders, and a delay of one
tick moves a reading of the clock across the window. The window is longer than the cooldown, as
by default, so what tripped a circuit is still in the set when the cooldown ends, and trips it
again; a cooldown of two ticks has one in which the key cannot be read as gone. The rule store is
checked in every initial content; with one pattern and one gate each layer can refuse or not,
which is all the order of layers depends on. With one tool a listing still has every way of
skipping or showing it; a second only repeats the loop. The theorems of section 5 have no such
bounds.

`audit_torn` checks invariants only, and loggers, sinks and contents are told apart in it only by
being different, so it uses symmetry in all three. The other runs over interchangeable values
check temporal properties too, and use none.

A run with `CHECK_DEADLOCK FALSE` is one whose system may stop: an evaluation ends with its
decision, a request with its result, an execution with its answer, and a file with an
unreadable line is opened by no logger.

### Where documentation and code disagree

Each of these runs checks one statement made by the repository's documentation, comments or
tests, and TLC's counterexample shows what the code does instead.

| Run | Statement | What happens |
|---|---|---|
| `unaudited_exit` | "no tool call leaves this method unaudited" (`interceptor.py`, docstring) | the breaker is awaited before the `try`: if its backend raises, the call leaves `handle` with no record |
| `audit_torn_reopened` | a new logger instance continues the existing chain (`test_worm_log.py`) | when a stop of the machine has taken only the newline of a record, the file is opened without an error, and the next record makes the line unreadable |
| `policy_torn_read` | a function that needs approval is allowed only with it (`rules.py`), and rules may be changed live (`db_rules.py`) | the row is deleted, by a revocation or by `seed_example`, between two SELECTs of an evaluation; `requires_approval` answers no for a missing row |
| `redis_retrips` | the backends implement the same contract (`README.md`), by which a circuit closes with a fresh history | outcomes that tripped the circuit trip it again after the cooldown while they are inside the window, as with the default settings |

Also met while modelling, and not given a run: `key_for` does not escape its separator, so
two pairs whose names contain `":"` can share a key. The database engine never reads the
stored `identity_required_fields`; `MirrorsStatic` is checked and proved for the default
setting, and is false for others. `proc.kill()` ends the docker command line and not the
container, which may go on; `NothingRunsUnnoticed` says that it then goes on behind an answer
that admits the time-out. The gateway's `rate_limit_per_minute` is never reset; `QuotaIsExact`
states the limit for the life of the process, which is what the code implements. A token whose
session or agent id contains a dot verifies for nobody. The docstring of `static_registry.py`
(lines 6-9) says that the static registry "doesn't yet filter by context.roles/delegated_scopes
per-tool (the static ruleset has no per-role tool mapping)"; the code does: `_is_tool_visible`
compares `visible_to_roles` with the roles of the context (line 35), and only `delegated_scopes`
are ignored. `StaticManifests`, and with it `ListsLikeStatic`, follows the code, and a registry
as the docstring describes it is the faulty variant `MutStaticShowsAll`.

## 4. Fairness

Liveness is checked only under weak fairness that the code or its surroundings provide.

- *Interceptor*: `Check` (the event loop runs a started coroutine), `PolicyFails`
  (`asyncio.wait_for` ends the wait; no engine of the package ignores a cancellation), and the
  sandbox's answer for calls that are not in `Stubborn` (each sandbox has its own time limit, but
  the one in process only cancels the tool and waits for it, see *Sandbox*). There is no fairness
  on `ApprovalAnswers`: nothing makes a human answer, and the callback has no time limit.
  `LeavesUnlessHeld` therefore stops at the approval, and for a stubborn tool in the sandbox.
- *CircuitBreaker*: time passes and agents keep calling. A circuit closes only when it is
  checked, so without further calls it stays tripped, harmlessly.
- *RedisBreaker*: time passes, Redis answers, sandboxes end, agents keep calling.
  `NotLockedOut` in addition supposes that clients do not go on crashing for ever; a client
  that always dies in its check is never admitted.
- *Pipeline*: the one call that a request is at goes on: it is refused or begins, and ends once
  it runs, unless its tool is stubborn. This is `LeavesUnlessHeld` of Interceptor, with the
  in-memory queue, which answers at once. What `RequestsEnd` adds is the loop over the calls, of
  which any may raise, be refused or lose its record.
- *Sandbox*: timers fire, a killed child is collected, a tool that is not stubborn stops when
  it is cancelled. No container has to end and no command line has to exit; `NeverHangs` needs
  neither. For a stubborn tool nothing is claimed: `wait_for` waits for it for ever.

The in-memory `TrippedCloses` and the Redis `NotLockedOut` differ because the backends do:
in Redis an expired trip can be renewed at once by the old outcomes, so what is checked there
is that callers are admitted in the end.

## 5. What is proved

All theorems hold for every value of the constants that satisfies the named assumptions
(`BackendAssumption`, `InterceptorAssumption`, `AuditLogAssumption`, `RedisAssumption`,
`SandboxAssumption`, `SessionTokenAssumption`, `GuardrailsAssumption`, `PipelineAssumption` and
the rule store's), so for any number of calls, loggers, keys, records, clients, executions,
requests and rules. A theorem that needs more says so in its ASSUME, given below. Every
invariant that a passing run checks is stated by a theorem, and so is every
action property and refinement; what is left to TLC is liveness, and one invariant in the
presence of edits.

**Interceptor.** `TypeCorrect`, `AlwaysFailClosed`, `TrailIsTruthful`, `ReturnedAreAudited`
under all faults; `EveryExitIsAudited` if no fault but cancellation occurs (with the others it
is false, see `unaudited_exit`; no passing run checks it, the proof stands for itself). None of
the properties is inductive: `FailClosed` speaks of calls that ran, while the reason is what the
call had obtained before. The invariant adds `StageInv`, which relates the await a call is at
with its local `decision` and with what the policy and the human said, and `TrailInv`, which
relates records to calls that have left.
`CircuitsDrain` proves the action property `OpenCircuitDrains`; it needs that without a
breaker no circuit ever counts as tripped (`UnusedInv`).
`InterceptorImplements` is the refinement of GovernedCall, one lemma to each action: from the
invariant every step of `handle` is a step of the contract, under the mapping `Phase`, `Log`,
`Lossy`, or changes none of them.

**CircuitBreaker.** `TypeCorrect` and `DequesAreOrdered`, from lemmas by which each operation of
the backend keeps a deque ordered; it is what the loop of `_prune` relies on.
`DenialsAreEarned` supposes that no agent id contains `":"` and that the threshold is not zero.
Both are needed: without the first, two pairs may share a key (`KeysDiffer` proves that
otherwise they do not); with a threshold of zero, successes trip the circuit. `BlameInv` says
that a failure in the deque of a key, and a trip of it, belong to a pair that failed.
`BreakerKeepsContract` is the refinement of BreakerContract, for agent ids without `":"`. The
argument has three parts. Pruning removes only what lies outside the window, so it changes no
entry of the histogram (`PruneKeepsCounts`), a record adds one at age 0 (`RecordCounts`) and a
tick shifts the entries by one age (`ElapseCounts`). The contract's sum over the ages is the
number of outcomes that pruning keeps, which needs the order of the deque (`TotalCounts`,
`YoungIsPruned`, `WindowCounts`); so both sides trip on the same condition (`SameVerdict`). And an
operation on one key leaves the other pairs as they were (`OnePairChanges`).

**RedisBreaker.** `TypeCorrect`; `TripsAreFresh` proves the action property
`TripHasFreshEvidence` for a threshold that is not zero (a threshold of zero trips on successes
and has no failure behind it). The invariant follows the evidence through a check: a cell of the
sorted set with a failure in it bounds the age of the latest failure (`CellInv`), for a
client that has pruned and is about to read, a failure still in the set means a recent one
(`ReadInv`), and one that has decided to trip has that failure behind it, older by at most its
delay (`DecideInv`).

**AuditLog.** `TypeCorrect` under all faults. `VerdictIsExact` for one logger at a time and any
edits and removals. The verdict alone is not inductive, because an append behind an edited line
must not repair it; `ChainInv` says why it cannot. However the contents were edited, the hashes
of every line are still digests of prefixes of what was appended (`LineInv`), in strictly growing
length (`OrderInv`), the last line and the open logger carry the digest of everything appended
(`TipInv`, `LoggerInv`), and no content occurs twice (`FreshInv`). `RestartsKeepLogValid`, for no
faults, adds `IntactInv`: the file is what was appended, line by line.
`ValidLogKeepsAppended` holds for any number of loggers at once, full disks, dying processes and
stops of the machine, as long as nobody edits the file. `KeepInv` says that what was appended and
not lost is in the file whenever every line can be read, and in order, whether or not the hashes
form a chain: with several loggers they mostly do not.
`SinksAgreeWithLog` has the same hypothesis. `SinkInv` adds to `KeepInv` that what a sink was
sent had been appended and is sent once (`SentInv`), that a record in the act of being sent has
not been sent yet to the sinks that are left (`SendingInv`), and that with one logger at a time it
is the last one appended (`TurnInv`), from which the order follows. `SinksAreTried` holds under all
faults, edits included.
`DamageIsPermanent` has two theorems: `EditedDamageIsPermanent` (edits and removals, one logger at
a time, as in `audit_edited`), which rests on `ChainInv`, and `TornDamageIsPermanent` (no edits, no
stop of the machine, any number of loggers), because lines are only added; it has no run of its
own.

**Database engine and registry** (PolicyProofs). `RefusalsAreNotMissed` and
`MirrorsStaticEngine` (for the default identity setting; with another it is false). They cover
the commits of `seed_example`. The invariant says that what is watched still holds (`HeldInv`),
that a layer which has refused throughout therefore still lies ahead (`AheadInv`), that on
unchanged rows the layers behind would pass again (`PassedInv`), and that a decision made on them
is the one the layers give in order (`SettledInv`). `TypeCorrect`.
`HiddenIsNotListed`, `ListingAgreesWithEngine`, `ListsAsStaticRegistry` are the registry's. What
is listed at the end says nothing of the rows it was read from, so the invariant follows the
listing: while a refusal has stood throughout, the checks passed so far for the tool in question
cannot have included it (`HiddenInv`); while no row has changed, the manifests are those of the
tools already looked at (`FixedInv`). `ListingsOnlyRead` shows that the composition is a
behaviour of the engine alone, which carries the engine's theorems over.

**Sandbox.** `SuccessesAreReal`, `NothingIsLeftUnnoticed`, `TypeCorrect`. The invariant ties the
exit code of the command line to its container long before there is an answer (`DockerInv`), and
says that a tool in process runs while it is waited for and never behind an answer (`ToolInv`).

**Pipeline.** `TypeCorrect`, `CallsAreSequential` and `TrailHoldsTheResults` come from one
invariant. `LoopInv` is its core: how far the loop of a request has come, as the number of its
results, fixes the phase of every one of its calls. It is preserved together with
`ResultsAreInTheTrail`.
`QuotasAreExact`: only an arrival changes the counter or takes a request past the gateway, and
it adds one to both sides (`OnlyArrivalsPass`, `ArrivalIsCharged`).
`UncleanPromptsNeverAct`: `CleanInv` keeps what was heard clean while the calls are made. That a
prompt let through is not close to ANY intent, although the code compares only the best score,
is `BestIsBest`, with the order of fractions (`LessTransitive`) and the loop as a recursive
function (`BestScore`).
`TokensAreExact`: a token that was put together and split again has its own parts if and only if
neither id holds a dot (`SplitAtDots`, `TokenDots`, `PlainTokenSplits`, `DottedTokenFails`), and
rounding the expiry down to a second is exact (`ExpiryIsExact`).

Only model-checked: the liveness properties `LeavesUnlessHeld`, `RequestsEnd`, `NeverHangs`,
`TrippedCloses` and `NotLockedOut`, because fairness and ENABLED are out of the prover's reach;
`SinksMatchLog` where lines are edited (`audit_edited`); and the four statements that the code
does not keep, which are refuted and not proved. Where a definition is recursive (the sum of the
contract, the loop over the intents), the proofs go through the least place at which a claim
about its values could fail, since the induction theorems of the library cannot be applied.

## 6. What is left out

- Loading YAML rules; regular expressions (a pattern matches or does
  not); parameter names containing `=`; role gates with an empty list of roles in the static
  rule set, which the tables cannot represent; two roles that are told apart only by being
  inactive or absent.
- In the log: truncation of the end of the file by an edit, which the chain is not meant to
  detect; edits that recompute hashes or rewrite the whole file; an edit that leaves a line which
  does not parse, at which `verify_chain` raises (`worm_log.py:65`) instead of naming it; a stop of
  the machine that keeps other than a beginning of the file; collisions of SHA-256.
- An answer of the policy engine that comes after `wait_for` has given up: the engine is cancelled
  by then and its answer dropped. Tokens that were never issued.
- The approval queue keeps its decisions, so a `call_id` that is proposed again inherits an
  earlier approval. This is in the model and no property excludes it.
- `min_samples = 0`, which the breaker accepts and then divides by.
- The static bearer list (one membership test, no state) and the DLP classifier (a maximum over
  pattern matches, called by nothing in the package); `_extra_docker_flags` and the other
  arguments of `docker run`; which implementation is registered for a tool.
- Which calls a language model proposes: `FakeLLMClient` repeats a script, so any of a set of
  scripts is proposed, whatever the prompt.
- The demo programs under `src/examples/`, which only call what is modelled.

## 7. Plan

Done: every part listed above modelled; every invariant, action property and refinement that a
passing run checks proved, except for the sinks of an edited log.

Next:

1. The composition: Pipeline uses GovernedCall, which Interceptor implements; the two
   instances are tied by name only (calls of the pipeline are `<<request, place>>`).
2. Simpler proofs: steps that several actions of AuditLog and Pipeline repeat as common lemmas.
3. `EveryExitIsAudited`, `RestartsKeepLogValid` and `TornDamageIsPermanent` have no run of their
   own; a run for each if the model grows further faults.
4. `SinksMatchLog` for an edited log, from `ChainInv`.
