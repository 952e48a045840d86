# Verification of the actor framework

TLA+ models of the code of *Emergent Hardware Verification*: an actor
framework written three times (SystemVerilog, C++ threads and coroutines,
SystemC), the services built on it, the proof engines and solvers in Python and
SystemVerilog, and the hardware designs that go with them. The models are
checked with TLC on small instances; theorems about the core are proved with
TLAPS for every instance.

Contents: [the system](#the-system), [the models](#the-models),
[runs](#runs), [proofs](#proofs), [what the models found](#what-the-models-found),
[limits](#limits), [plan](#plan).

## The system

### The framework in SystemVerilog, `src/actor_pkg`

**Kernel** (`actor_pkg.sv`). An `Actor` object has a mailbox `mbox` (unbounded
or of a given capacity), a flag `is_alive`, a generation `run_gen`, a process
handle `p_run` and a table of subscribers by message type. `start()` forks a
process that begins only when the simulator gets to it; it becomes the run loop
(`mbox.get()`, `act()`) if the generation is still the one it was forked for.
`stop()` clears `is_alive`, bumps the generation and kills the process `p_run`
names. `publish()` offers a message to every live subscriber with `try_put()`;
`try_publish()` does the same and returns one bit; `` `PUBLISH_TO `` writes
straight into a mailbox. Actors interact only through mailboxes, and through
the owner's `start()` and `stop()`.
*Hard:* `start()`, `stop()` and forks that have not executed yet, in any order;
`stop()` from inside `act()`; full mailboxes.
*Correct when:* one run loop per actor, and one that can be killed; nothing runs
after `stop()`; per-producer order without duplicates; a started actor
eventually serves its mailbox.

**Supervision** (`actor_supervision_pkg.sv`). A `Supervisor` is an actor with a
list of children, a strategy, restart counts and window starts per child. A
child that fails puts a `ChildFailureMsg_s` into the supervisor's mailbox; the
supervisor restarts (`stop()`, drain, `start()`), stops, resumes or escalates,
and calls `$fatal` when the restart budget is spent. `DeathWatcher` and
`LinkRegistry` announce deaths to watchers.
*Hard:* stale reports, siblings restarted together, budget windows, supervisors
that are children, bounded supervisor mailboxes.
*Correct when:* a restarted child never sees mail of its former life, the
restart rate is bounded, `$fatal` is justified, a failed child comes back, a
child stopped for good stays down.

**Services.** `actor_lifecycle_pkg.sv`: registry, timers (forked delays with a
token table; cancel and stop race with the delay), dead letters, startup order.
`actor_patterns_pkg.sv`: ask with timeout (a reply racing the timeout), stash,
become, selective receive (deferred messages are put back).
`actor_routing_pkg.sv`: routers over the live routees, consistent hashing,
scatter and gather (waits for as many replies as there were routees).
`actor_persistence_pkg.sv`: recorder, replay, event sourcing (the log is closed
on termination, replay lasts a fixed time). `actor_distributed_pkg.sv`: bridges
with a batching outbox. `actor_verification_pkg.sv`: scoreboards that pair by
key in arrival order. `actor_observability_pkg.sv`, `actor_ral_pkg.sv`,
`actor_test_pkg.sv`: passive observers, register tables, test doubles.
*Correct when:* a cancelled timer delivers nothing, an answer belongs to its
question, deferred messages keep their order, a gather ends, replay precedes
live events, nothing accepted by a bridge is left behind, pairs match.

### The C++ ports, `src/actor_pkg_cpp`

**Threads** (`include/actor.h`). One thread per actor; a mailbox is a queue with
a mutex, a condition variable and a flag `running_`. `publish()` runs on the
sender's thread, reading `is_alive_` of each consumer and then calling
`try_put()`. The main thread starts, stops and destroys actors; the destructor
joins the thread.
*Hard:* lost wakeups, spurious wakeups, `stop()` against a thread about to wait,
destruction while handlers that were under way at `stop()` still publish.
*Correct when:* no thread waits beside a message; threads end only when
stopped, and then do end; no handler begins once objects are being destroyed.

**Coroutines** (`include/coro_actor.h`). An actor is a coroutine that awaits
its mailbox; a `Scheduler` keeps a queue of ready handles served by worker
threads. A handle waits in the mailbox, is taken out by a `put()`, queued by
`schedule()` and resumed by a worker.
*Hard:* a `put()` between the test and the suspension of an await, two `put()`s
that see one waiter, workers that miss a notification.
*Correct when:* a suspended handle is in exactly one place, a resumed coroutine
finds a message, mail is received, workers end on `stop()`.

### The SystemC port, `src/actor_pkg_systemc`

Cooperative actors on `sc_fifo`, a supervisor that restarts by flipping
`is_alive`, links and watchers, and ZeroMQ bridges with a polling thread.

### The proof engines, `src/ch3_fv_examples/01_proof_engines`

**SAT solver** (`cdcl.py`). Clauses watched by two literals each, a trail of
assigned literals with reasons and levels, learned clauses, backjumps, restarts,
assumptions. The engines use it incrementally: they add clauses between
queries, and ask under assumptions.
*Hard:* clauses that arrive when the trail still holds the last query, watches
moved in the middle of a propagation, assumptions undone by a backjump, the core
of the assumptions that failed.
*Correct when:* a model satisfies everything added and assumed; a refusal is true
and its core a core; propagation misses nothing; every call returns.

**Engines.** `prove.py` turns assumptions into a latch and escalates on one
transition system: one-step induction, `bmc.py`, `kinduction.py`, `ic3.py`,
`interp.py` (which widens a set of states by interpolants read off refutation
proofs), covers, and `liveness.py`, which turns a response property into the
safety of a lasso search. `--cegar` (`cegar.py`) runs IC3 on abstractions with registers cut free
and refines them with counterexamples that do not replay. IC3 keeps frames of
clauses, a heap of proof obligations, and pushes clauses between frames.
*Hard:* an obligation that could contain the reset state, literals dropped by
lifting and generalization, clauses ousted by subsumption while others are
pushed, depths that are guessed, spurious counterexamples, a proof that stops one
step early.
*Correct when:* the frames stay over-approximations, each verdict is true of the
design that was given, and the program comes to an answer.

**Frontends and the rest.** `frontend.py` and `word_frontend.py` turn text into
the transition system; `smt.py`, `word.py`, `memproof.py` and `sec.py` solve other theories, or transform formulas, on top of the solver.

### Designs and programs around the framework

| part | state and operations | correct when |
|---|---|---|
| chapter 2 RTL (`ch2_rtl_fv_examples`) | FIFO, arbiter, clock-domain handshake, pipelined ALU, MSI cache node, memory controller: clocked state machines | queue order, fairness and exclusion, no lost transfer, coherence, timing rules |
| SAT engines (appendix F, `04_sat_engine`) | domains, trail of snapshots, tried values, search FSM; learned nogoods in the CDCL engine | an emitted assignment is a solution, unsat means none, the search ends |
| synthesizable actors (appendix E) | ready/valid pipelines | no message lost or duplicated under back-pressure |
| actor simulator (appendix I) | delta cycles over signals that are actors | a time step ends, order of evaluation does not matter |
| UBus environment (appendix A) | master, slave, monitor and scoreboard actors | scoreboard agrees with the bus |
| SoC models (appendices B, C) | one actor per IP | per-IP rules |
| constraint compilers and samplers (appendix F), chapter 4 | text to hardware, proofs for other tools | outside the scope of a state model |
| appendices G and L | programs around external transports | outside the scope |

`PROJECT.json` lists every part under "components", modelled or not, and under
"hazards" what is hard to test, at its line.

## The models

| module | models | builds on |
|---|---|---|
| `ActorContract` | the promise all ports share: a mailbox of limited size served one message at a time, in order, across stop and restart | |
| `ActorProcess` | one SystemVerilog actor as operators on a record, one per uninterruptible piece of code | |
| `ActorKernel` | wired actors, their owners and publishers | `ActorProcess`, implements `ActorContract` |
| `ActorProcessProofs` | what each operator of `ActorProcess` keeps of a record | `ActorProcess` |
| `ActorKernelProofs` | theorems about `ActorKernel` | `ActorKernel`, `ActorProcessProofs` |
| `Supervision` | supervisors, their children and failure reports | `ActorProcess` |
| `SupervisionProofs` | theorems about `Supervision` | `Supervision`, `ActorProcessProofs` |
| `ThreadActor` | the C++ thread port | implements `ActorContract` |
| `ThreadActorProofs` | theorems about `ThreadActor` | `ThreadActor` |
| `CoroActor` | the C++ coroutine port | implements `ActorContract` |
| `CoroActorProofs` | theorems about `CoroActor` | `CoroActor` |
| `DpllSolver` | the search machine of `dpll_solver.sv`, for any propagation round | |
| `DpllRound` | the propagation round of `dpll_solver.sv` | |
| `DpllSolverProofs` | theorems about `DpllSolver` and `DpllRound` | `DpllSolver`, `DpllRound` |
| `Cdcl` | the CDCL solver of `cdcl.py` and its caller | |
| `CdclProofs` | theorems about `Cdcl` | `Cdcl` |
| `TransitionSystems` | what the engines work on: designs, the systems derived from them (assumption latch, abstraction, lasso), and what a verdict means | |
| `Ic3` | `ic3.py`, step by step, on any system | `TransitionSystems` |
| `Circuits` | the signals of `circuit.py` and their clauses | |
| `Interpolation` | `interp.py`: refutation proofs, interpolants, the widening | `Circuits`, `TransitionSystems` |
| `ProofEngines` | `prove.py`: the escalation and the CEGAR loop around `Ic3` | `Ic3`, `Interpolation` |
| `ProofEnginesProofs` | theorems about `Ic3` and `ProofEngines` | `ProofEngines` |
| `MC...` | instances for TLC (`MCDpllSolver` puts `DpllRound` into `DpllSolver`) | |

**Steps.** In SystemVerilog one process runs at a time up to its next
suspension, so a step is everything between two suspensions: functions never
suspend, `mbox.get()` and whatever `act()` waits for do, and a forked block
waits for its first turn. In C++ a step is a critical section, or one access to
shared data outside of one. A mutex is held across two steps only where it
matters: by a thread that has found the predicate of its wait false and has not
blocked yet (`"sleepy"`). `stop()` sets its flag and notifies without the
mutex, so its two halves are steps of their own.

**`ActorProcess`.** The record `[alive, gen, prun, mbox, pend, loops, hand]`:
the first four are fields of the object, `pend` the forks not executed yet,
`loops` the run loops blocked in `mbox.get()`, `hand` those inside `act()` with
their message. A run process is named by the generation its fork captured.
`Started`, `Stopped`, `ForkRun`, `Took`, `ActDone`, `Offered`, `Drained` are
`start()`, `stop()`, the body of the fork, `mbox.get()`, the return of `act()`,
`try_put()`, `drain_mbox()`. The faulty variants beside them (`..._NoDrain`,
`..._OffByOne`) are used by no specification: each shows that a property is
violated by a plausible slip.

**`ActorKernel`.** Variables: the records; `sent`, a counter per producer, which
numbers its messages; the histories `taken` and `lastTry`. An owner calls
`start()` on new or stopped actors only, as every caller in the repository does
(`MayStart`). `stop()` may come at any time, from inside `act()` too.

**`Supervision`.** Adds simulated time, per-child `count` and `windowStart`, and
the histories `charged` and `stopped`. `Handle(s)` is `mbox.get()` and the whole
of `act()` of a supervisor: the directive, and `do_restart()` with its strategy,
budget, drain and starts. Time passes only when no process can run. A worker
may fail in any `act()`; what `on_child_failure()` returns is chosen from a set
per child. Messages carry the generation of receiver and failed child when they
were sent; the code does not read these, the properties do.

**`ThreadActor`.** `pc` is the position of an actor's thread in `run_loop()` and
`get()`, `emit` the publish a thread is in the middle of (the remaining
consumers, and whether the first has been found alive), `main` the `stop()` or
destructor the main thread is in the middle of. The memory model is
sequentially consistent: the flags are atomics. Three loads of `is_alive_` are
relaxed. The loop condition of `run_loop()` (`actor.h:252`) is repeated with a
stronger one before `act()`; those of `publish_msg()` and `try_publish()` (198,
213) may find a consumer alive that has just been stopped, which the model has
too, since the put is a later step, and which only adds a message to a mailbox
nobody reads any more.
Main destroys actors as `log_pipeline.cpp` does (`Leaving`): it has stopped every
actor it started, has joined none, and its locals go in the reverse of the order
in which they are declared (`Declared`), so consumers go before their producers.
A handler that was under way at its `stop()` may then publish to an actor that is
gone. That is undefined behaviour: the model lets it read either value of
`is_alive_` and put or not (`Readings`, `PutAt`); a crash is another outcome, after
which nothing happens. Main publishes only while every object is whole.

**`CoroActor`.** `co` is where a coroutine is, `waiter` whether its mailbox holds
its handle, `ready` the scheduler's queue, `wk` and `cur` what each worker does
and holds. The body is the loop of the examples
(`while (alive()) { co_await recv(); ... }`). The scheduler is running when the
model begins; `StopsAll` lets main call `Scheduler::stop()`.

**`DpllSolver`.** An action is a clock edge in one state of the machine, named
for what it does. A bitset is a set of values; the arrays `sv`, `vat` and
`tried` up to `lvl` are the sequence `trail` of open levels, so `lvl` is one
less than its length while a level is worked on. The shift register, which
picks variables and values, is a free choice. The propagation round is the
parameter `Narrow`, of which `NarrowAssumption` states what the search relies
on: it adds no value, it removes none of a solution, and a full assignment on
which it changes nothing is a solution. `DpllRound` is the round of the code,
and TLC evaluates the assumption for it on every combination of domains of the
instances. `rst` may be raised at any time. The counters of samples, decisions,
backtracks and rounds are left out, as are the widths of `lvl`, `vat` and `fns`,
which hold up to eight variables.

**`Cdcl`.** A step is one visit of a clause, one literal taken, one decision, one
resolution of `_analyze()`, one clause learned. The state is that of the object: `clauses` with the watched
literals first, `watches`, the trail with its reasons, `limits`, `qhead`; `calls`
is what the caller has still to do, and `given` a history of the clauses as the
caller added them, which the properties read instead of the database.
Activities and saved phases only choose the next decision, and the count of
conflicts only times the restarts: any open literal may be decided, and any
conflict may be followed by a restart. In `VisitClause` the watch of a clause
moves to its first literal that is not false, as in the code; the order of the
literals of a learned clause is free behind the two the code places. Learned
clauses are never deleted by the code. `_analyze()` is its loop: `learnt` starts
as the literals of the falsified clause above the root, `ResolveLatest` replaces
the latest of the current level by those of its reason, and when one literal of
that level is left `LearnAndJump` records the clause, jumps back and perhaps
restarts. `conflict_core` is kept as a set; the variables `_assumption_core()`
walks to are the least set closed under reasons (`ReachedFrom`). The test for a level-0 literal in
`_analyze()` that follows a restart never fires and is not modelled.

**`TransitionSystems`, `Ic3`.** A design is a record of functions of a state and
an input (`IsDesign` names its fields), and a state is the set of literals it makes true, so that a cube holds
in a state when it is a subset of it. A SAT query of an engine is told by its
answer over all states, with any witness (`Cdcl` is the solver's own model).
`Lifts` is ternary lifting: any non-empty part of the witness that still forces
the target, of which the code returns the one its gates and its order of
literals give. `queue` is the heap of obligations, a bag since the code may hold
one twice; among those of the lowest level any may come first. `TryLiteral`
tries the literals of a cube in any order: the code goes through a set.
`frames[i]` holds the clauses of frame i; subsumed clauses are ousted, and a
clause of a later frame counts in every earlier one.

**`Circuits`, `Interpolation`.** What an interpolant is depends on the refutation
it is read off, and the refutation on the order of clauses, variables and
literals, so here a query is not told by its answer: signals are numbered gates,
`Query` gives `_build_query()`'s clauses with the variables numbered in the order
in which the code makes them, `Refutation` is `dpll_prove()`, and `Interpolant`
is McMillan's labelling of its steps. Circuits differ from the code's in that
gates are not shared by identity and a variable has one gate. The loop of
`itp_mc()` is the recursive function `Fence` in `Widening`; its comparisons of R with
other sets are told by the states they hold in. `CircuitsAssumption` states that
a design's circuit computes its functions.

**`ProofEngines`.** `stage` is the engine whose turn it is; `RunIc3` takes the
steps of `Ic3` inside it. `Unroll` runs the engines that unroll the design and
looks for the cover, each told by what its queries decide, with the loops over
depths kept. `Interpolate` is `itp_mc()`; since it shares nothing with the other
engines it is looked at in runs of its own. `ProveResponse` looks for a lasso by
`bmc()` and then runs IC3 on the lasso system, as one step with any answer
`solve()` may give (`Ic3Answers`): SAFE or UNSAFE as its frames and certificates
allow, or UNKNOWN at the limit on frames; every answer but SAFE is recorded as
FAILS (`prove.py:96`).
A register is in the support of a function when the function depends on
it, where the code asks for the gates. The limit on refinement rounds (200, `cegar.py:113`)
is left out: every round keeps at least one register more, so only a design of more than
200 registers reaches it, and `Settles` shows that the loop ends without it. `AbstractCexs` are all
the shortest counterexamples, `Diverging` the registers in which the first
difference shows.

## Runs

"pass" runs check that nothing goes wrong; in "violation" runs the code does
not do what one of its comments says. Each property of a passing run is also
checked to fail under a slip in the code ("mutants" in `PROJECT.json`).

| run | instance | shows |
|---|---|---|
| `kernel` | three actors, one mailbox of one place, up to five `start()`/`stop()` calls on the middle one | at most one run loop per actor, which `stop()` can kill; nothing runs or revives after `stop()`; per-producer order; `ActorContract` is implemented; started actors get a loop and their mail is handled |
| `kernel_try_publish` | two actors | `try_publish()` returns 1 although a wired consumer did not get the message |
| `supervision` | `root` over `sub` over two workers, REST_FOR_ONE, budget two per window of one, three instants, four failures of one worker | no mail of an earlier life; restart rate; `$fatal` only for a spent budget; failed children come back |
| `supervision_stop_stays_dead` | one supervisor, ONE_FOR_ALL | a child stopped for good is started again with its siblings |
| `thread_actors` | main, parser, sink as in `log_pipeline.cpp`, mailboxes of two and one places | no thread waits beside a message; threads end only when stopped; no handler begins while objects are destroyed, consumers first; order; `ActorContract`; mail is handled; a stop whose notification is not missed ends the thread |
| `thread_destructor_hangs` | one actor | the destructor of a stopped actor may never return |
| `coro_actors` | two actors and main on two workers as in `coro_pingpong.cpp` | a handle is in one place; await finds its message; `ActorContract`; mail is received; `Scheduler::stop()` ends the workers its notification does not miss |
| `coro_never_returns` | one actor | a stopped coroutine is never woken to return |
| `dpll_search` | three variables, four values, sums 6 to 10 and 13; the code's round, and the weakest round `Narrow` allows | emitted assignments are legal; unsat is true; no conflict or backtrack loses a solution; open levels fit the arrays; every search ends |
| `cdcl` | eleven callers on four variables: chains, crossed and odd clauses, formulas refuted by propagation or only by learning; clauses and assumptions after a query | models, refusals and cores are right; propagation is complete; every call returns |
| `proof_engines` | all 256 two-bit designs, three-bit counters, designs with an input and assumptions, pipelines behind registers | frames over-approximate; no obligation meets reset; all verdicts but FAILS of a response property, which may mean that IC3 gave up, are true; the program ends, IC3 with an answer |
| `interpolation_unsound` | four registers, bad 14 steps from reset; the depth of the screen as in the code (12) | interpolation answers SAFE of a design that is unsafe |

**Bounds.** `MaxGen` (calls of `start()` and `stop()` per actor), `MaxSent`
(messages per producer), `MaxStops`, `MaxJobs`, `MaxFails` and `MaxTime` bound
counters; `MaxLife` bounds the lives `FailedComesBack` is stated for. Five
generations allow two forks to be waiting while a third start happens, which is
where the generation test matters; two messages of one producer and a mailbox
of one place are enough for loss, reordering and duplication; four restarts
over three instants cross a budget window in every way (2 * max_restarts - 1 = 3
are allowed in one interval, a fourth would be one too many); two workers are
enough for a missed notification and for resuming one handle twice. The search engine
needs sums with several solutions (conflicts on the way to one) and without any
(7 with the weakest round opens every level and gives all of them up). Four
variables are the least on which a clause of `Cdcl` can watch away from two
falsified literals and still hold an open one, and on which a learned clause
has literals of three levels. For the engines, all two-bit designs
contain every shape of a reachable part, a trap and a loop; three bits are needed
for obligations that come back at later frames and for counterexamples longer
than the frames; `FrameLimits` contains 2, where IC3 gives up, and the default
40, where it never does; `KMaxBmc` and `KMaxInd` are 3 instead of 12 and 8, so that
bounded model checking and k-induction also stall. The bounds
of the proved properties are of no consequence.

**Fairness.** SystemVerilog: the simulator eventually runs a process that can
run (weak fairness of forks, loops and handlers); nobody has to start, stop or
send, and time does not have to pass. C++: the operating system runs every
thread (weak fairness), and a mutex that keeps being released is eventually
obtained (strong fairness of the steps that lock, since a waiter that is woken
spuriously again and again takes and releases it for ever); spurious wakeups
are allowed and never required; handlers return. The search engine: the
clock runs (weak fairness of `Clock`), and `rst` need not be raised. The Python
programs are sequential: they take a step as long as they have one (weak
fairness of `Solve`, `Work`; `itp_mc()` is one step and left out of `Settles`), and the caller of the solver need not call. The runs of
the actor models set
`CHECK_DEADLOCK FALSE` because these programs may come to rest: mailboxes
empty, budgets of messages spent, `$fatal` called, threads joined.

## Proofs

The theorems about actors hold for any number of them, any wiring, capacities and bounds,
from the assumptions the modules state on their constants (`KernelAssumption`,
`SupervisionAssumption`, `ThreadAssumption`, `CoroAssumption`: types, for
supervisors that a child has one of them, and for the C++ ports that a consumer
is subscribed at most once; for threads also that mailboxes have a place; the
order of destruction is any).

**`ActorKernelProofs`.** `KernelType`, `KernelSingleLoop`, `KernelStopIsFinal`,
`KernelInOrder`, `KernelKeepsContract`.
`SingleLoop` and `StopIsFinal` are not inductive: whether a second loop can
appear depends on the forks that are still waiting. `Life(s)` strengthens them:
a waiting fork passes the generation test only if it is the newest, and then
the actor is alive and runs nothing; every loop is the one of the present
generation. Each operator of `ActorProcess` keeps `Life`, whatever the messages
(`ActorProcessProofs`, one lemma each, used for `Supervision` too); an
action applies operators to actors. `InOrder` needs that no number in a mailbox
exceeds the producer's counter (`OrderInv`). `KernelKeepsContract` maps `alive`,
`mbox` and the messages in `hand` to the contract's variables and shows that
every step is a step of the contract or stutters: fan-out is `Accept`, `stop()`
abandons what is at hand, and `start()` is `Reopen`, which `Life` allows because
a stopped actor has nothing at hand.

**`SupervisionProofs`.** `SupervisionType`, `SupervisionFreshMailbox`,
`SupervisionRateBounded`, `SupervisionFatalJustified`, for any tree, strategies,
directives, budget and window. `WindowOf(h, k, w, t)` relates `restart_count` k
and `window_start` w to the charges h so far: the last k lie in the window that
opened at w, those before do not come after w, and those more than
`max_restarts` back lie more than `restart_window_ns` before w. The last part is
what bounds the rate across the border of two windows. `FreshMailbox` rests on
`Life`, on a child being drained before it is started again, and on nobody having
a message before `start_all()`.

**`ThreadActorProofs`.** `ThreadType`, `ThreadWaiterSeesNothing`,
`ThreadEndsOnlyWhenStopped`, `ThreadNoLateHandler`, `ThreadInOrder`,
`ThreadKeepsContract`.
`WaiterSeesNothing` is inductive because `try_put()` needs the mutex that is
held from test to block, and notifies a blocked thread. The others need
`FlagInv` (`running_` is cleared only after `is_alive_`, the destructor's order),
`HandInv` (a message is at hand, and a publish under way, only inside `act()`)
and `ObjectInv` (from the first destructor on every started actor is stopped).
`ThreadNoLateHandler` follows, since only the second test of `is_alive_` begins a
handler (`BeginsAlive`). `ThreadInOrder` needs `OrderInv`: a message still to be put into a
mailbox has a larger number than all its publisher put there and all that was
taken, which every put uses up because a consumer is subscribed at most once.

**`CoroActorProofs`.** `CoroType`, `CoroHandleInOnePlace`, `CoroWakesToMessage`,
`CoroKeepsContract`, for any actors, wiring and number of workers. The handle of
a coroutine is in its mailbox, in the hands of a call to `schedule()`, in the
ready queue or with a worker (`Held`), and in no two of them (`Alone`); every step
moves it from one to another (`PlaceInv`). So a coroutine that a worker resumes
runs nowhere else, which is what the steps of its body rely on (`RunInv`), and the
mailbox a handle waits in is empty, while one that was taken out of its mailbox
has a message to wake to (`CoroWakesToMessage`). `HandInv` and the message at hand
give the refinement.

**`DpllSolverProofs`.** `SearchType`, `EmittedAlwaysLegal`,
`UnsatAlwaysJustified`, `SolutionsNeverLost`, `LevelsAlwaysFit`, for any
variables, values, constraint and round that satisfy `VarsAssumption` (there are
finitely many variables), `SolutionsAssumption` and `NarrowAssumption`. `UnsatJustified` follows from
`NothingLost`: when the first level is given up, every value of its variable has
been tried, so no solution is pending anywhere. `NothingLost` needs that the
domains are those of the open level whenever a value is chosen, and that a level
is left only with all its values tried (`LevelsInStep`); `EmittedLegal` needs
that emission follows a round that changed nothing (`EmitsFixpoint`). `TrailFits`
is the pigeonhole principle on the variables of the open levels, which differ
because each level is opened for a variable that is not settled while those of
the levels below are (`DepthInv`).

`RoundNarrows` is that the round of the code is one of those rounds: what
`NarrowAssumption` asks of `Narrow` is proved of `Round` and `Legal`, for any number of
variables and values and any sum, from `RoundAssumption` alone. The bounds of the sum keep a legal
assignment because totals are monotone, also with one variable's own value taken
off (`TotalsGrow`). `Total` is a fold over a finite set; that the fold has a value,
and which, is `SumExists` and `TotalAdds`, again by a smallest counterexample
(`SmallestSet`).

**`CdclProofs`.** `TypeCorrect`, `SatIsRight`, `UnsatIsRight`,
`PropagationIsComplete`, for every finite set of variables and all sessions of
callers. None of the three properties is inductive; `Inv` says how the data of
the search hang together. *Watches:* each clause is on the lists of its first
two literals and on no other, once, except while it is among those to be visited
(`WatchesOK`). *False watches:* where a watched literal has become false and its
clause was visited, the other one is true and is not undone before it
(`Guarded`); this is what survives backjumps, since a literal that is true from a
lower level stays true longer, and what fails after `add_clause()` unless the
queue starts from 0 again. With the queue empty it says that no clause is false
or unit, hence `PropagationComplete` and, once everything is assigned, a model.
*Reasons:* a literal is the only one of its reason not falsified before it
(`ReasonsOK`), one without a reason opened its level or is at the root
(`DecisionsOK`). *History:* every given clause is refuted, a tautology, in the
database or a literal of the root (`GivenOK`), and conversely every clause, every
literal of the root and the clause being learned follow from what was given
(`SoundOK`, `LearntOK`), a resolution step by the reason that is resolved
with. *Assumptions:* those looked at hold, and each level was opened by the
first that did not (`AssumedOK`); so a decision without a reason that the core
reaches is an assumption. That the core cannot hold with the clauses is an
induction along the trail (`CoreHolds`), and the loop that drops repeated
literals in `add_clause()` one over its length (`DistinctFacts`); both are argued
by a least counterexample (`LeastNatural`, from the well-foundedness of the
subset order).

**`ProofEnginesProofs`, IC3.** `Ic3StepKeeps`, `Ic3StepCertifies`, for every system
(`IsSystem`), and for every choice the code makes by order or by a solver's
model: witnesses, lifted cubes, the next obligation, literal or clause. The
invariant is `Ic3Inv`. `FramesSound` is `FramesHold` said state by state, without
reachability: the reset state is in every frame, and a step from frame i leads
into frame i + 1. `Obligations` says that no obligation meets the frame before
its level; this is why one above level 0 cannot hold the reset state though
`_block()` never tests it, and it is kept because `_bad_cube()` and
`_predecessor()` take witnesses from frames in which the earlier levels are
clean. `Generalized` says that the clause under construction stays relatively
inductive while literals are tried. `Certified` says that on SAFE the clauses
returned hold at reset, are closed under the step and exclude bad.

**`ProofEnginesProofs`, the escalation.** `FramesAlwaysHold`, `ObligationsAlwaysMissInit`,
`SafeVerdictsAlwaysCertified`, for any designs of which `DesignsAssumption` says
that they are designs (`IsDesign`), any limits and depths. What IC3 works on is
a system in every stage (`AssumedSystem`, `LocalizedSystem`). A certificate for an
abstraction is one for the design it abstracts (`AbstractionCertifies`), and one
for the design with the assumption latch is, on the states where the latch is
up, one for the design under its assumptions (`LatchCertifies`): so the SAFE of
`ic3` and of `cegar()` is true of the design.

**`ProofEnginesProofs`, the verdicts.** `EnginesAlwaysTrue`: for any designs, limits
and depths, every verdict of one-step induction with `bmc()`, of `bmc()`,
`k_induction()`, IC3, the cover and `cegar()` is true of the runs of the design,
and so are HOLDS of the response property and the lasso `bmc()` finds. FAILS claims
nothing. That the answers of IC3 on the lasso system are those of `Ic3Answers` is
what `Ic3StepCertifies` and `Ic3StepRefutes` say of any system, carried over to one
whose states are records instead of sets of literals; this is not proved again. The pivot is the certificate, a set of states with the
reset state that no step leaves and where none is bad: a design is safe exactly
when the design under its assumptions has one (`SafeIsCertified`). A proof of
an engine leaves one, a counterexample excludes one:

- *Fixpoints.* `Reachable`, `ObedientlyReachable` and `Starving` are recursive
  functions on sets of states. That such an iteration exists and where it ends
  follows from the number of states being finite (`GrowthExists`, `GrowthEnds` and
  their counterparts that shrink), with `Descent` on the least measure in place of
  an induction. `DesignFinite` takes from `IsDesign` that there is a last bit.
- *Unrolling.* `After`, the chain of the induction step and a replayed run are
  recursions over 0 .. k; `RecursionExists` and `Climb` stand for their inductions.
  With no bad state at depths below k, a closed step gives the states of the
  chain with what precedes them as a certificate (`InductionCertifies`); a
  certificate holds every state a run from reset reaches, so `bmc()` finds
  nothing (`BmcRefutes`).
- *UNSAFE of IC3.* No certificate has a state in the cube of an obligation
  (`Doomed`): a bad cube is bad throughout, and a predecessor steps into a doomed
  cube from every state of it. An UNSAFE is answered when such a cube has the
  reset state (`Ic3StepRefutes`). This is the invariant `Refutes`.
- *`cegar()`.* An abstract counterexample that replays is a run of the design
  from reset to bad (`ReplayRefutes`).
- *The response property.* The lasso system is bad in a reachable state exactly
  when the design does not respond (`LassoIsRight`). One way, along a run with the
  copy taken and the obligation unmet there is a trail of states that avoid b
  back to the copy (`LassoInv`), and a loop closed over it would starve. The
  other way, a starving run stays in finitely many states, so some state comes
  back (`SomeCycle`), and the lasso system copies that one.
  What `bmc()` finds in it is reachable (`LassoMet`).

`VerdictInv` joins these to the invariant of the escalation. `VerdictsTrue`, the
property of the run, has one claim more, that the UNSAFE of interpolation is
right. Its part by `bmc()` is covered by `BmcRefutes`; the other, a query whose
clauses are satisfied, would need what the folds and recursive functions of
`Circuits` and `Interpolation` compute, and is only checked of the designs of the run.

**Only model-checked:** every liveness property (outside the prover's reach), and
what the functions of `Circuits` and `Interpolation` compute, with it the last
claim of `VerdictsTrue`. Every other property of a passing run is stated by a
theorem.

## What the models found

1. `try_publish()` returns 1 when a wired consumer is stopped and did not get
   the message; its comment says it returns 1 "only when every wired consumer
   accepted the message" (`actor_pkg.sv:139`, run `kernel_try_publish`).
2. ONE_FOR_ALL and REST_FOR_ONE start again a child that the STOP directive,
   "child crashed and should stay dead", had stopped
   (`actor_supervision_pkg.sv:127`, run `supervision_stop_stays_dead`).
3. `Mailbox::stop()` of `actor.h` sets the flag and notifies without the mutex:
   both the notification of `stop()` and that of the destructor can fall
   between a thread's test and its block, and `join()` then waits for ever (run
   `thread_destructor_hangs`).
4. The coroutine examples publish after `stop()` to wake the actors so that
   they can return, but `publish_msg()` skips stopped consumers, and the
   coroutines never return (run `coro_never_returns`).
5. `itp_mc()` answers SAFE of designs that are unsafe. `dpll_prove()` returns the
   clause of a branch that does not mention the variable it splits on
   (`interp.py:98`) without resolving away the literals forced at that level;
   UNSAT is still right, but the proof ends in a clause that is not empty and
   the interpolant is stronger than "implied by A" allows. The screen by bounded
   model checking hides it up to depth 12; the program itself, run on the
   circuit of `interpolation_unsound`, answers SAFE as the model does. The comment of
   `itp_mc()` suspects that UNSAT can be wrong, which is not what happens.

Facts met while modelling for which there is no run. An escalated failure names
a grandchild the parent does not find and is ignored; a stale report charges and
restarts a healthy incarnation; `on_terminate()` and derived destructors run on
another thread than `act()`. `log_pipeline.cpp` stops its actors without joining
them (lines 212 to 214) and destroys the sink first, then the aggregator (lines 190
and 191): an `act()` of the aggregator still under way, or one whose thread passed
the test before `stop()`, can publish into a sink that is gone (`actor.h:197` to 199,
a state of `thread_actors`), run beside `aggregator.report()` and beside the
destructor of its maps, or be called on an object whose derived part is destroyed;
the 200 ms of line 209 make this unlikely and nothing excludes it. `cegar()` looks for the trace of an abstract
counterexample up to two steps beyond the number of frames (`cegar.py:134`) and
ends UNKNOWN on designs that are unsafe when the shortest one is longer, as on
the counters `Deep` of `MCProofEngines`. `prove.py` reports FAILS of a response
property, "a counterexample was found", when IC3 gave up (lines 96 to 99), and
prints UNKNOWN of IC3 as "a real counterexample" (line 148). `ask_block` in `actor_patterns_pkg.sv:75` is the name
of a block: `disable` ends every activation of it, also those of other actors
that are still asking.

## Limits

Payloads, message metadata (trace ids, time stamps) and logging are left out;
a message is its producer and number. SystemVerilog messages are values in the
models although the code shares one object between consumers. In `Supervision`
the budget's window arithmetic is unbounded (time is 64 bits in the code).
`ThreadActor` does not restart an actor after `stop()` (no caller does).
Undefined behaviour after a publish to a destroyed actor is followed only as far
as the flag and the mailbox of that actor.
`CoroActor` does not model destruction of actors after the scheduler's stop.

### Not modelled

Two thirds of the Python in the repository is a vendored instruction generator
(`riscv-dv`, the corpus of the constraint compiler), which is not this program.
Of its own Python the largest part is frontends: `frontend.py` and its
word-level siblings turn SystemVerilog text into the transition system
`ProofEngines` starts from. They have no state beyond the tree they walk, and a
faithful model of an elaborator is the elaborator. `smt.py`, `word.py`,
`memproof.py` and `sec.py` combine the solver, which is modelled, with algebra
on terms, where the interest is in the algebra; `explain.py` and `trace.py`
print. The services of `src/actor_pkg` and the SystemC port have state
worth a model and come first in the plan. The reason for each part is in
`PROJECT.json`.

## Plan

In order, each with its instance, run and hazards (named in `PROJECT.json`):

1. `AskPattern` and `Timers` over `ActorProcess`: replies, cancels and stops
   against delays; `SelectiveReceive` (stash, deferral).
2. `ScatterGather` and `Routing`; `Persistence` (recorder, restart, replay);
   `Bridge` (batching outbox); `Pairing` (scoreboards).
3. `SystemCActor` and `SystemCSupervision`: a second supervisor to set against
   `Supervision`; `DeathWatcher`, `LinkRegistry`.
4. RTL: `SyncFifo` against an abstract queue, `RoundRobinArbiter`, `MsiCache`;
   `HandshakeActor`; `ActorSim`.
5. `NogoodSolver`: the engine of appendix F with learned nogoods, next to
   `DpllSolver`; a learned nogood excludes no solution.
6. `Smt`: the loop of `smt.py` between solver and theory, each lemma true of the
   theory, each verdict right.

Proofs to come: with each of these its invariants, as for the modules above; for
`Interpolation`, that an assignment `Refutation` ends with satisfies every clause of
the query, the first step towards its UNSAFE.
