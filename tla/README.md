# Verification of the hierarchical allocator with agent sorters

The repository is a Mesos master module: a fork of Mesos' hierarchical allocator
(`src/src/hierarchical.cpp`) in which the order of the agents an allocation run walks through is
decided by a pluggable *agent sorter* (`src/src/slavesorter/`). This directory holds TLA+
modules of that allocator, the TLC configurations that model-check them, and theorems about them
that TLAPS checks. Paths below are relative to the repository's root, `src/` being its top.

## 1. Inventory

### Components

| component | state it keeps | operations | modelled |
|---|---|---|---|
| `HierarchicalAllocatorProcess`, frameworks and roles | `frameworks` (roles, suppressed roles, active), `frameworkSorters` | add, remove, activate, deactivate, update, suppress, revive | `HierarchicalAllocator`, `RoleTracking` |
| `HierarchicalAllocatorProcess`, agents | `slaves` (total, allocated, activated) | add, remove, update, (de)activate, addResourceProvider, updateAllocation, recoverResources; updateAvailable; whitelist; removeFilters | `HierarchicalAllocator`; `QuotaAllocation`; `AllocationRuns`; `OfferFilters` |
| `HierarchicalAllocatorProcess`, runs | `allocationCandidates`, `allocation`, `paused`, `expectedAgentCount` | allocate, `_allocate`, `__allocate`, the loop of initialize; recover, pause, resume | `AllocationRuns`; what a run books in `HierarchicalAllocator` |
| quota | limits and guarantees in the role tree | updateQuota, the headroom and two stages of `__allocate` | `QuotaAllocation` |
| offer filters | `offerFilters` of a framework, their timers | recoverResources with filters, `expire`, `_expire`, isFiltered, and what takes filters out: revive, update, deactivate, remove, removeFilters | `OfferFilters` |
| maintenance | `maintenance` of an agent, inverse offer filters | updateUnavailability, updateInverseOffer, deallocate, `expire` | `InverseOffers`; not with frameworks and agents that come and go |
| `RoleTree` | roles, their frameworks, reservations, quota, weight | track and untrack, updateQuota, tryRemove | `RoleTree`, without weights |
| `Sorter` | clients, active ones, allocations, totals | the interface | `Sorter`, an abstract specification |
| `DRFSorter` (roles and frameworks) | tree of clients, their allocations, shares, order; totals, weights, `dirty` | add, remove, activate, deactivate, updateWeight, allocated, update, unallocated, add and remove of agents, sort | `SorterTree`, `DRFSorter`; the books of one flat sorter in `RoleTracking` |
| `RandomSorter` | the same tree without shares, `sortInfo` | the same, sort is a weighted shuffle | `SorterTree`, `RandomSorter` |
| `MyResourceWeightedSlaveSorter` | totals, allocations, weights and ratios by agent | add, remove, allocated, unallocated, sort | `ResourceWeightsSorter` |
| `MyCustomSlaveSorter` (cpu_first) | totals and allocations by agent | the same | no: the same books, without ratios |
| `MyLexicographicSorter` | agent infos | add, remove, sort by host name | no: see "Not modelled" |
| `MyRandomSlaveSorter` | nothing | sort shuffles | no |
| `slavesorter/resource` | unused: no allocator type and no build file names it | | no |
| DRF metrics, gauges | read only | | no |
| `allocator.cpp` | nothing | creates the actor | it tells which agent sorter runs |
| command hook, isolator and runner | - | described by `src/README.md` and tested in `src/tests`, sources not in the repository | no |
| build files, scripts, examples | - | - | no |

Which agent sorter runs: `Allocator::create` returns the allocator with
`MyResourceWeightedSlaveSorter` before it looks at any of its arguments; the module,
`ExternalAllocatorModule`, creates the one with `MyLexicographicSorter`. What is modelled of the
actor holds for each: which agent comes first is a choice.

### How they interact

The allocator is one libprocess actor. The master calls it by dispatch: every handler runs alone
and to its end. What can go wrong is the *order* of handlers. The allocator dispatches to itself
twice: `allocate()` dispatches `_allocate()` (one at a time: the future `allocation`), and a
refused-resources filter is removed by a delayed `expire()` that dispatches `_expire()`. It
answers the master through callbacks, so an offer is on its way between the run that made it and
the master's next handler; in between framework and agent may go.

An allocation is booked four times: in the agent (`Slave::allocated`), in the framework sorter
of the role, in the role sorter and in the agent sorter. A role is kept in four places: the role
tree, the role sorter, `frameworkSorters` and the frameworks' own `roles` and `suppressedRoles`.
The code checks that these agree with `CHECK`s, each of which ends the master when it fails.

### What makes each part correct

* Frameworks and roles: the four structures agree after every call; exactly the frameworks that
  want offers of a role (subscribed, active, not suppressed) are in its sort.
* Agents and allocations: the books agree with what the master will give back, so that no later
  call fails a `CHECK`; nothing is allocated twice; the totals of all sorters follow the agents.
* Runs: candidates exist when the run takes place; one run at a time is on its way; a run that
  is asked for takes place, also when allocation was paused meanwhile; a paused allocator
  resumes.
* Agent sorter: its own `CHECK`s hold, its key is a share, its books cover what the agents have
  and frameworks hold.
* Quota: what a run remembers of consumption and headroom stays true while it allocates,
  guarantees keep their headroom, limits bound what a role consumes.
* Offer filters: a refusal is honoured for as long as it lasts, a filter outlives the next run
  for its agent, and is gone in the end.
* Maintenance: a framework is asked once about one unavailability, its answer counts for no
  other, and it is asked again when its refusal is over.
* Role tree: a role is there exactly as long as there is a reason for it.
* Sorters of roles and frameworks: no client or allocation is lost while the tree of clients is
  rebuilt, sort lists the active ones, and what is cached (shares, order, relative weights) is
  what would be worked out now.

The hazards of the code, each at its line and with the properties aimed at it, are listed in
`PROJECT.json`.

## 2. Modules

### RoleTracking

Everything the allocator keeps for ONE role as a record, `RoleState`: the tree's frameworks,
whether the role is in the role sorter and what it is allocated there, whether it has a
framework sorter, that sorter's clients, the active ones, what each holds on each agent, the
agents it has an entry for and the totals the sorter divides by. The operators are the helpers
the handlers call: `Track` and `Untrack` are `trackFrameworkUnderRole` and
`untrackFrameworkUnderRole`, `Allocated`, `Unallocated` and `Removed` are the sorter's
`allocated`, `unallocated` and `update` on a client and its parent. `entries` is apart from
`held` because the code distinguishes an agent without entry from one with an empty entry:
`update()` leaves the latter, and then a framework that left the role is not untracked.

### HierarchicalAllocator

The actor without quota, reservations, filters and maintenance. One action per handler of
`hierarchical.cpp`; `Allocate` and `NoAllocate` say whether the handler asks for a run. The
master is external: `offers` are allocations whose callback is on its way, `used` is what the
master has on its books, and the guards over the two are its contract (it recovers only what it
knows of; it removes a framework after it has recovered its resources; it adds an agent again
only when it has finished with its previous life). The `CHECK`s of the code are guards of the
actions (`Holds`, `n <= slaves[s].allocated`, `RemoveFramework`'s first conjuncts): that they
never stop a call of the master is what the invariants `SortersMatchMaster`,
`AgentMatchesMaster` and `RolesConsistent` say.

A run offers, per agent, some units to one active client of one role. This is every result of
the second stage, where the first framework that can take the agent gets what is available:
which framework is first (the sorters), what is passed over or cut (capabilities, filters,
whitelist, minimum) are choices. Quantities are units of one unreserved scalar.

### ResourceWeightsSorter

The agent sorter in use, with the allocator's calls on it. Its variables are the sorter's
members; `slaves` and `used` are the allocator's and the master's view, from which the calls
take their arguments. Resources are *reserved* or *unreserved* units, because what goes wrong
here is a difference of identity with equal quantity: `allocated()` adds the stripped quantities
of the allocation to the agent's total and nothing removes them; neither a changed total nor an
operation on allocated resources reaches the sorter. A ratio is kept as the pair that the code
divides, so that a division by zero can be seen. A unit weighs 1; the actual weights (1 per cpu,
0.3 per megabyte of memory, 0.2 of disk, 0 per gpu; lines 49-58) only scale it, except that an
agent of gpus alone weighs nothing: what is said here of division by zero is about resources
with a positive weight. Two variables are the model's own and remember what happened to an agent
in its present life: `touched`, that its resources changed behind the sorter, and `bare`, that
it registered without resources.

### AllocationRuns

When a run takes place and for which agents. Here the actor's mailbox is a variable: the master,
the loop of `initialize`, the recovery timer and the allocator itself append calls, and one
action per handler takes the first call and does all the handler does. Calls stay in order, none
is lost. `Allocate` is `allocate(slaveIds)`: nothing while paused, else the candidates are added
and `_allocate` is dispatched unless one is on its way (`allocation`, the future's state). `Run`
is `_allocate`; `RunConsiders(s)` is the step in which it gives agent `s` to `__allocate`.
`PeriodicAllocate` is the loop's call, whose future the loop waits for, or not when the
allocator is paused. `Recover`, `Resume`, `AddSlave` and `RecoveryTimerFires` are the pause
after a failover and its two ends. The master is external: it recovers the allocator at most
once and before agents register, and it names only agents it has registered.

### RoleTree, QuotaAllocation

`RoleTree` has the operators of the class, on a function from the roles that are there to their
frameworks, quota and reservations: `With` is `operator[]`, which creates a role and those above
it, `TryRemove` prunes a role and then the one above it. Weights, which also keep a role there,
are left out.

`QuotaAllocation` extends it with one `__allocate`, a step per agent and role, through both
stages, on a cluster that changes between runs (agents come, go, grow, shrink; resources are
reserved and unreserved, allocated or not; frameworks subscribe and unsubscribe; allocations
come back; quota changes). `rolesConsumedQuota`, `requiredHeadroom` and `availableHeadroom` are
the handler's local variables: worked out by `BeginRun`, corrected by `FirstStage` and
`SecondStage`. Resources are units of one scalar, unreserved or reserved to a role, in a tree of
roles two levels deep. The order of agents and of roles, and which roles have a framework that
takes the offer, are choices. The master is external: it lets through only guarantees within
limits, for top-level roles.

### OfferFilters

The filters, the mailbox and a clock. `timers` are libprocess' timers, the next to fire first;
`Tick` is a unit of time, `TimerFires` dispatches. `RecoverResources` installs a filter and its
timer (`Refuse` and `Timeout` are what the code makes of `refuse_seconds`, a negative one
included; `None` stands for resources that come back without filters), `Expire` is
`expire()`, which only dispatches `_expire()`, and `ExpireFilter` is the latter. A call that
finds its filter gone does nothing: the code holds a `weak_ptr`. Every handler that takes
filters out is an action; `Keep` is what they share: the filter goes and so does its timer.
`Run` gives out any amounts that the filters allow. Histories: `refusals` is what frameworks
asked for and have not taken back, with the time that is left; `considered` are the filters
whose agent was in a run. The filters carry an identity in place of the object's address.

### SorterTree, DRFSorter, RandomSorter, Sorter, Sorters

`SorterTree` is what both sorters share: the tree of nodes as a function from paths to nodes,
with the virtual leaf "." of a client that has others below it. `AddClient` splits the leaf of a
client when one is added below it; `RemoveClient` takes the client's allocations away from all
nodes above it, prunes nodes without children and collapses an inner node whose only child is
its virtual leaf. `AddTo`, `SubtractFrom` and `UpdateIn` are the three members of `Allocation`;
the first two drop an entry that becomes empty, the third keeps it.

`DRFSorter` adds the order of the children, shares, counts and `dirty`; `Allocated` on a tree
that is not dirty works out the shares of the nodes above the client only and shifts each among
its siblings. What `sort` returns is the leaves its walk reaches, arranged as it visits them
(`Walk`): a leaf before another, if the walk goes into a child that leads to the one before it
goes into a child that leads to the other. The order of paths, which decides between equal
shares and counts, is a constant, `PathOrder`. `RandomSorter` adds `sortInfo`. Shares and relative weights are exact fractions in
place of doubles. The shuffle is a choice among all orders. `Sorters` gives both sorters the
same calls, those the allocator makes.

`Sorter` is the abstract specification: clients with what they hold, the total, and that `sort`
returns the active clients in some order. The refinement mapping (`ClientsIn`) takes a client's
leaf, virtual or not: it is active if the leaf is, and holds the leaf's entries that are not
empty.

### InverseOffers

Maintenance with the mailbox, the callbacks and the master. An unavailability is a number, the
version of an agent's schedule; `maintenance` is the member of `Slave`. `Run` is `_allocate`,
which ends in `deallocate`: it sends an inverse offer to each framework in `Offerable` and marks
it outstanding. The master passes it on, or drops it if by then the framework is disconnected or
nothing is scheduled (`MasterReceives`), and answers with `updateInverseOffer` when the
framework does, when it times out or when it is withdrawn. Filters expire in two steps, the
future that stops filtering and the dispatched `expire` that takes it out; `reviveOffers` and
`updateFramework` take out a framework's (both through `reviveRoles`), `updateUnavailability`
and an `updateSlave` with other attributes an agent's. Who holds resources may change at any
time.

### Queues, FoldTheorems

`Among` takes out of a queue what is in a set, the inverse offers the master withdraws, say. It
is the library's fold and not `SelectSeq`, which takes an operator, so that no lemma about it
could be used in a proof. `FoldTheorems` has what the proofs need of it, of the library's sums
and products, and of listings of a set in order; see section 4.

## 3. Runs

| run | instance | shows |
|---|---|---|
| `frameworks` | 2 frameworks, 2 roles, 1 agent of 1 unit | type correctness, agreement of the role structures, who is in the sort, sums, `updateFramework` |
| `agents` | 1 framework, 2 roles, 2 agents of 2 and 1 units | the books against the master's, totals, candidates, no double allocation |
| `inactive_framework` | 1, 1, 1 | finding: offers to an inactive framework |
| `removed_framework` | 1, 1, 1 | finding: resources held for ever by a removed framework |
| `allocation_runs` | 2 agents, up to 2 expected, master's mailbox bound 2 | one run on its way, no run while recovering; liveness: resume, every agent considered again and again, no candidate left behind |
| `quota` | 2 top-level roles, 2 agents of up to 2 and 1 units, 4 quotas | consumed quota exact, headroom there and enough, deficit never grows, limits kept, role tree exact |
| `nested_limit` | a role and one below it, 2 agents of 1 unit | finding: the limit does not bind a nested role |
| `offer_filters` | 1 framework, 1 role, 1 agent of 2 units, 2 refusals at once | a filter outlives the next run, a refusal is honoured; liveness: every filter goes |
| `sorters` | clients `a`, `a/b` and `c`, 1 agent of 1 unit | both sorters implement `Sorter`; order of children, sums, cached weights, relative weights |
| `inverse_offers` | 1 framework, 1 agent, 3 schedules, 2 refusals at once | one inverse offer for an unavailability, answers count for their own schedule; liveness: asked again |
| `agent_sorter` | 1 agent of up to 2 units, sorter's books up to 6 | the sorter's `CHECK`s, its key, over all lives of an agent |
| `agent_books` | 1 agent of up to 2 units, sorter's books up to 4 | finding: the agent sorter's books do not cover the agents |

Bounds. `MaxTotal` bounds the units of an agent: two units are enough for an allocation in
parts, to two roles, and for a part to be recovered, removed or shrunk away; the agents of
`agents` and `quota` differ in size so that books mixed up between agents show. Two frameworks
are needed for a role that survives its first framework, two roles for a framework that moves
between roles; the two runs split the two dimensions, because a handler touches either one
framework in all its roles or one agent in all its sorters. In `quota` three units are more than
the two roles' guarantees of one each, so bursts, a shortage and a surplus of headroom all
occur, and a guarantee may be met by either agent. `MaxMailbox` bounds what the master has in
the mailbox ahead of the calls of others: two calls, beside the loop's, the timer's and the
run's, so that every pair of calls can stand between the dispatch of a run and its turn.
`MaxExpected` is the number of agents, so that the recovery may wait for all, for some or for
none. `MaxPool` bounds the agent sorter's books, which grow without bound by design of the code;
six is three times the agent's size, so two lives of an agent and the leftovers of both fit; the
sorter keeps each agent apart, so one agent is enough. In `offer_filters` the interval is 2, the
longest refusal 3, the default 1, and a framework refuses for -1 (the default), 0 (not at all),
1 (less than the interval) or 4 (cut to 3): each branch of `recoverResources`. Filters of
different frameworks, roles and agents never meet, so one of each is enough; two refusals of it
may overlap, one of less than the other, and expire in either order. In `sorters` three clients
are the least with a nesting and a sibling, so that a leaf is split, collapsed and pruned beside
another child; `MaxCount` bounds the allocations in force, `Weighted` the paths that have a
weight and weights are only raised; resources go to `a` and `c` (`Served`). In `inverse_offers`
three schedules are enough for an answer to one that was replaced twice. Frameworks and roles
are symmetric; agents are not where their sizes differ. The runs with liveness properties use no
symmetry.

Fairness is assumed in three modules, of the actor and its timers. `WF_vars(Handle)`: libprocess
serves a mailbox that is not empty; handlers never block. `WF_vars(LoopFires)`,
`WF_vars(RecoveryTimerFires)`, `WF_vars(TimerFires)`: a libprocess timer fires; `WF_vars(Tick)`:
time passes. The master owes nothing: agents may never come back, frameworks may never ask or
answer. All other properties are safety properties.

`CHECK_DEADLOCK FALSE` stands only in the runs of the agent sorter: there the bound on its
books, or a `CHECK` that fails and ends the master, stops the system. The allocator itself never
stops: its loop is always enabled.

### Findings

* `inactive_framework`: `reviveRoles` (hierarchical.cpp:1589) and `updateFramework` (737)
  activate a framework in the sorters without asking whether the framework is active. The first
  stage of a run asserts that it is (2021); the second just makes an offer.
* `removed_framework`: a framework leaves a role while an offer of that role is on its way, then
  it is removed. `removeFramework` gives back allocations of subscribed roles only (622), and
  `recoverResources` skips the sorters of a framework that is gone, so its allocation, and the
  role, stay for ever.
* `nested_limit`: the second stage looks up the limit of exactly the role it allocates to
  (2232), and charges the roles above only when that role has a quota of its own (2329). A
  nested role has neither, so its allocations lift the role above over its limit, where the
  comment at 1807 counts "all subrole allocations".
* `agent_books`: the agent sorter is not told by `updateSlaveTotal` (2834) nor by
  `updateAllocation` (1076), which tell the other sorters. `removeSlave` (886) then takes away a
  total that its books do not have, and `recoverResources` an allocation: both fail a `CHECK` of
  it (resources_weights/slavesorter.cpp:136 and 195; or 135, which comes first, where the sorter
  has no entry for the agent, because it registered without resources). cpu_first keeps the same
  books.

What a property excepts is a place where the code falls short of its comment or goes wrong. The
exception is named in the property's definition and kept as narrow as the description below; the
case itself is what no run catches:

* `WeightsAreCurrent` excepts nodes in `missed`: `updateWeight` finds clients only
  (drf/sorter.cpp:299), so that an inner node that is no client keeps the weight it has cached,
  although by sorter.hpp:76 the weight is for the whole subtree. Only a node that has cached a
  weight by then is in `missed`; one that has not takes the new weight when it asks.
* `RemoveChecksHold`, the last part of `AllocationsAddUp`, excepts an entry that `update()`
  emptied and kept in the client while the node above has none for that agent any more, since
  others have given back all of theirs: `remove` then fails a `CHECK` there. For every other
  entry of the same client, empty or not, the `CHECK`s hold.
* `RatioIsShare` excepts agents in `bare` from its first half: an agent that registered without
  resources has no weight, also when it has grown since, so that the key of what is allocated
  on it is infinite (no number, if that weighs nothing either).
* `OneInverseOffer` and `FrameworksReassess` except inverse offers in `late`: the master passes
  on one that was made for the previous schedule, and `updateInverseOffer` takes its answer for
  the answer to the new one. `AskedAgain` excepts those in `ignored`: for an inverse offer that
  the master drops no answer comes, and the mark of it stays.

A related remark without a run: `allocated()` of the agent sorter adds the allocation to the
agent's total (resources_weights/slavesorter.cpp:175) and nothing takes it away again, so the
"Total resources" of slavesorter.hpp grow with each allocation. `UntouchedAgentIsCovered` and
`RatioIsShare` show what still holds in spite of it. Another: `unallocated()` leaves the ratio as
it was (205), so that an agent that was emptied sorts like a full one until something is
allocated on it. Nothing in the repository says what its place should be;
`RatioCountsAllocation` says only that the key never counts less than is allocated.

`removed_framework` goes further than its run shows: the client that stays in the framework
sorter makes `deallocate` fail `CHECK_NOTNONE(getFramework(frameworkId))` (2398) when the agent
is scheduled for maintenance.

`RoleTreeIsExact`, `HeadroomIsThere` and `HeadroomIsEnough` hold on the tree of `nested_limit`
as well: they are proved for every tree of two levels.

## 4. Proofs

| module | theorems |
|---|---|
| `FoldTheorems` | lemmas only: sums and products over finite sets, parts of queues, listings in order |
| `HierarchicalAllocatorProofs` | `TypeOK`, `RolesConsistent`, `SubscribedIsTracked`, `ActiveClientWantsOffers`, `WantedRoleIsActive`, `SortersMatchMaster`, `SorterTotalsMatchAgents`, `CandidatesAreAgents`, `RoleSorterSumsClients`, `AgentMatchesMaster`, `UpdateSetsSuppressed`, `NoDoubleAllocation`, and `RecoveryPassesChecks` |
| `AllocationRunsProofs` | `TypeOK`, `OneRunOnItsWay`, `LoopWaitsForRun`, `PausedWhileTooFew`, `NoRunWhileRecovering` |
| `ResourceWeightsSorterProofs` | `TypeOK`, `RatioCountsAllocation`, `RatioIsShare`, `UntouchedAgentIsCovered` |
| `QuotaAllocationProofs` | `TypeOK`, `RoleTreeIsExact`, `HeadroomIsThere`, `HeadroomIsEnough`, `DeficitNeverGrows`; side by side: `ConsumedIsExact`, `LimitsAreKept` |
| `OfferFiltersProofs` | `RefusalIsHonoured`, `OutlivesNextRun` |
| `InverseOffersProofs` | `FrameworksReassess`, `OneInverseOffer`, and that the `CHECK` of `updateInverseOffer` holds |
| `SortersProofs` | `AllocationsAddUp`, `WeightsAreCurrent`, `ChildrenAreOrdered`, `RelativeWeightsAreCurrent` and its first half alone; that either sorter is a `Sorter`: `DRFIsSorter`, `RandomIsSorter` |

Each is a theorem `Spec => []P` (or `Spec => P` for what a step may not do), by an inductive
invariant that holds initially and is kept by each action, one lemma per action.

**Sums and queues.** Sums are the library's `SumFunction`, defined by a `CHOOSE` of a recursive
function on the subsets of a set. `FoldTheorems` shows first that there is such a function and
only one, and then how sums change when a summand changes, comes or goes, and that a table can
be added up by rows or by columns. Induction over finite sets is wanted for this and the
library's theorem takes a predicate as a parameter, which the provers cannot instantiate; so
`FiniteSetInduction` is stated of a *set* of subsets, and rests on `LeastNumber`, which the
library's well-founded relations give. In the same way `Among` is a recursive function of the
length of the queue: its places come from places of the queue, in their order, and nothing that
was to be kept is lost. Products are treated as sums are. A finite set with a strict total order,
given as a set of pairs, has a listing in that order (`OrderedListing`): its last element comes
last, after a listing of the others.

**Frameworks, roles and agents.** None of the properties is inductive alone. That the sorters
hold what the master has (`SortersMatchMaster`) needs that a framework is a client of every role
it has something outstanding in: otherwise a recovery would skip the sorter. That needs the
entries of a client (a role is untracked only without entries), hence `RoleConsistent`, and that
a framework that was never added has no offers. Natural-number totals need that the role sorter
and every framework sorter have exactly the agents' totals before an agent is removed. `IInv`
contains these facts; its definition lists them with comments. These theorems hold for finite
and infinite sets of frameworks, roles and agents. The two sums are for finite ones: each
operation on a role keeps the role sorter's books the sum of the clients', and an agent's
allocation moves by what the master's books move by. From both sums follows that every recovery
the master may ask for passes the `CHECK`s of agent, role sorter and framework sorter.

**Runs.** First come lemmas on sequences of calls: what `Append` and `Tail` do to the presence
and to the uniqueness of a call. `AllocateHandled` and `NoAllocateHandled` then say once what a
handler does to the mailbox. `OneRunOnItsWay` is kept as "unique, and there exactly while the
future is pending"; the cardinality follows. That no run considers an agent while recovering
needs the order of the recovery (`RecoveryInOrder`): `recover` is called once, a `resume` is in
the mailbox only when the timer has fired, so none can precede the pause; and `PauseHasTimer`.

**Agent sorter.** The invariant is one formula by agent (`AgentInv`), and a lemma
(`OneAgentChanges`) says that only the agent a call is about needs a proof. Two parts of it
strengthen `RatioIsShare`. `Weighed`: the ratio of an agent that holds something was worked out
with its present weight, which is there unless the agent registered bare; this holds for agents
that were touched as well. `Covered`: while the agent stays as it registered, its weight is at
least its total, and unless an allocation of an earlier life is still counted, its ratio was
worked out from no more than that. A second
invariant, that the total over all agents is the sum of the agents' (`TotalIsSum`), gives the
`CHECK`s on the totals.

**Role tree and quota.** `ExactTree` is the tree that has the roles in use and those above them,
a function of what each role has of its own; each operation of `RoleTree` on an exact tree gives
the exact tree of what the role has afterwards, so the invariant is one equation. What a run
believes to be available is worked out from the sorter's sums. Added up by agents and by kinds,
the totals are the reservations and the unreserved units, and on each agent what is free is at
least its unreserved units less those held there, and at least zero; so saturating the sum over
all agents instead of each agent's never gives more than there is, with agents that shrank or
went included. From there on each allocation of a run takes at most as much from what is
available as it lessens what is free. `HeadroomIsEnough` follows with the unmet guarantees:
consumption only grows during a run, and an allocation that is counted for a guarantee
lessens what is unmet by what it takes from the headroom. `ConsumedIsExact` and `LimitsAreKept`
are proved with the hypothesis that no role is below another (`SideBySide`): with one below
another they are false, which is the finding of `nested_limit`. Up to the second stage, the
consumption is exact in every tree.

**Offer filters.** `RefusalIsHonoured` rests on one fact: a refusal in force has a timer with at
least as much left. It has one timer (`OneTimer`), so no call that expires its filter is in the
mailbox, and the filter is there. `OutlivesNextRun` rests on the order of timers and calls
(`RunAhead`), for a filter that no run has come by: the loop's timer is ahead of the filter's,
since a filter's time is never less than the interval and timers fire in order; when the
filter's timer has fired, the loop sleeps no longer, and a call of it that is still in the
mailbox is ahead of `expire()`; and `_expire()` has a run ahead of it, for all agents
(`RunComes`). This is why `expire()` dispatches once more: without that the loop's call would be
handled first, but not the run it dispatches. The invariant needs that the number of a refusal
is used again only when nothing is left of it, and that the default is at most the longest
refusal.

**Maintenance.** What an answer is about is right because of the order of calls: the master
withdraws the inverse offers of an agent, with an answer for each, before it tells of a new
schedule. So the invariant says of every call in the mailbox which schedule its agent will have
when the call is handled (`VersionAt`): the one told last before it, or the present one. An
answer that counts is then one for the present schedule, or `late`. For `OneInverseOffer`,
inverse offers are followed through the three places they pass: each step takes those it leaves
from places of their own (`Moved`), so that no two become alike. A new one is made only for a
framework that has none outstanding, and then there is none with the agent's present version
anywhere (`Known`); and a new version is one that no inverse offer has, since versions grow from
the agent to the mailbox to the master (`FreshOffers`, `FreshChanges`).

**Sorters of roles and frameworks.** `SortersProofs` is about one tree first, so that it serves
both sorters. `Shape` says what a tree of clients is: closed upwards, inner nodes internal, each
leaf some client's, a virtual node always a leaf. From it follows where a client's leaf is and
which nodes are above it. `Good` adds `NodesSumClients`: every node holds the sum of what the
clients below hold. Each operation keeps a good tree good: `add` in two steps, the split of a
leaf (`SplitKeeps`) and the new nodes (`GrowKeeps`); `remove` in two, taking away and pruning
(`PruneKeeps`) and the collapse of an inner node into its virtual leaf (`CollapseKeeps`); the
bookings by one lemma on a change along the path of a client (`PathChanges`). The `CHECK`s of
`remove` follow: a node holds at least what one client below it holds, and it has an entry for
the agent where that is not zero. Both trees have the same nodes (`Agree`), so that `missed`
serves both. For the refinement, the entries that are not empty (`Kept`) are a matter of
amounts, so a client whose amounts stay is the same to `Sorter`, and each operation is a call of
it or a stutter. What the RandomSorter's `sort` returns rests on `sortInfo` listing the active
clients while it is not dirty.

**The DRFSorter's order.** `ChildrenAreOrdered` is about neighbours and about shares worked out
now; neither makes an induction. `OrderInv` says more: the children of each inner node are listed
once with the inactive leaves at the end (`Listing`); shares and counts are there for every node;
and if the tree is not dirty, every node that is sorted *has* the share that `calculateShare`
would give it, and of any two sorted siblings the one that is listed first comes before the other
(`Sorted`). That `compareDRF` is a strict total order on siblings rests on fractions with
positive denominators and on `PathOrder`. The step that is not obvious is `allocated()` on a
clean tree. It changes what the nodes above one client hold, so their shares, and of each list of
children at most one (`OneLeads`); the shares of all others are as they were, as totals and
weights are. So each list is in order but for one element, and moving that element left past all
it comes before, or else right past all that come before it, gives an order again
(`PlaceFits`, `StillRanked`): were the search to stop too early or in the inactive tail, it would
not. Any other call leaves the order of all pairs alone or makes the tree dirty, and `sort` makes
the order new (`SortOrder`). What `sort` lists follows: an active leaf is reached since all nodes
above it are sorted ones, of two leaves one is visited first, where their paths part
(`VisitsOne`), and visits are transitive, so there is one listing and it has each active client
once (`ListsActive`).

**Relative weights.** That what `sortInfo` has is fresh is an invariant by itself: no call that
leaves it clean changes the kinds or the weights of nodes (`StaysFresh`). That it sums to one is
then a fact about one tree. With `K` the common denominator, the share of a node is the product
of the weights above it times what is left of `K` after the product of the sums above it
(`Weighs`). The children of a node have together what it has, since siblings divide by the same
sum (`BroodWeighs`); so the nodes of one length, with the leaves above them, have the same sum
for each length (`FrontierWeighs`), which is `K` at the root. The nodes without active children
are the active leaves (`ActiveGrove`), and they are the clients, one for one.

Assumptions, each evaluated by TLC in the runs of its module: sizes and bounds are natural
numbers, the default refusal at most the longest (`MaxTotalAssumption`, `BoundsAssumption`,
`ResourcesAssumption`); calls of a sorter are about some resources (`QuantityAssumption`),
clients are paths in which no name is ".", as roles and framework ids are (`ClientAssumption`),
and no two nodes have equal strings, which are ordered (`PathOrderAssumption`, since `compareDRF`
compares the paths of nodes); quotas are of numbers and the default is among them, a guarantee
within its limit (`QuotasAssumption`); roles are on two levels (`TreeAssumption`); where sums or
cardinalities are needed, the agents, roles and frameworks are finitely many
(`FiniteAssumption`, or a hypothesis of the theorem). The master's contract is in the guards of
the models, see section 2.

Not proved, model-checked only:

* Liveness under fairness (`EventuallyResumes`, `AgentsAreConsidered`, `CandidatesAreServed`,
  `FiltersGo`, `AskedAgain`) and `ENABLED`, which the provers used cannot deal with.

## 5. Not modelled

* Shared resources, revocable resources and ports; several scalars at once; capabilities and
  regions (choices in the runs); metrics, logging, wording. `requestResources` only logs.
* Faults of messages: the message layer is the actor's mailbox, and calls are neither lost nor
  duplicated. Calls that violate the master's contract (an unknown framework, say) end the
  master in the code and are not enabled in the model.
* In `OfferFilters`: the capability filters of `isFiltered`, pause and whitelist, a
  `refuse_seconds` that is not a number, and which resources a run offers to whom.
* In `InverseOffers`: frameworks and agents that are added or removed,
  `getInverseOfferStatuses`. The `CHECK` of `updateInverseOffer` that maintenance is scheduled
  is no guard: where it failed, TLC would report an error.
* In `RoleTree`: weights, which keep a role in the tree as well.
* In the sorters: rounding of doubles, shared resources, `allocation` and the other readers.
* cpu_first keeps the books of `ResourceWeightsSorter`, without ratios, and neither factory
  creates it.
* Lexicographic: a map and a comparator. `compareSlaves` returns `compare()`, an integer, as a
  `bool` (lexicographic/slavesorter.cpp:32): of two different host names each comes before the
  other. That is no strict weak order, so what `std::sort` does is undefined, and there is no
  order to state a property of. The allocator does not rely on the order: a run takes agents in
  any.
* The random agent sorter keeps no state; metrics read only; `slavesorter/resource` is not
  built.
* The command hook, isolator and runner: only their tests are in the repository.

## 6. Plan

Done, in this order: `RoleTracking`, `HierarchicalAllocator` with their proofs,
`ResourceWeightsSorter`, `AllocationRuns`, `QuotaAllocation`; `RoleTree`, `OfferFilters`, the
sorters with the refinement, `InverseOffers`; the proofs about `AllocationRuns` and
`ResourceWeightsSorter`; sums over finite sets, and with them the books of
`HierarchicalAllocator`, `ResourceWeightsSorter` and `QuotaAllocation`; the role tree;
`InverseOffers` and `OfferFilters`; the sorters' sums and cached weights, and the refinement of
`Sorter`; the order of the DRFSorter and the sum of the relative weights. Left:

1. `HierarchicalAllocator` shown to implement an abstract allocator (a pool of units, free or
   held by a framework), with the step simulation proved.
2. Frameworks and agents that come and go in `InverseOffers`.
3. Weights in `RoleTree`, with the role sorter, so that pruning and re-creating a role can be
   checked against the weight the sorter remembers.
4. Several scalars in `Sorters`, so that the dominant share changes from one to the other.
