# Verification of the AWI gRPC Catalyst SD-WAN controller

TLA+ models of the controller in `src/`, checked with TLC and proved with
TLAPS. The controller accepts gRPC requests to connect network domains (VPCs
and VPNs) and applications, keeps them in a bolt database and carries them out
with calls to cloud providers or to vManage.

## The system

The process runs one gRPC server and four goroutines (`pkg/server/server.go`,
`Run`, and `pkg/manager/manager.go`). They share one database and one
`AWIConnectionController`; the controller has no lock.

| Part | State | Operations | Talks to |
|---|---|---|---|
| gRPC handlers (`server.go`) | none of their own | Connect, Disconnect, ConnectApps, DisconnectApps, reads, CRUD of policies and SLAs | read and write the database; send into the request channel, and wait there when its buffer is full |
| Worker (`ProcessQueue`) | the request in hand | run a request against the controller; after a failure sleep ten seconds and send it into its own channel again, at most three times | controller |
| Refresher (`Refresh`) | the list of its pass | every 30 s: refresh app connections, then create what stored watches match | controller |
| Mapper (`RunMapping`) | the statuses of its pass | every 30 s, vManage connector only: read all mappings, rewrite the connection records | vManage, database |
| Discovery (`RunNetworkDomainDiscovery`) | none | every 30 s: store network domains that exist; never removes one | providers, vManage, database |
| Controller (`pkg/connection-controller`) | `deletedConnection`: ids deleted or pending deletion, in memory only | create and delete connections, app connections, site policies | providers, vManage, database |
| Database (`pkg/db`) | six tables on disk | get, list, put, delete, each one transaction; `UpdateConnectionStatus` in two | |
| Pure functions | none | label matching, policy selection, protocol and port translation | |

### What is hard here

- **Concurrency.** Worker, refresher and mapper act on the same connection.
  Each looks at the database or at `deletedConnection` first, then makes calls
  that take seconds, then writes.
- **Partial failure.** A connection takes up to four calls, with no rollback.
  A failed request is tried again from the beginning, later requests first.
- **The queue.** The worker is the only receiver of the channel it reschedules
  into.
- **Crashes.** The channel, the marks and every request in progress are lost.
  What the providers already did is not.
- **Two-transaction updates.** The mapper overwrites records with what it read
  earlier.

### What makes the parts correct

- Queue: every accepted request is attempted, at most `1 + maxRetries` times,
  and ends; none is lost or doubled while the process lives.
- Connections: a record stands for a connection that is really there, nothing
  stays in the clouds unknown to the database, success means recorded, watches
  are eventually satisfied, deletions last.
- Mapping: records come to show what vManage has; configs given by users,
  watches and unrelated connections survive.
- App connections: the rules in the clouds are those of the stored app
  connections, every network domain connection gets its child of every
  reference, children are named uniquely, and rules follow the addresses that
  match now.
- Site policies and URL filtering: nothing in vManage refers to an object that
  is gone, nothing stays half made without a failure, and a record is removed
  only after everything it stood for.
- Pure functions: each loop agrees with a direct definition of its result.
- Clients: once nothing is under way for an id, its record shows the last call;
  `SUCCESS` means linked; an accepted disconnect happens.

`PROJECT.json` lists the hazards at their lines, with the properties for them.

## Modules

| Module | Models |
|---|---|
| `RequestService` | abstract: what the manager promises for a request |
| `RequestQueue` | the channel, the worker, retries, restart (`manager.go`) |
| `RequestQueue_proofs` | its theorems |
| `ConnectionLife` | abstract: what becomes of a connection, whoever works on it |
| `ConnectionController` | creation and deletion of connections with the AWI connector, by worker and refresher (`awi_connection_controller.go`, `disconnect.go`) |
| `ConnectionController_proofs` | its theorems |
| `StatusMapping` | the mapper against worker and refresher with the vManage connector (`RunMapping`, `db.UpdateConnectionStatus`) |
| `StatusMapping_proofs` | its theorems |
| `AppConnections` | creation and deletion of app connections, references and their counters, security group rules (`awi_connection_controller.go`, `disconnect.go`, `security_groups.go`) |
| `AppConnections_proofs` | its theorems |
| `AppRefresh` | the periodic refresh of security groups and of the shared source ranges of a Kubernetes service (`security_groups.go`, `kubernetes.go`) |
| `AppRefresh_proofs` | its theorems |
| `VManagePolicies` | the chains of objects for a site's access list and an app's URL filtering, call by call |
| `VManagePolicies_proofs` | its theorems |
| `Selectors` | access policies, network domains and protocols resolved from selectors, loop by loop (`awi_connection_controller.go`, `translator.go`) |
| `Selectors_proofs` | its theorems |
| `ClientService` | abstract: what clients of connect and disconnect are promised |
| `ClientCalls` | handlers, channel, worker and records composed, as clients see them (`server.go`, `manager.go`) |
| `ClientCalls_proofs` | its theorems |
| `MC...` | instances for TLC |

Operators named `Mutant...` are faulty variants used only to show that each
property can fail. Variables called history record the past for a property and
enable nothing. The modules meet at the database: what one takes as an input
that may come at any time (a request, a new connection, a changed match) is what
another one models.

### RequestQueue

`channel` holds every value sent and not received. The first `Capacity` of
them are the Go buffer, the rest belong to parked senders in the order they
came; receiving unparks the oldest, as the Go runtime does. `worker` is where
`ProcessQueue` stands: `receiving`, `processing`, `backoff` (the sleep) or
`blocked` in its own send. `AddRequest` is `addRequest` of any handler,
`Receive` the receive, `ProcessSucceeds` and `ProcessFails` the controller's
answer, `Reschedule` the end of the sleep with the send. `Restart` may happen
anywhere. `attempts` is history and saturates at `AttemptsBound`, one above
any legal value. The abstract service knows neither channel nor sleep:
`Receive` implements its `Begin`, the answers its `Succeed` and `Fail`,
`Restart` its `Lose`, and `Reschedule` is a stutter. `NearerToEnd` says why
requests end: ordered by the retries left, the place in the channel and the
worker's stage, each step of the worker brings every unfinished request nearer,
and no other step sets one back.

### ConnectionController

A step is one database transaction, one access to `deletedConnection` or one
provider call. `pc`, `conn`, `config`, `todo` and `left` are the local state of
each goroutine. The clouds are `attached` (which side of a connection its
provider has attached) and `rule` (the default-access rules of
`createVPCPolicy`). A connection between two providers takes two calls, one
within a provider takes one (`CallCovers`). Every call may fail with or without
its effect. A config stands for a user's request: the connection it names by id
or those its selectors match, the access its policies give, whether it asks for
a watch, and the name. Watch records are visited in the order of their database
keys, as bolt iterates.

The name matters because `getSGName` makes the rule's name from it. The same
connection may be created for one config and, after that broke off or was
deleted, for another, so `rule[c]` is the set of the configs under whose names a
rule is in place, and `db[c]` the config its record was made for. `RuleOf` is
the rule a config makes and the one a deletion removes by its record: none if
the config denies.

`raced`, `torn` and `leftover` name what the code does not promise, so that
the invariants can say everything else: connections two goroutines worked on
at once, connections whose deletion has begun, and for each connection the
configs a creation of it broke off for. A completed creation takes over the
attachments that were left, a deletion removes them, and each of them the rule
under its own config's name only: `Save` and `DeleteRecord` keep in `leftover`
every other rule still in place. `NoOrphans` says of each connection that every
attachment and every single rule belongs to its record, to a creation under way
or to such a leftover of the same config. `RecordExact` joins both invariants:
outside these, what is set up of a connection nobody is creating, rules of every
name included, is exactly what its record says.

`ConnectionLife` describes each connection by itself: absent, being made, up,
being taken down, partly there after a creation that broke off, contested after
two creations at once. Links and rules come only while it is made and go only
while it is taken down, its record comes last, with its rule in place, and goes
last, without it, and no step but a crash concerns two connections. With another
rule left it is partly there again instead of absent. `LifeOf` reads the stage from the record, the
histories and the goroutines' places; `LifeSpec` says that every step of the
controller is one of that life or none.

`PassShortens` and `PassGoesOn` say of a refresher's pass that each of its steps
leaves less to do, that nothing the worker or the handlers do prolongs it, and
that it can always go on.

Left out: replacement of subnets by their VPC, VPN domains (their
default-access rule is skipped by the code), and two requests of the same name
with different contents, whose rules would share one name.
The app connections applied to a new connection are in `AppConnections`.

### StatusMapping

`mapping` is the list in which vManage shows a connection, `enabled` what it
was last asked for; both are external, and vManage catches up in `Settle`. A
pass is `StartMapping`, one `Poll` per cloud, `List` (first transaction) and
`Write` (second). One failing `GetStatus` ends the pass (`PollFails`). `Merge`
is the effect of `UpdateConnectionStatus` on one record. Requests arrive from
anywhere at any time, which covers the channel and its retries. A record is a
status and whether it has the user's config. Tags and site access lists are in
`VManagePolicies`. `UpdateShows`: a completed update leaves every connection as
the pass saw it, except a record saved between its transactions of a connection
that was not reported.

### AppConnections

A child is a request, a connection and a number, which together make its name
(`<name>-<n>`); `groups` are the children whose rule exists, because the
security group goes by the name. `StartOne` and `StartAll` are
`CreateAppConnection` for one connection and for "all", with `NextConnection`
and `SaveReference` as its loop and its last write; `ListReferences`,
`ApplyReference`, `CountChild` and `EndApply` are
`applyAppConnectionsForAllNDConnections`, which worker and refresher both run
after a connection is saved. `AddRule` and `SaveChild` are the two halves of
`createAppConnection`. Deletion removes the rule and then the record, and
removes no rule of a NodePort service (`RulesOf`), as the code does not.
`CounterSteps`: a stored Counter goes up by one, for the child just made, and
never back, although it is written from an old listing.

### AppRefresh

`cidrs` are the addresses of the record, `rules` those of its security group,
`ranges` those of the one load balancer that all its app connections share. A
pass is `StartPass` (the listing), then per record `NextApp`, `RefreshSources`
(the provider call with the difference to the listed record) and
`SaveRefreshed`; `PassOver` is its return at a reference or URL filtering and
`GroupMissing` its failure at a missing group. `Change` is the cloud. `NoReturn`: a deleted record is written back only after a
deletion that met the pass; `PassShortens`: each step of a pass leaves less to
do, whatever happens meanwhile.

### VManagePolicies

One client call is one step, and `pc` names the call that comes next. A failed
call, or a restart, is `Stop`: the request is over until it is begun again.
Creation of a connection with a site ends in a write to a nil `Config`
(`db.go:147`), so no such creation ever stores a record; the records that can be
deleted are those of a database that was filled with the "awi" connector.

### Selectors

The tables and selectors are constants, a step is one turn of a loop. `Same` is
the comparison that ignores case. `LabelsMatch` is the counter of
`checkLabelsMatch`: the number of matching pairs must equal the number of
selected labels. `AddEntry` is one turn of the three translations, which differ
only in the type they return. Tables are assumed to be lists of records with
distinct ids, label maps finite with distinct keys.

### ClientCalls

A handler looks into the database and then sends; the worker looks again. The
steps of a request are `Find`, `Link` (the providers) and `Record`. Connections
use the connector "awi", where no mapping rewrites records. `policy` is an access
policy that every connect selects and that other handlers create and delete.
`ProcessEnds` is the crash, also the panic of `GetConnection` for an unknown id.
`ClientService` is a register: a record comes or goes only while somebody asks
for it, and a call ceases to be outstanding only in a state that shows what it
asked for, or it is given up. `Asked` maps what the handlers, the channel and
the worker hold to what is outstanding; a retry or a second look is a stutter.

## Runs

| Run | Shows | Bounds |
|---|---|---|
| `queue` | `HeldOnce`, `RetryBudget`, `BlockedOnlyOverCapacity`, `ServiceSpec` (refinement), `NearerToEnd`, `EveryRequestEnds` | 4 requests, buffer of 2, 3 retries |
| `queue_stuck` | **violation** of `RescheduledIsAttempted` | 3 requests, buffer of 1 |
| `controller_safety` | `RecordBacked`, `NoOrphans`, `SuccessMeansRecorded`, `DeletionSettles`, `LifeSpec` (refinement) | 2 connections, the one in two clouds discovered late; a request by labels for both, a watch by id of one, each with its own allow rule, a request by id of the other that denies; 1 queued job, 1 retry, 1 fault |
| `controller_watches` | `WatchConverges` | 2 watches, late discovery, 1 queued job, 1 fault |
| `mapping` | `ConfigKept`, `ReportedIsRecorded`, `StatusConverges` | 1 connection in the second of two clouds, 1 fault |
| `mapping_watch` | **violation** of `WatchStays` | 1 connection, no fault |
| `mapping_disconnect` | **violation** of `DeletedIsDisabled` | 1 connection, no fault |
| `app_connections` | `RulesOwned`, `RecordsEnforced`, `NamesUnique`, `AllServed` | 2 connections, a request for one and one for "all", each begun twice, 1 deletion, 1 fault |
| `app_refresh` | `GroupsFollow`, `RangesFollow`, `Converges` | a group, two app connections to one service, a reference; 4 requests, 1 change of the matching addresses, 1 fault |
| `selectors` | `PolicyChosen`, `TranslationExact`, `PairsExact` | every combination of tables of two policies and two domains and eight selectors per side |
| `vmanage_policies` | `ReferencesExist`, `NoHalf`, `RemovedClean` | 3 connections at 2 sites, 2 apps, 5 jobs, 2 faults |
| `client_calls` | `LastWordWins`, `SuccessIsLinked`, `ServiceSpec` (refinement), `DisconnectHappens` | 2 clients, 2 ids, 4 calls, 1 retry, 1 fault |

Every passing run except `controller_watches` also checks its module's type
invariant. A fault is a failing call or a restart (`MaxFaults`). The bounds are
enough because:

- A buffer of two with four requests has room for the worker's request, a full
  buffer and a parked handler at once. The code's 3 retries are kept.
- Two goroutines exist, so two connections let them meet on one while another
  is in their loops; one connection in two clouds has the half-done states.
  One retry and one fault reach every error path, including the retry of a
  request that failed half way. Two configs that allow on one connection are the
  fewest that put two rules in place: after the fault in the one's creation the
  other creates, and the deletion goes by the other's record.
- The mapping treats every connection by itself, so one suffices; the second
  cloud is there for the pass that fails after the first.
- Two connections give a reference two children and let both goroutines count
  them; a request begun twice is a retry.
- One address that each app connection's source matches or not, and may start
  or cease to match, is had by none, one or both users of the service; a
  reference behind them ends the pass.
- Two connections at a site share its chain; two faults break off a request and
  its repetition.
- Four calls of two clients about an id are a connect, an opposite one that
  overlaps, a repetition and a read that finds nothing.

All invariants, action properties and refinements of the passing runs are also
proved without any bound. Proved and in no run are `RecordExact`, `PassShortens`
and `PassGoesOn` (`ConnectionController`), `WorkAtHand` (`RequestQueue`),
`CounterSteps` (`AppConnections`), `NoReturn` and `PassShortens` (`AppRefresh`)
and `UpdateShows` (`StatusMapping`): they follow from or refine what the runs
check.

Deadlock is checked except in the runs whose module has bounds on the number of
requests or is a single computation: there the last state is where the bound is
used up (`app_connections`, `app_refresh`, `client_calls`, `vmanage_policies`)
or the result is found (`selectors`).

### Fairness

- `RequestQueue`: weak fairness of receiving, processing and rescheduling. The
  Go runtime runs a runnable goroutine, every call has a deadline of 120 s, and
  the sleep ends. None of submission or restart: users and crashes are free.
- `ConnectionController`, `AppRefresh`: weak fairness of the refresher only (a
  ticker, and calls with deadlines). The worker may stall, so `WatchConverges`
  and `Converges` show what the refresher does alone.
- `StatusMapping`: weak fairness of the mapper and of the creation loops, for
  the same reasons. vManage and users are free.
- `ClientCalls`: weak fairness of the worker and of each handler that has begun.
  Calls, crashes and changes of the policy are free, so `DisconnectHappens`
  holds whatever else is asked for.

`EveryRequestEnds` reads "or the worker is parked in its own send": with more
unfinished requests than the buffer holds that can happen, which `queue_stuck`
shows, and `BlockedOnlyOverCapacity` says that nothing else makes it happen.

### What the violations show

1. **The queue can stop for good** (`manager.go:184`). When the buffer is full
   as the worker reschedules, it parks in a send only it could receive.
2. **With vManage a watch lives less than 30 seconds** (`db.go:188`). The
   mapper deletes records whose id vManage does not report.
3. **With vManage a disconnect may leave the connection up**
   (`disconnect.go:95`). A connection the refresher created has status
   `Watching`, and is taken for a watch.

### What the models had to follow

The properties hold of the code as it is, and where it does less than one would
expect the exception is in the property or in the model:

- The refresher looks at the deletion mark before its provider calls and not
  again before saving (`awi_connection_controller.go:287`), so it can undo a
  deletion that runs in between; `DeletionSettles` says when it cannot.
- A default-access rule is named after the request
  (`awi_connection_controller.go:1538`) and removed by the name in the record
  (`disconnect.go:262`). What a creation that broke off added stays when the
  connection is then created under another name and deleted: `leftover` in
  `NoOrphans`.
- The rule of an app connection to a NodePort service is never removed
  (`disconnect.go:232`): the exception in `RulesOwned`.
- App connections to one service take common addresses from each other
  (`disconnect.go:233`): the exception in `RangesFollow`.
- A refresh pass ends at the first reference or URL filtering
  (`awi_connection_controller.go:217`): `Reached` in `Converges`.
- Creating a connection with a site panics at its end (`db.go:147`), with its
  site's objects in place.
- A deletion that broke off behind the device template, or between URL filtering
  and list, can never be completed (`disconnect.go:181` and `:268`).
- The first listed policy decides when policies are selected by labels
  (`awi_connection_controller.go:490`).
- A port that follows an entry without port narrows the protocol to that port
  (`translator.go:72`): `Narrowed` in `TranslationExact`.
- A carried label whose key appears in two cases counts twice
  (`awi_connection_controller.go:552`): `Plain` in `PairsExact`.
- `GetConnection` of an unknown id ends the process (`server.go:791`), and every
  queued request is lost: `dropped` in `LastWordWins`.
- Record ids are two random words and may collide
  (`awi_connection_controller.go:661`); the modules take them as distinct.

## Proofs

TLAPS checks the theorems for all values of the constants, under the named
assumptions of the modules (finite limits are naturals, names do not collide,
matches are connections, tables are lists with distinct ids); nothing is assumed
about the sets' sizes. In each module one lemma per layer of the invariant has a
step per action.

- **RequestQueue.** The invariant adds to `TypeOK` and `HeldOnce` how
  `attempts`, `retires` and the worker's place belong together (attempts are
  retries plus one once a request has been received), and that a parked worker
  means more values in the channel than it buffers. It gives `TypeCorrect`,
  `NoneLostOrDoubled`, `BudgetKept` and `BlockedNeedsOverload`.
  `LargeBufferNeverBlocks` follows by counting: at most `Capacity` distinct
  requests cannot overfill the channel. `ImplementsService` maps each action to
  an action or a stutter of the service. `RequestsDrawToAnEnd` proves
  `NearerToEnd`, by what each step does to a request's place in the channel
  (unique because of `HeldOnce`), and `WorkerHasWork` that the worker is not
  left receiving from an empty channel while a request is unfinished.
- **ConnectionController.** `RecordBacked` and `NoOrphans` are not inductive:
  whether a save tells the truth depends on what the goroutine did before. The
  invariant adds `Placed` (what each place in the code implies for the local
  state), `RaceNoted` (two goroutines at work on a connection are in `raced`),
  `WorkState` (how far a creation or deletion has come, side by side with the
  clouds) and `TargetsCovered` (a request that has not failed has a record or
  outstanding work for each target). `NoOrphans` is kept connection by
  connection: a step that adds to the clouds is by a goroutine in `MadeFor`,
  one that leaves `MadeFor` puts its config into the record or into `leftover`,
  and `StillAccounted` covers the steps that concern another connection. It
  gives `TypeCorrect`, `RecordsAreBacked`,
  `NothingOrphaned`, `SuccessIsRecorded` and the action property
  `DeletionIsSettled`. `RecordsAreExact` is their conjunction for the reader.
  `ImplementsLife` splits the steps by what they do to a connection: one lemma
  for each stage (`BuildLife`, `SaveLife`, `DetachLife`, ...), on top of
  `UntouchedSame`: a connection whose record, links, rule, goroutines and
  histories a step leaves alone is where it was. `RaceNoted` is what makes a
  connection with two creators contested, `WorkState` what makes `up` true at
  the save. `TornRecorded`, an invariant of its own, says that a connection
  whose detachment has begun still has its record.
  `PassesShorten` compares, in this order, the watches left, the connections
  left, the place in a creation and the sides left; `PassNeverStuck` needs that
  some watch left has the least key, which `LeastOf` takes from the well-founded
  order of the naturals.
- **StatusMapping.** `ConfigKept` needs that what the mapper will merge was
  listed with its config (`ListedConfig`); `ReportedIsRecorded` needs that what
  vManage has shown since the pass began was seen or is still to be polled
  (`Polled`). It gives `TypeCorrect`, `ConfigIsKept` and the action property
  `ReportedGetsRecord`. `ListedAll`, that whatever has a record as the mapper
  writes was listed or has been saved since, gives `UpdatesAreExact`: the safety
  half of `StatusConverges`.
- **AppConnections.** `Typed` adds to the types what a goroutine has at hand at
  each place and which references it holds there. On it rest three independent
  layers. `Recorded`: a goroutine about to save a child has added its rule, one
  about to delete a record has removed it (`NoStrayRule`, `RuleStays`).
  `Serving`: while a request for "all" is carried out, each connection is still
  to come, has had its child or is on its way (`EveryConnectionServed`).
  `Begun`, `OneUser` and `Above`: outside a race a reference is used by one
  goroutine, which holds its stored counter, and no child has a number above it
  but the one being counted (`NumbersDiffer`); what a goroutine writes back is
  therefore the stored counter and one (`CounterCounts`).
- **AppRefresh.** `Steady`: an app connection is made once, and what the
  refresher listed of it is what is stored until it saves. `Following` adds what
  the group has between the provider's call and the save (`GroupsAreExact`).
  `Shared`: an address nobody contests belongs to one user of the service, and
  the service admits it exactly when that user's record, or the goroutine at
  work on it, has it (`ServiceIsExact`). `Writable`: what a pass is still to
  write back is stored and nobody is deleting it, or it is in `raced`; so a
  deleted record does not come back (`DeletedDoesNotReturn`). `PassesShorten`
  compares the records left and then the place of the one at hand.
- **VManagePolicies.** `Referred` says for each place which objects are there or
  gone, whatever failed before; `SiteProgress` and `AppProgress` say how far a
  chain is made where nothing has failed; `Asked` that an app's objects come from
  its one creation. They give `TypeCorrect`, `NothingDangles`, `NothingHalfMade`
  and the action property `RecordsGoLast`.
- **Selectors.** `Searching`: what was passed over is not named
  (`ChosenIsNamed`). `Translating`: the map after n entries admits what these
  allow, less what they narrow (`TranslatedIsAllowed`). `Pairing`: the lists are
  the domains matched so far, once each; with `CounterCountsLabels`, which shows
  by a bijection that the counter reaches zero exactly when every selected label
  is carried, this gives `ConnectedAreWanted`.
- **ClientCalls.** `Linked`: a connection about to be recorded is linked
  (`AnsweredIsLinked`). `Settled`: without a crossing, what is under way for an
  id is what was last asked for, and it is under way unless the record shows it
  or it was dropped (`LastWordHolds`). Lemmas on `Append`, `Tail` and a handler's
  change say how each step changes what is outstanding; with them
  `ImplementsClientService` maps each step to one of the register, and `Settled`
  is shown to be kept by the steps of the register instead of by those of the
  handlers and the worker.

Liveness (`EveryRequestEnds`, `WatchConverges`, `StatusConverges`, `Converges`,
`DisconnectHappens`) is only model-checked: fairness, ENABLED and the induction
along a well-founded order are out of the prover's reach. Of `EveryRequestEnds`
and of a pass in `WatchConverges` the rest is proved: each step comes nearer to
the end and there is a step to take; of `Converges`, that each step of a pass
comes nearer to its end, and of `StatusConverges`, what a completed update
leaves behind. Everything else the passing runs check is proved. No
module declares a RECURSIVE operator; the loops of the code are actions.

## Plan

Done: every module of the first plan, with proofs, three refinements, and what
four of the liveness properties rest on. What would come next:

1. What a completed refresh pass leaves behind when the sources have stopped
   changing, as `UpdateShows` says it of the mapper.
2. An abstract specification of an app connection, as `ConnectionLife` is of a
   network domain connection, implemented by `AppConnections` and `AppRefresh`,
   whose only common state is the set of stored app connections.
3. `ConnectionController` with two requests in the channel and the replacement
   of subnets by their VPC.
4. The lookup of a Kubernetes service by address, host or name, with the second
   reading of the policies in `updateInboundAllowRulesForService`
   (`kubernetes.go:208`).

## Not modelled

- App connections on connections from a VPN (`createACLSequence`): without a
  site the code computes access list entries and makes nothing of them
  (`createACLPolicy`, line 1094), and a connection with a site is stored only by
  the "awi" connector, which refuses to make such a policy (line 1091).
- The SLA and app connection policy tables, which nothing but their own handlers
  reads; list handlers, which are pure reads, and the handlers that panic with
  "implement me".
- Replacement of subnets by VPCs, the Kubernetes service lookup, and the copies
  between equal record types in `translator.go`.
- Start-up and configuration, the REST clients, mocks, the fake controller, the
  proxy and the deployment files have no state of interest here.
- Data races on `deletedConnection` are modelled as reads and writes in some
  order; that the Go runtime may end the process instead is covered by `Restart`.
