# frp-cluster in TLA+

This directory specifies the control plane and the client daemon of frp-cluster
(`src/internal/control`, `src/cmd/frp-cluster`): state machines translated from
the Go code, checked with TLC on small instances, and proved with TLAPS where a
result has to hold for every number of nodes and control planes.

## The system

A cluster is a set of machines, each running a **control plane** (web console,
HTTP API, JSON state file), an **frps** proxy server and an **agent**. A user's
machine runs the **client daemon**, which runs one **frpc** per configuration
the control plane gives it. All control planes hold the same kind of state and
copy it from one another.

| Component | State | Operations | Talks to |
| --- | --- | --- | --- |
| Join tokens, node records (`token.go`, `service.go`) | `Tokens`, `Nodes` | create a token, join, heartbeat, leave, admin leave, plugin event | agent, join and leave scripts, administrator |
| Peer sync (`main.go: runPeerSync`, `store.go: MergeState`) | the whole state, peer list | GET the peer's state, merge, POST the own state, merge at the peer | other control planes |
| Scheduler (`service.go`) | none | score a node, rank the nodes, recommend a migration, pin a client | the store's handlers, configuration requests |
| Store of clients and proxies (`service.go`) | `Clients`, `Proxies`, counts on nodes | plugin events, target set and cleared, settings | frps plugin, administrator |
| Target switch (`dns.go`, `api.go`, `main.go: runAutoSwitch`) | DNS entry (external), client target | DNS hook, target write, auto-switch loop | administrator, hook script |
| Client daemon (`main.go: runClient`) | config files, frpc processes | sync, reconcile, drain, failover, stop | control plane, frpc |
| Agent (`main.go: runAgent`) | its node token | measure, heartbeat, leave on exit | control plane, frps dashboard |
| State file (`store.go`) | JSON file | load and configure at a start, save after every handler | every handler |
| Traffic (`traffic.go`) | counters, samples | record, prune, merge, sum | agent, console |
| Events, switch metrics | lists, counters | append, merge | console |
| Sessions and TOTP (`runtime.go`, `totp.go`) | sessions, authenticator file | login, renew, logout, set up, confirm | administrator, console |
| Env files, admin config (`envfile.go`, `admin_config.go`) | `KEY=VALUE` files, their temporary files | save AliDNS and agent settings | administrator, agent, AliDNS hook |
| AliDNS hook (`dns_alidns.go`) | the zone's records (external) | look up, add or update | target switch, AliDNS |
| Config rendering, console, scripts | text | render | - |

What is hard here:

- **Concurrency.** The store's mutex makes what a handler does to the state atomic, but
  handlers read the time before they lock it (service.go:98), so one that had to wait
  stamps its write with an older instant than what it overwrites. Nor is a request
  atomic that takes the mutex twice: a target switch reads, runs a hook for up to 30 seconds
  and writes; `syncPeer` merges and then reads the state anew. The console's
  settings files have no lock at all: a request reads a file and rewrites it under
  a temporary name all its writers share. The client daemon
  is one goroutine that sleeps through drains while its processes live on.
- **Replication.** There is no leader. Every control plane writes its own copy
  and merges those of others record by record: last write wins for nodes,
  clients and proxies, a rule of its own for tokens.
- **Failures.** Messages are lost or arrive after the sender gave up; join
  responses are lost after the token was spent; hooks fail half-way, or are killed
  with a request to the name server under way; saves fail and control planes
  restart while peers hold what they have forgotten; frpc cannot
  be started or exits; nodes go silent, leave, and come back.
- **Time.** Nodes count as online for 90 seconds, measurements as fresh for two
  minutes, tokens expire.

`PROJECT.json` lists the hazards at their lines with the properties aimed at them.

## Modules

| Module | Models | Checked by | Proved in |
| --- | --- | --- | --- |
| `Membership` | tokens and node records on all control planes, peer sync | `MCMembership` | `MembershipProofs` |
| `LastWriterWins` | abstract: what copying records between control planes promises | refined by `Membership` | `MembershipProofs` |
| `PeerStore` | client records, peer lists and the state file on all control planes | `MCPeerStore` | `PeerStoreProofs` |
| `Scheduler` | scores, ranking, migration rule, pinning (pure operators) | with the next two | `SchedulerProofs` |
| `SchedulerLaws` (extends `Scheduler`) | two networks or three nodes, compared | `MCScheduler` | `SchedulerLawsProofs` |
| `ControlStore` (extends `Scheduler`) | one control plane's nodes, clients, proxies, recommendations | `MCControlStore` | `ControlStoreProofs` |
| `TargetSwitch` (extends `ControlStore`) | DNS hook, target requests, auto-switch loop over the store | `MCTargetSwitch` | `ControlStoreProofs` |
| `FrpcClient` | the client daemon and its frpc processes | `MCFrpcClient` | `FrpcClientProofs` |
| `ClientSystem` (extends `FrpcClient`) | the daemon with the control plane's choice of nodes and frpc's reports | `MCClientSystem` | safety: `FrpcClientProofs` |
| `Traffic` | traffic counters, samples and their merge | `MCTraffic` | `TrafficProofs` |
| `EnvFiles` | saving a `KEY=VALUE` file, system call by system call | with the next two | `AliDNSProofs` |
| `EnvValues` | how a value is quoted and read back (pure operators) | `MCAliDNS` | - |
| `AdminConsole` (extends `EnvFiles`) | sessions, authenticator, settings | with the next | `AliDNSProofs` |
| `AliDNS` (extends `AdminConsole`) | the AliDNS hook, which reads the saved settings | `MCAliDNS` | `AliDNSProofs` |

### Membership

`tokens[r]` and `nodes[r]` are the maps of control plane `r`. `env[n]` is the
node token in the node's env file, `agent[n]` the one its running agent was
started with. A request (`Requests`: what callers may ask at a moment) takes its instant
and is served at once (`ServeAtOnce`), or it waits for the mutex with the instant it has
(`Wait`) and is served later, in any order (`ServeWaiting`), as the code reads
`time.Now()` before it locks. What happens under the mutex is one step, `Handle`:
`JoinNode`, `HeartbeatNode`, `LeaveNode`, `AdminLeaveNode` or `PluginContact` if it is
`Admitted` then. The join's response may be lost (`delivered`). A refused
heartbeat ends the agent; systemd starts it again with what the env file then
holds (`HeartbeatRefused`). `CreateJoinToken` writes a key nobody else has; waiting only
shortens its token's life, so it does not wait.

A sync with a peer is `FetchState`, `MergeFetched`, `PostState` or `PostFails`,
and at the peer `DeliverPost`. Replies and posts lie on `wire`, a set, so they
overtake each other and stay there while handlers run at both ends; any of them
can be lost. `MergeToken` and `MergeNode` are MergeState's rules for one record; a merge
may have waited as well, so the instant it compares tokens with is any past one.

Abstractions: a node token is the instant it was drawn at. `UsedBy`, a list with
repetitions, is its length and its set of members, all the code reads of it.
Clocks agree and no two handlers share an instant (nanoseconds). `minted` and
`admissions` are history, read by properties only. Names, addresses and ports
are left out, and a node's client and proxy counts, which change without a stamp; clients
and proxies are in `ControlStore` and `PeerStore`.

`LastWriterWins` is the abstract specification of the node records: every replica
keeps a copy of each, a write gets a version that no copy in sight has (a newer or, if it
had waited, an older one), snapshots
travel and get lost, and a receiver keeps the newer copy of each record. The
refinement (`Registers`) maps `copies` to `nodes` and `transit` to the node maps
of `wire`; tokens are hidden. It would fail if any exception of MergeState, any
handler that writes without a stamp, or a merge of single fields showed in the
node records. `Registers!Spec` is checked, and proved, as `NodesAreRegisters`.

### PeerStore

`mem[r]` is what control plane `r` has in memory, `disk[r]` its state file: the
clients, the peer list, and whose machine's node record it has. Every handler
ends in `Keep`, with a save that succeeds or fails (`saveLocked`); after a failure the
caller gets an error and memory keeps the change. `Restart` goes back to the file
and adds the peers of the command line. `acked[r][c]` is history: the newest
version of client `c` that `r` has ever saved, or the older one that a handler which had
waited for the mutex (`waiting[r]`, `Served`) wrote over it.

`PluginContact`, `PluginLogout`, `LeaveNode`, `HeartbeatNode`, `SetClientTarget` and
`JoinNode` are the handlers as far as they change clients or peers; a
recommendation may name any node, since which one is `ControlStore`'s matter. A
sync is `PullState`, then `PostState` or `PostFails`, then `DeliverPost` or
`LosePost` at the peer, possibly long after.
GET and merge are one step: an answer that is late is merged as a late POST is.

A client's version counts only within its own record, so joins take no instant
here. A control plane's URL is its name, and every machine's node record carries
the URL of the control plane on it, which is how the peers of an older peer get to
a newer one. Proxies are merged by the rule for clients and left out.

### Scheduler

The operators carry the Go functions' names and tables. A network is the record
of `NetworkStatus`, staleness a Boolean. `Precedes` is the comparison given to
`sort.Slice`; `Best` the first of the sorted slice. `SchedulerLaws` draws two networks, or three
nodes of one store, from sets it is given, and compares them: every state is a case.

### ControlStore

One store without peers. Every handler that touches nodes or clients ends with
`Settle`: recount, then recommend, as in the code. Instants are replaced by ages
that stop counting one past the limit they are compared with, so time needs no
bound. `proxies[n][c]` is client `c`'s proxy on node `n`; several proxies of one
client on one node differ in name only. `Served` is what single mode answers.
A negative gap is refused after AutoMigration was set, as in `UpdateConfig`.
The administrator switches AutoMigration off and on at any time. A recommendation made
before is then served as it stands, even if its client has moved onto the node since
(`Misdirected`), until the next heartbeat: `PendingTargetIsElsewhere` says that this is the
only way. Handlers do not wait a tick for the mutex here: ages are of seconds, waits are not.

### TargetSwitch

`job[w]` is the request an administrator or the loop is serving: the hook runs,
then it has moved the DNS entry, then the target is written or refused. A hook
may fail or time out before or after it moved the entry. Requests without a
client are DNS tests, which run the hook for real. All store handlers interleave.
`mover` is history: the request that moved the entry last, until it is over.

All clients share the one public entry host, so there is one DNS entry: with
several clients, or two requests at once, it cannot agree with all targets, and the
property says what remains true: a target is written where the entry points
unless another request has moved it since. If the target is refused after the hook
(the node went offline), the entry stays moved: nothing in the code moves it back.
A hook is here a step that moves the entry or does not; requests to the name
server that outlive it are in `AliDNS`. It may run for ever: the kill after 30 seconds does
not end `cmd.Run` while a child of the hook holds its output open, and the documented hook is a
wrapper script that runs the updater as a child.

### FrpcClient

`pc` is the goroutine's place: before the first sync (`boot`), at its tickers
(`idle`), starting processes (`start`), stopping stale ones (`stale`), asleep in
a drain (`drain`), `stopped` with nothing running, or `killed`. `todo` is what its loop over a Go
map has left, in
any order. `files` is the work directory: `writeConfigFiles` removes the other
files before any process is touched. `draining` holds the process that is
already out of the map and not yet stopped. Processes exit at any moment. The
control plane's answer is any set of nodes the mode may select, minus excluded ones.

SIGINT and SIGTERM are caught only after the first sync (main.go:439-446). Before that they end
the client at once (`Killed`), without the deferred `stopAll`, and what it had started runs on:
`orphans`, which the next client does not know. The unit the scripts install stops them with
the service (systemd's default `KillMode=control-group`); a client started otherwise has nobody
to do so, and the model lets them live.

### ClientSystem

`FrpcClient`'s answers are now computed: `online` is what the control plane takes
for online, `client` its record of the client, and `selectNodesForClient` chooses by
mode, limit, exclusion, manual target and current node. The ranking is any, because it
changes with every heartbeat. A running frpc reports itself through the plugin of
its node (`Report`), and the report is applied later (`ApplyPluginEvent`), perhaps
after the process was drained; an orphan reports itself too. `ServedFirst`, `ServedTick` and
`ServedFailover` are the daemon's syncs with these answers; nodes come and go and
the target changes by other hands at any time. There is one control plane and one client.

### Traffic

`samples[r]` is the list of samples of control plane `r`, in its order: recording
appends, a merge sorts. `frps[n]` is what the dashboard of node `n` shows,
`carried[n]` what the node has carried since the start, a history the properties
compare the samples with; the two part when frps restarts (`ScrapeFRPSTraffic`).
Reports lie in `reports` until `RecordTraffic`, the heartbeat's handler, samples
them, in any order. States on `wire` are copies of a list, as old as it takes.

Abstractions: one direction of traffic; instants are seconds, by which merges tell
samples apart; connections, the counters of single proxies, window totals and the
last report on the node's record are left out. An agent reports to one control
plane (`Home`), as `runAgent` does; a node with two agents that report to different ones
would be counted by both. A report is handled within `MaxDelay`, less than the
half an interval (30 s): the agent posts a heartbeat every 30 s and waits for each answer, and a
request left behind by an agent that was killed is assumed not to be served that late. If it
were served an interval late, it would become the last sample, and the next delta would count
bytes again.

Filters and sorts are written without recursion: `Listed` puts an element where the
number of those before it says. `SumOf` is a recursive function over a list's indices.

### EnvFiles, AdminConsole, AliDNS

`live[f]` and `tmp[f]` are a settings file and its temporary file. A save
(`save[w]`) is a call of `WriteEnvFile`: open and truncate, write, rename, each of
which may fail, and all of which a restart cuts short. All writers of a file use
one temporary name: if one renames it while another still has it open, the other
writes into the live file (`fd`). Of a file's content one value is kept: the authenticator's
secret, the AccessKey secret, the node token of `node.env`. `due[f]` is history: what
the last save that reached the file was to make it say; `overlapped` is history
too: the files two requests have saved at the same time.

`AdminConsole` has the sessions (an age, up to one past the idle time), the
authenticator's set-up, which stores nothing, and confirmation, which does, and the PATCH of
AliDNS and agent settings, one file after the other. Whoever has a secret can give
a right code. Password, node file and AliDNS file are taken as configured.

A PATCH that leaves the AccessKey secret empty writes back what it reads. The read may fail,
and `WriteAliDNSSettings` drops the error: it then writes an empty secret (`misread`). A secret
in `Altered` is not read back as it was written; the model lets it be read as anything. Which
ones these are is the matter of `EnvValues`, which has the two functions character by character:
`'` is written as `'\''` and read back as `'''`, so a secret with a quote changes
whenever the field is left empty. `MCAliDNS` takes a secret in double quotes and one with a
single quote, and computes `Altered` from `EnvValues`; `OthersAreKept` joins the two models.

`AliDNS` is the hook that is shipped. It reads the AccessKey, looks for the record of the
public entry host, and adds or updates it. `zone[h]` is the record run `h` has
added. The lookup reads the first page of 20 of the records its keyword matches, so `Describe` may
find none although there is one (`hidden`). `sent` holds requests under way: they are carried out
or lost, whether
their sender is still alive or not. The zone is external, modelled from how
`runAliDNSUpdate` uses it.

## Runs

All bounds are in the `.cfg` files.

| Run | Instance | Shows |
| --- | --- | --- |
| `membership_mesh` | 2 control planes, 1 node, one one-use token, 3 instants, 1 waiting request, 1 post in flight, fairness | `TypeOK`, `OneUsePerReplica`, `NodeVersionsAgree`, `SpentStaysSpent`, `OnlyWaitingRegresses`, `NodesAreRegisters` (the refinement), `NodesConverge` |
| `scheduler_laws` | pairs of networks on either side of the tables' thresholds, triples of nodes with two values per field | `StaleScoresLow`, `FasterScoresHigher`, `NoPingPong` |
| `store_settings` | 2 nodes, 1 client, good and poor links, gaps -1 and 50, AutoMigration on and off | `TypeOK`, `CountsSound`, `LeftNodeIsEmpty`, `PendingTargetIsElsewhere`, `StaysWherePut`, `ManualTargetHolds`, `StrandedIsRecommended` |
| `switch_loop` | 2 nodes, 1 client, one administrator and the loop | `SwitchTypeOK`, `SwitchedWhereDNSPoints`, `OnlyRequestsMove` |
| `client_failover` | failover mode, 2 of 3 nodes, 2 versions of their configurations, fairness | `TypeOK`, `NoOrphans`, `OnePerNode`, `NeverStopsTheLast`, `SyncEnds`, `ExitIsRetried` |
| `client_system` | failover mode, 1 of 2 nodes, fairness | `TargetIsFollowed`, `DownIsRetried` |
| `peer_restart` | 2 control planes that know each other, 1 client, 1 node, 2 instants, 1 waiting handler, 2 faults (restarts or failed saves), 1 post in flight, fairness | `TypeOK`, `AcknowledgedSurvives`, `ClientVersionsAgree`, `EveryoneAgrees` |
| `traffic_series` | 2 control planes, 1 node, interval 3, retention 5, lists of 2 samples, 7 seconds, 3 bytes | `TypeOK`, `SeriesWithinCarried`, `SamplesStay` |
| `console_dns` | 2 saving requests, 2 sessions, 2 secrets, 2 keys (one in double quotes, one with a single quote), 2 runs of the hook; values of up to 4 characters | `TypeOK`, `FilesSayWhatIsDue`, `OnlyUnseenIsAdded`, `OthersAreKept`, `EndedStaysEnded` |

Why the bounds suffice.

- Three instants hold a token's creation, a join, and one more write, with stale
  copies of every one of them on the wire; two control planes are enough for a
  stale copy to come back. They also hold a request that waits while a join with a later
  instant is served, and takes the record back. Tokens of one instant expire unspent, those of
  three do not expire: that a spent one expires is left to the proof. The revived token needs a
  third control plane, which has its own run; the other two runs of `Membership` have no
  waiting requests. The proofs cover any number of all of these.
- In the store two nodes hold every case of "the best", "the current" and "the
  target"; a third adds only rank, which the laws of the scheduler cover. One
  client is enough where properties speak of one; counts are then 0 or 1, and the
  proofs do not depend on it. A limit of one tick lets every record be fresh, at
  its limit and past it.
- In `switch_loop` nodes are online for the tick of their heartbeat only and have no measurements, so
  that a recommendation, a hook and a leave may come in any order. One
  administrator beside the loop is the smallest case in which two hooks overlap.
- The daemon's three nodes allow an answer that is disjoint from, or overlaps
  with, the one before; two versions let a file change under a process. In
  `client_system` one version is enough, as no property is about contents. It asks for
  one node of two, since only then is a manual target looked at; a third node would only add to
  the ranking.
- In `peer_restart` two instants let each control plane write a version the other has not
  seen, or a handler wait with the first while the second is written and saved; two faults let a
  save fail and the restart that follows forget it. Nodes differ
  only in being recommended or not, so there is one. The sync loops go on for ever.
- Samples of different nodes meet only in the cap of a list, so one node is
  enough; two samples fill a list. With an interval of three seconds and a retention of
  five, three samples can be within the retention, so the cap bites, and seven seconds let
  samples leave the retention while older copies are still under way.
- In `console_dns` every request, session, secret and run is used once; two of each
  are the smallest case in which they overlap. Four characters hold two quotes with something
  between them and a second escape.

`membership_revived` uses `PullSpec`, some of the behaviours of `Spec`: three
control planes in full are out of reach, and a counterexample needs no more.

### Disagreements between code and documentation

Each is a run that checks one property the documentation, a comment or a test
states and that TLC refutes; `PROJECT.json` quotes the sentences.

| Run | Refutes |
| --- | --- |
| `membership_revived` | A token reported exhausted is refused: merging a copy with a longer `UsedBy` raises `UsesLeft` again (tokens with several uses, three control planes). |
| `membership_credential` | A node token is long-lived: a heartbeat or plugin event elsewhere stamps the old record later than the new join, whose token the merge then drops. |
| `store_lost_target` | An administrator's target is served at the next sync: with AutoMigration on, the next heartbeat clears or replaces it. |

Further limits of the code, seen while modelling and written into the
properties' wording rather than checked by runs of their own:

- A one-use token admits once per control plane until its copies meet, hence
  `OneUsePerReplica`. A merge that waited for the mutex may bring back a copy that has
  expired meanwhile, and a join with as old an instant then spends it again: such
  `late` joins are exempt.
- A handler that waited for the mutex stamps its write with an instant older than that of
  the record it overwrites (service.go:98-99, 292-299, 432-434). At home the record goes
  back to that version, and the next merge with a peer that has the newer one undoes the
  write. `OnlyWaitingRegresses` and `AcknowledgedSurvives` say that nothing else takes a record back.
- An update of the settings whose score gap is refused has switched AutoMigration
  all the same (`UpdateConfig`).
- AutoMigration switched off and on again leaves a recommendation that was made before as
  it was, though its client may have moved onto the node meanwhile; the auto-switch loop then
  runs a hook for a client that is already there: the first case of `PendingTargetIsElsewhere`.
- The auto-switch loop serves each candidate as it was read before the hooks of those
  ahead of it (main.go:144): an administrator's choice written meanwhile is
  overwritten, and AutoMigration may be off by then.
- A measurement that has grown old scores at most 40, yet that is more than a poor one taken now.
- The bandwidth table's branch for less than 1 Mbps is unreachable by integer
  division; such a link scores like an unknown one, hence `Known` in
  `FasterScoresHigher`.
- Two target requests at once interleave hook and target, and may leave the DNS entry
  and the target at different nodes, hence `mover` in `SwitchedWhereDNSPoints`. So does a
  target that is refused after the hook, and nothing moves the entry back.
- SIGINT or SIGTERM during the client's first sync ends it without `stopAll`: `NoOrphans`
  says that it leaves a frpc behind in no other case.
- In single mode, and for a file whose content changed, the old frpc is stopped
  before the new one starts: `NeverStopsTheLast` exempts a replaced file.
- A start that fails ends a sync after the files of the old nodes were deleted. If the
  old frpc, still in the map, exits then, the failover ticker finds no node in
  the deleted file and does not retry: `ExitIsRetried` speaks of processes whose file exists.
- In failover mode with a limit above one, and in aggregate mode, a manual target has
  no effect on what is served: `TargetIsFollowed` is checked with a limit of one.
- A client that reports from a node the store does not know is sent to the best
  node: the last case of `StaysWherePut`.
- A merge takes whole records, so a later ping at one control plane overwrites a
  manual target set at another. All control planes then agree that there is none:
  `EveryoneAgrees` says that they agree, not on what.
- `MergeState` takes the own URL out of the peers and then puts those of the node
  records in, its own among them, though service_test.go:104 wants it out: a
  control plane polls itself. It does in `peer_restart`, and `EveryoneAgrees` holds all the same.
- Two requests that save one file at once may leave it torn, or with an older AccessKey
  secret than the one a blank field was to keep (docs/proxy-cluster-deployment.md:204):
  `FilesSayWhatIsDue` is about files no two requests have saved at the same time. The same
  sentence is not kept by one request alone if reading the file fails (admin_config.go:47
  drops the error and an empty secret is written, `misread`), nor for a secret with a
  single quote, which is another one each time the field is left empty (envfile.go:51, 92).
- If two first runs of the hook overlap, or a killed first run's request is carried out
  late, the public name gets two records, and later runs update one of them. A record that
  is not among the first 20 the keyword matches is added again as well (dns_alidns.go:68), though
  docs/proxy-cluster-deployment.md:550 says it is updated: `first` and `hidden` in
  `OnlyUnseenIsAdded`.
- The `token` command, when its password is not a code, sets up and confirms an
  authenticator of its own (main.go:570). That replaces the bound one, its secret is kept nowhere,
  and the request that follows carries no cookie and is refused. In the model it is
  `TOTPSetup` and `TOTPConfirm` by a holder of the password.
- A session is renewed by every request, but its cookie keeps the expiry of the login.

## Fairness

- `Membership!Fairness`: each sync loop goes on (`WF` of posting or giving up,
  HTTP calls time out after 5 s), and of infinitely many GETs to a peer
  infinitely many are answered (`SF`). Nothing is assumed of nodes or
  administrators; handlers stop because instants are bounded.
- `PeerStore!Fairness`: the same loop, and of infinitely many pulls from a peer
  infinitely many are answered and saved (`SF`). A POST need never arrive: pulling
  alone makes control planes agree.
- `FrpcClient!FairSpec`: the goroutine goes on through reconcile and drain (a
  stopped process is killed after 5 s, a drain is a fixed sleep), and the
  failover ticker fires while the control plane has a node to answer with. That
  a start succeeds, or that the ordinary ticker fires, is not assumed.
- `ClientSystem!FairSystemSpec`: the goroutine as above; besides, the ordinary
  ticker gets its turn, because Go's `select` takes one of the ready channels at random, and
  a node whose frpc is started again and again is started once (`SF`). Without
  the latter nothing could ever run.

`TargetSwitch` has no fairness, and no property says that a request or a round of the loop ends: the
hook's context kills the hook after 30 s, but not what it has started, and `cmd.Run` waits for
whoever holds the output open. A sync of the client is one step together with its HTTP call,
for which the daemon sets no timeout (main.go:671, 703): `SyncEnds` says that reconcile
ends, not that a control plane which accepts the connection ever answers.

## Proofs

Each module of theorems extends the module it is about and assumes only that
module's named `ASSUME`s: finite sets of nodes, clients and control planes,
ids that are positive numbers, absent keys that differ from records, bounds that
are natural numbers. TLC evaluates all of them in the runs above.

**`MembershipProofs`**, for any number of control planes, nodes and tokens, any
peer graph and any bound.

- `TypeCorrect`: `TypeOK` is inductive.
- `OneUseAdmitsOnce`, `OneUseStaysSpent`: neither property is inductive, because a
  stale copy on the wire could undo a use. `LedgerInv` says what copies there can
  be: a copy of a one-use token is either unused or used up with a non-empty
  `UsedBy`, all copies carry the expiry the token was made with, and a control
  plane that has admitted someone holds a used-up copy, or none after the expiry.
  The merge rule keeps used-up copies used up (`MergeTokenGood`).
- `ImplementsRegisters`: the records implement `LastWriterWins`. A handler writes
  at an instant that no copy has, be it newer or older than theirs, since by `VersionInv`
  (below) all copies are of the past and none of an instant that is still waiting
  (`RegisterWrite`); a merge keeps the newer of two copies
  (`RegisterMerge`), and sends, losses and steps of tokens and agents map to sends,
  losses and stutters (`RegisterStep`).
- `VersionsAgree`, `OnlyWaitingGoesBack`: `VersionInv` ranges over every copy of a node,
  on control planes and on the wire. Its time is past, it has a node token, and
  its time determines it. Waiting requests have instants of their own (`WaitingInv`), each
  `Unused` by any copy, so a write takes a version nobody has, whether it waited or not; a
  merge keeps one of two copies (`MergeNodeKeeps`), never the older.

**`SchedulerProofs`**, for all measurements.

- `RankingIsStrictOrder`: irreflexive, total on different ids, transitive.
- `BestIsFirst`: every finite non-empty set of nodes has a first one. The argument
  takes a smallest set without one, removes a node and compares it with the
  first of the rest.
- `GapIsHysteresis`: after a recommendation is followed, the reverse one is not
  given while the scores stand, whatever the move did to the counts.

**`ControlStoreProofs`**, for any finite sets of nodes and clients, any links, gaps
and limits. All handlers but three end with `Settle`; `SettleKeeps` says what it
may change, on the grounds that the best of the online nodes is one of them
(`BestIsFirst`), and `SettlingSettles` that every one of these handlers hands it
a store in which records stay, clients keep their targets and move only to the
node that reported them. `Inv` is `TypeOK`, `CountsSound`, `LeftIsEmpty` (the
left nodes' property without cardinalities) and `TargetsKnown` (a target is a
node the store has seen).

- `TypeCorrect`, `CountsAreSound`, `LeftNodesAreEmpty`: conjuncts of `Inv`.
- `PendingElsewhere`: a step that settles the store leaves no client with a target that is its own
  node, but one that had it before (`SettlingMisdirectsNobody`). When a client
  pings from its pending target while some node is online, the target is computed
  anew; if none is, the ping came from an unknown node, and `TargetsKnown` tells it
  from the target. What is left is `UpdateConfig` switching AutoMigration on. After a
  heartbeat only offline clients keep such a target (`HeartbeatDirects`).
- `StaysPut`, `TargetsHold`: step properties from `Inv`.
- `StrandedAreRecommended`: the node whose heartbeat it is is online when
  recommendations are made, so there is a best node; a client whose node is
  not among the online ones is given it (`RecommendKeeps`).

Of `TargetSwitch`, in the same module, for any number of requests at once, the
invariant adds to the types that `dns` is the mover's node while its request lasts (`MoverMoved`).

- `SwitchTypeCorrect`, `SwitchedWherePointed`: a target is written by a request whose
  hook is done; if it is still the mover, its node is where the entry points.
- `SwitchImplementsStore`: the requests' steps are steps of `ControlStore` or leave
  the store alone, so `SwitchSpec` implies its specification. `SwitchedStoreIsSound` draws
  the conclusion for the properties of the store.
- `OnlyRequestsMoveClients`: by `ControlStore`'s invariant and what a step may do to a
  client, the step that gives a client on a live node another one is the end of a request.

**`SchedulerLawsProofs`**, for any sets of networks, nodes, gaps and counts.

- `StaleScoresAreLow`, `FasterScoresAreHigher`: the tables give percentages and are
  monotonic where their values are known (`LatencyIsMonotonic`, `BandwidthIsMonotonic`);
  weighing and rounding keep the order (`WeighedIsMonotonic`).
- `GapsEndPingPong`: `GapIsHysteresis`, for three nodes of one store.

**`FrpcClientProofs`**, for every mode, any finite set of nodes and any versions.

- `TypeCorrect`, `StopsEverything`, `OneFrpcPerNode` follow from `Inv`: files and
  processes are at their node's path (`Placed`), what a loop has left has not been
  met before (`LoopLeft`), the process that drains is no longer in the map and its
  path is free (`DrainAlone`), nothing runs before the first sync or after an ordinary
  end (`NoneBefore`), and a client is killed only before its first sync is over
  (`KilledEarly`): whoever becomes an orphan had such a client.
- `StartsBeforeItDrains` needs what a sync has achieved so far: while it starts
  processes, every file without one is still ahead of the loop; when it drains, all
  files have one, and only processes without a file are drained (`Replaced`). If
  nothing runs after such a step, a process with a file has exited.
- `SystemImplementsClient`: every step of `ClientSystem` is one of the client or
  leaves it alone, so the three results hold there too (`ServedClientIsSafe`).

**`PeerStoreProofs`**, for any control planes, nodes and clients, any number of
instants, failed saves, restarts and posts.

- `AcknowledgedWritesSurvive`: inductive only together with the same of memory
  (`MemoryKeeps`): a save writes what is in memory, so memory may not have forgotten
  anything saved. A merge takes a newer record or none, and a restart reads the file; what a handler
  that had waited writes is acknowledged at its older version.
- `VersionsAgree`: over every copy of a client, in memory, in files and on the wire. A
  change made now is newer than all of them (`InThePast`), one made at an instant that waited has a
  version none of them has (`NotYetUsed`), also when its save fails and a restart forgets it
  at home while it lives on at a peer.
- All handlers, merges and deliveries end in `Keep`; `KeepKeeps` proves it once, for
  any state that may be kept (`MayKeep`).

**`AliDNSProofs`**, for any requests, sessions, secrets, keys, runs and addresses.

- `FilesSayTheirDue`: inductive with `Orderly`: of a file that no two requests have saved
  at once there is at most one writer, whose temporary file holds what its last call
  made it hold, truncated or complete; and both say what is due (`Says`), which excuses a
  secret in `Altered` and, once a read has failed, an empty one. `NoNodeEnv` is the machine
  without a `node.env`.
- `OnlyUnseenAdded`: a record that was found stays, a run with a request under way that found
  none is a first one or its page did not show one (`FoundStays`), and a run that began before
  there was a record is a first one (`ZoneInv`).
- `TypeCorrect`, and `EndedSessionsStayEnded`: no step gives a session back (`NoneRevived`).

**`TrafficProofs`**, for any control planes, nodes, bytes, caps and instants. Assumed are the
order of the constants (an interval within the retention, 60 s and 7 days in the code; reports
handled within half an interval, above) and that a full list has room for three samples of
every other node: with the code's cap of 100000, up to 33000 nodes. With more, a list could be full
of the others' samples of one interval, and a node would lose its last one and begin anew.

- Lists: `ListedInOrder` (every element once, in order), `CappedIsTail`, `PruneLeaves` and
  `MergeLeaves`. The last two give what recording and merging leave (`LeftOf`): samples in
  order, no two alike, and what is retained and missing gave way to a full list of newer ones.
- `SamplesRemain` follows from `LeftOf`, since a merge has no two different samples of a node
  and second to choose from (`Agree`).
- `SeriesIsCarried` needs an invariant about every copy of a sample, in lists and on the wire
  (`TrafficInv`). At its home a node's newest samples are found; if one is missing there, so are
  all older ones, and no stale copy brings them back (`HomeIsNewest`), as they are too old or
  the list is full of newer ones. A sample younger than an interval is
  followed at home by one of its node (`HomeIsRecent`), by counting the samples of the other nodes
  (`RoomForOthers`), so the copies of a node are an interval apart (`Spaced`), and a delta is
  taken from the newest copy there is (`DueIsLate`). Hence there are amounts `paid` the node had
  carried at each report that cover the deltas since any older copy (`Paid`); a
  sum over a list is covered by the newest sample in it (`SeriesIsPaid`, by `UpTo` over the
  indices of the list).
- `TypeCorrect`: a conjunct of the invariant.

`FilesSayTheirDue` is weaker than it looks without its hypotheses: it is about files no two requests
have saved at once, secrets that are read back as written, and reads that did not fail; the code
promises no more.

Only model-checked, within TLC's bounds above:

- Liveness: `NodesConverge`, `SyncEnds`, `ExitIsRetried`, `EveryoneAgrees`,
  `TargetIsFollowed`, `DownIsRetried`. Fairness is out of the prover's reach.
- `OthersAreKept`: what a value is after quoting and unquoting is computed by recursion over its
  characters. TLC evaluates it for all values of up to four of them.
- The three disagreements above, which are counterexamples.

## Not modelled

- Events and switch metrics: audit data that no handler reads.
- The merge of proxies: the rule is that of clients.
- Window totals and per-proxy counters of traffic: sums shown to people.
- Public URL, entry host and auth token: constants of a control plane; the auth
  token is copied from a peer once.
- Rendering of frpc configurations, proxy specifications, HTTP decoding, the console, the
  scripts, and how latency and bandwidth are measured: text, pure input and output.

`PROJECT.json` has a note for each part.

## Plan

Every safety property of the passing runs but `OthersAreKept` is proved. What could come next:

1. The merge of clients in `PeerStore` as last-write-wins registers with crashes, beside
   `LastWriterWins`, whose writers never forget.
2. Proxies on several names per client and node in `ControlStore`, for the count of them.
