# TLA+ models of the ffgt packages for Gluon v2016.2

The repository holds the packages the Freifunk communities around Gütersloh add
to the Gluon firmware of their mesh routers: shell and Lua scripts started by
cron, by the boot, by the upgrade machinery and by LuCI, one C daemon, and a
status page in JavaScript. Nothing in it is a distributed algorithm. What is
hard is that many small programs share a few files in flash and in /tmp, are
started by clocks that do not know of each other, and are cut short by reboots
and power losses; and that the daemon waits for child processes and signals.

All paths below are relative to `src/`.

## 1. The system

| Component | State | Operations | Hard because | Correct if | Here |
|---|---|---|---|---|---|
| `gluon-radv-filterd` (C daemon) | router list, best router, max TQ, one ebtables child, SIGCHLD mask, ebtables chain | RA received, expiry, update of TQs, election, ebtables call with timeout; procd respawn | child and signal races, freed memory, hanging or failing ebtables, death half-way | chain accepts at most the elected router; election within the threshold; updates end | modelled |
| site selection: `ffgt-siteselect`, `gluon-ffgt-hacks/.../siteselect`, `998-commit`, `site_config.lua` | siteselect and locode in uci, site.json, generated configuration, reboot flag, lock file, cron line | boot run, cron run, 020-site-select, site-upgrade, reboot | runs overlap, two scripts run each other, power loss in `cp`, flag against reboot loops | the selected site is installed, built and booted; no reboot loop | modelled |
| `ffgt-geolocate` | /tmp/geoloc.out, /tmp/geoloc.sh, /tmp/run/wifi-data-sent, location in uci | senddata.sh, rgeo.sh, geolocate.sh, getcfg.sh | four scripts share two files without a lock; slow server | what was checked is what is stored | partly |
| setup wizards: geo-location, siteselect, S01gluon-ffgt-hacks.sh | location in uci, site.json | page handlers, background 020-site-select | background job races the reboot | a node that was set up has the site of its place | partly |
| `gluon-ssid-changer` | hostapd files, /tmp/node_is_offline, offline counter | minutely cron | tests for files another package relies on | SSID follows the uplink | not modelled: dead code |
| `ffho-` and `tecff-autoupdater-wifi-fallback` | unreachable_since, last_run, wireless section | hourly cron | stops the mesh and reconnects; saved but uncommitted state | the node always gets its mesh back; an unreachable node tries a neighbour | partly: Wireless |
| `gluon-luci-wifi-config-ffgt` (form, nachtruhe.sh, upgrade 321) | wireless.client_*: disabled, cfgdisabled, nachtruhe; staged and committed | hourly cron, form, upgrade | the night's state is staged only, everybody else commits | day state = configured state | partly: Wireless |
| `ffho-ath9k-blackout-workaround` | state files in /tmp | minutely cron | wifi restarts | restart only after the wait times | planned |
| `gluon-status-page-ffgt` (browser) | list of nodes, current node, epoch, races, streams, tables, graphs | goto, reply, error, stream events, reload | late replies, streams left open, lost events | the page shows the node last asked for, and its neighbours | partly: StatusPage, Neighbours |
| `gluon-luci-portconfig-ffgt` | network.* interface lists | form handler | one handler rewrites several sections | a port is in at most one network | planned |
| `gluon-core-ffgt` upgrade scripts | the generated configuration | sequential scripts | only through site-upgrade | | one step of SiteSelect |
| `util-ffgt.lua` generate_mac | none | pure function | | distinct interfaces, distinct MACs | later |
| node-info, setup-mode network, config-mode texts, LuCI forms, ffgt-status-page, alfred-restart, banner, lowmem | single options, texts | straight-line | | | not modelled |

How they interact. `senddata.sh` and `rgeo.sh` write the place of the node into
`gluon-node-info`; the siteselect script turns the place into a community,
copies its site.json and runs `site-upgrade`; that runs all upgrade scripts,
020-site-select included, which itself copies site.json and runs `site-upgrade`
again under a lock. `ssid-changer` would tell the fallback that the node is
offline by /tmp/node_is_offline. Every bare `uci commit` (998-commit, siteselect)
commits what nachtruhe.sh, the fallback and the forms have staged.
`gluon-radv-filterd` stands alone: its partners are batman-adv's debugfs tables,
ebtables and procd.

The hazards, each at its line, are listed in `PROJECT.json`; those without a
property say in which module of the plan they belong.

## 2. gluon-radv-filterd: RadvFilterd, RaGate, RadvFilterdProofs

`RadvFilterd` is the main loop of `gluon-radv-filterd.c` with a control point
(`pc`) wherever the clock, the child or a signal can come in between:

| pc | code | actions |
|---|---|---|
| select | 472-490 | `HandleRA` (233-267), `SelectReturns`, `Check` (490) |
| expire | 269-285 | `ExpireRouter` (one element per step), `ExpireDone` |
| translate | 299-333 | `UpdateOriginators`, `Translate` |
| gateways | 336-365 | `ReadGateway` (one line per step), `GatewaysRead`, `TablesClosed` |
| elect | 417-448 | `KeepBest`, `SwitchBest` |
| fork, block, wait, kill | 369-415 | `Fork`, `ForkFails`, `BlockSigchld`, `ChildReaped`, `TimedOut`, `KillChild` |
| done | 497 | `UpdateDone` |
| down | init script | `Crash`, `Start` |

The ebtables process is an actor of its own: it may hang, take effect and then be
killed, fail before or after it took effect (`ChildApplies`, `ChildExits`).
Details of C that matter are kept: a fresh `malloc` holds anything (`Garbage`),
so that an originator may be unset or look set; the loop over freed elements may
end early; the lifetime is filtered by its high byte and added without `ntohs`
(`PassesFilter`, `HostOrder`); SIGCHLD is blocked after the fork; the pid of a
failed fork is used.

Abstractions: a router is its MAC address; clocks are countdowns, held where the
code no longer tells values apart; select, sigtimedwait and the reading of a file
take any time. Not modelled: option parsing, the packet length checks (a packet
dropped is `SelectReturns`), cleanup at exit, failing `fopen` of the debugfs files.
Assumed: an ebtables process the daemon left behind by dying has ended before the
next daemon gets to its first ebtables call, which is seconds away at least.

`RaGate` is the abstract promise: advertisements pass a gate which is shut only
for a router that was chosen among those known, and opened only from shut, for
that router. `ImplementsGate` maps the list, the router the update is for and the
chain to it.

Runs (`MCRadvFilterd`):

- `RadvSafety` (pass): 2 routers, 2 originators, TQs 0..2, threshold 1, radix 2 for
  the two lifetime bytes, every content of tables and heap. Two routers are enough
  for a switch, a tie, a shared originator and an expiry of the best one; TQ 0..2
  with threshold 1 tells below, at and above the threshold apart.
- `RadvLiveness` (pass): one originator, threshold 0. Fairness: the daemon goes on
  (weak), the clock ticks, sigtimedwait times out, procd respawns. No fairness of
  ebtables is assumed: that it hangs is the case the timeout is there for. Only an
  ebtables process nobody waits for any more is assumed to end.
- `RadvOriginators`, `RadvSigchld`, `RadvKill` (violations): see Findings.
  They have the bounds of `RadvSafety` with two lifetimes. In `RadvOriginators` every page
  of the heap is fresh from the kernel, so that no originator is ever set by what a
  freed chunk has left behind.

`EndedChildIsReaped` is asked of a child that ended with status 0; the run shows the flush.

A disagreement of code and text that no run checks: `HysteresisHolds` and
`BestWithinThreshold` hold of what the code does at a difference of exactly the threshold,
where the `>=` of line 424 keeps the router. The package's README.md (13-15) says that it
remains selected "until the better gateway has a TQ value at least X higher", and the usage
text (line 123) calls the threshold the "Minimum TQ difference required to switch the
gateway": by both it is left there. `RadvSafety` includes the case (TQ 1 beside TQ 2), and
passing it says that the code keeps the router, not that the texts agree.

Observed while modelling and not stated as findings, as no text of the repository
says otherwise: the second router behind one originator keeps TQ 0 (break at 353);
a failed ebtables call is not repeated until the router stops being good enough
(448); when all routers expire the rule of the last one stays; the threshold is cut
to 16 bits (221).

### What is proved

`RadvFilterdProofs` proves the invariants and the refinement for all constants that
meet `SortsAssumption`, `NumbersAssumption` and `GarbageAssumption`. The invariants
are not inductive as they stand: what the elected router is worth depends on what
was read of the tables before, and the chain on what the child has done. `IInv` is

    TypeOK /\ BestIsListed /\ ReadingInv /\ ElectedInv /\ SignalInv /\ ChainInv

- `ReadingInv`: while gateways is read, some listed router has max_tq, none has more,
  and a router whose gateway line is yet to come has TQ 0;
- `ElectedInv`: from the election to the end of the update the best router is within
  the threshold;
- `SignalInv`: SIGCHLD is blocked only in wait and kill, a pending one is of the
  child waited for, and that child does what the daemon has asked for;
- `ChainInv`: what the chain is at each stage of a flush and an addition. Its core is
  that `-A` is only forked after a `-F` that was reaped with status 0, so that the
  chain is empty then.

Each conjunct has a step lemma (`StepTypeOK`, ..., `StepElectedInv`) that uses only
the conjuncts it depends on; `InitIInv` and these give `Invariance`, and from it
`TypeCorrect`, `BestNeverDangles`, `SearchSucceeds`, `ElectionIsWithinThreshold`,
`OneRule`, `SuccessIsReal`, `NoBugExit` and, as action properties, `Hysteresis` and
`DaemonImplementsGate` (initial states map to initial states, every step to a step
of `RaGate` or a stutter). Lemmas about lists (`RangeOfList`, `Prepended`,
`Unlinked`, `UnlinkedRange`) are stated once.

Only model-checked: `QuietMeshEmptiesList` and `UpdateEnds`, because the prover does
not reason about fairness.

## 3. Site selection: SiteSelect, SiteSelectProofs, SiteSelectRebootProofs

There are two siteselect scripts, the one of the image (`variant = "package"`) with
its reading of the current community commented out, and the one setup mode installs
(`"setup"`). State in flash: `siteselect`, `locode`, `located` and `flag`
(rebootloopprevention) of `gluon-node-info`; `site`, the code in site.json; `built`,
the site the committed configuration was generated from; `armed`, the cron line;
`fresh`, first boot of an image. State that a reboot loses: /tmp/needs_rgeo, the
lock, the staged configuration, the uptime, a scheduled reboot, and the two runs.

| Actions | Code |
|---|---|
| `Start`, `ForceSendData`, `Rgeo` | siteselect 26-41 (numbers of the setup variant) |
| `AllowReboot` | 43-50 |
| `Settle`, `Consider` | 52-77 |
| `Copy`, `Schedule` | 79-84, 85-92 |
| `CheckLock`, `TouchLock`, `SelectSite`, `InstallSite`, `Unlock` | 020-site-select 4-31, 32, 33-57, 60-65, 66 |
| `Generate`, `CommitInner`, `CommitOuter` | the other upgrade scripts, 998-commit |
| `CronStart`, `HourlySendData` | micron.d |
| `Reboot`, `PowerLoss`, `Sysupgrade`, `SetupMode` | siteselect 90; the outside |

`site-upgrade` and 020-site-select run each other; `depth` counts the site-upgrades
around the present one. A `cp` that is cut short leaves a torn site.json, from which
`require "gluon.site_config"` fails. 020-site-select has that line too (4), ends there
before it looks for the lock, and repairs nothing: a torn file is only replaced by the
`cp` of the siteselect script, a shell script, or by a new image. `uci commit` without a package commits whatever
is staged (`CommitAll`).

Timing assumed, and stated at `CronStart` and `LongUptime`: a run with the reboot it
schedules takes less than the half hour between two cron runs, so that only the
boot run and one cron run overlap, and the boot run takes less than two hours.
Without it the flag protects from less: a run that hangs for two hours lets the next
one delete the flag just before the reboot.

Abstractions: the upgrade scripts are one step, so that a commit by another run in
the middle of them is not seen; geolocation is one step with every outcome; a visit
of setup mode is a wizard that stored a position and may have got its address from the
server. What the image's own site.json says is not in the repository: it is the
constant `ImageSite`, here without a code, as in an image that is to be placed.
`reboots` and `spent` are history: they bound nothing the code does but the
disturbances (`Budget`).

Runs (`MCSiteSelect`; a community with a path, one without, and zzz):

- `SiteSafety` (pass): mobile node, two disturbances out of power loss, sysupgrade and
  setup mode, which is enough for a power loss in the middle of what a setup or an
  upgrade has begun. `RebootsIntoSite` is asked when no site-upgrade goes on: during one
  the staged configuration is not committed yet. `NoRebootLoop` holds with 2 and not with
  1: the second reboot comes from a cron run that settles, and deletes the flag, while the boot run is in
  its site-upgrade.
- `SiteLiveness` (pass): one disturbance; `SiteFollows`, `SetupSettles`, `RunEnds`.
  Fairness: a running script goes on, cron starts armed lines, time passes, a scheduled
  reboot happens. Nothing is assumed of the server.
- `SiteReboots`, `SiteCrash` (violations): see Findings.

Deadlock is not checked in these runs: a settled node that spent its disturbances has
nothing left to do.

### What is proved

`SiteSelectProofs` proves, for all constants that meet `CodesAssumption` and
`EnvironmentAssumption`, any number of disturbances included:

- `LockNeverStale` (`LockIsHeld`). Not inductive alone: that a run which goes to sleep
  takes no lock with it needs that a run inside a nested site-upgrade is at no other
  place (`LockInv`).
- `RecursionIsBounded`: site-upgrade and 020-site-select run each other at most twice
  deep. Two runs may both find no lock file; the first to leave removes it under the
  other, which may then enter once more. `DepthInv` says of two runs that, if one holds
  the lock's place without a lock file (`Holds(r) /\ ~lock`) or is in for the second
  time (`Again`), the other one has left and does not come back before it is through
  (`Left`). That it does not come back is where `CronStart`'s timing assumption and the
  first boot of an image (`fresh`, no cron run before it is over) are used. One lemma
  per action over a common frame (`FrameDepthInv`).
- `TypeCorrect` (`TypeOK`), with the depth from `DepthInv`; it includes that the
  committed configuration never comes from a torn site.json.

`SiteSelectRebootProofs` goes on from there, with the same assumptions and no others, to
what the two scripts are for. Its invariant `SiteInv` is `LockInv /\ DepthInv` with
`SettledInv`, which says what each run has read and is about to write, and why that is not
stale when it acts on it although the other run, rgeo.sh or a power loss comes in between:

- `FreshInv`: the first boot of an image is alone, it chooses by itself only the site it
  then installs, and that one, or a file cut short, is in place when it generates;
- `RgeoInv`, `StaleInv`: one run at a time asks rgeo.sh; if the selection changed under a
  run that is about to install another site, it was the other run that asked, which does not
  come back to ask again;
- `UnplacedInv`: until rgeo.sh has been asked with success there has been one site only;
- `ReadInv`: a run that has read its own site as the current one is right, and nobody is
  about to install another;
- `WholeInv`: no site-upgrade for a site with a path goes on with a torn file.

From it follow:

- `StoppedOnlyWhenSettled` (`DisarmedIsSettled`), the step itself from `ReadInv`;
- `ConfiguredForTheSite` (`RebootsIntoSite`), with `BuiltInv`: once the last run has
  generated, what the next boot gets, staged or committed, is the configuration of the
  site.json in place, and nothing is staged without a run that is about to commit it;
- `NoThirdReboot` (`NoRebootLoop`), with `RebootInv`. While the cron job is armed the flag
  allows one reboot (`ArmedInv`). The one that settles disarms it and takes the flag away;
  from then on one run at a time is left, it is for the selected site (`DisarmedInv`), and
  after one more reboot there is nothing left to do (`Calm`) or nothing that can be done,
  which the flag says (`Stuck`; `LastInv`). `LongInv` is where the two hours of uptime come
  in. The bound is the same for any number of disturbances: a sysupgrade and a visit of
  setup mode start the count anew, as another selection does, and a power loss spares the
  flag and the cron line.

Each conjunct has a step lemma per action, over what a step of a run may do at all
(`RunStep`). Only model-checked: the three liveness properties, which are out of the
prover's reach.

## 4. Findings

| Run | Property | What the code does |
|---|---|---|
| RadvOriginators | BestByReportedTq | originators are looked up only if one is already set (line 302 lacks `== 0`) |
| RadvSigchld | EndedChildIsReaped | a child that ends before line 385 is taken for one that hangs, and its command for failed |
| RadvKill | KillsOnlyItsChild | after a failed fork, `kill(-1, SIGKILL)` |
| SiteReboots | RebootsEnd | the image's siteselect script reboots the node every two hours for ever |
| SiteCrash | SelectedSiteIsBuilt | a power loss between cp and commit leaves the new site installed and the old one configured, for good |

Each has one run, whose counterexample is the scenario.

## 5. The status page: Browsing, Navigation, Statistics, StatusPage, StatusPageProofs, StatisticsProofs

`StatusPage` is one browser tab with the page of gluon-status-page-ffgt. It
composes `Navigation` (main.js, gui.js, the requests of helper.js, menu.js, the
list of known nodes and its copy in localStorage) with `Statistics`
(gui/statistics.js and the stream it subscribes to). An action is an event of the
browser with all handlers it runs: those of gui.js before those of main.js, as
they subscribed in that order.

| State | Code |
|---|---|
| `nodes`, `stored`, `lsavailable` | scanNodeInfo's accumulator, localStorage.nodes, main.js 86-94 |
| `gotoEpoch`, `races` | main.js 40-69; a race per goto that has not ended, with its open requests |
| `title`, `icon`, `panels` | setTitle and the children of content in gui.js |
| `connections` | the event sources and the request for the interfaces that panels keep open |
| `window`, `vpn`, `heading`, `rows` | slidingWindow(2, 2), mesh_vpn of the last report, the Mesh-VPN table |

| Actions | Code |
|---|---|
| `Bootstrapped`, `BootstrapFails`, `Reload` | main.js 96-118 |
| `Pick`, `Goto` | menu.js, the link of a neighbour; nodeChanged, gotoNode |
| `Arrive`, `ArriveLate`, `RequestFails`, `Garble` | race, onEpoch, nodeArrived, nodeNotArrived, `get` |
| `Interfaces`, `InterfacesFail`, `AskAgain`, `Hear`, `EndOfTransmission` | what the neighbour stream opens, hears and closes |
| `Statistics` (`Report`; `MeshVPN` with `Staying`, `Orders`, `Filled`; `MkRow`) | simpleStream, mkMeshVPN, mkRow, prettyUptime |

Bacon 0.7.71 is external and taken for this: a Bus runs its handlers in the order
of subscription and gives an event to those who were subscribed when it was
pushed; `map` is evaluated when a subscriber asks for the value. Hence `Garble`: a
reply of status 200 that is no JSON wins the race, and the exception comes after
the race has ended.

`Browsing` is the abstract promise: who is asked for is shown, the attempt ends at
most once and for that node, and whatever the panels listen to is one address of
that node. `KeepsPromise` maps title, icon and connections to it.

Run `StatusPage`: a node with two addresses (the races), one with one, one with
link-local addresses only; two gotos by the user besides the bootstrap's, which
is enough for a late reply of each earlier epoch; one reload at any time. Three
peers, two of them with the same name in different groups; uptimes half a minute
before a full hour and a full day, with a reboot between them. `StatusPage.cfg`
switches the deadlock check off: a page whose bootstrap failed stops. Fairness:
a request ends, with a network error if nothing else. Nothing is assumed of the user
or of the node's answers. What it shows:

- `PageIsWhole`, `KeepsPromise`: late replies of an earlier goto never put a panel
  into the page, and no connection of a panel outlives it;
- `GotoSettles` with `StrandsForAReason`: the spinning arrows end, except for a node
  with link-local addresses only and after a garbled reply, where they stay for ever;
- `NothingForgotten`: the list survives a reload in the middle of anything;
- `RowsAreCurrent`, `RowsAreSorted`, `RateDefined`, `UptimeIsRounded`.

Observed, and contradicted by no text of the repository: if the user picks a node
from the stored list before the bootstrap reply is there, that reply takes the page
away from it; after a failed request for the interfaces the neighbours panel stays
empty, with no retry; two tabs overwrite each other's list; the sources of the querier
stay open until their end-of-transmission, whatever the page shows by then.

### What is proved

`StatusPageProofs`, for every set of nodes and addresses, every number of gotos and
reloads and every report, from `NodesAssumption` (a node's addresses are nobody
else's, the bootstrap node is a node) and `MessagesAssumption` (uptimes are natural numbers):

- `PageStaysWhole` and `PromiseIsKept`, the whole of `Spec => KeepsPromise`. `PageIsWhole` is not
  inductive: that a reply of the present race finds the overview alone and adds the panels of the
  node in the title takes `RaceInv` (no race is for an epoch to come, and an
  open race of the present epoch is for the node in the title, with the arrows still
  turning). The refinement takes `ListenInv` too: nothing is listened to before the
  page has arrived, and afterwards the statistics of one address are, and nothing elsewhere.
- `ArrowsEndOrSayWhy` (`StrandsForAReason` is inductive as it stands) and `ListIsKept`,
  from `StoredInv`: what is stored is what is known, where localStorage works.
- `RateIsDefined`, from the invariant that the window holds nothing, one uptime or two that
  differ, and `UptimeShown`, which is arithmetic (`PrettyUptime`).

`StatisticsProofs` does the same for the panel and the types; `MessagesAssumption` says for
it that a report has finitely many peers, each with a known state.

- `TableIsCurrent` (`RowsAreCurrent`) and `TableIsSorted` (`RowsAreSorted`), from `TableInv`:
  the table shows the last report (`Showing`: a row per peer, once, with its state, in
  order), and is empty without a heading. A row is inserted where `mkRow` puts it
  (`MkRowInserts`): behind all rows up to the first with a greater label. Rows that stay
  keep the order they had (`RemainingShows`), and each row made for a peer without one keeps
  the table sorted (`MkRowShows`). That this goes through the whole list of missing peers
  (`FilledShows`) is an induction, done without an induction theorem: the set of places in
  the list after which the table is wrong has a least element (`Least`), which is neither
  the first place nor after a right one.
- `PageTypeCorrect` (`TypeOK`), with `TypesInv`: that the page goes to one node more than the
  user asks for at most takes `EpochInv` (as long as the bootstrap is pending, none of its
  gotos has been used), and that no race is open without a request takes `OpenInv`.

Only model-checked: `GotoSettles` (liveness).

## 6. The neighbours: NeighbourStream, Neighbours, NeighboursProofs, ListTheorems

`NeighbourStream` is neighbourstream.js: what batman-adv and the stations sources of
the wireless interfaces said last (`batadv`, `wifi`), which stations are in the
nodeinfo of a known node (`macs`), and the querier (`asked`, the 6 s of its timeout;
`querying`, its open sources). `Neighbours` is gui/neighbours.js: one table per
interface (`children`), its rows with their colours (`rows`, `colors`), and every
subscription to the combined stream (`subscribers`). `Deliver` is one event of the
stream with everything it causes: tables removed and added by the panel, then rows,
colours and subscriptions by each table it reaches (`UpdateTables`).

`skipDuplicates(sameKeys)` of a table whose interface has vanished throws on
`undefined`, and Bacon does not give that event to the subscribers after it.
`Reached` allows for it: tables behind the first one that throws may or may not
get the event. That a subscription misses the event in whose handler it was made is
kept too: a table fills with the next event, a row with the next but one.

Run `Neighbours`: a wireless interface with two stations, one of which answers, and an
interface that only batman-adv knows, with one neighbour; one colour, so that a
second row finds none. Every sequence of reports, interfaces that vanish and return,
answers that come late, the user leaving at any time. No deadlock check: when the user
has left and the queries have ended nothing is left to happen. Fairness: the node repeats
its reports (once a second), a query ends, 6 s pass, and a node that is asked again and
again answers at last (strong). What it shows: `OnlyTheVisibleListen` and
`LeavingEndsQueries` (nothing goes on behind the user's back), `ColoursConserved`,
and that in spite of the events lost to the exception `TablesFollowMesh` and
`NeighboursGetNames` once the mesh is quiet.

Observed: what `shift()` returns of an empty pool, undefined, is given back to the
pool, so that a later row may get no colour although one is free; the result of the
filter commented `remove duplicates` is thrown away; the row keeps the first nodeinfo of
its neighbour; the signal of a station that vanishes from the wireless reports while
batman-adv still has it stays as it was.

### What is proved

`NeighboursProofs`, for every finite set of interfaces, stations and colours, from
`InterfacesAssumption` and `ColoursAssumption`:

- `OnlyTheVisible` (`OnlyTheVisibleListen`): tables and rows that go take their
  subscriptions with them and no others, whichever tables the event has reached;
- `ColoursStay` (`ColoursConserved`), the core of which is `Recolour`: one update of a
  table, for any listing of the stations that are new and of those that are gone, keeps
  each colour in one place (`Unique`), be it that the pool runs empty or that an undefined
  colour is pushed back;
- `PanelTypeCorrect` (`TypeOK`).

The invariant is `TypeOK /\ Untouched /\ EveryColourOnce /\ OnlyTheVisibleListen`.
`ColoursConserved` counts and is not inductive: a table that is made anew has all its
colours only because one that is not there has no rows and a full pool (`Untouched`), and
`EveryColourOnce` says without counting what `ColoursConserved` says, so that the proof needs
cardinalities only at its end. `ListTheorems` has what both panels' proofs need of
lists: the listings of a finite set, shifting, pushing, concatenating, the least element of a
set of numbers, and the tables a list of changes goes through.

Only model-checked: `TablesFollowMesh`, `NeighboursGetNames`, `LeavingEndsQueries` (liveness).

Not modelled of the page: the graph (signalgraph.js, signal.js), whose animation and
resize listener are never stopped once its table is gone, and whose cursor becomes NaN for good if
the first width it measures is 0 or the canvas's default (lines 99 and 113); the overview's texts (nodeinfo.js); the
formatting of sizes, rates and distances.

## 7. The wireless configuration: Wireless, WirelessProofs

Three copies of it: `flash` (/etc/config/wireless), `uci` (with the staged changes of
/tmp/.uci) and `air`, what `wifi`, `wifi reload` or a network restart applied last.
Each is either the fallback's single section or, in standard mode, the three options of
every radio's client section.

| Actions | Code |
|---|---|
| `FullHour`, `ListRadios`, `AdjustRadio`, `EndNight` | nachtruhe.sh 5-11, 17, 20-51, 54-57 |
| `Connected`, `NoticeUnreachable`, `StartFallback`, `NoNetworks` | autoupdater-wifi-fallback 118-154 |
| `Stage`, `Associate`, `Revert`, `NextNetwork`, `NoMoreNetworks`, `RestartNetwork` | 80-109, 139-148 |
| `Configure` | the form, in setup mode: a reboot before and after it |
| `ReadSections`, `SaveSections` | 321: its cursor's first get (18-24), `uci:save` (88) |
| `Commit` | every `uci commit` without a package: 998-commit, siteselect 48, 63, 88 |
| `Reboot` | siteselect 90, the operator, the mains |

321 works on a copy (`read`): its cursor reads the whole configuration with the first get,
and what it stages at its end are the sections as they were then, over whatever nachtruhe.sh,
the fallback or its revert have staged in between. No time is assumed for it.

`wanted`, `kept`, `spoiled` and `overtaken` are history:

- `spoiled` is about the time in which the fallback's configuration is staged, about five
  seconds per network. It is `committed` when a bare commit comes then: the fallback is the
  permanent configuration, the node comes back from no reboot with a mesh, and only a
  site-upgrade makes the sections again, with the site's settings. It is `read` when 321 reads
  then: it finds no client section, and what it saves are the site's settings;
- `overtaken` is not `no` from the moment 321 has saved other sections than were staged, until
  they are on the air: `now` until the next run of nachtruhe.sh lists the radios, `before`
  until a reload or a network restart after that.

The properties say that settings are lost in those seconds only (`Unspoiled`), the mesh by a
commit in them only, and that clients have another hour's state only if 321 has overtaken.

Abstractions: the uci calls of nachtruhe.sh for one radio are one step; of the upgrade
scripts, 200 and 510 make the sections of the mesh, which come and go with the clients' here;
their commit is one of `Commit`'s; a run of nachtruhe.sh takes less than the hour
to the next; two runs of the fallback are an hour apart, so that the waiting time of
half an hour is over at the second; `Connected` is also the run that ends because the
fallback is switched off or the node up for less than 666 s. The branches of nachtruhe.sh
for undefined options are never taken, as 321 gives every section both.

Run `Wireless`: one radio, which the site switches off; the first hour of the day and the first
of the night (the script looks at the hour only); one reboot or visit of setup mode, which every
setting the form can save precedes. That is enough for every order of a run of
nachtruhe.sh, the two halves of 321, the fallback and the commits, before and after a reboot. Several
radios and more hours are beyond five minutes with liveness; the safety properties are proved for
all of them (below).
Fairness: micrond, running scripts go on, and the foreign networks in reach come to an end;
none of 321, of the commits and of reboots.

What it shows:

- `ClientsFollowTheHour`: after nachtruhe.sh has run, the clients find the network exactly
  as the form says, whatever commits, upgrades and network restarts follow in the hour. After
  321 has overtaken the script this holds again from the script's next run that reloads;
- `SettingsSurvive`: flash holds what was set, through nights, reverts and upgrades;
- `NightEnds`: a night that was committed to flash, or a day that was reverted into one,
  does not last, once 321 overtakes nachtruhe.sh no more;
- `MeshComesBack`: the way back from the foreign network is always taken.

A disagreement of code and text that no run checks: nachtruhe.sh says "Just delay execution a bit to
prevent race conditions" (10) and sleeps 20 s. One is left. If 321 has read a client section
(line 21), nachtruhe.sh sets its other state (44), 321 saves what it has read (88), and then
comes the `wifi reload` of nachtruhe.sh (55), the clients have their network for an hour of the night,
or none for one of the day. Without `overtaken = "no"`, `ClientsFollowTheHour` is violated so.

Observed: wifi-config.lua 155-158 takes for granted that the night's state is never
committed; every bare commit at night does so (`NightEnds` is what is left of it: such a
node has no client network from a reboot to the next full hour). The form shows the
committed state of the night, and saving it unchanged then makes it the configured one. A
run of nachtruhe.sh that falls into the seconds of the fallback changes nothing. What 321 has
overtaken may stay wrong for more than the hour: where the next run finds staged what it
wants, it reloads nothing.

### What is proved

`WirelessProofs`, for every set of radios, every cycle of hours, every site and form and
any number of reboots, from `SiteAssumption`, `HoursAssumption`, `MaxRebootsAssumption`,
`FallbackAssumption` and `NothingAssumption` (the fallback's section is none of the standard
ones, and `Nothing` is no configuration): `TypeCorrect`, `SettingsAreKept`
(`SettingsSurvive`) and `ClientsAreServed` (`ClientsFollowTheHour`), with 321's two halves
apart, so that both hold whatever comes between them. Neither property is inductive. `IInv`
adds to `TypeOK`

- `StoreInv`: while `Unspoiled`, flash is faithful to the form, and so is what is staged
  outside the fallback's window, so that a commit of everything staged is harmless there;
- `ReadInv`: what 321 has read outside that window is faithful as well, so that saving it
  later puts an old state over the present one, but no other settings;
- `NightInv`: a run of nachtruhe.sh works towards the state of the present hour, and no
  radio it is through with is in another one, unless it is overtaken `now`;
- `AirInv`: in standard mode the clients find what is staged, but for a reload that a
  running script still owes, and unless 321 has overtaken.

`IInv` was checked with TLC on the instance of `Wireless` before it was proved. `NightEnds` and
`MeshComesBack` are liveness and only model-checked.

## 8. Not modelled

- `gluon-ssid-changer`: line 45 keeps the lines with the online SSID and the branch in line
  50 is for the offline one; lines 72 and 82 are the reverse. No branch that changes
  anything is ever taken (unless one SSID is a prefix of the other), /tmp/node_is_offline is
  never made, and beside this package the wifi fallback stops at its line 118 for ever. A
  faithful model has no step.
- What the core's 320-gluon-client-bridge-wireless does before 321 after a sysupgrade: it is
  not in the repository, and nothing there undoes it before the next visit of setup mode.
- Texts, single options and pure output, as listed in section 1.

## 9. Plan

1. `Geolocate`: the shared reply and script files, with the scripts as processes;
   that what is executed is what was tested; a mobile node; then the repair of a node
   that came up as zzz (020-site-select 58), together with `SiteSelect`.
2. `Ath9kBlackout`, `Portconfig`, `SetupWizard`, the signal graph, and `generate_mac` as
   operators checked over bounded inputs.

Every invariant and every action property of the passing runs is proved. What is left to
TLC are the liveness properties, as the prover does not reason about fairness and ENABLED:
`QuietMeshEmptiesList`, `UpdateEnds`, `SiteFollows`, `SetupSettles`, `RunEnds`, `GotoSettles`,
`TablesFollowMesh`, `NeighboursGetNames`, `LeavingEndsQueries`, `NightEnds`, `MeshComesBack`;
and the five violations, which are counterexamples. New modules are to come with their
theorems.

## 10. Running

    tlc -workers 2 -config RadvSafety.cfg MCRadvFilterd
    tlc -workers 2 -config SiteSafety.cfg MCSiteSelect
    tlc -workers 2 -config StatusPage.cfg MCStatusPage
    tlc -workers 2 -config Neighbours.cfg MCNeighbours
    tlc -workers 2 -config Wireless.cfg MCWireless
    tlapm RadvFilterdProofs.tla
    tlapm SiteSelectProofs.tla
    tlapm SiteSelectRebootProofs.tla
    tlapm ListTheorems.tla
    tlapm StatusPageProofs.tla
    tlapm StatisticsProofs.tla
    tlapm NeighboursProofs.tla
    tlapm WirelessProofs.tla

`PROJECT.json` maps every definition to the lines it models, and gives for every
property a mutant of a definition that the run
of that property refutes.
