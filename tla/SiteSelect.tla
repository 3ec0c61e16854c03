----------------------------- MODULE SiteSelect -----------------------------
(***************************************************************************)
(* How a node comes by the site configuration of its community: the        *)
(* siteselect script (at boot and from cron), the upgrade script           *)
(* 020-site-select, which site-upgrade runs and which runs site-upgrade,   *)
(* the geolocation scripts both call, and the reboots in between.          *)
(*                                                                         *)
(* There are two siteselect scripts.  The one in the image ("package") has *)
(* the lines commented out that read the current community and that call   *)
(* rgeo.sh; setup mode replaces it by the other one ("setup"), and a       *)
(* sysupgrade brings the first one back.                                   *)
(***************************************************************************)
EXTENDS Naturals

CONSTANTS
  Code,          \* locodes the server answers and config mode selects
  Known,         \* those /etc/config/siteselect has a path for
  Default,       \* zzz
  NoCode,        \* no value: an absent uci option, a site.json without code
  Empty,         \* the empty string
  Torn,          \* a site.json that is no JSON
  NoDelta,       \* nothing staged in /tmp/.uci
  ImageSite,     \* the code in the site.json of the image, if it has one
  Mobile,        \* gluon-node-info has an is_mobile option
  Disturbances,  \* which of "power", "sysupgrade", "setup" may happen
  Budget         \* how many of them

Run == {"boot", "cron"}
File == Code \union {NoCode, Torn}

ASSUME CodesAssumption ==
  /\ Known \subseteq Code /\ Default \in Code
  /\ ImageSite \in Code \union {NoCode}
  /\ {NoCode, Empty, Torn, NoDelta} \intersect Code = {}
  /\ NoCode \notin {Empty, Torn, NoDelta}
  /\ Empty # Torn /\ Torn # NoDelta
ASSUME EnvironmentAssumption ==
  /\ Mobile \in BOOLEAN /\ Budget \in Nat
  /\ Disturbances \subseteq {"power", "sysupgrade", "setup"}

VARIABLES
  variant,     \* which siteselect script is in /etc/init.d
  armed,       \* its line in micron.d is not commented out
  fresh,       \* uci-defaults has yet to run site-upgrade
  located,     \* gluon-node-info has coordinates
  locode,      \* gluon-node-info.@location[0].locode
  siteselect,  \* gluon-node-info.@location[0].siteselect
  flag,        \* gluon-node-info.@location[0].rebootloopprevention
  site,        \* site_selectcode of /lib/gluon/site.json
  built,       \* the site the committed configuration was generated from
  mode,        \* whether this boot is one into setup mode
  long,        \* the uptime is more than 7200 s
  needsRgeo,   \* /tmp/needs_rgeo exists
  lock,        \* /tmp/site-upgrade.lock exists
  staged,      \* the site of the generated configuration in /tmp/.uci
  timer,       \* a reboot has been scheduled
  cronRan,     \* cron has run the script since boot
  pc, cur, new, depth,  \* per run: its place, curcommunity, newcommunity,
                        \* the site-upgrades around this one
  reboots,     \* history: see Reboot
  spent        \* how much of the budget is spent

flash == << variant, armed, fresh, located, locode, siteselect, flag, site,
            built >>
ram == << mode, long, needsRgeo, lock, staged, timer, cronRan >>
run == << pc, cur, new, depth >>
vars == << flash, ram, run, reboots, spent >>

\* The processes of a node that boots.
Booting(isFresh) ==
  /\ mode' = "normal" /\ long' = FALSE /\ needsRgeo' = FALSE
  /\ lock' = FALSE /\ staged' = NoDelta /\ timer' = FALSE
  /\ cronRan' = FALSE
  /\ pc' = [boot |-> IF isFresh THEN "check" ELSE "start", cron |-> "idle"]
  /\ cur' = [r \in Run |-> Empty] /\ new' = [r \in Run |-> NoCode]
  /\ depth' = [r \in Run |-> 0]

\* A new image, on a node that may have been configured by an older one.
Init ==
  /\ variant = "package" /\ armed = TRUE /\ fresh = TRUE
  /\ located \in BOOLEAN
  /\ locode \in Code \union {NoCode} /\ siteselect \in Code \union {NoCode}
  /\ flag = FALSE /\ site = ImageSite /\ built = NoCode
  /\ mode = "normal" /\ long = FALSE /\ needsRgeo = FALSE
  /\ lock = FALSE /\ staged = NoDelta /\ timer = FALSE
  /\ cronRan = FALSE
  /\ pc = [boot |-> "check", cron |-> "idle"]
  /\ cur = [r \in Run |-> Empty] /\ new = [r \in Run |-> NoCode]
  /\ depth = [r \in Run |-> 0]
  /\ reboots = 0 /\ spent = 0

Goto(r, from, to) == pc[r] = from /\ pc' = [pc EXCEPT ![r] = to]

\* uci commit without an argument commits whatever is staged.
CommitAll ==
  /\ built' = IF staged = NoDelta THEN built ELSE staged
  /\ staged' = NoDelta

-----------------------------------------------------------------------------
(***************************************************************************)
(* The geolocation server.  senddata.sh asks for the position and stores   *)
(* coordinates and locode, if the reply has one; rgeo.sh maps coordinates  *)
(* to an address and stores locode and siteselect.  Either may fail, or    *)
(* not run at all (too early after boot, no uplink, LAT: 0).               *)
(***************************************************************************)
SendData ==
  \/ UNCHANGED << located, locode >>
  \/ located' = TRUE /\ locode' \in Code \union {locode}

\* Whether rgeo.sh runs is asked of the state it starts in.
ReverseGeo(hasCoordinates) ==
  \/ UNCHANGED << locode, siteselect >>
  \/ /\ hasCoordinates
     /\ locode' \in Code
     /\ siteselect' = locode'

Selected == reboots' = IF siteselect' = siteselect THEN reboots ELSE 0

\* The hourly senddata.sh executes what it was told on mobile nodes only.
HourlySendData ==
  /\ Mobile /\ mode = "normal" /\ ~fresh
  /\ SendData
  /\ UNCHANGED << variant, armed, fresh, siteselect, flag, site, built, ram,
                  run, reboots, spent >>

-----------------------------------------------------------------------------
(***************************************************************************)
(* The siteselect script.                                                  *)
(***************************************************************************)
\* A run and the reboot it schedules take less than the half hour until the
\* next one, so that no two cron runs and only the first one of them and the
\* boot run overlap.
CronStart ==
  /\ armed /\ ~fresh /\ mode = "normal"
  /\ (pc["boot"] = "idle" /\ ~timer) \/ ~cronRan
  /\ Goto("cron", "idle", "start")
  /\ cronRan' = TRUE
  /\ UNCHANGED << flash, mode, long, needsRgeo, lock, staged, timer, cur, new,
                  depth, reboots, spent >>

\* Mutants: the lines of the script that read site.json are commented out; the
\* current community is the one the configuration was generated for.
CurrentCommunityCommentedOut == Empty
CurrentCommunityBuilt == IF variant = "package" THEN Empty ELSE built

CurrentCommunity ==
  IF variant = "package" \/ site = Torn THEN Empty ELSE site

Start(r) ==
  /\ cur' = [cur EXCEPT ![r] = CurrentCommunity]
  /\ \/ (~located \/ locode = NoCode) /\ Goto(r, "start", "senddata")
     \/ located /\ locode # NoCode /\ needsRgeo /\ Goto(r, "start", "rgeo")
     \/ located /\ locode # NoCode /\ ~needsRgeo /\ Goto(r, "start", "uptime")
  /\ UNCHANGED << flash, ram, new, depth, reboots, spent >>

ForceSendData(r) ==
  /\ Goto(r, "senddata", "uptime")
  /\ SendData
  /\ needsRgeo' = FALSE
  /\ UNCHANGED << variant, armed, fresh, siteselect, flag, site, built, mode,
                  long, lock, staged, timer, cronRan, cur, new, depth,
                  reboots, spent >>

Rgeo(r) ==
  /\ Goto(r, "rgeo", "uptime")
  /\ IF variant = "package" THEN UNCHANGED << locode, siteselect >>
                            ELSE ReverseGeo(located)
  /\ needsRgeo' = FALSE
  /\ Selected
  /\ UNCHANGED << variant, armed, fresh, located, flag, site, built, mode,
                  long, lock, staged, timer, cronRan, cur, new, depth,
                  spent >>

\* After two hours another reboot is allowed.
AllowReboot(r) ==
  /\ Goto(r, "uptime", "consider")
  /\ IF long /\ flag THEN flag' = FALSE /\ CommitAll
                     ELSE UNCHANGED << flag, built, staged >>
  /\ UNCHANGED << variant, armed, fresh, located, locode, siteselect, site,
                  mode, long, needsRgeo, lock, timer, cronRan, cur, new,
                  depth, reboots, spent >>

\* Mutant: any locode will do.
ConsistentAnyCode(r) ==
  locode # NoCode /\ siteselect # NoCode /\ cur[r] # Empty

\* All set: stop the cron job.
Consistent(r) ==
  locode # NoCode /\ siteselect # NoCode /\ siteselect = cur[r]

Settle(r) ==
  /\ Goto(r, "consider", "idle")
  /\ Consistent(r)
  /\ armed' = FALSE
  /\ flag' = FALSE
  /\ IF flag THEN CommitAll ELSE UNCHANGED << built, staged >>
  /\ UNCHANGED << variant, fresh, located, locode, siteselect, site, mode,
                  long, needsRgeo, lock, timer, cronRan, cur, new, depth,
                  reboots, spent >>

Consider(r) ==
  /\ ~Consistent(r)
  /\ needsRgeo' = (needsRgeo \/ locode = NoCode)
  /\ new' = [new EXCEPT ![r] = siteselect]
  /\ IF siteselect \in {NoCode, cur[r]} THEN Goto(r, "consider", "idle")
                                        ELSE Goto(r, "consider", "copy")
  /\ UNCHANGED << flash, mode, long, lock, staged, timer, cronRan, cur,
                  depth, reboots, spent >>

\* cp, which fails if the community has no path.
Install(code) == site' = IF code \in Known THEN code ELSE site

Copy(r) ==
  /\ Goto(r, "copy", "check")
  /\ Install(new[r])
  /\ depth' = [depth EXCEPT ![r] = 0]
  /\ UNCHANGED << variant, armed, fresh, located, locode, siteselect, flag,
                  built, ram, cur, new, reboots, spent >>

\* Mutant: the flag is set but not asked.
ScheduleAlways(r) ==
  /\ Goto(r, "schedule", "idle")
  /\ flag' = TRUE /\ timer' = TRUE /\ CommitAll
  /\ UNCHANGED << variant, armed, fresh, located, locode, siteselect, site,
                  mode, long, needsRgeo, lock, cronRan, cur, new, depth,
                  reboots, spent >>

Schedule(r) ==
  /\ Goto(r, "schedule", "idle")
  /\ IF flag THEN UNCHANGED << flag, timer, built, staged >>
             ELSE flag' = TRUE /\ timer' = TRUE /\ CommitAll
  /\ UNCHANGED << variant, armed, fresh, located, locode, siteselect, site,
                  mode, long, needsRgeo, lock, cronRan, cur, new, depth,
                  reboots, spent >>

-----------------------------------------------------------------------------
(***************************************************************************)
(* site-upgrade runs every script in /lib/gluon/upgrade: 020-site-select,  *)
(* the scripts that generate the configuration from site.json, 998-commit. *)
(* 020-site-select runs site-upgrade, inside of which it does nothing      *)
(* thanks to its lock file.  Setup mode starts it by itself.               *)
(***************************************************************************)
\* Mutant: 020-site-select waits for the lock.
AfterSiteWaits(r) == IF lock THEN "check" ELSE "generate"

AfterSite(r) == IF mode = "setup" /\ depth[r] = 0 THEN "idle" ELSE "generate"

\* Mutant: the lock is not asked.
CheckLockNever(r) ==
  /\ Goto(r, "check", IF site = Torn THEN AfterSite(r) ELSE "touch")
  /\ UNCHANGED << flash, ram, cur, new, depth, reboots, spent >>

\* The script requires "gluon.site_config" too, and ends there if site.json is torn.
CheckLock(r) ==
  /\ Goto(r, "check", IF site = Torn \/ lock THEN AfterSite(r) ELSE "touch")
  /\ UNCHANGED << flash, ram, cur, new, depth, reboots, spent >>

TouchLock(r) ==
  /\ Goto(r, "touch", "select")
  /\ lock' = TRUE
  /\ UNCHANGED << flash, mode, long, needsRgeo, staged, timer, cronRan, cur,
                  new, depth, reboots, spent >>

SelectSite(r) ==
  /\ Goto(r, "select", "install")
  /\ IF siteselect # NoCode
       THEN UNCHANGED << located, locode, siteselect >>
       ELSE /\ SendData
            /\ siteselect' = IF locode' = NoCode THEN Default ELSE locode'
  /\ new' = [new EXCEPT ![r] = siteselect']
  /\ Selected
  /\ UNCHANGED << variant, armed, fresh, flag, site, built, ram, cur, depth,
                  spent >>

InstallSite(r) ==
  /\ Goto(r, "install", "check")
  /\ Install(new[r])
  /\ depth' = [depth EXCEPT ![r] = @ + 1]
  /\ UNCHANGED << variant, armed, fresh, located, locode, siteselect, flag,
                  built, ram, cur, new, reboots, spent >>

\* Mutant: the lock file stays.
UnlockForgets(r) ==
  /\ Goto(r, "unlock", AfterSite(r))
  /\ UNCHANGED << flash, ram, cur, new, depth, reboots, spent >>

Unlock(r) ==
  /\ Goto(r, "unlock", AfterSite(r))
  /\ lock' = FALSE
  /\ UNCHANGED << flash, mode, long, needsRgeo, staged, timer, cronRan, cur,
                  new, depth, reboots, spent >>

\* Mutant: the configuration is generated from the site.json the script read.
GenerateStale(r) ==
  /\ Goto(r, "generate", "commit")
  /\ staged' = IF cur[r] \in Code THEN cur[r] ELSE site
  /\ UNCHANGED << flash, mode, long, needsRgeo, lock, timer, cronRan, cur,
                  new, depth, reboots, spent >>

\* require "gluon.site_config" raises an error if site.json is torn.
Generate(r) ==
  /\ Goto(r, "generate", "commit")
  /\ staged' = IF site = Torn THEN staged ELSE site
  /\ UNCHANGED << flash, mode, long, needsRgeo, lock, timer, cronRan, cur,
                  new, depth, reboots, spent >>

\* 998-commit ends one site-upgrade, and its caller goes on.
CommitInner(r) ==
  /\ depth[r] > 0
  /\ Goto(r, "commit", "unlock")
  /\ depth' = [depth EXCEPT ![r] = @ - 1]
  /\ CommitAll
  /\ UNCHANGED << variant, armed, fresh, located, locode, siteselect, flag,
                  site, mode, long, needsRgeo, lock, timer, cronRan, cur,
                  new, reboots, spent >>

CommitOuter(r) ==
  /\ depth[r] = 0
  /\ Goto(r, "commit", IF fresh THEN "start" ELSE "schedule")
  /\ fresh' = FALSE
  /\ CommitAll
  /\ UNCHANGED << variant, armed, located, locode, siteselect, flag, site,
                  mode, long, needsRgeo, lock, timer, cronRan, cur, new,
                  depth, reboots, spent >>

-----------------------------------------------------------------------------
(***************************************************************************)
(* What ends a boot.  A cp that is under way leaves a torn file behind.    *)
(***************************************************************************)
Copying == \E r \in Run : pc[r] \in {"copy", "install"} /\ new[r] \in Known

CutShort == site' \in {site} \union IF Copying THEN {Torn} ELSE {}

\* Nor do the boot run and the reboot it schedules take two hours.
LongUptime ==
  /\ ~long /\ mode = "normal" /\ pc["boot"] = "idle" /\ ~timer
  /\ long' = TRUE
  /\ reboots' = 0
  /\ UNCHANGED << flash, mode, needsRgeo, lock, staged, timer, cronRan, run,
                  spent >>

\* reboots counts the reboots of the siteselect script, up to 3, since the
\* selection last changed or the node was last up for two hours.
Reboot ==
  /\ timer
  /\ CutShort
  /\ Booting(fresh)
  /\ reboots' = IF mode = "setup" \/ reboots = 3 THEN reboots ELSE reboots + 1
  /\ UNCHANGED << variant, armed, fresh, located, locode, siteselect, flag,
                  built, spent >>

Disturb(what) ==
  /\ what \in Disturbances /\ spent < Budget
  /\ spent' = spent + 1

PowerLoss ==
  /\ Disturb("power")
  /\ CutShort
  /\ Booting(fresh)
  /\ UNCHANGED << variant, armed, fresh, located, locode, siteselect, flag,
                  built, reboots >>

\* The image replaces everything outside /etc/config.
Sysupgrade ==
  /\ Disturb("sysupgrade")
  /\ variant' = "package" /\ armed' = TRUE /\ fresh' = TRUE
  /\ site' = ImageSite
  /\ Booting(TRUE)
  /\ reboots' = 0
  /\ UNCHANGED << located, locode, siteselect, flag, built >>

\* A boot into setup mode: S01gluon-ffgt-hacks.sh installs the other script,
\* the geolocation wizard stores a position, asks for its address, starts
\* 020-site-select in the background, and the node reboots without waiting.
SetupMode ==
  /\ Disturb("setup")
  /\ ~fresh
  /\ variant' = "setup"
  /\ located' = TRUE /\ ReverseGeo(TRUE)
  /\ mode' = "setup" /\ timer' = TRUE
  /\ long' = FALSE /\ needsRgeo' = FALSE /\ lock' = FALSE
  /\ staged' = NoDelta /\ cronRan' = FALSE
  /\ pc' = [boot |-> "check", cron |-> "idle"]
  /\ cur' = [r \in Run |-> Empty] /\ new' = [r \in Run |-> NoCode]
  /\ depth' = [r \in Run |-> 0]
  /\ CutShort
  /\ reboots' = 0
  /\ UNCHANGED << armed, fresh, flag, built >>

-----------------------------------------------------------------------------
Script(r) ==
  \/ Start(r) \/ ForceSendData(r) \/ Rgeo(r) \/ AllowReboot(r)
  \/ Settle(r) \/ Consider(r) \/ Copy(r) \/ Schedule(r)

Upgrade(r) ==
  \/ CheckLock(r) \/ TouchLock(r) \/ SelectSite(r) \/ InstallSite(r)
  \/ Generate(r) \/ CommitInner(r) \/ Unlock(r) \/ CommitOuter(r)

Next ==
  \/ \E r \in Run : Script(r) \/ Upgrade(r)
  \/ CronStart \/ HourlySendData
  \/ LongUptime \/ Reboot \/ PowerLoss \/ Sysupgrade
  \/ SetupMode

(***************************************************************************)
(* A script that runs goes on running, cron keeps its schedule, time       *)
(* passes, and sleep 10 ends.                                              *)
(***************************************************************************)
Fairness ==
  /\ \A r \in Run : WF_vars(Script(r) \/ Upgrade(r))
  /\ WF_vars(CronStart) /\ WF_vars(LongUptime) /\ WF_vars(Reboot)

Spec == Init /\ [][Next]_vars
FairSpec == Spec /\ Fairness

-----------------------------------------------------------------------------
Places == {"idle", "start", "senddata", "rgeo", "uptime", "consider", "copy",
           "schedule", "check", "touch", "select", "install", "generate",
           "commit", "unlock"}

\* Every variable has its type.
TypeOK ==
  /\ variant \in {"package", "setup"} /\ mode \in {"normal", "setup"}
  /\ armed \in BOOLEAN /\ fresh \in BOOLEAN /\ located \in BOOLEAN
  /\ locode \in Code \union {NoCode} /\ siteselect \in Code \union {NoCode}
  /\ flag \in BOOLEAN /\ site \in File /\ built \in File \ {Torn}
  /\ long \in BOOLEAN /\ needsRgeo \in BOOLEAN /\ lock \in BOOLEAN
  /\ staged \in (File \ {Torn}) \union {NoDelta} /\ timer \in BOOLEAN
  /\ cronRan \in BOOLEAN
  /\ pc \in [Run -> Places] /\ cur \in [Run -> File \union {Empty}]
  /\ new \in [Run -> Code \union {NoCode}] /\ depth \in [Run -> 0 .. 2]
  /\ reboots \in 0 .. 3 /\ spent \in 0 .. Budget

\* The siteselect script does not reboot the node for a third time while the
\* selection stays the same and the node never is up for two hours, in either
\* of its variants and whatever else happens.  One reboot it allows itself;
\* the other one comes about if a cron run deletes rebootloopprevention
\* while the boot run is in its site-upgrade.
NoRebootLoop == reboots <= 2

\* The lock file of 020-site-select never outlives the run that made it.
LockIsHeld ==
  lock => \E r \in Run : depth[r] > 0 \/ pc[r] \in {"select", "install", "unlock"}

\* When a reboot is scheduled and no site-upgrade goes on, the committed
\* configuration is the one of the site.json in place, whichever runs have
\* copied, generated and committed in whatever order.
Upgrading(r) == pc[r] \notin {"idle", "start", "senddata", "rgeo", "uptime",
                              "consider", "copy"}
RebootsIntoSite ==
  timer /\ siteselect \in Known /\ mode = "normal"
        /\ (\A r \in Run : ~Upgrading(r)) => built = site

\* The cron job is stopped only while the selected site is the installed one.
DisarmedIsSettled == [][armed /\ ~armed' => site = siteselect]_vars

\* However often the power fails in a cp or an image is replaced: in the end
\* site.json is the one of the selected community.
SiteFollows == <>[](siteselect \in Known => site = siteselect)

\* A node that went through setup mode for a community with a path ends
\* rebooting.
SetupSettles ==
  <>[](variant = "setup" /\ siteselect \in Known) => <>[]~timer

\* site-upgrade and 020-site-select, which run each other, come to an end.
RunEnds == \A r \in Run : pc[r] # "idle" ~> pc[r] = "idle"

\* The header of the script: "prevent us from entering a reboot loop".
RebootsEnd == <>[]~timer

\* The header of the script: "If we have a new sitecode, update system".
SelectedSiteIsBuilt == <>[](siteselect \in Known => built = siteselect)
=============================================================================
