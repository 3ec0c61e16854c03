------------------------------ MODULE Wireless ------------------------------
(***************************************************************************)
(* The wireless configuration of a node and who writes to it: the form in  *)
(* setup mode, nachtruhe.sh (nighttime peace of the client networks), the  *)
(* autoupdater's wifi fallback, the upgrade scripts and the `uci commit`   *)
(* without a package of 998-commit and siteselect.                         *)
(*                                                                         *)
(* Three copies of it: what is committed to flash, what uci shows (flash   *)
(* with the staged changes) and what hostapd was last started with.  Each  *)
(* is the fallback's one section or, as in standard mode, the options of   *)
(* the client sections, per radio; the mesh sections come and go with them.*)
(***************************************************************************)
EXTENDS Naturals, Sequences

CONSTANTS
  Radio,         \* radios with a client network
  SiteDisabled,  \* per radio: config.ap.disabled of the site, 0 or 1
  Hours,         \* hours of the day, in order, that stand for all of them
  Fallback,      \* the configuration switch_to_fallback_mode stages
  Nothing,       \* what 321 has read while it is not at work
  MaxReboots     \* bound: reboots and visits of setup mode

ASSUME SiteAssumption == SiteDisabled \in [Radio -> {0, 1}]
ASSUME HoursAssumption == Hours \in Seq(0 .. 23) /\ Hours # <<>>
ASSUME MaxRebootsAssumption == MaxReboots \in Nat

VARIABLES
  flash,    \* /etc/config/wireless
  uci,      \* with /tmp/.uci/wireless applied
  air,      \* what `wifi`, `wifi reload` or a network restart applied last
  since,    \* unreachable_since is set: in flash, and with what is staged
  clock,    \* the present hour, as its place in Hours
  night,    \* the run of nachtruhe.sh
  fallback, \* the run of autoupdater-wifi-fallback
  checked,  \* it was started in this hour
  read,     \* the client sections as 321 has read them, until it has saved them
  wanted,   \* history: what the form saved last
  kept,     \* history: nachtruhe.sh has run in this hour, and no fallback since
  spoiled,  \* history: while the fallback's configuration was staged, everything staged
            \* was "committed", or else 321 has "read" it, since the form saved last
  overtaken, \* history: 321 has saved other sections than it met, since ("now") or
             \* before the last run of nachtruhe.sh began, and no reload has come of one
  reboots   \* history

store == <<flash, uci, since, spoiled>>
vars == <<store, air, clock, night, fallback, checked, read, wanted, kept, overtaken, reboots>>

Client == [disabled : {0, 1}, cfgdisabled : {0, 1}, nachtruhe : {0, 1}]
ASSUME FallbackAssumption == Fallback \notin [Radio -> Client] \union [Radio -> {0, 1}]
Configuration == [Radio -> Client] \union {Fallback}
ASSUME NothingAssumption == Nothing \notin Configuration
Standard(c) == c # Fallback
Air(c) == IF Standard(c) THEN [r \in Radio |-> c[r].disabled] ELSE Fallback

TypeOK ==
  /\ flash \in Configuration /\ uci \in Configuration
  /\ air \in [Radio -> {0, 1}] \union {Fallback}
  /\ since \in [flash : BOOLEAN, uci : BOOLEAN]
  /\ clock \in DOMAIN Hours
  /\ night \in [pc : {"idle", "sleep", "radios"}, target : {0, 1},
                todo : SUBSET Radio, changes : BOOLEAN]
  /\ fallback \in {"idle", "saved", "up", "updating", "leaving"}
  /\ checked \in BOOLEAN /\ kept \in BOOLEAN /\ spoiled \in {"no", "read", "committed"}
  /\ read \in Configuration \union {Nothing}
  /\ overtaken \in {"no", "now", "before"}
  /\ wanted \in [Radio -> [cfgdisabled : {0, 1}, nachtruhe : {0, 1}]]
  /\ reboots \in 0 .. MaxReboots
-----------------------------------------------------------------------------
\* What the form makes of its two boxes, and what 321 makes of a radio without a
\* client section: all three options are the site's one.
FromForm(enabled, nachtruhe) ==
  LET disabled == IF enabled THEN 0 ELSE 1
  IN  [disabled |-> disabled, cfgdisabled |-> disabled,
       nachtruhe |-> IF enabled /\ nachtruhe THEN 1 ELSE 0]
Saved == {FromForm(enabled, nachtruhe) : enabled, nachtruhe \in BOOLEAN}
FromSite(r) ==
  [disabled |-> SiteDisabled[r], cfgdisabled |-> SiteDisabled[r], nachtruhe |-> SiteDisabled[r]]

Settings(c) == [r \in Radio |-> [cfgdisabled |-> c[r].cfgdisabled, nachtruhe |-> c[r].nachtruhe]]

NoNight == [pc |-> "idle", target |-> 0, todo |-> {}, changes |-> FALSE]

Init ==
  /\ flash \in [Radio -> Saved] \union {[r \in Radio |-> FromSite(r)]}
  /\ uci = flash /\ air = Air(flash)
  /\ since = [flash |-> FALSE, uci |-> FALSE]
  /\ clock = 1
  /\ night = NoNight /\ fallback = "idle" /\ checked = FALSE
  /\ read = Nothing /\ overtaken = "no"
  /\ wanted = Settings(flash)
  /\ kept = FALSE /\ spoiled = "no" /\ reboots = 0
-----------------------------------------------------------------------------
(***************************************************************************)
(* nachtruhe.sh.  A run takes less than the hour to the next.              *)
(***************************************************************************)
\* Mutant: the night lasts to the end of its last hour.
NightPastSix(h) == h >= 22 \/ h <= 6
Night(h) == h >= 22 \/ h < 6

\* micrond at the full hour: HOUR is read, then the script sleeps.
FullHour ==
  /\ night.pc = "idle"
  /\ clock' = IF clock + 1 \in DOMAIN Hours THEN clock + 1 ELSE 1
  /\ night' = [NoNight EXCEPT !.pc = "sleep", !.target = IF Night(Hours[clock']) THEN 1 ELSE 0]
  /\ checked' = FALSE /\ kept' = FALSE
  /\ UNCHANGED <<store, air, fallback, read, overtaken, wanted, reboots>>

\* No client section is found while the fallback's configuration is staged.
ListRadios ==
  /\ night.pc = "sleep"
  /\ night' = [night EXCEPT !.pc = "radios", !.todo = IF Standard(uci) THEN Radio ELSE {}]
  /\ kept' = (fallback = "idle")
  /\ overtaken' = IF overtaken = "now" THEN "before" ELSE overtaken
  /\ UNCHANGED <<store, air, clock, fallback, checked, read, wanted, reboots>>

\* Mutant: what the night has switched off stays off.
GoalNightOnly(c, target) == IF c.cfgdisabled = 1 THEN 1 ELSE IF target = 1 THEN 1 ELSE c.disabled
\* What disabled should be.
Goal(c, target) == IF c.cfgdisabled = 1 THEN 1 ELSE target

\* uci get and uci set for one radio: nothing is changed if night rest is off or the
\* section is gone by now.  321 has given every section both options, so that the
\* branches for undefined ones are never taken.
AdjustRadio(r) ==
  /\ night.pc = "radios" /\ r \in night.todo
  /\ LET due == /\ Standard(uci) /\ uci[r].nachtruhe = 1
                /\ uci[r].disabled # Goal(uci[r], night.target)
     IN  /\ night' = [night EXCEPT !.todo = @ \ {r}, !.changes = @ \/ due]
         /\ uci' = IF due THEN [uci EXCEPT ![r].disabled = 1 - @] ELSE uci
  /\ UNCHANGED <<flash, since, spoiled, air, clock, fallback, checked, read, wanted, kept,
                 overtaken, reboots>>

\* History: what is on the air is what is staged again.
Reloaded == IF overtaken = "before" THEN "no" ELSE overtaken

\* wifi reload
EndNight ==
  /\ night.pc = "radios" /\ night.todo = {}
  /\ air' = IF night.changes THEN Air(uci) ELSE air
  /\ overtaken' = IF night.changes THEN Reloaded ELSE overtaken
  /\ night' = NoNight
  /\ UNCHANGED <<store, clock, fallback, checked, read, wanted, kept, reboots>>
-----------------------------------------------------------------------------
(***************************************************************************)
(* autoupdater-wifi-fallback, enabled and without gluon-ssid-changer.      *)
(***************************************************************************)
Check ==
  /\ fallback = "idle" /\ ~checked /\ checked' = TRUE
  /\ UNCHANGED <<flash, spoiled, clock, night, read, overtaken, wanted, reboots>>

Connected == Check /\ since' = [since EXCEPT !.uci = FALSE] /\ UNCHANGED <<uci, air, fallback, kept>>

\* The runs are an hour apart: from the second one on the offset is over.
NoticeUnreachable ==
  /\ Check /\ ~since.uci
  /\ since' = [since EXCEPT !.uci = TRUE] /\ UNCHANGED <<uci, air, fallback, kept>>

\* switch_to_fallback_mode as far as uci:save
Stage == uci' = Fallback /\ fallback' = "saved" /\ kept' = FALSE
StartFallback == Check /\ since.uci /\ Stage /\ UNCHANGED <<since, air>>

NoNetworks ==
  /\ Check /\ since.uci /\ fallback' = "leaving"
  /\ UNCHANGED <<uci, since, air, kept>>

Associate ==
  /\ fallback = "saved" /\ fallback' = "up"
  /\ air' = Air(uci)
  /\ UNCHANGED <<store, clock, night, checked, read, wanted, kept, overtaken, reboots>>

\* Mutant: the staged configuration stays.
RevertedNot == uci
Reverted == flash
\* Five seconds later; what others have staged goes as well.
Revert ==
  /\ fallback = "up" /\ fallback' = "updating"
  /\ uci' = Reverted
  /\ UNCHANGED <<flash, since, spoiled, air, clock, night, checked, read, wanted, kept,
                 overtaken, reboots>>

\* run_autoupdater returns nothing: the next network is tried in any case.
NextNetwork ==
  /\ fallback = "updating" /\ Stage
  /\ UNCHANGED <<flash, since, spoiled, air, clock, night, checked, read, wanted,
                 overtaken, reboots>>
NoMoreNetworks ==
  /\ fallback = "updating" /\ fallback' = "leaving"
  /\ UNCHANGED <<store, air, clock, night, checked, read, wanted, kept, overtaken, reboots>>

\* revert_to_standard_mode
RestartNetwork ==
  /\ fallback = "leaving" /\ fallback' = "idle"
  /\ air' = Air(uci) /\ overtaken' = Reloaded
  /\ UNCHANGED <<store, clock, night, checked, read, wanted, kept, reboots>>
-----------------------------------------------------------------------------
(***************************************************************************)
(* Everybody else.                                                         *)
(***************************************************************************)
\* The seconds in which the fallback's configuration is staged.
InWindow == fallback \in {"saved", "up"}

\* `uci commit` without a package.
Commit ==
  /\ <<flash, since.flash>> # <<uci, since.uci>>
  /\ flash' = uci /\ since' = [since EXCEPT !.flash = since.uci]
  /\ spoiled' = IF InWindow THEN "committed" ELSE spoiled
  /\ UNCHANGED <<uci, air, clock, night, fallback, checked, read, wanted, kept, overtaken,
                 reboots>>

\* Mutant: what is configured is read off the state the night has left.
PreservedState(c) ==
  [disabled |-> c.disabled, cfgdisabled |-> c.disabled, nachtruhe |-> c.nachtruhe]
\* configure_client makes the section again with its three options.
Preserved(c) ==
  [disabled |-> c.disabled, cfgdisabled |-> c.cfgdisabled, nachtruhe |-> c.nachtruhe]

\* Mutant: a section that was missing gets only the option the core's script sets.
UpgradedBare(c) == [r \in Radio |-> IF Standard(c) THEN Preserved(c[r])
                                    ELSE [disabled |-> SiteDisabled[r]]]
Upgraded(c) == [r \in Radio |-> IF Standard(c) THEN Preserved(c[r]) ELSE FromSite(r)]

\* site-upgrade, as far as the wireless configuration goes: with the first uci:get of 321
\* its cursor has read all sections; the 200 before it has made those of the mesh.
ReadSections ==
  /\ read = Nothing /\ read' = uci
  /\ spoiled' = IF spoiled = "no" /\ InWindow THEN "read" ELSE spoiled
  /\ UNCHANGED <<flash, uci, since, air, clock, night, fallback, checked, wanted, kept,
                 overtaken, reboots>>

\* uci:save stages the sections as they were read, over what has been staged since.  The
\* commit of the site-upgrade is one of Commit's.
SaveSections ==
  /\ read # Nothing /\ read' = Nothing
  /\ uci' = Upgraded(read)
  /\ overtaken' = IF uci' = uci THEN overtaken ELSE "now"
  /\ UNCHANGED <<flash, since, spoiled, air, clock, night, fallback, checked, wanted, kept, reboots>>

\* What a boot with configuration c leaves of everything else.  How long the node was
\* off is not known, so that the fallback may be due in any case.
Boot(c) ==
  /\ reboots < MaxReboots /\ reboots' = reboots + 1
  /\ uci' = c /\ air' = Air(c)
  /\ since' = [since EXCEPT !.uci = since.flash]
  /\ night' = NoNight /\ fallback' = "idle" /\ kept' = FALSE
  /\ read' = Nothing /\ overtaken' = "no"
  /\ clock' \in DOMAIN Hours /\ checked' = FALSE

\* By siteselect, by the operator, or because power was lost.
Reboot ==
  /\ Boot(flash)
  /\ UNCHANGED <<flash, spoiled, wanted>>

\* Setup mode: the node is rebooted, the form saved and committed, the node rebooted.
Configure ==
  /\ Standard(flash)
  /\ flash' \in [Radio -> Saved]
  /\ wanted' = Settings(flash')
  /\ Boot(flash')
  /\ spoiled' = IF spoiled = "read" THEN "no" ELSE spoiled

NightSteps == ListRadios \/ (\E r \in Radio : AdjustRadio(r)) \/ EndNight
FallbackSteps == Associate \/ Revert \/ NextNetwork \/ NoMoreNetworks \/ RestartNetwork

Next ==
  \/ FullHour \/ NightSteps
  \/ Connected \/ NoticeUnreachable \/ StartFallback \/ NoNetworks \/ FallbackSteps
  \/ Commit \/ ReadSections \/ SaveSections \/ Reboot \/ Configure

\* micrond starts the script every hour, scripts go on, and the networks in reach
\* are not without end.
Fairness ==
  /\ WF_vars(FullHour) /\ WF_vars(NightSteps) /\ WF_vars(FallbackSteps)
  /\ SF_vars(NoMoreNetworks)

Spec == Init /\ [][Next]_vars /\ Fairness
-----------------------------------------------------------------------------
(***************************************************************************)
(* Properties.                                                             *)
(***************************************************************************)
OnAir(r) == Standard(air) /\ air[r] = 0
Daytime == Hours[clock] \in 6 .. 21
Unspoiled == spoiled = "no"

\* The clients find the network exactly as the form says: off where it was switched off,
\* with nighttime peace on from 6 to 22 only, and on otherwise.
AsTheFormSays ==
  \A r \in Radio :
    OnAir(r) <=> wanted[r].cfgdisabled = 0 /\ (wanted[r].nachtruhe = 1 => Daytime)

\* nachtruhe.sh has run in this hour, and nobody is at work on the air.
AtRest == kept /\ night.pc = "idle" /\ fallback = "idle"

\* Once nachtruhe.sh has run in an hour the clients find the network as the form says for
\* it, whatever commits, upgrades and late restarts of the network follow.  The delay of
\* the script "to prevent race conditions" (line 10) does not prevent one: if 321 has put
\* a state of before over the script's, the clients find what the form says again from the
\* script's next run on that has anything to change.
ClientsFollowTheHour == AtRest /\ overtaken = "no" /\ Unspoiled => AsTheFormSays

\* A night that was committed does not last: unless the fallback goes on and on, or 321
\* does overtaking nachtruhe.sh, a client network that is switched on comes back after
\* every reboot and revert.
NightEnds ==
  <>[](fallback = "idle" /\ overtaken = "no") =>
    \A r \in Radio : []<>(OnAir(r) \/ wanted[r].cfgdisabled = 1 \/ ~Unspoiled)

\* Every excursion into a foreign network ends in standard mode, unless a bare commit
\* has met the staged configuration and made it the permanent one.
MeshComesBack == ~Standard(air) ~> Standard(air) \/ spoiled = "committed"

\* What was set in the form is what flash holds, through nights, reverts, upgrades
\* and commits, unless a commit or the reading half of an upgrade comes in the seconds
\* the fallback's configuration is staged.
SettingsSurvive == Unspoiled => Standard(flash) /\ Settings(flash) = wanted
=============================================================================
