----------------------- MODULE SiteSelectRebootProofs -----------------------
(***************************************************************************)
(* Theorems about SiteSelect, for every set of communities and any number  *)
(* of disturbances: the cron job stops only on a node that has its site,   *)
(* a reboot finds the configuration of that site, and there is no third    *)
(* reboot for one and the same site.                                       *)
(***************************************************************************)
EXTENDS SiteSelectProofs

-----------------------------------------------------------------------------
(***************************************************************************)
(* The site a run works with, and the one in place.                        *)
(***************************************************************************)

Early == {"start", "senddata", "rgeo", "uptime", "consider"}
Read == Early \ {"start"}
HasNew == {"copy", "install"}

\* Only the boot run's site-upgrade of a new image chooses a site by itself, and
\* then it, or a file cut short, is in place when the upgrade scripts run.
FreshInv ==
  /\ ~fresh => siteselect # NoCode
  /\ fresh =>
       /\ pc["cron"] = "idle" /\ pc["boot"] \in InUpgrade /\ mode = "normal"
       /\ ~needsRgeo /\ ~timer /\ ~long
       /\ \A q \in Run : cur[q] = Empty
       /\ site = Torn => siteselect \in Known
       /\ pc["boot"] = "install" =>
            new["boot"] = siteselect /\ siteselect # NoCode
       /\ depth["boot"] > 0 \/ pc["boot"] \in {"generate", "commit", "unlock"} =>
            /\ siteselect # NoCode
            /\ siteselect \in Known => site \in {siteselect, Torn}

\* The run has asked for its site and does not come back to ask again.
Past(q) == pc[q] \notin Early /\ (q = "cron" => cronRan)

\* One run at a time asks rgeo.sh, and the other one has considered before.
RgeoInv ==
  /\ needsRgeo => \E q \in Run : Past(q)
  /\ \A r, q \in Run : r # q /\ pc[r] = "rgeo" => Past(q)

\* If the site changed under a run that is about to install one, it was the other
\* run that asked rgeo.sh, and that does not start again.
StaleInv ==
  \A r, q \in Run :
    r # q /\ pc[q] \in HasNew /\ new[q] # siteselect =>
      /\ pc[r] # "start" /\ (r = "cron" => cronRan)
      /\ new[q] \notin Known => site # Torn

\* Until rgeo.sh has been asked with success, there has been no site but one.
Unplaced == locode = NoCode \/ needsRgeo \/ \E r \in Run : pc[r] = "rgeo"
UnplacedInv ==
  ~fresh /\ Unplaced =>
    /\ \A q \in Run : pc[q] \in HasNew => new[q] = siteselect
    /\ siteselect \in Known =>
         /\ site \in {siteselect, Torn}
         /\ \A q \in Run : cur[q] \in {Empty, siteselect}
    /\ siteselect \notin Known =>
         /\ site # Torn
         /\ \A q \in Run : cur[q] \in {Empty, site}

\* A run that has read its own site as the current one is right, and nobody is about
\* to install another.
ReadInv ==
  \A r \in Run :
    pc[r] \in Read /\ cur[r] = siteselect =>
      /\ site = siteselect
      /\ \A q \in Run : pc[q] \in HasNew /\ new[q] \in Known => new[q] = siteselect

\* No site-upgrade for a site with a path goes on with a torn file.
WholeInv ==
  /\ mode = "normal" /\ ~fresh /\ siteselect \in Known
  /\ timer \/ \E q \in Run : Upgrading(q)
  => site # Torn

SettledInv ==
  FreshInv /\ RgeoInv /\ StaleInv /\ UnplacedInv /\ ReadInv /\ WholeInv

SiteInv == LockInv /\ DepthInv /\ Types /\ SettledInv

\* What the invariants of SiteSelectProofs say that the following proofs need.
LEMMA Basics ==
  ASSUME SiteInv
  PROVE  /\ pc \in [Run -> Places] /\ depth \in [Run -> 0 .. 2]
         /\ cur \in [Run -> File \union {Empty}]
         /\ new \in [Run -> Code \union {NoCode}]
         /\ siteselect \in Code \union {NoCode} /\ site \in File
         /\ locode \in Code \union {NoCode}
         /\ staged \in (File \ {Torn}) \union {NoDelta}
         /\ variant \in {"package", "setup"} /\ mode \in {"normal", "setup"}
         /\ reboots \in 0 .. 3
         /\ pc["cron"] # "idle" => cronRan /\ ~fresh /\ mode = "normal"
         /\ \A r \in Run : depth[r] > 0 => pc[r] \in InUpgrade
  BY DEF SiteInv, DepthInv, LockInv, Types, Values

\* The values that are no codes are no codes.
LEMMA NoCodes ==
  /\ Known \subseteq Code /\ Default \in Code
  /\ NoCode \notin Code /\ Empty \notin Code /\ Torn \notin Code
  /\ NoDelta \notin Code /\ NoCode # Empty /\ NoCode # Torn
  /\ NoCode # NoDelta /\ Empty # Torn /\ Torn # NoDelta
  BY CodesAssumption

LEMMA Moves ==
  ASSUME pc \in [Run -> Places], NEW r \in Run, NEW from, NEW to,
         Goto(r, from, to)
  PROVE  /\ pc[r] = from /\ pc'[r] = to
         /\ \A q \in Run : q # r => pc'[q] = pc[q]
  BY DEF Goto

LEMMA InitSettled == Init => SettledInv
<1> SUFFICES ASSUME Init PROVE SettledInv
  OBVIOUS
<1>1. /\ fresh /\ pc["boot"] = "check" /\ pc["cron"] = "idle"
      /\ mode = "normal" /\ ~needsRgeo /\ ~timer /\ ~long
      /\ (\A q \in Run : cur[q] = Empty) /\ depth["boot"] = 0
      /\ site # Torn
  BY CodesAssumption DEF Init, Run
<1>2. FreshInv
  BY <1>1 DEF FreshInv, InUpgrade
<1>3. RgeoInv /\ StaleInv /\ ReadInv
  BY <1>1 DEF RgeoInv, StaleInv, ReadInv, Run, HasNew, Read, Early
<1>4. UnplacedInv /\ WholeInv
  BY <1>1 DEF UnplacedInv, WholeInv
<1>5. QED
  BY <1>2, <1>3, <1>4 DEF SettledInv

\* A run goes on without asking, choosing or installing a site.
LEMMA QuietSettled ==
  ASSUME SiteInv, NEW r \in Run, NEW from \in Places, NEW to \in Places,
         Goto(r, from, to),
         UNCHANGED << fresh, locode, siteselect, site, needsRgeo, cur, new,
                      mode, cronRan >>,
         timer' => timer \/ from = "schedule",
         to \notin {"start", "senddata", "rgeo"} \union HasNew,
         to \in Read => from \in Read,
         to \in InUpgrade \union {"schedule"} =>
           from \in InUpgrade \union {"schedule"},
         FreshInv'
  PROVE  SettledInv'
<1>1. /\ pc[r] = from /\ pc'[r] = to
      /\ \A q \in Run : q # r => pc'[q] = pc[q]
  BY Moves, Basics
<1>2. RgeoInv'
  <2>1. \A q \in Run : Past(q) => Past(q)'
    BY <1>1 DEF Past, Early, Read, HasNew
  <2>2. QED
    BY <1>1, <2>1 DEF SiteInv, SettledInv, RgeoInv
<1>3. StaleInv'
  BY <1>1 DEF SiteInv, SettledInv, StaleInv
<1>4. UnplacedInv'
  BY <1>1 DEF SiteInv, SettledInv, UnplacedInv, Unplaced
<1>5. ReadInv'
  BY <1>1 DEF SiteInv, SettledInv, ReadInv
<1>6. WholeInv'
  <2>1. \A q \in Run : Upgrading(q)' => Upgrading(q)
    BY <1>1 DEF Upgrading, Places, InUpgrade, HasNew
  <2>2. timer' => timer \/ Upgrading(r)
    BY <1>1 DEF Upgrading
  <2>3. QED
    BY <2>1, <2>2 DEF SiteInv, SettledInv, WholeInv
<1>7. QED
  BY <1>2, <1>3, <1>4, <1>5, <1>6 DEF SettledInv

(***************************************************************************)
(* The steps of the siteselect script.                                     *)
(***************************************************************************)
LEMMA StartSettled ==
  ASSUME SiteInv, NEW r \in Run, Start(r)
  PROVE  SettledInv'
<1>1. /\ pc[r] = "start" /\ pc'[r] \in {"senddata", "rgeo", "uptime"}
      /\ \A q \in Run : q # r => pc'[q] = pc[q]
      /\ pc'[r] = "rgeo" => needsRgeo
  BY Moves, Basics DEF Start
<1>2. /\ cur'[r] = CurrentCommunity
      /\ \A q \in Run : q # r => cur'[q] = cur[q]
  BY Basics DEF Start
<1>3. UNCHANGED << fresh, locode, siteselect, site, needsRgeo, new, mode,
                   cronRan, timer, depth, long >>
  BY DEF Start, flash, ram
<1>4. ~fresh
  BY <1>1, Basics DEF SiteInv, SettledInv, FreshInv, InUpgrade, Run
<1>5. CurrentCommunity \in {Empty, site} \ {Torn}
  BY NoCodes DEF CurrentCommunity
<1>6. FreshInv'
  BY <1>3, <1>4 DEF SiteInv, SettledInv, FreshInv
<1>7. RgeoInv'
  BY <1>1, <1>3 DEF SiteInv, SettledInv, RgeoInv, Past, Early, Run
<1>8. StaleInv'
  BY <1>1, <1>3 DEF SiteInv, SettledInv, StaleInv, HasNew
<1>9. UnplacedInv'
  <2>1. Unplaced' => Unplaced
    BY <1>1, <1>3 DEF Unplaced
  <2>2. QED
    BY <1>1, <1>2, <1>3, <1>4, <1>5, <2>1
    DEF SiteInv, SettledInv, UnplacedInv, HasNew
<1>10. ReadInv'
  <2> SUFFICES ASSUME NEW p \in Run, pc'[p] \in Read, cur'[p] = siteselect
               PROVE  /\ site = siteselect
                      /\ \A q \in Run : pc'[q] \in HasNew /\ new[q] \in Known
                                           => new[q] = siteselect
    BY <1>3 DEF ReadInv
  <2>1. \A q \in Run : pc'[q] \in HasNew => q # r /\ pc[q] \in HasNew
    BY <1>1 DEF HasNew
  <2>2. CASE p = r
    <3>1. site = siteselect
      BY <1>2, <1>5, <2>2, NoCodes, Basics
    <3>2. \A q \in Run : pc[q] \in HasNew /\ q # r => new[q] = siteselect
      BY <1>1 DEF SiteInv, SettledInv, StaleInv
    <3>3. QED
      BY <2>1, <3>1, <3>2
  <2>3. CASE p # r
    BY <1>1, <1>2, <2>1, <2>3 DEF SiteInv, SettledInv, ReadInv
  <2>4. QED
    BY <2>2, <2>3
<1>11. WholeInv'
  BY <1>1, <1>3 DEF SiteInv, SettledInv, WholeInv, Upgrading
<1>12. QED
  BY <1>6, <1>7, <1>8, <1>9, <1>10, <1>11 DEF SettledInv

LEMMA ForceSendDataSettled ==
  ASSUME SiteInv, NEW r \in Run, ForceSendData(r)
  PROVE  SettledInv'
<1>1. /\ pc[r] = "senddata" /\ pc'[r] = "uptime"
      /\ \A q \in Run : q # r => pc'[q] = pc[q]
  BY Moves, Basics DEF ForceSendData
<1>2. UNCHANGED << fresh, siteselect, site, cur, new, mode, cronRan, timer,
                   depth, long >>
  BY DEF ForceSendData
<1>3. ~needsRgeo' /\ locode' \in Code \union {locode}
  BY DEF ForceSendData, SendData
<1>4. ~fresh
  BY <1>1, Basics DEF SiteInv, SettledInv, FreshInv, InUpgrade, Run
<1>5. FreshInv'
  BY <1>2, <1>4 DEF SiteInv, SettledInv, FreshInv
<1>6. RgeoInv'
  BY <1>1, <1>2, <1>3 DEF SiteInv, SettledInv, RgeoInv, Past, Early
<1>7. StaleInv'
  BY <1>1, <1>2 DEF SiteInv, SettledInv, StaleInv, HasNew
<1>8. UnplacedInv'
  <2>1. Unplaced' => Unplaced
    BY <1>1, <1>3, NoCodes DEF Unplaced
  <2>2. QED
    BY <1>1, <1>2, <2>1 DEF SiteInv, SettledInv, UnplacedInv, HasNew
<1>9. ReadInv'
  BY <1>1, <1>2 DEF SiteInv, SettledInv, ReadInv, Read, Early, HasNew
<1>10. WholeInv'
  BY <1>1, <1>2 DEF SiteInv, SettledInv, WholeInv, Upgrading
<1>11. QED
  BY <1>5, <1>6, <1>7, <1>8, <1>9, <1>10 DEF SettledInv

\* The one step by which the selected site changes under another run.
LEMMA RgeoSettled ==
  ASSUME SiteInv, NEW r \in Run, Rgeo(r)
  PROVE  SettledInv'
<1>1. /\ pc[r] = "rgeo" /\ pc'[r] = "uptime"
      /\ \A q \in Run : q # r => pc'[q] = pc[q]
  BY Moves, Basics DEF Rgeo
<1>2. UNCHANGED << fresh, site, cur, new, mode, cronRan, timer, depth, long >>
  BY DEF Rgeo
<1>3. ~needsRgeo'
  BY DEF Rgeo
<1>4. UNCHANGED << locode, siteselect >> \/ (locode' \in Code /\ siteselect' = locode')
  BY DEF Rgeo, ReverseGeo
<1>5. ~fresh /\ (r = "cron" => cronRan)
  BY <1>1, Basics DEF SiteInv, SettledInv, FreshInv, InUpgrade, Run
<1>6. \A q \in Run : q # r => Past(q)
  BY <1>1 DEF SiteInv, SettledInv, RgeoInv
<1>7. UnplacedInv /\ Unplaced
  BY <1>1 DEF SiteInv, SettledInv, Unplaced
<1>8. FreshInv'
  BY <1>2, <1>4, <1>5, NoCodes DEF SiteInv, SettledInv, FreshInv
<1>9. RgeoInv'
  BY <1>1, <1>3, <1>6 DEF RgeoInv, Past, Early
<1>10. StaleInv'
  BY <1>1, <1>2, <1>4, <1>5, <1>7
  DEF SiteInv, SettledInv, StaleInv, UnplacedInv, HasNew, Run
<1>11. UnplacedInv'
  <2>1. Unplaced' => UNCHANGED siteselect
    BY <1>1, <1>3, <1>4, <1>6, NoCodes DEF Unplaced, Past, Early
  <2>2. QED
    BY <1>1, <1>2, <1>5, <1>7, <2>1 DEF UnplacedInv, HasNew
<1>12. ReadInv'
  <2>1. \A q \in Run : q # r => pc'[q] \notin Read
    BY <1>1, <1>6 DEF Past, Read, Early
  <2>2. \A q \in Run : pc'[q] \in HasNew => pc[q] \in HasNew
    BY <1>1 DEF HasNew
  <2>3. cur[r] = siteselect' =>
          /\ site = siteselect'
          /\ \A q \in Run : pc[q] \in HasNew /\ new[q] \in Known
                               => new[q] = siteselect'
    <3>1. CASE UNCHANGED siteselect
      BY <1>1, <3>1 DEF SiteInv, SettledInv, ReadInv, Read, Early
    <3>2. CASE siteselect' \in Code /\ siteselect \in Known
      <4>1. cur[r] = siteselect' => siteselect' = siteselect
        BY <1>5, <1>7, <3>2, NoCodes DEF UnplacedInv
      <4>2. QED
        BY <4>1, <3>1
    <3>3. CASE siteselect' \in Code /\ siteselect \notin Known
      BY <1>5, <1>7, <3>3, NoCodes DEF UnplacedInv
    <3>4. QED
      BY <1>4, <3>1, <3>2, <3>3
  <2>4. QED
    BY <1>2, <2>1, <2>2, <2>3 DEF ReadInv
<1>13. WholeInv'
  <2>1. \A q \in Run : Upgrading(q)' => Upgrading(q)
    BY <1>1 DEF Upgrading
  <2>2. siteselect \notin Known => site # Torn
    BY <1>5, <1>7 DEF UnplacedInv
  <2>3. QED
    BY <1>2, <2>1, <2>2 DEF SiteInv, SettledInv, WholeInv
<1>14. QED
  BY <1>8, <1>9, <1>10, <1>11, <1>12, <1>13 DEF SettledInv

LEMMA AllowRebootSettled ==
  ASSUME SiteInv, NEW r \in Run, AllowReboot(r)
  PROVE  SettledInv'
<1>1. Goto(r, "uptime", "consider") /\ pc[r] = "uptime"
  BY DEF AllowReboot, Goto
<1>2. UNCHANGED << fresh, locode, siteselect, site, needsRgeo, cur, new, mode,
                   cronRan, timer, depth, long >>
  BY DEF AllowReboot
<1>3. ~fresh
  BY <1>1, Basics DEF SiteInv, SettledInv, FreshInv, InUpgrade, Run
<1>4. FreshInv'
  BY <1>2, <1>3 DEF SiteInv, SettledInv, FreshInv
<1>5. QED
  BY <1>1, <1>2, <1>4, QuietSettled DEF Places, Read, Early, HasNew, InUpgrade

LEMMA SettleSettled ==
  ASSUME SiteInv, NEW r \in Run, Settle(r)
  PROVE  SettledInv'
<1>1. Goto(r, "consider", "idle") /\ pc[r] = "consider"
  BY DEF Settle, Goto
<1>2. UNCHANGED << fresh, locode, siteselect, site, needsRgeo, cur, new, mode,
                   cronRan, timer, depth, long >>
  BY DEF Settle
<1>3. ~fresh
  BY <1>1, Basics DEF SiteInv, SettledInv, FreshInv, InUpgrade, Run
<1>4. FreshInv'
  BY <1>2, <1>3 DEF SiteInv, SettledInv, FreshInv
<1>5. QED
  BY <1>1, <1>2, <1>4, QuietSettled DEF Places, Read, Early, HasNew, InUpgrade

LEMMA ScheduleSettled ==
  ASSUME SiteInv, NEW r \in Run, Schedule(r)
  PROVE  SettledInv'
<1>1. Goto(r, "schedule", "idle") /\ pc[r] = "schedule"
  BY DEF Schedule, Goto
<1>2. UNCHANGED << fresh, locode, siteselect, site, needsRgeo, cur, new, mode,
                   cronRan, depth, long >>
  BY DEF Schedule
<1>3. ~fresh
  BY <1>1, Basics DEF SiteInv, SettledInv, FreshInv, InUpgrade, Run
<1>4. FreshInv'
  BY <1>2, <1>3 DEF SiteInv, SettledInv, FreshInv
<1>5. QED
  BY <1>1, <1>2, <1>4, QuietSettled DEF Places, Read, Early, HasNew, InUpgrade

LEMMA ConsiderSettled ==
  ASSUME SiteInv, NEW r \in Run, Consider(r)
  PROVE  SettledInv'
<1>1. /\ pc[r] = "consider" /\ pc'[r] \in {"idle", "copy"}
      /\ \A q \in Run : q # r => pc'[q] = pc[q]
  BY Moves, Basics DEF Consider
<1>2. UNCHANGED << fresh, locode, siteselect, site, cur, mode, cronRan, timer,
                   depth, long >>
  BY DEF Consider, flash
<1>3. /\ needsRgeo' => needsRgeo \/ locode = NoCode
      /\ new'[r] = siteselect /\ \A q \in Run : q # r => new'[q] = new[q]
  BY Basics DEF Consider
<1>4. ~fresh /\ (r = "cron" => cronRan)
  BY <1>1, Basics DEF SiteInv, SettledInv, FreshInv, InUpgrade, Run
<1>5. FreshInv'
  BY <1>2, <1>4 DEF SiteInv, SettledInv, FreshInv
<1>6. RgeoInv'
  <2>1. Past(r)' /\ \A q \in Run : Past(q) => Past(q)'
    BY <1>1, <1>2, <1>4 DEF Past, Early
  <2>2. QED
    BY <1>1, <2>1 DEF SiteInv, SettledInv, RgeoInv
<1>7. StaleInv'
  BY <1>1, <1>2, <1>3 DEF SiteInv, SettledInv, StaleInv, HasNew
<1>8. UnplacedInv'
  <2>1. Unplaced' => Unplaced
    BY <1>1, <1>2, <1>3 DEF Unplaced
  <2>2. QED
    BY <1>1, <1>2, <1>3, <2>1 DEF SiteInv, SettledInv, UnplacedInv, HasNew
<1>9. ReadInv'
  BY <1>1, <1>2, <1>3 DEF SiteInv, SettledInv, ReadInv, Read, Early, HasNew
<1>10. WholeInv'
  BY <1>1, <1>2 DEF SiteInv, SettledInv, WholeInv, Upgrading
<1>11. QED
  BY <1>5, <1>6, <1>7, <1>8, <1>9, <1>10 DEF SettledInv

LEMMA CopySettled ==
  ASSUME SiteInv, NEW r \in Run, Copy(r)
  PROVE  SettledInv'
<1>1. /\ pc[r] = "copy" /\ pc'[r] = "check"
      /\ \A q \in Run : q # r => pc'[q] = pc[q]
  BY Moves, Basics DEF Copy
<1>2. UNCHANGED << fresh, locode, siteselect, needsRgeo, cur, new, mode,
                   cronRan, timer, long >>
  BY DEF Copy, ram
<1>3. site' = IF new[r] \in Known THEN new[r] ELSE site
  BY DEF Copy, Install
<1>4. ~fresh
  BY <1>1, Basics DEF SiteInv, SettledInv, FreshInv, InUpgrade, Run
<1>5. FreshInv'
  BY <1>2, <1>4 DEF SiteInv, SettledInv, FreshInv
<1>6. RgeoInv'
  BY <1>1, <1>2 DEF SiteInv, SettledInv, RgeoInv, Past, Early
<1>7. StaleInv'
  BY <1>1, <1>2, <1>3, NoCodes DEF SiteInv, SettledInv, StaleInv, HasNew
<1>8. UnplacedInv'
  <2>1. Unplaced' => Unplaced
    BY <1>1, <1>2 DEF Unplaced
  <2>2. QED
    BY <1>1, <1>2, <1>3, <2>1 DEF SiteInv, SettledInv, UnplacedInv, HasNew
<1>9. ReadInv'
  BY <1>1, <1>2, <1>3 DEF SiteInv, SettledInv, ReadInv, Read, Early, HasNew
<1>10. WholeInv'
  <2>1. \E q \in Run : q # r
    BY DEF Run
  <2>2. siteselect \in Known => site' # Torn
    BY <1>1, <1>3, <2>1, NoCodes DEF SiteInv, SettledInv, StaleInv, HasNew
  <2>3. QED
    BY <1>2, <2>2 DEF WholeInv
<1>11. QED
  BY <1>5, <1>6, <1>7, <1>8, <1>9, <1>10 DEF SettledInv

LEMMA ScriptSettled ==
  ASSUME SiteInv, NEW r \in Run, Script(r)
  PROVE  SettledInv'
  BY StartSettled, ForceSendDataSettled, RgeoSettled, AllowRebootSettled,
     SettleSettled, ConsiderSettled, CopySettled, ScheduleSettled DEF Script

(***************************************************************************)
(* The steps of site-upgrade.  Those of a new image are alone on the node. *)
(***************************************************************************)
LEMMA FreshIsAlone ==
  ASSUME SiteInv, fresh, NEW r \in Run, pc[r] \in InUpgrade
  PROVE  /\ r = "boot" /\ pc["cron"] = "idle" /\ depth["cron"] = 0
         /\ \A q \in Run : q # r => pc[q] = "idle"
         /\ mode = "normal" /\ ~timer /\ ~needsRgeo
<1>1. pc["cron"] = "idle" /\ mode = "normal" /\ ~timer /\ ~needsRgeo
  BY DEF SiteInv, SettledInv, FreshInv
<1>2. r = "boot"
  BY <1>1 DEF Run, InUpgrade
<1>3. depth["cron"] = 0
  BY <1>1, Basics DEF Run, InUpgrade
<1>4. QED
  BY <1>1, <1>2, <1>3 DEF Run

LEMMA CheckLockSettled ==
  ASSUME SiteInv, NEW r \in Run, CheckLock(r)
  PROVE  SettledInv'
<1>1. PICK to \in {"touch", "generate", "idle"} :
        /\ Goto(r, "check", to)
        /\ to = "generate" => lock \/ site = Torn
        /\ to = "idle" => mode = "setup"
  BY DEF CheckLock, AfterSite
<1>2. UNCHANGED << fresh, locode, siteselect, site, needsRgeo, cur, new, mode,
                   cronRan, timer, depth, long >>
  BY DEF CheckLock, flash, ram
<1>3. pc[r] = "check" /\ pc'[r] = to /\ \A q \in Run : q # r => pc'[q] = pc[q]
  BY <1>1, Moves, Basics
<1>4. FreshInv'
  <2>1. CASE fresh
    <3>1. r = "boot" /\ mode = "normal" /\ pc["cron"] = "idle"
          /\ depth["cron"] = 0
      BY <1>3, <2>1, FreshIsAlone DEF InUpgrade
    <3>2. site = Torn => siteselect # NoCode
      BY <2>1, <3>1, NoCodes DEF SiteInv, SettledInv, FreshInv
    <3>3. to = "generate" => depth["boot"] > 0 \/ (site = Torn /\ siteselect # NoCode)
      BY <1>1, <1>3, <3>1, <3>2 DEF SiteInv, LockInv, LockIsHeld, Run
    <3>4. QED
      BY <1>1, <1>2, <1>3, <2>1, <3>1, <3>3
      DEF SiteInv, SettledInv, FreshInv, InUpgrade, Run
  <2>2. CASE ~fresh
    BY <1>2, <2>2 DEF SiteInv, SettledInv, FreshInv
  <2>3. QED
    BY <2>1, <2>2
<1>5. QED
  BY <1>1, <1>2, <1>4, QuietSettled DEF Places, Read, Early, HasNew, InUpgrade

LEMMA TouchLockSettled ==
  ASSUME SiteInv, NEW r \in Run, TouchLock(r)
  PROVE  SettledInv'
<1>1. Goto(r, "touch", "select")
  BY DEF TouchLock
<1>2. UNCHANGED << fresh, locode, siteselect, site, needsRgeo, cur, new, mode,
                   cronRan, timer, depth, long >>
  BY DEF TouchLock, flash
<1>3. /\ pc[r] = "touch" /\ pc'[r] = "select"
      /\ \A q \in Run : q # r => pc'[q] = pc[q]
  BY <1>1, Moves, Basics
<1>4. FreshInv'
  BY <1>2, <1>3 DEF SiteInv, SettledInv, FreshInv, InUpgrade, Run
<1>5. QED
  BY <1>1, <1>2, <1>4, QuietSettled DEF Places, Read, Early, HasNew, InUpgrade

LEMMA SelectSiteSettled ==
  ASSUME SiteInv, NEW r \in Run, SelectSite(r)
  PROVE  SettledInv'
<1>1. /\ pc[r] = "select" /\ pc'[r] = "install"
      /\ \A q \in Run : q # r => pc'[q] = pc[q]
  BY Moves, Basics DEF SelectSite
<1>2. UNCHANGED << fresh, site, needsRgeo, cur, mode, cronRan, timer, depth,
                   long >>
  BY DEF SelectSite, ram
<1>3. /\ new'[r] = siteselect' /\ \A q \in Run : q # r => new'[q] = new[q]
      /\ siteselect # NoCode => UNCHANGED << locode, siteselect >>
      /\ siteselect' # NoCode
  BY Basics, NoCodes DEF SelectSite, SendData
<1>4. CASE fresh
  <2>1. r = "boot" /\ \A q \in Run : q # r => pc[q] = "idle"
    BY <1>1, <1>4, FreshIsAlone DEF InUpgrade
  <2>2. FreshInv'
    BY <1>1, <1>2, <1>3, <1>4, <2>1, NoCodes
    DEF SiteInv, SettledInv, FreshInv, InUpgrade, Run
  <2>3. ~needsRgeo /\ \A q \in Run : pc'[q] \in {"idle", "install"}
    BY <1>1, <1>4, <2>1, FreshIsAlone DEF InUpgrade
  <2>4. RgeoInv' /\ StaleInv' /\ ReadInv'
    BY <1>1, <1>2, <1>3, <2>1, <2>3
    DEF RgeoInv, StaleInv, ReadInv, Read, Early, HasNew
  <2>5. UnplacedInv' /\ WholeInv'
    BY <1>2, <1>4 DEF UnplacedInv, WholeInv
  <2>6. QED
    BY <2>2, <2>4, <2>5 DEF SettledInv
<1>5. CASE ~fresh
  <2>1. UNCHANGED << locode, siteselect >>
    BY <1>3, <1>5 DEF SiteInv, SettledInv, FreshInv
  <2>2. FreshInv'
    BY <1>2, <1>5, <2>1 DEF SiteInv, SettledInv, FreshInv
  <2>3. RgeoInv'
    BY <1>1, <1>2 DEF SiteInv, SettledInv, RgeoInv, Past, Early
  <2>4. StaleInv'
    BY <1>1, <1>2, <1>3, <2>1 DEF SiteInv, SettledInv, StaleInv, HasNew
  <2>5. UnplacedInv'
    <3>1. Unplaced' => Unplaced
      BY <1>1, <1>2, <2>1 DEF Unplaced
    <3>2. QED
      BY <1>1, <1>2, <1>3, <2>1, <3>1 DEF SiteInv, SettledInv, UnplacedInv, HasNew
  <2>6. ReadInv'
    BY <1>1, <1>2, <1>3, <2>1 DEF SiteInv, SettledInv, ReadInv, Read, Early, HasNew
  <2>7. WholeInv'
    BY <1>1, <1>2, <2>1 DEF SiteInv, SettledInv, WholeInv, Upgrading
  <2>8. QED
    BY <2>2, <2>3, <2>4, <2>5, <2>6, <2>7 DEF SettledInv
<1>6. QED
  BY <1>4, <1>5

LEMMA InstallSiteSettled ==
  ASSUME SiteInv, NEW r \in Run, InstallSite(r)
  PROVE  SettledInv'
<1>1. /\ pc[r] = "install" /\ pc'[r] = "check"
      /\ \A q \in Run : q # r => pc'[q] = pc[q]
  BY Moves, Basics DEF InstallSite
<1>2. UNCHANGED << fresh, locode, siteselect, needsRgeo, cur, new, mode,
                   cronRan, timer, long >>
  BY DEF InstallSite, ram
<1>3. site' = IF new[r] \in Known THEN new[r] ELSE site
  BY DEF InstallSite, Install
<1>4. CASE fresh
  <2>1. /\ r = "boot" /\ \A q \in Run : q # r => pc[q] = "idle"
        /\ new[r] = siteselect /\ siteselect # NoCode
    BY <1>1, <1>4, FreshIsAlone DEF SiteInv, SettledInv, FreshInv, InUpgrade
  <2>2. FreshInv'
    BY <1>1, <1>2, <1>3, <1>4, <2>1, NoCodes
    DEF SiteInv, SettledInv, FreshInv, InUpgrade, Run
  <2>3. ~needsRgeo /\ \A q \in Run : pc'[q] \in {"idle", "check"}
    BY <1>1, <1>4, <2>1, FreshIsAlone DEF InUpgrade
  <2>4. RgeoInv' /\ StaleInv' /\ ReadInv'
    BY <1>2, <2>3 DEF RgeoInv, StaleInv, ReadInv, Read, Early, HasNew
  <2>5. UnplacedInv' /\ WholeInv'
    BY <1>2, <1>4 DEF UnplacedInv, WholeInv
  <2>6. QED
    BY <2>2, <2>4, <2>5 DEF SettledInv
<1>5. CASE ~fresh
  <2>1. FreshInv'
    BY <1>2, <1>5 DEF SiteInv, SettledInv, FreshInv
  <2>2. RgeoInv'
    BY <1>1, <1>2 DEF SiteInv, SettledInv, RgeoInv, Past, Early
  <2>3. StaleInv'
    BY <1>1, <1>2, <1>3, NoCodes DEF SiteInv, SettledInv, StaleInv, HasNew
  <2>4. UnplacedInv'
    <3>1. Unplaced' => Unplaced
      BY <1>1, <1>2 DEF Unplaced
    <3>2. QED
      BY <1>1, <1>2, <1>3, <3>1 DEF SiteInv, SettledInv, UnplacedInv, HasNew
  <2>5. ReadInv'
    BY <1>1, <1>2, <1>3 DEF SiteInv, SettledInv, ReadInv, Read, Early, HasNew
  <2>6. WholeInv'
    <3>1. \E q \in Run : q # r
      BY DEF Run
    <3>2. siteselect \in Known => site' # Torn
      BY <1>1, <1>3, <3>1, NoCodes DEF SiteInv, SettledInv, StaleInv, HasNew
    <3>3. QED
      BY <1>2, <3>2 DEF WholeInv
  <2>7. QED
    BY <2>1, <2>2, <2>3, <2>4, <2>5, <2>6 DEF SettledInv
<1>6. QED
  BY <1>4, <1>5

LEMMA GenerateSettled ==
  ASSUME SiteInv, NEW r \in Run, Generate(r)
  PROVE  SettledInv'
<1>1. Goto(r, "generate", "commit")
  BY DEF Generate
<1>2. UNCHANGED << fresh, locode, siteselect, site, needsRgeo, cur, new, mode,
                   cronRan, timer, depth, long >>
  BY DEF Generate, flash
<1>3. /\ pc[r] = "generate" /\ pc'[r] = "commit"
      /\ \A q \in Run : q # r => pc'[q] = pc[q]
  BY <1>1, Moves, Basics
<1>4. FreshInv'
  BY <1>2, <1>3 DEF SiteInv, SettledInv, FreshInv, InUpgrade, Run
<1>5. QED
  BY <1>1, <1>2, <1>4, QuietSettled DEF Places, Read, Early, HasNew, InUpgrade

LEMMA CommitInnerSettled ==
  ASSUME SiteInv, NEW r \in Run, CommitInner(r)
  PROVE  SettledInv'
<1>1. Goto(r, "commit", "unlock")
  BY DEF CommitInner
<1>2. UNCHANGED << fresh, locode, siteselect, site, needsRgeo, cur, new, mode,
                   cronRan, timer, long >>
  BY DEF CommitInner
<1>3. /\ pc[r] = "commit" /\ pc'[r] = "unlock"
      /\ \A q \in Run : q # r => pc'[q] = pc[q]
  BY <1>1, Moves, Basics
<1>4. FreshInv'
  BY <1>2, <1>3 DEF SiteInv, SettledInv, FreshInv, InUpgrade, Run
<1>5. QED
  BY <1>1, <1>2, <1>4, QuietSettled DEF Places, Read, Early, HasNew, InUpgrade

LEMMA UnlockSettled ==
  ASSUME SiteInv, NEW r \in Run, Unlock(r)
  PROVE  SettledInv'
<1>1. PICK to \in {"generate", "idle"} :
        Goto(r, "unlock", to) /\ (to = "idle" => mode = "setup")
  BY DEF Unlock, AfterSite
<1>2. UNCHANGED << fresh, locode, siteselect, site, needsRgeo, cur, new, mode,
                   cronRan, timer, depth, long >>
  BY DEF Unlock, flash
<1>3. /\ pc[r] = "unlock" /\ pc'[r] = to
      /\ \A q \in Run : q # r => pc'[q] = pc[q]
  BY <1>1, Moves, Basics
<1>4. FreshInv'
  BY <1>1, <1>2, <1>3 DEF SiteInv, SettledInv, FreshInv, InUpgrade, Run
<1>5. QED
  BY <1>1, <1>2, <1>4, QuietSettled DEF Places, Read, Early, HasNew, InUpgrade

LEMMA CommitOuterSettled ==
  ASSUME SiteInv, NEW r \in Run, CommitOuter(r)
  PROVE  SettledInv'
<1>1. Goto(r, "commit", IF fresh THEN "start" ELSE "schedule")
  BY DEF CommitOuter
<1>2. /\ pc[r] = "commit" /\ pc'[r] = IF fresh THEN "start" ELSE "schedule"
      /\ \A q \in Run : q # r => pc'[q] = pc[q]
  BY <1>1, Moves, Basics
<1>3. UNCHANGED << locode, siteselect, site, needsRgeo, cur, new, mode,
                   cronRan, timer, depth, long >> /\ ~fresh'
  BY DEF CommitOuter
<1>4. CASE fresh
  <2>1. /\ r = "boot" /\ \A q \in Run : q # r => pc[q] = "idle"
        /\ siteselect # NoCode
        /\ siteselect \in Known => site \in {siteselect, Torn}
        /\ site = Torn => siteselect \in Known
        /\ ~needsRgeo /\ ~timer /\ \A q \in Run : cur[q] = Empty
    BY <1>2, <1>4, FreshIsAlone DEF SiteInv, SettledInv, FreshInv, InUpgrade
  <2>2. \A q \in Run : pc'[q] \in {"idle", "start"}
    BY <1>2, <1>4, <2>1
  <2>3. FreshInv'
    BY <1>3, <2>1 DEF FreshInv
  <2>4. WholeInv'
    BY <1>3, <2>1, <2>2 DEF WholeInv, Upgrading, InUpgrade
  <2>5. RgeoInv' /\ StaleInv' /\ ReadInv'
    BY <1>3, <2>1, <2>2 DEF RgeoInv, StaleInv, ReadInv, Read, Early, HasNew
  <2>6. UnplacedInv'
    BY <1>3, <2>1, <2>2 DEF UnplacedInv, HasNew
  <2>7. QED
    BY <2>3, <2>4, <2>5, <2>6 DEF SettledInv
<1>5. CASE ~fresh
  <2>1. FreshInv'
    BY <1>3, <1>5 DEF SiteInv, SettledInv, FreshInv
  <2>2. Goto(r, "commit", "schedule")
    BY <1>1, <1>5
  <2>3. UNCHANGED fresh
    BY <1>5 DEF CommitOuter, SiteInv, Types, Switches
  <2>4. QED
    BY <1>3, <2>1, <2>2, <2>3, QuietSettled
    DEF Places, Read, Early, HasNew, InUpgrade
<1>6. QED
  BY <1>4, <1>5

LEMMA UpgradeSettled ==
  ASSUME SiteInv, NEW r \in Run, Upgrade(r)
  PROVE  SettledInv'
  BY CheckLockSettled, TouchLockSettled, SelectSiteSettled, InstallSiteSettled,
     GenerateSettled, CommitInnerSettled, UnlockSettled, CommitOuterSettled
  DEF Upgrade

(***************************************************************************)
(* Cron, time, and what ends a boot.                                       *)
(***************************************************************************)
LEMMA CronStartSettled ==
  ASSUME SiteInv, CronStart
  PROVE  SettledInv'
<1>1. /\ pc["cron"] = "idle" /\ pc'["cron"] = "start" /\ pc'["boot"] = pc["boot"]
      /\ pc["boot"] = "idle" \/ ~cronRan
  BY Moves, Basics DEF CronStart, Run
<1>2. UNCHANGED << fresh, locode, siteselect, site, needsRgeo, cur, new, mode,
                   timer, depth, long >> /\ ~fresh /\ cronRan'
  BY DEF CronStart, flash
<1>3. FreshInv'
  BY <1>2 DEF SiteInv, SettledInv, FreshInv
<1>4. RgeoInv'
  BY <1>1, <1>2 DEF SiteInv, SettledInv, RgeoInv, Past, Early, Run
<1>5. StaleInv'
  BY <1>1, <1>2 DEF SiteInv, SettledInv, StaleInv, HasNew, Run
<1>6. UnplacedInv'
  BY <1>1, <1>2 DEF SiteInv, SettledInv, UnplacedInv, Unplaced, HasNew, Run
<1>7. ReadInv'
  BY <1>1, <1>2 DEF SiteInv, SettledInv, ReadInv, Read, Early, HasNew, Run
<1>8. WholeInv'
  BY <1>1, <1>2 DEF SiteInv, SettledInv, WholeInv, Upgrading, Run
<1>9. QED
  BY <1>3, <1>4, <1>5, <1>6, <1>7, <1>8 DEF SettledInv

LEMMA HourlySendDataSettled ==
  ASSUME SiteInv, HourlySendData
  PROVE  SettledInv'
<1>1. UNCHANGED << fresh, siteselect, site, needsRgeo, cur, new, mode, cronRan,
                   timer, depth, long, pc >> /\ ~fresh
  BY DEF HourlySendData, ram, run
<1>2. Unplaced' => Unplaced
  BY <1>1, NoCodes DEF HourlySendData, SendData, Unplaced
<1>3. FreshInv' /\ UnplacedInv'
  BY <1>1, <1>2 DEF SiteInv, SettledInv, FreshInv, UnplacedInv
<1>4. RgeoInv' /\ StaleInv' /\ ReadInv' /\ WholeInv'
  BY <1>1
  DEF SiteInv, SettledInv, RgeoInv, Past, StaleInv, ReadInv, WholeInv, Upgrading
<1>5. QED
  BY <1>3, <1>4 DEF SettledInv

LEMMA LongUptimeSettled ==
  ASSUME SiteInv, LongUptime
  PROVE  SettledInv'
<1>1. UNCHANGED << fresh, siteselect, site, locode, needsRgeo, cur, new, mode,
                   cronRan, timer, depth, pc >>
  BY DEF LongUptime, flash, run
<1>2. ~fresh
  BY DEF LongUptime, SiteInv, SettledInv, FreshInv, InUpgrade
<1>3. FreshInv' /\ UnplacedInv'
  BY <1>1, <1>2 DEF SiteInv, SettledInv, FreshInv, UnplacedInv, Unplaced
<1>4. RgeoInv' /\ StaleInv' /\ ReadInv' /\ WholeInv'
  BY <1>1
  DEF SiteInv, SettledInv, RgeoInv, Past, StaleInv, ReadInv, WholeInv, Upgrading
<1>5. QED
  BY <1>3, <1>4 DEF SettledInv

\* What a cut-short cp leaves behind suits the next boot.
LEMMA BootingSettled ==
  ASSUME SiteInv, UNCHANGED << fresh, siteselect, locode >>, CutShort,
         Booting(fresh)
  PROVE  SettledInv'
<1>1. /\ mode' = "normal" /\ ~long' /\ ~needsRgeo' /\ ~timer'
      /\ pc'["boot"] = IF fresh THEN "check" ELSE "start"
      /\ pc'["cron"] = "idle"
      /\ \A q \in Run : cur'[q] = Empty /\ depth'[q] = 0
  BY DEF Booting, Run
<1>2. \A q \in Run : pc'[q] \in {"idle", "start", "check"}
  BY <1>1 DEF Run
<1>3. site' \in {site, Torn} /\ (site' # site => Copying)
  BY DEF CutShort
<1>4. FreshInv'
  <2>1. CASE fresh
    <3>1. site' = Torn => siteselect \in Known
      BY <1>3, <2>1 DEF Copying, SiteInv, SettledInv, FreshInv, InUpgrade, Run
    <3>2. QED
      BY <1>1, <2>1, <3>1 DEF FreshInv, InUpgrade, Run
  <2>2. CASE ~fresh
    BY <2>2 DEF SiteInv, SettledInv, FreshInv
  <2>3. QED
    BY <2>1, <2>2
<1>5. RgeoInv' /\ StaleInv' /\ ReadInv'
  BY <1>1, <1>2 DEF RgeoInv, StaleInv, ReadInv, Read, Early, HasNew
<1>6. UnplacedInv'
  <2> SUFFICES ASSUME ~fresh, Unplaced'
               PROVE  /\ siteselect \in Known => site' \in {siteselect, Torn}
                      /\ siteselect \notin Known => site' # Torn
    BY <1>1, <1>2 DEF UnplacedInv, HasNew
  <2>1. UnplacedInv /\ Unplaced
    BY <1>1, <1>2 DEF Unplaced, SiteInv, SettledInv
  <2>2. siteselect \notin Known => ~Copying
    BY <2>1 DEF UnplacedInv, Copying, HasNew
  <2>3. QED
    BY <1>3, <2>1, <2>2 DEF UnplacedInv
<1>7. WholeInv'
  BY <1>1 DEF WholeInv, Upgrading, Run
<1>8. QED
  BY <1>4, <1>5, <1>6, <1>7 DEF SettledInv

LEMMA RebootSettled ==
  ASSUME SiteInv, Reboot \/ PowerLoss
  PROVE  SettledInv'
  BY BootingSettled DEF Reboot, PowerLoss

LEMMA SysupgradeSettled ==
  ASSUME SiteInv, Sysupgrade
  PROVE  SettledInv'
<1>1. /\ mode' = "normal" /\ ~long' /\ ~needsRgeo' /\ ~timer'
      /\ pc'["boot"] = "check" /\ pc'["cron"] = "idle"
      /\ \A q \in Run : cur'[q] = Empty /\ depth'[q] = 0
      /\ fresh' /\ site' # Torn
  BY CodesAssumption DEF Sysupgrade, Booting, Run
<1>2. \A q \in Run : pc'[q] \in {"idle", "check"}
  BY <1>1 DEF Run
<1>3. FreshInv'
  BY <1>1 DEF FreshInv, InUpgrade, Run
<1>4. RgeoInv' /\ StaleInv' /\ ReadInv'
  BY <1>1, <1>2 DEF RgeoInv, StaleInv, ReadInv, Read, Early, HasNew
<1>5. UnplacedInv' /\ WholeInv'
  BY <1>1 DEF UnplacedInv, WholeInv
<1>6. QED
  BY <1>3, <1>4, <1>5 DEF SettledInv

LEMMA SetupModeSettled ==
  ASSUME SiteInv, SetupMode
  PROVE  SettledInv'
<1>1. /\ mode' = "setup" /\ ~needsRgeo'
      /\ pc'["boot"] = "check" /\ pc'["cron"] = "idle"
      /\ \A q \in Run : cur'[q] = Empty
      /\ ~fresh /\ ~fresh'
  BY DEF SetupMode, Run
<1>2. UNCHANGED << locode, siteselect >>
      \/ (locode' \in Code /\ siteselect' = locode')
  BY DEF SetupMode, ReverseGeo
<1>3. \A q \in Run : pc'[q] \in {"idle", "check"}
  BY <1>1 DEF Run
<1>4. site' \in {site, Torn} /\ (site' # site => Copying)
  BY DEF SetupMode, CutShort
<1>5. FreshInv'
  BY <1>1, <1>2, NoCodes DEF SiteInv, SettledInv, FreshInv
<1>6. RgeoInv' /\ StaleInv' /\ ReadInv'
  BY <1>1, <1>3 DEF RgeoInv, StaleInv, ReadInv, Read, Early, HasNew
<1>7. UnplacedInv'
  <2> SUFFICES ASSUME Unplaced'
               PROVE  /\ siteselect' \in Known => site' \in {siteselect', Torn}
                      /\ siteselect' \notin Known => site' # Torn
    BY <1>1, <1>3 DEF UnplacedInv, HasNew
  <2>1. locode' = NoCode
    BY <1>1, <1>3 DEF Unplaced
  <2>2. UNCHANGED << locode, siteselect >>
    BY <1>2, <2>1, NoCodes
  <2>3. UnplacedInv /\ Unplaced
    BY <2>1, <2>2 DEF Unplaced, SiteInv, SettledInv
  <2>4. siteselect \notin Known => ~Copying
    BY <1>1, <2>3 DEF UnplacedInv, Copying, HasNew
  <2>5. QED
    BY <1>1, <1>4, <2>2, <2>3, <2>4 DEF UnplacedInv
<1>8. WholeInv'
  BY <1>1 DEF WholeInv
<1>9. QED
  BY <1>5, <1>6, <1>7, <1>8 DEF SettledInv

LEMMA StepSettled == SiteInv /\ [Next]_vars => SettledInv'
<1> SUFFICES ASSUME SiteInv, [Next]_vars PROVE SettledInv'
  OBVIOUS
<1>1. CASE \E r \in Run : Script(r) \/ Upgrade(r)
  BY <1>1, ScriptSettled, UpgradeSettled
<1>2. CASE CronStart \/ HourlySendData \/ LongUptime
  BY <1>2, CronStartSettled, HourlySendDataSettled, LongUptimeSettled
<1>3. CASE Reboot \/ PowerLoss \/ Sysupgrade \/ SetupMode
  BY <1>3, RebootSettled, SysupgradeSettled, SetupModeSettled
<1>4. CASE UNCHANGED vars
  <2>1. UNCHANGED << fresh, siteselect, site, locode, needsRgeo, cur, new,
                     mode, cronRan, timer, depth, pc, long >>
    BY <1>4 DEF vars, flash, ram, run
  <2>2. FreshInv' /\ UnplacedInv'
    BY <2>1 DEF SiteInv, SettledInv, FreshInv, UnplacedInv, Unplaced
  <2>3. RgeoInv' /\ StaleInv' /\ ReadInv' /\ WholeInv'
    BY <2>1
    DEF SiteInv, SettledInv, RgeoInv, Past, StaleInv, ReadInv, WholeInv, Upgrading
  <2>4. QED
    BY <2>2, <2>3 DEF SettledInv
<1>5. QED
  BY <1>1, <1>2, <1>3, <1>4 DEF Next

LEMMA SiteInvariant == Spec => []SiteInv
<1>1. Init => SiteInv
  BY InitLockInv, InitDepthInv, InitTypes, InitSettled DEF SiteInv
<1>2. SiteInv /\ [Next]_vars => SiteInv'
  BY StepLockInv, StepDepthInv, StepTypes, StepSettled DEF SiteInv
<1>3. QED
  BY <1>1, <1>2, PTL DEF Spec

(***************************************************************************)
(* The cron job is stopped only while the selected site is the installed   *)
(* one: what the run has read of site.json and of the selection before it  *)
(* compares them is still true when it acts on it, whatever the other run, *)
(* rgeo.sh and the loss of power have done meanwhile.                      *)
(***************************************************************************)
THEOREM StoppedOnlyWhenSettled == Spec => DisarmedIsSettled
<1>1. ASSUME SiteInv, Next, armed /\ ~armed'
      PROVE  site = siteselect
  <2>1. PICK r \in Run : Settle(r)
    BY <1>1 DEF Next, Script, Upgrade, Start, ForceSendData, Rgeo, AllowReboot,
       Consider, Copy, Schedule, CheckLock, TouchLock, SelectSite, InstallSite,
       Generate, CommitInner, Unlock, CommitOuter, CronStart, HourlySendData,
       LongUptime, Reboot, PowerLoss, Sysupgrade, SetupMode, flash
  <2>2. pc[r] = "consider" /\ cur[r] = siteselect
    BY <2>1 DEF Settle, Goto, Consistent
  <2>3. QED
    BY <1>1, <2>2 DEF SiteInv, SettledInv, ReadInv, Read, Early
<1>2. SiteInv /\ [Next]_vars => [armed /\ ~armed' => site = siteselect]_vars
  BY <1>1 DEF vars
<1>3. QED
  BY <1>2, SiteInvariant, PTL DEF Spec, DisarmedIsSettled

-----------------------------------------------------------------------------
(***************************************************************************)
(* The configuration a reboot finds.                                       *)
(***************************************************************************)
\* The run has yet to generate the configuration; it has done so for the last time.
Will(q) == \/ pc[q] \in {"check", "touch", "select", "install", "unlock", "generate"}
           \/ pc[q] = "commit" /\ depth[q] > 0
Built(q) == pc[q] = "schedule" \/ (pc[q] = "commit" /\ depth[q] = 0)

BuiltInv ==
  /\ staged # NoDelta => \E q \in Run : pc[q] = "commit"
  /\ mode = "normal" /\ ~fresh /\ (timer \/ (\E q \in Run : Built(q)))
       /\ (\A q \in Run : ~Will(q)) /\ site # Torn
     => staged = site \/ (staged = NoDelta /\ built = site)

\* What the next boot gets if nobody goes on generating.
Faithful == staged = site \/ (staged = NoDelta /\ built = site)
Finished ==
  /\ timer \/ \E q \in Run : Built(q)
  /\ \A q \in Run : ~Will(q)

LEMMA BuiltInvIs ==
  BuiltInv <=>
    /\ staged # NoDelta => \E q \in Run : pc[q] = "commit"
    /\ mode = "normal" /\ ~fresh /\ Finished /\ site # Torn => Faithful
  BY DEF BuiltInv, Finished, Faithful

\* A commit changes nothing of it.
LEMMA CommitKeepsFaithful ==
  ASSUME CommitAll, UNCHANGED site, Faithful
  PROVE  Faithful'
  BY DEF CommitAll, Faithful

\* A run moves on without generating anything; what it commits, it had staged.
LEMMA QuietBuilt ==
  ASSUME SiteInv, BuiltInv, NEW r \in Run, NEW from, NEW to,
         Goto(r, from, to), UNCHANGED << site, fresh, mode >>,
         UNCHANGED << staged, built >> \/ CommitAll,
         from = "commit" => CommitAll,
         mode = "normal" /\ Finished' => Finished
  PROVE  BuiltInv'
<1>1. /\ pc[r] = from /\ pc'[r] = to
      /\ \A q \in Run : q # r => pc'[q] = pc[q]
  BY Moves, Basics
<1>2. staged' # NoDelta => UNCHANGED staged /\ from # "commit"
  BY DEF CommitAll
<1>3. staged' # NoDelta => \E q \in Run : pc'[q] = "commit"
  BY <1>1, <1>2, BuiltInvIs
<1>4. Faithful => Faithful'
  BY CommitKeepsFaithful DEF Faithful
<1>5. mode' = "normal" /\ ~fresh' /\ Finished' /\ site' # Torn => Faithful'
  BY <1>4, BuiltInvIs
<1>6. QED
  BY <1>3, <1>5 DEF BuiltInv, Finished, Faithful

\* Where a run that is not in a site-upgrade has been, Finished does not change.
LEMMA StaysFinished ==
  ASSUME SiteInv, NEW r \in Run, NEW from, NEW to,
         Goto(r, from, to), UNCHANGED << timer, depth >>,
         from \notin InUpgrade \union {"schedule"},
         to \notin InUpgrade \union {"schedule"}
  PROVE  Finished' => Finished
<1>1. /\ pc[r] = from /\ pc'[r] = to
      /\ \A q \in Run : q # r => pc'[q] = pc[q]
  BY Moves, Basics
<1>2. \A q \in Run : Will(q)' <=> Will(q)
  BY <1>1 DEF Will, InUpgrade
<1>3. \A q \in Run : Built(q)' <=> Built(q)
  BY <1>1 DEF Built, InUpgrade
<1>4. QED
  BY <1>2, <1>3 DEF Finished

LEMMA ScriptBuilt ==
  ASSUME SiteInv, BuiltInv, NEW r \in Run, Script(r)
  PROVE  BuiltInv'
<1>1. CASE Start(r)
  <2>1. PICK to \in {"senddata", "rgeo", "uptime"} : Goto(r, "start", to)
    BY <1>1 DEF Start
  <2>2. UNCHANGED << site, fresh, mode, staged, built, timer, depth >>
    BY <1>1 DEF Start, flash, ram
  <2>3. QED
    BY <2>1, <2>2, StaysFinished, QuietBuilt DEF InUpgrade
<1>2. CASE ForceSendData(r)
  <2>1. Goto(r, "senddata", "uptime")
    BY <1>2 DEF ForceSendData
  <2>2. UNCHANGED << site, fresh, mode, staged, built, timer, depth >>
    BY <1>2 DEF ForceSendData
  <2>3. QED
    BY <2>1, <2>2, StaysFinished, QuietBuilt DEF InUpgrade
<1>3. CASE Rgeo(r)
  <2>1. Goto(r, "rgeo", "uptime")
    BY <1>3 DEF Rgeo
  <2>2. UNCHANGED << site, fresh, mode, staged, built, timer, depth >>
    BY <1>3 DEF Rgeo
  <2>3. QED
    BY <2>1, <2>2, StaysFinished, QuietBuilt DEF InUpgrade
<1>4. CASE AllowReboot(r)
  <2>1. Goto(r, "uptime", "consider")
    BY <1>4 DEF AllowReboot
  <2>2. /\ UNCHANGED << site, fresh, mode, timer, depth >>
        /\ UNCHANGED << staged, built >> \/ CommitAll
    BY <1>4 DEF AllowReboot
  <2>3. QED
    BY <2>1, <2>2, StaysFinished, QuietBuilt DEF InUpgrade
<1>5. CASE Settle(r)
  <2>1. Goto(r, "consider", "idle")
    BY <1>5 DEF Settle
  <2>2. /\ UNCHANGED << site, fresh, mode, timer, depth >>
        /\ UNCHANGED << staged, built >> \/ CommitAll
    BY <1>5 DEF Settle
  <2>3. QED
    BY <2>1, <2>2, StaysFinished, QuietBuilt DEF InUpgrade
<1>6. CASE Consider(r)
  <2>1. PICK to \in {"idle", "copy"} : Goto(r, "consider", to)
    BY <1>6 DEF Consider
  <2>2. UNCHANGED << site, fresh, mode, staged, built, timer, depth >>
    BY <1>6 DEF Consider, flash
  <2>3. QED
    BY <2>1, <2>2, StaysFinished, QuietBuilt DEF InUpgrade
<1>7. CASE Copy(r)
  <2>1. pc[r] = "copy" /\ pc'[r] = "check" /\ UNCHANGED staged
        /\ \A q \in Run : q # r => pc'[q] = pc[q]
    BY <1>7, Moves, Basics DEF Copy, ram
  <2>2. staged' # NoDelta => \E q \in Run : pc'[q] = "commit"
    BY <2>1 DEF BuiltInv
  <2>3. ~Finished'
    BY <2>1 DEF Finished, Will
  <2>4. QED
    BY <2>2, <2>3 DEF BuiltInv, Finished
<1>8. CASE Schedule(r)
  <2>1. Goto(r, "schedule", "idle")
    BY <1>8 DEF Schedule
  <2>2. /\ UNCHANGED << site, fresh, mode, depth >>
        /\ UNCHANGED << staged, built >> \/ CommitAll
    BY <1>8 DEF Schedule
  <2>3. Finished' => Finished
    <3>1. /\ pc[r] = "schedule" /\ pc'[r] = "idle"
          /\ \A q \in Run : q # r => pc'[q] = pc[q]
      BY <2>1, Moves, Basics
    <3>2. \A q \in Run : Will(q)' <=> Will(q)
      BY <2>2, <3>1 DEF Will
    <3>3. QED
      BY <3>1, <3>2 DEF Finished, Built
  <2>4. QED
    BY <2>1, <2>2, <2>3, QuietBuilt
<1>9. QED
  BY <1>1, <1>2, <1>3, <1>4, <1>5, <1>6, <1>7, <1>8 DEF Script

\* Inside a site-upgrade a run will generate, until it has.
LEMMA UpgradeBuilt ==
  ASSUME SiteInv, BuiltInv, NEW r \in Run, Upgrade(r)
  PROVE  BuiltInv'
<1>1. ASSUME pc[r] # "commit", UNCHANGED staged, mode = "normal" => Will(r)',
             \A q \in Run : q # r => pc'[q] = pc[q],
             mode' = mode
      PROVE  BuiltInv'
  <2>1. staged' # NoDelta => \E q \in Run : pc'[q] = "commit"
    BY <1>1 DEF BuiltInv
  <2>2. mode' = "normal" => ~Finished'
    BY <1>1 DEF Finished
  <2>3. QED
    BY <2>1, <2>2 DEF BuiltInv, Finished
<1>2. CASE CheckLock(r)
  <2>1. PICK to \in {"touch", "generate", "idle"} :
          Goto(r, "check", to) /\ (to = "idle" => mode = "setup")
    BY <1>2 DEF CheckLock, AfterSite
  <2>2. UNCHANGED << staged, mode >>
    BY <1>2 DEF CheckLock, ram
  <2>3. /\ pc[r] = "check" /\ pc'[r] = to
        /\ \A q \in Run : q # r => pc'[q] = pc[q]
    BY <2>1, Moves, Basics
  <2>4. QED
    BY <1>1, <2>1, <2>2, <2>3 DEF Will
<1>3. CASE TouchLock(r)
  <2>1. /\ pc[r] = "touch" /\ pc'[r] = "select" /\ UNCHANGED << staged, mode >>
        /\ \A q \in Run : q # r => pc'[q] = pc[q]
    BY <1>3, Moves, Basics DEF TouchLock
  <2>2. QED
    BY <1>1, <2>1 DEF Will
<1>4. CASE SelectSite(r)
  <2>1. /\ pc[r] = "select" /\ pc'[r] = "install" /\ UNCHANGED << staged, mode >>
        /\ \A q \in Run : q # r => pc'[q] = pc[q]
    BY <1>4, Moves, Basics DEF SelectSite, ram
  <2>2. QED
    BY <1>1, <2>1 DEF Will
<1>5. CASE InstallSite(r)
  <2>1. /\ pc[r] = "install" /\ pc'[r] = "check" /\ UNCHANGED << staged, mode >>
        /\ \A q \in Run : q # r => pc'[q] = pc[q]
    BY <1>5, Moves, Basics DEF InstallSite, ram
  <2>2. QED
    BY <1>1, <2>1 DEF Will
<1>6. CASE Generate(r)
  <2>1. pc'[r] = "commit" /\ UNCHANGED site
    BY <1>6, Moves, Basics DEF Generate, flash
  <2>2. site # Torn => staged' = site
    BY <1>6 DEF Generate
  <2>3. QED
    BY <2>1, <2>2 DEF BuiltInv
<1>7. CASE CommitInner(r)
  <2>1. pc'[r] = "unlock"
    BY <1>7, Moves, Basics DEF CommitInner
  <2>2. staged' = NoDelta
    BY <1>7 DEF CommitInner, CommitAll
  <2>3. QED
    BY <2>1, <2>2 DEF BuiltInv, Will
<1>8. CASE Unlock(r)
  <2>1. PICK to \in {"generate", "idle"} :
          Goto(r, "unlock", to) /\ (to = "idle" => mode = "setup")
    BY <1>8 DEF Unlock, AfterSite
  <2>2. UNCHANGED << staged, mode >>
    BY <1>8 DEF Unlock
  <2>3. /\ pc[r] = "unlock" /\ pc'[r] = to
        /\ \A q \in Run : q # r => pc'[q] = pc[q]
    BY <2>1, Moves, Basics
  <2>4. QED
    BY <1>1, <2>1, <2>2, <2>3 DEF Will
<1>9. CASE CommitOuter(r)
  <2>1. /\ pc[r] = "commit" /\ pc'[r] = IF fresh THEN "start" ELSE "schedule"
        /\ \A q \in Run : q # r => pc'[q] = pc[q]
    BY <1>9, Moves, Basics DEF CommitOuter
  <2>2. /\ UNCHANGED << site, mode, timer, depth >> /\ ~fresh' /\ depth[r] = 0
        /\ staged' = NoDelta /\ CommitAll
    BY <1>9 DEF CommitOuter, CommitAll
  <2>3. CASE fresh
    <3>1. ~timer /\ \A q \in Run : pc'[q] \in {"idle", "start"}
      BY <2>1, <2>3, FreshIsAlone DEF InUpgrade
    <3>2. ~Finished'
      BY <2>2, <3>1 DEF Finished, Built
    <3>3. QED
      BY <2>2, <3>2 DEF BuiltInv, Finished
  <2>4. CASE ~fresh
    <3>1. Built(r) /\ ~Will(r)
      BY <2>1, <2>2 DEF Built, Will
    <3>2. Finished' => Finished
      BY <2>1, <2>2, <3>1 DEF Finished, Will
    <3>3. Faithful => Faithful'
      BY <2>2, CommitKeepsFaithful
    <3>4. mode' = "normal" /\ ~fresh' /\ Finished' /\ site' # Torn => Faithful'
      BY <2>2, <2>4, <3>2, <3>3, BuiltInvIs
    <3>5. QED
      BY <2>2, <3>4 DEF BuiltInv, Finished, Faithful
  <2>5. QED
    BY <2>3, <2>4
<1>10. QED
  BY <1>2, <1>3, <1>4, <1>5, <1>6, <1>7, <1>8, <1>9 DEF Upgrade

LEMMA StepBuilt == SiteInv /\ BuiltInv /\ [Next]_vars => BuiltInv'
<1> SUFFICES ASSUME SiteInv, BuiltInv, [Next]_vars PROVE BuiltInv'
  OBVIOUS
<1>1. ASSUME UNCHANGED << pc, depth, staged, built, site, mode, fresh, timer >>
      PROVE  BuiltInv'
  BY <1>1 DEF BuiltInv, Built, Will
<1>2. CASE \E r \in Run : Script(r) \/ Upgrade(r)
  BY <1>2, ScriptBuilt, UpgradeBuilt
<1>3. CASE CronStart
  <2>1. Goto("cron", "idle", "start") /\ "cron" \in Run
    BY <1>3 DEF CronStart, Run
  <2>2. UNCHANGED << site, fresh, mode, staged, built, timer, depth >>
    BY <1>3 DEF CronStart, flash
  <2>3. QED
    BY <2>1, <2>2, StaysFinished, QuietBuilt DEF InUpgrade
<1>4. CASE HourlySendData
  BY <1>4, <1>1 DEF HourlySendData, ram, run
<1>5. CASE LongUptime
  BY <1>5, <1>1 DEF LongUptime, flash, run
<1>6. CASE Reboot \/ PowerLoss \/ Sysupgrade
  <2>1. Booting(fresh) \/ Booting(TRUE)
    BY <1>6 DEF Reboot, PowerLoss, Sysupgrade
  <2>2. /\ staged' = NoDelta /\ ~timer'
        /\ \A q \in Run : pc'[q] \in {"idle", "start", "check"}
    BY <2>1 DEF Booting, Run
  <2>3. ~Finished'
    BY <2>2 DEF Finished, Built
  <2>4. QED
    BY <2>2, <2>3 DEF BuiltInv, Finished
<1>7. CASE SetupMode
  BY <1>7 DEF SetupMode, BuiltInv
<1>8. CASE UNCHANGED vars
  BY <1>8, <1>1 DEF vars, flash, ram, run
<1>9. QED
  BY <1>2, <1>3, <1>4, <1>5, <1>6, <1>7, <1>8 DEF Next

(***************************************************************************)
(* Whichever runs have copied a site.json, generated a configuration and   *)
(* committed what was staged, in whatever order: the node that reboots     *)
(* finds the configuration of the site.json in place.                      *)
(***************************************************************************)
THEOREM ConfiguredForTheSite == Spec => []RebootsIntoSite
<1>1. Init => BuiltInv
  BY DEF Init, BuiltInv
<1>2. SiteInv /\ BuiltInv => RebootsIntoSite
  <2> SUFFICES ASSUME SiteInv, BuiltInv, timer, siteselect \in Known,
                      mode = "normal", \A r \in Run : ~Upgrading(r)
               PROVE  built = site
    BY DEF RebootsIntoSite
  <2>1. ~fresh
    BY DEF SiteInv, SettledInv, FreshInv
  <2>2. site # Torn
    BY <2>1 DEF SiteInv, SettledInv, WholeInv
  <2>3. \A q \in Run : ~Will(q) /\ pc[q] # "commit"
    BY DEF Will, Upgrading
  <2>4. staged = NoDelta
    BY <2>3 DEF BuiltInv
  <2>5. site # NoDelta
    BY Basics, NoCodes DEF File
  <2>6. QED
    BY <2>1, <2>2, <2>3, <2>4, <2>5 DEF BuiltInv
<1>3. QED
  BY <1>1, <1>2, SiteInvariant, StepBuilt, PTL DEF Spec

-----------------------------------------------------------------------------
(***************************************************************************)
(* How often the script reboots the node.                                  *)
(***************************************************************************)
\* Two hours after the boot all runs of that boot but one are over.
LongInv ==
  /\ long => pc["boot"] = "idle" /\ reboots = 0 /\ mode = "normal"
  /\ long /\ timer => pc["cron"] = "idle" /\ cronRan
  /\ mode = "setup" => reboots = 0

\* As long as the cron job runs, the flag allows one reboot.
ArmedInv ==
  armed => /\ reboots <= 1 /\ (reboots = 1 => flag)
           /\ timer /\ mode = "normal" => flag /\ reboots = 0

\* Only the script of setup mode reads the current community and stops the cron job.
PackageInv == variant = "package" => armed /\ \A q \in Run : cur[q] = Empty

\* What the run does to site.json, or has done, suits the selection.
Suits(q) ==
  /\ pc[q] \in HasNew /\ new[q] # siteselect =>
       new[q] \notin Known /\ site = siteselect
  /\ Upgrading(q) /\ siteselect \in Known => site = siteselect

\* Once it has been stopped, one run at a time is left, for the site in place.
DisarmedInv ==
  ~armed =>
    /\ locode # NoCode /\ ~fresh
    /\ \A r, q \in Run : r # q => pc[r] = "idle" \/ pc[q] = "idle"
    /\ mode = "normal" => \A q \in Run : Suits(q)

\* Nothing is left to do; nothing can be done, and the flag says so.
Calm ==
  /\ site = siteselect
  /\ \A r \in Run : /\ pc[r] \in Early \union {"idle"}
                    /\ pc[r] \in Read => cur[r] = siteselect
Stuck ==
  /\ flag /\ siteselect \notin Known /\ site # siteselect
  /\ \A r \in Run : pc[r] \in Read => cur[r] # siteselect

LastInv ==
  ~armed /\ mode = "normal" =>
    /\ reboots <= 2 /\ (reboots = 2 => ~timer)
    /\ reboots = 2 \/ (reboots = 1 /\ timer) => Calm \/ Stuck

RebootInv == LongInv /\ ArmedInv /\ PackageInv /\ DisarmedInv /\ LastInv

RebootsInv == SiteInv /\ RebootInv

\* What a step of a run may do, whichever it is.
RunStep(r) ==
  /\ pc[r] # "idle"
  /\ \A q \in Run : q # r => /\ pc'[q] = pc[q] /\ cur'[q] = cur[q]
                            /\ new'[q] = new[q]
  /\ cur'[r] = cur[r] \/ (pc[r] = "start" /\ cur'[r] = CurrentCommunity)
  /\ UNCHANGED << long, mode, cronRan, variant >>
  /\ fresh' => fresh
  /\ \/ UNCHANGED << siteselect, reboots >>
     \/ siteselect' # siteselect /\ reboots' = 0
  /\ UNCHANGED locode \/ locode' \in Code
  /\ UNCHANGED armed \/ Settle(r)
  /\ \/ UNCHANGED << timer, flag >>
     \/ Settle(r) /\ UNCHANGED timer
     \/ pc[r] = "uptime" /\ long /\ UNCHANGED timer
     \/ Schedule(r) /\ ~flag

LEMMA ScriptIsRunStep ==
  ASSUME SiteInv, NEW r \in Run, Script(r)
  PROVE  RunStep(r)
<1>1. CASE Start(r)
  <2>1. /\ pc[r] = "start" /\ cur'[r] = CurrentCommunity
        /\ \A q \in Run : q # r => pc'[q] = pc[q] /\ cur'[q] = cur[q]
    BY <1>1, Basics DEF Start, Goto
  <2>2. UNCHANGED << long, mode, cronRan, variant, fresh, siteselect, reboots,
                     locode, armed, timer, flag, new >>
    BY <1>1 DEF Start, flash, ram
  <2>3. QED
    BY <2>1, <2>2 DEF RunStep
<1>2. CASE ForceSendData(r)
  <2>1. /\ pc[r] = "senddata" /\ (UNCHANGED locode \/ locode' \in Code)
        /\ \A q \in Run : q # r => pc'[q] = pc[q]
    BY <1>2, Basics DEF ForceSendData, SendData, Goto
  <2>2. UNCHANGED << long, mode, cronRan, variant, fresh, siteselect, reboots,
                     armed, timer, flag, new, cur >>
    BY <1>2 DEF ForceSendData
  <2>3. QED
    BY <2>1, <2>2 DEF RunStep
<1>3. CASE Rgeo(r)
  <2>1. /\ pc[r] = "rgeo" /\ (UNCHANGED locode \/ locode' \in Code)
        /\ \A q \in Run : q # r => pc'[q] = pc[q]
    BY <1>3, Basics DEF Rgeo, ReverseGeo, Goto
  <2>2. UNCHANGED << long, mode, cronRan, variant, fresh, armed, timer, flag,
                     new, cur >>
    BY <1>3 DEF Rgeo
  <2>3. \/ UNCHANGED << siteselect, reboots >>
        \/ siteselect' # siteselect /\ reboots' = 0
    BY <1>3 DEF Rgeo, Selected
  <2>4. QED
    BY <2>1, <2>2, <2>3 DEF RunStep
<1>4. CASE AllowReboot(r)
  <2>1. pc[r] = "uptime" /\ \A q \in Run : q # r => pc'[q] = pc[q]
    BY <1>4, Basics DEF AllowReboot, Goto
  <2>2. UNCHANGED << long, mode, cronRan, variant, fresh, siteselect, reboots,
                     locode, armed, timer, new, cur >>
    BY <1>4 DEF AllowReboot
  <2>3. UNCHANGED flag \/ long
    BY <1>4 DEF AllowReboot
  <2>4. QED
    BY <2>1, <2>2, <2>3 DEF RunStep
<1>5. CASE Settle(r)
  <2>1. pc[r] = "consider" /\ \A q \in Run : q # r => pc'[q] = pc[q]
    BY <1>5, Basics DEF Settle, Goto
  <2>2. UNCHANGED << long, mode, cronRan, variant, fresh, siteselect, reboots,
                     locode, timer, new, cur >>
    BY <1>5 DEF Settle
  <2>3. QED
    BY <1>5, <2>1, <2>2 DEF RunStep
<1>6. CASE Consider(r)
  <2>1. /\ pc[r] = "consider"
        /\ \A q \in Run : q # r => pc'[q] = pc[q] /\ new'[q] = new[q]
    BY <1>6, Basics DEF Consider, Goto
  <2>2. UNCHANGED << long, mode, cronRan, variant, fresh, siteselect, reboots,
                     locode, armed, timer, flag, cur >>
    BY <1>6 DEF Consider, flash
  <2>3. QED
    BY <2>1, <2>2 DEF RunStep
<1>7. CASE Copy(r)
  <2>1. pc[r] = "copy" /\ \A q \in Run : q # r => pc'[q] = pc[q]
    BY <1>7, Basics DEF Copy, Goto
  <2>2. UNCHANGED << long, mode, cronRan, variant, fresh, siteselect, reboots,
                     locode, armed, timer, flag, new, cur >>
    BY <1>7 DEF Copy, ram
  <2>3. QED
    BY <2>1, <2>2 DEF RunStep
<1>8. CASE Schedule(r)
  <2>1. pc[r] = "schedule" /\ \A q \in Run : q # r => pc'[q] = pc[q]
    BY <1>8, Basics DEF Schedule, Goto
  <2>2. UNCHANGED << long, mode, cronRan, variant, fresh, siteselect, reboots,
                     locode, armed, new, cur >>
    BY <1>8 DEF Schedule
  <2>3. UNCHANGED << timer, flag >> \/ ~flag
    BY <1>8 DEF Schedule
  <2>4. QED
    BY <1>8, <2>1, <2>2, <2>3 DEF RunStep
<1>9. QED
  BY <1>1, <1>2, <1>3, <1>4, <1>5, <1>6, <1>7, <1>8 DEF Script

LEMMA UpgradeIsRunStep ==
  ASSUME SiteInv, NEW r \in Run, Upgrade(r)
  PROVE  RunStep(r)
<1>1. ASSUME NEW from \in InUpgrade, NEW to, Goto(r, from, to),
             UNCHANGED << long, mode, cronRan, variant, siteselect, reboots,
                          locode, armed, timer, flag, new, cur >>,
             fresh' => fresh
      PROVE  RunStep(r)
  <2>1. pc[r] # "idle" /\ \A q \in Run : q # r => pc'[q] = pc[q]
    BY <1>1, Moves, Basics DEF InUpgrade
  <2>2. QED
    BY <1>1, <2>1 DEF RunStep
<1>2. CASE CheckLock(r)
  BY <1>1, <1>2 DEF CheckLock, flash, ram, InUpgrade
<1>3. CASE TouchLock(r)
  BY <1>1, <1>3 DEF TouchLock, flash, InUpgrade
<1>4. CASE SelectSite(r)
  <2>1. /\ pc[r] = "select"
        /\ \A q \in Run : q # r => pc'[q] = pc[q] /\ new'[q] = new[q]
    BY <1>4, Basics DEF SelectSite, Goto
  <2>2. UNCHANGED << long, mode, cronRan, variant, fresh, armed, timer, flag,
                     cur >>
    BY <1>4 DEF SelectSite, ram
  <2>3. \/ UNCHANGED << siteselect, reboots >>
        \/ siteselect' # siteselect /\ reboots' = 0
    BY <1>4 DEF SelectSite, Selected
  <2>4. UNCHANGED locode \/ locode' \in Code
    BY <1>4 DEF SelectSite, SendData
  <2>5. QED
    BY <2>1, <2>2, <2>3, <2>4 DEF RunStep
<1>5. CASE InstallSite(r)
  BY <1>1, <1>5 DEF InstallSite, ram, InUpgrade
<1>6. CASE Generate(r)
  BY <1>1, <1>6 DEF Generate, flash, InUpgrade
<1>7. CASE CommitInner(r)
  BY <1>1, <1>7 DEF CommitInner, InUpgrade
<1>8. CASE Unlock(r)
  BY <1>1, <1>8 DEF Unlock, flash, InUpgrade
<1>9. CASE CommitOuter(r)
  BY <1>1, <1>9 DEF CommitOuter, InUpgrade
<1>10. QED
  BY <1>2, <1>3, <1>4, <1>5, <1>6, <1>7, <1>8, <1>9 DEF Upgrade

\* The first three invariants follow from that alone.
LEMMA RunArmed ==
  ASSUME RebootsInv, NEW r \in Run, RunStep(r)
  PROVE  LongInv' /\ ArmedInv' /\ PackageInv'
<1> USE DEF RebootsInv, RebootInv
<1>1. Schedule(r) /\ ~flag =>
        pc[r] = "schedule" /\ pc'[r] = "idle" /\ flag' /\ timer'
  BY Basics DEF Schedule, Goto
<1>2. Settle(r) => /\ ~armed' /\ ~flag'
                   /\ cur[r] = siteselect
  BY DEF Settle, Consistent
<1>3. reboots \in 0 .. 3 /\ reboots' \in {reboots, 0}
  BY Basics DEF RunStep
<1>4. LongInv'
  <2>1. long => r = "cron" /\ cronRan
    BY Basics DEF LongInv, RunStep, Run
  <2>2. QED
    BY <1>1, <1>3, <2>1 DEF LongInv, RunStep, Run
<1>5. ArmedInv'
  <2>1. long => ~timer /\ reboots = 0
    BY DEF LongInv, RunStep, Run
  <2>2. armed' => armed
    BY <1>2 DEF RunStep
  <2>3. armed' => ~Settle(r)
    BY <1>2
  <2>4. QED
    BY <1>1, <1>3, <2>1, <2>2, <2>3 DEF ArmedInv, RunStep
<1>6. PackageInv'
  <2> SUFFICES ASSUME variant = "package"
               PROVE  armed' /\ \A q \in Run : cur'[q] = Empty
    BY DEF PackageInv, RunStep
  <2>1. armed /\ \A q \in Run : cur[q] = Empty
    BY DEF PackageInv
  <2>2. ~Settle(r)
    BY <1>2, <2>1, Basics, NoCodes
  <2>3. CurrentCommunity = Empty
    BY DEF CurrentCommunity
  <2>4. armed'
    BY <2>1, <2>2, Zenon DEF RunStep
  <2>5. \A q \in Run : cur'[q] = Empty
    BY <2>1, <2>3 DEF RunStep
  <2>6. QED
    BY <2>4, <2>5
<1>7. QED
  BY <1>4, <1>5, <1>6

\* The run that is left when the cron job has been stopped.
LEMMA RunSuits ==
  ASSUME RebootsInv, ~armed, mode = "normal", NEW r \in Run,
         Script(r) \/ Upgrade(r)
  PROVE  Suits(r)'
<1>1. ~fresh /\ siteselect # NoCode /\ Suits(r)
  BY DEF RebootsInv, RebootInv, DisarmedInv, SiteInv, SettledInv, FreshInv
<1>2. ASSUME pc'[r] \in Early \union {"idle"}
      PROVE  Suits(r)'
  BY <1>2 DEF Suits, Upgrading, Early, HasNew
<1>3. ASSUME pc[r] \in InUpgrade \union {"schedule"},
             pc'[r] \in InUpgrade \union {"schedule"},
             pc'[r] \notin HasNew, UNCHANGED << siteselect, site >>
      PROVE  Suits(r)'
  BY <1>1, <1>3 DEF Suits, Upgrading, InUpgrade, HasNew
<1>4. CASE Start(r) \/ ForceSendData(r) \/ Rgeo(r) \/ AllowReboot(r)
           \/ Settle(r) \/ Schedule(r)
  BY <1>2, <1>4, Basics
  DEF RebootsInv, Start, ForceSendData, Rgeo, AllowReboot, Settle, Schedule,
      Goto, Early
<1>5. CASE Consider(r)
  <2>1. /\ pc'[r] \in {"idle", "copy"} /\ new'[r] = siteselect
        /\ siteselect' = siteselect
    BY <1>5, Basics DEF RebootsInv, Consider, Goto, flash
  <2>2. QED
    BY <2>1 DEF Suits, Upgrading
<1>6. CASE Copy(r) \/ InstallSite(r)
  <2>1. /\ pc[r] \in HasNew /\ pc'[r] = "check" /\ UNCHANGED siteselect
        /\ site' = IF new[r] \in Known THEN new[r] ELSE site
    BY <1>6, Basics DEF RebootsInv, Copy, InstallSite, Install, Goto, HasNew
  <2>2. QED
    BY <1>1, <2>1 DEF Suits, HasNew
<1>7. CASE SelectSite(r)
  <2>1. /\ pc[r] = "select" /\ pc'[r] = "install" /\ new'[r] = siteselect'
        /\ UNCHANGED << site, siteselect >>
    BY <1>1, <1>7, Basics DEF RebootsInv, SelectSite, Goto
  <2>2. QED
    BY <1>1, <2>1 DEF Suits, Upgrading
<1>8. CASE CheckLock(r)
  <2>1. /\ pc[r] = "check" /\ pc'[r] \in {"touch", "generate"}
        /\ UNCHANGED << site, siteselect >>
    BY <1>8, Basics DEF RebootsInv, CheckLock, AfterSite, Goto, flash
  <2>2. QED
    BY <1>3, <2>1 DEF HasNew, InUpgrade
<1>9. CASE TouchLock(r)
  <2>1. /\ pc[r] = "touch" /\ pc'[r] = "select"
        /\ UNCHANGED << site, siteselect >>
    BY <1>9, Basics DEF RebootsInv, TouchLock, Goto, flash
  <2>2. QED
    BY <1>3, <2>1 DEF HasNew, InUpgrade
<1>10. CASE Generate(r)
  <2>1. /\ pc[r] = "generate" /\ pc'[r] = "commit"
        /\ UNCHANGED << site, siteselect >>
    BY <1>10, Basics DEF RebootsInv, Generate, Goto, flash
  <2>2. QED
    BY <1>3, <2>1 DEF HasNew, InUpgrade
<1>11. CASE CommitInner(r)
  <2>1. /\ pc[r] = "commit" /\ pc'[r] = "unlock"
        /\ UNCHANGED << site, siteselect >>
    BY <1>11, Basics DEF RebootsInv, CommitInner, Goto
  <2>2. QED
    BY <1>3, <2>1 DEF HasNew, InUpgrade
<1>12. CASE Unlock(r)
  <2>1. /\ pc[r] = "unlock" /\ pc'[r] = "generate"
        /\ UNCHANGED << site, siteselect >>
    BY <1>12, Basics DEF RebootsInv, Unlock, AfterSite, Goto, flash
  <2>2. QED
    BY <1>3, <2>1 DEF HasNew, InUpgrade
<1>13. CASE CommitOuter(r)
  <2>1. /\ pc[r] = "commit" /\ pc'[r] = "schedule"
        /\ UNCHANGED << site, siteselect >>
    BY <1>1, <1>13, Basics DEF RebootsInv, CommitOuter, Goto
  <2>2. QED
    BY <1>3, <2>1 DEF HasNew, InUpgrade
<1>14. QED
  BY <1>4, <1>5, <1>6, <1>7, <1>8, <1>9, <1>10, <1>11, <1>12, <1>13
  DEF Script, Upgrade

\* The comparison that stops the cron job.
LEMMA SettleFacts ==
  ASSUME SiteInv, NEW r \in Run, Settle(r)
  PROVE  /\ pc[r] = "consider" /\ pc'[r] = "idle" /\ ~fresh
         /\ \A q \in Run : q # r => pc'[q] = pc[q]
         /\ UNCHANGED << locode, siteselect, site, new, mode, fresh, cur, timer,
                        reboots >>
         /\ locode # NoCode /\ cur[r] = siteselect /\ site = siteselect
         /\ \A q \in Run : pc[q] \in HasNew /\ new[q] \in Known
                            => new[q] = siteselect
<1>1. /\ pc[r] = "consider" /\ pc'[r] = "idle"
      /\ \A q \in Run : q # r => pc'[q] = pc[q]
  BY Moves, Basics DEF Settle
<1>2. locode # NoCode /\ cur[r] = siteselect
  BY DEF Settle, Consistent
<1>3. ~fresh
  BY <1>1, Basics DEF SiteInv, SettledInv, FreshInv, InUpgrade, Run
<1>4. UNCHANGED << locode, siteselect, site, new, mode, fresh, cur, timer,
                   reboots >>
  BY DEF Settle
<1>5. QED
  BY <1>1, <1>2, <1>3, <1>4 DEF SiteInv, SettledInv, ReadInv, Read, Early

LEMMA RunDisarmed ==
  ASSUME RebootsInv, NEW r \in Run, Script(r) \/ Upgrade(r), RunStep(r)
  PROVE  DisarmedInv'
<1>1. CASE Settle(r)
  <2>1. \A q \in Run : Suits(q)'
    BY <1>1, SettleFacts DEF RebootsInv, Suits, Upgrading, HasNew
  <2>2. \A p, q \in Run : p # q => pc'[p] = "idle" \/ pc'[q] = "idle"
    BY <1>1, SettleFacts DEF RebootsInv, Run
  <2>3. QED
    BY <1>1, <2>1, <2>2, SettleFacts DEF RebootsInv, DisarmedInv
<1>2. CASE ~Settle(r)
  <2> SUFFICES ASSUME ~armed
               PROVE  DisarmedInv'
    BY <1>2 DEF RunStep, DisarmedInv
  <2>1. /\ locode # NoCode /\ ~fresh
        /\ \A q \in Run : q # r => pc[q] = "idle"
    BY DEF RebootsInv, RebootInv, DisarmedInv, RunStep
  <2>2. \A q \in Run : q # r => pc'[q] = "idle"
    BY <2>1 DEF RunStep
  <2>3. locode' # NoCode /\ ~fresh'
    BY <2>1, NoCodes DEF RunStep
  <2>4. \A p, q \in Run : p # q => pc'[p] = "idle" \/ pc'[q] = "idle"
    BY <2>2
  <2>5. mode' = "normal" => \A q \in Run : Suits(q)'
    BY <2>2, RunSuits DEF RunStep, Suits, HasNew, Upgrading
  <2>6. QED
    BY <2>3, <2>4, <2>5 DEF DisarmedInv
<1>3. QED
  BY <1>1, <1>2

\* A run that finds its site in place leaves it there and does not reboot.
LEMMA CalmStep ==
  ASSUME RebootsInv, ~armed, Calm, NEW r \in Run, Script(r) \/ Upgrade(r),
         UNCHANGED siteselect
  PROVE  Calm' /\ UNCHANGED timer
<1>1. /\ locode # NoCode /\ siteselect # NoCode /\ variant # "package"
      /\ site = siteselect /\ site # Torn
  BY Basics, NoCodes
  DEF RebootsInv, RebootInv, DisarmedInv, PackageInv, SiteInv, SettledInv,
      FreshInv, Calm
<1>2. pc[r] \in Early \union {"idle"} /\ (pc[r] \in Read => cur[r] = siteselect)
  BY DEF Calm
<1>3. ASSUME pc'[r] \in Early \union {"idle"},
             pc'[r] \in Read => cur'[r] = siteselect,
             \A q \in Run : q # r => pc'[q] = pc[q] /\ cur'[q] = cur[q],
             UNCHANGED site
      PROVE  Calm'
  BY <1>3 DEF Calm
<1>4. CASE Start(r)
  <2>1. /\ pc'[r] \in {"senddata", "rgeo", "uptime"} /\ cur'[r] = CurrentCommunity
        /\ \A q \in Run : q # r => pc'[q] = pc[q] /\ cur'[q] = cur[q]
        /\ UNCHANGED << site, timer >>
    BY <1>4, Basics DEF RebootsInv, Start, Goto, flash, ram
  <2>2. CurrentCommunity = siteselect
    BY <1>1 DEF CurrentCommunity
  <2>3. QED
    BY <1>3, <2>1, <2>2 DEF Early
<1>5. CASE ForceSendData(r) \/ Rgeo(r) \/ AllowReboot(r) \/ Settle(r)
  <2>1. /\ pc[r] \in Read /\ pc'[r] \in {"uptime", "consider", "idle"}
        /\ \A q \in Run : q # r => pc'[q] = pc[q]
        /\ UNCHANGED << site, timer, cur >>
    BY <1>5, Basics
    DEF RebootsInv, ForceSendData, Rgeo, AllowReboot, Settle, Goto, Read, Early
  <2>2. QED
    BY <1>2, <1>3, <2>1 DEF Early
<1>6. ~Consider(r)
  BY <1>1, <1>2 DEF Consider, Goto, Consistent, Read, Early
<1>7. ~Copy(r) /\ ~Schedule(r)
  BY <1>2 DEF Copy, Schedule, Goto, Early
<1>8. ~Upgrade(r)
  BY <1>2
  DEF Upgrade, CheckLock, TouchLock, SelectSite, InstallSite, Generate,
      CommitInner, Unlock, CommitOuter, Goto, Early
<1>9. QED
  BY <1>4, <1>5, <1>6, <1>7, <1>8 DEF Script

\* A run that cannot install its site does not do more than to try again.
LEMMA StuckStep ==
  ASSUME RebootsInv, ~armed, mode = "normal", ~long, Stuck, NEW r \in Run,
         Script(r) \/ Upgrade(r), RunStep(r), UNCHANGED siteselect
  PROVE  Stuck' /\ UNCHANGED timer
<1>1. flag /\ siteselect \notin Known /\ site # siteselect
  BY DEF Stuck
<1>2. ~Settle(r)
  BY SettleFacts DEF Stuck, Read, Early, RebootsInv
<1>3. UNCHANGED << timer, flag >>
  BY <1>1, <1>2 DEF RunStep
<1>4. site' = site
  <2>1. CASE Copy(r) \/ InstallSite(r)
    <3>1. pc[r] \in HasNew /\ site' = IF new[r] \in Known THEN new[r] ELSE site
      BY <2>1 DEF Copy, InstallSite, Install, Goto, HasNew
    <3>2. Suits(r)
      BY DEF RebootsInv, RebootInv, DisarmedInv
    <3>3. QED
      BY <1>1, <3>1, <3>2 DEF Suits
  <2>2. CASE ~(Copy(r) \/ InstallSite(r))
    BY <2>2
    DEF Script, Upgrade, Start, ForceSendData, Rgeo, AllowReboot, Settle,
        Consider, Schedule, CheckLock, TouchLock, SelectSite, Generate,
        CommitInner, Unlock, CommitOuter, flash
  <2>3. QED
    BY <2>1, <2>2
<1>5. \A q \in Run : pc'[q] \in Read => cur'[q] # siteselect
  <2>1. \A q \in Run : q # r => (pc'[q] \in Read => cur'[q] # siteselect)
    BY DEF RunStep, Stuck
  <2>2. CASE Start(r)
    <3>1. cur'[r] = CurrentCommunity
      BY <2>2, Basics DEF RebootsInv, Start
    <3>2. cur'[r] # siteselect
      BY <1>1, <3>1, Basics, NoCodes DEF CurrentCommunity, RebootsInv
    <3>3. QED
      BY <2>1, <3>2
  <2>3. CASE ~Start(r)
    <3>1. pc'[r] \in Read => pc[r] \in Read /\ cur'[r] = cur[r]
      <4>1. CASE ForceSendData(r) \/ Rgeo(r) \/ AllowReboot(r)
        BY <4>1 DEF ForceSendData, Rgeo, AllowReboot, Goto, Read, Early
      <4>2. CASE Settle(r) \/ Consider(r) \/ Copy(r) \/ Schedule(r)
        BY <4>2, Basics
        DEF RebootsInv, Settle, Consider, Copy, Schedule, Goto, Read, Early
      <4>3. CASE Upgrade(r)
        BY <4>3, Basics
        DEF RebootsInv, Upgrade, CheckLock, TouchLock, SelectSite, InstallSite,
            Generate, CommitInner, Unlock, CommitOuter, AfterSite, Goto, Read,
            Early
      <4>4. QED
        BY <2>3, <4>1, <4>2, <4>3 DEF Script
    <3>2. QED
      BY <2>1, <3>1 DEF Stuck
  <2>4. QED
    BY <2>2, <2>3
<1>6. QED
  BY <1>1, <1>3, <1>4, <1>5 DEF Stuck

LEMMA RunLast ==
  ASSUME RebootsInv, NEW r \in Run, Script(r) \/ Upgrade(r), RunStep(r)
  PROVE  LastInv'
<1> SUFFICES ASSUME ~armed', mode' = "normal"
             PROVE  /\ reboots' <= 2 /\ (reboots' = 2 => ~timer')
                    /\ reboots' = 2 \/ (reboots' = 1 /\ timer') => Calm' \/ Stuck'
  BY DEF LastInv
<1>1. reboots \in 0 .. 3 /\ mode = "normal"
  BY Basics DEF RebootsInv, RunStep
<1>2. CASE armed
  <2>1. Settle(r)
    BY <1>2 DEF RunStep
  <2>2. UNCHANGED << timer, reboots >>
    BY <2>1 DEF Settle
  <2>3. reboots <= 1 /\ (timer => reboots = 0)
    BY <1>1, <1>2 DEF RebootsInv, RebootInv, ArmedInv
  <2>4. QED
    BY <1>1, <2>2, <2>3
<1>3. CASE siteselect' # siteselect
  BY <1>3 DEF RunStep
<1>4. CASE ~armed /\ UNCHANGED siteselect
  <2>1. UNCHANGED reboots
    BY <1>4 DEF RunStep
  <2>2. /\ reboots <= 2 /\ (reboots = 2 => ~timer)
        /\ reboots = 2 \/ (reboots = 1 /\ timer) => Calm \/ Stuck
    BY <1>1, <1>4 DEF RebootsInv, RebootInv, LastInv
  <2>3. CASE reboots = 2 \/ (reboots = 1 /\ timer)
    <3>1. ~long
      BY <2>3 DEF RebootsInv, RebootInv, LongInv
    <3>2. (Calm' \/ Stuck') /\ UNCHANGED timer
      BY <1>1, <1>4, <2>2, <2>3, <3>1, CalmStep, StuckStep
    <3>3. QED
      BY <2>1, <2>2, <3>2
  <2>4. CASE reboots = 1 /\ ~timer /\ timer'
    <3>1. Schedule(r) /\ ~flag
      BY <2>4 DEF RunStep
    <3>2. /\ pc[r] = "schedule" /\ pc'[r] = "idle" /\ flag'
          /\ UNCHANGED << site, siteselect >>
      BY <3>1, Basics DEF RebootsInv, Schedule, Goto
    <3>3. \A q \in Run : pc'[q] = "idle"
      BY <1>4, <3>2 DEF RebootsInv, RebootInv, DisarmedInv, RunStep
    <3>4. siteselect \in Known => site = siteselect
      BY <1>1, <1>4, <3>2
      DEF RebootsInv, RebootInv, DisarmedInv, Suits, Upgrading
    <3>5. Calm' \/ Stuck'
      BY <3>2, <3>3, <3>4 DEF Calm, Stuck, Read, Early
    <3>6. QED
      BY <2>1, <2>4, <3>5
  <2>5. QED
    BY <2>1, <2>2, <2>3, <2>4
<1>5. QED
  BY <1>2, <1>3, <1>4

(***************************************************************************)
(* The other steps.                                                        *)
(***************************************************************************)
LEMMA CronReboots ==
  ASSUME RebootsInv, CronStart
  PROVE  RebootInv'
<1>1. /\ armed /\ mode = "normal" /\ (~timer \/ ~cronRan)
      /\ pc'["cron"] = "start" /\ pc'["boot"] = pc["boot"] /\ cronRan'
      /\ UNCHANGED << armed, flag, reboots, timer, mode, long, variant, cur >>
  BY Moves, Basics DEF RebootsInv, CronStart, Run, flash
<1>2. LongInv'
  BY <1>1 DEF RebootsInv, RebootInv, LongInv
<1>3. ArmedInv' /\ PackageInv'
  BY <1>1 DEF RebootsInv, RebootInv, ArmedInv, PackageInv
<1>4. DisarmedInv' /\ LastInv'
  BY <1>1 DEF DisarmedInv, LastInv
<1>5. QED
  BY <1>2, <1>3, <1>4 DEF RebootInv

LEMMA HourlyReboots ==
  ASSUME RebootsInv, HourlySendData
  PROVE  RebootInv'
<1>1. UNCHANGED << armed, flag, reboots, timer, mode, long, variant, cur, pc,
                   cronRan, siteselect, site, new, fresh >>
  BY DEF HourlySendData, ram, run
<1>2. locode # NoCode => locode' # NoCode
  BY NoCodes DEF HourlySendData, SendData
<1>3. LongInv' /\ ArmedInv' /\ PackageInv'
  BY <1>1 DEF RebootsInv, RebootInv, LongInv, ArmedInv, PackageInv
<1>4. DisarmedInv' /\ LastInv'
  BY <1>1, <1>2
  DEF RebootsInv, RebootInv, DisarmedInv, Suits, Upgrading, LastInv, Calm, Stuck
<1>5. QED
  BY <1>3, <1>4 DEF RebootInv

LEMMA LongUptimeReboots ==
  ASSUME RebootsInv, LongUptime
  PROVE  RebootInv'
<1>1. /\ UNCHANGED << armed, flag, timer, mode, variant, cur, pc, locode,
                      cronRan, siteselect, site, new, fresh >>
      /\ reboots' = 0 /\ ~timer /\ mode = "normal" /\ pc["boot"] = "idle"
  BY DEF LongUptime, flash, run
<1>2. LongInv' /\ ArmedInv' /\ PackageInv' /\ LastInv'
  BY <1>1 DEF RebootsInv, RebootInv, LongInv, ArmedInv, PackageInv, LastInv
<1>3. DisarmedInv'
  BY <1>1 DEF RebootsInv, RebootInv, DisarmedInv, Suits, Upgrading
<1>4. QED
  BY <1>2, <1>3 DEF RebootInv

\* The node boots: with no run but the boot run, which starts.
LEMMA BootingReboots ==
  ASSUME RebootsInv, Reboot \/ PowerLoss
  PROVE  RebootInv'
<1>1. /\ mode' = "normal" /\ ~long' /\ ~timer'
      /\ \A q \in Run : cur'[q] = Empty
      /\ \A q \in Run : q # "boot" => pc'[q] = "idle"
      /\ pc'["boot"] = IF fresh THEN "check" ELSE "start"
  BY DEF Reboot, PowerLoss, Booting, Run
<1>2. UNCHANGED << variant, armed, fresh, locode, siteselect, flag >>
  BY DEF Reboot, PowerLoss
<1>3. site' = site \/ (site' = Torn /\ Copying)
  BY DEF Reboot, PowerLoss, CutShort
<1>4. reboots \in 0 .. 3
  BY Basics DEF RebootsInv
<1>5. \/ reboots' = reboots
      \/ reboots' = reboots + 1 /\ timer /\ mode = "normal"
  BY Basics DEF RebootsInv, Reboot, PowerLoss
<1>6. LongInv'
  BY <1>1 DEF LongInv
<1>7. ArmedInv'
  BY <1>1, <1>2, <1>4, <1>5 DEF RebootsInv, RebootInv, ArmedInv
<1>8. PackageInv'
  BY <1>1, <1>2 DEF RebootsInv, RebootInv, PackageInv
<1>9. ~armed => \A q \in Run : pc'[q] \in {"idle", "start"}
  BY <1>1 DEF RebootsInv, RebootInv, DisarmedInv
<1>10. DisarmedInv'
  <2> SUFFICES ASSUME ~armed PROVE DisarmedInv'
    BY <1>2 DEF DisarmedInv
  <2>1. locode' # NoCode /\ ~fresh'
    BY <1>2 DEF RebootsInv, RebootInv, DisarmedInv
  <2>2. \A p, q \in Run : p # q => pc'[p] = "idle" \/ pc'[q] = "idle"
    BY <1>1
  <2>3. \A q \in Run : Suits(q)'
    BY <1>9 DEF Suits, HasNew, Upgrading
  <2>4. QED
    BY <2>1, <2>2, <2>3 DEF DisarmedInv
<1>11. LastInv'
  <2> SUFFICES ASSUME ~armed
               PROVE  /\ reboots' <= 2
                      /\ reboots' = 2 => Calm' \/ Stuck'
    BY <1>1, <1>2 DEF LastInv
  <2>1. CASE mode = "setup"
    BY <1>5, <2>1 DEF RebootsInv, RebootInv, LongInv
  <2>2. CASE mode = "normal"
    <3>1. /\ reboots <= 2 /\ (reboots = 2 => ~timer)
          /\ reboots = 2 \/ (reboots = 1 /\ timer) => Calm \/ Stuck
      BY <2>2 DEF RebootsInv, RebootInv, LastInv
    <3>2. reboots' <= 2 /\ (reboots' = 2 => Calm \/ Stuck)
      BY <1>4, <1>5, <3>1
    <3>3. Calm => Calm'
      BY <1>2, <1>3, <1>9 DEF Calm, Copying, Early, Read
    <3>4. Stuck => Stuck'
      BY <1>2, <1>3, <1>9, Basics, NoCodes DEF RebootsInv, Stuck, Early, Read
    <3>5. QED
      BY <3>2, <3>3, <3>4
  <2>3. QED
    BY <2>1, <2>2, Basics DEF RebootsInv
<1>12. QED
  BY <1>6, <1>7, <1>8, <1>10, <1>11 DEF RebootInv

LEMMA SysupgradeReboots ==
  ASSUME Sysupgrade
  PROVE  RebootInv'
<1>1. /\ armed' /\ ~timer' /\ ~long' /\ mode' = "normal" /\ reboots' = 0
      /\ \A q \in Run : cur'[q] = Empty
  BY DEF Sysupgrade, Booting
<1>2. QED
  BY <1>1
  DEF RebootInv, LongInv, ArmedInv, PackageInv, DisarmedInv, LastInv

LEMMA SetupModeReboots ==
  ASSUME RebootsInv, SetupMode
  PROVE  RebootInv'
<1>1. /\ UNCHANGED armed /\ ~fresh' /\ ~long' /\ mode' = "setup" /\ reboots' = 0
      /\ variant' = "setup" /\ pc'["cron"] = "idle"
      /\ UNCHANGED locode \/ locode' \in Code
  BY DEF SetupMode, ReverseGeo, Run
<1>2. LongInv' /\ ArmedInv' /\ PackageInv' /\ LastInv'
  BY <1>1 DEF LongInv, ArmedInv, PackageInv, LastInv
<1>3. DisarmedInv'
  BY <1>1, NoCodes DEF RebootsInv, RebootInv, DisarmedInv, Run
<1>4. QED
  BY <1>2, <1>3 DEF RebootInv

LEMMA InitReboots == Init => RebootInv
<1> SUFFICES ASSUME Init PROVE RebootInv
  OBVIOUS
<1>1. /\ armed /\ ~timer /\ ~long /\ mode = "normal" /\ reboots = 0
      /\ \A q \in Run : cur[q] = Empty
  BY DEF Init
<1>2. QED
  BY <1>1
  DEF RebootInv, LongInv, ArmedInv, PackageInv, DisarmedInv, LastInv

LEMMA StepReboots == RebootsInv /\ [Next]_vars => RebootInv'
<1> SUFFICES ASSUME RebootsInv, [Next]_vars PROVE RebootInv'
  OBVIOUS
<1>1. CASE \E r \in Run : Script(r) \/ Upgrade(r)
  <2>1. PICK r \in Run : Script(r) \/ Upgrade(r)
    BY <1>1
  <2>2. RunStep(r)
    BY <2>1, ScriptIsRunStep, UpgradeIsRunStep DEF RebootsInv
  <2>3. QED
    BY <2>1, <2>2, RunArmed, RunDisarmed, RunLast DEF RebootInv
<1>2. CASE CronStart \/ HourlySendData \/ LongUptime
  BY <1>2, CronReboots, HourlyReboots, LongUptimeReboots
<1>3. CASE Reboot \/ PowerLoss \/ Sysupgrade \/ SetupMode
  BY <1>3, BootingReboots, SysupgradeReboots, SetupModeReboots
<1>4. CASE UNCHANGED vars
  <2>1. UNCHANGED << armed, flag, reboots, timer, mode, long, variant, cur, pc,
                     cronRan, siteselect, site, new, fresh, locode >>
    BY <1>4 DEF vars, flash, ram, run
  <2>2. LongInv' /\ ArmedInv' /\ PackageInv'
    BY <2>1 DEF RebootsInv, RebootInv, LongInv, ArmedInv, PackageInv
  <2>3. DisarmedInv' /\ LastInv'
    BY <2>1
    DEF RebootsInv, RebootInv, DisarmedInv, Suits, Upgrading, LastInv, Calm,
        Stuck
  <2>4. QED
    BY <2>2, <2>3 DEF RebootInv
<1>5. QED
  BY <1>1, <1>2, <1>3, <1>4 DEF Next

(***************************************************************************)
(* In whatever order a boot run and a cron run read, copy, generate and    *)
(* commit, and wherever a power loss or a reboot cuts them short: while    *)
(* the selection stays the same and the node is never up for two hours,    *)
(* the script reboots it twice at the most.                                *)
(***************************************************************************)
THEOREM NoThirdReboot == Spec => []NoRebootLoop
<1>1. RebootsInv => NoRebootLoop
  <2> SUFFICES ASSUME RebootsInv PROVE reboots <= 2
    BY DEF NoRebootLoop
  <2>1. reboots \in 0 .. 3 /\ mode \in {"normal", "setup"}
    BY Basics DEF RebootsInv
  <2>2. QED
    BY <2>1 DEF RebootsInv, RebootInv, LongInv, ArmedInv, LastInv
<1>2. QED
  BY <1>1, InitReboots, StepReboots, SiteInvariant, PTL DEF Spec, RebootsInv

=============================================================================
