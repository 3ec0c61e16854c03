-------------------------- MODULE SiteSelectProofs --------------------------
(***************************************************************************)
(* Theorems about SiteSelect, for every set of communities and any number  *)
(* of power losses, sysupgrades and visits of setup mode: who holds the    *)
(* lock, how deep the recursion gets, and the types.                       *)
(***************************************************************************)
EXTENDS SiteSelect, TLAPS

(***************************************************************************)
(* LockIsHeld says which run the lock belongs to.  That it stays true when *)
(* a run goes back to sleep takes the fact that a run which has entered a  *)
(* site-upgrade is nowhere but in it.                                      *)
(***************************************************************************)
InUpgrade == {"check", "touch", "select", "install", "generate", "commit",
              "unlock"}
Holds(r) == depth[r] > 0 \/ pc[r] \in {"select", "install", "unlock"}

LockInv ==
  /\ pc \in [Run -> Places]
  /\ depth \in [Run -> Nat]
  /\ \A r \in Run : depth[r] > 0 => pc[r] \in InUpgrade
  /\ LockIsHeld

LEMMA InitLockInv == Init => LockInv
<1> SUFFICES ASSUME Init PROVE LockInv
  OBVIOUS
<1>1. pc \in [Run -> Places]
  BY DEF Init, Run, Places
<1>2. depth \in [Run -> Nat] /\ \A r \in Run : depth[r] = 0
  BY DEF Init
<1>3. ~lock
  BY DEF Init
<1>4. QED
  BY <1>1, <1>2, <1>3 DEF LockInv, LockIsHeld

\* A node that boots has no lock file and no run in a nested site-upgrade.
LEMMA BootingLockInv ==
  ASSUME NEW isFresh, Booting(isFresh)
  PROVE  LockInv'
<1>1. pc' \in [Run -> Places]
  BY DEF Booting, Run, Places
<1>2. depth' \in [Run -> Nat] /\ \A r \in Run : depth'[r] = 0
  BY DEF Booting
<1>3. ~lock'
  BY DEF Booting
<1>4. QED
  BY <1>1, <1>2, <1>3 DEF LockInv, LockIsHeld

\* A step of run r that goes from one place to another and leaves its depth
\* and the lock alone keeps the invariant, unless it gives up the lock.
LEMMA MovesLockInv ==
  ASSUME LockInv, NEW r \in Run, NEW from \in Places, NEW to \in Places,
         Goto(r, from, to), UNCHANGED << depth, lock >>,
         from \notin {"select", "install", "unlock"},
         from \in InUpgrade /\ depth[r] > 0 => to \in InUpgrade
  PROVE  LockInv'
<1>1. pc' \in [Run -> Places] /\ pc'[r] = to
      /\ \A q \in Run : q # r => pc'[q] = pc[q]
  BY DEF Goto, LockInv
<1>2. depth[r] > 0 => to \in InUpgrade
  BY DEF Goto, LockInv
<1>3. \A q \in Run : Holds(q) => Holds(q)'
  <2> SUFFICES ASSUME NEW q \in Run, Holds(q) PROVE Holds(q)'
    OBVIOUS
  <2>1. CASE q = r
    BY <2>1 DEF Holds, Goto
  <2>2. CASE q # r
    BY <2>2, <1>1 DEF Holds
  <2>3. QED
    BY <2>1, <2>2
<1>4. LockIsHeld'
  BY <1>3 DEF LockInv, LockIsHeld, Holds
<1>5. \A q \in Run : depth'[q] > 0 => pc'[q] \in InUpgrade
  BY <1>1, <1>2 DEF LockInv
<1>6. QED
  BY <1>1, <1>4, <1>5 DEF LockInv

(***************************************************************************)
(* The steps that change the lock or the depth, one lemma each.            *)
(***************************************************************************)
LEMMA CopyLockInv ==
  ASSUME LockInv, NEW r \in Run, Copy(r)
  PROVE  LockInv'
<1>1. /\ pc[r] = "copy" /\ pc' = [pc EXCEPT ![r] = "check"]
      /\ depth' = [depth EXCEPT ![r] = 0] /\ lock' = lock
  BY DEF Copy, Goto, ram
<1>2. depth[r] = 0
  BY <1>1 DEF LockInv, InUpgrade
<1>3. depth' = depth
  BY <1>1, <1>2 DEF LockInv
<1>4. Goto(r, "copy", "check")
  BY DEF Copy
<1>5. QED
  BY <1>1, <1>3, <1>4, MovesLockInv DEF Places, InUpgrade

LEMMA TouchLockInv ==
  ASSUME LockInv, NEW r \in Run, TouchLock(r)
  PROVE  LockInv'
<1>1. pc[r] = "touch" /\ pc' = [pc EXCEPT ![r] = "select"] /\ depth' = depth
  BY DEF TouchLock, Goto
<1>2. pc'[r] = "select" /\ pc' \in [Run -> Places]
  BY <1>1 DEF LockInv, Places
<1>3. \A q \in Run : depth'[q] > 0 => pc'[q] \in InUpgrade
  BY <1>1 DEF LockInv, InUpgrade
<1>4. QED
  BY <1>1, <1>2, <1>3 DEF LockInv, LockIsHeld

LEMMA SelectSiteLockInv ==
  ASSUME LockInv, NEW r \in Run, SelectSite(r)
  PROVE  LockInv'
<1>1. /\ pc[r] = "select" /\ pc' = [pc EXCEPT ![r] = "install"]
      /\ depth' = depth /\ lock' = lock
  BY DEF SelectSite, Goto, ram
<1>2. pc'[r] = "install" /\ pc' \in [Run -> Places]
  BY <1>1 DEF LockInv, Places
<1>3. \A q \in Run : depth'[q] > 0 => pc'[q] \in InUpgrade
  BY <1>1 DEF LockInv, InUpgrade
<1>4. QED
  BY <1>1, <1>2, <1>3 DEF LockInv, LockIsHeld

LEMMA InstallSiteLockInv ==
  ASSUME LockInv, NEW r \in Run, InstallSite(r)
  PROVE  LockInv'
<1>1. /\ pc[r] = "install" /\ pc' = [pc EXCEPT ![r] = "check"]
      /\ depth' = [depth EXCEPT ![r] = @ + 1] /\ lock' = lock
  BY DEF InstallSite, Goto, ram
<1>2. pc' \in [Run -> Places] /\ depth' \in [Run -> Nat] /\ depth'[r] > 0
  BY <1>1 DEF LockInv, Places
<1>3. \A q \in Run : depth'[q] > 0 => pc'[q] \in InUpgrade
  BY <1>1 DEF LockInv, InUpgrade
<1>4. QED
  BY <1>2, <1>3 DEF LockInv, LockIsHeld

LEMMA UnlockLockInv ==
  ASSUME LockInv, NEW r \in Run, Unlock(r)
  PROVE  LockInv'
<1>1. /\ pc[r] = "unlock" /\ pc' = [pc EXCEPT ![r] = AfterSite(r)]
      /\ depth' = depth /\ ~lock'
  BY DEF Unlock, Goto
<1>2. AfterSite(r) \in Places /\ (depth[r] > 0 => AfterSite(r) \in InUpgrade)
  BY DEF AfterSite, Places, InUpgrade
<1>3. pc' \in [Run -> Places]
  BY <1>1, <1>2 DEF LockInv
<1>4. \A q \in Run : depth'[q] > 0 => pc'[q] \in InUpgrade
  BY <1>1, <1>2 DEF LockInv
<1>5. QED
  BY <1>1, <1>3, <1>4 DEF LockInv, LockIsHeld

LEMMA CommitInnerLockInv ==
  ASSUME LockInv, NEW r \in Run, CommitInner(r)
  PROVE  LockInv'
<1>1. /\ pc[r] = "commit" /\ pc' = [pc EXCEPT ![r] = "unlock"]
      /\ depth[r] > 0 /\ depth' = [depth EXCEPT ![r] = @ - 1]
  BY DEF CommitInner, Goto
<1>2. pc' \in [Run -> Places] /\ pc'[r] = "unlock"
  BY <1>1 DEF LockInv, Places
<1>3. depth' \in [Run -> Nat]
  BY <1>1 DEF LockInv
<1>4. \A q \in Run : depth'[q] > 0 => pc'[q] \in InUpgrade
  BY <1>1 DEF LockInv, InUpgrade
<1>5. QED
  BY <1>2, <1>3, <1>4 DEF LockInv, LockIsHeld

LEMMA ScriptLockInv ==
  ASSUME LockInv, NEW r \in Run, Script(r)
  PROVE  LockInv'
<1>1. CASE Start(r)
  <2>1. UNCHANGED << depth, lock >>
    BY <1>1 DEF Start, ram
  <2>2. \E to \in {"senddata", "rgeo", "uptime"} : Goto(r, "start", to)
    BY <1>1 DEF Start
  <2>3. QED
    BY <2>1, <2>2, MovesLockInv DEF Places, InUpgrade
<1>2. CASE ForceSendData(r)
  <2>1. Goto(r, "senddata", "uptime") /\ UNCHANGED << depth, lock >>
    BY <1>2 DEF ForceSendData
  <2>2. QED
    BY <2>1, MovesLockInv DEF Places, InUpgrade
<1>3. CASE Rgeo(r)
  <2>1. Goto(r, "rgeo", "uptime") /\ UNCHANGED << depth, lock >>
    BY <1>3 DEF Rgeo
  <2>2. QED
    BY <2>1, MovesLockInv DEF Places, InUpgrade
<1>4. CASE AllowReboot(r)
  <2>1. Goto(r, "uptime", "consider") /\ UNCHANGED << depth, lock >>
    BY <1>4 DEF AllowReboot
  <2>2. QED
    BY <2>1, MovesLockInv DEF Places, InUpgrade
<1>5. CASE Settle(r)
  <2>1. Goto(r, "consider", "idle") /\ UNCHANGED << depth, lock >>
    BY <1>5 DEF Settle
  <2>2. QED
    BY <2>1, MovesLockInv DEF Places, InUpgrade
<1>6. CASE Consider(r)
  <2>1. UNCHANGED << depth, lock >>
    BY <1>6 DEF Consider
  <2>2. \E to \in {"idle", "copy"} : Goto(r, "consider", to)
    BY <1>6 DEF Consider
  <2>3. QED
    BY <2>1, <2>2, MovesLockInv DEF Places, InUpgrade
<1>7. CASE Copy(r)
  BY <1>7, CopyLockInv
<1>8. CASE Schedule(r)
  <2>1. Goto(r, "schedule", "idle") /\ UNCHANGED << depth, lock >>
    BY <1>8 DEF Schedule
  <2>2. QED
    BY <2>1, MovesLockInv DEF Places, InUpgrade
<1>9. QED
  BY <1>1, <1>2, <1>3, <1>4, <1>5, <1>6, <1>7, <1>8 DEF Script

LEMMA UpgradeLockInv ==
  ASSUME LockInv, NEW r \in Run, Upgrade(r)
  PROVE  LockInv'
<1>1. CASE CheckLock(r)
  <2>1. UNCHANGED << depth, lock >>
    BY <1>1 DEF CheckLock, ram
  <2>2. Goto(r, "check", AfterSite(r)) \/ Goto(r, "check", "touch")
    BY <1>1 DEF CheckLock
  <2>3. AfterSite(r) \in Places /\ (depth[r] > 0 => AfterSite(r) \in InUpgrade)
    BY DEF AfterSite, Places, InUpgrade
  <2>4. QED
    BY <2>1, <2>2, <2>3, MovesLockInv DEF Places, InUpgrade
<1>2. CASE TouchLock(r)
  BY <1>2, TouchLockInv
<1>3. CASE SelectSite(r)
  BY <1>3, SelectSiteLockInv
<1>4. CASE InstallSite(r)
  BY <1>4, InstallSiteLockInv
<1>5. CASE Generate(r)
  <2>1. Goto(r, "generate", "commit") /\ UNCHANGED << depth, lock >>
    BY <1>5 DEF Generate
  <2>2. QED
    BY <2>1, MovesLockInv DEF Places, InUpgrade
<1>6. CASE CommitInner(r)
  BY <1>6, CommitInnerLockInv
<1>7. CASE Unlock(r)
  BY <1>7, UnlockLockInv
<1>8. CASE CommitOuter(r)
  <2>1. UNCHANGED << depth, lock >> /\ ~(depth[r] > 0)
    BY <1>8 DEF CommitOuter, LockInv
  <2>2. \E to \in {"start", "schedule"} : Goto(r, "commit", to)
    BY <1>8 DEF CommitOuter
  <2>3. QED
    BY <2>1, <2>2, MovesLockInv DEF Places, InUpgrade
<1>9. QED
  BY <1>1, <1>2, <1>3, <1>4, <1>5, <1>6, <1>7, <1>8 DEF Upgrade

LEMMA StepLockInv == LockInv /\ [Next]_vars => LockInv'
<1> SUFFICES ASSUME LockInv, [Next]_vars PROVE LockInv'
  OBVIOUS
<1>1. ASSUME UNCHANGED << pc, depth, lock >> PROVE LockInv'
  BY <1>1 DEF LockInv, LockIsHeld
<1>2. CASE \E r \in Run : Script(r) \/ Upgrade(r)
  BY <1>2, ScriptLockInv, UpgradeLockInv
<1>3. CASE CronStart
  <2>1. Goto("cron", "idle", "start") /\ UNCHANGED << depth, lock >>
    BY <1>3 DEF CronStart
  <2>2. QED
    BY <2>1, MovesLockInv DEF Places, InUpgrade, Run
<1>4. CASE HourlySendData
  BY <1>4, <1>1 DEF HourlySendData, ram, run
<1>5. CASE LongUptime
  BY <1>5, <1>1 DEF LongUptime, run
<1>6. CASE Reboot \/ PowerLoss \/ Sysupgrade
  <2>1. Booting(fresh) \/ Booting(TRUE)
    BY <1>6 DEF Reboot, PowerLoss, Sysupgrade
  <2>2. QED
    BY <2>1, BootingLockInv
<1>7. CASE SetupMode
  <2>1. pc' \in [Run -> Places]
    BY <1>7 DEF SetupMode, Run, Places
  <2>2. depth' \in [Run -> Nat] /\ (\A r \in Run : depth'[r] = 0) /\ ~lock'
    BY <1>7 DEF SetupMode
  <2>3. QED
    BY <2>1, <2>2 DEF LockInv, LockIsHeld
<1>8. CASE UNCHANGED vars
  BY <1>8, <1>1 DEF vars, ram, run
<1>9. QED
  BY <1>2, <1>3, <1>4, <1>5, <1>6, <1>7, <1>8 DEF Next

(***************************************************************************)
(* The lock file of 020-site-select belongs, at every moment and whatever  *)
(* is cut short, to a run that will remove it: no run, boot or cron, ever  *)
(* finds a lock nobody holds and skips the installation of the site.       *)
(***************************************************************************)
THEOREM LockNeverStale == Spec => []LockIsHeld
<1>1. LockInv => LockIsHeld
  BY DEF LockInv
<1>2. QED
  BY <1>1, InitLockInv, StepLockInv, PTL DEF Spec

-----------------------------------------------------------------------------
(***************************************************************************)
(* How deep the recursion gets.  Two runs may both find no lock.  The      *)
(* first one to leave removes it under the other, which may then enter     *)
(* 020-site-select once more; but the one that left does not come back     *)
(* before the other one is through.                                        *)
(***************************************************************************)
Left(r) ==
  /\ depth[r] = 0
  /\ pc[r] \in {"generate", "commit", "schedule", "idle"}
  /\ r = "cron" => cronRan

\* A second turn of r in 020-site-select, inside of its first one.
Again(r) ==
  \/ depth[r] = 2
  \/ depth[r] = 1 /\ pc[r] \in {"select", "install", "unlock"}

\* What is true of one run, and of what it may assume of the other one.
Alone(r) ==
  /\ depth[r] > 0 => pc[r] \in InUpgrade
  /\ depth[r] = 2 => pc[r] \in {"check", "generate", "commit"}
  /\ Again(r) => lock
Other(r, q) ==
  /\ Holds(r) /\ ~lock => Left(q)
  /\ Again(r) \/ (depth[r] = 1 /\ pc[r] = "touch") => Left(q)

DepthInv ==
  /\ pc \in [Run -> Places]
  /\ depth \in [Run -> 0 .. 2]
  /\ pc["cron"] # "idle" => cronRan /\ ~fresh /\ mode = "normal"
  /\ \A r \in Run : Alone(r)
  /\ \A r, q \in Run : r # q => Other(r, q)

LEMMA InitDepthInv == Init => DepthInv
<1> SUFFICES ASSUME Init PROVE DepthInv
  OBVIOUS
<1>1. pc \in [Run -> Places] /\ pc["cron"] = "idle" /\ pc["boot"] = "check"
  BY DEF Init, Run, Places
<1>2. depth \in [Run -> 0 .. 2] /\ ~lock /\ \A r \in Run : depth[r] = 0
  BY DEF Init
<1>3. \A r \in Run : ~Holds(r) /\ ~Again(r)
  BY <1>1, <1>2 DEF Holds, Again, Run
<1>4. QED
  BY <1>1, <1>2, <1>3 DEF DepthInv, Alone, Other

\* A boot leaves no run in a nested site-upgrade.
LEMMA BootingDepthInv ==
  ASSUME NEW isFresh, Booting(isFresh)
  PROVE  DepthInv'
<1>1. pc' \in [Run -> Places] /\ pc'["cron"] = "idle"
      /\ pc'["boot"] \in {"start", "check"}
  BY DEF Booting, Run, Places
<1>2. depth' \in [Run -> 0 .. 2] /\ \A r \in Run : depth'[r] = 0
  BY DEF Booting
<1>3. ~lock'
  BY DEF Booting
<1>4. \A r \in Run : ~Holds(r)' /\ ~Again(r)'
  BY <1>1, <1>2 DEF Holds, Again, Run
<1>5. QED
  BY <1>1, <1>2, <1>3, <1>4 DEF DepthInv, Alone, Other

\* A step of one run: what has to be shown of it and of the other one.
LEMMA FrameDepthInv ==
  ASSUME DepthInv, NEW r \in Run, NEW to \in Places, NEW d \in 0 .. 2,
         pc' = [pc EXCEPT ![r] = to], depth' = [depth EXCEPT ![r] = d],
         pc'["cron"] # "idle" => cronRan' /\ ~fresh' /\ mode' = "normal",
         cronRan => cronRan',
         Alone(r)',
         \A q \in Run \ {r} :
           Other(r, q)' /\ Other(q, r)' /\ (Again(q) => lock')
  PROVE  DepthInv'
<1>1. pc' \in [Run -> Places] /\ depth' \in [Run -> 0 .. 2]
  BY DEF DepthInv
<1>2. \A q \in Run : q # r => pc'[q] = pc[q] /\ depth'[q] = depth[q]
  BY DEF DepthInv
<1>3. \A q \in Run : q # r => Alone(q)'
  BY <1>2 DEF DepthInv, Alone, Again
<1>4. \A p, q \in Run : p # q => Other(p, q)'
  BY DEF Run
<1>5. QED
  BY <1>1, <1>3, <1>4 DEF DepthInv

\* A run that is in no site-upgrade goes on, and does not enter one.
LEMMA MovesDepthInv ==
  ASSUME DepthInv, NEW r \in Run, NEW from \in Places, NEW to \in Places,
         Goto(r, from, to),
         UNCHANGED << depth, lock, cronRan, fresh, mode >>,
         from \in {"start", "senddata", "rgeo", "uptime", "consider", "copy",
                   "schedule"},
         to # "idle" \/ from \in {"consider", "schedule"},
         from = "schedule" => to = "idle",
         to \notin {"touch", "select", "install", "unlock"}
  PROVE  DepthInv'
<1>1. pc[r] = from /\ pc' = [pc EXCEPT ![r] = to] /\ pc'[r] = to
  BY DEF Goto, DepthInv
<1>2. depth[r] = 0 /\ depth' = [depth EXCEPT ![r] = 0]
  BY <1>1 DEF DepthInv, Alone, InUpgrade
<1>3. pc'["cron"] # "idle" => pc["cron"] # "idle"
  BY <1>1 DEF DepthInv, Run
<1>4. pc'["cron"] # "idle" => cronRan' /\ ~fresh' /\ mode' = "normal"
  BY <1>3 DEF DepthInv
<1>5. \A q \in Run \ {r} :
        Other(r, q)' /\ Other(q, r)' /\ (Again(q) => lock')
  <2> SUFFICES ASSUME NEW q \in Run \ {r}
               PROVE  Other(r, q)' /\ Other(q, r)' /\ (Again(q) => lock')
    OBVIOUS
  <2>1. pc'[q] = pc[q] /\ depth'[q] = depth[q] /\ depth'[r] = 0
    BY <1>1, <1>2 DEF DepthInv
  <2>2. Alone(q) /\ Other(q, r)
    BY DEF DepthInv
  <2>3. Left(r) => Left(r)'
    BY <1>1, <2>1 DEF Left
  <2>4. QED
    BY <1>1, <2>1, <2>2, <2>3 DEF Alone, Other, Holds, Again
<1>6. depth'[r] = 0 /\ 0 \in 0 .. 2 /\ Alone(r)'
  BY <1>2 DEF DepthInv, Alone, Again
<1>7. QED
  BY <1>1, <1>2, <1>4, <1>5, <1>6, FrameDepthInv

\* One lemma for every step inside a site-upgrade.
LEMMA TouchLockDepthInv ==
  ASSUME DepthInv, NEW r \in Run, TouchLock(r)
  PROVE  DepthInv'
<1>1. /\ pc[r] = "touch" /\ pc' = [pc EXCEPT ![r] = "select"]
      /\ pc'[r] = "select"
      /\ lock' /\ UNCHANGED << cronRan, fresh, mode >>
  BY DEF TouchLock, Goto, DepthInv, ram, flash
<1>2. depth[r] \in 0 .. 2 /\ Alone(r)
  BY DEF DepthInv
<1>3. /\ depth' = [depth EXCEPT ![r] = depth[r]] /\ depth'[r] = depth[r]
      /\ depth[r] \in 0 .. 2
  BY <1>1, <1>2 DEF TouchLock, DepthInv, Alone, InUpgrade
<1>4. pc'["cron"] # "idle" => cronRan' /\ ~fresh' /\ mode' = "normal"
  BY <1>1 DEF DepthInv, Run
<1>5. Alone(r)'
  BY <1>1, <1>2, <1>3 DEF Alone, Again, InUpgrade
<1>6. ASSUME NEW q \in Run \ {r}
      PROVE  Other(r, q)' /\ Other(q, r)' /\ (Again(q) => lock')
  <2>1. pc'[q] = pc[q] /\ depth'[q] = depth[q]
    BY <1>1, <1>3 DEF DepthInv
  <2>2. Alone(q) /\ Other(r, q) /\ Other(q, r) /\ depth[q] \in 0 .. 2
    BY DEF DepthInv
  <2>3. /\ Left(q) => Left(q)'
        /\ Holds(q) <=> Holds(q)'
        /\ Again(q) <=> Again(q)'
    BY <1>1, <2>1 DEF Left, Holds, Again
  <2>4. QED
    BY <1>1, <1>2, <1>3, <2>1, <2>2, <2>3
    DEF Alone, Other, Holds, Again, Left
<1>7. "select" \in Places
  BY DEF Places
<1>8. QED
  BY <1>1, <1>3, <1>4, <1>5, <1>6, <1>7, FrameDepthInv

LEMMA SelectSiteDepthInv ==
  ASSUME DepthInv, NEW r \in Run, SelectSite(r)
  PROVE  DepthInv'
<1>1. /\ pc[r] = "select" /\ pc' = [pc EXCEPT ![r] = "install"]
      /\ pc'[r] = "install"
      /\ lock' = lock /\ UNCHANGED << cronRan, fresh, mode >>
  BY DEF SelectSite, Goto, DepthInv, ram, flash
<1>2. depth[r] \in 0 .. 2 /\ Alone(r)
  BY DEF DepthInv
<1>3. /\ depth' = [depth EXCEPT ![r] = depth[r]] /\ depth'[r] = depth[r]
      /\ depth[r] \in 0 .. 2
  BY <1>1, <1>2 DEF SelectSite, DepthInv, Alone, InUpgrade
<1>4. pc'["cron"] # "idle" => cronRan' /\ ~fresh' /\ mode' = "normal"
  BY <1>1 DEF DepthInv, Run
<1>5. Alone(r)'
  BY <1>1, <1>2, <1>3 DEF Alone, Again, InUpgrade
<1>6. ASSUME NEW q \in Run \ {r}
      PROVE  Other(r, q)' /\ Other(q, r)' /\ (Again(q) => lock')
  <2>1. pc'[q] = pc[q] /\ depth'[q] = depth[q]
    BY <1>1, <1>3 DEF DepthInv
  <2>2. Alone(q) /\ Other(r, q) /\ Other(q, r) /\ depth[q] \in 0 .. 2
    BY DEF DepthInv
  <2>3. /\ Left(q) => Left(q)'
        /\ Holds(q) <=> Holds(q)'
        /\ Again(q) <=> Again(q)'
    BY <1>1, <2>1 DEF Left, Holds, Again
  <2>4. QED
    BY <1>1, <1>2, <1>3, <2>1, <2>2, <2>3
    DEF Alone, Other, Holds, Again, Left
<1>7. "install" \in Places
  BY DEF Places
<1>8. QED
  BY <1>1, <1>3, <1>4, <1>5, <1>6, <1>7, FrameDepthInv

LEMMA InstallSiteDepthInv ==
  ASSUME DepthInv, NEW r \in Run, InstallSite(r)
  PROVE  DepthInv'
<1>1. /\ pc[r] = "install" /\ pc' = [pc EXCEPT ![r] = "check"]
      /\ pc'[r] = "check"
      /\ lock' = lock /\ UNCHANGED << cronRan, fresh, mode >>
  BY DEF InstallSite, Goto, DepthInv, ram, flash
<1>2. depth[r] \in 0 .. 2 /\ Alone(r)
  BY DEF DepthInv
<1>3. /\ depth' = [depth EXCEPT ![r] = depth[r] + 1]
      /\ depth'[r] = depth[r] + 1
      /\ depth[r] + 1 \in 0 .. 2
  BY <1>1, <1>2 DEF InstallSite, DepthInv, Alone, InUpgrade
<1>4. pc'["cron"] # "idle" => cronRan' /\ ~fresh' /\ mode' = "normal"
  BY <1>1 DEF DepthInv, Run
<1>5. Alone(r)'
  BY <1>1, <1>2, <1>3 DEF Alone, Again, InUpgrade
<1>6. ASSUME NEW q \in Run \ {r}
      PROVE  Other(r, q)' /\ Other(q, r)' /\ (Again(q) => lock')
  <2>1. pc'[q] = pc[q] /\ depth'[q] = depth[q]
    BY <1>1, <1>3 DEF DepthInv
  <2>2. Alone(q) /\ Other(r, q) /\ Other(q, r) /\ depth[q] \in 0 .. 2
    BY DEF DepthInv
  <2>3. /\ Left(q) => Left(q)'
        /\ Holds(q) <=> Holds(q)'
        /\ Again(q) <=> Again(q)'
    BY <1>1, <2>1 DEF Left, Holds, Again
  <2>4. QED
    BY <1>1, <1>2, <1>3, <2>1, <2>2, <2>3
    DEF Alone, Other, Holds, Again, Left
<1>7. "check" \in Places
  BY DEF Places
<1>8. QED
  BY <1>1, <1>3, <1>4, <1>5, <1>6, <1>7, FrameDepthInv

LEMMA GenerateDepthInv ==
  ASSUME DepthInv, NEW r \in Run, Generate(r)
  PROVE  DepthInv'
<1>1. /\ pc[r] = "generate" /\ pc' = [pc EXCEPT ![r] = "commit"]
      /\ pc'[r] = "commit"
      /\ lock' = lock /\ UNCHANGED << cronRan, fresh, mode >>
  BY DEF Generate, Goto, DepthInv, ram, flash
<1>2. depth[r] \in 0 .. 2 /\ Alone(r)
  BY DEF DepthInv
<1>3. /\ depth' = [depth EXCEPT ![r] = depth[r]] /\ depth'[r] = depth[r]
      /\ depth[r] \in 0 .. 2
  BY <1>1, <1>2 DEF Generate, DepthInv, Alone, InUpgrade
<1>4. pc'["cron"] # "idle" => cronRan' /\ ~fresh' /\ mode' = "normal"
  BY <1>1 DEF DepthInv, Run
<1>5. Alone(r)'
  BY <1>1, <1>2, <1>3 DEF Alone, Again, InUpgrade
<1>6. ASSUME NEW q \in Run \ {r}
      PROVE  Other(r, q)' /\ Other(q, r)' /\ (Again(q) => lock')
  <2>1. pc'[q] = pc[q] /\ depth'[q] = depth[q]
    BY <1>1, <1>3 DEF DepthInv
  <2>2. Alone(q) /\ Other(r, q) /\ Other(q, r) /\ depth[q] \in 0 .. 2
    BY DEF DepthInv
  <2>3. /\ Left(q) => Left(q)'
        /\ Holds(q) <=> Holds(q)'
        /\ Again(q) <=> Again(q)'
    BY <1>1, <2>1 DEF Left, Holds, Again
  <2>4. QED
    BY <1>1, <1>2, <1>3, <2>1, <2>2, <2>3
    DEF Alone, Other, Holds, Again, Left
<1>7. "commit" \in Places
  BY DEF Places
<1>8. QED
  BY <1>1, <1>3, <1>4, <1>5, <1>6, <1>7, FrameDepthInv

LEMMA CommitInnerDepthInv ==
  ASSUME DepthInv, NEW r \in Run, CommitInner(r)
  PROVE  DepthInv'
<1>1. /\ pc[r] = "commit" /\ pc' = [pc EXCEPT ![r] = "unlock"]
      /\ pc'[r] = "unlock"
      /\ lock' = lock /\ UNCHANGED << cronRan, fresh, mode >>
  BY DEF CommitInner, Goto, DepthInv, ram, flash
<1>2. depth[r] \in 0 .. 2 /\ Alone(r)
  BY DEF DepthInv
<1>3. /\ depth' = [depth EXCEPT ![r] = depth[r] - 1]
      /\ depth'[r] = depth[r] - 1
      /\ depth[r] - 1 \in 0 .. 2
  BY <1>1, <1>2 DEF CommitInner, DepthInv, Alone, InUpgrade
<1>4. pc'["cron"] # "idle" => cronRan' /\ ~fresh' /\ mode' = "normal"
  BY <1>1 DEF DepthInv, Run
<1>5. Alone(r)'
  BY <1>1, <1>2, <1>3 DEF Alone, Again, InUpgrade
<1>6. ASSUME NEW q \in Run \ {r}
      PROVE  Other(r, q)' /\ Other(q, r)' /\ (Again(q) => lock')
  <2>1. pc'[q] = pc[q] /\ depth'[q] = depth[q]
    BY <1>1, <1>3 DEF DepthInv
  <2>2. Alone(q) /\ Other(r, q) /\ Other(q, r) /\ depth[q] \in 0 .. 2
    BY DEF DepthInv
  <2>3. /\ Left(q) => Left(q)'
        /\ Holds(q) <=> Holds(q)'
        /\ Again(q) <=> Again(q)'
    BY <1>1, <2>1 DEF Left, Holds, Again
  <2>4. QED
    BY <1>1, <1>2, <1>3, <2>1, <2>2, <2>3
    DEF Alone, Other, Holds, Again, Left
<1>7. "unlock" \in Places
  BY DEF Places
<1>8. QED
  BY <1>1, <1>3, <1>4, <1>5, <1>6, <1>7, FrameDepthInv

\* The two ends of 020-site-select: at the lock, and when it is removed.
LEMMA CheckLockDepthInv ==
  ASSUME DepthInv, NEW r \in Run, CheckLock(r)
  PROVE  DepthInv'
<1>1. PICK to \in {"touch", "generate", "idle"} :
        /\ pc[r] = "check" /\ pc' = [pc EXCEPT ![r] = to] /\ pc'[r] = to
        /\ to = "touch" => ~lock
        /\ to = "idle" => mode = "setup"
        /\ to = "idle" => depth[r] = 0
        /\ UNCHANGED << depth, lock, cronRan, fresh, mode >>
  BY DEF CheckLock, AfterSite, Goto, DepthInv, ram, flash
<1>2. depth[r] \in 0 .. 2 /\ Alone(r)
  BY DEF DepthInv
<1>3. depth' = [depth EXCEPT ![r] = depth[r]] /\ depth'[r] = depth[r]
  BY <1>1 DEF DepthInv
<1>4. pc'["cron"] # "idle" => cronRan' /\ ~fresh' /\ mode' = "normal"
  BY <1>1 DEF DepthInv, Run
<1>5. Alone(r)'
  BY <1>1, <1>2, <1>3 DEF Alone, Again, InUpgrade
<1>6. ASSUME NEW q \in Run \ {r}
      PROVE  Other(r, q)' /\ Other(q, r)' /\ (Again(q) => lock')
  <2>1. pc'[q] = pc[q] /\ depth'[q] = depth[q]
    BY <1>1 DEF DepthInv
  <2>2. Alone(q) /\ Other(r, q) /\ Other(q, r) /\ depth[q] \in 0 .. 2
    BY DEF DepthInv
  <2>3. /\ Left(q) => Left(q)'
        /\ Holds(q) <=> Holds(q)'
        /\ Again(q) <=> Again(q)'
    BY <1>1, <2>1 DEF Left, Holds, Again
  <2>4. QED
    BY <1>1, <1>2, <1>3, <2>1, <2>2, <2>3
    DEF Alone, Other, Holds, Again, Left
<1>7. to \in Places
  BY DEF Places
<1>8. QED
  BY <1>1, <1>2, <1>3, <1>4, <1>5, <1>6, <1>7, FrameDepthInv

LEMMA UnlockDepthInv ==
  ASSUME DepthInv, NEW r \in Run, Unlock(r)
  PROVE  DepthInv'
<1>1. PICK to \in {"generate", "idle"} :
        /\ pc[r] = "unlock" /\ pc' = [pc EXCEPT ![r] = to] /\ pc'[r] = to
        /\ to = "idle" => depth[r] = 0
        /\ ~lock' /\ UNCHANGED << depth, cronRan, fresh, mode >>
  BY DEF Unlock, AfterSite, Goto, DepthInv, flash
<1>2. depth[r] \in 0 .. 1 /\ Alone(r) /\ (r = "cron" => cronRan)
  BY <1>1 DEF DepthInv, Alone
<1>3. depth' = [depth EXCEPT ![r] = depth[r]] /\ depth'[r] = depth[r]
  BY <1>1 DEF DepthInv
<1>4. pc'["cron"] # "idle" => cronRan' /\ ~fresh' /\ mode' = "normal"
  BY <1>1 DEF DepthInv, Run
<1>5. Alone(r)'
  BY <1>1, <1>2, <1>3 DEF Alone, Again, InUpgrade
<1>6. ASSUME NEW q \in Run \ {r}
      PROVE  Other(r, q)' /\ Other(q, r)' /\ (Again(q) => lock')
  <2>1. pc'[q] = pc[q] /\ depth'[q] = depth[q]
    BY <1>1 DEF DepthInv
  <2>2. Alone(q) /\ Other(r, q) /\ Other(q, r) /\ depth[q] \in 0 .. 2
    BY DEF DepthInv
  <2>3. ~Left(r)
    BY <1>1 DEF Left
  <2>4. ~Again(q) /\ ~(depth[q] = 1 /\ pc[q] = "touch")
    BY <2>2, <2>3 DEF Other
  <2>5. Other(q, r)'
    <3>1. CASE depth[r] = 0
      BY <1>1, <1>2, <1>3, <2>1, <2>4, <3>1 DEF Other, Left, Again
    <3>2. CASE depth[r] = 1
      <4>1. Left(q)
        BY <1>1, <2>2, <3>2 DEF Other, Again
      <4>2. ~Holds(q)'
        BY <2>1, <4>1 DEF Left, Holds
      <4>3. QED
        BY <2>1, <2>4, <4>2 DEF Other, Again
    <3>3. QED
      BY <1>2, <3>1, <3>2
  <2>6. Other(r, q)'
    <3>1. CASE depth[r] = 0
      BY <1>1, <1>3, <3>1 DEF Other, Holds, Again
    <3>2. CASE depth[r] = 1
      <4>1. Left(q)'
        BY <1>1, <2>1, <2>2, <3>2 DEF Other, Again, Left
      <4>2. QED
        BY <4>1 DEF Other
    <3>3. QED
      BY <1>2, <3>1, <3>2
  <2>7. QED
    BY <2>4, <2>5, <2>6
<1>7. to \in Places /\ depth[r] \in 0 .. 2
  BY <1>2 DEF Places
<1>8. QED
  BY <1>1, <1>3, <1>4, <1>5, <1>6, <1>7, FrameDepthInv

\* The outermost site-upgrade ends.  After a sysupgrade the boot run has the
\* script still before it, but then there is no cron run.
LEMMA CommitOuterDepthInv ==
  ASSUME DepthInv, NEW r \in Run, CommitOuter(r)
  PROVE  DepthInv'
<1>1. PICK to \in {"start", "schedule"} :
        /\ pc[r] = "commit" /\ pc' = [pc EXCEPT ![r] = to] /\ pc'[r] = to
        /\ to = "start" => fresh
        /\ depth[r] = 0 /\ ~fresh'
        /\ UNCHANGED << depth, lock, cronRan, mode >>
  BY DEF CommitOuter, Goto, DepthInv
<1>2. depth' = [depth EXCEPT ![r] = 0] /\ depth'[r] = 0
  BY <1>1 DEF DepthInv
<1>3. pc'["cron"] # "idle" => cronRan' /\ ~fresh' /\ mode' = "normal"
  BY <1>1 DEF DepthInv, Run
<1>4. Alone(r)'
  BY <1>2 DEF Alone, Again
<1>5. ASSUME NEW q \in Run \ {r}
      PROVE  Other(r, q)' /\ Other(q, r)' /\ (Again(q) => lock')
  <2>1. pc'[q] = pc[q] /\ depth'[q] = depth[q]
    BY <1>1 DEF DepthInv
  <2>2. Alone(q) /\ Other(q, r) /\ depth[q] \in 0 .. 2
    BY DEF DepthInv
  <2>3. Other(r, q)'
    BY <1>1, <1>2 DEF Other, Holds, Again
  <2>4. CASE fresh
    <3>1. pc["cron"] = "idle"
      BY <2>4 DEF DepthInv
    <3>2. q = "cron"
      BY <1>1, <3>1 DEF Run
    <3>3. depth[q] = 0
      BY <2>2, <3>1, <3>2 DEF Alone, InUpgrade
    <3>4. QED
      BY <2>1, <2>3, <3>1, <3>2, <3>3 DEF Other, Holds, Again
  <2>5. CASE ~fresh
    BY <1>1, <1>2, <2>1, <2>2, <2>3, <2>5
    DEF Alone, Other, Holds, Again, Left
  <2>6. QED
    BY <2>4, <2>5
<1>6. to \in Places /\ 0 \in 0 .. 2
  BY DEF Places
<1>7. QED
  BY <1>1, <1>2, <1>3, <1>4, <1>5, <1>6, FrameDepthInv

LEMMA CronStartDepthInv ==
  ASSUME DepthInv, CronStart
  PROVE  DepthInv'
<1>1. /\ pc["cron"] = "idle" /\ pc' = [pc EXCEPT !["cron"] = "start"]
      /\ pc["boot"] = "idle" \/ ~cronRan
      /\ ~fresh /\ mode = "normal" /\ cronRan'
      /\ UNCHANGED << depth, lock, fresh, mode >>
  BY DEF CronStart, Goto, flash
<1>2. pc'["cron"] = "start" /\ depth["cron"] = 0
  BY <1>1 DEF DepthInv, Alone, InUpgrade, Run
<1>3. depth' = [depth EXCEPT !["cron"] = 0] /\ depth'["cron"] = 0
  BY <1>1, <1>2 DEF DepthInv, Run
<1>4. Alone("cron")'
  BY <1>3 DEF Alone, Again
<1>5. ASSUME NEW q \in Run \ {"cron"}
      PROVE  Other("cron", q)' /\ Other(q, "cron")' /\ (Again(q) => lock')
  <2>1. q = "boot" /\ pc'[q] = pc[q] /\ depth'[q] = depth[q]
    BY <1>1 DEF DepthInv, Run
  <2>2. Alone(q) /\ Other(q, "cron") /\ depth[q] \in 0 .. 2
    BY DEF DepthInv, Run
  <2>3. Other("cron", q)'
    BY <1>2, <1>3 DEF Other, Holds, Again
  <2>4. CASE pc[q] = "idle"
    BY <1>1, <2>1, <2>2, <2>3, <2>4 DEF Alone, Other, Holds, Again, InUpgrade
  <2>5. CASE ~cronRan
    BY <1>1, <2>1, <2>2, <2>3, <2>5 DEF Alone, Other, Holds, Again, Left
  <2>6. QED
    BY <1>1, <2>1, <2>4, <2>5
<1>6. "cron" \in Run /\ "start" \in Places /\ 0 \in 0 .. 2
  BY DEF Places, Run
<1>7. QED
  BY <1>1, <1>2, <1>3, <1>4, <1>5, <1>6, FrameDepthInv

LEMMA ScriptDepthInv ==
  ASSUME DepthInv, NEW r \in Run, Script(r)
  PROVE  DepthInv'
<1>1. CASE Start(r)
  <2>1. UNCHANGED << depth, lock, cronRan, fresh, mode >>
    BY <1>1 DEF Start, ram, flash
  <2>2. \E to \in {"senddata", "rgeo", "uptime"} : Goto(r, "start", to)
    BY <1>1 DEF Start
  <2>3. QED
    BY <2>1, <2>2, MovesDepthInv DEF Places
<1>2. CASE ForceSendData(r)
  <2>1. UNCHANGED << depth, lock, cronRan, fresh, mode >>
    BY <1>2 DEF ForceSendData, ram, flash
  <2>2. Goto(r, "senddata", "uptime")
    BY <1>2 DEF ForceSendData
  <2>3. QED
    BY <2>1, <2>2, MovesDepthInv DEF Places
<1>3. CASE Rgeo(r)
  <2>1. UNCHANGED << depth, lock, cronRan, fresh, mode >>
    BY <1>3 DEF Rgeo, ram, flash
  <2>2. Goto(r, "rgeo", "uptime")
    BY <1>3 DEF Rgeo
  <2>3. QED
    BY <2>1, <2>2, MovesDepthInv DEF Places
<1>4. CASE AllowReboot(r)
  <2>1. UNCHANGED << depth, lock, cronRan, fresh, mode >>
    BY <1>4 DEF AllowReboot, ram, flash
  <2>2. Goto(r, "uptime", "consider")
    BY <1>4 DEF AllowReboot
  <2>3. QED
    BY <2>1, <2>2, MovesDepthInv DEF Places
<1>5. CASE Settle(r)
  <2>1. UNCHANGED << depth, lock, cronRan, fresh, mode >>
    BY <1>5 DEF Settle, ram, flash
  <2>2. Goto(r, "consider", "idle")
    BY <1>5 DEF Settle
  <2>3. QED
    BY <2>1, <2>2, MovesDepthInv DEF Places
<1>6. CASE Consider(r)
  <2>1. UNCHANGED << depth, lock, cronRan, fresh, mode >>
    BY <1>6 DEF Consider, ram, flash
  <2>2. \E to \in {"idle", "copy"} : Goto(r, "consider", to)
    BY <1>6 DEF Consider
  <2>3. QED
    BY <2>1, <2>2, MovesDepthInv DEF Places
<1>7. CASE Schedule(r)
  <2>1. UNCHANGED << depth, lock, cronRan, fresh, mode >>
    BY <1>7 DEF Schedule, ram, flash
  <2>2. Goto(r, "schedule", "idle")
    BY <1>7 DEF Schedule
  <2>3. QED
    BY <2>1, <2>2, MovesDepthInv DEF Places
<1>8. CASE Copy(r)
  <2>1. Goto(r, "copy", "check") /\ UNCHANGED << lock, cronRan, fresh, mode >>
    BY <1>8 DEF Copy, ram
  <2>2. depth[r] = 0
    BY <2>1 DEF DepthInv, Alone, InUpgrade, Goto
  <2>3. UNCHANGED depth
    BY <1>8, <2>2 DEF Copy, DepthInv
  <2>4. QED
    BY <2>1, <2>3, MovesDepthInv DEF Places
<1>9. QED
  BY <1>1, <1>2, <1>3, <1>4, <1>5, <1>6, <1>7, <1>8 DEF Script

LEMMA StepDepthInv == DepthInv /\ [Next]_vars => DepthInv'
<1> SUFFICES ASSUME DepthInv, [Next]_vars PROVE DepthInv'
  OBVIOUS
<1>1. ASSUME UNCHANGED << pc, depth, lock, cronRan, fresh, mode >>
      PROVE  DepthInv'
  BY <1>1 DEF DepthInv, Alone, Other, Holds, Again, Left
<1>2. CASE \E r \in Run : Script(r)
  BY <1>2, ScriptDepthInv
<1>3. CASE \E r \in Run : Upgrade(r)
  BY <1>3, CheckLockDepthInv, TouchLockDepthInv, SelectSiteDepthInv,
     InstallSiteDepthInv, GenerateDepthInv, CommitInnerDepthInv,
     UnlockDepthInv, CommitOuterDepthInv DEF Upgrade
<1>4. CASE CronStart
  BY <1>4, CronStartDepthInv
<1>5. CASE HourlySendData
  BY <1>5, <1>1 DEF HourlySendData, ram, run
<1>6. CASE LongUptime
  BY <1>6, <1>1 DEF LongUptime, flash, run
<1>7. CASE Reboot \/ PowerLoss \/ Sysupgrade
  <2>1. Booting(fresh) \/ Booting(TRUE)
    BY <1>7 DEF Reboot, PowerLoss, Sysupgrade
  <2>2. QED
    BY <2>1, BootingDepthInv
<1>8. CASE SetupMode
  <2>1. /\ pc' \in [Run -> Places]
        /\ pc'["cron"] = "idle" /\ pc'["boot"] = "check"
    BY <1>8 DEF SetupMode, Run, Places
  <2>2. depth' \in [Run -> 0 .. 2] /\ (\A r \in Run : depth'[r] = 0) /\ ~lock'
    BY <1>8 DEF SetupMode
  <2>3. \A r \in Run : ~Holds(r)' /\ ~Again(r)'
    BY <2>1, <2>2 DEF Holds, Again, Run
  <2>4. QED
    BY <2>1, <2>2, <2>3 DEF DepthInv, Alone, Other
<1>9. CASE UNCHANGED vars
  BY <1>9, <1>1 DEF vars, flash, ram, run
<1>10. QED
  BY <1>2, <1>3, <1>4, <1>5, <1>6, <1>7, <1>8, <1>9 DEF Next

(***************************************************************************)
(* site-upgrade and 020-site-select run each other at most twice deep, the *)
(* second time only after the other run has removed the lock file.         *)
(***************************************************************************)
THEOREM RecursionIsBounded == Spec => []DepthInv
  BY InitDepthInv, StepDepthInv, PTL DEF Spec

-----------------------------------------------------------------------------
(***************************************************************************)
(* The types of the other variables.                                       *)
(***************************************************************************)
Switches ==
  /\ armed \in BOOLEAN /\ fresh \in BOOLEAN /\ located \in BOOLEAN
  /\ flag \in BOOLEAN /\ long \in BOOLEAN /\ needsRgeo \in BOOLEAN
  /\ lock \in BOOLEAN /\ timer \in BOOLEAN /\ cronRan \in BOOLEAN
Values ==
  /\ variant \in {"package", "setup"} /\ mode \in {"normal", "setup"}
  /\ locode \in Code \union {NoCode} /\ siteselect \in Code \union {NoCode}
  /\ site \in File /\ built \in File \ {Torn}
  /\ staged \in (File \ {Torn}) \union {NoDelta}
  /\ cur \in [Run -> File \union {Empty}]
  /\ new \in [Run -> Code \union {NoCode}]
  /\ reboots \in 0 .. 3 /\ spent \in 0 .. Budget
Types == Switches /\ Values

LEMMA InitTypes == Init => Types
<1> SUFFICES ASSUME Init PROVE Types
  OBVIOUS
<1>1. Switches
  BY Zenon DEF Init, Switches
<1>2. Values
  BY CodesAssumption, EnvironmentAssumption DEF Init, Values, File
<1>3. QED
  BY <1>1, <1>2 DEF Types

\* Each step keeps the types, switches and values apart.
LEMMA ScriptTypes ==
  ASSUME Types, NEW r \in Run, Script(r)
  PROVE  Types'
<1>1. CASE Start(r)
  <2>1. Switches'
    BY <1>1, Zenon DEF Start, Types, Switches, flash, ram
  <2>2. Values'
    BY <1>1, CodesAssumption
    DEF Start, CurrentCommunity, Types, Values, File, flash, ram, run
  <2>3. QED
    BY <2>1, <2>2 DEF Types
<1>2. CASE ForceSendData(r)
  <2>1. Switches'
    BY <1>2, Zenon DEF ForceSendData, SendData, Types, Switches, flash, ram
  <2>2. Values'
    BY <1>2, CodesAssumption
    DEF ForceSendData, SendData, Types, Values, File, flash, ram, run
  <2>3. QED
    BY <2>1, <2>2 DEF Types
<1>3. CASE Rgeo(r)
  <2>1. Switches'
    BY <1>3, Zenon DEF Rgeo, Types, Switches, flash, ram
  <2>2. Values'
    BY <1>3, CodesAssumption
    DEF Rgeo, ReverseGeo, Selected, Types, Values, File, flash, ram, run
  <2>3. QED
    BY <2>1, <2>2 DEF Types
<1>4. CASE AllowReboot(r)
  <2>1. Switches'
    BY <1>4, Zenon DEF AllowReboot, Types, Switches, flash, ram
  <2>2. Values'
    BY <1>4, CodesAssumption
    DEF AllowReboot, CommitAll, Types, Values, File, flash, ram, run
  <2>3. QED
    BY <2>1, <2>2 DEF Types
<1>5. CASE Settle(r)
  <2>1. Switches'
    BY <1>5, Zenon DEF Settle, Types, Switches, flash, ram
  <2>2. Values'
    BY <1>5, CodesAssumption
    DEF Settle, CommitAll, Types, Values, File, flash, ram, run
  <2>3. QED
    BY <2>1, <2>2 DEF Types
<1>6. CASE Consider(r)
  <2>1. Switches'
    BY <1>6, Zenon DEF Consider, Types, Switches, flash, ram
  <2>2. Values'
    BY <1>6, CodesAssumption
    DEF Consider, Types, Values, File, flash, ram, run
  <2>3. QED
    BY <2>1, <2>2 DEF Types
<1>7. CASE Copy(r)
  <2>1. Switches'
    BY <1>7, Zenon DEF Copy, Types, Switches, flash, ram
  <2>2. Values'
    BY <1>7, CodesAssumption
    DEF Copy, Install, Types, Values, File, flash, ram, run
  <2>3. QED
    BY <2>1, <2>2 DEF Types
<1>8. CASE Schedule(r)
  <2>1. Switches'
    BY <1>8, Zenon DEF Schedule, Types, Switches, flash, ram
  <2>2. Values'
    BY <1>8, CodesAssumption
    DEF Schedule, CommitAll, Types, Values, File, flash, ram, run
  <2>3. QED
    BY <2>1, <2>2 DEF Types
<1>9. QED
  BY <1>1, <1>2, <1>3, <1>4, <1>5, <1>6, <1>7, <1>8 DEF Script

LEMMA UpgradeTypes ==
  ASSUME Types, NEW r \in Run, Upgrade(r)
  PROVE  Types'
<1>1. CASE CheckLock(r)
  <2>1. Switches'
    BY <1>1, Zenon DEF CheckLock, Types, Switches, flash, ram
  <2>2. Values'
    BY <1>1, CodesAssumption
    DEF CheckLock, Types, Values, File, flash, ram, run
  <2>3. QED
    BY <2>1, <2>2 DEF Types
<1>2. CASE TouchLock(r)
  <2>1. Switches'
    BY <1>2, Zenon DEF TouchLock, Types, Switches, flash, ram
  <2>2. Values'
    BY <1>2, CodesAssumption
    DEF TouchLock, Types, Values, File, flash, ram, run
  <2>3. QED
    BY <2>1, <2>2 DEF Types
<1>3. CASE SelectSite(r)
  <2>1. Switches'
    BY <1>3, Zenon DEF SelectSite, SendData, Types, Switches, flash, ram
  <2>2. Values'
    BY <1>3, CodesAssumption
    DEF SelectSite, SendData, Selected, Types, Values, File, flash, ram, run
  <2>3. QED
    BY <2>1, <2>2 DEF Types
<1>4. CASE InstallSite(r)
  <2>1. Switches'
    BY <1>4, Zenon DEF InstallSite, Types, Switches, flash, ram
  <2>2. Values'
    BY <1>4, CodesAssumption
    DEF InstallSite, Install, Types, Values, File, flash, ram, run
  <2>3. QED
    BY <2>1, <2>2 DEF Types
<1>5. CASE Generate(r)
  <2>1. Switches'
    BY <1>5, Zenon DEF Generate, Types, Switches, flash, ram
  <2>2. Values'
    BY <1>5, CodesAssumption
    DEF Generate, Types, Values, File, flash, ram, run
  <2>3. QED
    BY <2>1, <2>2 DEF Types
<1>6. CASE CommitInner(r)
  <2>1. Switches'
    BY <1>6, Zenon DEF CommitInner, Types, Switches, flash, ram
  <2>2. Values'
    BY <1>6, CodesAssumption
    DEF CommitInner, CommitAll, Types, Values, File, flash, ram, run
  <2>3. QED
    BY <2>1, <2>2 DEF Types
<1>7. CASE Unlock(r)
  <2>1. Switches'
    BY <1>7, Zenon DEF Unlock, Types, Switches, flash, ram
  <2>2. Values'
    BY <1>7, CodesAssumption
    DEF Unlock, Types, Values, File, flash, ram, run
  <2>3. QED
    BY <2>1, <2>2 DEF Types
<1>8. CASE CommitOuter(r)
  <2>1. Switches'
    BY <1>8, Zenon DEF CommitOuter, Types, Switches, flash, ram
  <2>2. Values'
    BY <1>8, CodesAssumption
    DEF CommitOuter, CommitAll, Types, Values, File, flash, ram, run
  <2>3. QED
    BY <2>1, <2>2 DEF Types
<1>9. QED
  BY <1>1, <1>2, <1>3, <1>4, <1>5, <1>6, <1>7, <1>8 DEF Upgrade

LEMMA BootingTypes ==
  ASSUME NEW isFresh, Booting(isFresh),
         armed' \in BOOLEAN, fresh' \in BOOLEAN, located' \in BOOLEAN,
         flag' \in BOOLEAN, variant' \in {"package", "setup"},
         locode' \in Code \union {NoCode},
         siteselect' \in Code \union {NoCode},
         site' \in File, built' \in File \ {Torn},
         reboots' \in 0 .. 3, spent' \in 0 .. Budget
  PROVE  Types'
<1>1. Switches'
  BY Zenon DEF Booting, Switches
<1>2. Values'
  BY DEF Booting, Values
<1>3. QED
  BY <1>1, <1>2 DEF Types

LEMMA StepTypes == Types /\ [Next]_vars => Types'
<1> SUFFICES ASSUME Types, [Next]_vars PROVE Types'
  OBVIOUS
<1>1. CASE \E r \in Run : Script(r) \/ Upgrade(r)
  BY <1>1, ScriptTypes, UpgradeTypes
<1>2. CASE CronStart
  <2>1. Switches'
    BY <1>2, Zenon DEF CronStart, Types, Switches, flash, ram
  <2>2. Values'
    BY <1>2 DEF CronStart, Types, Values, flash, ram, run
  <2>3. QED
    BY <2>1, <2>2 DEF Types
<1>3. CASE HourlySendData
  <2>1. Switches'
    BY <1>3, Zenon DEF HourlySendData, SendData, Types, Switches, flash, ram
  <2>2. Values'
    BY <1>3 DEF HourlySendData, SendData, Types, Values, flash, ram, run
  <2>3. QED
    BY <2>1, <2>2 DEF Types
<1>4. CASE LongUptime
  <2>1. Switches'
    BY <1>4, Zenon DEF LongUptime, Types, Switches, flash, ram
  <2>2. Values'
    BY <1>4 DEF LongUptime, Types, Values, flash, ram, run
  <2>3. QED
    BY <2>1, <2>2 DEF Types
<1>5. CASE Reboot
  <2>1. armed' \in BOOLEAN /\ fresh' \in BOOLEAN /\ located' \in BOOLEAN
        /\ flag' \in BOOLEAN
    BY <1>5, Zenon DEF Reboot, Types, Switches
  <2>2. /\ variant' \in {"package", "setup"}
        /\ locode' \in Code \union {NoCode}
        /\ siteselect' \in Code \union {NoCode}
        /\ site' \in File /\ built' \in File \ {Torn}
        /\ reboots' \in 0 .. 3 /\ spent' \in 0 .. Budget
    BY <1>5, CodesAssumption, EnvironmentAssumption
    DEF Reboot, CutShort, Types, Values, File
  <2>3. Booting(fresh) \/ Booting(TRUE)
    BY <1>5 DEF Reboot
  <2>4. QED
    BY <2>1, <2>2, <2>3, BootingTypes
<1>6. CASE PowerLoss
  <2>1. armed' \in BOOLEAN /\ fresh' \in BOOLEAN /\ located' \in BOOLEAN
        /\ flag' \in BOOLEAN
    BY <1>6, Zenon DEF PowerLoss, Types, Switches
  <2>2. /\ variant' \in {"package", "setup"}
        /\ locode' \in Code \union {NoCode}
        /\ siteselect' \in Code \union {NoCode}
        /\ site' \in File /\ built' \in File \ {Torn}
        /\ reboots' \in 0 .. 3 /\ spent' \in 0 .. Budget
    BY <1>6, CodesAssumption, EnvironmentAssumption
    DEF PowerLoss, CutShort, Disturb, Types, Values, File
  <2>3. Booting(fresh) \/ Booting(TRUE)
    BY <1>6 DEF PowerLoss
  <2>4. QED
    BY <2>1, <2>2, <2>3, BootingTypes
<1>7. CASE Sysupgrade
  <2>1. armed' \in BOOLEAN /\ fresh' \in BOOLEAN /\ located' \in BOOLEAN
        /\ flag' \in BOOLEAN
    BY <1>7, Zenon DEF Sysupgrade, Types, Switches
  <2>2. /\ variant' \in {"package", "setup"}
        /\ locode' \in Code \union {NoCode}
        /\ siteselect' \in Code \union {NoCode}
        /\ site' \in File /\ built' \in File \ {Torn}
        /\ reboots' \in 0 .. 3 /\ spent' \in 0 .. Budget
    BY <1>7, CodesAssumption, EnvironmentAssumption
    DEF Sysupgrade, CutShort, Disturb, Types, Values, File
  <2>3. Booting(fresh) \/ Booting(TRUE)
    BY <1>7 DEF Sysupgrade
  <2>4. QED
    BY <2>1, <2>2, <2>3, BootingTypes
<1>8. CASE SetupMode
  <2>1. Switches'
    BY <1>8, Zenon DEF SetupMode, Types, Switches
  <2>2. Values'
    BY <1>8, CodesAssumption, EnvironmentAssumption
    DEF SetupMode, CutShort, ReverseGeo, Disturb, Types, Values, File
  <2>3. QED
    BY <2>1, <2>2 DEF Types
<1>9. CASE UNCHANGED vars
  BY <1>9 DEF vars, flash, ram, run, Types, Switches, Values
<1>10. QED
  BY <1>1, <1>2, <1>3, <1>4, <1>5, <1>6, <1>7, <1>8, <1>9 DEF Next

(***************************************************************************)
(* Every variable has its type, depth among them, which takes RecursionIs- *)
(* Bounded: in particular no Torn file and no empty code ever gets into    *)
(* the committed configuration.                                            *)
(***************************************************************************)
THEOREM TypeCorrect == Spec => []TypeOK
<1>1. Types /\ DepthInv => TypeOK
  BY DEF Types, Switches, Values, DepthInv, TypeOK
<1>2. QED
  BY <1>1, InitTypes, StepTypes, InitDepthInv, StepDepthInv, PTL DEF Spec
=============================================================================
