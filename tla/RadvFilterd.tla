----------------------------- MODULE RadvFilterd -----------------------------
(***************************************************************************)
(* The daemon gluon-radv-filterd: it listens for router advertisements     *)
(* (RAs), keeps a list of the default routers it heard, looks up the       *)
(* transmission quality (TQ) batman-adv reports for each one, and lets the *)
(* RAs of one router pass by rewriting an ebtables chain whose policy is   *)
(* DROP.  The module has the daemon's main loop cut at every point where   *)
(* the clock, a child process or a signal can get in between, the ebtables *)
(* child processes, and procd, which stops and respawns the daemon.        *)
(*                                                                         *)
(* Time is kept as countdowns: left[r] is router->eol - now in seconds,    *)
(* held at -1 once it is negative, and since is now - last_update, held at *)
(* MIN_INTERVAL: the code only asks whether eol < now and whether          *)
(* last_update <= now - MIN_INTERVAL.                                      *)
(*                                                                         *)
(* A struct router is identified by its src: handle_ra never lists two     *)
(* with one src.                                                           *)
(***************************************************************************)
EXTENDS Integers, Sequences, Functions, SequencesExt

CONSTANTS
  Router,       \* the MAC addresses RAs come from
  Originator,   \* the batman-adv nodes those hosts may sit behind
  Unspec,       \* the all-zero originator (unspec in update_tqs)
  NoRouter,     \* a NULL struct router pointer
  AnySrc,       \* the source of a rule that has no -s option
  Pid, NoPid,   \* process ids of the ebtables children
  NoChild,      \* no ebtables process
  Radix,        \* 256: the lifetime is two bytes, high byte first
  BigEndian,    \* the byte order of the CPU
  Lifetime,     \* the <<high byte, low byte>> pairs routers announce
  Garbage,      \* the [originator, tq] a fresh malloc may contain
  MaxTQ,        \* 255: TQs are bytes
  Threshold,    \* the -t option (hysteresis_thresh)
  MinInterval,  \* MIN_INTERVAL, in ticks of the clock
  MaxLeft       \* the largest remaining lifetime that is told apart

Command == {"-F", "-A"}
Child == [pid : Pid, cmd : Command, mac : Router,
          state : {"running", "applied", "exited", "failed"}]

ASSUME SortsAssumption ==
  /\ Unspec \notin Originator
  /\ NoRouter \notin Router
  /\ AnySrc \notin Router
  /\ AnySrc # NoRouter
  /\ NoPid \notin Pid
  /\ NoChild \notin Child
ASSUME NumbersAssumption ==
  /\ MaxTQ \in Nat /\ Threshold \in Nat /\ MinInterval \in Nat
  /\ Radix \in Nat \ {0} /\ MaxLeft \in Nat
  /\ BigEndian \in BOOLEAN
  /\ Lifetime \subseteq (0 .. Radix - 1) \X (0 .. Radix - 1)
ASSUME GarbageAssumption ==
  Garbage \subseteq [originator : Originator \union {Unspec}, tq : Nat]

VARIABLES
  pc,           \* where the daemon is in its main loop
  list,         \* G.routers, first element first
  left,         \* router->eol, as the seconds left
  originator,   \* router->originator
  tq,           \* router->tq
  best,         \* G.best_router
  maxTq,        \* G.max_tq
  since,        \* the seconds since last_update
  cursor,       \* the position of the foreach loop of expire_routers
  transtable,   \* what transtable_global lists at this update
  gateways,     \* what gateways lists at this update, 0 for no line
  unread,       \* the lines of gateways getline has yet to return
  cmd,          \* the ebtables command to run or run last
  pid,          \* the result of the last fork
  ret,          \* the result of the last fork_execvp_timeout
  blocked,      \* SIGCHLD is in the daemon's signal mask
  pending,      \* the pid of the pending SIGCHLD
  child,        \* the ebtables process
  chain         \* the sources the rules of the chain accept

heap == << list, left, originator, tq, best, maxTq >>
tables == << transtable, gateways, unread >>
signals == << blocked, pending >>
vars == << pc, heap, since, cursor, tables, cmd, pid, ret, signals, child,
           chain >>

Listed == Range(list)
Lines == [Router -> Originator \union {Unspec}]
Quality == [Originator -> 0 .. MaxTQ]
NoGateways == [o \in Originator |-> 0]

(***************************************************************************)
(* The memory of a process the kernel has just started: no router is       *)
(* known, and the signal mask is empty.                                    *)
(***************************************************************************)
FreshLeft == [r \in Router |-> -1]
FreshOriginator == [r \in Router |-> Unspec]
FreshTq == [r \in Router |-> 0]

(***************************************************************************)
(* 400-radv-filterd gives the chain the rule -j ACCEPT at boot, and procd  *)
(* starts the daemon.                                                      *)
(***************************************************************************)
Init ==
  /\ pc = "select"
  /\ list = << >> /\ best = NoRouter /\ maxTq = 0
  /\ left = FreshLeft /\ originator = FreshOriginator /\ tq = FreshTq
  /\ since = 0
  /\ cursor = 1
  /\ transtable = FreshOriginator /\ gateways = NoGateways /\ unread = {}
  /\ cmd = "-F" /\ ret = "unset"
  /\ pid = NoPid /\ child = NoChild
  /\ blocked = FALSE /\ pending = NoPid
  /\ chain = << AnySrc >>

-----------------------------------------------------------------------------
(***************************************************************************)
(* The clock.                                                              *)
(***************************************************************************)
Tick ==
  /\ \/ since < MinInterval
     \/ \E r \in Listed : left[r] >= 0
  /\ since' = IF since < MinInterval THEN since + 1 ELSE since
  /\ left' = [r \in Router |-> IF left[r] >= 0 THEN left[r] - 1 ELSE left[r]]
  /\ UNCHANGED << pc, list, originator, tq, best, maxTq, cursor, tables, cmd,
                  pid, ret, signals, child, chain >>

(***************************************************************************)
(* The socket.  The BPF program loads one byte at the offset of            *)
(* nd_ra_router_lifetime, the high byte, and lets the packet pass unless   *)
(* it is 0; handle_ra adds the field to the clock without ntohs.           *)
(***************************************************************************)
PassesFilter(lifetime) == lifetime[1] # 0

HostOrder(lifetime) ==
  IF BigEndian THEN Radix * lifetime[1] + lifetime[2]
               ELSE lifetime[1] + Radix * lifetime[2]

SecondsLeft(lifetime) ==
  IF HostOrder(lifetime) > MaxLeft THEN MaxLeft ELSE HostOrder(lifetime)

\* A router that is listed: only its eol changes.
RefreshRouter(r, lifetime) ==
  /\ r \in Listed
  /\ left' = [left EXCEPT ![r] = SecondsLeft(lifetime)]
  /\ UNCHANGED << list, originator, tq >>

\* A new router: malloc leaves originator and tq as the heap has them.
AddRouter(r, lifetime) ==
  /\ r \notin Listed
  /\ list' = << r >> \o list
  /\ left' = [left EXCEPT ![r] = SecondsLeft(lifetime)]
  /\ \E g \in Garbage :
       /\ originator' = [originator EXCEPT ![r] = g.originator]
       /\ tq' = [tq EXCEPT ![r] = g.tq]

\* select reports the socket readable, and handle_ra takes the RA.
HandleRA ==
  /\ pc = "select"
  /\ \E r \in Router, lifetime \in Lifetime :
       /\ PassesFilter(lifetime)
       /\ RefreshRouter(r, lifetime) \/ AddRouter(r, lifetime)
  /\ pc' = "check"
  /\ UNCHANGED << best, maxTq, since, cursor, tables, cmd, pid, ret, signals,
                  child, chain >>

\* Mutant: select is called without a timeout.
SelectReturnsNever == pc = "select" /\ FALSE /\ UNCHANGED vars

\* select returns after MAX_INTERVAL, or for a packet whose length checks fail.
SelectReturns ==
  /\ pc = "select"
  /\ pc' = "check"
  /\ UNCHANGED << heap, since, cursor, tables, cmd, pid, ret, signals, child,
                  chain >>

UpdateDue == list # << >> /\ since >= MinInterval

Check ==
  /\ pc = "check"
  /\ pc' = IF UpdateDue THEN "expire" ELSE "select"
  /\ cursor' = 1
  /\ UNCHANGED << heap, since, tables, cmd, pid, ret, signals, child, chain >>

-----------------------------------------------------------------------------
(***************************************************************************)
(* expire_routers, one pass of its loop per step.  The loop reads          *)
(* router->next after free(router): the heap still holds the pointer, or   *)
(* the allocator has put NULL in its place and the loop ends early; a      *)
(* pointer into the allocator's own data is covered by Crash.              *)
(***************************************************************************)
KeepRouter ==
  /\ pc = "expire"
  /\ cursor <= Len(list)
  /\ left[list[cursor]] >= 0
  /\ cursor' = cursor + 1
  /\ UNCHANGED << pc, heap, since, tables, cmd, pid, ret, signals, child,
                  chain >>

\* What an unlisted router's fields are: freed memory is nobody's state.
Forget(r) ==
  /\ left' = [left EXCEPT ![r] = -1]
  /\ originator' = [originator EXCEPT ![r] = Unspec]
  /\ tq' = [tq EXCEPT ![r] = 0]

\* Mutant: best_router still points to the router that is freed.
UnlinkBestKeeps(r) == UNCHANGED best

UnlinkBest(r) == best' = IF best = r THEN NoRouter ELSE best

ExpireRouter ==
  /\ pc = "expire"
  /\ cursor <= Len(list)
  /\ left[list[cursor]] < 0
  /\ Forget(list[cursor])
  /\ UnlinkBest(list[cursor])
  /\ list' = RemoveAt(list, cursor)
  /\ cursor' \in {cursor, Len(list)}
  /\ UNCHANGED << pc, maxTq, since, tables, cmd, pid, ret, signals, child,
                  chain >>

ExpireDone ==
  /\ pc = "expire"
  /\ cursor > Len(list)
  /\ pc' = IF list = << >> THEN "select" ELSE "translate"
  /\ UNCHANGED << heap, since, cursor, tables, cmd, pid, ret, signals, child,
                  chain >>

-----------------------------------------------------------------------------
(***************************************************************************)
(* update_tqs: reset the TQs, read transtable_global if update_originators *)
(* asks for it, and open gateways.  The contents of both files are chosen  *)
(* here: transtable[r] is the originator behind which the mesh sees r, or  *)
(* Unspec if no line lists r.                                              *)
(***************************************************************************)
UpdateOriginators == \E r \in Listed : originator[r] # Unspec

Translated(tt) ==
  [r \in Router |-> IF r \in Listed /\ UpdateOriginators /\ tt[r] # Unspec
                    THEN tt[r] ELSE originator[r]]

\* Mutant: max_tq is left as the previous update computed it.
TranslateKeepsMax ==
  /\ pc = "translate"
  /\ transtable' \in Lines
  /\ gateways' \in Quality
  /\ originator' = Translated(transtable')
  /\ tq' = [r \in Router |-> 0]
  /\ unread' = {o \in Originator : gateways'[o] > 0}
  /\ pc' = "gateways"
  /\ UNCHANGED << list, left, best, maxTq, since, cursor, cmd, pid, ret,
                  signals, child, chain >>

Translate ==
  /\ pc = "translate"
  /\ transtable' \in Lines
  /\ gateways' \in Quality
  /\ originator' = Translated(transtable')
  /\ tq' = [r \in Router |-> 0]
  /\ maxTq' = 0
  /\ unread' = {o \in Originator : gateways'[o] > 0}
  /\ pc' = "gateways"
  /\ UNCHANGED << list, left, best, since, cursor, cmd, pid, ret, signals,
                  child, chain >>

Match(o) == {i \in 1 .. Len(list) : originator[list[i]] = o}

\* Mutant: the new maximum is added to the old one.
RaiseMaxAdds(o) ==
  /\ gateways[o] > maxTq
  /\ \E i \in Match(o) :
       /\ \A j \in Match(o) : i <= j
       /\ tq' = [tq EXCEPT ![list[i]] = gateways[o]]
  /\ maxTq' = maxTq + gateways[o]

\* The line's TQ beats max_tq: the loop breaks at the first match.
RaiseMax(o) ==
  /\ gateways[o] > maxTq
  /\ \E i \in Match(o) :
       /\ \A j \in Match(o) : i <= j
       /\ tq' = [tq EXCEPT ![list[i]] = gateways[o]]
  /\ maxTq' = gateways[o]

\* It does not: every router behind the gateway is given the TQ.
KeepMax(o) ==
  /\ gateways[o] <= maxTq \/ Match(o) = {}
  /\ tq' = [r \in Router |-> IF r \in Listed /\ originator[r] = o
                             THEN gateways[o] ELSE tq[r]]
  /\ UNCHANGED maxTq

ReadGateway ==
  /\ pc = "gateways"
  /\ \E o \in unread :
       /\ RaiseMax(o) \/ KeepMax(o)
       /\ unread' = unread \ {o}
  /\ UNCHANGED << pc, list, left, originator, best, since, cursor, transtable,
                  gateways, cmd, pid, ret, signals, child, chain >>

GatewaysRead ==
  /\ pc = "gateways"
  /\ unread = {}
  /\ pc' = "elect"
  /\ UNCHANGED << heap, since, cursor, tables, cmd, pid, ret, signals, child,
                  chain >>

-----------------------------------------------------------------------------
(***************************************************************************)
(* update_ebtables up to its first ebtables call: keep the best router     *)
(* while its TQ is good enough, otherwise take the first one that has      *)
(* max_tq.  G.best_router is set before any command has run.               *)
(***************************************************************************)
\* Mutants: any best router is kept; a router is kept only while it is the best.
GoodEnoughAlways == best # NoRouter
GoodEnoughExact == best # NoRouter /\ tq[best] >= maxTq

GoodEnough == best # NoRouter /\ tq[best] >= maxTq - Threshold

KeepBest ==
  /\ pc = "elect"
  /\ GoodEnough
  /\ pc' = "done"
  /\ UNCHANGED << heap, since, cursor, tables, cmd, pid, ret, signals, child,
                  chain >>

HasMaxTq == {i \in 1 .. Len(list) : tq[list[i]] = maxTq}

SwitchBest ==
  /\ pc = "elect"
  /\ ~ GoodEnough
  /\ \E i \in HasMaxTq :
       /\ \A j \in HasMaxTq : i <= j
       /\ best' = list[i]
  /\ cmd' = "-F"
  /\ pc' = "fork"
  /\ UNCHANGED << list, left, originator, tq, maxTq, since, cursor, tables,
                  pid, ret, signals, child, chain >>

-----------------------------------------------------------------------------
(***************************************************************************)
(* fork_execvp_timeout.  SIGCHLD is blocked only after the fork: that of a *)
(* child which ends before is discarded.  The child of a daemon that died  *)
(* is taken to have ended before the next one's first update, which is at  *)
(* least MIN_INTERVAL after its start.                                     *)
(***************************************************************************)
\* What the two files said at this update is of no more use.
TablesClosed ==
  /\ transtable' = FreshOriginator
  /\ gateways' = NoGateways
  /\ unread' = {}

Fork ==
  /\ pc = "fork"
  /\ child = NoChild
  /\ pid' \in Pid \ {pid}
  /\ child' = [pid |-> pid', cmd |-> cmd, mac |-> best, state |-> "running"]
  /\ TablesClosed
  /\ pc' = "block"
  /\ UNCHANGED << heap, since, cursor, cmd, ret, signals, chain >>

\* fork returns -1, and the code goes on as if -1 were a child.
ForkFails ==
  /\ pc = "fork"
  /\ child = NoChild
  /\ pid' = NoPid
  /\ TablesClosed
  /\ pc' = "block"
  /\ UNCHANGED << heap, since, cursor, cmd, ret, signals, child, chain >>

BlockSigchld ==
  /\ pc = "block"
  /\ blocked' = TRUE
  /\ pc' = "wait"
  /\ UNCHANGED << heap, since, cursor, tables, cmd, pid, ret, pending, child,
                  chain >>

\* The mask of before: a SIGCHLD that is pending is delivered, and ignored.
RestoreMask == blocked' = FALSE /\ pending' = NoPid

\* Mutant: the rule is added even if the flush has failed.
ReturnIgnored(status) ==
  /\ ret' = status
  /\ IF cmd = "-F"
     THEN cmd' = "-A" /\ pc' = "fork"
     ELSE UNCHANGED cmd /\ pc' = "done"

\* update_ebtables goes on with what fork_execvp_timeout returned.
Return(status) ==
  /\ ret' = status
  /\ IF status = "ok" /\ cmd = "-F"
     THEN cmd' = "-A" /\ pc' = "fork"
     ELSE UNCHANGED cmd /\ pc' = "done"

\* Mutant: the exit status of the child is not looked at.
ChildReapedAnyStatus ==
  /\ pc = "wait"
  /\ pending = pid
  /\ child # NoChild /\ child.pid = pid
  /\ RestoreMask
  /\ Return("ok")
  /\ child' = NoChild
  /\ UNCHANGED << heap, since, cursor, tables, pid, chain >>

\* sigtimedwait returns SIGCHLD, for the child: waitpid, and its exit status.
ChildReaped ==
  /\ pc = "wait"
  /\ pending = pid
  /\ child # NoChild /\ child.pid = pid
  /\ RestoreMask
  /\ Return(IF child.state = "exited" THEN "ok" ELSE "failed")
  /\ child' = NoChild
  /\ UNCHANGED << heap, since, cursor, tables, pid, chain >>

\* Mutant: sigwaitinfo, which waits for ever.
TimedOutNever == pc = "wait" /\ FALSE /\ UNCHANGED vars

\* sigtimedwait returns EAGAIN after EBTABLES_TIMEOUT.
TimedOut ==
  /\ pc = "wait"
  /\ pending = NoPid
  /\ pc' = "kill"
  /\ UNCHANGED << heap, since, cursor, tables, cmd, pid, ret, signals, child,
                  chain >>

\* Mutant: the mask is not restored, and kill leaves a SIGCHLD pending.
KillChildBlocked ==
  /\ pc = "kill"
  /\ pending' = IF child # NoChild THEN child.pid ELSE pending
  /\ child' = NoChild
  /\ Return("failed")
  /\ UNCHANGED << heap, since, cursor, tables, pid, blocked, chain >>

\* The mask is restored, kill(child, SIGKILL) and waitpid.  After a fork that
\* failed this is kill(-1, SIGKILL): every process but the daemon and init.
KillChild ==
  /\ pc = "kill"
  /\ RestoreMask
  /\ child' = NoChild
  /\ Return("failed")
  /\ UNCHANGED << heap, since, cursor, tables, pid, chain >>

\* Back in main: last_update = time(NULL).
UpdateDone ==
  /\ pc = "done"
  /\ since' = 0
  /\ TablesClosed
  /\ pc' = "select"
  /\ UNCHANGED << heap, cursor, cmd, pid, ret, signals, child, chain >>

-----------------------------------------------------------------------------
(***************************************************************************)
(* The ebtables process: its command takes effect, or fails and leaves the *)
(* chain alone, and then it exits.  A process whose command took effect    *)
(* can still be killed before it has exited.                               *)
(***************************************************************************)
\* Mutant: a flush puts the rule of the boot configuration back.
EffectFailOpen(command, mac) ==
  IF command = "-F" THEN << AnySrc >> ELSE Append(chain, mac)

Effect(command, mac) ==
  IF command = "-F" THEN << >> ELSE Append(chain, mac)

ChildApplies ==
  /\ child # NoChild
  /\ child.state = "running"
  /\ chain' = Effect(child.cmd, child.mac)
  /\ child' = [child EXCEPT !.state = "applied"]
  /\ UNCHANGED << pc, heap, since, cursor, tables, cmd, pid, ret, signals >>

ExitState(state) == IF state = "applied" THEN "exited" ELSE "failed"

\* The exit: a daemon that is the parent gets a SIGCHLD, kept only if blocked.
ChildExits ==
  /\ child # NoChild
  /\ child.state \in {"running", "applied"}
  /\ IF pc \in {"block", "wait", "kill"}
     THEN /\ child' = [child EXCEPT !.state = ExitState(child.state)]
          /\ pending' = IF blocked THEN child.pid ELSE pending
     ELSE /\ child' = NoChild
          /\ UNCHANGED pending
  /\ UNCHANGED << pc, heap, since, cursor, tables, cmd, pid, ret, blocked,
                  chain >>

-----------------------------------------------------------------------------
(***************************************************************************)
(* The daemon dies, at any point: procd stops it (a reload trigger on the  *)
(* configuration), select fails, or a freed router is followed into        *)
(* unmapped memory.  A zombie goes with it, a live child runs on.  procd   *)
(* starts the daemon again; nobody touches the chain.                      *)
(***************************************************************************)
Crash ==
  /\ pc # "down"
  /\ pc' = "down"
  /\ list' = << >> /\ best' = NoRouter /\ maxTq' = 0
  /\ left' = FreshLeft /\ originator' = FreshOriginator /\ tq' = FreshTq
  /\ cursor' = 1
  /\ transtable' = FreshOriginator /\ gateways' = NoGateways /\ unread' = {}
  /\ cmd' = "-F" /\ ret' = "unset"
  /\ RestoreMask
  /\ child' = IF child # NoChild /\ child.state \in {"running", "applied"}
              THEN child ELSE NoChild
  /\ UNCHANGED << since, pid, chain >>

Start ==
  /\ pc = "down"
  /\ pc' = "select"
  /\ since' = 0
  /\ UNCHANGED << heap, cursor, tables, cmd, pid, ret, signals, child, chain >>

-----------------------------------------------------------------------------
Update ==
  \/ KeepRouter \/ ExpireRouter \/ ExpireDone
  \/ Translate \/ ReadGateway \/ GatewaysRead
  \/ KeepBest \/ SwitchBest

Execute ==
  \/ Fork \/ ForkFails \/ BlockSigchld \/ ChildReaped \/ TimedOut
  \/ KillChild \/ UpdateDone

Daemon == SelectReturns \/ Check \/ Update \/ Execute
Ebtables == ChildApplies \/ ChildExits

Next ==
  \/ Tick
  \/ HandleRA
  \/ SelectReturns
  \/ Check
  \/ Update
  \/ Execute
  \/ Ebtables
  \/ Crash
  \/ Start

Spec == Init /\ [][Next]_vars

(***************************************************************************)
(* Fairness: the kernel schedules the daemon and wakes it from select and  *)
(* from sigtimedwait when their timeouts have passed, the clock runs,      *)
(* procd respawns a daemon that died, and the ebtables process of a daemon *)
(* that died ends.  None for RAs, for an ebtables that hangs, and for      *)
(* crashes.                                                                *)
(***************************************************************************)
OrphanExits == pc \notin {"block", "wait", "kill"} /\ ChildExits

Fairness ==
  /\ WF_vars(Daemon)
  /\ WF_vars(Tick)
  /\ WF_vars(Start)
  /\ WF_vars(OrphanExits)

FairSpec == Spec /\ Fairness

-----------------------------------------------------------------------------
(***************************************************************************)
(* Every variable has its type.                                            *)
(***************************************************************************)
Where == {"select", "check", "expire", "translate", "gateways", "elect",
          "fork", "block", "wait", "kill", "done", "down"}
TypeOK ==
  /\ pc \in Where
  /\ list \in Seq(Router)
  /\ left \in [Router -> -1 .. MaxLeft]
  /\ originator \in [Router -> Originator \union {Unspec}]
  /\ tq \in [Router -> Nat]
  /\ best \in Router \union {NoRouter}
  /\ maxTq \in 0 .. MaxTQ
  /\ since \in 0 .. MinInterval
  /\ cursor \in Nat \ {0}
  /\ transtable \in Lines
  /\ gateways \in Quality
  /\ unread \subseteq Originator
  /\ cmd \in Command
  /\ pid \in Pid \union {NoPid}
  /\ ret \in {"unset", "ok", "failed"}
  /\ blocked \in BOOLEAN
  /\ pending \in Pid \union {NoPid}
  /\ child \in Child \union {NoChild}
  /\ chain \in Seq(Router \union {AnySrc})

(***************************************************************************)
(* G.best_router never points to memory that expire_routers has freed, and *)
(* no MAC address is listed twice.                                         *)
(***************************************************************************)
BestIsListed ==
  /\ best # NoRouter => best \in Listed
  /\ \A i, j \in 1 .. Len(list) : list[i] = list[j] => i = j

(***************************************************************************)
(* When update_ebtables starts, G.max_tq is the TQ of a listed router and  *)
(* no router has a higher one: the search for the router to switch to      *)
(* cannot come back with NULL and an unset mac.                            *)
(***************************************************************************)
MaxTqAttained ==
  pc = "elect" =>
    /\ HasMaxTq # {}
    /\ \A r \in Listed : tq[r] <= maxTq

(***************************************************************************)
(* The router update_ebtables keeps or takes sits behind a gateway whose   *)
(* TQ is, in the table just read, within the threshold of the best one     *)
(* that any listed router sits behind, as the daemon knows the             *)
(* originators; a router it switches to sits behind the best one.          *)
(***************************************************************************)
GatewayTq(o) == IF o = Unspec THEN 0 ELSE gateways[o]
BestWithinThreshold ==
  pc \in {"fork", "done"} =>
    /\ best # NoRouter
    /\ \A r \in Listed :
         GatewayTq(originator[r]) <= GatewayTq(originator[best])
                                      + (IF pc = "done" THEN Threshold ELSE 0)

(***************************************************************************)
(* README: the best router is determined by the TQ that batman-adv reports *)
(* for its originator.  The router elected sits, by the tables of this     *)
(* very update, behind a gateway within the threshold of the best one.     *)
(* The code fails this: it looks originators up only if a listed router    *)
(* already has one that is not all zero.                                   *)
(***************************************************************************)
BestByReportedTq ==
  pc \in {"fork", "done"} =>
    \A r \in Listed :
      GatewayTq(transtable[r]) <= GatewayTq(transtable[best])
                                   + Threshold

(***************************************************************************)
(* The chain never accepts two sources: a rule is only added to a chain    *)
(* that was flushed, whatever fails, times out, is killed or crashes.      *)
(***************************************************************************)
AtMostOneRule == Len(chain) <= 1

(***************************************************************************)
(* If the last ebtables call returned 0 and was the one that adds the      *)
(* rule, then between two updates the chain accepts the best router and    *)
(* nobody else.                                                            *)
(***************************************************************************)
SuccessOpensBest ==
  (pc = "select" /\ cmd = "-A" /\ ret = "ok" /\ best # NoRouter)
    => chain = << best >>

(***************************************************************************)
(* The assertion of fork_execvp_timeout, "BUG: We received a SIGCHLD from  *)
(* a child we didn't spawn", never fails: no SIGCHLD of a child that was   *)
(* given up is left for the next call to find.                             *)
(***************************************************************************)
NoForeignSigchld == (pc = "wait" /\ pending # NoPid) => pending = pid

(***************************************************************************)
(* The warning of fork_execvp_timeout, "child %d took too long, killing":  *)
(* the signal of a child that has ended with status 0 is there to be       *)
(* waited for, and no such child is given up.  The code fails this: a      *)
(* child that ends between fork and sigprocmask leaves no SIGCHLD, and the *)
(* wait times out though ebtables has succeeded.                           *)
(***************************************************************************)
EndedChildIsReaped ==
  (pc = "wait" /\ child # NoChild /\ child.state = "exited") => pending = pid

(***************************************************************************)
(* The same warning: there is a child to kill.  The code fails this: after *)
(* a fork that failed it calls kill(-1, SIGKILL).                          *)
(***************************************************************************)
KillsOnlyItsChild == pc = "kill" => child # NoChild

(***************************************************************************)
(* Hysteresis: the daemon leaves a router that is still listed only for    *)
(* one whose gateway has a TQ more than the threshold higher, as long as   *)
(* no two routers share an originator.  This is what the >= of             *)
(* update_ebtables does.  The texts put the boundary elsewhere: "until the *)
(* better gateway has a TQ value at least X higher" (README), "Minimum TQ  *)
(* difference required to switch the gateway" (usage).  At a difference of *)
(* exactly the threshold they switch, and the code keeps.                  *)
(***************************************************************************)
OneRouterPerOriginator ==
  \A r, s \in Listed : originator[r] = originator[s] => r = s

Switches == best # NoRouter /\ best' \notin {NoRouter, best}

LeavesForBetter ==
  GatewayTq(originator[best'])
    > GatewayTq(originator[best]) + Threshold

HysteresisHolds ==
  [][Switches /\ OneRouterPerOriginator => LeavesForBetter]_vars

(***************************************************************************)
(* When RAs stop arriving every router is dropped from the list: select    *)
(* wakes the daemon after MAX_INTERVAL though nothing arrives.  (While     *)
(* others keep expiring and coming back a router that expired may stay:    *)
(* the early end of the loop over freed memory can always come before it.) *)
(***************************************************************************)
QuietMeshEmptiesList == []<><<HandleRA>>_vars \/ []<>(list = << >>)

(***************************************************************************)
(* An update that has begun ends, even if ebtables hangs or its SIGCHLD is *)
(* lost: the daemon gets back to its socket.                               *)
(***************************************************************************)
UpdateEnds == pc = "expire" ~> pc \in {"select", "down"}

(***************************************************************************)
(* The daemon, its children and their crashes implement the gate of        *)
(* RaGate: whatever fails or dies half-way, the chain goes from one router *)
(* to another only through the empty chain, is emptied only for a router   *)
(* that was elected from the list, and lets no other one in.               *)
(***************************************************************************)
Chosen ==
  IF child # NoChild THEN child.mac
  ELSE IF pc \in {"fork", "block", "wait", "kill"} THEN best
  ELSE NoRouter

Gate == INSTANCE RaGate WITH
  Nobody <- NoRouter, Everybody <- AnySrc,
  known <- Listed, chosen <- Chosen, admitted <- Range(chain)

ImplementsGate == Gate!Spec
=============================================================================
