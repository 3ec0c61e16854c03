-------------------------- MODULE RadvFilterdProofs --------------------------
(***************************************************************************)
(* Theorems about RadvFilterd, for every set of routers, originators and   *)
(* process ids, every threshold, interval, lifetime and byte order, and    *)
(* every content the heap may have.                                        *)
(***************************************************************************)
EXTENDS RadvFilterd, SequenceTheorems, TLAPS

(***************************************************************************)
(* The three operations on the list: its range, a new first element, and   *)
(* an element unlinked.                                                    *)
(***************************************************************************)
LEMMA RangeOfList ==
  ASSUME NEW S, NEW s \in Seq(S)
  PROVE  /\ Range(s) = {s[i] : i \in 1 .. Len(s)}
         /\ Range(s) \subseteq S
         /\ Len(s) \in Nat
  BY LenProperties DEF Range

LEMMA ShortRanges == Range(<< >>) = {} /\ \A e : Range(<< e >>) = {e}
<1>1. Range(<< >>) = {}
  <2>1. << >> \in Seq({}) /\ Len(<< >>) = 0
    OBVIOUS
  <2>2. 1 .. Len(<< >>) = {}
    BY <2>1
  <2>3. Range(<< >>) = {<< >>[j] : j \in 1 .. Len(<< >>)}
    BY <2>1, RangeOfList
  <2>4. QED
    BY <2>2, <2>3
<1>2. ASSUME NEW e
      PROVE  Range(<< e >>) = {e}
  <2>1. << e >> \in Seq({e}) /\ Len(<< e >>) = 1 /\ << e >>[1] = e
    OBVIOUS
  <2>2. 1 .. Len(<< e >>) = {1}
    BY <2>1
  <2>3. Range(<< e >>) = {<< e >>[j] : j \in 1 .. Len(<< e >>)}
    BY <2>1, RangeOfList
  <2>4. QED
    BY <2>1, <2>2, <2>3
<1>3. QED
  BY <1>1, <1>2

LEMMA Prepended ==
  ASSUME NEW S, NEW s \in Seq(S), NEW e \in S
  PROVE  /\ << e >> \o s \in Seq(S)
         /\ Len(<< e >> \o s) = Len(s) + 1
         /\ (<< e >> \o s)[1] = e
         /\ \A i \in 2 .. Len(s) + 1 : (<< e >> \o s)[i] = s[i - 1]
         /\ Range(<< e >> \o s) = Range(s) \union {e}
<1>1. /\ << e >> \in Seq(S)
      /\ Len(<< e >>) = 1
      /\ << e >>[1] = e
  OBVIOUS
<1>2. /\ << e >> \o s \in Seq(S)
      /\ Len(<< e >> \o s) = 1 + Len(s)
      /\ \A i \in 1 .. 1 + Len(s) :
            (<< e >> \o s)[i] = IF i <= 1 THEN << e >>[i] ELSE s[i - 1]
  BY <1>1, ConcatProperties
<1>3. Len(s) \in Nat
  BY LenProperties
<1>4. Range(<< e >>) = {e}
  BY ShortRanges
<1>5. Range(<< e >> \o s) = Range(<< e >>) \union Range(s)
  BY <1>1, RangeConcatenation
<1>6. QED
  BY <1>1, <1>2, <1>3, <1>4, <1>5

LEMMA Unlinked ==
  ASSUME NEW S, NEW s \in Seq(S), NEW k \in 1 .. Len(s)
  PROVE  /\ RemoveAt(s, k) \in Seq(S)
         /\ Len(RemoveAt(s, k)) = Len(s) - 1
         /\ \A i \in 1 .. Len(s) - 1 :
              RemoveAt(s, k)[i] = IF i < k THEN s[i] ELSE s[i + 1]
<1>1. /\ Len(s) \in Nat
      /\ \A i \in 1 .. Len(s) : s[i] \in S
  BY LenProperties, ElementOfSeq
<1> DEFINE front == SubSeq(s, 1, k - 1)
           back == SubSeq(s, k + 1, Len(s))
<1>2. /\ front \in Seq(S)
      /\ Len(front) = k - 1
      /\ \A i \in 1 .. k - 1 : front[i] = s[i]
  <2>1. \A i \in 1 .. k - 1 : s[i] \in S
    BY <1>1
  <2>2. /\ front \in Seq(S)
        /\ Len(front) = IF 1 <= k - 1 THEN (k - 1) - 1 + 1 ELSE 0
        /\ \A i \in 1 .. (k - 1) - 1 + 1 : front[i] = s[1 + i - 1]
    BY <2>1, SubSeqProperties, <1>1
  <2>3. QED
    BY <2>2, <1>1
<1>3. /\ back \in Seq(S)
      /\ Len(back) = Len(s) - k
      /\ \A i \in 1 .. Len(s) - k : back[i] = s[k + i]
  <2>1. \A i \in k + 1 .. Len(s) : s[i] \in S
    BY <1>1
  <2>2. /\ back \in Seq(S)
        /\ Len(back) = IF k + 1 <= Len(s) THEN Len(s) - (k + 1) + 1 ELSE 0
        /\ \A i \in 1 .. Len(s) - (k + 1) + 1 : back[i] = s[(k + 1) + i - 1]
    BY <2>1, SubSeqProperties, <1>1
  <2>3. QED
    BY <2>2, <1>1
<1>4. RemoveAt(s, k) = front \o back
  BY DEF RemoveAt
<1> HIDE DEF front, back
<1>5. /\ front \o back \in Seq(S)
      /\ Len(front \o back) = Len(front) + Len(back)
      /\ \A i \in 1 .. Len(front) + Len(back) :
           (front \o back)[i] = IF i <= Len(front) THEN front[i]
                                ELSE back[i - Len(front)]
  BY <1>2, <1>3, ConcatProperties
<1>6. ASSUME NEW i \in 1 .. Len(s) - 1
      PROVE  (front \o back)[i] = IF i < k THEN s[i] ELSE s[i + 1]
  <2>1. CASE i < k
    BY <2>1, <1>1, <1>2, <1>3, <1>5
  <2>2. CASE i >= k
    <3>1. i - Len(front) \in 1 .. Len(s) - k
      BY <2>2, <1>1, <1>2
    <3>2. (front \o back)[i] = back[i - Len(front)]
      BY <2>2, <1>1, <1>2, <1>3, <1>5
    <3>3. back[i - Len(front)] = s[k + (i - Len(front))]
      BY <3>1, <1>3
    <3>4. k + (i - Len(front)) = i + 1
      BY <1>1, <1>2
    <3>5. QED
      BY <2>2, <3>2, <3>3, <3>4, <1>1
  <2>3. i < k \/ i >= k
    BY <1>1
  <2>4. QED
    BY <2>1, <2>2, <2>3, Zenon
<1>7. QED
  BY <1>1, <1>2, <1>3, <1>4, <1>5, <1>6

NoDuplicates(s) == \A i, j \in 1 .. Len(s) : s[i] = s[j] => i = j

LEMMA UnlinkedRange ==
  ASSUME NEW S, NEW s \in Seq(S), NEW k \in 1 .. Len(s), NoDuplicates(s)
  PROVE  /\ Range(RemoveAt(s, k)) = Range(s) \ {s[k]}
         /\ NoDuplicates(RemoveAt(s, k))
<1> DEFINE t == RemoveAt(s, k)
<1>1. /\ Len(s) \in Nat
      /\ Range(s) = {s[i] : i \in 1 .. Len(s)}
  BY RangeOfList
<1>2. /\ t \in Seq(S)
      /\ Len(t) = Len(s) - 1
      /\ \A i \in 1 .. Len(s) - 1 : t[i] = IF i < k THEN s[i] ELSE s[i + 1]
  BY Unlinked
<1> HIDE DEF t
<1>3. Range(t) = {t[i] : i \in 1 .. Len(s) - 1}
  BY <1>2, RangeOfList
<1>4. ASSUME NEW x \in Range(t)
      PROVE  x \in Range(s) \ {s[k]}
  <2>1. PICK i \in 1 .. Len(s) - 1 : x = t[i]
    BY <1>3
  <2>2. PICK j \in 1 .. Len(s) : j # k /\ t[i] = s[j]
    BY <1>1, <1>2
  <2>3. s[j] # s[k]
    BY <2>2 DEF NoDuplicates
  <2>4. QED
    BY <1>1, <2>1, <2>2, <2>3
<1>5. ASSUME NEW x \in Range(s) \ {s[k]}
      PROVE  x \in Range(t)
  <2>1. PICK i \in 1 .. Len(s) : x = s[i]
    BY <1>1
  <2>2. i # k
    BY <2>1
  <2>3. CASE i < k
    <3>1. i \in 1 .. Len(s) - 1 /\ t[i] = s[i]
      BY <1>1, <1>2, <2>3
    <3>2. QED
      BY <1>3, <2>1, <3>1
  <2>4. CASE i > k
    <3>1. i - 1 \in 1 .. Len(s) - 1 /\ ~ (i - 1 < k) /\ (i - 1) + 1 = i
      BY <1>1, <2>4
    <3>2. t[i - 1] = s[i]
      BY <1>2, <3>1
    <3>3. QED
      BY <1>3, <2>1, <3>1, <3>2
  <2>5. QED
    BY <1>1, <2>2, <2>3, <2>4
<1>6. ASSUME NEW i \in 1 .. Len(t), NEW j \in 1 .. Len(t), t[i] = t[j]
      PROVE  i = j
  <2>1. i \in 1 .. Len(s) - 1 /\ j \in 1 .. Len(s) - 1
    BY <1>2
  <2>2. PICK m \in 1 .. Len(s) : t[i] = s[m] /\ m = (IF i < k THEN i ELSE i + 1)
    BY <1>1, <1>2, <2>1
  <2>3. PICK n \in 1 .. Len(s) : t[j] = s[n] /\ n = (IF j < k THEN j ELSE j + 1)
    BY <1>1, <1>2, <2>1
  <2>4. m = n
    BY <1>6, <2>2, <2>3 DEF NoDuplicates
  <2>5. QED
    BY <1>1, <2>1, <2>2, <2>3, <2>4
<1>7. QED
  BY <1>4, <1>5, <1>6 DEF NoDuplicates, t

LEMMA PrependedNoDuplicates ==
  ASSUME NEW S, NEW s \in Seq(S), NEW e \in S, e \notin Range(s),
         NoDuplicates(s)
  PROVE  NoDuplicates(<< e >> \o s)
<1> DEFINE t == << e >> \o s
<1>1. /\ Len(s) \in Nat
      /\ \A i \in 1 .. Len(s) : s[i] # e
  BY RangeOfList
<1>2. /\ Len(t) = Len(s) + 1
      /\ t[1] = e
      /\ \A i \in 2 .. Len(s) + 1 : t[i] = s[i - 1]
  BY Prepended
<1> HIDE DEF t
<1>3. \A i \in 2 .. Len(s) + 1 : i - 1 \in 1 .. Len(s)
  BY <1>1
<1>4. \A i, j \in 1 .. Len(t) : t[i] = t[j] => i = j
  BY <1>1, <1>2, <1>3 DEF NoDuplicates
<1>5. QED
  BY <1>4 DEF NoDuplicates, t

(***************************************************************************)
(* The inductive invariant.  BestIsListed and NoForeignSigchld are nearly  *)
(* inductive; what the elected router is worth and what the chain holds    *)
(* need to be known at the steps in between.                               *)
(***************************************************************************)

\* While the lines of gateways are read: what is true of the ones read.
ReadingInv ==
  /\ pc \in {"translate", "gateways", "elect"} => list # << >>
  /\ pc = "elect" => unread = {}
  /\ pc \in {"gateways", "elect"} =>
       /\ \E r \in Listed : tq[r] = maxTq
       /\ \A r \in Listed :
            /\ tq[r] <= maxTq
            /\ tq[r] <= GatewayTq(originator[r])
            /\ originator[r] \in unread \/ GatewayTq(originator[r]) <= maxTq
            /\ originator[r] \in unread => tq[r] = 0

\* From the election to the end of the update.
ElectedInv ==
  pc \in {"fork", "block", "wait", "kill", "done"} =>
    /\ best # NoRouter
    /\ \A r \in Listed :
         GatewayTq(originator[r]) <= GatewayTq(originator[best])
                                      + (IF pc = "done" THEN Threshold ELSE 0)

\* The child, its signal, and the daemon that waits for it.
SignalInv ==
  /\ blocked = IF pc \in {"wait", "kill"} THEN TRUE ELSE FALSE
  /\ pending # NoPid => pc \in {"wait", "kill"} /\ pending = pid
  /\ pc \in {"block", "wait", "kill"} /\ child # NoChild =>
       child.pid = pid /\ child.cmd = cmd /\ child.mac = best
  /\ pc \notin {"block", "wait", "kill"} /\ child # NoChild =>
       child.state \in {"running", "applied"}

\* The chain at every stage of a flush and an addition.
ChainInv ==
  /\ Len(chain) <= 1
  /\ child # NoChild /\ child.cmd = "-A" /\ child.state = "running" =>
       chain = << >>
  /\ child # NoChild /\ child.cmd = "-F" /\ child.state \in {"applied", "exited"} =>
       chain = << >>
  /\ child # NoChild /\ child.cmd = "-A" /\ child.state \in {"applied", "exited"} =>
       chain = << child.mac >>
  /\ pc = "fork" /\ cmd = "-A" => chain = << >> /\ child = NoChild
  /\ cmd = "-A" /\ ret = "ok" /\ pc \notin {"fork", "block", "wait", "kill"} =>
       child = NoChild /\ (best # NoRouter => chain = << best >>)

IInv ==
  TypeOK /\ BestIsListed /\ ReadingInv /\ ElectedInv /\ SignalInv /\ ChainInv

(***************************************************************************)
(* Types.                                                                  *)
(***************************************************************************)
LEMMA InitTypeOK == Init => TypeOK
<1> SUFFICES ASSUME Init PROVE TypeOK
  OBVIOUS
<1>1. list \in Seq(Router) /\ chain \in Seq(Router \union {AnySrc})
  <2>1. << >> \in Seq(Router)
    OBVIOUS
  <2>2. << AnySrc >> \in Seq(Router \union {AnySrc})
    OBVIOUS
  <2>3. QED
    BY <2>1, <2>2 DEF Init
<1>2. /\ left \in [Router -> -1 .. MaxLeft]
      /\ originator \in [Router -> Originator \union {Unspec}]
      /\ tq \in [Router -> Nat]
      /\ transtable \in Lines /\ gateways \in Quality
      /\ maxTq \in 0 .. MaxTQ /\ since \in 0 .. MinInterval
  BY NumbersAssumption
     DEF Init, FreshLeft, FreshOriginator, FreshTq, NoGateways, Lines, Quality
<1>3. /\ pc \in Where /\ cursor \in Nat \ {0} /\ cmd \in Command
      /\ best \in Router \union {NoRouter}
      /\ unread \subseteq Originator
  BY DEF Init, Where, Command
<1>4. /\ pid \in Pid \union {NoPid} /\ pending \in Pid \union {NoPid}
      /\ ret \in {"unset", "ok", "failed"}
      /\ blocked \in BOOLEAN
      /\ child \in Child \union {NoChild}
  BY DEF Init
<1>5. QED
  BY <1>1, <1>2, <1>3, <1>4 DEF TypeOK

\* A router whose RA passes the filter has a countdown in range.
LEMMA SecondsLeftType ==
  ASSUME NEW l \in Lifetime
  PROVE  SecondsLeft(l) \in 0 .. MaxLeft
<1>1. /\ l[1] \in 0 .. Radix - 1
      /\ l[2] \in 0 .. Radix - 1
  BY NumbersAssumption
<1>2. /\ Radix * l[1] \in Nat
      /\ Radix * l[2] \in Nat
  BY <1>1, NumbersAssumption
<1>3. HostOrder(l) \in Nat
  BY <1>1, <1>2, NumbersAssumption DEF HostOrder
<1>4. QED
  BY <1>3, NumbersAssumption DEF SecondsLeft

LEMMA StepTypeOK == IInv /\ [Next]_vars => TypeOK'
<1> SUFFICES ASSUME TypeOK, BestIsListed, ElectedInv, [Next]_vars
             PROVE  TypeOK'
  BY DEF IInv
<1> USE DEF TypeOK, heap, tables, signals
<1>1. CASE Tick
  BY <1>1, NumbersAssumption DEF Tick
<1>2. CASE HandleRA
  <2>1. PICK r \in Router, l \in Lifetime :
           RefreshRouter(r, l) \/ AddRouter(r, l)
    BY <1>2 DEF HandleRA
  <2>2. left' \in [Router -> -1 .. MaxLeft]
    <3>1. left' = [left EXCEPT ![r] = SecondsLeft(l)]
      BY <2>1 DEF RefreshRouter, AddRouter
    <3>2. SecondsLeft(l) \in -1 .. MaxLeft
      BY SecondsLeftType, NumbersAssumption
    <3>3. QED
      BY <3>1, <3>2
  <2>3. list' \in Seq(Router)
    <3>1. list' = list \/ list' = << r >> \o list
      BY <2>1 DEF RefreshRouter, AddRouter
    <3>2. << r >> \o list \in Seq(Router)
      BY Prepended
    <3>3. QED
      BY <3>1, <3>2
  <2>4. /\ originator' \in [Router -> Originator \union {Unspec}]
        /\ tq' \in [Router -> Nat]
    BY <2>1, GarbageAssumption DEF RefreshRouter, AddRouter
  <2>5. QED
    BY <1>2, <2>2, <2>3, <2>4 DEF HandleRA, Where
<1>3. CASE SelectReturns
  BY <1>3 DEF SelectReturns, Where
<1>4. CASE Check
  BY <1>4 DEF Check, Where
<1>5. CASE KeepRouter
  BY <1>5 DEF KeepRouter
<1>6. CASE ExpireRouter
  <2>1. cursor \in 1 .. Len(list) /\ Len(list) \in Nat
    BY <1>6, LenProperties DEF ExpireRouter
  <2>2. list' \in Seq(Router)
    BY <1>6, <2>1, Unlinked DEF ExpireRouter
  <2>3. cursor' \in Nat \ {0}
    BY <1>6, <2>1 DEF ExpireRouter
  <2>4. /\ left' \in [Router -> -1 .. MaxLeft]
        /\ originator' \in [Router -> Originator \union {Unspec}]
        /\ tq' \in [Router -> Nat]
        /\ best' \in Router \union {NoRouter}
    BY <1>6, NumbersAssumption DEF ExpireRouter, Forget, UnlinkBest
  <2>5. QED
    BY <1>6, <2>2, <2>3, <2>4 DEF ExpireRouter
<1>7. CASE ExpireDone
  BY <1>7 DEF ExpireDone, Where
<1>8. CASE Translate
  <2>1. originator' \in [Router -> Originator \union {Unspec}]
    BY <1>8 DEF Translate, Translated, Lines
  <2>2. tq' \in [Router -> Nat] /\ maxTq' \in 0 .. MaxTQ
    BY <1>8, NumbersAssumption DEF Translate
  <2>3. QED
    BY <1>8, <2>1, <2>2 DEF Translate, Where
<1>9. CASE ReadGateway
  <2>1. PICK o \in unread : /\ RaiseMax(o) \/ KeepMax(o)
                            /\ unread' = unread \ {o}
    BY <1>9 DEF ReadGateway
  <2>2. gateways[o] \in 0 .. MaxTQ /\ gateways[o] \in Nat
    BY <2>1, NumbersAssumption DEF Quality
  <2>3. tq' \in [Router -> Nat] /\ maxTq' \in 0 .. MaxTQ
    <3>1. CASE RaiseMax(o)
      BY <2>2, <3>1 DEF RaiseMax, Match
    <3>2. CASE KeepMax(o)
      BY <2>2, <3>2 DEF KeepMax
    <3>3. QED
      BY <2>1, <3>1, <3>2
  <2>4. QED
    BY <1>9, <2>1, <2>3 DEF ReadGateway
<1>10. CASE GatewaysRead
  BY <1>10 DEF GatewaysRead, Where
<1>11. CASE KeepBest
  BY <1>11 DEF KeepBest, Where
<1>12. CASE SwitchBest
  <2>1. best' \in Router
    BY <1>12, ElementOfSeq DEF SwitchBest, HasMaxTq
  <2>2. QED
    BY <1>12, <2>1 DEF SwitchBest, Where, Command
<1> DEFINE TablesOK == /\ transtable' \in Lines
                       /\ gateways' \in Quality
                       /\ unread' \subseteq Originator
<1>13. TablesClosed => TablesOK
  BY NumbersAssumption
     DEF TablesClosed, FreshOriginator, NoGateways, Lines, Quality
<1>14. CASE Fork
  <2>1. child' \in Child
    BY <1>14 DEF Fork, Child, ElectedInv
  <2>2. QED
    BY <1>13, <1>14, <2>1 DEF Fork, Where
<1>15. CASE ForkFails
  BY <1>13, <1>15 DEF ForkFails, Where
<1>16. CASE BlockSigchld
  BY <1>16 DEF BlockSigchld, Where
<1>17. CASE ChildReaped
  BY <1>17 DEF ChildReaped, Return, RestoreMask, Where, Command
<1>18. CASE TimedOut
  BY <1>18 DEF TimedOut, Where
<1>19. CASE KillChild
  BY <1>19 DEF KillChild, Return, RestoreMask, Where, Command
<1>20. CASE UpdateDone
  BY <1>13, <1>20, NumbersAssumption DEF UpdateDone, Where
<1>21. CASE ChildApplies
  <2>1. child' \in Child
    BY <1>21 DEF ChildApplies, Child
  <2>2. chain' \in Seq(Router \union {AnySrc})
    BY <1>21 DEF ChildApplies, Effect, Child
  <2>3. QED
    BY <1>21, <2>1, <2>2 DEF ChildApplies
<1>22. CASE ChildExits
  <2>1. child' \in Child \union {NoChild}
    BY <1>22 DEF ChildExits, Child, ExitState
  <2>2. pending' \in Pid \union {NoPid}
    BY <1>22 DEF ChildExits, Child
  <2>3. QED
    BY <1>22, <2>1, <2>2 DEF ChildExits
<1>23. CASE Crash
  <2>1. /\ left' \in [Router -> -1 .. MaxLeft]
        /\ originator' \in [Router -> Originator \union {Unspec}]
        /\ tq' \in [Router -> Nat]
        /\ transtable' \in Lines /\ gateways' \in Quality
        /\ maxTq' \in 0 .. MaxTQ
    BY <1>23, NumbersAssumption
       DEF Crash, FreshLeft, FreshOriginator, FreshTq, NoGateways, Lines, Quality
  <2>2. /\ child' \in Child \union {NoChild}
        /\ chain' \in Seq(Router \union {AnySrc})
    BY <1>23 DEF Crash
  <2>3. list' \in Seq(Router)
    <3>1. << >> \in Seq(Router)
      OBVIOUS
    <3>2. QED
      BY <1>23, <3>1 DEF Crash
  <2>4. /\ pc' \in Where /\ cursor' \in Nat \ {0} /\ cmd' \in Command
        /\ best' \in Router \union {NoRouter}
        /\ unread' \subseteq Originator
        /\ since' \in 0 .. MinInterval
    BY <1>23 DEF Crash, Where, Command
  <2>5. /\ pid' \in Pid \union {NoPid} /\ pending' \in Pid \union {NoPid}
        /\ ret' \in {"unset", "ok", "failed"}
        /\ blocked' \in BOOLEAN
    BY <1>23 DEF Crash, RestoreMask
  <2>6. QED
    BY <2>1, <2>2, <2>3, <2>4, <2>5
<1>24. CASE Start
  BY <1>24, NumbersAssumption DEF Start, Where
<1>25. CASE UNCHANGED vars
  BY <1>25 DEF vars
<1>26. QED
  BY <1>1, <1>2, <1>3, <1>4, <1>5, <1>6, <1>7, <1>8, <1>9, <1>10, <1>11,
     <1>12, <1>14, <1>15, <1>16, <1>17, <1>18, <1>19, <1>20, <1>21, <1>22,
     <1>23, <1>24, <1>25
     DEF Next, Update, Execute, Ebtables

(***************************************************************************)
(* The list and the pointer into it.                                       *)
(***************************************************************************)

\* All the steps but three leave the list alone.
ChangesList == HandleRA \/ ExpireRouter \/ Crash

LEMMA ListKept ==
  ASSUME [Next]_vars, ~ ChangesList
  PROVE  list' = list
<1> USE DEF heap
<1>1. CASE Tick \/ SelectReturns \/ Check \/ Start \/ UNCHANGED vars
  BY <1>1 DEF Tick, SelectReturns, Check, Start, vars
<1>2. CASE Update
  BY <1>2 DEF ChangesList, Update, KeepRouter, ExpireDone, Translate,
              ReadGateway, GatewaysRead, KeepBest, SwitchBest
<1>3. CASE Execute
  BY <1>3 DEF Execute, Fork, ForkFails, BlockSigchld, ChildReaped, TimedOut,
              KillChild, UpdateDone
<1>4. CASE Ebtables
  BY <1>4 DEF Ebtables, ChildApplies, ChildExits
<1>5. QED
  BY <1>1, <1>2, <1>3, <1>4 DEF Next, ChangesList

LEMMA BestKept ==
  ASSUME [Next]_vars, ~ (ExpireRouter \/ SwitchBest \/ Crash)
  PROVE  best' = best
<1> USE DEF heap
<1>1. CASE Tick \/ HandleRA \/ SelectReturns \/ Check \/ Start \/ UNCHANGED vars
  BY <1>1 DEF Tick, HandleRA, SelectReturns, Check, Start, vars
<1>2. CASE Update
  BY <1>2 DEF Update, KeepRouter, ExpireDone, Translate, ReadGateway,
              GatewaysRead, KeepBest
<1>3. CASE Execute
  BY <1>3 DEF Execute, Fork, ForkFails, BlockSigchld, ChildReaped, TimedOut,
              KillChild, UpdateDone
<1>4. CASE Ebtables
  BY <1>4 DEF Ebtables, ChildApplies, ChildExits
<1>5. QED
  BY <1>1, <1>2, <1>3, <1>4 DEF Next

LEMMA StepBestIsListed == IInv /\ [Next]_vars => BestIsListed'
<1> SUFFICES ASSUME TypeOK, BestIsListed, [Next]_vars
             PROVE  BestIsListed'
  BY DEF IInv
<1>1. list \in Seq(Router) /\ NoDuplicates(list)
  BY DEF TypeOK, BestIsListed, NoDuplicates
<1>2. BestIsListed' <=> /\ best' # NoRouter => best' \in Range(list')
                        /\ NoDuplicates(list')
  BY DEF BestIsListed, NoDuplicates, Listed
<1>3. CASE HandleRA
  <2>1. best' = best
    BY <1>3 DEF HandleRA
  <2>2. PICK r \in Router : \/ list' = list
                            \/ r \notin Listed /\ list' = << r >> \o list
    BY <1>3 DEF HandleRA, RefreshRouter, AddRouter
  <2>3. CASE list' = list
    BY <1>1, <1>2, <2>1, <2>3 DEF BestIsListed, Listed
  <2>4. CASE r \notin Listed /\ list' = << r >> \o list
    <3>1. Range(list') = Range(list) \union {r}
      BY <1>1, <2>4, Prepended
    <3>2. NoDuplicates(list')
      BY <1>1, <2>4, PrependedNoDuplicates DEF Listed
    <3>3. QED
      BY <1>2, <2>1, <3>1, <3>2 DEF BestIsListed, Listed
  <2>5. QED
    BY <2>2, <2>3, <2>4
<1>4. CASE ExpireRouter
  <2>1. cursor \in 1 .. Len(list)
    BY <1>4 DEF ExpireRouter, TypeOK
  <2>2. /\ Range(list') = Range(list) \ {list[cursor]}
        /\ NoDuplicates(list')
    BY <1>1, <1>4, <2>1, UnlinkedRange DEF ExpireRouter
  <2>3. best' = IF best = list[cursor] THEN NoRouter ELSE best
    BY <1>4 DEF ExpireRouter, UnlinkBest
  <2>4. QED
    BY <1>2, <2>2, <2>3 DEF BestIsListed, Listed
<1>5. CASE SwitchBest
  <2>1. list' = list
    BY <1>5 DEF SwitchBest
  <2>2. PICK i \in 1 .. Len(list) : best' = list[i]
    BY <1>5 DEF SwitchBest, HasMaxTq
  <2>3. best' \in Range(list)
    BY <1>1, <2>2, RangeOfList
  <2>4. QED
    BY <1>1, <1>2, <2>1, <2>3
<1>6. CASE Crash
  BY <1>2, <1>6 DEF Crash, NoDuplicates
<1>7. CASE ~ (HandleRA \/ ExpireRouter \/ SwitchBest \/ Crash)
  BY <1>1, <1>2, <1>7, ListKept, BestKept DEF ChangesList, BestIsListed, Listed
<1>8. QED
  BY <1>3, <1>4, <1>5, <1>6, <1>7

(***************************************************************************)
(* The child process, its signal and the chain.                            *)
(***************************************************************************)

\* The steps that touch none of child, chain, signals, pid, cmd and ret, and
\* do not get the daemon into or out of fork_execvp_timeout.
Bystander ==
  /\ UNCHANGED << child, chain, blocked, pending, pid, cmd, ret >>
  /\ \/ pc' = pc
     \/ {pc, pc'} \subseteq Where \ {"fork", "block", "wait", "kill"}
  /\ \/ best' = best
     \/ best' = NoRouter /\ pc \notin {"fork", "block", "wait", "kill"}

LEMMA Bystanders ==
  ASSUME TypeOK, [Next]_vars,
         ~ SwitchBest, ~ Execute, ~ Ebtables, ~ Crash
  PROVE  Bystander \/ UpdateDone
<1> USE DEF Bystander, signals, heap, TypeOK
<1>1. CASE Tick \/ HandleRA \/ SelectReturns \/ Check \/ Start
  BY <1>1 DEF Tick, HandleRA, SelectReturns, Check, Start, Where
<1>2. CASE KeepRouter \/ ExpireRouter \/ ExpireDone \/ Translate
  BY <1>2 DEF KeepRouter, ExpireRouter, UnlinkBest, ExpireDone, Translate, Where
<1>3. CASE ReadGateway \/ GatewaysRead \/ KeepBest
  BY <1>3 DEF ReadGateway, GatewaysRead, KeepBest, Where
<1>4. CASE UNCHANGED vars
  BY <1>4 DEF vars
<1>5. QED
  BY <1>1, <1>2, <1>3, <1>4 DEF Next, Update

LEMMA StepSignalInv == IInv /\ [Next]_vars => SignalInv'
<1> SUFFICES ASSUME TypeOK, SignalInv, [Next]_vars
             PROVE  SignalInv'
  BY DEF IInv
<1> USE DEF TypeOK, SignalInv, heap, signals
<1>1. CASE SwitchBest
  BY <1>1 DEF SwitchBest
<1>2. CASE Fork
  BY <1>2 DEF Fork
<1>3. CASE ForkFails
  BY <1>3 DEF ForkFails
<1>4. CASE BlockSigchld
  BY <1>4 DEF BlockSigchld
<1>5. CASE ChildReaped
  BY <1>5 DEF ChildReaped, RestoreMask, Return
<1>6. CASE TimedOut
  BY <1>6 DEF TimedOut
<1>7. CASE KillChild
  BY <1>7 DEF KillChild, RestoreMask, Return
<1>8. CASE UpdateDone
  BY <1>8 DEF UpdateDone
<1>9. CASE ChildApplies
  BY <1>9 DEF ChildApplies, Child
<1>10. CASE ChildExits
  BY <1>10 DEF ChildExits, Child
<1>11. CASE Crash
  BY <1>11, SortsAssumption DEF Crash, RestoreMask
<1>12. CASE Bystander
  <2>1. pc \in {"block", "wait", "kill"} \/ pc' \in {"block", "wait", "kill"}
          => pc' = pc /\ best' = best
    BY <1>12 DEF Bystander
  <2>2. pc \in {"wait", "kill"} \/ pc' \in {"wait", "kill"} => pc' = pc
    BY <2>1
  <2>3. UNCHANGED << child, blocked, pending, pid, cmd >>
    BY <1>12 DEF Bystander
  <2>4. QED
    BY <2>1, <2>2, <2>3
<1>13. QED
  BY <1>1, <1>2, <1>3, <1>4, <1>5, <1>6, <1>7, <1>8, <1>9, <1>10, <1>11,
     <1>12, Bystanders
     DEF Execute, Ebtables

LEMMA StepChainInv == IInv /\ [Next]_vars => ChainInv'
<1> SUFFICES ASSUME TypeOK, ElectedInv, SignalInv, ChainInv, [Next]_vars
             PROVE  ChainInv'
  BY DEF IInv
<1> USE DEF TypeOK, ChainInv, heap, signals
<1>1. CASE SwitchBest
  BY <1>1 DEF SwitchBest
<1>2. CASE Fork
  BY <1>2 DEF Fork
<1>3. CASE ForkFails
  BY <1>3 DEF ForkFails
<1>4. CASE BlockSigchld
  BY <1>4 DEF BlockSigchld
<1>5. CASE ChildReaped
  BY <1>5 DEF ChildReaped, RestoreMask, Return, SignalInv, Child
<1>6. CASE TimedOut
  BY <1>6 DEF TimedOut
<1>7. CASE KillChild
  BY <1>7 DEF KillChild, RestoreMask, Return
<1>8. CASE UpdateDone
  BY <1>8 DEF UpdateDone
<1>9. CASE ChildApplies
  <2>1. PICK c \in Child : c = child /\ c.state = "running"
    BY <1>9 DEF ChildApplies
  <2>2. /\ child' = [c EXCEPT !.state = "applied"]
        /\ chain' = IF c.cmd = "-F" THEN << >> ELSE Append(chain, c.mac)
        /\ UNCHANGED << pc, cmd, ret, best >>
    BY <1>9, <2>1 DEF ChildApplies, Effect
  <2>3. c.cmd = "-A" => chain' = << c.mac >>
    <3>1. Append(<< >>, c.mac) = << c.mac >>
      OBVIOUS
    <3>2. c.cmd = "-A" => chain = << >>
      BY <2>1, <1>9 DEF ChildApplies
    <3>3. QED
      BY <2>2, <3>1, <3>2
  <2>4. Len(chain') <= 1
    <3>1. chain' = << >> \/ chain' = << c.mac >>
      BY <2>1, <2>2, <2>3 DEF Child, Command
    <3>2. CASE chain' = << >>
      BY <3>2
    <3>3. CASE chain' = << c.mac >>
      BY <3>3
    <3>4. QED
      BY <3>1, <3>2, <3>3
  <2>5. /\ child' \in Child
        /\ child'.cmd = c.cmd /\ child'.mac = c.mac
        /\ child'.state = "applied"
    BY <2>1, <2>2 DEF Child
  <2>6. child # NoChild
    BY <1>9 DEF ChildApplies
  <2>7. QED
    BY <2>1, <2>2, <2>3, <2>4, <2>5, <2>6 DEF Child, Command
<1>10. CASE ChildExits
  BY <1>10 DEF ChildExits, Child, ExitState
<1>11. CASE Crash
  BY <1>11 DEF Crash
<1>12. CASE Bystander
  BY <1>12 DEF Bystander, Where
<1>13. QED
  BY <1>1, <1>2, <1>3, <1>4, <1>5, <1>6, <1>7, <1>8, <1>9, <1>10, <1>11,
     <1>12, Bystanders
     DEF Execute, Ebtables

(***************************************************************************)
(* The election.                                                           *)
(***************************************************************************)

\* The steps that leave alone all that ReadingInv and ElectedInv speak of.
Unrelated ==
  /\ UNCHANGED << list, originator, tq, maxTq, gateways, unread >>
  /\ \/ UNCHANGED << pc, best >>
     \/ {pc, pc'} \subseteq {"select", "check", "expire", "down"}

LEMMA Unrelateds ==
  ASSUME TypeOK, [Next]_vars, ~ Update, ~ Execute, ~ HandleRA, ~ Crash
  PROVE  Unrelated
<1> USE DEF Unrelated, heap, tables, Where, TypeOK
<1>1. CASE Tick
  BY <1>1 DEF Tick
<1>2. CASE SelectReturns \/ Check \/ Start
  BY <1>2 DEF SelectReturns, Check, Start
<1>3. CASE Ebtables
  BY <1>3 DEF Ebtables, ChildApplies, ChildExits
<1>4. CASE UNCHANGED vars
  BY <1>4 DEF vars
<1>5. QED
  BY <1>1, <1>2, <1>3, <1>4 DEF Next

LEMMA GatewayTqType ==
  ASSUME TypeOK, NEW o \in Originator \union {Unspec}
  PROVE  GatewayTq(o) \in Nat
  BY NumbersAssumption DEF TypeOK, Quality, GatewayTq

\* One line of gateways.
LEMMA ReadGatewayStep ==
  ASSUME TypeOK, ReadingInv, NEW o \in unread, pc = "gateways",
         RaiseMax(o) \/ KeepMax(o), unread' = unread \ {o},
         UNCHANGED << pc, list, originator, gateways >>
  PROVE  ReadingInv'
<1>1. /\ Listed' = Listed
      /\ Listed = {list[i] : i \in 1 .. Len(list)}
      /\ Listed \subseteq Router
  BY RangeOfList DEF Listed, TypeOK
<1>2. \A p : GatewayTq(p)' = GatewayTq(p)
  BY DEF GatewayTq
<1>3. /\ o \in Originator /\ o # Unspec
      /\ gateways[o] \in Nat /\ GatewayTq(o) = gateways[o]
      /\ maxTq \in Nat
  BY SortsAssumption, NumbersAssumption DEF TypeOK, Quality, GatewayTq
<1>4. \A r \in Listed :
        /\ tq[r] \in Nat
        /\ originator[r] \in Originator \union {Unspec}
        /\ GatewayTq(originator[r]) \in Nat
  BY <1>1, GatewayTqType DEF TypeOK
<1>5. /\ \E r \in Listed : tq[r] = maxTq
      /\ \A r \in Listed :
           /\ tq[r] <= maxTq
           /\ tq[r] <= GatewayTq(originator[r])
           /\ originator[r] \in unread \/ GatewayTq(originator[r]) <= maxTq
           /\ originator[r] \in unread => tq[r] = 0
  BY DEF ReadingInv
<1>6. /\ \E r \in Listed : tq'[r] = maxTq'
      /\ \A r \in Listed :
           /\ tq'[r] <= maxTq'
           /\ tq'[r] <= GatewayTq(originator[r])
           /\ \/ originator[r] \in unread \ {o}
              \/ GatewayTq(originator[r]) <= maxTq'
           /\ originator[r] \in unread \ {o} => tq'[r] = 0
  <2>1. CASE RaiseMax(o)
    <3>1. PICK i \in 1 .. Len(list) : /\ originator[list[i]] = o
                                      /\ tq' = [tq EXCEPT ![list[i]] = gateways[o]]
      BY <2>1 DEF RaiseMax, Match
    <3>2. maxTq' = gateways[o] /\ gateways[o] > maxTq
      BY <2>1 DEF RaiseMax
    <3>3. list[i] \in Listed
      BY <1>1
    <3>4. \A r \in Listed : tq'[r] = IF r = list[i] THEN gateways[o] ELSE tq[r]
      BY <1>1, <3>1 DEF TypeOK
    <3>5. QED
      BY <1>3, <1>4, <1>5, <3>1, <3>2, <3>3, <3>4
  <2>2. CASE KeepMax(o)
    <3>1. \A r \in Listed :
             tq'[r] = IF originator[r] = o THEN gateways[o] ELSE tq[r]
      BY <1>1, <2>2 DEF KeepMax
    <3>2. maxTq' = maxTq
      BY <2>2 DEF KeepMax
    <3>3. ASSUME NEW r \in Listed, originator[r] = o
          PROVE  gateways[o] <= maxTq
      <4>1. Match(o) # {}
        BY <1>1, <3>3 DEF Match
      <4>2. QED
        BY <2>2, <4>1 DEF KeepMax
    <3>4. PICK m \in Listed : tq[m] = maxTq
      BY <1>5
    <3>5. tq'[m] = maxTq'
      <4>1. CASE originator[m] = o
        BY <1>3, <1>5, <3>1, <3>2, <3>3, <3>4, <4>1
      <4>2. CASE originator[m] # o
        BY <3>1, <3>2, <3>4, <4>2
      <4>3. QED
        BY <4>1, <4>2
    <3>6. QED
      BY <1>3, <1>4, <1>5, <3>1, <3>2, <3>3, <3>5
  <2>3. QED
    BY <2>1, <2>2
<1>7. pc' = "gateways" /\ list' # << >>
  BY DEF ReadingInv
<1>8. QED
  BY <1>1, <1>2, <1>6, <1>7 DEF ReadingInv

LEMMA StepReadingInv == IInv /\ [Next]_vars => ReadingInv'
<1> SUFFICES ASSUME TypeOK, BestIsListed, ReadingInv, [Next]_vars
             PROVE  ReadingInv'
  BY DEF IInv
<1> USE DEF heap, tables
<1>1. CASE HandleRA \/ KeepRouter \/ ExpireRouter \/ Crash
  BY <1>1 DEF HandleRA, KeepRouter, ExpireRouter, Crash, ReadingInv
<1>2. CASE ExpireDone
  BY <1>2 DEF ExpireDone, ReadingInv
<1>3. CASE Translate
  <2>1. /\ list # << >> /\ list' = list
        /\ Listed' = Listed
        /\ Listed = {list[i] : i \in 1 .. Len(list)}
        /\ Listed \subseteq Router
    BY <1>3, RangeOfList DEF Translate, ReadingInv, Listed, TypeOK
  <2>2. PICK m \in Listed : TRUE
    <3>1. Len(list) \in Nat /\ (Len(list) = 0 => list = << >>)
      BY EmptySeq, LenProperties DEF TypeOK
    <3>2. 1 \in 1 .. Len(list)
      BY <2>1, <3>1
    <3>3. QED
      BY <2>1, <3>2
  <2>3. /\ pc' = "gateways"
        /\ maxTq' = 0
        /\ \A r \in Listed : tq'[r] = 0
        /\ unread' = {o \in Originator : gateways'[o] > 0}
        /\ gateways' \in Quality
        /\ \A r \in Listed : originator'[r] \in Originator \union {Unspec}
    BY <1>3, <2>1 DEF Translate, Translated, TypeOK, Lines
  <2>4. ASSUME NEW r \in Listed
        PROVE  /\ 0 <= GatewayTq(originator[r])'
               /\ originator'[r] \in unread' \/ GatewayTq(originator[r])' <= 0
    <3>1. CASE originator'[r] = Unspec
      BY <3>1 DEF GatewayTq
    <3>2. CASE originator'[r] # Unspec
      <4>1. originator'[r] \in Originator
        BY <2>3, <3>2
      <4>2. gateways'[originator'[r]] \in 0 .. MaxTQ
        BY <2>3, <4>1 DEF Quality
      <4>3. GatewayTq(originator[r])' = gateways'[originator'[r]]
        BY <3>2 DEF GatewayTq
      <4>4. QED
        BY <2>3, <4>1, <4>2, <4>3, NumbersAssumption
    <3>3. QED
      BY <3>1, <3>2
  <2>5. QED
    BY <2>1, <2>2, <2>3, <2>4 DEF ReadingInv
<1>4. CASE ReadGateway
  BY <1>4, ReadGatewayStep DEF ReadGateway
<1>5. CASE GatewaysRead
  <2>1. /\ pc = "gateways" /\ pc' = "elect" /\ unread = {}
        /\ UNCHANGED << list, originator, tq, maxTq, gateways, unread >>
    BY <1>5 DEF GatewaysRead
  <2>2. QED
    BY <2>1 DEF ReadingInv, Listed, GatewayTq
<1>6. CASE KeepBest \/ SwitchBest
  BY <1>6 DEF KeepBest, SwitchBest, ReadingInv
<1>7. CASE Execute
  BY <1>7 DEF Execute, Fork, ForkFails, BlockSigchld, ChildReaped, TimedOut,
              KillChild, UpdateDone, Return, ReadingInv
<1>8. CASE Unrelated
  BY <1>8 DEF Unrelated, ReadingInv, Listed, GatewayTq
<1>9. QED
  BY <1>1, <1>2, <1>3, <1>4, <1>5, <1>6, <1>7, <1>8, Unrelateds DEF Update

LEMMA StepElectedInv == IInv /\ [Next]_vars => ElectedInv'
<1> SUFFICES ASSUME TypeOK, BestIsListed, ReadingInv, ElectedInv, [Next]_vars
             PROVE  ElectedInv'
  BY DEF IInv
<1> USE DEF heap, tables
<1>1. /\ Listed \subseteq Router
      /\ Listed = {list[i] : i \in 1 .. Len(list)}
      /\ \A r \in Listed : GatewayTq(originator[r]) \in Nat
  <2>1. /\ Listed \subseteq Router
        /\ Listed = {list[i] : i \in 1 .. Len(list)}
    BY RangeOfList DEF TypeOK, Listed
  <2>2. \A r \in Listed : originator[r] \in Originator \union {Unspec}
    BY <2>1 DEF TypeOK
  <2>3. QED
    BY <2>1, <2>2, GatewayTqType
<1>2. CASE HandleRA \/ Crash
  BY <1>2 DEF HandleRA, Crash, ElectedInv
<1>3. CASE Update /\ ~ KeepBest /\ ~ SwitchBest
  BY <1>3 DEF Update, KeepRouter, ExpireRouter, ExpireDone, Translate,
              ReadGateway, GatewaysRead, ElectedInv
<1>4. ASSUME pc = "elect"
      PROVE  \A r, s \in Listed :
               /\ tq[r] \in Nat /\ tq[r] <= maxTq
               /\ GatewayTq(originator[r]) <= maxTq
               /\ tq[r] <= GatewayTq(originator[r])
  BY <1>1, <1>4 DEF ReadingInv, TypeOK
<1>5. CASE KeepBest
  <2>1. /\ best \in Listed
        /\ tq[best] >= maxTq - Threshold
    BY <1>5 DEF KeepBest, GoodEnough, BestIsListed
  <2>2. pc = "elect" /\ pc' = "done" /\ UNCHANGED << list, originator, gateways, best >>
    BY <1>5 DEF KeepBest
  <2>3. ASSUME NEW r \in Listed
        PROVE  GatewayTq(originator[r]) <= GatewayTq(originator[best]) + Threshold
    <3>1. /\ GatewayTq(originator[r]) <= maxTq
          /\ tq[best] <= GatewayTq(originator[best])
          /\ tq[best] \in Nat
      BY <1>4, <2>1, <2>2
    <3>2. /\ GatewayTq(originator[r]) \in Nat
          /\ GatewayTq(originator[best]) \in Nat
      BY <1>1, <2>1
    <3>3. maxTq \in Nat /\ Threshold \in Nat
      BY NumbersAssumption DEF TypeOK
    <3>4. QED
      BY <2>1, <3>1, <3>2, <3>3
  <2>4. best # NoRouter
    BY <1>5 DEF KeepBest, GoodEnough
  <2>5. QED
    BY <2>2, <2>3, <2>4 DEF ElectedInv, Listed, GatewayTq
<1>6. CASE SwitchBest
  <2>1. /\ best' \in Listed
        /\ tq[best'] = maxTq
    BY <1>1, <1>6 DEF SwitchBest, HasMaxTq
  <2>2. pc = "elect" /\ pc' = "fork" /\ UNCHANGED << list, originator, gateways >>
    BY <1>6 DEF SwitchBest
  <2>3. ASSUME NEW r \in Listed
        PROVE  GatewayTq(originator[r]) <= GatewayTq(originator[best']) + 0
    <3>1. /\ GatewayTq(originator[r]) <= maxTq
          /\ maxTq <= GatewayTq(originator[best'])
      BY <1>4, <2>1, <2>2
    <3>2. /\ GatewayTq(originator[r]) \in Nat
          /\ GatewayTq(originator[best']) \in Nat
          /\ maxTq \in Nat
      BY <1>1, <2>1, NumbersAssumption DEF TypeOK
    <3>3. QED
      BY <3>1, <3>2
  <2>4. best' # NoRouter
    BY <1>1, <2>1, SortsAssumption
  <2>5. QED
    BY <2>2, <2>3, <2>4 DEF ElectedInv, Listed, GatewayTq
<1>7. CASE Fork \/ ForkFails
  <2>1. /\ pc = "fork" /\ pc' = "block" /\ gateways' = NoGateways
        /\ UNCHANGED << list, originator, best >>
    BY <1>7 DEF Fork, ForkFails, TablesClosed
  <2>2. ASSUME NEW r \in Listed
        PROVE  GatewayTq(originator[r])' = 0
    BY <1>1, <2>1 DEF GatewayTq, NoGateways, TypeOK
  <2>3. best # NoRouter /\ Listed' = Listed
    BY <2>1 DEF ElectedInv, Listed
  <2>4. GatewayTq(originator[best])' = 0
    BY <2>1, <2>2, <2>3 DEF BestIsListed
  <2>5. QED
    BY <2>1, <2>2, <2>3, <2>4 DEF ElectedInv
<1>8. CASE BlockSigchld \/ TimedOut
  BY <1>8 DEF BlockSigchld, TimedOut, ElectedInv, Listed, GatewayTq
<1>9. CASE ChildReaped \/ KillChild
  <2>1. /\ pc \in {"wait", "kill"}
        /\ pc' \in {"fork", "done"}
        /\ UNCHANGED << list, originator, gateways, best >>
    BY <1>9 DEF ChildReaped, KillChild, Return
  <2>2. /\ best # NoRouter /\ best \in Listed
        /\ \A r \in Listed :
             GatewayTq(originator[r]) <= GatewayTq(originator[best]) + 0
    BY <2>1 DEF ElectedInv, BestIsListed
  <2>3. \A r \in Listed :
          /\ GatewayTq(originator[r]) <= GatewayTq(originator[best]) + 0
          /\ GatewayTq(originator[r]) <= GatewayTq(originator[best]) + Threshold
    BY <1>1, <2>2, NumbersAssumption
  <2>4. QED
    BY <2>1, <2>2, <2>3 DEF ElectedInv, Listed, GatewayTq
<1>10. CASE UpdateDone
  BY <1>10 DEF UpdateDone, ElectedInv
<1>11. CASE Unrelated
  BY <1>11 DEF Unrelated, ElectedInv, Listed, GatewayTq
<1>12. QED
  BY <1>2, <1>3, <1>5, <1>6, <1>7, <1>8, <1>9, <1>10, <1>11, Unrelateds
     DEF Update, Execute

(***************************************************************************)
(* The inductive invariant holds in every behaviour.                       *)
(***************************************************************************)
LEMMA InitIInv == Init => IInv
<1> SUFFICES ASSUME Init PROVE IInv
  OBVIOUS
<1>1. TypeOK
  BY InitTypeOK
<1>2. /\ pc = "select" /\ best = NoRouter /\ child = NoChild
      /\ pending = NoPid /\ blocked = FALSE /\ cmd = "-F" /\ list = << >>
  BY DEF Init
<1>3. BestIsListed
  <2>1. Len(list) = 0
    BY <1>2
  <2>2. QED
    BY <1>2, <2>1 DEF BestIsListed
<1>4. ReadingInv /\ ElectedInv
  BY <1>2 DEF ReadingInv, ElectedInv
<1>5. SignalInv
  BY <1>2 DEF SignalInv
<1>6. ChainInv
  <2>1. Len(chain) = 1
    BY DEF Init
  <2>2. QED
    BY <1>2, <2>1 DEF ChainInv
<1>7. QED
  BY <1>1, <1>3, <1>4, <1>5, <1>6 DEF IInv

\* What the invariant says at each stage is what the properties ask.
LEMMA IInvProperties ==
  IInv => /\ TypeOK
          /\ BestIsListed
          /\ MaxTqAttained
          /\ BestWithinThreshold
          /\ AtMostOneRule
          /\ SuccessOpensBest
          /\ NoForeignSigchld
<1> SUFFICES ASSUME IInv
             PROVE  /\ MaxTqAttained
                    /\ BestWithinThreshold
                    /\ AtMostOneRule
                    /\ SuccessOpensBest
                    /\ NoForeignSigchld
  BY DEF IInv
<1>1. MaxTqAttained
  <2>1. Listed = {list[i] : i \in 1 .. Len(list)}
    BY RangeOfList DEF IInv, TypeOK, Listed
  <2>2. ASSUME pc = "elect"
        PROVE  HasMaxTq # {} /\ \A r \in Listed : tq[r] <= maxTq
    <3>1. /\ \E r \in Listed : tq[r] = maxTq
          /\ \A r \in Listed : tq[r] <= maxTq
      BY <2>2 DEF IInv, ReadingInv
    <3>2. QED
      BY <2>1, <3>1 DEF HasMaxTq
  <2>3. QED
    BY <2>2 DEF MaxTqAttained
<1>2. BestWithinThreshold
  BY DEF IInv, ElectedInv, BestWithinThreshold
<1>3. AtMostOneRule /\ SuccessOpensBest
  BY DEF IInv, ChainInv, AtMostOneRule, SuccessOpensBest
<1>4. NoForeignSigchld
  BY DEF IInv, SignalInv, NoForeignSigchld
<1>5. QED
  BY <1>1, <1>2, <1>3, <1>4

(***************************************************************************)
(* Every step of the daemon, its children, the clock, the network and      *)
(* procd preserves the invariant the properties are read off from.         *)
(***************************************************************************)
THEOREM Invariance == Spec => []IInv
<1>1. Init => IInv
  BY InitIInv
<1>2. IInv /\ [Next]_vars => IInv'
  BY StepTypeOK, StepBestIsListed, StepReadingInv, StepElectedInv,
     StepSignalInv, StepChainInv
     DEF IInv
<1>3. QED
  BY <1>1, <1>2, PTL DEF Spec

(***************************************************************************)
(* Every variable of the daemon has its type in every behaviour; max_tq    *)
(* fits its field.                                                         *)
(***************************************************************************)
THEOREM TypeCorrect == Spec => []TypeOK
BY Invariance, IInvProperties, PTL

(***************************************************************************)
(* expire_routers never leaves best_router dangling, and handle_ra never   *)
(* lists a MAC address twice.                                              *)
(***************************************************************************)
THEOREM BestNeverDangles == Spec => []BestIsListed
BY Invariance, IInvProperties, PTL

(***************************************************************************)
(* update_ebtables never gets through its list without finding a router    *)
(* that has max_tq, whatever the gateways table holds and however many     *)
(* routers share an originator.                                            *)
(***************************************************************************)
THEOREM SearchSucceeds == Spec => []MaxTqAttained
BY Invariance, IInvProperties, PTL

(***************************************************************************)
(* The best router, kept or new, is within the threshold of every other    *)
(* one by the gateways table of the update, for any threshold.             *)
(***************************************************************************)
THEOREM ElectionIsWithinThreshold == Spec => []BestWithinThreshold
BY Invariance, IInvProperties, PTL

(***************************************************************************)
(* Whatever ebtables, fork, the timeout and procd do, the chain never has  *)
(* two rules.                                                              *)
(***************************************************************************)
THEOREM OneRule == Spec => []AtMostOneRule
BY Invariance, IInvProperties, PTL

(***************************************************************************)
(* An ebtables call that reports success has opened the chain for the      *)
(* best router and for nobody else.                                        *)
(***************************************************************************)
THEOREM SuccessIsReal == Spec => []SuccessOpensBest
BY Invariance, IInvProperties, PTL

(***************************************************************************)
(* fork_execvp_timeout never takes the SIGCHLD of an earlier child for     *)
(* that of its own.                                                        *)
(***************************************************************************)
THEOREM NoBugExit == Spec => []NoForeignSigchld
BY Invariance, IInvProperties, PTL

(***************************************************************************)
(* Hysteresis.  While no two routers share an originator, a router whose   *)
(* line was read has exactly the TQ of its gateway.                        *)
(***************************************************************************)
ExactTqs ==
  pc \in {"gateways", "elect"} /\ OneRouterPerOriginator =>
    \A r \in Listed :
      originator[r] \in unread \/ tq[r] = GatewayTq(originator[r])

LEMMA StepExactTqs == IInv /\ ExactTqs /\ [Next]_vars => ExactTqs'
<1> SUFFICES ASSUME TypeOK, ReadingInv, ExactTqs, [Next]_vars
             PROVE  ExactTqs'
  BY DEF IInv
<1> USE DEF heap, tables
<1>1. /\ Listed = {list[i] : i \in 1 .. Len(list)}
      /\ Listed \subseteq Router
  BY RangeOfList DEF Listed, TypeOK
<1>2. CASE HandleRA \/ KeepRouter \/ ExpireRouter \/ ExpireDone \/ Crash
  BY <1>2 DEF HandleRA, KeepRouter, ExpireRouter, ExpireDone, Crash, ExactTqs
<1>3. CASE Translate
  <2>1. /\ Listed' = Listed
        /\ \A r \in Listed : tq'[r] = 0
        /\ unread' = {o \in Originator : gateways'[o] > 0}
        /\ gateways' \in Quality
        /\ \A r \in Listed : originator'[r] \in Originator \union {Unspec}
    BY <1>1, <1>3 DEF Translate, Translated, TypeOK, Lines, Listed
  <2>2. ASSUME NEW r \in Listed
        PROVE  originator'[r] \in unread' \/ tq'[r] = GatewayTq(originator[r])'
    <3>1. CASE originator'[r] = Unspec
      BY <2>1, <3>1 DEF GatewayTq
    <3>2. CASE originator'[r] # Unspec
      <4>1. originator'[r] \in Originator
        BY <2>1, <3>2
      <4>2. gateways'[originator'[r]] \in 0 .. MaxTQ
        BY <2>1, <4>1 DEF Quality
      <4>3. GatewayTq(originator[r])' = gateways'[originator'[r]]
        BY <3>2 DEF GatewayTq
      <4>4. QED
        BY <2>1, <4>1, <4>2, <4>3, NumbersAssumption
    <3>3. QED
      BY <3>1, <3>2
  <2>3. QED
    BY <2>1, <2>2 DEF ExactTqs
<1>4. CASE ReadGateway
  <2>1. PICK o \in unread : /\ RaiseMax(o) \/ KeepMax(o)
                            /\ unread' = unread \ {o}
    BY <1>4 DEF ReadGateway
  <2>2. /\ pc = "gateways" /\ pc' = "gateways"
        /\ UNCHANGED << list, originator, gateways >>
    BY <1>4 DEF ReadGateway
  <2>3. /\ Listed' = Listed
        /\ OneRouterPerOriginator' <=> OneRouterPerOriginator
        /\ \A r : GatewayTq(originator[r])' = GatewayTq(originator[r])
    BY <2>2 DEF Listed, OneRouterPerOriginator, GatewayTq
  <2>4. GatewayTq(o) = gateways[o]
    BY <2>1, SortsAssumption DEF GatewayTq, TypeOK
  <2>5. ASSUME OneRouterPerOriginator, NEW r \in Listed
        PROVE  originator[r] \in unread \ {o} \/ tq'[r] = GatewayTq(originator[r])
    <3>1. originator[r] \in unread \/ tq[r] = GatewayTq(originator[r])
      BY <2>2, <2>5 DEF ExactTqs
    <3>2. CASE RaiseMax(o)
      <4>1. PICK i \in 1 .. Len(list) :
               /\ originator[list[i]] = o
               /\ tq' = [tq EXCEPT ![list[i]] = gateways[o]]
        BY <3>2 DEF RaiseMax, Match
      <4>2. originator[r] = o => r = list[i]
        BY <1>1, <2>5, <4>1 DEF OneRouterPerOriginator
      <4>3. r = list[i] => tq'[r] = gateways[o]
        BY <1>1, <4>1 DEF TypeOK
      <4>4. r # list[i] => tq'[r] = tq[r]
        BY <1>1, <4>1 DEF TypeOK
      <4>5. QED
        BY <2>4, <3>1, <4>1, <4>2, <4>3, <4>4
    <3>3. CASE KeepMax(o)
      <4>1. tq'[r] = IF originator[r] = o THEN gateways[o] ELSE tq[r]
        BY <1>1, <3>3 DEF KeepMax
      <4>2. QED
        BY <2>4, <3>1, <4>1
    <3>4. QED
      BY <2>1, <3>2, <3>3
  <2>6. QED
    BY <2>1, <2>2, <2>3, <2>5 DEF ExactTqs
<1>5. CASE GatewaysRead
  <2>1. /\ pc = "gateways"
        /\ UNCHANGED << list, originator, tq, gateways, unread >>
    BY <1>5 DEF GatewaysRead
  <2>2. QED
    BY <2>1 DEF ExactTqs, OneRouterPerOriginator, Listed, GatewayTq
<1>6. CASE KeepBest \/ SwitchBest
  BY <1>6 DEF KeepBest, SwitchBest, ExactTqs
<1>7. CASE Execute
  BY <1>7 DEF Execute, Fork, ForkFails, BlockSigchld, ChildReaped, TimedOut,
              KillChild, UpdateDone, Return, ExactTqs
<1>8. CASE Unrelated
  BY <1>8 DEF Unrelated, ExactTqs, OneRouterPerOriginator, Listed, GatewayTq
<1>9. QED
  BY <1>2, <1>3, <1>4, <1>5, <1>6, <1>7, <1>8, Unrelateds DEF Update

LEMMA SwitchIsForBetter ==
  ASSUME IInv, ExactTqs, SwitchBest, best # NoRouter, OneRouterPerOriginator
  PROVE  LeavesForBetter
<1>1. /\ Listed = {list[i] : i \in 1 .. Len(list)}
      /\ Listed \subseteq Router
  BY RangeOfList DEF Listed, TypeOK, IInv
<1>2. pc = "elect" /\ best \in Listed /\ unread = {}
  BY DEF SwitchBest, IInv, BestIsListed, ReadingInv
<1>3. best' \in Listed /\ tq[best'] = maxTq
  BY <1>1 DEF SwitchBest, HasMaxTq
<1>4. ~ (tq[best] >= maxTq - Threshold)
  BY DEF SwitchBest, GoodEnough
<1>5. /\ tq[best] = GatewayTq(originator[best])
      /\ tq[best'] = GatewayTq(originator[best'])
  BY <1>2, <1>3 DEF ExactTqs
<1>6. tq[best] \in Nat /\ maxTq \in Nat /\ Threshold \in Nat
  BY <1>1, <1>2, NumbersAssumption DEF IInv, TypeOK
<1>7. GatewayTq(originator[best']) > GatewayTq(originator[best]) + Threshold
  BY <1>3, <1>4, <1>5, <1>6
<1>8. QED
  BY <1>7 DEF LeavesForBetter

(***************************************************************************)
(* update_ebtables leaves a router that is still listed only for one whose *)
(* gateway is better by more than the threshold, if no two routers share   *)
(* an originator (then the second one keeps TQ 0 and may be left for the   *)
(* first).                                                                 *)
(***************************************************************************)
THEOREM Hysteresis == Spec => HysteresisHolds
<1> DEFINE A == Switches /\ OneRouterPerOriginator => LeavesForBetter
<1>1. Init => ExactTqs
  BY DEF Init, ExactTqs
<1>2. IInv /\ ExactTqs /\ [Next]_vars => [A]_vars
  <2> SUFFICES ASSUME IInv, ExactTqs, [Next]_vars, Switches,
                      OneRouterPerOriginator
               PROVE  LeavesForBetter
    OBVIOUS
  <2>1. SwitchBest
    <3>1. ~ (ExpireRouter \/ Crash)
      BY DEF Switches, ExpireRouter, UnlinkBest, Crash
    <3>2. QED
      BY <3>1, BestKept DEF Switches
  <2>2. QED
    BY <2>1, SwitchIsForBetter DEF Switches
<1> HIDE DEF A
<1>3. Spec => [][A]_vars
  BY <1>1, <1>2, StepExactTqs, Invariance, PTL DEF Spec
<1>4. QED
  BY <1>3 DEF HysteresisHolds, A

(***************************************************************************)
(* The refinement: the daemon and its children implement RaGate.           *)
(***************************************************************************)
LEMMA GateInit == Init => Gate!Init
<1> SUFFICES ASSUME Init PROVE Gate!Init
  OBVIOUS
<1>1. Listed = {}
  BY ShortRanges DEF Init, Listed
<1>2. Chosen = NoRouter
  BY DEF Init, Chosen
<1>3. Range(chain) = {AnySrc}
  BY ShortRanges DEF Init
<1>4. QED
  BY <1>1, <1>2, <1>3 DEF Gate!Init

\* A step that leaves the chain alone and changes the list or what was chosen.
LEMMA GateForget ==
  ASSUME Range(list') \subseteq Range(list), chain' = chain,
         Chosen' \in {Chosen, NoRouter}
  PROVE  [Gate!Next]_(Gate!vars)
BY DEF Gate!Next, Gate!Forget, Listed

\* A step that leaves all three variables of the gate alone.
LEMMA GateStutter ==
  ASSUME list' = list, chain' = chain, Chosen' = Chosen
  PROVE  [Gate!Next]_(Gate!vars)
BY GateForget

LEMMA GateStep == IInv /\ [Next]_vars => [Gate!Next]_(Gate!vars)
<1> SUFFICES ASSUME TypeOK, BestIsListed, ElectedInv, SignalInv, ChainInv,
                    [Next]_vars
             PROVE  [Gate!Next]_(Gate!vars)
  BY DEF IInv
<1> USE DEF heap, tables, signals
<1>1. list \in Seq(Router)
  BY DEF TypeOK
<1>2. CASE HandleRA
  <2>1. PICK r \in Router : \/ list' = list
                            \/ list' = << r >> \o list
    BY <1>2 DEF HandleRA, RefreshRouter, AddRouter
  <2>2. chain' = chain /\ Chosen' = Chosen
    BY <1>2 DEF HandleRA, Chosen
  <2>3. CASE list' = list
    BY <2>2, <2>3, GateStutter
  <2>4. CASE list' = << r >> \o list
    <3>1. Listed' = Listed \union {r}
      BY <1>1, <2>4, Prepended DEF Listed
    <3>2. QED
      BY <2>2, <3>1 DEF Gate!Next, Gate!Hear
  <2>5. QED
    BY <2>1, <2>3, <2>4
<1>3. CASE ExpireRouter
  <2>1. cursor \in 1 .. Len(list)
    BY <1>3 DEF ExpireRouter, TypeOK
  <2>2. Range(list') = Range(list) \ {list[cursor]}
    BY <1>1, <1>3, <2>1, UnlinkedRange
       DEF ExpireRouter, BestIsListed, NoDuplicates
  <2>3. chain' = chain /\ Chosen' = Chosen
    BY <1>3 DEF ExpireRouter, Chosen
  <2>4. QED
    BY <2>2, <2>3, GateForget
<1>4. CASE SwitchBest
  <2>1. list' = list /\ chain' = chain /\ child' = child /\ pc' = "fork"
    BY <1>4 DEF SwitchBest
  <2>2. best' \in Listed
    BY <1>1, <1>4, RangeOfList DEF SwitchBest, HasMaxTq, Listed
  <2>3. CASE child # NoChild
    BY <2>1, <2>3, GateStutter DEF Chosen
  <2>4. CASE child = NoChild
    <3>1. Chosen' \in Listed /\ Listed' = Listed
      BY <2>1, <2>2, <2>4 DEF Chosen, Listed
    <3>2. QED
      BY <2>1, <3>1 DEF Gate!Next, Gate!Choose
  <2>5. QED
    BY <2>3, <2>4
<1>5. CASE Fork
  BY <1>5, GateStutter DEF Fork, Chosen
<1>6. CASE ForkFails
  BY <1>6, GateStutter DEF ForkFails, Chosen
<1>7. CASE BlockSigchld \/ TimedOut
  BY <1>7, GateStutter DEF BlockSigchld, TimedOut, Chosen
<1>8. CASE ChildReaped \/ KillChild
  <2>1. /\ pc \in {"wait", "kill"} /\ pc' \in {"fork", "done"}
        /\ child' = NoChild
        /\ UNCHANGED << list, chain, best >>
    BY <1>8 DEF ChildReaped, KillChild, Return
  <2>2. Chosen = best
    BY <2>1 DEF Chosen, SignalInv
  <2>3. Chosen' \in {best, NoRouter}
    BY <2>1 DEF Chosen
  <2>4. QED
    BY <2>1, <2>2, <2>3, GateForget
<1>9. CASE UpdateDone
  BY <1>9, GateStutter DEF UpdateDone, Chosen
<1>10. CASE ChildApplies
  <2>1. PICK c \in Child : c = child /\ c.state = "running"
    BY <1>10 DEF ChildApplies, TypeOK
  <2>2. /\ child' = [c EXCEPT !.state = "applied"]
        /\ chain' = IF c.cmd = "-F" THEN << >> ELSE Append(chain, c.mac)
        /\ child # NoChild
        /\ UNCHANGED << pc, list, best >>
    BY <1>10, <2>1 DEF ChildApplies, Effect
  <2>3. child' # NoChild /\ child'.mac = c.mac
    <3>1. child' \in Child
      BY <2>1, <2>2 DEF Child
    <3>2. QED
      BY <2>1, <2>2, <3>1, SortsAssumption DEF Child
  <2>4. /\ Chosen = c.mac /\ Chosen' = Chosen
        /\ Listed' = Listed
        /\ Chosen \in Router /\ Chosen # NoRouter
    BY <2>1, <2>2, <2>3, SortsAssumption DEF Chosen, Listed, Child
  <2>5. Range(<< >>) = {} /\ Range(<< c.mac >>) = {c.mac}
    BY ShortRanges
  <2>6. CASE c.cmd = "-F"
    <3>1. Range(chain') = {}
      BY <2>2, <2>5, <2>6
    <3>2. QED
      BY <2>4, <3>1 DEF Gate!Next, Gate!Shut
  <2>7. CASE c.cmd = "-A"
    <3>1. chain = << >>
      BY <2>1, <2>2, <2>7 DEF ChainInv
    <3>2. chain' = << c.mac >>
      <4>1. Append(<< >>, c.mac) = << c.mac >>
        OBVIOUS
      <4>2. QED
        BY <2>2, <2>7, <3>1, <4>1
    <3>3. Range(chain) = {} /\ Range(chain') = {Chosen}
      BY <2>4, <2>5, <3>1, <3>2
    <3>4. QED
      BY <2>4, <3>3 DEF Gate!Next, Gate!Admit
  <2>8. QED
    BY <2>1, <2>6, <2>7 DEF Child, Command
<1>11. CASE ChildExits
  <2>1. UNCHANGED << pc, list, best, chain >> /\ child # NoChild
    BY <1>11 DEF ChildExits
  <2>2. CASE pc \in {"block", "wait", "kill"}
    <3>1. PICK c \in Child : c = child
      BY <2>1 DEF TypeOK
    <3>2. child' = [c EXCEPT !.state = ExitState(c.state)]
      BY <1>11, <2>2, <3>1 DEF ChildExits
    <3>3. child'.mac = c.mac
      BY <3>1, <3>2 DEF Child
    <3>4. Chosen = c.mac
      BY <2>1, <3>1 DEF Chosen
    <3>5. c.mac = best
      BY <2>1, <2>2, <3>1 DEF SignalInv
    <3>6. Chosen' = best
      BY <2>1, <2>2, <3>3, <3>5 DEF Chosen
    <3>7. QED
      BY <2>1, <3>4, <3>5, <3>6, GateStutter
  <2>3. CASE pc = "fork"
    <3>1. child' = NoChild
      BY <1>11, <2>3 DEF ChildExits
    <3>2. Chosen' = best
      BY <2>1, <2>3, <3>1 DEF Chosen
    <3>3. best \in Listed
      BY <2>3 DEF ElectedInv, BestIsListed
    <3>4. QED
      BY <2>1, <3>2, <3>3 DEF Gate!Next, Gate!Choose, Listed
  <2>4. CASE pc \notin {"fork", "block", "wait", "kill"}
    <3>1. child' = NoChild
      BY <1>11, <2>4 DEF ChildExits
    <3>2. Chosen' = NoRouter
      BY <2>1, <2>4, <3>1 DEF Chosen
    <3>3. QED
      BY <2>1, <3>2, GateForget
  <2>5. QED
    BY <2>2, <2>3, <2>4
<1>12. CASE Crash
  <2>1. Range(list') \subseteq Range(list)
    BY <1>12, ShortRanges DEF Crash
  <2>2. /\ chain' = chain /\ pc' = "down"
        /\ child' \in {child, NoChild}
    BY <1>12 DEF Crash
  <2>3. Chosen' \in {Chosen, NoRouter}
    BY <2>2 DEF Chosen
  <2>4. QED
    BY <2>1, <2>2, <2>3, GateForget
<1>13. CASE Tick \/ SelectReturns \/ Check \/ Start
  BY <1>13, GateStutter DEF Tick, SelectReturns, Check, Start, Chosen
<1>14. CASE KeepRouter \/ ExpireDone \/ Translate \/ ReadGateway
             \/ GatewaysRead \/ KeepBest
  BY <1>14, GateStutter
     DEF KeepRouter, ExpireDone, Translate, ReadGateway, GatewaysRead,
         KeepBest, Chosen
<1>15. CASE UNCHANGED vars
  BY <1>15, GateStutter DEF vars, Chosen
<1>16. QED
  BY <1>2, <1>3, <1>4, <1>5, <1>6, <1>7, <1>8, <1>9, <1>10, <1>11, <1>12,
     <1>13, <1>14, <1>15
     DEF Next, Update, Execute, Ebtables

(***************************************************************************)
(* The chain the daemon and its children leave behind, whatever fails,     *)
(* times out or dies, is a gate: from one router to another only through   *)
(* the shut state, and only to a router that was elected from the list.    *)
(***************************************************************************)
THEOREM DaemonImplementsGate == Spec => ImplementsGate
<1>1. Init => Gate!Init
  BY GateInit
<1>2. IInv /\ [Next]_vars => [Gate!Next]_(Gate!vars)
  BY GateStep
<1>3. QED
  BY <1>1, <1>2, Invariance, PTL DEF Spec, ImplementsGate, Gate!Spec
=============================================================================
