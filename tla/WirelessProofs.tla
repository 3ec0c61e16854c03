--------------------------- MODULE WirelessProofs ---------------------------
(***************************************************************************)
(* What the form saved survives, and the clients find it: the safety of    *)
(* Wireless for every set of radios, every sequence of hours and any       *)
(* number of reboots.                                                      *)
(***************************************************************************)
EXTENDS Wireless, TLAPS

\* What is staged outside the seconds of the fallback, and what is committed, has the
\* settings of the form; only nighttime peace makes disabled differ from them.
Faithful(c) ==
  /\ c \in [Radio -> Client]
  /\ \A r \in Radio :
       /\ c[r].cfgdisabled = wanted[r].cfgdisabled /\ c[r].nachtruhe = wanted[r].nachtruhe
       /\ c[r].nachtruhe = 0 => c[r].disabled = c[r].cfgdisabled
       /\ c[r].cfgdisabled = 1 => c[r].disabled = 1
StoreInv == Unspoiled => Faithful(flash) /\ (~InWindow => Faithful(uci))

\* What 321 has read outside those seconds is faithful too.
ReadInv == Unspoiled /\ read # Nothing => Faithful(read)

\* A run of nachtruhe.sh works towards the present hour, and has reached it for the
\* radios it is through with, unless it was overtaken.
Target == IF Night(Hours[clock]) THEN 1 ELSE 0
NightInv ==
  /\ night.pc = "idle" => night = NoNight
  /\ night.pc = "sleep" => ~kept /\ night.todo = {} /\ ~night.changes
  /\ night.pc # "idle" => night.target = Target
  /\ kept => ~InWindow /\ fallback # "updating"
  /\ kept /\ Unspoiled /\ overtaken # "now" =>
       \A r \in Radio \ night.todo :
         uci[r].nachtruhe = 1 => uci[r].disabled = Goal(uci[r], Target)

\* In standard mode what is on the air is what is staged, but for a reload to come and
\* for what 321 has staged over something else.
AirInv == fallback = "idle" /\ ~night.changes /\ overtaken = "no" => air = Air(uci)

IInv == TypeOK /\ StoreInv /\ ReadInv /\ NightInv /\ AirInv
-----------------------------------------------------------------------------
(***************************************************************************)
(* The operators.                                                          *)
(***************************************************************************)
\* What the form saves is a client section, and disabled says what cfgdisabled does.
LEMMA SavedType ==
  \A c \in Saved : c \in Client /\ c.disabled = c.cfgdisabled
BY DEF Saved, FromForm, Client

\* What the site gives is one too.
LEMMA FromSiteType ==
  \A r \in Radio : FromSite(r) \in Client /\ FromSite(r).disabled = FromSite(r).cfgdisabled
BY SiteAssumption DEF FromSite, Client

\* No configuration of client sections is the fallback's.
LEMMA ClientsAreStandard == \A c \in [Radio -> Client] : Standard(c) /\ c \in Configuration
BY FallbackAssumption DEF Standard, Configuration

\* The upgrade leaves client sections as they are: their three options are all they have.
LEMMA UpgradeKeeps == \A c \in [Radio -> Client] : Upgraded(c) = c
<1> TAKE c \in [Radio -> Client]
<1>1. \A r \in Radio : Preserved(c[r]) = c[r]
  BY DEF Preserved, Client
<1>2. Upgraded(c) = [r \in Radio |-> c[r]]
  BY <1>1, ClientsAreStandard DEF Upgraded
<1> QED BY <1>2

\* Whatever is upgraded, client sections come out.
LEMMA UpgradedType == \A c \in Configuration : Upgraded(c) \in [Radio -> Client]
<1> TAKE c \in Configuration
<1>1. CASE Standard(c)
  BY <1>1, UpgradeKeeps DEF Configuration, Standard
<1>2. CASE ~Standard(c)
  BY <1>2, FromSiteType DEF Upgraded
<1> QED BY <1>1, <1>2

\* What goes on the air is the fallback or a state per radio.
LEMMA AirType == \A c \in Configuration : Air(c) \in [Radio -> {0, 1}] \union {Fallback}
BY DEF Configuration, Air, Standard, Client

\* The fallback's configuration is one.
LEMMA FallbackType == Fallback \in Configuration
BY DEF Configuration

LEMMA HoursType == 1 \in DOMAIN Hours
BY HoursAssumption

LEMMA TargetType == ASSUME clock \in DOMAIN Hours PROVE Target \in {0, 1}
BY DEF Target

\* The state of a run at rest has its type.
LEMMA NoNightType ==
  NoNight \in [pc : {"idle", "sleep", "radios"}, target : {0, 1}, todo : SUBSET Radio, changes : BOOLEAN]
BY DEF NoNight
-----------------------------------------------------------------------------
(***************************************************************************)
(* Types.                                                                  *)
(***************************************************************************)
LEMMA InitTypeOK == Init => TypeOK
<1> SUFFICES ASSUME Init PROVE TypeOK
  OBVIOUS
<1>1. flash \in [Radio -> Client]
  BY SavedType, FromSiteType DEF Init
<1>2. flash \in Configuration /\ air \in [Radio -> {0, 1}] \union {Fallback}
  BY <1>1, ClientsAreStandard, AirType DEF Init
<1>3. wanted \in [Radio -> [cfgdisabled : {0, 1}, nachtruhe : {0, 1}]]
  BY <1>1 DEF Init, Settings, Client
<1>4. /\ since \in [flash : BOOLEAN, uci : BOOLEAN] /\ clock \in DOMAIN Hours
      /\ night \in [pc : {"idle", "sleep", "radios"}, target : {0, 1},
                    todo : SUBSET Radio, changes : BOOLEAN]
      /\ reboots \in 0 .. MaxReboots
      /\ read \in Configuration \union {Nothing}
      /\ overtaken \in {"no", "now", "before"}
  BY HoursType, NoNightType, MaxRebootsAssumption DEF Init
<1> QED
  BY <1>2, <1>3, <1>4 DEF Init, TypeOK

LEMMA StepTypeOK == TypeOK /\ [Next]_vars => TypeOK'
<1> SUFFICES ASSUME TypeOK, [Next]_vars PROVE TypeOK'
  OBVIOUS
<1> USE DEF TypeOK, store
<1>1. CASE FullHour
  <2>1. night' \in [pc : {"idle", "sleep", "radios"}, target : {0, 1},
                    todo : SUBSET Radio, changes : BOOLEAN]
    BY <1>1, NoNightType DEF FullHour
  <2>2. clock' \in DOMAIN Hours
    BY <1>1, HoursType DEF FullHour
  <2> QED
    BY <1>1, <2>1, <2>2 DEF FullHour
<1>2. CASE ListRadios
  BY <1>2 DEF ListRadios
<1>3. CASE \E r \in Radio : AdjustRadio(r)
  <2> PICK r \in Radio : AdjustRadio(r)
    BY <1>3
  <2>1. uci' \in Configuration
    BY DEF AdjustRadio, Configuration, Standard, Client
  <2>2. night' \in [pc : {"idle", "sleep", "radios"}, target : {0, 1},
                    todo : SUBSET Radio, changes : BOOLEAN]
    BY DEF AdjustRadio
  <2> QED
    BY <2>1, <2>2 DEF AdjustRadio
<1>4. CASE EndNight
  BY <1>4, NoNightType, AirType DEF EndNight, Reloaded
<1>5. CASE Connected \/ NoticeUnreachable \/ NoNetworks
  BY <1>5 DEF Connected, NoticeUnreachable, NoNetworks, Check
<1>6. CASE StartFallback
  BY <1>6, FallbackType DEF StartFallback, Check, Stage
<1>7. CASE Associate
  BY <1>7, AirType DEF Associate
<1>8. CASE Revert
  BY <1>8 DEF Revert, Reverted
<1>9. CASE NextNetwork
  <2>1. /\ uci' \in Configuration /\ kept' \in BOOLEAN
        /\ fallback' \in {"idle", "saved", "up", "updating", "leaving"}
    BY <1>9, FallbackType DEF NextNetwork, Stage
  <2> QED
    BY <1>9, <2>1 DEF NextNetwork
<1>10. CASE NoMoreNetworks
  BY <1>10 DEF NoMoreNetworks
<1>11. CASE RestartNetwork
  BY <1>11, AirType DEF RestartNetwork, Reloaded
<1>12. CASE Commit
  BY <1>12 DEF Commit
<1>13. CASE ReadSections \/ SaveSections
  <2>1. CASE ReadSections
    BY <2>1 DEF ReadSections
  <2>2. CASE SaveSections
    <3>1. uci' \in Configuration
      BY <2>2, UpgradedType, ClientsAreStandard DEF SaveSections
    <3> QED
      BY <2>2, <3>1 DEF SaveSections
  <2> QED BY <1>13, <2>1, <2>2
<1>14. ASSUME NEW c \in Configuration, Boot(c)
       PROVE  /\ uci' \in Configuration /\ air' \in [Radio -> {0, 1}] \union {Fallback}
              /\ since' \in [flash : BOOLEAN, uci : BOOLEAN] /\ clock' \in DOMAIN Hours
              /\ night' \in [pc : {"idle", "sleep", "radios"}, target : {0, 1},
                             todo : SUBSET Radio, changes : BOOLEAN]
              /\ fallback' \in {"idle", "saved", "up", "updating", "leaving"}
              /\ checked' \in BOOLEAN /\ kept' \in BOOLEAN /\ reboots' \in 0 .. MaxReboots
              /\ read' \in Configuration \union {Nothing} /\ overtaken' \in {"no", "now", "before"}
  <2>1. uci' \in Configuration /\ air' \in [Radio -> {0, 1}] \union {Fallback}
    BY <1>14, AirType DEF Boot
  <2>2. since' \in [flash : BOOLEAN, uci : BOOLEAN] /\ clock' \in DOMAIN Hours
    BY <1>14 DEF Boot
  <2>3. reboots' \in 0 .. MaxReboots
    BY <1>14, MaxRebootsAssumption DEF Boot
  <2> QED
    BY <1>14, <2>1, <2>2, <2>3, NoNightType DEF Boot
<1>15. CASE Reboot
  BY <1>14, <1>15 DEF Reboot
<1>16. CASE Configure
  <2>1. flash' \in [Radio -> Client]
    BY <1>16, SavedType DEF Configure
  <2>2. flash' \in Configuration
    BY <2>1, ClientsAreStandard
  <2>3. wanted' \in [Radio -> [cfgdisabled : {0, 1}, nachtruhe : {0, 1}]]
    BY <1>16, <2>1 DEF Configure, Settings, Client
  <2> QED
    BY <1>14, <1>16, <2>2, <2>3 DEF Configure
<1>17. CASE UNCHANGED vars
  BY <1>17 DEF vars
<1> QED
  BY <1>1, <1>2, <1>3, <1>4, <1>5, <1>6, <1>7, <1>8, <1>9, <1>10, <1>11, <1>12, <1>13,
     <1>15, <1>16, <1>17 DEF Next, NightSteps, FallbackSteps
-----------------------------------------------------------------------------
(***************************************************************************)
(* The settings.                                                           *)
(***************************************************************************)
\* What Adjust makes of a faithful configuration is one: it touches disabled only, of
\* radios with nighttime peace, and never switches on what is configured off.
LEMMA AdjustFaithful ==
  ASSUME TypeOK, NightInv, NEW r \in Radio, AdjustRadio(r), Faithful(uci)
  PROVE  Faithful(uci)'
<1>1. CASE uci' = uci
  BY <1>1 DEF Faithful, AdjustRadio
<1>2. CASE uci' # uci
  <2>1. /\ uci[r].nachtruhe = 1 /\ uci[r].disabled # Goal(uci[r], night.target)
        /\ uci' = [uci EXCEPT ![r].disabled = 1 - @] /\ wanted' = wanted
    BY <1>2 DEF AdjustRadio
  <2>2. uci[r] \in Client
    BY DEF Faithful
  <2>3. uci[r].disabled = 0 \/ uci[r].disabled = 1
    BY <2>2 DEF Client
  <2>4. uci' \in [Radio -> Client]
    BY <2>1, <2>2, <2>3 DEF Faithful, Client
  <2>5. uci[r].cfgdisabled = 1 => uci[r].disabled = 0
    BY <2>1, <2>3 DEF Goal
  <2>6. ASSUME NEW q \in Radio
        PROVE  /\ uci'[q].cfgdisabled = wanted[q].cfgdisabled /\ uci'[q].nachtruhe = wanted[q].nachtruhe
               /\ uci'[q].nachtruhe = 0 => uci'[q].disabled = uci'[q].cfgdisabled
               /\ uci'[q].cfgdisabled = 1 => uci'[q].disabled = 1
    <3>1. CASE q = r
      BY <2>1, <2>2, <2>3, <2>5, <3>1 DEF Faithful, Client
    <3>2. CASE q # r
      BY <2>1, <3>2 DEF Faithful
    <3> QED BY <3>1, <3>2
  <2> QED
    BY <2>1, <2>4, <2>6 DEF Faithful
<1> QED BY <1>1, <1>2

LEMMA InitStoreInv == Init => StoreInv
<1> SUFFICES ASSUME Init PROVE StoreInv
  OBVIOUS
<1>1. flash \in [Radio -> Client]
  BY SavedType, FromSiteType DEF Init
<1>2. \A r \in Radio : flash[r].disabled = flash[r].cfgdisabled
  BY SavedType, FromSiteType DEF Init
<1>3. Faithful(flash)
  BY <1>1, <1>2 DEF Init, Settings, Faithful
<1> QED
  BY <1>3 DEF Init, StoreInv, Faithful

LEMMA StepStoreInv == TypeOK /\ NightInv /\ StoreInv /\ ReadInv /\ [Next]_vars => StoreInv'
<1> SUFFICES ASSUME TypeOK, NightInv, StoreInv, ReadInv, [Next]_vars PROVE StoreInv'
  OBVIOUS
<1> USE DEF StoreInv, InWindow, store, Unspoiled
<1>1. ASSUME UNCHANGED <<flash, uci, spoiled, wanted>>, InWindow' <=> InWindow,
             Unspoiled' => Unspoiled
      PROVE  StoreInv'
  BY <1>1 DEF Faithful
<1>2. CASE FullHour \/ ListRadios \/ EndNight
  BY <1>1, <1>2 DEF FullHour, ListRadios, EndNight
<1>3. CASE \E r \in Radio : AdjustRadio(r)
  <2> PICK r \in Radio : AdjustRadio(r)
    BY <1>3
  <2>1. UNCHANGED <<flash, spoiled, wanted, fallback>>
    BY DEF AdjustRadio
  <2>2. ASSUME Unspoiled, ~InWindow PROVE Faithful(uci)'
    BY <2>2, AdjustFaithful
  <2> QED
    BY <2>1, <2>2 DEF Faithful
<1>4. CASE Connected \/ NoticeUnreachable \/ NoNetworks
  BY <1>1, <1>4 DEF Connected, NoticeUnreachable, NoNetworks, Check
<1>5. CASE StartFallback \/ NextNetwork
  BY <1>5 DEF StartFallback, NextNetwork, Check, Stage, Faithful
<1>6. CASE Associate \/ NoMoreNetworks \/ RestartNetwork
  BY <1>1, <1>6 DEF Associate, NoMoreNetworks, RestartNetwork
<1>7. CASE Revert
  BY <1>7 DEF Revert, Reverted, Faithful
<1>8. CASE Commit
  BY <1>8 DEF Commit, Faithful
<1>9. CASE ReadSections \/ SaveSections
  <2>1. CASE ReadSections
    BY <1>1, <2>1 DEF ReadSections
  <2>2. CASE SaveSections
    <3>1. UNCHANGED <<flash, spoiled, wanted, fallback>> /\ read # Nothing /\ uci' = Upgraded(read)
      BY <2>2 DEF SaveSections
    <3>2. Unspoiled' => Unspoiled
      BY <2>2 DEF SaveSections
    <3>3. ASSUME Unspoiled', ~InWindow PROVE Faithful(uci)'
      <4>1. Faithful(read)
        BY <3>1, <3>2, <3>3 DEF ReadInv
      <4>2. uci' = read
        BY <3>1, <4>1, UpgradeKeeps DEF Faithful
      <4> QED
        BY <3>1, <4>1, <4>2 DEF Faithful
    <3> QED
      BY <3>1, <3>2, <3>3 DEF Faithful
  <2> QED BY <1>9, <2>1, <2>2
<1>10. CASE Reboot
  BY <1>10 DEF Reboot, Boot, Faithful
<1>11. CASE Configure
  <2>1. flash' \in [Radio -> Client] /\ \A r \in Radio : flash'[r].disabled = flash'[r].cfgdisabled
    BY <1>11, SavedType DEF Configure
  <2>2. Faithful(flash)'
    BY <1>11, <2>1 DEF Configure, Settings, Faithful
  <2> QED
    BY <1>11, <2>2 DEF Configure, Boot, Faithful
<1>12. CASE UNCHANGED vars
  BY <1>1, <1>12 DEF vars
<1> QED
  BY <1>2, <1>3, <1>4, <1>5, <1>6, <1>7, <1>8, <1>9, <1>10, <1>11, <1>12
     DEF Next, NightSteps, FallbackSteps
\* What is read outside the seconds of the fallback stays faithful: the form is saved only
\* where 321 is not at work.
LEMMA StepReadInv == TypeOK /\ StoreInv /\ ReadInv /\ [Next]_vars => ReadInv'
<1> SUFFICES ASSUME TypeOK, StoreInv, ReadInv, [Next]_vars PROVE ReadInv'
  OBVIOUS
<1> USE DEF ReadInv, Unspoiled, store
<1>1. ASSUME UNCHANGED <<read, wanted>>, Unspoiled' => Unspoiled PROVE ReadInv'
  BY <1>1 DEF Faithful
<1>2. CASE FullHour \/ NightSteps
  BY <1>1, <1>2 DEF FullHour, NightSteps, ListRadios, AdjustRadio, EndNight
<1>3. CASE Connected \/ NoticeUnreachable \/ StartFallback \/ NoNetworks
  BY <1>1, <1>3 DEF Connected, NoticeUnreachable, StartFallback, NoNetworks, Check, Stage
<1>4. CASE FallbackSteps
  BY <1>1, <1>4 DEF FallbackSteps, Associate, Revert, NextNetwork, NoMoreNetworks, RestartNetwork, Stage
<1>5. CASE Commit
  BY <1>1, <1>5 DEF Commit
<1>6. CASE ReadSections
  BY <1>6 DEF ReadSections, InWindow, StoreInv, Faithful
<1>7. CASE SaveSections \/ Reboot \/ Configure
  BY <1>7 DEF SaveSections, Reboot, Configure, Boot
<1>8. CASE UNCHANGED vars
  BY <1>1, <1>8 DEF vars
<1> QED
  BY <1>2, <1>3, <1>4, <1>5, <1>6, <1>7, <1>8 DEF Next

-----------------------------------------------------------------------------
(***************************************************************************)
(* The night and what is on the air.                                       *)
(***************************************************************************)
\* A radio nachtruhe.sh is through with has reached its goal; one that is done and
\* nothing else has touched keeps it.
ReachedGoal(r) == uci[r].nachtruhe = 1 => uci[r].disabled = Goal(uci[r], Target)

LEMMA AdjustReaches ==
  ASSUME TypeOK, NightInv, NEW r \in Radio, AdjustRadio(r), Faithful(uci)
  PROVE  /\ ReachedGoal(r)'
         /\ \A q \in Radio \ {r} : ReachedGoal(q) => ReachedGoal(q)'
<1>1. clock' = clock /\ night.target = Target /\ Target' = Target
  BY DEF AdjustRadio, NightInv, Target
<1>2. uci \in [Radio -> Client] /\ Standard(uci)
  BY ClientsAreStandard DEF Faithful
<1>3. Target \in {0, 1}
  BY TargetType DEF TypeOK
<1>4. ReachedGoal(r)'
  <2>1. CASE uci[r].nachtruhe = 1 /\ uci[r].disabled # Goal(uci[r], night.target)
    <3>1. uci' = [uci EXCEPT ![r].disabled = 1 - @]
      BY <1>2, <2>1 DEF AdjustRadio
    <3>2. /\ uci[r].disabled \in {0, 1} /\ Goal(uci[r], Target) \in {0, 1}
          /\ uci'[r].disabled = 1 - uci[r].disabled /\ uci'[r].cfgdisabled = uci[r].cfgdisabled
      BY <1>2, <1>3, <3>1 DEF Client, Goal
    <3>3. uci'[r].disabled = Goal(uci[r], Target)
      BY <1>1, <2>1, <3>2
    <3> QED
      BY <1>1, <3>2, <3>3 DEF ReachedGoal, Goal
  <2>2. CASE ~(uci[r].nachtruhe = 1 /\ uci[r].disabled # Goal(uci[r], night.target))
    <3>1. uci' = uci
      BY <2>2 DEF AdjustRadio
    <3> QED
      BY <1>1, <2>2, <3>1 DEF ReachedGoal, Goal
  <2> QED BY <2>1, <2>2
<1>5. ASSUME NEW q \in Radio \ {r}, ReachedGoal(q) PROVE ReachedGoal(q)'
  <2>1. uci'[q] = uci[q]
    BY <1>2 DEF AdjustRadio
  <2> QED
    BY <1>1, <1>5, <2>1 DEF ReachedGoal, Goal
<1> QED BY <1>4, <1>5

LEMMA InitNightInv == Init => NightInv
BY DEF Init, NightInv, NoNight

LEMMA StepNightInv == TypeOK /\ StoreInv /\ NightInv /\ [Next]_vars => NightInv'
<1> SUFFICES ASSUME TypeOK, StoreInv, NightInv, [Next]_vars PROVE NightInv'
  OBVIOUS
<1> USE DEF NightInv, InWindow, store, Unspoiled
<1>1. ASSUME UNCHANGED <<uci, clock, night, overtaken>>, Unspoiled' => Unspoiled, kept' => kept,
             kept' => fallback' \notin {"saved", "up", "updating"}
      PROVE  NightInv'
  BY <1>1 DEF Target, Goal
<1>2. CASE FullHour
  BY <1>2 DEF FullHour, NoNight, Target
<1>3. CASE ListRadios
  <2>1. Unspoiled /\ fallback = "idle" => night'.todo = Radio
    BY <1>3, ClientsAreStandard DEF ListRadios, StoreInv, Faithful
  <2>2. /\ UNCHANGED <<uci, clock, fallback, spoiled>> /\ kept' = (fallback = "idle")
        /\ night.pc = "sleep" /\ night'.pc = "radios" /\ night'.target = night.target
    BY <1>3 DEF ListRadios, TypeOK
  <2> QED
    BY <2>1, <2>2 DEF Target
<1>4. CASE \E r \in Radio : AdjustRadio(r)
  <2> PICK r \in Radio : AdjustRadio(r)
    BY <1>4
  <2>1. /\ UNCHANGED <<clock, fallback, kept, spoiled, overtaken>>
        /\ night'.pc = "radios" /\ night'.target = night.target /\ night.pc = "radios"
        /\ night'.todo = night.todo \ {r}
    BY DEF AdjustRadio, TypeOK
  <2>2. ASSUME kept, Unspoiled, overtaken # "now", NEW q \in Radio \ night'.todo
        PROVE  ReachedGoal(q)'
    <3>1. Faithful(uci)
      BY <2>2 DEF StoreInv
    <3>2. q # r => ReachedGoal(q)
      BY <2>1, <2>2 DEF ReachedGoal
    <3> QED
      BY <2>2, <3>1, <3>2, AdjustReaches
  <2> QED
    BY <2>1, <2>2 DEF ReachedGoal, Target
<1>5. CASE EndNight
  BY <1>5 DEF EndNight, NoNight, Reloaded, Target, Goal
<1>6. CASE Connected \/ NoticeUnreachable \/ NoNetworks
  BY <1>1, <1>6 DEF Connected, NoticeUnreachable, NoNetworks, Check
<1>7. CASE StartFallback \/ NextNetwork
  BY <1>7 DEF StartFallback, NextNetwork, Check, Stage, Target
<1>8. CASE Associate \/ NoMoreNetworks
  BY <1>1, <1>8 DEF Associate, NoMoreNetworks
<1>14. CASE RestartNetwork
  BY <1>14 DEF RestartNetwork, Reloaded, Target, Goal
<1>9. CASE Revert
  BY <1>9 DEF Revert, Target
<1>10. CASE Commit
  BY <1>1, <1>10 DEF Commit
<1>11. CASE ReadSections \/ SaveSections
  <2>1. CASE ReadSections
    BY <1>1, <2>1 DEF ReadSections
  <2>2. CASE SaveSections
    <3>1. /\ UNCHANGED <<clock, night, kept, fallback, spoiled>>
          /\ overtaken' = "now" \/ (overtaken' = overtaken /\ uci' = uci)
          /\ Unspoiled' => Unspoiled
      BY <2>2 DEF SaveSections
    <3> QED
      BY <3>1 DEF Target, Goal
  <2> QED BY <1>11, <2>1, <2>2
<1>12. CASE Reboot \/ Configure
  BY <1>12 DEF Reboot, Configure, Boot, NoNight
<1>13. CASE UNCHANGED vars
  BY <1>1, <1>13 DEF vars
<1> QED
  BY <1>2, <1>3, <1>4, <1>5, <1>6, <1>7, <1>8, <1>9, <1>10, <1>11, <1>12, <1>13, <1>14
     DEF Next, NightSteps, FallbackSteps

LEMMA StepAirInv == TypeOK /\ NightInv /\ AirInv /\ [Next]_vars => AirInv'
<1> SUFFICES ASSUME TypeOK, NightInv, AirInv, [Next]_vars PROVE AirInv'
  OBVIOUS
<1> USE DEF AirInv, store
<1>1. ASSUME UNCHANGED <<uci, air>>, overtaken' = "no" => overtaken = "no", fallback' = "idle" => fallback = "idle",
             ~night'.changes => ~night.changes
      PROVE  AirInv'
  BY <1>1 DEF Air, Standard
<1>2. CASE FullHour \/ ListRadios
  BY <1>1, <1>2 DEF FullHour, ListRadios, NightInv, NoNight, TypeOK
<1>3. CASE \E r \in Radio : AdjustRadio(r)
  <2> PICK r \in Radio : AdjustRadio(r)
    BY <1>3
  <2>1. CASE uci' = uci
    BY <1>1, <2>1 DEF AdjustRadio, TypeOK
  <2>2. CASE uci' # uci
    BY <2>2 DEF AdjustRadio, TypeOK
  <2> QED BY <2>1, <2>2
<1>4. CASE EndNight
  BY <1>4 DEF EndNight, Reloaded, Air, Standard
<1>5. CASE Connected \/ NoticeUnreachable \/ NoNetworks
  BY <1>1, <1>5 DEF Connected, NoticeUnreachable, NoNetworks, Check
<1>6. CASE StartFallback \/ NextNetwork \/ Associate \/ Revert \/ NoMoreNetworks
  BY <1>6 DEF StartFallback, NextNetwork, Check, Stage, Associate, Revert, NoMoreNetworks
<1>7. CASE RestartNetwork
  BY <1>7 DEF RestartNetwork, Reloaded, Air, Standard
<1>8. CASE Commit
  BY <1>1, <1>8 DEF Commit
<1>9. CASE ReadSections \/ SaveSections
  BY <1>1, <1>9 DEF ReadSections, SaveSections, Air, Standard
<1>10. CASE Reboot \/ Configure
  BY <1>10 DEF Reboot, Configure, Boot, Air, Standard
<1>11. CASE UNCHANGED vars
  BY <1>1, <1>11 DEF vars
<1> QED
  BY <1>2, <1>3, <1>4, <1>5, <1>6, <1>7, <1>8, <1>9, <1>10, <1>11 DEF Next, NightSteps, FallbackSteps
-----------------------------------------------------------------------------
(***************************************************************************)
(* The theorems.                                                           *)
(***************************************************************************)
LEMMA InitIInv == Init => IInv
<1>1. Init => AirInv /\ ReadInv
  BY DEF Init, AirInv, ReadInv
<1> QED
  BY <1>1, InitTypeOK, InitStoreInv, InitNightInv DEF IInv

LEMMA StepIInv == IInv /\ [Next]_vars => IInv'
BY StepTypeOK, StepStoreInv, StepReadInv, StepNightInv, StepAirInv DEF IInv

\* The invariants of the store, of what 321 has read, of the night and of the air hold together.
THEOREM Invariance == Spec => []IInv
BY InitIInv, StepIInv, PTL DEF Spec

\* Every variable has its type, whatever writes to the configuration.
THEOREM TypeCorrect == Spec => []TypeOK
<1>1. IInv => TypeOK
  BY DEF IInv
<1> QED
  BY <1>1, Invariance, PTL

\* What was set in the form is what flash holds, unless a bare commit or the reading half of
\* an upgrade came in the seconds of the fallback: for any number of radios and reboots.
THEOREM SettingsAreKept == Spec => []SettingsSurvive
<1>1. IInv => SettingsSurvive
  <2> SUFFICES ASSUME IInv, Unspoiled PROVE Standard(flash) /\ Settings(flash) = wanted
    BY DEF SettingsSurvive
  <2>1. Faithful(flash) /\ wanted \in [Radio -> [cfgdisabled : {0, 1}, nachtruhe : {0, 1}]]
    BY DEF IInv, StoreInv, TypeOK
  <2>2. ASSUME NEW r \in Radio
        PROVE  [cfgdisabled |-> flash[r].cfgdisabled, nachtruhe |-> flash[r].nachtruhe] = wanted[r]
    BY <2>1 DEF Faithful
  <2>3. Settings(flash) = [r \in Radio |-> wanted[r]]
    BY <2>2 DEF Settings
  <2> QED
    BY <2>1, <2>3, ClientsAreStandard DEF Faithful
<1> QED
  BY <1>1, Invariance, PTL

\* Night is what the form's text says it is: the hours before 6 and from 22 on.
LEMMA NightIsNotDay ==
  ASSUME clock \in DOMAIN Hours PROVE Target = IF Daytime THEN 0 ELSE 1
<1>1. Hours[clock] \in 0 .. 23
  BY HoursAssumption
<1> QED
  BY <1>1 DEF Target, Night, Daytime

\* After the run of nachtruhe.sh the clients find what the form says, whoever else works on
\* the configuration, but for 321 saving what it had read before.
THEOREM ClientsAreServed == Spec => []ClientsFollowTheHour
<1>1. IInv => ClientsFollowTheHour
  <2> SUFFICES ASSUME IInv, AtRest, overtaken = "no", Unspoiled, NEW r \in Radio
               PROVE  OnAir(r) <=> wanted[r].cfgdisabled = 0 /\ (wanted[r].nachtruhe = 1 => Daytime)
    BY DEF ClientsFollowTheHour, AsTheFormSays
  <2> USE DEF AtRest
  <2>1. Faithful(uci)
    BY DEF IInv, StoreInv, InWindow
  <2>2. air = Air(uci) /\ night.todo = {}
    BY DEF IInv, AirInv, NightInv, NoNight
  <2>3. OnAir(r) <=> uci[r].disabled = 0
    <3>1. Standard(uci) /\ air = [q \in Radio |-> uci[q].disabled]
      BY <2>1, <2>2, ClientsAreStandard DEF Air, Faithful
    <3>2. air \in [Radio -> {0, 1}]
      BY <2>1, <3>1 DEF Faithful, Client
    <3>3. Standard(air)
      BY <3>2, FallbackAssumption DEF Standard
    <3> QED
      BY <3>1, <3>3 DEF OnAir
  <2>4. uci[r].nachtruhe = 1 => uci[r].disabled = Goal(uci[r], Target)
    BY <2>2 DEF IInv, NightInv
  <2>5. Target = IF Daytime THEN 0 ELSE 1
    BY NightIsNotDay DEF IInv, TypeOK
  <2>6. uci[r] \in Client /\ uci[r].cfgdisabled = wanted[r].cfgdisabled /\ uci[r].nachtruhe = wanted[r].nachtruhe
        /\ (uci[r].nachtruhe = 0 => uci[r].disabled = uci[r].cfgdisabled)
    BY <2>1 DEF Faithful
  <2> QED
    BY <2>3, <2>4, <2>5, <2>6 DEF Goal, Client
<1> QED
  BY <1>1, Invariance, PTL
=============================================================================
