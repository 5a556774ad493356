---------------------------- MODULE AutonomyProofs -----------------------------
(***************************************************************************)
(* What holds of the self-driven life of the pet for every day length,     *)
(* quiet window, cap, cost, cooldown, period and stretch that the          *)
(* assumptions of Autonomy allow, and any number of messages, deaths and   *)
(* failed checkpoints.                                                     *)
(***************************************************************************)
EXTENDS Autonomy, FiniteSetTheorems, TLAPS

-------------------------------------------------------------------------------
(* The inductive invariants *)

\* No stamp is later than the clock, and a tick with jobs left has begun.
ClockInv ==
  /\ interaction <= now /\ disk.interaction <= now
  /\ ledger.last <= now /\ disk.ledger.last <= now
  /\ \A job \in Jobs : lastRun[job] <= now
  /\ \A i \in DOMAIN admitted : admitted[i].at \in 1..now /\ admitted[i].life <= deaths
  /\ due # {} => ticked

\* What made a job due still holds when it is dispatched.
DueInv ==
  /\ "proactive" \in due => ~InQuiet(HourOf(now))
  /\ "dream" \in due => lastRun["dream"] <= interaction

\* The dreams of this life are no later than the scheduler's mark.
DreamInv ==
  /\ \A i \in DOMAIN admitted :
       admitted[i].job = "dream" /\ admitted[i].life = deaths => admitted[i].at <= lastRun["dream"]
  /\ OneDreamPerStretch

\* The latest turn is the one the ledger has stamped, in memory and in the file, unless
\* a crash took the stamp; what is only in memory is the latest.
LatestIsStamped ==
  admitted # <<>> =>
    /\ admitted[Len(admitted)].kept # "lost" => ledger.last = admitted[Len(admitted)].at
    /\ admitted[Len(admitted)].kept = "disk" => disk.ledger.last = admitted[Len(admitted)].at

RamIsLatest ==
  /\ \A i, j \in DOMAIN admitted :
       i < j /\ admitted[i].kept = "ram" => admitted[j].kept = "ram"
  /\ ~dirty => \A i \in DOMAIN admitted : admitted[i].kept # "ram"
  /\ \A i, j \in DOMAIN admitted : i < j => admitted[i].at <= admitted[j].at

PaceInv == DueInv /\ DreamInv /\ LatestIsStamped /\ RamIsLatest /\ TurnsAreSpaced /\ QuietNights

\* No ledger is of a day to come, nor beyond the cap.
Within(book) == book.used <= Cap /\ book.day <= DayOf(now)

\* A ledger covers what was spent on its day, and nothing was spent after it: the one in
\* memory for all that is kept, the one in the file for what would be left after a crash.
Covered(day) ==
  /\ day > ledger.day => KeptOn(day) = 0
  /\ day = ledger.day => KeptOn(day) <= ledger.used
  /\ day > disk.ledger.day => spent[day]["disk"] = 0
  /\ day = disk.ledger.day => spent[day]["disk"] <= disk.ledger.used

CapInv ==
  /\ Within(ledger) /\ Within(disk.ledger)
  /\ \A day \in Days : Covered(day)
  /\ CapHoldsForKeptTurns

\* Once a tick has taken its checkpoint job, the last attempt is less than a cooldown ago.
CheckpointInv ==
  ticked /\ "checkpoint" \notin due =>
    lastRun["checkpoint"] # 0 /\ now - lastRun["checkpoint"] < Cooldown

\* Every turn in memory has had a checkpoint attempted after it.
AllTried == \A i \in Unflushed : admitted[i].at < lastRun["checkpoint"]

ForgetInv ==
  /\ Cardinality(Unflushed) <= faults + 1
  /\ AllTried => Cardinality(Unflushed) <= faults
  /\ Cardinality(Lost) + Cardinality(Unflushed) <= deaths + faults + 1
  /\ AllTried => Cardinality(Lost) + Cardinality(Unflushed) <= deaths + faults

-------------------------------------------------------------------------------
(* The clock *)

LEMMA DayTyped ==
  ASSUME AutonomyAssumption, NEW t \in Nat
  PROVE  DayOf(t) \in Nat \ {0} /\ DayOf(t) <= DayOf(t + 1) /\ HourOf(t) \in 0..(DayLength - 1)
<1>1. DayLength \in Nat \ {0}
  BY DEF AutonomyAssumption
<1>2. t \div DayLength \in Nat /\ t \div DayLength <= (t + 1) \div DayLength
  BY <1>1
<1>3. t % DayLength \in 0..(DayLength - 1)
  BY <1>1
<1>4. QED
  BY <1>2, <1>3 DEF DayOf, HourOf

\* An hour counted off from the start of the quiet window lies in it.
LEMMA QuietHoursAreQuiet ==
  ASSUME AutonomyAssumption
  PROVE  \A h \in QuietHours : InQuiet(h)
<1>1. /\ DayLength \in Nat \ {0} /\ QuietStart # QuietEnd
      /\ QuietStart \in Nat /\ QuietStart < DayLength /\ QuietEnd \in Nat /\ QuietEnd < DayLength
  BY DEF AutonomyAssumption
<1>2. ASSUME NEW x \in Nat, x < 2 * DayLength
      PROVE  x % DayLength = IF x < DayLength THEN x ELSE x - DayLength
  BY <1>1, <1>2
<1>3. ASSUME NEW n \in 0..((QuietEnd + DayLength - QuietStart - 1) % DayLength)
      PROVE  InQuiet((QuietStart + n) % DayLength)
  <2>1. PICK last : last = (QuietEnd + DayLength - QuietStart - 1) % DayLength
    OBVIOUS
  <2>2. last = IF QuietStart < QuietEnd THEN QuietEnd - QuietStart - 1
               ELSE QuietEnd + DayLength - QuietStart - 1
    <3>1. /\ QuietEnd + DayLength - QuietStart - 1 \in Nat
          /\ QuietEnd + DayLength - QuietStart - 1 < 2 * DayLength
      BY <1>1
    <3>2. QED
      BY <1>1, <1>2, <2>1, <3>1
  <2>3. n \in Nat /\ n <= last
    BY <1>1, <2>1, <2>2
  <2>4. QuietStart + n \in Nat /\ QuietStart + n < 2 * DayLength
    BY <1>1, <2>2, <2>3
  <2>5. PICK h : h = (QuietStart + n) % DayLength
    OBVIOUS
  <2>6. h = IF QuietStart + n < DayLength THEN QuietStart + n ELSE QuietStart + n - DayLength
    BY <1>2, <2>4, <2>5
  <2>7. InQuiet(h)
    BY <1>1, <2>2, <2>3, <2>6 DEF InQuiet
  <2>8. QED
    BY <2>5, <2>7
<1>4. QED
  BY <1>3 DEF QuietHours

-------------------------------------------------------------------------------
(* Types *)

LEMMA HistoryTyped ==
  ASSUME TypeOK
  PROVE  /\ Len(admitted) \in Nat /\ DOMAIN admitted = 1..Len(admitted)
         /\ \A i \in DOMAIN admitted :
              /\ admitted[i] \in Admission
              /\ admitted[i].job \in TurnJobs /\ admitted[i].at \in Nat
              /\ admitted[i].since \in Nat /\ admitted[i].kept \in Places
              /\ admitted[i].life \in Nat
         /\ \A day \in Days, place \in Places : spent[day][place] \in Nat
         /\ \A day \in Days : KeptOn(day) \in Nat
<1>1. Len(admitted) \in Nat /\ DOMAIN admitted = 1..Len(admitted)
  BY DEF TypeOK
<1>2. \A i \in DOMAIN admitted : admitted[i] \in Admission
  BY DEF TypeOK
<1>3. \A a \in Admission : /\ a.job \in TurnJobs /\ a.at \in Nat /\ a.since \in Nat
                          /\ a.kept \in Places /\ a.life \in Nat
  BY DEF Admission, Instants
<1>4. \A day \in Days, place \in Places : spent[day][place] \in Nat
  BY DEF TypeOK
<1>5. \A day \in Days : KeptOn(day) \in Nat
  BY <1>4 DEF KeptOn, Places
<1>6. QED
  BY <1>1, <1>2, <1>3, <1>4, <1>5

LEMMA ClockTyped ==
  ASSUME AutonomyAssumption, TypeOK
  PROVE  /\ now \in Nat \ {0} /\ now \in Instants /\ DayOf(now) \in Days
         /\ DayOf(now) \in Nat /\ Days \subseteq Nat
         /\ ledger.day \in Nat /\ ledger.used \in Nat /\ ledger.last \in Nat
         /\ disk.ledger \in Ledger /\ disk.interaction \in Instants
         /\ disk.ledger.day \in Nat /\ disk.ledger.used \in Nat /\ disk.ledger.last \in Nat
         /\ interaction \in Nat /\ disk.interaction \in Nat
         /\ \A job \in Jobs : lastRun[job] \in Nat
         /\ deaths \in Nat /\ faults \in Nat /\ owner \in Nat
         /\ Cap \in Nat /\ Cooldown \in Nat \ {0}
         /\ \A job \in TurnJobs : Cost[job] \in Nat \ {0} /\ job \in Jobs
<1>1. MaxTime \in Nat
  BY DEF AutonomyAssumption
<1>2. now \in Nat \ {0} /\ now \in Instants
  BY <1>1 DEF TypeOK, Instants
<1>3. DayOf(now) \in Days
  BY DEF TypeOK, Days
<1>4. Days \subseteq Nat
  <2>1. \A t \in 1..MaxTime : DayOf(t) \in Nat
    BY <1>1, DayTyped
  <2>2. QED
    BY <2>1 DEF Days
<1>5. \A book \in Ledger : book.day \in Nat /\ book.used \in Nat /\ book.last \in Nat
  BY <1>1 DEF Ledger, Instants
<1>6. disk.ledger \in Ledger /\ disk.interaction \in Instants
  BY DEF TypeOK, File
<1>7. \A t \in Instants : t \in Nat
  BY <1>1 DEF Instants
<1>8. \A job \in Jobs : lastRun[job] \in Nat
  BY <1>7 DEF TypeOK
<1>9. deaths \in Nat /\ faults \in Nat /\ owner \in Nat
  BY DEF TypeOK, AutonomyAssumption
<1>10. /\ Cap \in Nat /\ Cooldown \in Nat \ {0}
       /\ \A job \in TurnJobs : Cost[job] \in Nat \ {0} /\ job \in Jobs
  BY DEF AutonomyAssumption, Jobs
<1>11. QED
  BY <1>2, <1>3, <1>4, <1>5, <1>6, <1>7, <1>8, <1>9, <1>10 DEF TypeOK

\* Moving the entries of the memory changes where they are, and nothing else of a turn.
LEMMA MovesFacts ==
  ASSUME TypeOK, NEW place \in {"disk", "lost"}, Moves(place)
  PROVE  /\ admitted' \in Seq(Admission) /\ Len(admitted') = Len(admitted)
         /\ DOMAIN admitted' = DOMAIN admitted
         /\ \A i \in DOMAIN admitted :
              /\ admitted'[i].job = admitted[i].job /\ admitted'[i].at = admitted[i].at
              /\ admitted'[i].since = admitted[i].since /\ admitted'[i].life = admitted[i].life
              /\ admitted'[i].kept = IF admitted[i].kept = "ram" THEN place ELSE admitted[i].kept
         /\ spent' \in [Days -> [Places -> Nat]]
         /\ \A day \in Days :
              /\ spent'[day]["ram"] = 0
              /\ spent'[day][place] = spent[day][place] + spent[day]["ram"]
              /\ \A other \in Places \ {"ram", place} : spent'[day][other] = spent[day][other]
<1>1. PICK a : a = [i \in DOMAIN admitted |->
                     IF admitted[i].kept = "ram" THEN [admitted[i] EXCEPT !.kept = place] ELSE admitted[i]]
  OBVIOUS
<1>2. admitted' = a
  BY <1>1 DEF Moves
<1>3. ASSUME NEW i \in DOMAIN admitted
      PROVE  /\ a[i] \in Admission /\ a[i].job = admitted[i].job /\ a[i].at = admitted[i].at
             /\ a[i].since = admitted[i].since /\ a[i].life = admitted[i].life
             /\ a[i].kept = IF admitted[i].kept = "ram" THEN place ELSE admitted[i].kept
  <2>1. admitted[i] \in Admission
    BY HistoryTyped
  <2>2. a[i] = IF admitted[i].kept = "ram" THEN [admitted[i] EXCEPT !.kept = place] ELSE admitted[i]
    BY <1>1
  <2>3. QED
    BY <2>1, <2>2 DEF Admission, Places
<1>4. a \in Seq(Admission) /\ Len(a) = Len(admitted) /\ DOMAIN a = DOMAIN admitted
  BY <1>1, <1>3, HistoryTyped
<1>5. PICK s : s = [day \in Days |->
                     [spent[day] EXCEPT !["ram"] = 0, ![place] = @ + spent[day]["ram"]]]
  OBVIOUS
<1>6. spent' = s
  BY <1>5 DEF Moves
<1>7. ASSUME NEW day \in Days
      PROVE  /\ s[day] \in [Places -> Nat] /\ s[day]["ram"] = 0
             /\ s[day][place] = spent[day][place] + spent[day]["ram"]
             /\ \A other \in Places \ {"ram", place} : s[day][other] = spent[day][other]
  <2>1. spent[day] \in [Places -> Nat] /\ place \in Places /\ "ram" \in Places /\ place # "ram"
    BY DEF TypeOK, Places
  <2>2. s[day] = [spent[day] EXCEPT !["ram"] = 0, ![place] = @ + spent[day]["ram"]]
    BY <1>5
  <2>3. QED
    BY <2>1, <2>2
<1>8. s \in [Days -> [Places -> Nat]]
  BY <1>5, <1>7
<1>9. QED
  BY <1>2, <1>3, <1>4, <1>6, <1>7, <1>8

LEMMA InitTypeOK ==
  ASSUME AutonomyAssumption, Init
  PROVE  TypeOK
<1>1. now \in 1..MaxTime /\ 0 \in Instants /\ now \in Instants
  BY DEF Init, AutonomyAssumption, Instants
<1>2. ledger \in Ledger /\ disk \in File /\ interaction \in Instants
  BY <1>1 DEF Init, Ledger, File
<1>3. lastRun \in [Jobs -> Instants] /\ admitted \in Seq(Admission)
  BY <1>1 DEF Init
<1>4. spent \in [Days -> [Places -> Nat]]
  BY DEF Init
<1>5. owner \in 0..MaxOwner /\ deaths \in 0..MaxDeaths /\ faults \in 0..MaxFaults
  BY DEF Init, AutonomyAssumption
<1>6. due \in SUBSET Jobs /\ level \in Levels
  BY DEF Init, Levels
<1>7. QED
  BY <1>1, <1>2, <1>3, <1>4, <1>5, <1>6 DEF Init, TypeOK

\* What taking a job does to the scheduler.
LEMMA TakeTyped ==
  ASSUME AutonomyAssumption, TypeOK, NEW job \in Jobs, TakeDue(job)
  PROVE  /\ job \in due /\ due' = due \ {job} /\ due' \in SUBSET Jobs
         /\ lastRun' \in [Jobs -> Instants]
         /\ \A j \in Jobs : lastRun'[j] = IF j = job THEN now ELSE lastRun[j]
         /\ UNCHANGED <<now, ticked, level, owner, deaths>>
<1>1. now \in Instants
  BY ClockTyped
<1>2. QED
  BY <1>1 DEF TakeDue, TypeOK

\* What a checkpoint does.
LEMMA FlushTyped ==
  ASSUME AutonomyAssumption, TypeOK, Flush \/ FlushFails
  PROVE  /\ disk' \in File /\ dirty' \in BOOLEAN /\ faults' \in 0..MaxFaults
         /\ admitted' \in Seq(Admission) /\ spent' \in [Days -> [Places -> Nat]]
<1>1. CASE Flush /\ dirty
  <2>1. disk' = [ledger |-> ledger, interaction |-> interaction] /\ dirty' = FALSE /\ faults' = faults
    BY <1>1 DEF Flush
  <2>2. Moves("disk")
    BY <1>1 DEF Flush
  <2>3. disk' \in File
    BY <2>1 DEF TypeOK, File
  <2>4. QED
    BY <2>1, <2>2, <2>3, MovesFacts DEF TypeOK
<1>2. CASE (Flush /\ ~dirty) \/ FlushFails
  <2>1. UNCHANGED <<disk, dirty, history>>
    BY <1>2 DEF Flush, FlushFails
  <2>2. faults' \in 0..MaxFaults
    BY <1>2 DEF Flush, FlushFails, TypeOK, AutonomyAssumption
  <2>3. QED
    BY <2>1, <2>2 DEF TypeOK, history
<1>3. QED
  BY <1>1, <1>2

\* What an admission does.
LEMMA AdmitFacts ==
  ASSUME AutonomyAssumption, TypeOK, NEW job \in TurnJobs, Admit(job)
  PROVE  /\ ledger'.day = DayOf(now) /\ ledger'.last = now
         /\ ledger'.used = UsedToday(DayOf(now)) + Cost[job]
         /\ ledger' \in Ledger /\ UsedToday(DayOf(now)) \in Nat
         /\ busy' = TRUE /\ dirty' = TRUE /\ UNCHANGED <<interaction, disk, faults>>
         /\ admitted' \in Seq(Admission) /\ Len(admitted') = Len(admitted) + 1
         /\ DOMAIN admitted' = 1..(Len(admitted) + 1)
         /\ \A i \in 1..Len(admitted) : admitted'[i] = admitted[i]
         /\ admitted'[Len(admitted) + 1].job = job
         /\ admitted'[Len(admitted) + 1].at = now
         /\ admitted'[Len(admitted) + 1].since = interaction
         /\ admitted'[Len(admitted) + 1].kept = "ram"
         /\ admitted'[Len(admitted) + 1].life = deaths
         /\ spent' \in [Days -> [Places -> Nat]]
<1>1. PICK a : a = [job |-> job, at |-> now, since |-> interaction, kept |-> "ram", life |-> deaths]
  OBVIOUS
<1>2. now \in Instants /\ interaction \in Instants /\ deaths \in Nat
  BY ClockTyped DEF TypeOK
<1>3. a \in Admission
  BY <1>1, <1>2 DEF Admission, Places
<1>4. admitted' = Append(admitted, a)
  BY <1>1 DEF Admit
<1>5. UsedToday(DayOf(now)) \in Nat /\ Cost[job] \in Nat /\ DayOf(now) \in Nat
  BY ClockTyped DEF UsedToday
<1>6. ledger' = [day |-> DayOf(now), used |-> UsedToday(DayOf(now)) + Cost[job], last |-> now]
  BY DEF Admit, Stamp
<1>7. ledger' \in Ledger
  BY <1>2, <1>5, <1>6 DEF Ledger
<1>8. spent' = [spent EXCEPT ![DayOf(now)]["ram"] = spent[DayOf(now)]["ram"] + Cost[job]]
  BY DEF Admit
<1>9. DayOf(now) \in Days /\ "ram" \in Places
  BY ClockTyped DEF Places
<1>10. spent' \in [Days -> [Places -> Nat]]
  BY <1>5, <1>8, <1>9 DEF TypeOK
<1>11. /\ Append(admitted, a) \in Seq(Admission) /\ Len(Append(admitted, a)) = Len(admitted) + 1
       /\ \A i \in 1..Len(admitted) : Append(admitted, a)[i] = admitted[i]
       /\ Append(admitted, a)[Len(admitted) + 1] = a
       /\ DOMAIN Append(admitted, a) = 1..(Len(admitted) + 1)
  BY <1>3 DEF TypeOK
<1>12. busy' = TRUE /\ dirty' = TRUE /\ UNCHANGED <<interaction, disk, faults>>
  BY DEF Admit, Patches
<1>13. QED
  BY <1>1, <1>4, <1>5, <1>6, <1>7, <1>10, <1>11, <1>12

\* What a start does.
LEMMA BootTyped ==
  ASSUME AutonomyAssumption, TypeOK, Boot
  PROVE  /\ deaths' = deaths + 1 /\ deaths' \in 0..MaxDeaths /\ busy' = FALSE /\ ticked' = FALSE
         /\ due' = {} /\ UNCHANGED <<now, level, owner>>
         /\ lastRun' \in [Jobs -> Instants] /\ \A job \in Jobs : lastRun'[job] \in 0..now
<1>1. now \in Instants /\ 0 \in Instants /\ now \in Nat
  BY ClockTyped DEF Instants, AutonomyAssumption
<1>2. lastRun' = [job \in Jobs |-> IF job = "proactive" THEN now ELSE 0]
  BY DEF Boot
<1>3. deaths' = deaths + 1 /\ deaths' \in 0..MaxDeaths
  BY DEF Boot, TypeOK, AutonomyAssumption
<1>4. QED
  BY <1>1, <1>2, <1>3 DEF Boot

LEMMA NextTypeOK ==
  ASSUME AutonomyAssumption, TypeOK, [Next]_vars
  PROVE  TypeOK'
<1>1. CASE BeginTick
  <2>1. due' \in SUBSET Jobs
    BY <1>1 DEF BeginTick
  <2>2. QED
    BY <1>1, <2>1 DEF BeginTick, TypeOK, stateVars, history
<1>2. CASE RunCheckpoint
  <2>1. "checkpoint" \in Jobs /\ TakeDue("checkpoint") /\ (Flush \/ FlushFails)
    BY <1>2 DEF RunCheckpoint, Jobs
  <2>2. UNCHANGED <<busy, ledger, interaction>>
    BY <1>2 DEF RunCheckpoint
  <2>3. QED
    BY <2>1, <2>2, TakeTyped, FlushTyped DEF TypeOK
<1>3. ASSUME NEW job \in TurnJobs, Admit(job)
      PROVE  TypeOK'
  <2>1. job \in Jobs /\ TakeDue(job)
    BY <1>3 DEF Admit, Jobs
  <2>2. /\ ledger' \in Ledger /\ busy' = TRUE /\ dirty' = TRUE
        /\ UNCHANGED <<interaction, disk, faults>>
        /\ admitted' \in Seq(Admission) /\ spent' \in [Days -> [Places -> Nat]]
    BY <1>3, AdmitFacts
  <2>3. /\ due' \in SUBSET Jobs /\ lastRun' \in [Jobs -> Instants]
        /\ UNCHANGED <<now, ticked, level, owner, deaths>>
    BY <2>1, TakeTyped
  <2>4. QED
    BY <2>2, <2>3 DEF TypeOK
<1>4. ASSUME NEW job \in TurnJobs, PassOver(job)
      PROVE  TypeOK'
  <2>1. job \in Jobs /\ TakeDue(job)
    BY <1>4 DEF PassOver, Jobs
  <2>2. QED
    BY <1>4, <2>1, TakeTyped DEF PassOver, TypeOK, stateVars, history
<1>5. CASE OwnerWrites
  <2>1. interaction' \in Instants /\ owner' \in 0..MaxOwner
    BY <1>5, ClockTyped DEF OwnerWrites, TypeOK, AutonomyAssumption
  <2>2. busy' \in BOOLEAN /\ dirty' \in BOOLEAN
    BY <1>5 DEF OwnerWrites, TypeOK
  <2>3. QED
    BY <1>5, <2>1, <2>2 DEF OwnerWrites, TypeOK, tickVars, history
<1>6. CASE TurnEnds
  BY <1>6 DEF TurnEnds, TypeOK, stateVars, tickVars, history
<1>7. CASE Advance
  <2>1. now' \in 1..MaxTime
    BY <1>7 DEF Advance, TypeOK, AutonomyAssumption
  <2>2. QED
    BY <1>7, <2>1 DEF Advance, TypeOK, stateVars, history
<1>8. CASE Crash
  <2>1. Boot /\ Moves("lost")
    BY <1>8 DEF Crash
  <2>2. ledger' \in Ledger /\ interaction' \in Instants
    BY <1>8, ClockTyped DEF Crash
  <2>3. dirty' = FALSE /\ UNCHANGED <<disk, faults>>
    BY <1>8 DEF Crash
  <2>4. QED
    BY <2>1, <2>2, <2>3, BootTyped, MovesFacts DEF TypeOK
<1>9. CASE Shutdown
  <2>1. Boot /\ Flush /\ UNCHANGED <<ledger, interaction>>
    BY <1>9 DEF Shutdown
  <2>2. QED
    BY <2>1, BootTyped, FlushTyped DEF TypeOK
<1>10. CASE UNCHANGED vars
  BY <1>10 DEF vars, TypeOK, stateVars, tickVars, history
<1>11. QED
  BY <1>1, <1>2, <1>3, <1>4, <1>5, <1>6, <1>7, <1>8, <1>9, <1>10 DEF Next

\* Every variable keeps its type.
THEOREM TypeCorrect == Spec => []TypeOK
<1>1. Init => TypeOK
  BY AutonomyAssumption, InitTypeOK
<1>2. TypeOK /\ [Next]_vars => TypeOK'
  BY AutonomyAssumption, NextTypeOK
<1>3. QED
  BY <1>1, <1>2, PTL DEF Spec

-------------------------------------------------------------------------------
(* What a step does to the history and the ledger *)

\* A checkpoint reaches the disk.
Saves ==
  /\ dirty /\ dirty' = FALSE
  /\ disk' = [ledger |-> ledger, interaction |-> interaction]
  /\ Moves("disk")
  /\ UNCHANGED <<now, ledger, interaction>>

\* Nothing is admitted, saved or lost.
Leaves ==
  /\ UNCHANGED <<history, ledger, disk>>
  /\ dirty' \in {dirty, TRUE}
  /\ interaction' \in {interaction, now}
  /\ now' \in {now, now + 1}

LEMMA FlushSaves ==
  ASSUME TypeOK, Flush, UNCHANGED <<now, ledger, interaction>>
  PROVE  (Saves \/ Leaves) /\ faults' = faults /\ (dirty => Saves)
<1>1. CASE dirty
  BY <1>1 DEF Flush, Saves
<1>2. CASE ~dirty
  BY <1>2 DEF Flush, Leaves
<1>3. QED
  BY <1>1, <1>2 DEF Flush

\* Only admissions, checkpoints and crashes touch the history.
LEMMA StepsOfHistory ==
  ASSUME TypeOK, [Next]_vars
  PROVE  Saves \/ Leaves \/ Crash \/ \E job \in TurnJobs : Admit(job)
<1>1. CASE BeginTick
  BY <1>1 DEF BeginTick, stateVars, Leaves
<1>2. CASE RunCheckpoint
  <2>1. UNCHANGED <<now, ledger, interaction>>
    BY <1>2 DEF RunCheckpoint, TakeDue
  <2>2. CASE Flush
    BY <2>1, <2>2, FlushSaves
  <2>3. CASE FlushFails
    BY <2>1, <2>3 DEF FlushFails, Leaves
  <2>4. QED
    BY <1>2, <2>2, <2>3 DEF RunCheckpoint
<1>3. ASSUME NEW job \in TurnJobs, PassOver(job)
      PROVE  Leaves
  BY <1>3 DEF PassOver, TakeDue, stateVars, Leaves
<1>4. CASE OwnerWrites
  BY <1>4 DEF OwnerWrites, Leaves
<1>5. CASE TurnEnds
  BY <1>5 DEF TurnEnds, stateVars, Leaves
<1>6. CASE Advance
  BY <1>6 DEF Advance, stateVars, Leaves
<1>7. CASE Shutdown
  BY <1>7, FlushSaves DEF Shutdown, Boot
<1>8. CASE UNCHANGED vars
  BY <1>8 DEF vars, stateVars, Leaves
<1>9. QED
  BY <1>1, <1>2, <1>3, <1>4, <1>5, <1>6, <1>7, <1>8 DEF Next

-------------------------------------------------------------------------------
(* The clock, the due jobs and the marks of the scheduler *)

LEMMA InitClock ==
  ASSUME AutonomyAssumption, Init
  PROVE  ClockInv /\ PaceInv
<1>1. /\ now = 1 /\ due = {} /\ ledger.last = 0 /\ interaction = 0 /\ disk.ledger.last = 0
      /\ disk.interaction = 0 /\ DOMAIN admitted = {} /\ admitted = << >>
      /\ \A job \in Jobs : lastRun[job] <= now
  BY DEF Init
<1>2. ClockInv
  BY <1>1 DEF ClockInv
<1>3. DueInv /\ DreamInv /\ LatestIsStamped /\ RamIsLatest
  BY <1>1 DEF DueInv, DreamInv, LatestIsStamped, RamIsLatest, OneDreamPerStretch
<1>4. TurnsAreSpaced /\ QuietNights
  BY <1>1 DEF TurnsAreSpaced, QuietNights
<1>5. QED
  BY <1>2, <1>3, <1>4 DEF PaceInv

\* The marks of the scheduler: a step marks a job with the clock, or starts afresh.
LEMMA MarksStep ==
  ASSUME AutonomyAssumption, TypeOK, TypeOK', ClockInv, [Next]_vars
  PROVE  /\ now' \in {now, now + 1} /\ (due' # {} => ticked')
         /\ \A job \in Jobs : lastRun'[job] <= now'
         /\ \/ deaths' = deaths /\ lastRun["dream"] <= lastRun'["dream"]
            \/ deaths' = deaths + 1
<1>0. /\ now \in Nat /\ \A job \in Jobs : lastRun[job] \in Nat /\ lastRun[job] <= now
      /\ "dream" \in Jobs /\ "checkpoint" \in Jobs
  BY ClockTyped DEF ClockInv, Jobs, TurnJobs
<1>1. ASSUME NEW job \in Jobs, TakeDue(job)
      PROVE  /\ now' = now /\ deaths' = deaths /\ (due' # {} => ticked')
             /\ \A j \in Jobs : lastRun'[j] <= now'
             /\ lastRun["dream"] <= lastRun'["dream"]
  <2>1. /\ due' \subseteq due /\ UNCHANGED <<now, ticked, deaths>>
        /\ \A j \in Jobs : lastRun'[j] = IF j = job THEN now ELSE lastRun[j]
    BY <1>1, TakeTyped
  <2>2. \A j \in Jobs : lastRun'[j] <= now' /\ lastRun[j] <= lastRun'[j]
    BY <1>0, <2>1
  <2>3. due' # {} => ticked'
    BY <2>1 DEF ClockInv
  <2>4. QED
    BY <1>0, <2>1, <2>2, <2>3
<1>2. CASE BeginTick
  BY <1>0, <1>2 DEF BeginTick
<1>3. CASE RunCheckpoint
  BY <1>0, <1>1, <1>3 DEF RunCheckpoint
<1>4. ASSUME NEW job \in TurnJobs, Admit(job) \/ PassOver(job)
      PROVE  /\ now' = now /\ deaths' = deaths /\ (due' # {} => ticked')
             /\ \A j \in Jobs : lastRun'[j] <= now'
             /\ lastRun["dream"] <= lastRun'["dream"]
  BY <1>1, <1>4 DEF Admit, PassOver, Jobs
<1>5. CASE OwnerWrites \/ TurnEnds
  <2>1. UNCHANGED <<now, due, lastRun, deaths>>
    BY <1>5 DEF OwnerWrites, TurnEnds, tickVars
  <2>2. due' # {} => ticked'
    BY <1>5, Zenon DEF OwnerWrites, TurnEnds, tickVars, ClockInv
  <2>3. QED
    BY <1>0, <2>1, <2>2
<1>6. CASE Advance
  BY <1>0, <1>6 DEF Advance
<1>7. CASE Crash \/ Shutdown
  <2>1. Boot
    BY <1>7 DEF Crash, Shutdown
  <2>2. now' = now /\ due' = {} /\ deaths' = deaths + 1 /\ \A job \in Jobs : lastRun'[job] \in 0..now
    BY <2>1, BootTyped
  <2>3. QED
    BY <1>0, <2>2
<1>8. CASE UNCHANGED vars
  <2>1. UNCHANGED <<now, due, lastRun, deaths>>
    BY <1>8 DEF vars, tickVars
  <2>2. due' # {} => ticked'
    BY <1>8, Zenon DEF vars, tickVars, ClockInv
  <2>3. QED
    BY <1>0, <2>1, <2>2
<1>9. QED
  BY <1>2, <1>3, <1>4, <1>5, <1>6, <1>7, <1>8 DEF Next

LEMMA ClockStep ==
  ASSUME AutonomyAssumption, TypeOK, TypeOK', ClockInv, [Next]_vars
  PROVE  ClockInv'
<1>0. /\ now \in Nat \ {0} /\ now' \in Nat /\ now <= now' /\ deaths \in Nat /\ deaths' \in Nat
      /\ deaths <= deaths' /\ (due' # {} => ticked') /\ \A job \in Jobs : lastRun'[job] <= now'
  BY ClockTyped, MarksStep
<1>1. /\ ledger.last \in Nat /\ disk.ledger.last \in Nat
      /\ interaction \in Nat /\ disk.interaction \in Nat
  BY ClockTyped
<1>2. \A i \in DOMAIN admitted : /\ admitted[i].at \in 1..now' /\ admitted[i].life <= deaths'
                                /\ admitted[i].life \in Nat
  BY <1>0, HistoryTyped DEF ClockInv
<1>3. CASE Leaves
  <2>1. /\ interaction' <= now' /\ disk'.interaction <= now'
        /\ ledger'.last <= now' /\ disk'.ledger.last <= now'
    BY <1>0, <1>1, <1>3 DEF Leaves, ClockInv
  <2>2. admitted' = admitted
    BY <1>3 DEF Leaves, history
  <2>3. QED
    BY <1>0, <1>2, <2>1, <2>2 DEF ClockInv
<1>4. CASE Saves
  <2>1. /\ interaction' <= now' /\ disk'.interaction <= now'
        /\ ledger'.last <= now' /\ disk'.ledger.last <= now'
    BY <1>0, <1>1, <1>4 DEF Saves, ClockInv
  <2>2. \A i \in DOMAIN admitted' : /\ i \in DOMAIN admitted /\ admitted'[i].at = admitted[i].at
                                   /\ admitted'[i].life = admitted[i].life
    BY <1>4, MovesFacts DEF Saves
  <2>3. QED
    BY <1>0, <1>2, <2>1, <2>2 DEF ClockInv
<1>5. CASE Crash
  <2>1. /\ interaction' <= now' /\ disk'.interaction <= now'
        /\ ledger'.last <= now' /\ disk'.ledger.last <= now'
    BY <1>0, <1>1, <1>5 DEF Crash, ClockInv
  <2>2. \A i \in DOMAIN admitted' : /\ i \in DOMAIN admitted /\ admitted'[i].at = admitted[i].at
                                   /\ admitted'[i].life = admitted[i].life
    BY <1>5, MovesFacts DEF Crash
  <2>3. QED
    BY <1>0, <1>2, <2>1, <2>2 DEF ClockInv
<1>6. ASSUME NEW job \in TurnJobs, Admit(job)
      PROVE  ClockInv'
  <2>1. now' = now /\ deaths' = deaths
    BY <1>6 DEF Admit, TakeDue
  <2>2. ledger'.last = now /\ interaction' = interaction /\ disk' = disk
    BY <1>6, AdmitFacts
  <2>3. \A i \in DOMAIN admitted' : admitted'[i].at \in 1..now /\ admitted'[i].life <= deaths
    <3>1. /\ DOMAIN admitted' = 1..(Len(admitted) + 1)
          /\ \A i \in 1..Len(admitted) : admitted'[i] = admitted[i]
          /\ admitted'[Len(admitted) + 1].at = now /\ admitted'[Len(admitted) + 1].life = deaths
      BY <1>6, AdmitFacts
    <3>2. \A i \in 1..Len(admitted) : admitted[i].at \in 1..now /\ admitted[i].life <= deaths
      BY HistoryTyped DEF ClockInv
    <3>3. Len(admitted) \in Nat
      BY HistoryTyped
    <3>4. \A i \in 1..(Len(admitted) + 1) : i \in 1..Len(admitted) \/ i = Len(admitted) + 1
      BY <3>3
    <3>5. QED
      BY <1>0, <3>1, <3>2, <3>4
  <2>4. QED
    BY <1>0, <1>1, <2>1, <2>2, <2>3 DEF ClockInv
<1>7. QED
  BY <1>3, <1>4, <1>5, <1>6, StepsOfHistory

-------------------------------------------------------------------------------
(* The pace *)

LEMMA DueStep ==
  ASSUME AutonomyAssumption, TypeOK, ClockInv, DueInv, [Next]_vars
  PROVE  DueInv'
<1>0. "dream" \in Jobs /\ "proactive" \in Jobs /\ "checkpoint" \in Jobs
  BY DEF Jobs, TurnJobs
<1>1. ASSUME NEW job \in Jobs, TakeDue(job), interaction' = interaction
      PROVE  DueInv'
  <2>1. /\ due' = due \ {job} /\ now' = now
        /\ \A j \in Jobs : lastRun'[j] = IF j = job THEN now ELSE lastRun[j]
    BY <1>1, TakeTyped
  <2>2. QED
    BY <1>0, <1>1, <2>1 DEF DueInv
<1>2. CASE BeginTick
  <2>1. PICK scale : due' = {job \in Jobs : IsDue(job, scale)}
    BY <1>2 DEF BeginTick
  <2>2. "proactive" \in due' => ~InQuiet(HourOf(now))
    BY <2>1 DEF IsDue
  <2>3. "dream" \in due' => lastRun["dream"] <= interaction
    BY <2>1 DEF IsDue, IdleDue
  <2>4. UNCHANGED <<now, interaction, lastRun>>
    BY <1>2 DEF BeginTick, stateVars
  <2>5. QED
    BY <2>2, <2>3, <2>4 DEF DueInv
<1>3. CASE RunCheckpoint
  BY <1>0, <1>1, <1>3 DEF RunCheckpoint
<1>4. ASSUME NEW job \in TurnJobs, Admit(job) \/ PassOver(job)
      PROVE  DueInv'
  BY <1>1, <1>4 DEF Admit, PassOver, Jobs, stateVars
<1>5. CASE OwnerWrites
  <2>1. lastRun["dream"] <= now
    BY <1>0 DEF ClockInv
  <2>2. QED
    BY <1>5, <2>1 DEF OwnerWrites, tickVars, DueInv
<1>6. CASE TurnEnds
  BY <1>6 DEF TurnEnds, tickVars, stateVars, DueInv
<1>7. CASE Advance
  BY <1>7 DEF Advance, DueInv
<1>8. CASE Crash \/ Shutdown
  BY <1>8 DEF Crash, Shutdown, Boot, DueInv
<1>9. CASE UNCHANGED vars
  BY <1>9 DEF vars, tickVars, stateVars, DueInv
<1>10. QED
  BY <1>2, <1>3, <1>4, <1>5, <1>6, <1>7, <1>8, <1>9 DEF Next

\* A step that admits nothing keeps what is known of the turns but where their entries are.
LEMMA SameTurns ==
  ASSUME TypeOK, Saves \/ Leaves \/ Crash
  PROVE  /\ DOMAIN admitted' = DOMAIN admitted /\ Len(admitted') = Len(admitted)
         /\ \A i \in DOMAIN admitted :
              /\ admitted'[i].job = admitted[i].job /\ admitted'[i].at = admitted[i].at
              /\ admitted'[i].since = admitted[i].since /\ admitted'[i].life = admitted[i].life
              /\ admitted'[i].kept = admitted[i].kept \/ admitted[i].kept = "ram"
<1>1. CASE Leaves
  BY <1>1 DEF Leaves, history
<1>2. CASE Saves \/ Crash
  BY <1>2, MovesFacts DEF Saves, Crash
<1>3. QED
  BY <1>1, <1>2

LEMMA NightStep ==
  ASSUME AutonomyAssumption, TypeOK, DueInv, QuietNights, [Next]_vars
  PROVE  QuietNights'
<1>1. CASE Saves \/ Leaves \/ Crash
  BY <1>1, SameTurns DEF QuietNights
<1>2. ASSUME NEW job \in TurnJobs, Admit(job)
      PROVE  QuietNights'
  <2>1. job \in due
    BY <1>2 DEF Admit, TakeDue
  <2>2. job = "proactive" => HourOf(now) \notin QuietHours
    BY <2>1, QuietHoursAreQuiet DEF DueInv
  <2>3. /\ DOMAIN admitted' = 1..(Len(admitted) + 1)
        /\ \A i \in 1..Len(admitted) : admitted'[i] = admitted[i]
        /\ admitted'[Len(admitted) + 1].job = job /\ admitted'[Len(admitted) + 1].at = now
    BY <1>2, AdmitFacts
  <2>4. Len(admitted) \in Nat /\ DOMAIN admitted = 1..Len(admitted)
    BY HistoryTyped
  <2>5. \A i \in DOMAIN admitted' : i \in DOMAIN admitted \/ i = Len(admitted) + 1
    BY <2>3, <2>4
  <2>6. QED
    BY <2>2, <2>3, <2>4, <2>5 DEF QuietNights
<1>3. QED
  BY <1>1, <1>2, StepsOfHistory

LEMMA DreamStep ==
  ASSUME AutonomyAssumption, TypeOK, TypeOK', ClockInv, DueInv, DreamInv, [Next]_vars
  PROVE  DreamInv'
<1>0. /\ "dream" \in Jobs /\ lastRun["dream"] \in Nat /\ lastRun'["dream"] \in Int
      /\ deaths \in Nat /\ interaction \in Nat /\ now \in Nat
  <2>1. "dream" \in Jobs
    BY DEF Jobs, TurnJobs
  <2>2. lastRun'["dream"] \in Instants
    BY <2>1 DEF TypeOK
  <2>3. QED
    BY <2>1, <2>2, ClockTyped DEF Instants
<1>1. CASE Saves \/ Leaves \/ Crash
  <2>1. OneDreamPerStretch'
    BY <1>1, SameTurns DEF DreamInv, OneDreamPerStretch
  <2>2. ASSUME NEW i \in DOMAIN admitted', admitted'[i].job = "dream", admitted'[i].life = deaths'
        PROVE  admitted'[i].at <= lastRun'["dream"]
    <3>1. /\ i \in DOMAIN admitted /\ admitted[i].job = "dream" /\ admitted[i].life = deaths'
          /\ admitted'[i].at = admitted[i].at /\ admitted[i].life <= deaths /\ admitted[i].at \in Nat
      BY <1>1, <2>2, SameTurns, HistoryTyped DEF ClockInv
    <3>2. deaths' = deaths /\ lastRun["dream"] <= lastRun'["dream"]
      BY <1>0, <3>1, MarksStep
    <3>3. QED
      BY <1>0, <3>1, <3>2 DEF DreamInv
  <2>3. QED
    BY <2>1, <2>2 DEF DreamInv
<1>2. ASSUME NEW job \in TurnJobs, Admit(job)
      PROVE  DreamInv'
  <2>1. /\ job \in due /\ job \in Jobs /\ deaths' = deaths
        /\ lastRun'["dream"] = IF job = "dream" THEN now ELSE lastRun["dream"]
    BY <1>0, <1>2, TakeTyped DEF Admit, Jobs
  <2>2. job = "dream" => lastRun["dream"] <= interaction
    BY <2>1 DEF DueInv
  <2>3. /\ DOMAIN admitted' = 1..(Len(admitted) + 1)
        /\ \A i \in 1..Len(admitted) : admitted'[i] = admitted[i]
        /\ admitted'[Len(admitted) + 1].job = job /\ admitted'[Len(admitted) + 1].at = now
        /\ admitted'[Len(admitted) + 1].since = interaction
        /\ admitted'[Len(admitted) + 1].life = deaths
    BY <1>2, AdmitFacts
  <2>4. Len(admitted) \in Nat /\ DOMAIN admitted = 1..Len(admitted)
    BY HistoryTyped
  <2>5. \A i \in DOMAIN admitted' : i \in DOMAIN admitted \/ i = Len(admitted) + 1
    BY <2>3, <2>4
  <2>6. \A i \in DOMAIN admitted : /\ admitted[i].at \in Nat /\ admitted[i].at <= now
                                  /\ admitted'[i] = admitted[i]
    BY <1>0, <2>3, <2>4, HistoryTyped DEF ClockInv
  <2>7. \A i \in DOMAIN admitted' :
          admitted'[i].job = "dream" /\ admitted'[i].life = deaths' => admitted'[i].at <= lastRun'["dream"]
    <3>1. ASSUME NEW i \in DOMAIN admitted, admitted[i].job = "dream", admitted[i].life = deaths
          PROVE  admitted[i].at <= lastRun'["dream"]
      BY <1>0, <2>1, <2>6, <3>1 DEF DreamInv
    <3>2. job = "dream" => now <= lastRun'["dream"]
      BY <1>0, <2>1
    <3>3. QED
      BY <2>1, <2>3, <2>5, <2>6, <3>1, <3>2
  <2>8. ASSUME NEW i \in DOMAIN admitted', NEW j \in DOMAIN admitted', i < j,
               admitted'[i].job = "dream", admitted'[j].job = "dream",
               admitted'[i].life = admitted'[j].life
        PROVE  admitted'[j].since >= admitted'[i].at
    <3>1. CASE j \in DOMAIN admitted
      <4>1. i \in DOMAIN admitted
        BY <2>4, <2>5, <2>8, <3>1
      <4>2. QED
        BY <2>6, <2>8, <3>1, <4>1 DEF DreamInv, OneDreamPerStretch
    <3>2. CASE j = Len(admitted) + 1
      <4>1. i \in DOMAIN admitted /\ admitted'[i] = admitted[i] /\ admitted[i].at \in Nat
        BY <2>4, <2>5, <2>6, <2>8, <3>2
      <4>2. job = "dream" /\ admitted[i].life = deaths /\ admitted[i].job = "dream"
        BY <2>3, <2>8, <3>2, <4>1
      <4>3. admitted[i].at <= lastRun["dream"]
        BY <4>1, <4>2 DEF DreamInv
      <4>4. QED
        BY <1>0, <2>2, <2>3, <3>2, <4>1, <4>2, <4>3
    <3>3. QED
      BY <2>5, <3>1, <3>2
  <2>9. QED
    BY <2>7, <2>8 DEF DreamInv, OneDreamPerStretch
<1>3. QED
  BY <1>1, <1>2, StepsOfHistory

LEMMA StampStep ==
  ASSUME AutonomyAssumption, TypeOK, ClockInv, LatestIsStamped, RamIsLatest, [Next]_vars
  PROVE  LatestIsStamped' /\ RamIsLatest'
<1>0. /\ Len(admitted) \in Nat /\ DOMAIN admitted = 1..Len(admitted)
      /\ \A i \in DOMAIN admitted : admitted[i].kept \in {"ram", "disk", "lost"}
      /\ admitted = << >> <=> Len(admitted) = 0
  BY HistoryTyped DEF Places, TypeOK
<1>1. CASE Leaves
  <2>1. admitted' = admitted /\ ledger' = ledger /\ disk' = disk
    BY <1>1 DEF Leaves, history
  <2>2. ~dirty' => ~dirty
    BY <1>1, Zenon DEF Leaves
  <2>3. QED
    BY <2>1, <2>2 DEF LatestIsStamped, RamIsLatest
<1>2. CASE Saves
  <2>1. /\ DOMAIN admitted' = DOMAIN admitted /\ Len(admitted') = Len(admitted)
        /\ \A i \in DOMAIN admitted :
             /\ admitted'[i].at = admitted[i].at
             /\ admitted'[i].kept = IF admitted[i].kept = "ram" THEN "disk" ELSE admitted[i].kept
    BY <1>2, MovesFacts DEF Saves
  <2>2. disk'.ledger = ledger /\ ledger' = ledger
    BY <1>2 DEF Saves
  <2>3. RamIsLatest'
    BY <2>1 DEF RamIsLatest
  <2>4. ASSUME Len(admitted) # 0
        PROVE  LET n == Len(admitted) IN
               /\ admitted'[n].kept # "lost" => ledger'.last = admitted'[n].at
               /\ admitted'[n].kept = "disk" => disk'.ledger.last = admitted'[n].at
    <3>1. Len(admitted) \in DOMAIN admitted
      BY <1>0, <2>4
    <3>2. QED
      BY <1>0, <2>1, <2>2, <2>4, <3>1 DEF LatestIsStamped
  <2>5. admitted' # << >> => Len(admitted) # 0
    BY <1>0, <1>2, <2>1, MovesFacts DEF Saves
  <2>6. QED
    BY <2>1, <2>3, <2>4, <2>5 DEF LatestIsStamped
<1>3. CASE Crash
  <2>1. /\ DOMAIN admitted' = DOMAIN admitted /\ Len(admitted') = Len(admitted)
        /\ \A i \in DOMAIN admitted :
             /\ admitted'[i].at = admitted[i].at
             /\ admitted'[i].kept = IF admitted[i].kept = "ram" THEN "lost" ELSE admitted[i].kept
    BY <1>3, MovesFacts DEF Crash
  <2>2. ledger' = disk.ledger /\ disk' = disk
    BY <1>3 DEF Crash
  <2>3. RamIsLatest'
    BY <2>1 DEF RamIsLatest
  <2>4. ASSUME Len(admitted) # 0
        PROVE  LET n == Len(admitted) IN
               /\ admitted'[n].kept # "lost" => ledger'.last = admitted'[n].at
               /\ admitted'[n].kept = "disk" => disk'.ledger.last = admitted'[n].at
    <3>1. Len(admitted) \in DOMAIN admitted
      BY <1>0, <2>4
    <3>2. admitted'[Len(admitted)].kept # "lost" => admitted[Len(admitted)].kept = "disk"
      BY <1>0, <2>1, <3>1
    <3>3. QED
      BY <1>0, <2>1, <2>2, <2>4, <3>1, <3>2 DEF LatestIsStamped
  <2>5. admitted' # << >> => Len(admitted) # 0
    BY <1>0, <1>3, <2>1, MovesFacts DEF Crash
  <2>6. QED
    BY <2>1, <2>3, <2>4, <2>5 DEF LatestIsStamped
<1>4. ASSUME NEW job \in TurnJobs, Admit(job)
      PROVE  LatestIsStamped' /\ RamIsLatest'
  <2>1. /\ Len(admitted') = Len(admitted) + 1 /\ DOMAIN admitted' = 1..(Len(admitted) + 1)
        /\ \A i \in 1..Len(admitted) : admitted'[i] = admitted[i]
        /\ admitted'[Len(admitted) + 1].at = now /\ admitted'[Len(admitted) + 1].kept = "ram"
        /\ ledger'.last = now /\ dirty' = TRUE
    BY <1>4, AdmitFacts
  <2>2. LatestIsStamped'
    BY <2>1 DEF LatestIsStamped
  <2>3. \A i \in DOMAIN admitted' : i \in DOMAIN admitted \/ i = Len(admitted) + 1
    BY <1>0, <2>1
  <2>4. \A i \in DOMAIN admitted : admitted[i].at <= now
    BY ClockTyped DEF ClockInv
  <2>5. ASSUME NEW i \in DOMAIN admitted', NEW j \in DOMAIN admitted', i < j
        PROVE  /\ admitted'[i].kept = "ram" => admitted'[j].kept = "ram"
               /\ admitted'[i].at <= admitted'[j].at
    <3>1. i \in DOMAIN admitted /\ admitted'[i] = admitted[i]
      BY <1>0, <2>1, <2>3, <2>5
    <3>2. CASE j \in DOMAIN admitted
      BY <1>0, <2>1, <2>5, <3>1, <3>2 DEF RamIsLatest
    <3>3. CASE j = Len(admitted) + 1
      BY <2>1, <2>4, <3>1, <3>3
    <3>4. QED
      BY <2>3, <3>2, <3>3
  <2>6. RamIsLatest'
    BY <2>1, <2>5 DEF RamIsLatest
  <2>7. QED
    BY <2>2, <2>6
<1>5. QED
  BY <1>1, <1>2, <1>3, <1>4, StepsOfHistory

\* The turn before an admission is a cooldown ago, unless its stamp is lost.
LEMMA AdmittedCool ==
  ASSUME AutonomyAssumption, TypeOK, ClockInv, LatestIsStamped, NEW job \in TurnJobs, Admit(job),
         Len(admitted) # 0, admitted[Len(admitted)].kept # "lost"
  PROVE  admitted[Len(admitted)].at + Cooldown <= now
<1>1. /\ Len(admitted) \in DOMAIN admitted /\ admitted # << >>
      /\ admitted[Len(admitted)].at \in 1..now
  <2>1. Len(admitted) \in DOMAIN admitted /\ admitted # << >>
    BY HistoryTyped
  <2>2. QED
    BY <2>1 DEF ClockInv
<1>2. ledger.last = admitted[Len(admitted)].at
  BY <1>1 DEF LatestIsStamped
<1>3. ~CoolingDown
  BY DEF Admit
<1>4. PICK last : last = admitted[Len(admitted)].at
  OBVIOUS
<1>5. last \in Nat /\ last # 0 /\ last <= now /\ now \in Nat /\ Cooldown \in Nat /\ ledger.last = last
  BY <1>1, <1>2, <1>4, ClockTyped
<1>6. ~(now - last < Cooldown)
  BY <1>3, <1>5 DEF CoolingDown
<1>7. QED
  BY <1>4, <1>5, <1>6

LEMMA SpacedStep ==
  ASSUME AutonomyAssumption, TypeOK, ClockInv, LatestIsStamped, TurnsAreSpaced, [Next]_vars
  PROVE  TurnsAreSpaced'
<1>0. Len(admitted) \in Nat /\ DOMAIN admitted = 1..Len(admitted)
  BY HistoryTyped
<1>1. CASE Saves \/ Leaves \/ Crash
  <2>1. ASSUME NEW i \in 1..(Len(admitted) - 1)
        PROVE  admitted'[i].kept = "lost" \/ admitted'[i + 1].at - admitted'[i].at >= Cooldown
    <3>1. i \in DOMAIN admitted /\ i + 1 \in DOMAIN admitted
      BY <1>0, <2>1
    <3>2. admitted[i].kept = "lost" \/ admitted[i + 1].at - admitted[i].at >= Cooldown
      BY <2>1 DEF TurnsAreSpaced
    <3>3. /\ admitted'[i].at = admitted[i].at /\ admitted'[i + 1].at = admitted[i + 1].at
          /\ admitted[i].kept = "lost" => admitted'[i].kept = "lost"
      BY <1>1, <3>1, SameTurns
    <3>4. QED
      BY <3>2, <3>3
  <2>2. QED
    BY <1>1, <2>1, SameTurns DEF TurnsAreSpaced
<1>2. ASSUME NEW job \in TurnJobs, Admit(job)
      PROVE  TurnsAreSpaced'
  <2>1. /\ Len(admitted') = Len(admitted) + 1
        /\ \A i \in 1..Len(admitted) : admitted'[i] = admitted[i]
        /\ admitted'[Len(admitted) + 1].at = now
    BY <1>2, AdmitFacts
  <2>2. ASSUME NEW i \in 1..Len(admitted)
        PROVE  admitted'[i].kept = "lost" \/ admitted'[i + 1].at - admitted'[i].at >= Cooldown
    <3>1. CASE i = Len(admitted)
      <4>1. admitted[i].kept = "lost" \/ admitted[i].at + Cooldown <= now
        BY <1>0, <1>2, <2>2, <3>1, AdmittedCool
      <4>2. admitted[i].at \in Nat /\ Cooldown \in Nat /\ now \in Nat
        BY <1>0, <2>2, HistoryTyped, ClockTyped
      <4>3. QED
        BY <2>1, <2>2, <3>1, <4>1, <4>2
    <3>2. CASE i # Len(admitted)
      <4>1. PICK n \in Nat : n = Len(admitted)
        BY <1>0
      <4>2. i \in 1..n /\ i # n
        BY <2>2, <3>2, <4>1
      <4>3. i \in 1..(n - 1) /\ i + 1 \in 1..n
        BY <4>2
      <4>4. QED
        BY <2>1, <2>2, <4>1, <4>3 DEF TurnsAreSpaced
    <3>3. QED
      BY <3>1, <3>2
  <2>3. QED
    BY <1>0, <2>1, <2>2 DEF TurnsAreSpaced
<1>3. QED
  BY <1>1, <1>2, StepsOfHistory

\* Whatever battery, budget, owner and restarts do, two self-driven turns are a cooldown
\* apart unless a crash took the first one's stamp, the pet dreams once per idle stretch,
\* and it does not speak up in the quiet hours (BudgetGate, Idle, QuietHours).
THEOREM PacingSafe == Spec => []Pacing
<1> DEFINE P == TypeOK /\ ClockInv /\ PaceInv
<1>1. Init => P
  BY AutonomyAssumption, InitTypeOK, InitClock
<1>2. P /\ [Next]_vars => P'
  <2> SUFFICES ASSUME P, [Next]_vars
               PROVE  P'
    OBVIOUS
  <2>1. TypeOK'
    BY AutonomyAssumption, NextTypeOK
  <2>2. ClockInv'
    BY <2>1, AutonomyAssumption, ClockStep
  <2>3. DueInv' /\ QuietNights'
    BY AutonomyAssumption, DueStep, NightStep DEF PaceInv
  <2>4. DreamInv'
    BY <2>1, AutonomyAssumption, DreamStep DEF PaceInv
  <2>5. LatestIsStamped' /\ RamIsLatest' /\ TurnsAreSpaced'
    BY AutonomyAssumption, StampStep, SpacedStep DEF PaceInv
  <2>6. QED
    BY <2>1, <2>2, <2>3, <2>4, <2>5 DEF PaceInv
<1>3. P => Pacing
  BY DEF PaceInv, DreamInv, Pacing
<1>4. QED
  BY <1>1, <1>2, <1>3, PTL DEF Spec
-------------------------------------------------------------------------------
(* The cap *)

LEMMA SpentTyped ==
  ASSUME AutonomyAssumption, TypeOK, NEW day \in Days
  PROVE  /\ day \in Nat /\ spent[day]["ram"] \in Nat /\ spent[day]["disk"] \in Nat
         /\ KeptOn(day) \in Nat
  BY ClockTyped, HistoryTyped DEF Places

LEMMA InitCap ==
  ASSUME AutonomyAssumption, Init
  PROVE  CapInv
<1>1. TypeOK /\ DayOf(now) \in Nat /\ Cap \in Nat
  BY InitTypeOK, ClockTyped
<1>2. /\ ledger.day = 0 /\ ledger.used = 0
      /\ disk.ledger.day = 0 /\ disk.ledger.used = 0
  BY DEF Init
<1>3. \A day \in Days : spent[day]["ram"] = 0 /\ spent[day]["disk"] = 0 /\ KeptOn(day) = 0
  BY DEF Init, KeptOn, Places
<1>4. QED
  BY <1>1, <1>2, <1>3 DEF CapInv, Within, Covered, CapHoldsForKeptTurns

\* A step that admits nothing leaves every day covered by the ledgers it leaves.
LEMMA CapKept ==
  ASSUME AutonomyAssumption, TypeOK, CapInv, Saves \/ Leaves \/ Crash
  PROVE  CapInv'
<1>0. /\ \A day \in Days : /\ spent[day]["ram"] \in Nat /\ spent[day]["disk"] \in Nat
                          /\ KeptOn(day) = spent[day]["ram"] + spent[day]["disk"]
                          /\ KeptOn(day)' = spent'[day]["ram"] + spent'[day]["disk"]
                          /\ Covered(day) /\ KeptOn(day) <= Cap
      /\ Cap \in Nat /\ "disk" \in Places \ {"ram", "lost"}
  BY SpentTyped, ClockTyped DEF KeptOn, CapInv, CapHoldsForKeptTurns, Places
<1>1. DayOf(now) <= DayOf(now') /\ DayOf(now) \in Nat /\ DayOf(now') \in Nat
  <2>1. now \in Nat /\ now + 1 \in Nat
    BY ClockTyped
  <2>2. now' \in {now, now + 1}
    BY DEF Saves, Leaves, Crash, Boot
  <2>3. QED
    BY <2>1, <2>2, DayTyped
<1>2. /\ ledger.day \in Nat /\ ledger.used \in Nat /\ ledger.day <= DayOf(now) /\ ledger.used <= Cap
      /\ disk.ledger.day \in Nat /\ disk.ledger.used \in Nat
      /\ disk.ledger.day <= DayOf(now) /\ disk.ledger.used <= Cap
  BY ClockTyped DEF CapInv, Within
<1>3. Within(ledger)' /\ Within(disk.ledger)'
  <2>1. (ledger' = ledger \/ ledger' = disk.ledger) /\ (disk'.ledger = ledger \/ disk' = disk)
    <3>1. Saves => ledger' = ledger /\ disk'.ledger = ledger
      BY DEF Saves
    <3>2. Leaves => ledger' = ledger /\ disk' = disk
      BY DEF Leaves
    <3>3. Crash => ledger' = disk.ledger /\ disk' = disk
      BY DEF Crash
    <3>4. QED
      BY <3>1, <3>2, <3>3
  <2>2. /\ ledger'.used <= Cap /\ ledger'.day <= DayOf(now')
        /\ disk'.ledger.used <= Cap /\ disk'.ledger.day <= DayOf(now')
    BY <1>1, <1>2, <2>1
  <2>3. QED
    BY <2>2 DEF Within, DayOf
<1>4. ASSUME NEW day \in Days
      PROVE  Covered(day)' /\ KeptOn(day)' <= Cap
  <2>1. CASE Leaves
    <3>1. spent' = spent /\ ledger' = ledger /\ disk' = disk
      BY <2>1 DEF Leaves, history
    <3>2. QED
      BY <1>0, <3>1 DEF Covered, KeptOn
  <2>2. CASE Saves
    <3>1. /\ spent'[day]["ram"] = 0 /\ spent'[day]["disk"] = spent[day]["disk"] + spent[day]["ram"]
          /\ ledger' = ledger /\ disk'.ledger = ledger
      BY <2>2, MovesFacts DEF Saves
    <3>2. KeptOn(day)' = KeptOn(day) /\ spent'[day]["disk"] = KeptOn(day)
      BY <1>0, <3>1
    <3>3. QED
      BY <1>0, <3>1, <3>2 DEF Covered
  <2>3. CASE Crash
    <3>1. /\ spent'[day]["ram"] = 0 /\ spent'[day]["disk"] = spent[day]["disk"]
          /\ ledger' = disk.ledger /\ disk' = disk
      BY <1>0, <2>3, MovesFacts DEF Crash
    <3>2. KeptOn(day)' = spent[day]["disk"] /\ spent[day]["disk"] <= KeptOn(day)
      BY <1>0, <3>1
    <3>3. Covered(day)'
      BY <1>0, <3>1, <3>2 DEF Covered
    <3>4. QED
      BY <1>0, <3>2, <3>3
  <2>4. QED
    BY <2>1, <2>2, <2>3
<1>5. QED
  BY <1>3, <1>4 DEF CapInv, CapHoldsForKeptTurns

\* What an admission spends.
LEMMA AdmitSpends ==
  ASSUME AutonomyAssumption, TypeOK, NEW job \in TurnJobs, Admit(job), NEW day \in Days
  PROVE  /\ spent'[day]["disk"] = spent[day]["disk"]
         /\ spent'[day]["ram"] =
              IF day = DayOf(now) THEN spent[day]["ram"] + Cost[job] ELSE spent[day]["ram"]
<1>1. spent' = [spent EXCEPT ![DayOf(now)]["ram"] = spent[DayOf(now)]["ram"] + Cost[job]]
  BY DEF Admit
<1>2. /\ DayOf(now) \in Days /\ spent \in [Days -> [Places -> Nat]]
      /\ "ram" \in Places /\ "disk" \in Places
  BY ClockTyped DEF TypeOK, Places
<1>3. PICK today : today = DayOf(now)
  OBVIOUS
<1>4. CASE day = today
  BY <1>1, <1>2, <1>3, <1>4
<1>5. CASE day # today
  BY <1>1, <1>2, <1>3, <1>5
<1>6. QED
  BY <1>4, <1>5

\* An admission writes into the ledger what it spends, and the gate has seen that it fits.
LEMMA CapAdmitted ==
  ASSUME AutonomyAssumption, TypeOK, CapInv, NEW job \in TurnJobs, Admit(job)
  PROVE  CapInv'
<1>1. PICK today : today = DayOf(now)
  OBVIOUS
<1>2. PICK before : before = UsedToday(today)
  OBVIOUS
<1>3. PICK cost : cost = Cost[job]
  OBVIOUS
<1>4. ledger'.day = today /\ ledger'.used = before + cost /\ disk' = disk /\ now' = now
  <2>1. now' = now
    BY DEF Admit, TakeDue
  <2>2. QED
    BY <1>1, <1>2, <1>3, <2>1, AdmitFacts
<1>5. ASSUME NEW day \in Days
      PROVE  /\ spent'[day]["disk"] = spent[day]["disk"]
             /\ spent'[day]["ram"] = IF day = today THEN spent[day]["ram"] + cost ELSE spent[day]["ram"]
  BY <1>1, <1>3, AdmitSpends
<1>6. /\ today \in Days /\ today \in Nat /\ before \in Nat /\ cost \in Nat /\ Cap \in Nat
      /\ ledger.day \in Nat /\ ledger.used \in Nat
      /\ disk.ledger.day \in Nat /\ disk.ledger.used \in Nat
      /\ ledger.day <= today /\ disk.ledger.day <= today /\ disk.ledger.used <= Cap
  BY <1>1, <1>2, <1>3, AdmitFacts, ClockTyped DEF CapInv, Within
<1>7. before + cost <= Cap
  <2>1. ~OverBudget(Cost[job])
    BY DEF Admit
  <2>2. QED
    BY <1>1, <1>2, <1>3, <1>6, <2>1 DEF OverBudget
<1>8. before = IF ledger.day = today THEN ledger.used ELSE 0
  BY <1>2 DEF UsedToday
<1>9. Within(ledger)' /\ Within(disk.ledger)'
  <2>1. DayOf(now)' = today
    BY <1>1, <1>4 DEF DayOf
  <2>2. QED
    BY <1>4, <1>6, <1>7, <2>1 DEF Within
<1>10. ASSUME NEW day \in Days
      PROVE  Covered(day)' /\ KeptOn(day)' <= Cap
  <2>1. /\ day \in Nat /\ spent[day]["ram"] \in Nat /\ spent[day]["disk"] \in Nat
        /\ KeptOn(day) = spent[day]["ram"] + spent[day]["disk"] /\ KeptOn(day) \in Nat
        /\ KeptOn(day)' = spent'[day]["ram"] + spent'[day]["disk"]
        /\ Covered(day) /\ KeptOn(day) <= Cap
    BY SpentTyped DEF KeptOn, CapInv, CapHoldsForKeptTurns
  <2>2. /\ spent'[day]["disk"] = spent[day]["disk"]
        /\ spent'[day]["ram"] = IF day = today THEN spent[day]["ram"] + cost ELSE spent[day]["ram"]
    BY <1>5
  <2>3. CASE day = today
    <3>1. KeptOn(day) <= before
      BY <1>6, <1>8, <2>1, <2>3 DEF Covered
    <3>2. KeptOn(day)' = KeptOn(day) + cost
      BY <1>6, <2>1, <2>2, <2>3
    <3>3. KeptOn(day)' <= before + cost
      BY <1>6, <2>1, <3>1, <3>2
    <3>4. Covered(day)'
      BY <1>4, <1>6, <2>1, <2>2, <2>3, <3>3 DEF Covered
    <3>5. QED
      BY <1>6, <1>7, <2>1, <3>2, <3>3, <3>4
  <2>4. CASE day # today
    <3>1. KeptOn(day)' = KeptOn(day)
      BY <2>1, <2>2, <2>4
    <3>2. Covered(day)'
      BY <1>4, <1>6, <2>1, <2>2, <2>4, <3>1 DEF Covered
    <3>3. QED
      BY <2>1, <3>1, <3>2
  <2>5. QED
    BY <2>3, <2>4
<1>11. QED
  BY <1>9, <1>10 DEF CapInv, CapHoldsForKeptTurns

\* What the ledger keeps of a day's turns never costs more than the cap, through
\* midnight, crashes, restarts and failed checkpoints (BudgetGate, admission_patch).
THEOREM CapSafe == Spec => []CapHoldsForKeptTurns
<1> DEFINE P == TypeOK /\ CapInv
<1>1. Init => P
  BY AutonomyAssumption, InitTypeOK, InitCap
<1>2. P /\ [Next]_vars => P'
  <2> SUFFICES ASSUME P, [Next]_vars
               PROVE  P'
    OBVIOUS
  <2>1. TypeOK'
    BY AutonomyAssumption, NextTypeOK
  <2>2. CapInv'
    BY AutonomyAssumption, StepsOfHistory, CapKept, CapAdmitted
  <2>3. QED
    BY <2>1, <2>2
<1>3. P => CapHoldsForKeptTurns
  BY DEF CapInv
<1>4. QED
  BY <1>1, <1>2, <1>3, PTL DEF Spec
-------------------------------------------------------------------------------
(* The checkpoints *)

\* The stretched period of the checkpoint never outlasts the cooldown.
LEMMA PeriodBelowCooldown ==
  ASSUME AutonomyAssumption, FlushBeatsCooldown, NEW l \in Levels
  PROVE  CheckpointPeriod * Stretch[l] \in Nat /\ CheckpointPeriod * Stretch[l] <= Cooldown
<1>1. CheckpointPeriod \in Nat /\ Stretch[l] \in Nat
  BY DEF AutonomyAssumption
<1>2. QED
  BY <1>1 DEF FlushBeatsCooldown

LEMMA CheckpointStep ==
  ASSUME AutonomyAssumption, FlushBeatsCooldown, TypeOK, CheckpointInv, [Next]_vars
  PROVE  CheckpointInv'
<1>0. /\ "checkpoint" \in Jobs /\ "checkpoint" \notin TurnJobs /\ now \in Nat \ {0}
      /\ lastRun["checkpoint"] \in Nat /\ Cooldown \in Nat \ {0}
  <2>1. "checkpoint" \in Jobs /\ "checkpoint" \notin TurnJobs
    BY DEF Jobs, TurnJobs
  <2>2. QED
    BY <2>1, ClockTyped
<1>1. CASE BeginTick
  <2>1. PICK period : period = CheckpointPeriod * Stretch[level']
    OBVIOUS
  <2>2. period \in Nat /\ period <= Cooldown
    BY <1>1, <2>1, PeriodBelowCooldown DEF BeginTick
  <2>3. due' = {job \in Jobs : IsDue(job, Stretch[level'])} /\ now' = now /\ lastRun' = lastRun
    BY <1>1 DEF BeginTick
  <2>4. "checkpoint" \notin due' => ~IntervalDue("checkpoint", period)
    BY <1>0, <2>1, <2>3 DEF IsDue
  <2>5. "checkpoint" \notin due' => lastRun["checkpoint"] # 0 /\ now - lastRun["checkpoint"] < period
    BY <1>0, <2>2, <2>4 DEF IntervalDue
  <2>6. QED
    BY <1>0, <2>2, <2>3, <2>5 DEF CheckpointInv
<1>2. CASE RunCheckpoint
  <2>1. now' = now /\ lastRun'["checkpoint"] = now
    BY <1>0, <1>2, TakeTyped DEF RunCheckpoint
  <2>2. QED
    BY <1>0, <2>1 DEF CheckpointInv
<1>3. ASSUME NEW job \in TurnJobs, Admit(job) \/ PassOver(job)
      PROVE  CheckpointInv'
  <2>1. TakeDue(job) /\ job \in Jobs /\ job # "checkpoint"
    BY <1>0, <1>3 DEF Admit, PassOver, Jobs
  <2>2. /\ now' = now /\ lastRun'["checkpoint"] = lastRun["checkpoint"]
        /\ "checkpoint" \notin due' => "checkpoint" \notin due
    BY <1>0, <2>1, TakeTyped
  <2>3. ticked' = ticked
    BY <2>1 DEF TakeDue
  <2>4. QED
    BY <2>2, <2>3 DEF CheckpointInv
<1>4. CASE OwnerWrites \/ TurnEnds \/ UNCHANGED vars
  BY <1>4 DEF OwnerWrites, TurnEnds, vars, tickVars, CheckpointInv
<1>5. CASE Advance \/ Crash \/ Shutdown
  BY <1>5 DEF Advance, Crash, Shutdown, Boot, CheckpointInv
<1>6. QED
  BY <1>1, <1>2, <1>3, <1>4, <1>5 DEF Next

\* What a step does to the turns in memory and to the checkpoint's mark: it leaves both,
\* it tries and fails, it finds nothing to save, it saves, it loses, or it admits.
LEMMA StepsOfMemory ==
  ASSUME AutonomyAssumption, TypeOK, [Next]_vars
  PROVE  \/ /\ Leaves /\ UNCHANGED <<deaths, faults>>
            /\ lastRun'["checkpoint"] = lastRun["checkpoint"]
         \/ Leaves /\ faults' = faults + 1 /\ deaths' = deaths
         \/ /\ (Leaves /\ ~dirty) \/ Saves
            /\ faults' = faults /\ deaths' \in {deaths, deaths + 1}
         \/ Crash
         \/ \E job \in TurnJobs : Admit(job)
<1>0. "checkpoint" \in Jobs /\ "checkpoint" \notin TurnJobs
  BY DEF Jobs, TurnJobs
<1>1. CASE BeginTick
  BY <1>1 DEF BeginTick, stateVars, Leaves
<1>2. CASE RunCheckpoint
  <2>1. UNCHANGED <<now, ledger, interaction, deaths>>
    BY <1>2 DEF RunCheckpoint, TakeDue
  <2>2. CASE Flush
    <3>1. faults' = faults /\ (Saves \/ Leaves) /\ (dirty => Saves)
      BY <2>1, <2>2, FlushSaves
    <3>2. QED
      BY <2>1, <3>1
  <2>3. CASE FlushFails
    BY <2>1, <2>3 DEF FlushFails, Leaves
  <2>4. QED
    BY <1>2, <2>2, <2>3 DEF RunCheckpoint
<1>3. ASSUME NEW job \in TurnJobs, PassOver(job)
      PROVE  /\ Leaves /\ UNCHANGED <<deaths, faults>>
             /\ lastRun'["checkpoint"] = lastRun["checkpoint"]
  <2>1. TakeDue(job) /\ job \in Jobs /\ job # "checkpoint"
    BY <1>0, <1>3 DEF PassOver, Jobs
  <2>2. lastRun'["checkpoint"] = lastRun["checkpoint"] /\ now' = now /\ deaths' = deaths
    BY <1>0, <2>1, TakeTyped
  <2>3. QED
    BY <1>3, <2>2 DEF PassOver, stateVars, Leaves
<1>4. CASE OwnerWrites
  BY <1>4 DEF OwnerWrites, tickVars, Leaves
<1>5. CASE TurnEnds
  BY <1>5 DEF TurnEnds, stateVars, tickVars, Leaves
<1>6. CASE Advance
  BY <1>6 DEF Advance, stateVars, Leaves
<1>7. CASE Shutdown
  <2>1. Flush /\ UNCHANGED <<now, ledger, interaction>> /\ deaths' = deaths + 1
    BY <1>7 DEF Shutdown, Boot
  <2>2. faults' = faults /\ (Saves \/ Leaves) /\ (dirty => Saves)
    BY <2>1, FlushSaves
  <2>3. QED
    BY <2>1, <2>2
<1>8. CASE UNCHANGED vars
  BY <1>8 DEF vars, stateVars, tickVars, Leaves
<1>9. QED
  BY <1>1, <1>2, <1>3, <1>4, <1>5, <1>6, <1>7, <1>8 DEF Next

\* The turns in memory and the lost ones are finitely many, and none is both.
LEMMA CountsTyped ==
  ASSUME TypeOK
  PROVE  /\ IsFiniteSet(Unflushed) /\ Cardinality(Unflushed) \in Nat
         /\ IsFiniteSet(Lost) /\ Cardinality(Lost) \in Nat
         /\ Cardinality(Unflushed) = 0 <=> Unflushed = {}
         /\ Cardinality(Lost \cup Unflushed) = Cardinality(Lost) + Cardinality(Unflushed)
<1>1. IsFiniteSet(1..Len(admitted)) /\ DOMAIN admitted = 1..Len(admitted)
  BY HistoryTyped, FS_Interval
<1>2. Unflushed \subseteq DOMAIN admitted /\ Lost \subseteq DOMAIN admitted
  BY DEF Unflushed, Lost
<1>3. IsFiniteSet(Unflushed) /\ IsFiniteSet(Lost)
  BY <1>1, <1>2, FS_Subset
<1>4. Lost \cap Unflushed = {}
  BY DEF Lost, Unflushed
<1>5. /\ Cardinality(Unflushed) \in Nat /\ Cardinality(Lost) \in Nat
      /\ Cardinality(Unflushed) = 0 <=> Unflushed = {}
  BY <1>3, FS_CardinalityType, FS_EmptySet
<1>6. Cardinality(Lost \cup Unflushed) =
        Cardinality(Lost) + Cardinality(Unflushed) - Cardinality(Lost \cap Unflushed)
  BY <1>3, FS_Union
<1>7. Cardinality(Lost \cap Unflushed) = 0
  BY <1>4, FS_EmptySet
<1>8. QED
  BY <1>3, <1>5, <1>6, <1>7
\* Before an admission every turn in memory has had its checkpoint: the tick has marked
\* one less than a cooldown ago, and the latest turn is older than that.
LEMMA TriedBeforeAdmission ==
  ASSUME AutonomyAssumption, TypeOK, ClockInv, LatestIsStamped, RamIsLatest, CheckpointInv,
         NEW job \in TurnJobs, Admit(job)
  PROVE  AllTried
<1>1. lastRun["checkpoint"] # 0 /\ now - lastRun["checkpoint"] < Cooldown
  <2>1. job \in due /\ due \cap Before(job) = {}
    BY DEF Admit, TakeDue
  <2>2. "checkpoint" \in Before(job)
    BY DEF Before, TurnJobs
  <2>3. ticked
    BY <2>1 DEF ClockInv
  <2>4. QED
    BY <2>1, <2>2, <2>3 DEF CheckpointInv
<1>2. SUFFICES ASSUME NEW i \in Unflushed
               PROVE  admitted[i].at < lastRun["checkpoint"]
  BY DEF AllTried
<1>3. i \in DOMAIN admitted /\ admitted[i].kept = "ram"
  BY DEF Unflushed
<1>4. PICK n \in Nat : n = Len(admitted) /\ n # 0 /\ i \in 1..n /\ n \in DOMAIN admitted
  <2>1. Len(admitted) \in Nat /\ DOMAIN admitted = 1..Len(admitted)
    BY HistoryTyped
  <2>2. i \in 1..Len(admitted) /\ Len(admitted) # 0 /\ Len(admitted) \in DOMAIN admitted
    BY <1>3, <2>1
  <2>3. QED
    BY <2>1, <2>2
<1>5. admitted[n].kept = "ram" /\ admitted[i].at <= admitted[n].at
  <2>1. CASE i = n
    <3>1. admitted[n].at \in Nat
      BY <1>4, HistoryTyped
    <3>2. QED
      BY <1>3, <2>1, <3>1
  <2>2. CASE i < n
    BY <1>3, <1>4, <2>2 DEF RamIsLatest
  <2>3. QED
    BY <1>4, <2>1, <2>2
<1>6. admitted[n].at + Cooldown <= now
  BY <1>4, <1>5, AdmittedCool
<1>7. /\ admitted[i].at \in Nat /\ admitted[n].at \in Nat /\ now \in Nat /\ Cooldown \in Nat
      /\ lastRun["checkpoint"] \in Nat
  BY <1>3, <1>4, HistoryTyped, ClockTyped DEF Jobs
<1>8. QED
  BY <1>1, <1>5, <1>6, <1>7

LEMMA InitForget ==
  ASSUME AutonomyAssumption, Init
  PROVE  CheckpointInv /\ ForgetInv
<1>1. Unflushed = {} /\ Lost = {} /\ deaths = 0 /\ faults = 0
  BY DEF Init, Unflushed, Lost
<1>2. ForgetInv
  BY <1>1, FS_EmptySet DEF ForgetInv
<1>3. CheckpointInv
  BY DEF Init, CheckpointInv
<1>4. QED
  BY <1>2, <1>3

LEMMA ForgetStep ==
  ASSUME AutonomyAssumption, TypeOK, ClockInv, LatestIsStamped, RamIsLatest, CheckpointInv,
         ForgetInv, [Next]_vars
  PROVE  ForgetInv'
<1>0. PICK u \in Nat, l \in Nat : u = Cardinality(Unflushed) /\ l = Cardinality(Lost)
  BY CountsTyped
<1>1. /\ deaths \in Nat /\ faults \in Nat
      /\ u <= faults + 1 /\ (AllTried => u <= faults)
      /\ l + u <= deaths + faults + 1 /\ (AllTried => l + u <= deaths + faults)
      /\ (u = 0 => AllTried) /\ (Unflushed = {} => u = 0)
  BY <1>0, ClockTyped, CountsTyped DEF ForgetInv, AllTried
<1>2. ASSUME Unflushed' = Unflushed, Lost' = Lost
      PROVE  Cardinality(Unflushed)' = u /\ Cardinality(Lost)' = l
  BY <1>0, <1>2
<1>3. ASSUME Unflushed' = {}
      PROVE  Cardinality(Unflushed)' = 0
  BY <1>3, FS_EmptySet
\* A step that empties the memory pays its lost turns with the deaths and faults so far.
<1>4. ASSUME Cardinality(Unflushed)' = 0, Cardinality(Lost)' = l, l <= deaths + faults,
             faults' = faults, deaths' \in {deaths, deaths + 1}
      PROVE  ForgetInv'
  <2>1. 0 <= faults' /\ 0 <= faults' + 1
    BY <1>1, <1>4
  <2>2. l + 0 <= deaths' + faults' /\ l + 0 <= deaths' + faults' + 1
    <3>1. CASE deaths' = deaths
      BY <1>0, <1>1, <1>4, <3>1
    <3>2. CASE deaths' = deaths + 1
      BY <1>0, <1>1, <1>4, <3>2
    <3>3. QED
      BY <1>4, <3>1, <3>2
  <2>3. QED
    BY <1>4, <2>1, <2>2 DEF ForgetInv
<1>5. ASSUME Leaves
      PROVE  /\ admitted' = admitted
             /\ Cardinality(Unflushed)' = u /\ Cardinality(Lost)' = l
  BY <1>2, <1>5 DEF Leaves, history, Unflushed, Lost
<1>6. CASE Leaves /\ UNCHANGED <<deaths, faults>> /\ lastRun'["checkpoint"] = lastRun["checkpoint"]
  <2>1. AllTried' <=> AllTried
    BY <1>5, <1>6 DEF AllTried, Unflushed
  <2>2. QED
    BY <1>1, <1>5, <1>6, <2>1 DEF ForgetInv
<1>7. CASE Leaves /\ faults' = faults + 1 /\ deaths' = deaths
  BY <1>1, <1>5, <1>7 DEF ForgetInv
<1>8. CASE Leaves /\ ~dirty /\ faults' = faults /\ deaths' \in {deaths, deaths + 1}
  <2>1. Unflushed = {}
    BY <1>8 DEF RamIsLatest, Unflushed
  <2>2. u = 0 /\ l <= deaths + faults
    BY <1>1, <2>1
  <2>3. Cardinality(Unflushed)' = 0 /\ Cardinality(Lost)' = l
    BY <1>5, <1>8, <2>2
  <2>4. QED
    BY <1>4, <1>8, <2>2, <2>3
<1>9. CASE Saves /\ faults' = faults /\ deaths' \in {deaths, deaths + 1}
  <2>1. /\ DOMAIN admitted' = DOMAIN admitted
        /\ \A i \in DOMAIN admitted :
             admitted'[i].kept = IF admitted[i].kept = "ram" THEN "disk" ELSE admitted[i].kept
    BY <1>9, MovesFacts DEF Saves
  <2>2. Unflushed' = {} /\ Lost' = Lost
    BY <2>1 DEF Unflushed, Lost
  <2>3. Cardinality(Unflushed)' = 0 /\ Cardinality(Lost)' = l
    BY <1>0, <1>3, <2>2
  <2>4. l <= deaths + faults
    BY <1>1
  <2>5. QED
    BY <1>4, <1>9, <2>3, <2>4
<1>10. CASE Crash
  <2>1. /\ DOMAIN admitted' = DOMAIN admitted
        /\ \A i \in DOMAIN admitted :
             admitted'[i].kept = IF admitted[i].kept = "ram" THEN "lost" ELSE admitted[i].kept
    BY <1>10, MovesFacts DEF Crash
  <2>2. Unflushed' = {} /\ Lost' = Lost \cup Unflushed
    BY <2>1 DEF Unflushed, Lost
  <2>3. Cardinality(Unflushed)' = 0 /\ Cardinality(Lost)' = l + u
    BY <1>0, <1>3, <2>2, CountsTyped
  <2>4. deaths' = deaths + 1 /\ faults' = faults
    BY <1>10 DEF Crash, Boot
  <2>5. QED
    BY <1>1, <2>3, <2>4 DEF ForgetInv
<1>11. ASSUME NEW job \in TurnJobs, Admit(job)
       PROVE  ForgetInv'
  <2>1. /\ DOMAIN admitted' = 1..(Len(admitted) + 1)
        /\ \A i \in 1..Len(admitted) : admitted'[i] = admitted[i]
        /\ admitted'[Len(admitted) + 1].at = now /\ admitted'[Len(admitted) + 1].kept = "ram"
        /\ faults' = faults
    BY <1>11, AdmitFacts
  <2>2. PICK n \in Nat : n = Len(admitted) /\ DOMAIN admitted = 1..n
    BY HistoryTyped
  <2>3. Unflushed' = Unflushed \cup {n + 1} /\ Lost' = Lost
    BY <2>1, <2>2 DEF Unflushed, Lost
  <2>4. n + 1 \notin Unflushed
    <3>1. n + 1 \notin 1..n
      OBVIOUS
    <3>2. QED
      BY <2>2, <3>1 DEF Unflushed
  <2>5. Cardinality(Unflushed)' = u + 1 /\ Cardinality(Lost)' = l
    BY <1>0, <2>3, <2>4, CountsTyped, FS_AddElement
  <2>6. AllTried
    BY <1>11, TriedBeforeAdmission
  <2>7. ~AllTried'
    <3>1. n + 1 \in Unflushed'
      BY <2>3
    <3>2. lastRun'["checkpoint"] = lastRun["checkpoint"] /\ lastRun["checkpoint"] <= now
      <4>1. TakeDue(job) /\ job \in Jobs /\ job # "checkpoint" /\ "checkpoint" \in Jobs
        BY <1>11 DEF Admit, Jobs, TurnJobs
      <4>2. QED
        BY <4>1, TakeTyped DEF ClockInv
    <3>3. now \in Nat /\ lastRun["checkpoint"] \in Nat
      BY ClockTyped DEF Jobs
    <3>4. ~(admitted'[n + 1].at < lastRun'["checkpoint"])
      BY <2>1, <2>2, <3>2, <3>3
    <3>5. QED
      BY <3>1, <3>4 DEF AllTried
  <2>8. deaths' = deaths
    BY <1>11 DEF Admit, TakeDue
  <2>9. QED
    BY <1>1, <2>1, <2>5, <2>6, <2>7, <2>8 DEF ForgetInv
<1>12. QED
  BY <1>6, <1>7, <1>8, <1>9, <1>10, <1>11, StepsOfMemory

\* A crash makes the ledger forget one turn at the most, and one more for every
\* checkpoint that failed: with the default cadences the next checkpoint comes round
\* before the cooldown lets another turn in (_checkpoint_if_dirty, BudgetGate, PowerGate).
THEOREM ForgetSafe == Spec => []CrashForgetsOneTurn
<1> DEFINE P == TypeOK /\ ClockInv /\ LatestIsStamped /\ RamIsLatest /\ CheckpointInv /\ ForgetInv
<1>1. Init => P
  BY AutonomyAssumption, InitTypeOK, InitClock, InitForget DEF PaceInv
<1>2. P /\ [Next]_vars => P'
  <2> SUFFICES ASSUME P, [Next]_vars
               PROVE  P'
    OBVIOUS
  <2>1. TypeOK'
    BY AutonomyAssumption, NextTypeOK
  <2>2. ClockInv'
    BY <2>1, AutonomyAssumption, ClockStep
  <2>3. LatestIsStamped' /\ RamIsLatest'
    BY AutonomyAssumption, StampStep
  <2>4. CheckpointInv'
    BY AutonomyAssumption, FlushBeatsCooldown, CheckpointStep
  <2>5. ForgetInv'
    BY AutonomyAssumption, ForgetStep
  <2>6. QED
    BY <2>1, <2>2, <2>3, <2>4, <2>5
<1>3. P => CrashForgetsOneTurn
  <2> SUFFICES ASSUME P
               PROVE  CrashForgetsOneTurn
    OBVIOUS
  <2>1. PICK u \in Nat, l \in Nat : u = Cardinality(Unflushed) /\ l = Cardinality(Lost)
    BY CountsTyped
  <2>2. u = 0 => AllTried
    BY <2>1, CountsTyped DEF AllTried
  <2>3. deaths \in Nat /\ faults \in Nat
    BY AutonomyAssumption, ClockTyped
  <2>4. u <= 1 + faults /\ l <= deaths + faults
    BY <2>1, <2>2, <2>3 DEF ForgetInv
  <2>5. QED
    BY <2>1, <2>4 DEF CrashForgetsOneTurn
<1>4. QED
  BY <1>1, <1>2, <1>3, PTL DEF Spec
===============================================================================
