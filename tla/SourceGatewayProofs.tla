------------------------- MODULE SourceGatewayProofs -------------------------
(***************************************************************************)
(* Proofs about SourceGateway, for any settings, searches, delays and      *)
(* bounds: types, whom a session may call, the spacing of its calls, and   *)
(* that a refusal is not tried again.                                      *)
(***************************************************************************)
EXTENDS SourceGateway, TLAPS

-----------------------------------------------------------------------------
(* The inductive invariant.                                                *)

\* Rows are never removed: what was loaded is still there.
Registry ==
  /\ source \in [Sources -> RowType] /\ have \in [Sources -> RowType]
  /\ \A s \in Sources : have[s].there => source[s].there
  /\ toggle # NoToggle => /\ toggle \in [of : Sources, to : BOOLEAN, was : RowType]
                          /\ source[toggle.of].there

Busy     == Inside \cup {"begin", "wait", "backoff"}
Outcomes == Failure \cup {"SUCCEEDED"}

\* A session may ask its source; a busy one has an open job, and one that backs off
\* has attempts left for it.
Progress ==
  /\ run \in {"none", "open", "done"}
  /\ job \in [Jobs -> {"ABSENT", "OPEN", "SUCCEEDED"} \cup Failure]
  /\ tries \in [Jobs -> 0..MaxAttempts]
  /\ pc \in Places
  /\ conf \in Settings /\ asked \in Sources
  /\ cur \in Jobs \cup {NoJob}
  /\ pc # "idle" => MayAsk(conf, asked)
  /\ pc \in Busy => cur \in Jobs /\ job[cur] = "OPEN"
  /\ pc = "backoff" => tries[cur] < MaxAttempts
  /\ heard \in {"TRANSIENT", "none"}

\* What was checked on the way to where the session stands.
Checked ==
  /\ pc \in Inside \cup {"wait"} => Registered(conf, cur[1])
  /\ pc = "call" => cur[1] = "DUFFEL"
  /\ pc \in {"robots", "delay", "render"} => cur[1] = "WEB" /\ Permitted(conf)
  /\ pc \in {"delay", "render"} => rules.read /\ Allowed(rules)

\* The next slot is as far away as the silence is short, and the adapter knows
\* when it left its last page.
Clocks ==
  /\ slot \in [Sources -> 0..Interval] /\ silent \in [Sources -> 0..Interval]
  /\ age \in 0..CrawlDelay /\ budget \in 0..Timeout
  /\ \A s \in Sources : slot[s] + silent[s] >= Interval
  /\ age = quiet

SessionInv == Progress /\ Checked /\ Clocks

-----------------------------------------------------------------------------
(* The registry.                                                           *)

LEMMA RowFacts ==
  /\ \A r \in RowType : /\ r.enabled \in BOOLEAN /\ r.approved \in BOOLEAN
                        /\ r.there => \E e, a \in BOOLEAN : r = Row(e, a)
  /\ \A e, a \in BOOLEAN : Row(e, a) \in RowType /\ Row(e, a).there
  /\ NoRow \in RowType /\ ~NoRow.there
<1>1. NoRow.there = FALSE /\ NoRow.enabled = FALSE /\ NoRow.approved = FALSE
  BY DEF NoRow
<1>2. \A e, a \in BOOLEAN : /\ Row(e, a).there = TRUE
                            /\ Row(e, a).enabled = e /\ Row(e, a).approved = a
  BY DEF Row
<1>3. \A e, a \in BOOLEAN : Row(e, a) \in RowType
  BY DEF RowType
<1>4. \A r \in RowType : r = NoRow \/ \E e, a \in BOOLEAN : r = Row(e, a)
  BY DEF RowType
<1>5. NoRow \in RowType
  BY DEF RowType
<1> QED BY <1>1, <1>2, <1>3, <1>4, <1>5

LEMMA WantedIsRow ==
  ASSUME NEW c \in Settings, NEW s \in Sources
  PROVE  \E e, a \in BOOLEAN : Wanted(c, s) = Row(e, a)
BY GatewayAssumption DEF SettingsRow, Wanted

\* Writing back some columns of a row leaves a row.
LEMMA FlushedRow ==
  ASSUME NEW e \in BOOLEAN, NEW a \in BOOLEAN, NEW loaded, NEW wanted,
         wanted.there = loaded.there, wanted.enabled \in BOOLEAN, wanted.approved \in BOOLEAN
  PROVE  \E f, b \in BOOLEAN : Flushed(Row(e, a), loaded, wanted) = Row(f, b)
<1> DEFINE f == IF wanted["enabled"] # loaded["enabled"] THEN wanted["enabled"] ELSE e
           b == IF wanted["approved"] # loaded["approved"] THEN wanted["approved"] ELSE a
           now == Row(e, a)
<1>1. DOMAIN now = {"there", "enabled", "approved"}
  BY DEF Row
<1>2. now["there"] = TRUE /\ now["enabled"] = e /\ now["approved"] = a
  BY DEF Row
<1>3. wanted["there"] = loaded["there"] /\ f \in BOOLEAN /\ b \in BOOLEAN
  OBVIOUS
<1> DEFINE g == Flushed(now, loaded, wanted)
<1>4. g = [x \in {"there", "enabled", "approved"} |->
             IF x = "there" THEN TRUE ELSE IF x = "enabled" THEN f ELSE b]
  <2> SUFFICES ASSUME NEW x \in {"there", "enabled", "approved"}
       PROVE (IF wanted[x] # loaded[x] THEN wanted[x] ELSE now[x]) =
             IF x = "there" THEN TRUE ELSE IF x = "enabled" THEN f ELSE b
    BY <1>1 DEF Flushed
  <2> HIDE DEF now
  <2> QED BY <1>2, <1>3
<1> HIDE DEF f, b, now, g
<1>5. Row(f, b) = [x \in {"there", "enabled", "approved"} |->
             IF x = "there" THEN TRUE ELSE IF x = "enabled" THEN f ELSE b]
  <2>1. Row(f, b) = [x \in {"there", "enabled", "approved"} |-> Row(f, b)[x]]
    BY DEF Row
  <2>2. Row(f, b)["there"] = TRUE /\ Row(f, b)["enabled"] = f /\ Row(f, b)["approved"] = b
    BY DEF Row
  <2> QED BY <2>1, <2>2
<1> QED BY <1>3, <1>4, <1>5 DEF g, now

LEMMA FlushedType ==
  ASSUME NEW now \in RowType, now.there, NEW loaded, NEW wanted,
         wanted.there = loaded.there, wanted.enabled \in BOOLEAN, wanted.approved \in BOOLEAN
  PROVE  Flushed(now, loaded, wanted) \in RowType /\ Flushed(now, loaded, wanted).there
<1>1. PICK e, a \in BOOLEAN : now = Row(e, a)
  BY RowFacts
<1>2. PICK f, b \in BOOLEAN : Flushed(now, loaded, wanted) = Row(f, b)
  BY <1>1, FlushedRow
<1> QED BY <1>2, RowFacts

LEMMA RegistryInit == Init => Registry
BY RowFacts DEF Init, Registry

LEMMA RegistrySame ==
  ASSUME Registry, UNCHANGED <<source, toggle>>, have' = have \/ have' = source
  PROVE  Registry'
BY DEF Registry

LEMMA RegistryLeave == ASSUME Registry, Leave, UNCHANGED source PROVE Registry'
<1>1. have' = [s \in Sources |-> NoRow] /\ toggle' = toggle
  BY DEF Leave
<1> QED BY <1>1, RowFacts DEF Registry

\* Writing rows, all of them there.
LEMMA RegistryWrite ==
  ASSUME Registry, source' \in [Sources -> RowType], \A s \in Sources : source'[s].there,
         have' \in [Sources -> RowType], UNCHANGED toggle
  PROVE  Registry'
BY DEF Registry

LEMMA RegistrySeed == ASSUME Registry, SeedCommit, conf \in Settings PROVE Registry'
<1>1. ASSUME NEW s \in Sources
      PROVE  source'[s] \in RowType /\ source'[s].there /\ have'[s] \in RowType
  <2>1. PICK e, a \in BOOLEAN : Wanted(conf, s) = Row(e, a)
    BY WantedIsRow
  <2>2. /\ Wanted(conf, s) \in RowType /\ Wanted(conf, s).there = TRUE
        /\ Wanted(conf, s).enabled \in BOOLEAN /\ Wanted(conf, s).approved \in BOOLEAN
    <3>1. Row(e, a).there = TRUE /\ Row(e, a).enabled = e /\ Row(e, a).approved = a
      BY DEF Row
    <3> QED BY <2>1, <3>1, RowFacts
  <2>3. have'[s] = Wanted(conf, s)
    BY DEF SeedCommit
  <2>4. CASE have[s].there
    <3>1. source'[s] = Flushed(source[s], have[s], Wanted(conf, s))
      BY <2>4 DEF SeedCommit
    <3>2. source[s] \in RowType /\ source[s].there /\ have[s].there = TRUE
      BY <2>4 DEF Registry, RowType, Row, NoRow
    <3> QED BY <2>2, <2>3, <3>1, <3>2, FlushedType
  <2>5. CASE ~have[s].there
    BY <2>2, <2>3, <2>5 DEF SeedCommit
  <2> QED BY <2>4, <2>5
<1>2. source' \in [Sources -> RowType] /\ have' \in [Sources -> RowType]
  BY <1>1 DEF SeedCommit
<1> QED BY <1>1, <1>2, RegistryWrite DEF SeedCommit, Goto

LEMMA RegistryElsewhere ==
  ASSUME Registry, NEW c \in Settings, SeedElsewhere(c)
  PROVE  Registry'
<1>1. ASSUME NEW s \in Sources PROVE source'[s] \in RowType /\ source'[s].there
  <2>1. PICK e, a \in BOOLEAN : Wanted(c, s) = Row(e, a)
    BY WantedIsRow
  <2> QED BY <2>1, RowFacts DEF SeedElsewhere
<1>2. source' \in [Sources -> RowType]
  BY <1>1 DEF SeedElsewhere
<1> QED BY <1>1, <1>2, RegistryWrite DEF SeedElsewhere, Registry, session

LEMMA RegistryToggleLoad ==
  ASSUME Registry, NEW s \in Sources, NEW to \in BOOLEAN, ToggleLoad(s, to)
  PROVE  Registry'
<1>1. toggle' = [of |-> s, to |-> to, was |-> source[s]] /\ source[s].there
      /\ UNCHANGED <<source, have>>
  BY DEF ToggleLoad, database, session
<1>2. toggle' \in [of : Sources, to : BOOLEAN, was : RowType] /\ toggle'.of = s
  BY <1>1 DEF Registry
<1> QED BY <1>1, <1>2 DEF Registry

LEMMA RegistryToggleCommit == ASSUME Registry, ToggleCommit PROVE Registry'
<1> DEFINE s == toggle.of
           wanted == [toggle.was EXCEPT !.enabled = toggle.to]
<1>1. /\ s \in Sources /\ toggle.to \in BOOLEAN /\ toggle.was \in RowType
      /\ source[s].there /\ source[s] \in RowType
  BY DEF Registry, ToggleCommit
<1>2. /\ wanted.there = toggle.was.there /\ wanted.enabled = toggle.to
      /\ wanted.approved = toggle.was.approved
  BY <1>1 DEF RowType, Row, NoRow
<1>3. wanted.enabled \in BOOLEAN /\ wanted.approved \in BOOLEAN
  BY <1>1, <1>2, RowFacts
<1>4. source' = [source EXCEPT ![s] = Flushed(source[s], toggle.was, wanted)]
  BY DEF ToggleCommit
<1> HIDE DEF wanted
<1>5. /\ Flushed(source[s], toggle.was, wanted) \in RowType
      /\ Flushed(source[s], toggle.was, wanted).there
  BY <1>1, <1>2, <1>3, FlushedType
<1>6. source' \in [Sources -> RowType]
  BY <1>1, <1>4, <1>5 DEF Registry
<1>7. \A r \in Sources : have[r].there => source'[r].there
  BY <1>1, <1>4, <1>5 DEF Registry
<1> QED BY <1>6, <1>7 DEF ToggleCommit, Registry, session

-----------------------------------------------------------------------------
(* The session's progress and what it has checked.                         *)

USE DEF Goto

\* The name of an attempt's end is enough to know where the session goes.
LEMMA CloseKeeps ==
  ASSUME Progress, NEW o \in Outcomes, Close(o), pc \in Busy,
         UNCHANGED run, tries' \in [Jobs -> 0..MaxAttempts]
  PROVE  Progress' /\ Checked'
BY DEF Progress, Checked, Close, Outcomes, Busy, Places, Running, Inside

LEMMA EndedKeeps ==
  ASSUME Progress, NEW o \in Outcomes, Ended(o), pc \in Busy, UNCHANGED <<run, tries>>
  PROVE  Progress' /\ Checked'
<1>1. CASE Retried(o) /\ heard' = o /\ Goto("backoff") /\ UNCHANGED <<job, cur>>
  BY <1>1 DEF Retried, Progress, Checked, Busy, Places, Running, Inside
<1>2. CASE Close(o)
  BY <1>2, CloseKeeps DEF Progress
<1> QED BY <1>1, <1>2 DEF Ended

LEMMA CountedKeeps ==
  ASSUME Progress, Counted, cur \in Jobs, tries[cur] < MaxAttempts
  PROVE  tries' \in [Jobs -> 0..MaxAttempts]
BY GatewayAssumption DEF Progress, Counted

LEMMA LeaveKeeps ==
  ASSUME Progress, Clocks, Leave, run' \in {"none", "open", "done"}, UNCHANGED <<job, tries>>
  PROVE  SessionInv'
<1>1. Progress'
  BY DEF Leave, Progress, Busy, Places, Inside
<1>2. Checked'
  BY DEF Leave, Checked, Inside
<1>3. Clocks'
  BY GatewayAssumption DEF Leave, Clocks
<1> QED BY <1>1, <1>2, <1>3 DEF SessionInv

LEMMA ClocksSame ==
  ASSUME Clocks, UNCHANGED <<slot, silent, age, quiet>>, budget' \in 0..Timeout
  PROVE  Clocks'
BY DEF Clocks

LEMMA Delays == 0 \in 0..Timeout /\ Timeout \in 0..Timeout /\ Interval \in Nat /\ CrawlDelay \in Nat
BY GatewayAssumption

LEMMA BudgetType == ASSUME Clocks PROVE budget \in 0..Timeout
BY DEF Clocks

\* A call books the next slot.
LEMMA CallClocks ==
  ASSUME Clocks, Progress, pc \in Busy, Call, budget' \in 0..Timeout
  PROVE  Clocks'
<1>1. cur[1] \in Sources
  BY DEF Progress, Jobs
<1>2. /\ slot' = [slot EXCEPT ![cur[1]] = Interval]
      /\ silent' = [silent EXCEPT ![cur[1]] = 0]
      /\ UNCHANGED <<age, quiet>>
  BY DEF Call, NextSlot
<1> QED BY <1>1, <1>2, Delays DEF Clocks

LEMMA TickClocks == ASSUME Clocks, Tick PROVE Clocks'
<1> USE Delays DEF Up, Down
<1>1. ASSUME NEW s \in Sources
      PROVE  /\ slot'[s] \in 0..Interval /\ silent'[s] \in 0..Interval
             /\ slot'[s] + silent'[s] >= Interval
  <2>1. /\ slot[s] \in 0..Interval /\ silent[s] \in 0..Interval
        /\ slot[s] + silent[s] >= Interval
    BY DEF Clocks
  <2>2. slot'[s] = Down(slot[s]) /\ silent'[s] = Up(silent[s], Interval)
    BY DEF Tick
  <2> QED BY <2>1, <2>2
<1>2. slot' \in [Sources -> 0..Interval] /\ silent' \in [Sources -> 0..Interval]
  BY <1>1 DEF Tick
<1>3. age' \in 0..CrawlDelay /\ budget' \in 0..Timeout /\ age' = quiet'
  BY GatewayAssumption DEF Tick, Clocks
<1> QED BY <1>1, <1>2, <1>3 DEF Clocks

-----------------------------------------------------------------------------
(* Every step keeps the session's invariant.                               *)

LEMMA SessionInit == Init => SessionInv
<1> SUFFICES ASSUME Init PROVE SessionInv
  OBVIOUS
<1>1. Progress
  <2>1. job \in [Jobs -> {"ABSENT", "OPEN", "SUCCEEDED"} \cup Failure]
    BY DEF Init
  <2>2. tries \in [Jobs -> 0..MaxAttempts]
    BY GatewayAssumption DEF Init
  <2> QED BY <2>1, <2>2 DEF Init, Progress, Busy, Inside, Places
<1>2. Checked
  BY DEF Init, Checked, Inside
<1>3. Clocks
  BY GatewayAssumption DEF Init, Clocks
<1> QED BY <1>1, <1>2, <1>3 DEF SessionInv

\* Up to the worker, and between its jobs.
LEMMA PreludeStep ==
  ASSUME SessionInv, \/ \E c \in Settings, s \in Sources : Start(c, s)
                     \/ SeedCommit \/ SeedConflict \/ Check \/ Refuse \/ Plan
                     \/ Finish \/ Crash
  PROVE  SessionInv'
<1> USE DEF SessionInv
<1>1. ASSUME NEW c \in Settings, NEW s \in Sources, Start(c, s) PROVE SessionInv'
  <2>1. Progress' /\ Checked'
    BY <1>1 DEF Start, Progress, Checked, Busy, Inside, Places, database
  <2>2. Clocks'
    BY <1>1, ClocksSame, BudgetType DEF Start, adapter
  <2> QED BY <2>1, <2>2
<1>2. CASE SeedCommit
  <2>1. Progress' /\ Checked'
    BY <1>2 DEF SeedCommit, Progress, Checked, Busy, Inside, Places
  <2>2. Clocks'
    BY <1>2, ClocksSame, BudgetType DEF SeedCommit, adapter
  <2> QED BY <2>1, <2>2
<1>3. CASE Check
  <2>1. Progress' /\ Checked'
    BY <1>3 DEF Check, Progress, Checked, Busy, Inside, Places, Running, database
  <2>2. Clocks'
    BY <1>3, ClocksSame, BudgetType DEF Check, adapter
  <2> QED BY <2>1, <2>2
<1>4. CASE Plan
  <2>1. job' \in [Jobs -> {"ABSENT", "OPEN", "SUCCEEDED"} \cup Failure]
    BY <1>4 DEF Plan
  <2>2. Progress' /\ Checked'
    BY <1>4, <2>1 DEF Plan, Progress, Checked, Busy, Inside, Places, Running
  <2>3. Clocks'
    BY <1>4, ClocksSame, BudgetType DEF Plan, adapter
  <2> QED BY <2>2, <2>3
<1>5. CASE SeedConflict \/ Refuse \/ Finish \/ Crash
  <2>1. Leave /\ UNCHANGED <<job, tries>> /\ run' \in {"none", "open", "done"}
    BY <1>5 DEF SeedConflict, Refuse, Finish, Crash, database, Progress
  <2> QED BY <2>1, LeaveKeeps
<1> QED BY <1>1, <1>2, <1>3, <1>4, <1>5

\* The worker, up to the call.
LEMMA AttemptStep ==
  ASSUME SessionInv, \/ \E j \in Jobs : NextJob(j)
                     \/ Exhausted \/ Attempt \/ AttemptUnregistered
  PROVE  SessionInv'
<1> USE DEF SessionInv
<1>a. MayAttempt => pc \in Busy /\ cur \in Jobs /\ tries[cur] < MaxAttempts
  BY DEF MayAttempt, Progress, Busy
<1>1. ASSUME NEW j \in Jobs, NextJob(j) PROVE SessionInv'
  <2>1. Progress' /\ Checked'
    BY <1>1 DEF NextJob, Progress, Checked, Busy, Inside, Places, Running, database
  <2>2. Clocks'
    BY <1>1, ClocksSame, BudgetType DEF NextJob, adapter
  <2> QED BY <2>1, <2>2
<1>2. CASE Exhausted
  <2>1. "TRANSIENT" \in Outcomes /\ pc \in Busy
    BY <1>2 DEF Exhausted, Outcomes, Failure, Busy
  <2>2. Progress' /\ Checked'
    BY <1>2, <2>1, CloseKeeps DEF Exhausted, Progress
  <2>3. Clocks'
    BY <1>2, ClocksSame, BudgetType DEF Exhausted, adapter
  <2> QED BY <2>2, <2>3
<1>3. CASE Attempt
  <2>1. tries' \in [Jobs -> 0..MaxAttempts] /\ cur \in Jobs
    BY <1>3, <1>a, CountedKeeps DEF Attempt
  <2>2. Progress'
    BY <1>3, <1>a, <2>1 DEF Attempt, MayAttempt, Progress, Busy, Inside, Places, Running
  <2>3. Checked'
    BY <1>3 DEF Attempt, Checked, Inside
  <2>4. Clocks'
    BY <1>3, ClocksSame, BudgetType DEF Attempt, adapter
  <2> QED BY <2>2, <2>3, <2>4
<1>4. CASE AttemptUnregistered
  <2>1. tries' \in [Jobs -> 0..MaxAttempts] /\ pc \in Busy
    BY <1>4, <1>a, CountedKeeps DEF AttemptUnregistered
  <2>2. "INVALID" \in Outcomes
    BY DEF Outcomes, Failure
  <2>3. Progress' /\ Checked'
    BY <1>4, <2>1, <2>2, CloseKeeps DEF AttemptUnregistered
  <2>4. Clocks'
    BY <1>4, ClocksSame, BudgetType DEF AttemptUnregistered, adapter
  <2> QED BY <2>3, <2>4
<1> QED BY <1>1, <1>2, <1>3, <1>4

LEMMA CallStep ==
  ASSUME SessionInv, CallDuffel \/ CallWeb \/ CallForbidden
  PROVE  SessionInv'
<1> USE DEF SessionInv
<1>1. pc = "wait" /\ pc \in Busy /\ cur \in Jobs /\ Call
  BY DEF CallDuffel, CallWeb, CallForbidden, Call, Busy, Progress
<1>2. Registered(conf, cur[1])
  BY <1>1 DEF Checked
<1>3. CASE CallDuffel
  <2>1. Progress'
    BY <1>1, <1>3 DEF CallDuffel, Call, Progress, Busy, Inside, Places, Running
  <2>2. Checked'
    BY <1>2, <1>3 DEF CallDuffel, Checked, Inside
  <2>3. Clocks'
    BY <1>1, <1>3, CallClocks, Delays DEF CallDuffel
  <2> QED BY <2>1, <2>2, <2>3
<1>4. CASE CallWeb
  <2>1. Progress'
    BY <1>1, <1>4 DEF CallWeb, Call, Progress, Busy, Inside, Places, Running
  <2>2. Checked'
    BY <1>2, <1>4 DEF CallWeb, Checked, Inside
  <2>3. Clocks'
    BY <1>1, <1>4, CallClocks, Delays DEF CallWeb
  <2> QED BY <2>1, <2>2, <2>3
<1>5. CASE CallForbidden
  <2>1. "REFUSED" \in Outcomes /\ tries' = tries /\ run' = run
    BY <1>5 DEF Outcomes, Failure, CallForbidden, Call
  <2>2. Progress' /\ Checked'
    BY <1>1, <1>5, <2>1, CloseKeeps DEF CallForbidden, Progress
  <2>3. Clocks'
    BY <1>1, <1>5, CallClocks, BudgetType DEF CallForbidden
  <2> QED BY <2>2, <2>3
<1> QED BY <1>3, <1>4, <1>5

\* The adapters' answers; r is what robots.txt says.
LEMMA ObeyKeeps ==
  ASSUME Progress, Checked, Clocks, pc = "robots", NEW r, r.read, Obey(r), rules' = r,
         UNCHANGED <<run, tries, slot, age, quiet, silent>>
  PROVE  SessionInv'
<1>1. pc \in Busy /\ "REFUSED" \in Outcomes
  BY DEF Busy, Inside, Outcomes, Failure
<1>2. CASE Allowed(r) /\ Goto("delay") /\ UNCHANGED <<job, cur, heard, budget>>
  <2>1. Progress'
    BY <1>1, <1>2 DEF Progress, Busy, Inside, Places, Running
  <2>2. Checked'
    BY <1>2 DEF Checked, Inside, Allowed
  <2>3. Clocks'
    BY <1>2, ClocksSame, BudgetType
  <2> QED BY <2>1, <2>2, <2>3 DEF SessionInv
<1>3. CASE Ended("REFUSED") /\ budget' = 0
  BY <1>1, <1>3, EndedKeeps, ClocksSame, Delays DEF SessionInv
<1> QED BY <1>2, <1>3 DEF Obey

LEMMA AnswerStep ==
  ASSUME SessionInv, \/ \E o \in DuffelAnswers : DuffelAnswered(o)
                     \/ RobotsCached
                     \/ \E a \in SUBSET Searches, d \in {0, CrawlDelay} : RobotsRead(Rules(a, d))
                     \/ \E o \in RobotsFailures : RobotsFail(o)
                     \/ Render \/ \E o \in PageAnswers : PageAnswered(o)
                     \/ TimeOut
  PROVE  SessionInv'
<1> USE DEF SessionInv
<1>a. \A o \in DuffelAnswers \cup RobotsFailures \cup PageAnswers : o \in Outcomes
  BY DEF DuffelAnswers, RobotsFailures, PageAnswers, Outcomes, Failure
<1>b. Inside \subseteq Busy
  BY DEF Busy
<1>1. ASSUME NEW o \in DuffelAnswers, DuffelAnswered(o) PROVE SessionInv'
  <2>1. pc \in Busy
    BY <1>1 DEF DuffelAnswered, Busy, Inside
  <2> QED BY <1>a, <1>1, <2>1, EndedKeeps, ClocksSame, Delays DEF DuffelAnswered
<1>2. CASE RobotsCached
  BY <1>2, ObeyKeeps DEF RobotsCached
<1>3. ASSUME NEW a \in SUBSET Searches, NEW d \in {0, CrawlDelay}, RobotsRead(Rules(a, d))
      PROVE  SessionInv'
  <2>1. Rules(a, d).read
    BY DEF Rules
  <2> QED BY <1>3, <2>1, ObeyKeeps DEF RobotsRead
<1>4. ASSUME NEW o \in RobotsFailures, RobotsFail(o) PROVE SessionInv'
  <2>1. pc \in Busy
    BY <1>4 DEF RobotsFail, Busy, Inside
  <2> QED BY <1>a, <1>4, <2>1, EndedKeeps, ClocksSame, Delays DEF RobotsFail
<1>5. CASE Render
  <2>1. Progress'
    BY <1>5 DEF Render, Progress, Busy, Inside, Places, Running, database
  <2>2. Checked'
    BY <1>5 DEF Render, Checked, Inside, Allowed, adapter
  <2>3. Clocks'
    BY <1>5, ClocksSame, BudgetType DEF Render, adapter
  <2> QED BY <2>1, <2>2, <2>3
<1>6. ASSUME NEW o \in PageAnswers, PageAnswered(o) PROVE SessionInv'
  <2>1. pc \in Busy
    BY <1>6 DEF PageAnswered, Busy, Inside
  <2>2. Progress' /\ Checked'
    BY <1>a, <1>6, <2>1, EndedKeeps DEF PageAnswered
  <2>3. Clocks'
    BY <1>6, Delays DEF PageAnswered, Left, Clocks
  <2> QED BY <2>2, <2>3
<1>7. CASE TimeOut
  <2>1. "TRANSIENT" \in Outcomes
    BY DEF Outcomes, Failure
  <2>2. Progress' /\ Checked'
    BY <1>b, <1>7, <2>1, EndedKeeps DEF TimeOut
  <2>3. Clocks'
    BY <1>7, Delays DEF TimeOut, Left, Clocks
  <2> QED BY <2>2, <2>3
<1> QED BY <1>1, <1>2, <1>3, <1>4, <1>5, <1>6, <1>7

\* Time passes, others write the registry, or nothing happens.
LEMMA OutsideStep ==
  ASSUME SessionInv, \/ Tick \/ \E c \in Settings : SeedElsewhere(c)
                     \/ \E s \in Sources, to \in BOOLEAN : ToggleLoad(s, to)
                     \/ ToggleCommit \/ UNCHANGED vars
  PROVE  SessionInv'
<1> USE DEF SessionInv
<1>1. UNCHANGED <<run, job, tries, pc, conf, asked, cur, heard, rules>>
  BY DEF Tick, SeedElsewhere, ToggleLoad, ToggleCommit, vars, database, session, adapter
<1>2. Progress' /\ Checked'
  BY <1>1 DEF Progress, Checked, Allowed
<1>3. Tick \/ UNCHANGED <<slot, silent, age, quiet, budget>>
  BY DEF SeedElsewhere, ToggleLoad, ToggleCommit, vars, session, adapter
<1> QED BY <1>2, <1>3, TickClocks, ClocksSame, BudgetType

LEMMA SessionStep == ASSUME SessionInv, [Next]_vars PROVE SessionInv'
BY PreludeStep, AttemptStep, CallStep, AnswerStep, OutsideStep DEF Next, Step, Work

THEOREM SessionInvariant == Spec => []SessionInv
<1>1. SessionInv /\ [Next]_vars => SessionInv'
  BY SessionStep
<1> QED BY <1>1, SessionInit, PTL DEF Spec

\* The session's other steps leave the registry alone.
LEMMA WorkKeepsRegistry ==
  ASSUME Registry, Check \/ Plan \/ Work \/ Tick \/ UNCHANGED vars
  PROVE  Registry'
<1>1. CASE Check \/ Plan \/ Tick \/ UNCHANGED vars
  BY <1>1, RegistrySame DEF Check, Plan, Tick, vars, database, session
<1>2. CASE \/ \E j \in Jobs : NextJob(j)
           \/ Exhausted \/ Attempt \/ AttemptUnregistered
  BY <1>2, RegistrySame DEF NextJob, Exhausted, Attempt, AttemptUnregistered, Close, database
<1>3. CASE CallDuffel \/ CallWeb \/ CallForbidden
  BY <1>3, RegistrySame DEF CallDuffel, CallWeb, CallForbidden, Call, Close
<1>4. CASE RobotsCached \/ \E a \in SUBSET Searches, d \in {0, CrawlDelay} : RobotsRead(Rules(a, d))
  BY <1>4, RegistrySame DEF RobotsCached, RobotsRead, Obey, Ended, Close
<1>5. CASE \/ \E o \in DuffelAnswers : DuffelAnswered(o)
           \/ \E o \in RobotsFailures : RobotsFail(o)
           \/ \E o \in PageAnswers : PageAnswered(o)
           \/ Render \/ TimeOut
  BY <1>5, RegistrySame DEF DuffelAnswered, RobotsFail, PageAnswered, Render, TimeOut, Ended,
                            Close, database
<1> QED BY <1>1, <1>2, <1>3, <1>4, <1>5 DEF Work

LEMMA RegistryStep == ASSUME Registry, conf \in Settings, [Next]_vars PROVE Registry'
<1>1. ASSUME NEW c \in Settings, NEW s \in Sources, Start(c, s) PROVE Registry'
  BY <1>1, RegistrySame DEF Start, database
<1>2. CASE SeedConflict \/ Refuse \/ Finish \/ Crash
  BY <1>2, RegistryLeave DEF SeedConflict, Refuse, Finish, Crash, database
<1> QED BY <1>1, <1>2, RegistrySeed, RegistryElsewhere, RegistryToggleLoad, RegistryToggleCommit,
           WorkKeepsRegistry DEF Next, Step

-----------------------------------------------------------------------------
(* What follows.                                                           *)

\* Types, the bound on attempts and the ranges of the clocks.
THEOREM TypeCorrect == Spec => []TypeOK
<1>1. Registry /\ SessionInv /\ [Next]_vars => Registry'
  BY RegistryStep DEF SessionInv, Progress
<1>2. Spec => []Registry
  BY <1>1, RegistryInit, SessionInvariant, PTL DEF Spec
<1>3. Registry /\ SessionInv => TypeOK
  BY DEF Registry, SessionInv, Progress, Clocks, TypeOK, Failure
<1> QED BY <1>2, <1>3, SessionInvariant, PTL

\* Closing a job, or ending an attempt at it, makes no job.
LEMMA ClosePlansNothing ==
  ASSUME Progress, pc \in Busy, NEW o, Close(o) \/ Ended(o)
  PROVE  \A j \in Jobs : job[j] = "ABSENT" => job'[j] = "ABSENT"
<1>1. Close(o) \/ UNCHANGED job
  BY DEF Ended
<1>2. CASE Close(o)
  BY <1>2 DEF Close, Progress
<1> QED BY <1>1, <1>2

\* Jobs come from the planner only.
LEMMA OnlyThePlannerPlans ==
  ASSUME SessionInv, [Next]_vars, ~Plan
  PROVE  \A j \in Jobs : job[j] = "ABSENT" => job'[j] = "ABSENT"
<1> USE DEF SessionInv
<1>1. CASE \/ \E c \in Settings, s \in Sources : Start(c, s)
           \/ SeedCommit \/ SeedConflict \/ Check \/ Refuse \/ Finish \/ Crash
  BY <1>1 DEF Start, SeedCommit, SeedConflict, Check, Refuse, Finish, Crash, database
<1>2. CASE \/ \E j \in Jobs : NextJob(j)
           \/ Attempt \/ CallDuffel \/ CallWeb \/ Render
  BY <1>2 DEF NextJob, Attempt, CallDuffel, CallWeb, Render, database
<1>3. CASE Exhausted \/ AttemptUnregistered \/ CallForbidden
  <2>1. pc \in Busy
    BY <1>3 DEF Exhausted, AttemptUnregistered, CallForbidden, Call, MayAttempt, Busy
  <2> QED BY <1>3, <2>1, ClosePlansNothing DEF Exhausted, AttemptUnregistered, CallForbidden
<1>4. CASE \/ \E o \in DuffelAnswers : DuffelAnswered(o)
           \/ \E o \in RobotsFailures : RobotsFail(o)
           \/ \E o \in PageAnswers : PageAnswered(o)
           \/ TimeOut
  <2>1. pc \in Busy
    BY <1>4 DEF DuffelAnswered, RobotsFail, PageAnswered, TimeOut, Busy, Inside
  <2>2. \E o : Ended(o)
    BY <1>4 DEF DuffelAnswered, RobotsFail, PageAnswered, TimeOut
  <2> QED BY <2>1, <2>2, ClosePlansNothing
<1>5. CASE \/ RobotsCached
           \/ \E a \in SUBSET Searches, d \in {0, CrawlDelay} : RobotsRead(Rules(a, d))
  <2>1. pc \in Busy /\ \E r : Obey(r)
    BY <1>5 DEF RobotsCached, RobotsRead, Busy, Inside
  <2>2. UNCHANGED job \/ Ended("REFUSED")
    BY <2>1 DEF Obey
  <2> QED BY <2>1, <2>2, ClosePlansNothing
<1>6. CASE \/ Tick \/ \E c \in Settings : SeedElsewhere(c)
           \/ \E s \in Sources, to \in BOOLEAN : ToggleLoad(s, to)
           \/ ToggleCommit \/ UNCHANGED vars
  BY <1>6 DEF Tick, SeedElsewhere, ToggleLoad, ToggleCommit, vars, database
<1> QED BY <1>1, <1>2, <1>3, <1>4, <1>5, <1>6 DEF Next, Step, Work

\* Whatever run a session resumes, jobs are planned only for the source asked for,
\* enabled then; a session calls the source it was asked for only when that is enabled
\* and approved, any other only with its token or its permission and profile; and a
\* page is opened only where robots.txt allows it (run_duffel, run_permissioned_web,
\* CollectionPlanner, registry.get, _validate_permission, HttpRobotsChecker.check).
THEOREM OnlyPermittedCalls == Spec => CallsPermitted
<1>1. ASSUME SessionInv, [Next]_vars, NEW j \in Jobs, job[j] = "ABSENT", job'[j] # "ABSENT"
      PROVE  j[1] = asked /\ source[asked].enabled /\ MayAsk(conf, asked)
  <2>1. Plan
    BY <1>1, OnlyThePlannerPlans
  <2> QED BY <1>1, <2>1 DEF Plan, SessionInv, Progress
<1>2. SessionInv /\ SessionInv' /\ [Next]_vars =>
        [/\ \A j \in Jobs : job[j] = "ABSENT" /\ job'[j] # "ABSENT" =>
              j[1] = asked /\ source[asked].enabled /\ MayAsk(conf, asked)
         /\ pc' \in Inside => Cleared']_vars
  <2>1. SessionInv' => (pc' \in Inside => Cleared')
    BY DEF SessionInv, Progress, Checked, Cleared, Registered, Permitted, Allowed, Inside
  <2> QED BY <1>1, <2>1
<1> QED BY <1>2, SessionInvariant, PTL DEF Spec, CallsPermitted

\* Which steps call a source, and open a page.
LEMMA CallsAreCalls == ASSUME [Next]_vars, Calling PROVE Call
<1> USE DEF Calling
<1>1. CASE CallDuffel \/ CallWeb \/ CallForbidden
  BY <1>1 DEF CallDuffel, CallWeb, CallForbidden
<1>2. CASE \/ \E c \in Settings, s \in Sources : Start(c, s)
           \/ SeedCommit \/ SeedConflict \/ Check \/ Refuse \/ Plan \/ Finish \/ Crash
  BY <1>2 DEF Start, SeedCommit, SeedConflict, Check, Refuse, Plan, Finish, Crash, Leave
<1>3. CASE \/ \E j \in Jobs : NextJob(j)
           \/ Exhausted \/ Attempt \/ AttemptUnregistered
  BY <1>3 DEF NextJob, Exhausted, Attempt, AttemptUnregistered, MayAttempt
<1>4. CASE \/ \E o \in DuffelAnswers : DuffelAnswered(o)
           \/ RobotsCached
           \/ \E a \in SUBSET Searches, d \in {0, CrawlDelay} : RobotsRead(Rules(a, d))
           \/ \E o \in RobotsFailures : RobotsFail(o)
           \/ Render \/ \E o \in PageAnswers : PageAnswered(o)
           \/ TimeOut
  BY <1>4 DEF DuffelAnswered, RobotsCached, RobotsRead, RobotsFail, Render, PageAnswered,
              TimeOut, Inside
<1>5. CASE \/ Tick \/ \E c \in Settings : SeedElsewhere(c)
           \/ \E s \in Sources, to \in BOOLEAN : ToggleLoad(s, to)
           \/ ToggleCommit \/ UNCHANGED vars
  BY <1>5 DEF Tick, SeedElsewhere, ToggleLoad, ToggleCommit, vars
<1> QED BY <1>1, <1>2, <1>3, <1>4, <1>5 DEF Next, Step, Work

LEMMA PagesAreRenders ==
  ASSUME [Next]_vars, pc = "delay", pc' = "render"
  PROVE  Render
<1>1. CASE \/ \E c \in Settings, s \in Sources : Start(c, s)
           \/ SeedCommit \/ SeedConflict \/ Check \/ Refuse \/ Plan \/ Finish \/ Crash
  BY <1>1 DEF Start, SeedCommit, SeedConflict, Check, Refuse, Plan, Finish, Crash, Leave
<1>2. CASE \/ \E j \in Jobs : NextJob(j)
           \/ Exhausted \/ Attempt \/ AttemptUnregistered
           \/ CallDuffel \/ CallWeb \/ CallForbidden
  BY <1>2 DEF NextJob, Exhausted, Attempt, AttemptUnregistered, MayAttempt, Call, CallDuffel,
              CallWeb, CallForbidden
<1>3. CASE \/ \E o \in DuffelAnswers : DuffelAnswered(o)
           \/ RobotsCached
           \/ \E a \in SUBSET Searches, d \in {0, CrawlDelay} : RobotsRead(Rules(a, d))
           \/ \E o \in RobotsFailures : RobotsFail(o)
           \/ \E o \in PageAnswers : PageAnswered(o)
  BY <1>3 DEF DuffelAnswered, RobotsCached, RobotsRead, RobotsFail, PageAnswered
<1>4. CASE TimeOut
  BY <1>4 DEF TimeOut, Ended, Close
<1>5. CASE \/ Tick \/ \E c \in Settings : SeedElsewhere(c)
           \/ \E s \in Sources, to \in BOOLEAN : ToggleLoad(s, to)
           \/ ToggleCommit \/ UNCHANGED vars
  BY <1>5 DEF Tick, SeedElsewhere, ToggleLoad, ToggleCommit, vars
<1> QED BY <1>1, <1>2, <1>3, <1>4, <1>5 DEF Next, Step, Work

\* Between two calls of a source lies the limiter's interval, between two pages the
\* crawl delay, through retries, failures and timeouts (SourceRateLimiter.wait,
\* PermissionedWebAdapter.search).
THEOREM CallsAreSpaced == Spec => Spaced
<1>1. ASSUME SessionInv, [Next]_vars
      PROVE  /\ Calling => silent[cur[1]] >= Interval
             /\ pc = "delay" /\ pc' = "render" => quiet >= rules.delay
  <2>1. ASSUME Calling PROVE silent[cur[1]] >= Interval
    <3>1. cur[1] \in Sources
      <4>1. pc \in Busy
        BY <2>1 DEF Calling, Busy
      <4>2. cur \in Jobs
        BY <1>1, <4>1 DEF SessionInv, Progress
      <4> QED BY <4>2 DEF Jobs
    <3>2. slot[cur[1]] = 0 /\ silent[cur[1]] \in 0..Interval
          /\ slot[cur[1]] + silent[cur[1]] >= Interval
      BY <1>1, <2>1, <3>1, CallsAreCalls DEF Call, SessionInv, Clocks
    <3> QED BY <3>2, Delays
  <2>2. ASSUME pc = "delay", pc' = "render" PROVE quiet >= rules.delay
    BY <1>1, <2>2, PagesAreRenders DEF Render, SessionInv, Clocks
  <2> QED BY <2>1, <2>2
<1>2. SessionInv /\ [Next]_vars =>
        [/\ Calling => silent[cur[1]] >= Interval
         /\ pc = "delay" /\ pc' = "render" => quiet >= rules.delay]_vars
  BY <1>1
<1> QED BY <1>2, SessionInvariant, PTL DEF Spec, Spaced

\* Only a transient failure is followed by another call for the job, and a refused job
\* shows in the source's health (TRANSIENT_FAILURES, _health_status).
THEOREM RefusalsStand == Spec => RefusalStands
<1>1. ASSUME SessionInv, [Next]_vars
      PROVE  /\ Calling => heard \in {"TRANSIENT", "none"}
             /\ \A j \in Jobs : job'[j] = "REFUSED" =>
                  Health(j[1])' \in {"DISABLED", "PARSER_CHANGED", "BLOCKED"}
  <2>1. heard \in {"TRANSIENT", "none"}
    BY <1>1 DEF SessionInv, Progress
  <2>2. ASSUME NEW j \in Jobs, job'[j] = "REFUSED"
        PROVE  Health(j[1])' \in {"DISABLED", "PARSER_CHANGED", "BLOCKED"}
    <3>1. j \in JobsOf(j[1])'
      BY <2>2 DEF JobsOf
    <3> QED BY <2>2, <3>1 DEF Health
  <2> QED BY <2>1, <2>2
<1>2. SessionInv /\ [Next]_vars =>
        [/\ Calling => heard \in {"TRANSIENT", "none"}
         /\ \A j \in Jobs : job'[j] = "REFUSED" =>
              Health(j[1])' \in {"DISABLED", "PARSER_CHANGED", "BLOCKED"}]_vars
  BY <1>1
<1> QED BY <1>2, SessionInvariant, PTL DEF Spec, RefusalStands
=============================================================================
