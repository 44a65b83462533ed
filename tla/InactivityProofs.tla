-------------------------- MODULE InactivityProofs --------------------------
(***************************************************************************)
(* Inactivity, for any number of devices and any timeout: types, the       *)
(* distance between the timer and the user, and what a refusal means.      *)
(***************************************************************************)
EXTENDS Inactivity, TLAPS

\* While getSessionInfo goes on, the session it found expired still is, unless
\* somebody has written the timer.
StillExpired ==
  \A d \in Device :
    request[d].at = "left" /\ "expired" \in answer[d] /\ d \notin rewritten
    => now - lastActivityAt > Timeout

Inv == TypeOK /\ TimerNearUse /\ InfoTrue /\ StillExpired

Step == {"idle", "check", "touch", "show", "ask", "left", "answer"}

\* Requests that are at one of the given steps.
At(steps) == [kind : Kind, skip : BOOLEAN, at : steps, stamp : 0..now]

LEMMA InitInv == Init => Inv
  BY TimeAssumption
  DEF Init, Inv, TypeOK, TimerNearUse, InfoTrue, StillExpired, Idle, Kind

\* The steps that leave the clock, the timer and the history alone, and put a
\* request that is typed and not about to be served in the place of one that
\* is not in the middle of getSessionInfo.
LEMMA QuietStep ==
  ASSUME Inv, NEW d \in Device, NEW r, Become(d, r), UNCHANGED now, Record,
         request[d].at \in {"idle", "check", "touch"},
         r \in At({"idle", "check", "touch"}),
         r.at = "idle" <=> r = Idle
  PROVE  Inv'
  <1>1. TypeOK'
    BY DEF At, Inv, TypeOK, Become, Record
  <1>2. TimerNearUse'
    BY DEF At, Inv, TypeOK, TimerNearUse, Become, Record
  <1>3. answer[d] = {}
    BY DEF Inv, TypeOK
  <1>4. \A e \in Device : e # d => request'[e] = request[e]
    BY DEF Become, Inv, TypeOK
  <1>5. InfoTrue'
    BY <1>3, <1>4 DEF Inv, InfoTrue, Record
  <1>6. StillExpired'
    BY <1>3, <1>4 DEF Inv, StillExpired, Record
  <1> QED  BY <1>1, <1>2, <1>5, <1>6 DEF Inv

LEMMA Transitive ==
  ASSUME NEW a \in Int, NEW b \in Int, NEW c \in Int, a <= b, b <= c PROVE a <= c
  OBVIOUS

LEMMA TouchStep == ASSUME Inv, NEW d \in Device, Touch(d) PROVE Inv'
  <1> DEFINE next == IF request[d].kind \in {"use", "poll", "info"}
                     THEN [request[d] EXCEPT !.at = "show"] ELSE Idle
  <1>0. request[d] \in At(Step) /\ request[d].at = "touch" /\ answer[d] = {}
    BY DEF At, Step, Inv, TypeOK, Touch
  <1>1. request' = [request EXCEPT ![d] = next]
        /\ UNCHANGED <<now, answer, lastUse>>
        /\ rewritten' = {e \in Device : "expired" \in answer[e]}
    BY DEF Touch, AfterTouch, Become
  <1>2. next \in At({"idle", "show"})
        /\ (next.at = "idle" <=> next = Idle)
    BY <1>0, TimeAssumption DEF At, Step, Idle, Kind, Inv, TypeOK
  <1> HIDE DEF next
  <1>3. lastActivityAt' = request[d].stamp /\ lag' = Larger(lag, now - request[d].stamp)
    BY DEF Touch
  <1>4. TypeOK'
    <2>1. lag' \in 0..now /\ lastActivityAt' \in 0..now
      BY <1>0, <1>3 DEF At, Larger, Inv, TypeOK
    <2>2. rewritten' \in SUBSET Device
          /\ \A e \in Device : request'[e].at \notin {"left", "answer"} => answer'[e] = {}
      BY <1>0, <1>1 DEF Inv, TypeOK
    <2> QED  BY <1>1, <1>2, <2>1, <2>2 DEF At, Inv, TypeOK
  <1>5. now <= lastActivityAt' + lag'
    BY <1>0, <1>3 DEF At, Larger, Inv, TypeOK
  <1>6. TimerNearUse'
    <2>1. lastUse' <= lastActivityAt' + lag'
      BY <1>0, <1>1, <1>3, <1>5, <1>4 DEF At, Inv, TypeOK
    <2>2. \A e \in Device : request'[e].stamp \in Int /\ request'[e].stamp <= now
      BY <1>1, <1>4 DEF At, TypeOK
    <2>3. lastActivityAt' \in Int /\ lag' \in Int /\ now \in Int
      BY <1>0, <1>1, <1>4 DEF TypeOK, Inv
    <2>4. ASSUME NEW e \in Device PROVE request'[e].stamp <= lastActivityAt' + lag'
      <3>1. request'[e].stamp \in Int /\ request'[e].stamp <= now
        BY <2>2
      <3>2. lastActivityAt' + lag' \in Int
        BY <2>3
      <3> QED  BY ONLY <3>1, <3>2, <1>5, <2>3, Transitive
    <2> QED  BY <2>1, <2>4 DEF TimerNearUse
  <1>7. lag' \in Int /\ lag \in Int /\ lag <= lag'
    BY <1>0, <1>3 DEF At, Larger, Inv, TypeOK
  <1>8. \A e \in Device : e # d => request'[e] = request[e]
    BY <1>1 DEF Inv, TypeOK
  <1>9. InfoTrue'
    <2> SUFFICES ASSUME NEW e \in Device, "expired" \in answer[e]
                 PROVE  now - request'[e].stamp > Timeout - lag' /\ e \in rewritten'
      BY <1>1 DEF InfoTrue
    <2>1. e # d
      BY <1>0
    <2>2. now - request[e].stamp > Timeout - lag
      BY DEF Inv, InfoTrue
    <2>3. now \in Int /\ request[e].stamp \in Int /\ Timeout \in Int
      BY TimeAssumption DEF Inv, TypeOK
    <2> QED  BY <1>1, <1>7, <1>8, <2>1, <2>2, <2>3
  <1>10. StillExpired'
    BY <1>1 DEF StillExpired
  <1> QED  BY <1>4, <1>6, <1>9, <1>10 DEF Inv

LEMMA ServeStep == ASSUME Inv, NEW d \in Device, Serve(d) PROVE Inv'
  <1>0. request[d].stamp \in 0..now /\ request[d].stamp <= lastActivityAt + lag
    BY DEF Inv, TypeOK, TimerNearUse, Serve
  <1>1. lastUse' \in 0..now /\ lastUse' <= lastActivityAt + lag
    BY <1>0 DEF Serve, Larger, Inv, TypeOK, TimerNearUse
  <1>2. request' = [request EXCEPT ![d] = Idle]
        /\ UNCHANGED <<now, lastActivityAt, lag, answer, rewritten>>
    BY DEF Serve, Become
  <1>3. Idle \in At({"idle"}) /\ Idle.at = "idle"
    BY TimeAssumption DEF At, Idle, Kind, Inv, TypeOK
  <1>4. answer[d] = {}
    BY DEF Serve, Inv, TypeOK
  <1>5. TypeOK'
    BY <1>1, <1>2, <1>3, <1>4 DEF At, Inv, TypeOK
  <1>6. TimerNearUse'
    BY <1>1, <1>2, <1>3 DEF At, Inv, TypeOK, TimerNearUse
  <1>7. InfoTrue' /\ StillExpired'
    BY <1>2, <1>4 DEF Inv, TypeOK, InfoTrue, StillExpired
  <1> QED  BY <1>5, <1>6, <1>7 DEF Inv

\* A step of getSessionInfo for device d, which leaves the timer, the clock and
\* the other devices alone: what is left to show is about d.
LEMMA InfoStep ==
  ASSUME Inv, NEW d \in Device, NEW r, Become(d, r),
         UNCHANGED <<now, lastActivityAt, lastUse, lag>>,
         NEW found \in SUBSET {"expired", "left"},
         answer' = [answer EXCEPT ![d] = found],
         r \in At(Step), r.at = "idle" <=> r = Idle,
         r.at \in {"left", "answer"} \/ found = {},
         r.at \in {"show", "ask"} => r.stamp <= lastActivityAt + lag,
         rewritten' \in {rewritten, rewritten \ {d}},
         "expired" \in found =>
           /\ now - r.stamp > Timeout - lag
           /\ "left" \in found => d \in rewritten'
           /\ r.at = "left" /\ d \notin rewritten' => now - lastActivityAt > Timeout
  PROVE  Inv'
  <1>1. request'[d] = r /\ answer'[d] = found
    BY DEF Become, Inv, TypeOK
  <1>2. \A e \in Device : e # d =>
          request'[e] = request[e] /\ answer'[e] = answer[e]
          /\ (e \in rewritten' <=> e \in rewritten)
    BY DEF Become, Inv, TypeOK
  <1>3. TypeOK'
    <2>1. request' \in [Device -> At(Step)]' /\ answer' \in [Device -> SUBSET {"expired", "left"}]
      BY DEF At, Step, Become, Inv, TypeOK
    <2>2. \A e \in Device : request'[e].at = "idle" <=> request'[e] = Idle
      BY <1>1, <1>2 DEF Inv, TypeOK
    <2>3. \A e \in Device : request'[e].at \notin {"left", "answer"} => answer'[e] = {}
      BY <1>1, <1>2 DEF Inv, TypeOK
    <2>4. now' \in 0..MaxTime /\ lastActivityAt' \in 0..now' /\ rewritten' \in SUBSET Device
          /\ lastUse' \in 0..now' /\ lag' \in 0..now'
      BY DEF Inv, TypeOK
    <2> QED  BY <2>1, <2>2, <2>3, <2>4 DEF At, Step, TypeOK
  <1>4. TimerNearUse'
    BY <1>1, <1>2 DEF Inv, TimerNearUse
  <1>5. InfoTrue'
    BY <1>1, <1>2 DEF Inv, InfoTrue
  <1>6. StillExpired'
    BY <1>1, <1>2 DEF Inv, StillExpired
  <1> QED  BY <1>3, <1>4, <1>5, <1>6 DEF Inv

LEMMA ShowStep == ASSUME Inv, NEW d \in Device, ShowActivity(d) PROVE Inv'
  <1> DEFINE r == [request[d] EXCEPT !.at = "ask"]
  <1>1. r \in At(Step) /\ r.at = "ask" /\ r.stamp = request[d].stamp /\ r # Idle
    BY DEF At, Step, Idle, Inv, TypeOK
  <1>2. r.stamp <= lastActivityAt + lag
    BY <1>1 DEF Inv, TimerNearUse, ShowActivity
  <1>3. answer[d] = {} /\ answer' = [answer EXCEPT ![d] = {}]
    BY DEF Inv, TypeOK, ShowActivity, Record
  <1>4. Become(d, r) /\ UNCHANGED <<now, lastActivityAt, lastUse, lag, rewritten>>
    BY DEF ShowActivity, Record
  <1> HIDE DEF r
  <1> QED  BY <1>1, <1>2, <1>3, <1>4, InfoStep

LEMMA AskExpiredStep == ASSUME Inv, NEW d \in Device, AskExpired(d) PROVE Inv'
  <1> DEFINE r == [request[d] EXCEPT !.at = "left"]
             found == IF Expired THEN {"expired"} ELSE {}
  <1>1. r \in At(Step) /\ r.at = "left" /\ r.stamp = request[d].stamp /\ r # Idle
    BY DEF At, Step, Idle, Inv, TypeOK
  <1>2. ASSUME "expired" \in found
        PROVE  now - lastActivityAt > Timeout /\ now - r.stamp > Timeout - lag
    <2>1. now - lastActivityAt > Timeout
      BY <1>2 DEF Expired
    <2>2. request[d].stamp <= lastActivityAt + lag
      BY DEF Inv, TimerNearUse, AskExpired
    <2> QED  BY <1>1, <2>1, <2>2, TimeAssumption DEF Inv, TypeOK
  <1>3. found \in SUBSET {"expired", "left"} /\ "left" \notin found
    OBVIOUS
  <1>4. Become(d, r) /\ answer' = [answer EXCEPT ![d] = found]
        /\ UNCHANGED <<now, lastActivityAt, lastUse, lag>> /\ rewritten' = rewritten \ {d}
    BY DEF AskExpired
  <1> HIDE DEF r, found
  <1> QED  BY <1>1, <1>2, <1>3, <1>4, InfoStep

LEMMA AskLeftStep == ASSUME Inv, NEW d \in Device, AskLeft(d) PROVE Inv'
  <1> DEFINE r == [request[d] EXCEPT !.at = "answer"]
             found == answer[d] \cup
                      (IF Timeout - (now - lastActivityAt) > 0 THEN {"left"} ELSE {})
  <1>1. r \in At(Step) /\ r.at = "answer" /\ r.stamp = request[d].stamp /\ r # Idle
    BY DEF At, Step, Idle, Inv, TypeOK
  <1>2. found \in SUBSET {"expired", "left"}
    BY DEF Inv, TypeOK
  <1>3. ASSUME "expired" \in found
        PROVE  /\ now - r.stamp > Timeout - lag
               /\ "left" \in found => d \in rewritten
    <2>1. "expired" \in answer[d]
      BY <1>3
    <2>2. now - request[d].stamp > Timeout - lag /\ ("left" \in answer[d] => d \in rewritten)
      BY <2>1 DEF Inv, InfoTrue
    <2>3. d \notin rewritten => now - lastActivityAt > Timeout
      BY <2>1 DEF Inv, StillExpired, AskLeft
    <2>4. d \notin rewritten => ~(Timeout - (now - lastActivityAt) > 0)
      BY <2>3, TimeAssumption DEF Inv, TypeOK
    <2> QED  BY <1>1, <2>2, <2>4
  <1>4. Become(d, r) /\ answer' = [answer EXCEPT ![d] = found]
        /\ UNCHANGED <<now, lastActivityAt, lastUse, lag, rewritten>>
    BY DEF AskLeft, Inv, TypeOK
  <1> HIDE DEF r, found
  <1> QED  BY <1>1, <1>2, <1>3, <1>4, InfoStep

LEMMA EndInfoStep == ASSUME Inv, NEW d \in Device, EndInfo(d) PROVE Inv'
  <1>1. Idle \in At(Step) /\ Idle.at = "idle"
    BY TimeAssumption DEF At, Step, Idle, Kind, Inv, TypeOK
  <1>2. {} \in SUBSET {"expired", "left"}
    OBVIOUS
  <1>3. Become(d, Idle) /\ answer' = [answer EXCEPT ![d] = {}]
        /\ UNCHANGED <<now, lastActivityAt, lastUse, lag, rewritten>>
    BY DEF EndInfo
  <1> QED  BY <1>1, <1>2, <1>3, InfoStep

\* Time goes on: what has expired stays expired.
LEMMA TickStep == ASSUME Inv, Tick PROVE Inv'
  <1>1. TypeOK' /\ TimerNearUse'
    BY TimeAssumption DEF Tick, Inv, TypeOK, TimerNearUse
  <1>2. now' = now + 1 /\ now \in Int /\ lag \in Int /\ Timeout \in Int /\ lastActivityAt \in Int
        /\ UNCHANGED <<lastActivityAt, request, answer, rewritten, lag>>
    BY TimeAssumption DEF Tick, Inv, TypeOK
  <1>3. \A d \in Device : request[d].stamp \in Int
    <2>1. \A d \in Device : request[d].stamp \in 0..now
      BY DEF Inv, TypeOK
    <2> QED  BY <1>2, <2>1
  <1>4. ASSUME NEW d \in Device, now - request[d].stamp > Timeout - lag
        PROVE  now' - request[d].stamp > Timeout - lag
    BY <1>2, <1>3, <1>4
  <1>5. InfoTrue'
    BY <1>2, <1>4 DEF Inv, InfoTrue
  <1>6. StillExpired'
    BY <1>2 DEF Inv, StillExpired
  <1> QED  BY <1>1, <1>5, <1>6 DEF Inv

LEMMA StepInv == ASSUME Inv, [Next]_vars PROVE Inv'
  <1> USE TimeAssumption
  <1>idle. Idle \in At({"idle", "check", "touch"})
           /\ Idle.at = "idle"
    BY DEF At, Idle, Kind, Inv, TypeOK
  <1>1. ASSUME NEW d \in Device, NEW kind \in {"use", "poll", "info"},
               NEW path \in UsePath \cup PollPath \cup InfoPath,
               Arrive(d, kind, path)
        PROVE  Inv'
    <2> DEFINE r == [kind |-> kind, skip |-> ShouldSkip(path), at |-> "check", stamp |-> 0]
    <2>1. r \in At({"idle", "check", "touch"})
          /\ r.at # "idle" /\ r # Idle
      BY DEF At, ShouldSkip, Kind, Idle, Inv, TypeOK
    <2>2. request[d].at \in {"idle", "check", "touch"} /\ Become(d, r) /\ UNCHANGED now /\ Record
      BY <1>1, <1>idle DEF Arrive
    <2> HIDE DEF r
    <2> QED  BY <2>1, <2>2, QuietStep
  <1>2. ASSUME NEW d \in Device, Refuse(d) PROVE Inv'
    <2>1. request[d].at \in {"idle", "check", "touch"} /\ Become(d, Idle) /\ UNCHANGED now /\ Record
      BY <1>2 DEF Refuse
    <2> QED  BY <2>1, <1>idle, QuietStep
  <1>3. ASSUME NEW d \in Device, Admit(d) PROVE Inv'
    <2>0. request[d] \in At(Step) /\ request[d].at = "check" /\ now \in Nat
      BY <1>3 DEF At, Step, Inv, TypeOK, Admit
    <2> DEFINE r == [kind |-> request[d].kind, skip |-> FALSE, at |-> "touch", stamp |-> now]
    <2>1. r \in At({"idle", "check", "touch"})
          /\ r.at # "idle" /\ r # Idle
      BY <2>0 DEF At, Step, Idle
    <2>2. Become(d, r) \/ Become(d, Idle)
      BY <1>3 DEF Admit
    <2>3. UNCHANGED now /\ Record
      BY <1>3 DEF Admit
    <2> HIDE DEF r
    <2> QED  BY <2>0, <2>1, <2>2, <2>3, <1>idle, QuietStep
  <1>4. ASSUME NEW d \in Device, NEW kind \in {"login", "refresh"}, SignIn(d, kind) PROVE Inv'
    <2> DEFINE r == [kind |-> kind, skip |-> FALSE, at |-> "touch", stamp |-> now]
    <2>1. r \in At({"idle", "check", "touch"})
          /\ r.at # "idle" /\ r # Idle
      BY DEF At, ShouldSkip, Kind, Idle, Inv, TypeOK
    <2>2. request[d].at \in {"idle", "check", "touch"} /\ Become(d, r) /\ UNCHANGED now /\ Record
      BY <1>4, <1>idle DEF SignIn
    <2> HIDE DEF r
    <2> QED  BY <2>1, <2>2, QuietStep
  <1>5. ASSUME NEW d \in Device, TouchFails(d) PROVE Inv'
    <2>1. request[d].at \in {"idle", "check", "touch"} /\ Become(d, Idle) /\ UNCHANGED now /\ Record
      BY <1>5 DEF TouchFails
    <2> QED  BY <2>1, <1>idle, QuietStep
  <1>6. CASE Tick
    BY <1>6, TickStep
  <1>7. CASE UNCHANGED vars
    BY <1>7 DEF vars, Inv, TypeOK, TimerNearUse, InfoTrue, StillExpired, Expired
  <1> QED
    BY <1>1, <1>2, <1>3, <1>4, <1>5, <1>6, <1>7, TouchStep, ServeStep,
       ShowStep, AskExpiredStep, AskLeftStep, EndInfoStep
    DEF Next

\* Types, for every number of devices.
THEOREM TimerTyped == Spec => []TypeOK
  <1>1. Inv => TypeOK  BY DEF Inv
  <1> QED  BY <1>1, InitInv, StepInv, PTL DEF Spec

\* lastActivityAt is never further behind the latest request served than the
\* slowest of its writes took.
THEOREM TimerKeepsUp == Spec => []TimerNearUse
  <1>1. Inv => TimerNearUse  BY DEF Inv
  <1> QED  BY <1>1, InitInv, StepInv, PTL DEF Spec

\* A user that authenticate refuses has been idle for the timeout, less that delay.
THEOREM RefusalsAreDue == Spec => RefusedNearlyIdle
  <1>1. Inv => [\A d \in Device : Refuse(d) => now - lastUse > Timeout - lag]_vars
    BY TimeAssumption DEF At, Inv, TypeOK, TimerNearUse, Refuse, Expired
  <1> QED  BY <1>1, InitInv, StepInv, PTL DEF Spec, RefusedNearlyIdle

\* The answer of GET /session says that the session has expired only after the
\* timeout, less that delay, and contradicts itself only if somebody wrote the
\* timer while it was being put together.
THEOREM InfoIsTrue == Spec => []InfoTrue
  <1>1. Inv => InfoTrue  BY DEF Inv
  <1> QED  BY <1>1, InitInv, StepInv, PTL DEF Spec
=============================================================================
