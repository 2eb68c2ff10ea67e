-------------------------- MODULE DiagnosisProofs --------------------------
(***************************************************************************)
(* The diagnoses of the interface, for any containers, any table of        *)
(* statuses and any number of diagnoses under way: a crash costs one       *)
(* request to the deeper model.                                            *)
(***************************************************************************)
EXTENDS DiagnosisCascade, SequenceTheorems, FiniteSetTheorems, WellFoundedInduction,
        NaturalsInduction, TLAPS

Phase ==
  {"unused", "fast", "check", "mark", "deep", "record", "count", "update", "sent", "done"}
ByAI == {"AI", "AI~"}
Level == ByAI \union {"RULE", "SIG"}

Snapshot ==
  [container : Container \union {""}, kind : Kind \union {""}, ago : Nat, stamp : Nat]
Diagnosis ==
  [phase : Phase, snapshot : Snapshot, local : BOOLEAN, level : Level,
   deepened : BOOLEAN, recurrent : BOOLEAN, used : 0 .. 2]

ByAModel(i) == calls[i].phase \in {"fast", "check", "mark", "deep"}

-----------------------------------------------------------------------------
(* Types.                                                                  *)

ClockTyped ==
  /\ now \in Nat /\ fleet \in [Container -> [kind : Kind, since : Nat]]
  /\ \A c \in Container : fleet[c].since <= now
ShownTyped ==
  /\ shown \in [Container -> Snapshot]
  /\ \A c \in Container :
       shown[c] # NoSnapshot => shown[c].container = c /\ shown[c].kind \in Kind
CallsTyped ==
  /\ calls \in [CallId -> Diagnosis]
  /\ \A i \in CallId : InFlight(i) =>
       calls[i].snapshot.container \in Container /\ calls[i].snapshot.kind \in Kind
Typed == ClockTyped /\ ShownTyped /\ CallsTyped


-----------------------------------------------------------------------------
(* What a step does to the diagnoses.                                      *)

Follows ==
  {<<"fast", "check">>, <<"fast", "record">>, <<"check", "mark">>, <<"check", "record">>,
   <<"mark", "deep">>, <<"deep", "record">>, <<"record", "count">>, <<"count", "update">>,
   <<"update", "sent">>, <<"sent", "done">>}

\* Diagnosis i goes on, about the same container and asked for in the same way.
GoesOn(i) ==
  /\ calls' \in [CallId -> Diagnosis]
  /\ \A j \in CallId \ {i} : calls'[j] = calls[j]
  /\ <<calls[i].phase, calls'[i].phase>> \in Follows
  /\ calls'[i].local = calls[i].local
  /\ calls'[i].snapshot.container = calls[i].snapshot.container
  /\ calls'[i].phase # "done" => calls'[i].snapshot = calls[i].snapshot

Begun(s, local, phase, level) ==
  [Unused EXCEPT !.snapshot = s, !.local = local, !.phase = phase, !.level = level]

\* Diagnosis i of snapshot s begins, by the rules or not.
Begins(i, s, local) ==
  /\ calls' \in [CallId -> Diagnosis]
  /\ \A j \in CallId \ {i} : calls'[j] = calls[j]
  /\ calls[i].phase = "unused"
  /\ calls'[i].phase = IF local THEN "record" ELSE "fast"
  /\ calls'[i].local = local
  /\ calls'[i].snapshot = s
  /\ \E level \in Level \ ByAI :
       calls'[i] = Begun(s, local, IF local THEN "record" ELSE "fast", level)

LEMMA UnusedTyped == Unused \in Diagnosis /\ NoSnapshot \in Snapshot
  BY DEF Unused, NoSnapshot, Diagnosis, Snapshot, Phase, Level

\* The level read of a reply and the level of the local rules.
LEMMA Levels ==
  /\ \A k \in Kind : \A r \in Replies[k] :
       r.diagnosis.level \in Level /\ (~r.refused => r.diagnosis.level \in ByAI)
  /\ \A status, logs :
       LocalVerdict(status, logs).level \in Level \ ByAI
  <1>1. \A w, f, crashed : Parse(w, f, crashed).level \in ByAI
    BY DEF Parse, FallbackPartial, ByAI
  <1>2. FallbackPartial.level \in ByAI /\ ByAI \subseteq Level
    BY DEF FallbackPartial, ByAI, Level
  <1>3. ASSUME NEW k \in Kind, NEW r \in Replies[k] PROVE r.diagnosis.level \in ByAI
    <2>1. /\ \A p, o : Failed(p, o).diagnosis.level \in ByAI
          /\ \A a : Answered(k, a).diagnosis.level \in ByAI
      BY <1>1, <1>2 DEF Failed, Answered
    <2>2. QED
      BY <2>1 DEF Replies
  <1>4. \A status, logs : LocalVerdict(status, logs).level \in Level \ ByAI
    BY DEF LocalVerdict, Level, ByAI
  <1>5. QED
    BY <1>2, <1>3, <1>4

\* u is d in a later phase.
Later(d, u, phase) ==
  u \in Diagnosis /\ u.phase = phase /\ u.local = d.local /\ u.snapshot = d.snapshot

LEMMA Updates ==
  ASSUME NEW d \in Diagnosis, NEW phase \in Phase
  PROVE  /\ Later(d, [d EXCEPT !.phase = phase], phase)
         /\ \A used \in 0 .. 2, level \in Level :
              Later(d, [d EXCEPT !.used = used, !.level = level, !.phase = phase], phase)
         /\ \A used \in 0 .. 2, b \in BOOLEAN :
              Later(d, [d EXCEPT !.used = used, !.deepened = b, !.phase = phase], phase)
         /\ \A b \in BOOLEAN : Later(d, [d EXCEPT !.recurrent = b, !.phase = phase], phase)
  BY DEF Diagnosis, Later

\* A step of diagnosis i changes it alone.
LEMMA Becomes ==
  ASSUME CallsTyped, NEW i \in CallId, NEW u, NEW phase,
         calls' = [calls EXCEPT ![i] = u], Later(calls[i], u, phase),
         <<calls[i].phase, phase>> \in Follows
  PROVE  GoesOn(i)
  BY DEF CallsTyped, GoesOn, Later

LEMMA CallGoesOn == ASSUME CallsTyped, NEW i \in CallId, CallStep(i) PROVE GoesOn(i)
  <1> DEFINE d == calls[i]
             Becoming(u) == calls' = [calls EXCEPT ![i] = u]
  <1>1. d \in Diagnosis
    BY DEF CallsTyped
  <1>3. CASE FastReply(i)
    <2>1. d.snapshot.kind \in Kind
      BY <1>3 DEF FastReply, CallsTyped, InFlight
    <2>2. PICK r \in Replies[d.snapshot.kind] :
            Becoming([d EXCEPT !.used = IF r.refused THEN 0 ELSE 1,
                               !.level = IF r.refused THEN d.level ELSE r.diagnosis.level,
                               !.phase = IF Deepens(r) THEN "check" ELSE "record"])
      BY <1>3 DEF FastReply
    <2> DEFINE phase == IF Deepens(r) THEN "check" ELSE "record"
               used == IF r.refused THEN 0 ELSE 1
               level == IF r.refused THEN d.level ELSE r.diagnosis.level
    <2>3. Becoming([d EXCEPT !.used = used, !.level = level, !.phase = phase])
      BY <2>2
    <2>4. phase \in {"check", "record"} /\ used \in 0 .. 2 /\ level \in Level
      BY <1>1, <2>1, Levels DEF Diagnosis
    <2> HIDE DEF phase, used, level
    <2>5. Later(d, [d EXCEPT !.used = used, !.level = level, !.phase = phase], phase)
      BY <1>1, <2>4, Updates DEF Phase
    <2>6. QED
      BY <1>3, <2>3, <2>4, <2>5, Becomes DEF FastReply, Follows
  <1>4. CASE CheckReExecuted(i)
    <2>1. PICK phase \in {"record", "mark"} :
            d.phase = "check" /\ Becoming([d EXCEPT !.phase = phase])
      BY <1>4 DEF CheckReExecuted
    <2>2. Later(d, [d EXCEPT !.phase = phase], phase)
      BY <1>1, Updates DEF Phase
    <2>3. QED
      BY <2>2, <2>1, Becomes DEF Follows
  <1>5. CASE MarkReExecuted(i)
    <2>1. d.phase = "mark" /\ Becoming([d EXCEPT !.phase = "deep"])
      BY <1>5 DEF MarkReExecuted
    <2>2. Later(d, [d EXCEPT !.phase = "deep"], "deep")
      BY <1>1, Updates DEF Phase
    <2>3. QED
      BY <2>1, <2>2, Becomes DEF Follows
  <1>6. CASE DeepReply(i)
    <2>1. PICK used \in 0 .. 2, taken \in BOOLEAN :
            Becoming([d EXCEPT !.used = used, !.deepened = taken, !.phase = "record"])
      <3>1. PICK r \in Replies[d.snapshot.kind] :
              LET taken == ~r.refused /\ r.diagnosis.level = "AI" IN
              Becoming([d EXCEPT !.used = IF taken THEN 2 ELSE 1, !.deepened = taken,
                                 !.phase = "record"])
        BY <1>6 DEF DeepReply
      <3> DEFINE taken == ~r.refused /\ r.diagnosis.level = "AI"
                 used == IF taken THEN 2 ELSE 1
      <3>2. used \in 0 .. 2 /\ taken \in BOOLEAN
        OBVIOUS
      <3>3. Becoming([d EXCEPT !.used = used, !.deepened = taken, !.phase = "record"])
        BY <3>1
      <3> HIDE DEF used, taken
      <3>4. QED
        BY <3>2, <3>3
    <2>2. Later(d, [d EXCEPT !.used = used, !.deepened = taken, !.phase = "record"], "record")
      BY <1>1, Updates DEF Phase
    <2>3. d.phase = "deep"
      BY <1>6 DEF DeepReply
    <2>4. QED
      BY <2>1, <2>2, <2>3, Becomes DEF Follows
  <1>7. CASE RecordCrash(i)
    <2>1. d.phase = "record" /\ Becoming([d EXCEPT !.phase = "count"])
      BY <1>7 DEF RecordCrash
    <2>2. Later(d, [d EXCEPT !.phase = "count"], "count")
      BY <1>1, Updates DEF Phase
    <2>3. QED
      BY <2>1, <2>2, Becomes DEF Follows
  <1>8. CASE CountCrashes(i)
    <2> DEFINE b == IsRecurrent(d.snapshot.container, d.snapshot.kind)
    <2>1. d.phase = "count" /\ b \in BOOLEAN
      BY <1>8 DEF CountCrashes, IsRecurrent
    <2>2. calls' = [calls EXCEPT ![i].recurrent = b, ![i].phase = "update"]
      BY <1>8 DEF CountCrashes
    <2> HIDE DEF b
    <2>3. Becoming([d EXCEPT !.recurrent = b, !.phase = "update"])
      BY <2>2 DEF CallsTyped
    <2>4. Later(d, [d EXCEPT !.recurrent = b, !.phase = "update"], "update")
      BY <1>1, <2>1, Updates DEF Phase
    <2>5. QED
      BY <2>1, <2>3, <2>4, Becomes DEF Follows
  <1>9. CASE UpdateLast(i)
    <2>1. d.phase = "update" /\ Becoming([d EXCEPT !.phase = "sent"])
      BY <1>9 DEF UpdateLast
    <2>2. Later(d, [d EXCEPT !.phase = "sent"], "sent")
      BY <1>1, Updates DEF Phase
    <2>3. QED
      BY <2>1, <2>2, Becomes DEF Follows
  <1>10. CASE Handle(i)
    <2> DEFINE u == [Unused EXCEPT !.phase = "done",
                       !.snapshot = [NoSnapshot EXCEPT !.container = d.snapshot.container],
                       !.local = d.local, !.used = d.used]
    <2>1. d.phase = "sent" /\ Becoming(u)
      BY <1>10 DEF Handle
    <2>2. d.snapshot.container \in Container /\ d.local \in BOOLEAN /\ d.used \in 0 .. 2
      BY <1>1, <2>1 DEF CallsTyped, InFlight, Diagnosis
    <2>3. /\ u \in Diagnosis /\ u.phase = "done" /\ u.local = d.local
          /\ u.snapshot.container = d.snapshot.container
      BY <2>2 DEF Unused, NoSnapshot, Diagnosis, Snapshot, Phase, Level
    <2> HIDE DEF u
    <2>4. QED
      BY <2>1, <2>3 DEF CallsTyped, GoesOn, Follows
  <1>11. QED
    BY <1>3, <1>4, <1>5, <1>6, <1>7, <1>8, <1>9, <1>10 DEF CallStep

-----------------------------------------------------------------------------
(* One request to the deeper model for a crash.                            *)

\* Diagnoses by a model, under way.
Asking(i) == InFlight(i) /\ ~calls[i].local

\* Only a diagnosis that was to go by the rules never asks a model.
RulesApart ==
  \A i \in CallId :
    /\ calls[i].phase = "unused" => ~calls[i].local
    /\ ByAModel(i) => ~calls[i].local
\* Who asks a model is pending, unless a diagnosis by the rules cleared the mark.
AskingIsPending ==
  \A i \in CallId : Asking(i) =>
    calls[i].snapshot.container \in pending \/ ByRules(calls[i].snapshot.container)
OneAsking ==
  \A i, j \in CallId :
    i # j /\ Asking(i) /\ Asking(j) /\ calls[i].snapshot.container = calls[j].snapshot.container
      => ByRules(calls[i].snapshot.container)
\* What was read of the map still holds when the mark is made.
ReadStillHolds ==
  \A i \in CallId : calls[i].phase = "mark" =>
    Mark(calls[i].snapshot) \notin reExecuted \/ ByRules(calls[i].snapshot.container)

DeepInv == Typed /\ RulesApart /\ AskingIsPending /\ OneAsking /\ ReadStillHolds

-----------------------------------------------------------------------------
(* The steps, as the diagnoses see them.                                   *)

\* Diagnosis i of s begins, and who asks a model is pending.
Asked(i, s, local) ==
  /\ s \in Snapshot /\ s.container \in Container /\ s.kind \in Kind
  /\ s # NoSnapshot /\ \E c \in Container : s = shown'[c]
  /\ Begins(i, s, local)
  /\ IF local THEN pending' = pending
     ELSE s.container \notin pending /\ pending' = pending \union {s.container}

LEMMA Beginning ==
  ASSUME NEW s \in Snapshot, NEW local \in BOOLEAN, NEW phase \in Phase, NEW level \in Level
  PROVE  LET u == Begun(s, local, phase, level) IN
         u \in Diagnosis /\ u.phase = phase /\ u.local = local /\ u.snapshot = s
  BY UnusedTyped DEF Diagnosis, Begun

\* A diagnosis that begins is about a snapshot that shows something.
LEMMA TriggersAsk ==
  ASSUME CallsTyped, NEW s \in Snapshot, NEW force \in BOOLEAN,
         s # NoSnapshot => s.container \in Container /\ s.kind \in Kind,
         \E c \in Container : s = shown'[c], TriggerTriage(s, force)
  PROVE  \/ UNCHANGED <<calls, pending>>
         \/ \E i \in CallId, local \in BOOLEAN : Asked(i, s, local)
  <1>1. ASSUME NEW local \in BOOLEAN, Start(s, local) PROVE \E i \in CallId : Begins(i, s, local)
    <2> DEFINE level == LocalVerdict(StatusOf[s.kind], {}).level
               phase == IF local THEN "record" ELSE "fast"
               u == Begun(s, local, phase, level)
    <2>1. PICK i \in CallId : calls[i].phase = "unused" /\ calls' = [calls EXCEPT ![i] = u]
      BY <1>1 DEF Start, Begun
    <2>2. level \in Level \ ByAI /\ phase \in Phase
      BY Levels DEF Phase
    <2> HIDE DEF level, phase
    <2>3. u \in Diagnosis /\ u.phase = phase /\ u.local = local /\ u.snapshot = s
      BY <2>2, Beginning
    <2> HIDE DEF u
    <2>5. Begins(i, s, local)
      BY <2>1, <2>2, <2>3 DEF CallsTyped, Begins, phase, u
    <2>6. QED
      BY <2>5
  <1>2. CASE Anomalous(s) /\ Start(s, TRUE) /\ UNCHANGED pending
    BY <1>1, <1>2 DEF Asked, Anomalous
  <1>3. CASE /\ Anomalous(s) /\ MayAsk(s.container, force) /\ Start(s, FALSE)
             /\ pending' = pending \union {s.container}
    BY <1>1, <1>3 DEF Asked, Anomalous, MayAsk
  <1>4. QED
    BY <1>2, <1>3 DEF TriggerTriage

LEMMA CollectionTyped ==
  ASSUME ClockTyped, NEW unread \in SUBSET Unreadable, Metrics(unread)
  PROVE  ShownTyped' /\ \A c \in Container : shown'[c].container = c /\ shown'[c].kind \in Kind
  <1>1. ASSUME NEW c \in Container, NEW b \in BOOLEAN
        PROVE  /\ Seen(c, b) \in Snapshot /\ Seen(c, b).container = c
               /\ Seen(c, b).kind \in Kind
    <2>1. /\ fleet[c].kind \in Kind /\ fleet[c].since \in Nat /\ fleet[c].since <= now
          /\ now \in Nat
      BY DEF ClockTyped
    <2> DEFINE ago == IF b THEN now - fleet[c].since ELSE 0
               stamp == IF b THEN 0 ELSE fleet[c].since
    <2>2. ago \in Nat /\ stamp \in Nat
      BY <2>1
    <2>3. Seen(c, b) = [container |-> c, kind |-> fleet[c].kind, ago |-> ago, stamp |-> stamp]
      BY DEF Seen
    <2> HIDE DEF ago, stamp
    <2>4. [container |-> c, kind |-> fleet[c].kind, ago |-> ago, stamp |-> stamp] \in Snapshot
      BY <2>1, <2>2 DEF Snapshot
    <2>5. QED
      BY <2>1, <2>3, <2>4
  <1>2. shown' = [c \in Container |-> Seen(c, c \in unread)]
    BY DEF Metrics
  <1>3. ASSUME NEW c \in Container
        PROVE  /\ shown'[c] \in Snapshot /\ shown'[c].container = c
               /\ shown'[c].kind \in Kind
    BY <1>1, <1>2, (c \in unread) \in BOOLEAN
  <1>4. QED
    BY <1>2, <1>3 DEF ShownTyped

\* Every step leaves the diagnoses alone, begins one, or is a step of one.
LEMMA Steps ==
  ASSUME Typed, [Next]_vars
  PROVE  /\ Typed'
         /\ \/ UNCHANGED <<calls, pending, reExecuted>>
            \/ /\ \E i \in CallId, s \in Snapshot, local \in BOOLEAN : Asked(i, s, local)
               /\ UNCHANGED reExecuted
            \/ \E i \in CallId : CallStep(i)
  <1> USE DEF Typed
  <1>1. ASSUME ClockTyped', ShownTyped',
               \/ UNCHANGED <<calls, pending>>
               \/ \E i \in CallId, s \in Snapshot, local \in BOOLEAN : Asked(i, s, local),
               UNCHANGED reExecuted
        PROVE  Typed' /\ (\/ UNCHANGED <<calls, pending, reExecuted>>
                          \/ \E i \in CallId, s \in Snapshot, local \in BOOLEAN : Asked(i, s, local))
    <2>1. CASE UNCHANGED <<calls, pending>>
      BY <1>1, <2>1 DEF CallsTyped, InFlight
    <2>2. ASSUME NEW i \in CallId, NEW s \in Snapshot, NEW local \in BOOLEAN, Asked(i, s, local)
          PROVE  CallsTyped'
      BY <2>2 DEF CallsTyped, InFlight, Asked, Begins
    <2>3. QED
      BY <1>1, <2>1, <2>2
  <1>2. CASE Tick
    BY <1>1, <1>2 DEF Tick, ClockTyped, ShownTyped, interfaceVars
  <1>3. ASSUME NEW c \in Container, ChangeState(c) PROVE Typed' /\ UNCHANGED <<calls, pending, reExecuted>>
    <2>1. ClockTyped'
      BY <1>3 DEF ChangeState, ClockTyped
    <2>2. QED
      BY <1>3, <2>1 DEF ChangeState, ShownTyped, CallsTyped, InFlight, interfaceVars
  <1>4. ASSUME NEW c \in Container, NEW force \in BOOLEAN, Key(c, force)
        PROVE  /\ ClockTyped' /\ ShownTyped' /\ UNCHANGED reExecuted
               /\ \/ UNCHANGED <<calls, pending>>
                  \/ \E i \in CallId, s \in Snapshot, local \in BOOLEAN : Asked(i, s, local)
    <2>1. shown[c] \in Snapshot /\ (shown[c] # NoSnapshot =>
            shown[c].container \in Container /\ shown[c].kind \in Kind)
      BY DEF ShownTyped
    <2>2. TriggerTriage(shown[c], force) /\ shown' = shown
      BY <1>4 DEF Key
    <2>3. \/ UNCHANGED <<calls, pending>>
          \/ \E i \in CallId, local \in BOOLEAN : Asked(i, shown[c], local)
      BY <2>1, <2>2, TriggersAsk
    <2>4. QED
      BY <1>4, <2>3 DEF Key, ClockTyped, ShownTyped, fleetVars
  <1>5. ASSUME NEW unread \in SUBSET Unreadable, Metrics(unread)
        PROVE  /\ ClockTyped' /\ ShownTyped' /\ UNCHANGED reExecuted
               /\ \/ UNCHANGED <<calls, pending>>
                  \/ \E i \in CallId, s \in Snapshot, local \in BOOLEAN : Asked(i, s, local)
    <2>1. PICK c \in Container : TriggerTriage(shown'[c], FALSE)
      BY <1>5 DEF Metrics
    <2>2. ShownTyped' /\ shown'[c].container = c /\ shown'[c].kind \in Kind
      BY <1>5, CollectionTyped
    <2>3. \/ UNCHANGED <<calls, pending>>
          \/ \E i \in CallId, local \in BOOLEAN : Asked(i, shown'[c], local)
      BY <2>1, <2>2, TriggersAsk DEF ShownTyped
    <2>4. UNCHANGED <<now, fleet, reExecuted>> /\ shown'[c] \in Snapshot
      BY <1>5, <2>2 DEF Metrics, ShownTyped, fleetVars
    <2>5. QED
      BY <2>2, <2>3, <2>4 DEF ClockTyped
  <1>6. CASE Tab \/ Assign \/ UNCHANGED vars
    BY <1>1, <1>6 DEF Tab, Assign, ClockTyped, ShownTyped, vars, fleetVars, interfaceVars
  <1>7. ASSUME NEW i \in CallId, CallStep(i) PROVE Typed'
    <2>1. GoesOn(i)
      BY <1>7, CallGoesOn
    <2>2. CallsTyped'
      BY <2>1 DEF GoesOn, CallsTyped, InFlight, Follows
    <2>3. UNCHANGED <<now, fleet, shown>>
      BY <1>7 DEF CallStep, FastReply, CheckReExecuted, MarkReExecuted, DeepReply,
                  RecordCrash, CountCrashes, UpdateLast, Handle, KeepInterface, fleetVars,
                  interfaceVars
    <2>4. QED
      BY <2>2, <2>3 DEF ClockTyped, ShownTyped
  <1>8. QED
    BY <1>1, <1>2, <1>3, <1>4, <1>5, <1>6, <1>7 DEF Next

\* What a step of a diagnosis does to the containers waiting and to the map.
LEMMA CallEffects ==
  ASSUME NEW i \in CallId, CallStep(i)
  PROVE  /\ \/ pending' = pending
            \/ /\ calls[i].phase = "sent"
               /\ pending' = pending \ {calls[i].snapshot.container}
         /\ \/ reExecuted' = reExecuted
            \/ /\ calls[i].phase = "mark"
               /\ reExecuted' = reExecuted \union {Mark(calls[i].snapshot)}
         /\ calls[i].phase = "check" /\ Mark(calls[i].snapshot) \in reExecuted =>
              calls' = [calls EXCEPT ![i].phase = "record"]
  BY DEF CallStep, FastReply, CheckReExecuted, MarkReExecuted, DeepReply, RecordCrash,
         CountCrashes, UpdateLast, Handle, Served, KeepInterface, interfaceVars

\* A diagnosis by the rules is not forgotten.
LEMMA RulesStay ==
  ASSUME Typed, RulesApart, [Next]_vars, NEW c \in Container, ByRules(c)
  PROVE  ByRules(c)'
  <1>1. PICK i \in CallId : calls[i].local /\ calls[i].snapshot.container = c
    BY DEF ByRules, For
  <1>2. calls'[i].local /\ calls'[i].snapshot.container = c
    <2>1. CASE UNCHANGED calls
      BY <1>1, <2>1
    <2>2. ASSUME NEW j \in CallId, NEW s \in Snapshot, NEW local \in BOOLEAN, Asked(j, s, local)
          PROVE  calls'[i].local /\ calls'[i].snapshot.container = c
      BY <1>1, <2>2 DEF Asked, Begins, RulesApart
    <2>3. ASSUME NEW j \in CallId, CallStep(j)
          PROVE  calls'[i].local /\ calls'[i].snapshot.container = c
      <3>1. GoesOn(j)
        BY <2>3, CallGoesOn DEF Typed
      <3>2. QED
        BY <1>1, <3>1 DEF GoesOn
    <2>4. QED
      BY <2>1, <2>2, <2>3, Steps
  <1>3. QED
    BY <1>2 DEF ByRules, For

LEMMA MarkNames ==
  ASSUME NEW s, NEW t, Mark(s) = Mark(t) PROVE s.container = t.container
  BY DEF Mark

LEMMA DeepInit == Init => DeepInv
  <1> SUFFICES ASSUME Init PROVE DeepInv
    OBVIOUS
  <1>1. /\ calls = [i \in CallId |-> Unused] /\ shown = [c \in Container |-> NoSnapshot]
        /\ fleet \in [Container -> [kind : Kind, since : {1}]] /\ now = 1
    BY DEF Init, JournalInit
  <1>2. ClockTyped
    BY <1>1 DEF ClockTyped
  <1>3. ShownTyped
    BY <1>1, UnusedTyped DEF ShownTyped
  <1>4. \A i \in CallId : calls[i].phase = "unused" /\ ~calls[i].local
    BY <1>1 DEF Unused
  <1>5. CallsTyped
    BY <1>1, <1>4, UnusedTyped DEF CallsTyped, InFlight
  <1>6. QED
    BY <1>2, <1>3, <1>4, <1>5 DEF DeepInv, Typed, RulesApart, AskingIsPending, OneAsking,
       ReadStillHolds, Asking, InFlight, ByAModel

LEMMA DeepStep == DeepInv /\ [Next]_vars => DeepInv'
  <1> SUFFICES ASSUME DeepInv, [Next]_vars PROVE DeepInv'
    OBVIOUS
  <1> USE DEF DeepInv
  <1>1. Typed'
    BY Steps
  <1>2. \A c \in Container : ByRules(c) => ByRules(c)'
    BY RulesStay
  <1>3. \A i \in CallId : InFlight(i) => calls[i].snapshot.container \in Container
    BY DEF Typed, CallsTyped
  <1>4. CASE UNCHANGED <<calls, pending, reExecuted>>
    <2>1. \A c \in Container : ByRules(c)' <=> ByRules(c)
      BY <1>4 DEF ByRules, For
    <2>2. QED
      BY <1>1, <1>3, <1>4, <2>1 DEF RulesApart, AskingIsPending, OneAsking, ReadStillHolds,
         Asking, InFlight, ByAModel, Mark
  <1>5. ASSUME NEW i \in CallId, NEW s \in Snapshot, NEW local \in BOOLEAN,
               Asked(i, s, local), UNCHANGED reExecuted
        PROVE  DeepInv'
    <2>1. /\ \A j \in CallId \ {i} : calls'[j] = calls[j]
          /\ calls[i].phase = "unused" /\ calls'[i].phase = IF local THEN "record" ELSE "fast"
          /\ calls'[i].local = local /\ calls'[i].snapshot = s /\ s.container \in Container
          /\ IF local THEN pending' = pending
             ELSE s.container \notin pending /\ pending' = pending \union {s.container}
      BY <1>5 DEF Asked, Begins
    <2>2. RulesApart'
      BY <2>1 DEF RulesApart, ByAModel
    <2>3. AskingIsPending'
      BY <1>2, <1>3, <2>1 DEF AskingIsPending, Asking, InFlight
    <2>4. OneAsking'
      <3>1. ASSUME NEW j \in CallId, NEW k \in CallId, j # k, Asking(j)', Asking(k)',
                   calls'[j].snapshot.container = calls'[k].snapshot.container
            PROVE  ByRules(calls[j].snapshot.container)'
        <4>1. CASE i \notin {j, k}
          BY <1>2, <1>3, <2>1, <3>1, <4>1 DEF OneAsking, Asking, InFlight
        <4>2. CASE i = j
          <5>1. ~local /\ s.container \notin pending /\ Asking(k)
                /\ calls[k].snapshot.container = s.container
            BY <2>1, <3>1, <4>2 DEF Asking, InFlight
          <5>2. ByRules(s.container)
            BY <5>1 DEF AskingIsPending
          <5>3. QED
            BY <1>2, <2>1, <4>2, <5>2
        <4>3. CASE i = k
          <5>1. ~local /\ s.container \notin pending /\ Asking(j)
                /\ calls[j].snapshot.container = s.container
            BY <2>1, <3>1, <4>3 DEF Asking, InFlight
          <5>2. ByRules(s.container)
            BY <5>1 DEF AskingIsPending
          <5>3. QED
            BY <1>2, <2>1, <3>1, <4>3, <5>2
        <4>4. QED
          BY <4>1, <4>2, <4>3
      <3>2. QED
        BY <3>1 DEF OneAsking
    <2>5. ReadStillHolds'
      BY <1>2, <1>3, <1>5, <2>1 DEF ReadStillHolds, Mark, InFlight
    <2>6. QED
      BY <1>1, <2>2, <2>3, <2>4, <2>5
  <1>6. ASSUME NEW i \in CallId, CallStep(i) PROVE DeepInv'
    <2> DEFINE c == calls[i].snapshot.container
    <2>1. GoesOn(i)
      BY <1>6, CallGoesOn DEF Typed
    <2>2. /\ \A j \in CallId \ {i} : calls'[j] = calls[j]
          /\ <<calls[i].phase, calls'[i].phase>> \in Follows
          /\ calls'[i].local = calls[i].local /\ calls'[i].snapshot.container = c
          /\ calls'[i].phase # "done" => calls'[i].snapshot = calls[i].snapshot
      BY <2>1 DEF GoesOn
    <2>3. InFlight(i) /\ c \in Container
      BY <1>3, <2>2 DEF Follows, InFlight
    <2>4. \A j \in CallId : /\ Asking(j)' => Asking(j)
                           /\ calls'[j].snapshot.container = calls[j].snapshot.container
      BY <2>2, <2>3 DEF Asking, InFlight
    <2>5. RulesApart'
      BY <2>2 DEF RulesApart, ByAModel, Follows
    <2>6. OneAsking'
      BY <1>2, <1>3, <2>4 DEF OneAsking, Asking
    <2>7. AskingIsPending'
      <3>1. CASE pending' = pending
        BY <1>2, <1>3, <2>4, <3>1 DEF AskingIsPending, Asking
      <3>2. CASE calls[i].phase = "sent" /\ pending' = pending \ {c}
        <4>1. ~Asking(i)'
          BY <2>2, <3>2 DEF Asking, InFlight, Follows
        <4>2. ASSUME NEW j \in CallId \ {i}, Asking(j), calls[j].snapshot.container = c
              PROVE  ByRules(c)
          <5>1. CASE calls[i].local
            BY <5>1 DEF ByRules, For
          <5>2. CASE ~calls[i].local
            BY <2>3, <4>2, <5>2 DEF OneAsking, Asking
          <5>3. QED
            BY <5>1, <5>2
        <4>3. QED
          BY <1>2, <1>3, <2>3, <2>4, <3>2, <4>1, <4>2 DEF AskingIsPending, Asking
      <3>3. QED
        BY <1>6, <3>1, <3>2, CallEffects
    <2>8. ReadStillHolds'
      <3>1. SUFFICES ASSUME NEW j \in CallId, calls'[j].phase = "mark",
                            ~ByRules(calls[j].snapshot.container)'
                     PROVE  Mark(calls'[j].snapshot) \notin reExecuted'
        BY DEF ReadStillHolds, Mark
      <3>2. calls'[j].snapshot = calls[j].snapshot
        BY <2>2, <3>1
      <3>3. InFlight(j) /\ calls[j].phase \in {"check", "mark"}
            /\ (i = j => calls[j].phase = "check") /\ (i # j => calls[j].phase = "mark")
        BY <2>2, <3>1 DEF InFlight, Follows
      <3>4. ~ByRules(calls[j].snapshot.container)
        BY <1>2, <1>3, <3>1, <3>2, <3>3
      <3>5. Mark(calls[j].snapshot) \notin reExecuted
        <4>1. CASE i = j
          <5>1. calls'[i].phase # "record"
            BY <3>1, <4>1
          <5>2. Mark(calls[i].snapshot) \in reExecuted => calls' = [calls EXCEPT ![i].phase = "record"]
            BY <1>6, <3>3, <4>1, CallEffects
          <5>3. [calls EXCEPT ![i].phase = "record"][i].phase = "record"
            BY DEF Typed, CallsTyped, Diagnosis
          <5>4. QED
            BY <4>1, <5>1, <5>2, <5>3
        <4>2. CASE i # j
          BY <3>3, <3>4, <4>2 DEF ReadStillHolds
        <4>3. QED
          BY <4>1, <4>2
      <3>6. CASE reExecuted' = reExecuted
        BY <3>2, <3>5, <3>6
      <3>7. CASE calls[i].phase = "mark" /\ reExecuted' = reExecuted \union {Mark(calls[i].snapshot)}
        <4>1. i # j
          BY <3>3, <3>7
        <4>2. Asking(i) /\ Asking(j)
          BY <3>3, <3>7, <4>1 DEF RulesApart, Asking, InFlight, ByAModel
        <4>3. calls[i].snapshot.container # calls[j].snapshot.container
          BY <3>4, <4>1, <4>2 DEF OneAsking
        <4>4. QED
          BY <3>2, <3>5, <3>7, <4>3, MarkNames
      <3>8. QED
        BY <1>6, <3>6, <3>7, CallEffects
    <2>9. QED
      BY <1>1, <2>5, <2>6, <2>7, <2>8
  <1>7. QED
    BY <1>4, <1>5, <1>6, Steps

\* Only the mark leads to the deeper model.
LEMMA DeepFromMark ==
  ASSUME DeepInv, [Next]_vars, NEW i \in CallId,
         calls[i].phase # "deep", calls'[i].phase = "deep"
  PROVE  calls[i].phase = "mark"
  <1>1. CASE UNCHANGED calls
    BY <1>1
  <1>2. ASSUME NEW j \in CallId, NEW s \in Snapshot, NEW local \in BOOLEAN, Asked(j, s, local)
        PROVE  calls[i].phase = "mark"
    BY <1>2 DEF Asked, Begins
  <1>3. ASSUME NEW j \in CallId, CallStep(j) PROVE calls[i].phase = "mark"
    <2>1. GoesOn(j)
      BY <1>3, CallGoesOn DEF DeepInv, Typed
    <2>2. QED
      BY <2>1 DEF GoesOn, Follows
  <1>4. QED
    BY <1>1, <1>2, <1>3, Steps DEF DeepInv

\* The diagnoses keep their types, whichever the containers and however many of them:
\* the tea.Msg handlers of update.go and the cascade of diagnose_container.go.
THEOREM DiagnosesTyped == Spec => []Typed
  <1>1. DeepInv => Typed
    BY DEF DeepInv
  <1>2. QED
    BY <1>1, DeepInit, DeepStep, PTL DEF Spec

\* No two diagnoses ask the deeper model about the same crash, unless a diagnosis by
\* the rules has cleared the pending mark that keeps them apart (diagnose_container.go:
\* the shared map and its mark are not read and written in one step).
THEOREM OneDeepRequest == Spec => DeepOncePerCrash
  <1> DEFINE A == \A i \in CallId :
                    calls[i].phase # "deep" /\ calls'[i].phase = "deep" =>
                      \/ Mark(calls[i].snapshot) \notin reExecuted
                      \/ ByRules(calls[i].snapshot.container)
  <1>1. DeepInv /\ [Next]_vars => [A]_vars
    BY DeepFromMark DEF DeepInv, ReadStillHolds
  <1>2. DeepOncePerCrash <=> [][A]_vars
    BY PTL DEF DeepOncePerCrash
  <1>3. QED
    BY <1>1, <1>2, DeepInit, DeepStep, PTL DEF Spec

-----------------------------------------------------------------------------
(* The journal.                                                            *)

MarkSet == Container \X {"at", "text"} \X Nat \X Kind
Event ==
  [at : Nat, kind : Kind, mark : MarkSet, diagnosis : Level \union {NoDiagnosis}]

JournalTyped ==
  /\ journal \in [Container -> Seq(Event)]
  /\ \A c \in Container : Len(journal[c]) <= Keep

NewEvent(s, d) == [at |-> now, kind |-> s.kind, mark |-> Mark(s), diagnosis |-> d]

\* What is recorded at once: at most one snapshot of each container.
Recordable ==
  {S \in SUBSET Snapshot :
     /\ \A s \in S : s.container \in Container /\ s.kind \in Kind
     /\ \A s, t \in S : s.container = t.container => s = t}

\* The list with one more crash, position by position.
LEMMA Remembered ==
  ASSUME NEW list \in Seq(Event), NEW e \in Event, Len(list) <= Keep
  PROVE  LET r == Remember(list, e) IN
         /\ r \in Seq(Event)
         /\ Len(r) = IF Len(list) < Keep THEN Len(list) + 1 ELSE Keep
         /\ \A n \in 1 .. Len(r) :
              r[n] = IF n = Len(r) THEN e ELSE IF Len(list) < Keep THEN list[n] ELSE list[n + 1]
  <1> DEFINE r == Remember(list, e)
             longer == Append(list, e)
  <1>1. /\ longer \in Seq(Event) /\ Len(longer) = Len(list) + 1
        /\ \A n \in 1 .. Len(list) : longer[n] = list[n]
        /\ longer[Len(list) + 1] = e
    OBVIOUS
  <1>2. Keep \in Nat \ {0} /\ Len(list) \in Nat
    BY JournalAssumption
  <1>3. CASE Len(list) < Keep
    BY <1>1, <1>2, <1>3 DEF Remember
  <1>4. CASE Len(list) = Keep
    <2>1. r = SubSeq(longer, 2, Keep + 1)
      BY <1>1, <1>2, <1>4 DEF Remember
    <2>2. \A n \in 2 .. Keep + 1 : longer[n] \in Event
      BY <1>1, <1>2, <1>4
    <2> HIDE DEF longer
    <2>3. /\ SubSeq(longer, 2, Keep + 1) \in Seq(Event)
          /\ Len(SubSeq(longer, 2, Keep + 1)) = IF 2 <= Keep + 1 THEN Keep + 1 - 2 + 1 ELSE 0
          /\ \A n \in 1 .. Keep + 1 - 2 + 1 : SubSeq(longer, 2, Keep + 1)[n] = longer[2 + n - 1]
      BY <1>2, <2>2, SubSeqProperties
    <2> HIDE DEF r
    <2>4. r \in Seq(Event) /\ Len(r) = Keep /\ \A n \in 1 .. Keep : r[n] = longer[n + 1]
      BY <1>2, <2>1, <2>3
    <2>5. \A n \in 1 .. Keep : r[n] = IF n = Keep THEN e ELSE list[n + 1]
      BY <1>1, <1>2, <1>4, <2>4
    <2>6. QED
      BY <1>2, <1>4, <2>4, <2>5 DEF r
  <1>5. QED
    BY <1>2, <1>3, <1>4

\* The marks of a list are those of a bounded queue.
MarksOf(list) == [n \in DOMAIN list |-> list[n].mark]

LEMMA RememberEnqueues ==
  ASSUME NEW list \in Seq(Event), NEW e \in Event, Len(list) <= Keep
  PROVE  MarksOf(Remember(list, e)) =
           IF Len(MarksOf(list)) < Keep THEN Append(MarksOf(list), e.mark)
                                        ELSE Append(Tail(MarksOf(list)), e.mark)
  <1> DEFINE r == Remember(list, e)
             q == MarksOf(list)
  <1>1. /\ r \in Seq(Event)
        /\ Len(r) = IF Len(list) < Keep THEN Len(list) + 1 ELSE Keep
        /\ \A n \in 1 .. Len(r) :
             r[n] = IF n = Len(r) THEN e ELSE IF Len(list) < Keep THEN list[n] ELSE list[n + 1]
    BY Remembered
  <1>2. Keep \in Nat \ {0} /\ Len(list) \in Nat
    BY JournalAssumption
  <1>3. q \in Seq(MarkSet) /\ Len(q) = Len(list) /\ \A n \in 1 .. Len(list) : q[n] = list[n].mark
    <2>1. DOMAIN list = 1 .. Len(list) /\ \A n \in 1 .. Len(list) : list[n] \in Event
      OBVIOUS
    <2>2. \A n \in 1 .. Len(list) : list[n].mark \in MarkSet
      BY <2>1 DEF Event
    <2> HIDE DEF MarkSet
    <2>3. q = [n \in 1 .. Len(list) |-> list[n].mark]
      BY <2>1 DEF MarksOf
    <2>4. QED
      BY <1>2, <2>2, <2>3
  <1>4. e.mark \in MarkSet
    BY DEF Event
  <1> HIDE DEF r, q
  <1>5. MarksOf(r) = [n \in 1 .. Len(r) |-> r[n].mark]
    BY <1>1 DEF MarksOf
  <1>6. CASE Len(list) < Keep
    <2>1. Append(q, e.mark) = [n \in 1 .. Len(q) + 1 |-> IF n = Len(q) + 1 THEN e.mark ELSE q[n]]
      BY <1>3, <1>4
    <2>2. QED
      BY <1>1, <1>2, <1>3, <1>5, <1>6, <2>1 DEF r, q
  <1>7. CASE Len(list) = Keep
    <2>1. q # << >>
      BY <1>2, <1>3, <1>7
    <2>2. /\ Tail(q) \in Seq(MarkSet) /\ Len(Tail(q)) = Keep - 1
          /\ \A n \in 1 .. Keep - 1 : Tail(q)[n] = q[n + 1]
      BY <1>3, <1>7, <2>1, HeadTailProperties
    <2>3. Append(Tail(q), e.mark) =
            [n \in 1 .. Keep |-> IF n = Keep THEN e.mark ELSE Tail(q)[n]]
      BY <1>2, <1>4, <2>2
    <2>4. \A n \in 1 .. Keep : r[n].mark = IF n = Keep THEN e.mark ELSE Tail(q)[n]
      BY <1>1, <1>2, <1>3, <1>7, <2>2
    <2>5. MarksOf(r) = [n \in 1 .. Keep |-> r[n].mark]
      BY <1>1, <1>5, <1>7
    <2>6. MarksOf(r) = Append(Tail(q), e.mark)
      BY <2>3, <2>4, <2>5
    <2>7. QED
      BY <1>2, <1>3, <1>7, <2>6 DEF r, q
  <1>8. QED
    BY <1>2, <1>6, <1>7

\* What is recorded has been seen: it is on the screen, or a diagnosis is about it.
Witnessed(s) ==
  \/ s # NoSnapshot /\ \E c \in Container : s = shown'[c]
  \/ \E i \in CallId : InFlight(i) /\ s = calls[i].snapshot

\* The journal changes by a recording or by a diagnosis of its last crash.
LEMMA JournalSteps ==
  ASSUME Typed, [Next]_vars
  PROVE  \/ UNCHANGED journalVars
         \/ \E c \in Container, d \in Level : UpdateDiagnosis(c, d)
         \/ /\ now' = now
            /\ \E S \in Recordable, d \in Level \union {NoDiagnosis} :
                 RecordAll(S, d) /\ \A s \in S : Witnessed(s)
  <1> USE DEF Typed
  <1>1. CASE Tick \/ Tab \/ Assign \/ UNCHANGED vars
    BY <1>1 DEF Tick, Tab, Assign, vars, journalVars
  <1>2. ASSUME NEW c \in Container, ChangeState(c) \/ Key(c, FALSE) \/ Key(c, TRUE)
        PROVE  UNCHANGED journalVars
    BY <1>2 DEF ChangeState, Key, journalVars
  <1>3. ASSUME NEW unread \in SUBSET Unreadable, Metrics(unread)
        PROVE  /\ now' = now
               /\ \E S \in Recordable, d \in Level \union {NoDiagnosis} :
                    RecordAll(S, d) /\ \A s \in S : Witnessed(s)
    <2> DEFINE S == {s \in {shown'[c] : c \in Container} : Anomalous(s)}
    <2>1. \A c \in Container : shown'[c] \in Snapshot /\ shown'[c].container = c /\ shown'[c].kind \in Kind
      BY <1>3, CollectionTyped DEF ShownTyped
    <2>2. S \in Recordable
      BY <2>1 DEF Recordable
    <2>3. \A s \in S : Witnessed(s)
      BY DEF Witnessed, Anomalous
    <2>4. RecordAll(S, NoDiagnosis) /\ now' = now
      BY <1>3 DEF Metrics, fleetVars
    <2> HIDE DEF S
    <2>5. QED
      BY <2>2, <2>3, <2>4
  <1>4. ASSUME NEW i \in CallId, CallStep(i)
        PROVE  \/ UNCHANGED journalVars
               \/ \E c \in Container, d \in Level : UpdateDiagnosis(c, d)
               \/ /\ now' = now
                  /\ \E S \in Recordable, d \in Level \union {NoDiagnosis} :
                       RecordAll(S, d) /\ \A s \in S : Witnessed(s)
    <2> DEFINE s == calls[i].snapshot
               d == calls[i].level
    <2>1. d \in Level /\ s \in Snapshot /\ (InFlight(i) => s.container \in Container /\ s.kind \in Kind)
      BY DEF CallsTyped, Diagnosis
    <2>2. CASE FastReply(i) \/ CheckReExecuted(i) \/ MarkReExecuted(i) \/ DeepReply(i) \/ CountCrashes(i)
      BY <2>2 DEF FastReply, CheckReExecuted, MarkReExecuted, DeepReply, CountCrashes, journalVars
    <2>3. CASE RecordCrash(i)
      <3>1. InFlight(i) /\ RecordAll({s}, d) /\ now' = now
        BY <2>3 DEF RecordCrash, InFlight, KeepInterface, fleetVars
      <3>2. {s} \in Recordable
        BY <2>1, <3>1 DEF Recordable
      <3>3. \A t \in {s} : Witnessed(t)
        BY <3>1 DEF Witnessed
      <3>4. QED
        BY <2>1, <3>1, <3>2, <3>3
    <2>4. CASE UpdateLast(i) \/ Handle(i)
      <3>1. InFlight(i) /\ UpdateDiagnosis(s.container, d)
        BY <2>4 DEF UpdateLast, Handle, InFlight
      <3>2. QED
        BY <2>1, <3>1
    <2>5. QED
      BY <1>4, <2>2, <2>3, <2>4 DEF CallStep
  <1>5. QED
    BY <1>1, <1>2, <1>3, <1>4 DEF Next

\* A recording, as the list of one container sees it.
LEMMA Recorded ==
  ASSUME now \in Nat, NEW S \in Recordable, NEW d \in Level \union {NoDiagnosis},
         RecordAll(S, d), NEW c \in Container
  PROVE  \/ /\ \A s \in S : s.container = c => ~Fresh(s)
            /\ journal'[c] = journal[c]
         \/ \E s \in S :
              /\ s.container = c /\ Fresh(s) /\ NewEvent(s, d) \in Event
              /\ journal'[c] = Remember(journal[c], NewEvent(s, d))
  <1> DEFINE fresh == {s \in S : Fresh(s)}
  <1>1. journal'[c] =
          IF \E s \in fresh : s.container = c
          THEN LET s == CHOOSE t \in fresh : t.container = c IN Remember(journal[c], NewEvent(s, d))
          ELSE journal[c]
    BY DEF RecordAll, NewEvent
  <1>2. ASSUME NEW s \in S, s.container = c PROVE NewEvent(s, d) \in Event
    <2>1. s \in Snapshot /\ s.container \in Container /\ s.kind \in Kind
      BY DEF Recordable
    <2>2. Mark(s) \in MarkSet
      BY <2>1 DEF Mark, MarkSet, Snapshot
    <2>3. QED
      BY <2>1, <2>2 DEF NewEvent, Event
  <1>3. CASE \E s \in fresh : s.container = c
    <2> DEFINE s == CHOOSE t \in fresh : t.container = c
    <2>1. s \in fresh /\ s.container = c
      BY <1>3
    <2>2. journal'[c] = Remember(journal[c], NewEvent(s, d))
      BY <1>1, <1>3
    <2> HIDE DEF s
    <2>3. QED
      BY <1>2, <2>1, <2>2
  <1>4. QED
    BY <1>1, <1>3

\* A diagnosis of the last crash changes no mark, no time and no kind.
LEMMA Diagnosed ==
  ASSUME JournalTyped, NEW a \in Container, NEW d \in Level, UpdateDiagnosis(a, d),
         NEW c \in Container
  PROVE  /\ journal'[c] \in Seq(Event) /\ Len(journal'[c]) = Len(journal[c])
         /\ \A n \in 1 .. Len(journal[c]) :
              /\ journal'[c][n].mark = journal[c][n].mark
              /\ journal'[c][n].at = journal[c][n].at
              /\ journal'[c][n].kind = journal[c][n].kind
         /\ recorded' = recorded
  <1>1. journal \in [Container -> Seq(Event)]
    BY DEF JournalTyped
  <1>2. CASE a # c \/ journal[a] = << >>
    BY <1>1, <1>2 DEF UpdateDiagnosis
  <1>3. CASE a = c /\ journal[c] # << >>
    <2> DEFINE l == journal[c]
               m == Len(l)
               e == [l[m] EXCEPT !.diagnosis = d]
    <2>1. l \in Seq(Event) /\ m \in 1 .. Len(l) /\ l[m] \in Event
      BY <1>1, <1>3
    <2>2. journal'[c] = [l EXCEPT ![m] = e] /\ recorded' = recorded
      BY <1>1, <1>3 DEF UpdateDiagnosis
    <2>3. e \in Event /\ e.mark = l[m].mark /\ e.at = l[m].at /\ e.kind = l[m].kind
      BY <2>1 DEF Event
    <2> HIDE DEF e
    <2>4. /\ [l EXCEPT ![m] = e] \in Seq(Event) /\ Len([l EXCEPT ![m] = e]) = m
          /\ \A n \in 1 .. m : [l EXCEPT ![m] = e][n] = IF n = m THEN e ELSE l[n]
      BY <2>1, <2>3
    <2>5. QED
      BY <2>1, <2>2, <2>3, <2>4
  <1>4. QED
    BY <1>2, <1>3

LEMMA JournalStep ==
  ASSUME Typed, JournalTyped, [Next]_vars
  PROVE  JournalTyped'
  <1>1. now \in Nat /\ Keep \in Nat
    BY JournalAssumption DEF Typed, ClockTyped
  <1>2. ASSUME NEW c \in Container
        PROVE  journal'[c] \in Seq(Event) /\ Len(journal'[c]) <= Keep
    <2>1. journal[c] \in Seq(Event) /\ Len(journal[c]) <= Keep
      BY DEF JournalTyped
    <2>2. CASE UNCHANGED journalVars
      BY <2>1, <2>2 DEF journalVars
    <2>3. ASSUME NEW a \in Container, NEW d \in Level, UpdateDiagnosis(a, d)
          PROVE  journal'[c] \in Seq(Event) /\ Len(journal'[c]) <= Keep
      BY <2>1, <2>3, Diagnosed
    <2>4. ASSUME NEW S \in Recordable, NEW d \in Level \union {NoDiagnosis}, RecordAll(S, d)
          PROVE  journal'[c] \in Seq(Event) /\ Len(journal'[c]) <= Keep
      <3>1. CASE journal'[c] = journal[c]
        BY <2>1, <3>1
      <3>2. CASE \E s \in S : NewEvent(s, d) \in Event
                              /\ journal'[c] = Remember(journal[c], NewEvent(s, d))
        <4>1. PICK e \in Event : journal'[c] = Remember(journal[c], e)
          BY <3>2
        <4>2. QED
          BY <1>1, <2>1, <4>1, Remembered
      <3>3. QED
        BY <1>1, <2>4, <3>1, <3>2, Recorded
    <2>5. QED
      BY <2>2, <2>3, <2>4, JournalSteps
  <1>3. DOMAIN journal' = Container /\ journal' = [c \in Container |-> journal'[c]]
    <2>1. journal = [c \in Container |-> journal[c]]
      BY DEF JournalTyped
    <2>2. CASE UNCHANGED journalVars
      BY <2>1, <2>2 DEF journalVars
    <2>3. ASSUME NEW a \in Container, NEW d \in Level, UpdateDiagnosis(a, d)
          PROVE  DOMAIN journal' = Container /\ journal' = [c \in Container |-> journal'[c]]
      BY <2>1, <2>3 DEF UpdateDiagnosis
    <2>4. ASSUME NEW S, NEW d, RecordAll(S, d)
          PROVE  DOMAIN journal' = Container /\ journal' = [c \in Container |-> journal'[c]]
      BY <2>4 DEF RecordAll
    <2>5. QED
      BY <2>2, <2>3, <2>4, JournalSteps
  <1>4. QED
    BY <1>2, <1>3 DEF JournalTyped

LEMMA JournalInvariant == Spec => [](Typed /\ JournalTyped)
  <1>1. Init => Typed /\ JournalTyped
    <2>1. Init => Typed
      BY DeepInit DEF DeepInv
    <2>2. Init => JournalTyped
      BY JournalAssumption DEF Init, JournalInit, JournalTyped
    <2>3. QED
      BY <2>1, <2>2
  <1>2. Typed /\ JournalTyped /\ [Next]_vars => (Typed /\ JournalTyped)'
    BY Steps, JournalStep
  <1>3. QED
    BY <1>1, <1>2, PTL DEF Spec

\* A step is one of the bounded queue, for each container.
FifoStep(c) ==
  LET fresh == {m \in recorded' \ recorded : m[1] = c} IN
  IF fresh = {} THEN UNCHANGED [i \in DOMAIN journal[c] |-> journal[c][i].mark]
  ELSE \E m \in fresh : Promise(c)!Put(m)

LEMMA JournalFifoStep ==
  ASSUME Typed, JournalTyped, [Next]_vars, NEW c \in Container
  PROVE  FifoStep(c)
  <1> DEFINE fresh == {m \in recorded' \ recorded : m[1] = c}
  <1>1. now \in Nat /\ journal[c] \in Seq(Event) /\ Len(journal[c]) <= Keep
    BY DEF Typed, ClockTyped, JournalTyped
  <1>2. CASE UNCHANGED journalVars
    BY <1>2 DEF journalVars, FifoStep
  <1>3. ASSUME NEW a \in Container, NEW d \in Level, UpdateDiagnosis(a, d)
        PROVE  FifoStep(c)
    <2>1. /\ journal'[c] \in Seq(Event) /\ Len(journal'[c]) = Len(journal[c])
          /\ \A n \in 1 .. Len(journal[c]) : journal'[c][n].mark = journal[c][n].mark
          /\ recorded' = recorded
      BY <1>3, Diagnosed
    <2>2. DOMAIN journal[c] = 1 .. Len(journal[c]) /\ DOMAIN journal'[c] = 1 .. Len(journal[c])
      BY <1>1, <2>1
    <2>3. MarksOf(journal[c])' = MarksOf(journal[c])
      BY <2>1, <2>2 DEF MarksOf
    <2>4. QED
      BY <2>1, <2>3 DEF FifoStep, MarksOf
  <1>4. ASSUME NEW S \in Recordable, NEW d \in Level \union {NoDiagnosis}, RecordAll(S, d)
        PROVE  FifoStep(c)
    <2>1. recorded' = recorded \union {Mark(s) : s \in {t \in S : Fresh(t)}}
      BY <1>4 DEF RecordAll
    <2>2. \A s : Mark(s)[1] = s.container
      BY DEF Mark
    <2>3. CASE /\ \A s \in S : s.container = c => ~Fresh(s)
               /\ journal'[c] = journal[c]
      <3>1. fresh = {}
        BY <2>1, <2>2, <2>3
      <3>2. QED
        BY <2>3, <3>1 DEF FifoStep
    <2>4. ASSUME NEW s \in S, s.container = c, Fresh(s), NewEvent(s, d) \in Event,
                 journal'[c] = Remember(journal[c], NewEvent(s, d))
          PROVE  FifoStep(c)
      <3>1. Mark(s) \in fresh
        BY <2>1, <2>2, <2>4 DEF Fresh
      <3>2. MarksOf(journal[c])' =
              IF Len(MarksOf(journal[c])) < Keep THEN Append(MarksOf(journal[c]), Mark(s))
              ELSE Append(Tail(MarksOf(journal[c])), Mark(s))
        <4>1. NewEvent(s, d).mark = Mark(s)
          BY DEF NewEvent
        <4>2. MarksOf(journal[c])' = MarksOf(Remember(journal[c], NewEvent(s, d)))
          BY <2>4 DEF MarksOf
        <4>3. QED
          BY <1>1, <2>4, <4>1, <4>2, RememberEnqueues
      <3>3. Promise(c)!Put(Mark(s))
        BY <3>2 DEF Promise!Put, Promise!Enqueue, MarksOf
      <3>4. QED
        BY <3>1, <3>3 DEF FifoStep
    <2>5. QED
      BY <1>1, <1>4, <2>3, <2>4, Recorded
  <1>5. QED
    BY <1>2, <1>3, <1>4, JournalSteps

\* The journal of each container is the bounded queue of BoundedFifo that drops its
\* oldest crash, whatever the diagnoses do to it at once (crash_journal.go: Record,
\* UpdateDiagnosis).
THEOREM JournalKeepsPromise == Spec => JournalIsFifo
  <1> DEFINE A == \A c \in Container : FifoStep(c)
  <1>1. Typed /\ JournalTyped /\ [Next]_vars => [A]_journalVars
    BY JournalFifoStep
  <1>2. JournalIsFifo <=> [][A]_journalVars
    BY PTL DEF JournalIsFifo, FifoStep
  <1>3. QED
    BY <1>1, <1>2, JournalInvariant, PTL DEF Spec

-----------------------------------------------------------------------------
(* The meter.                                                              *)

\* The requests of d whose reply was used, in each phase.
Usage(d) ==
  /\ d.phase \in {"unused", "fast"} => d.used = 0 /\ d.level \notin ByAI /\ ~d.deepened
  /\ d.phase \in {"check", "mark", "deep"} => d.used = 1 /\ d.level = "AI" /\ ~d.deepened
  /\ d.phase \in {"record", "count", "update", "sent"} =>
       d.used = IF d.level \notin ByAI THEN 0 ELSE IF d.deepened THEN 2 ELSE 1

UsageAgrees == \A i \in CallId : Usage(calls[i])

\* The requests the meter shows: those of the diagnoses that have ended.
Settled == {r \in Useful : calls[r[1]].phase = "done"}

MeterInv == UsageAgrees /\ metered = Cardinality(Settled)

LEMMA UsageBegins ==
  ASSUME NEW s \in Snapshot, NEW local \in BOOLEAN, NEW level \in Level \ ByAI
  PROVE  Usage(Begun(s, local, IF local THEN "record" ELSE "fast", level))
  <1> DEFINE phase == IF local THEN "record" ELSE "fast"
  <1>1. phase \in {"fast", "record"}
    OBVIOUS
  <1> HIDE DEF phase
  <1>2. LET u == Begun(s, local, phase, level) IN
        u.phase = phase /\ u.used = 0 /\ u.deepened = FALSE /\ u.level = level
    BY UnusedTyped DEF Begun, Unused
  <1>3. QED
    BY <1>1, <1>2 DEF Usage, phase

LEMMA UsageGoesOn ==
  ASSUME CallsTyped, UsageAgrees, NEW i \in CallId, CallStep(i)
  PROVE  Usage(calls'[i])
  <1> DEFINE d == calls[i]
             Becoming(u) == calls' = [calls EXCEPT ![i] = u]
  <1>1. d \in Diagnosis /\ Usage(d)
    BY DEF CallsTyped, UsageAgrees
  <1>2. ASSUME NEW u, Becoming(u) PROVE calls'[i] = u
    BY <1>2 DEF CallsTyped
  <1>3. CASE FastReply(i)
    <2>1. d.snapshot.kind \in Kind /\ d.phase = "fast"
      BY <1>3 DEF FastReply, CallsTyped, InFlight
    <2>2. PICK r \in Replies[d.snapshot.kind] :
            Becoming([d EXCEPT !.used = IF r.refused THEN 0 ELSE 1,
                               !.level = IF r.refused THEN d.level ELSE r.diagnosis.level,
                               !.phase = IF Deepens(r) THEN "check" ELSE "record"])
      BY <1>3 DEF FastReply
    <2> DEFINE phase == IF Deepens(r) THEN "check" ELSE "record"
               used == IF r.refused THEN 0 ELSE 1
               level == IF r.refused THEN d.level ELSE r.diagnosis.level
    <2>3. calls'[i] = [d EXCEPT !.used = used, !.level = level, !.phase = phase]
      BY <1>2, <2>2
    <2>4. /\ phase \in {"check", "record"}
          /\ phase = "check" => used = 1 /\ level = "AI"
          /\ used = IF level \notin ByAI THEN 0 ELSE 1
      <3>1. ~r.refused => r.diagnosis.level \in ByAI
        BY <2>1, Levels
      <3>2. r.refused => level \notin ByAI /\ used = 0
        BY <1>1, <2>1 DEF Usage
      <3>3. QED
        BY <3>1, <3>2 DEF Deepens
    <2> HIDE DEF phase, used, level
    <2>5. calls'[i].used = used /\ calls'[i].level = level /\ calls'[i].phase = phase
          /\ calls'[i].deepened = d.deepened
      BY <1>1, <2>3 DEF Diagnosis
    <2>6. QED
      BY <1>1, <2>1, <2>4, <2>5 DEF Usage
  <1>4. CASE CheckReExecuted(i) \/ MarkReExecuted(i) \/ RecordCrash(i) \/ UpdateLast(i)
    <2>1. PICK phase \in Phase :
            /\ <<d.phase, phase>> \in
                 {<<"check", "record">>, <<"check", "mark">>, <<"mark", "deep">>,
                  <<"record", "count">>, <<"update", "sent">>}
            /\ calls' = [calls EXCEPT ![i].phase = phase]
      BY <1>4 DEF CheckReExecuted, MarkReExecuted, RecordCrash, UpdateLast, Phase
    <2>2. /\ calls'[i].phase = phase /\ calls'[i].used = d.used /\ calls'[i].level = d.level
          /\ calls'[i].deepened = d.deepened
      BY <1>1, <2>1 DEF CallsTyped, Diagnosis
    <2>3. QED
      BY <1>1, <2>1, <2>2 DEF Usage, ByAI
  <1>5. CASE DeepReply(i)
    <2>1. PICK taken \in BOOLEAN :
            calls'[i] = [d EXCEPT !.used = IF taken THEN 2 ELSE 1, !.deepened = taken,
                                  !.phase = "record"]
      <3>1. PICK r \in Replies[d.snapshot.kind] :
              LET taken == ~r.refused /\ r.diagnosis.level = "AI" IN
              Becoming([d EXCEPT !.used = IF taken THEN 2 ELSE 1, !.deepened = taken,
                                 !.phase = "record"])
        BY <1>5 DEF DeepReply
      <3> DEFINE taken == ~r.refused /\ r.diagnosis.level = "AI"
      <3>2. taken \in BOOLEAN
        OBVIOUS
      <3>3. Becoming([d EXCEPT !.used = IF taken THEN 2 ELSE 1, !.deepened = taken,
                               !.phase = "record"])
        BY <3>1
      <3> HIDE DEF taken
      <3>4. QED
        BY <1>2, <3>2, <3>3
    <2>2. d.phase = "deep"
      BY <1>5 DEF DeepReply
    <2>3. /\ calls'[i].phase = "record" /\ calls'[i].used = (IF taken THEN 2 ELSE 1)
          /\ calls'[i].level = d.level /\ calls'[i].deepened = taken
      BY <1>1, <2>1 DEF Diagnosis
    <2>4. QED
      BY <1>1, <2>2, <2>3 DEF Usage, ByAI
  <1>6. CASE CountCrashes(i)
    <2>1. PICK b : calls' = [calls EXCEPT ![i].recurrent = b, ![i].phase = "update"]
      BY <1>6 DEF CountCrashes
    <2>2. /\ calls'[i].phase = "update" /\ calls'[i].used = d.used /\ calls'[i].level = d.level
          /\ calls'[i].deepened = d.deepened
      BY <1>1, <2>1 DEF CallsTyped, Diagnosis
    <2>3. d.phase = "count"
      BY <1>6 DEF CountCrashes
    <2>4. QED
      BY <1>1, <2>2, <2>3 DEF Usage
  <1>7. CASE Handle(i)
    <2>1. calls'[i].phase = "done"
      BY <1>7 DEF Handle, CallsTyped, Unused
    <2>2. QED
      BY <2>1 DEF Usage
  <1>8. QED
    BY <1>3, <1>4, <1>5, <1>6, <1>7 DEF CallStep

\* What the meter shows when diagnosis i ends: its requests, besides the others'.
LEMMA SettledGrows ==
  ASSUME CallsTyped, UsageAgrees, NEW i \in CallId, Handle(i), metered = Cardinality(Settled)
  PROVE  metered' = Cardinality(Settled')
  <1> DEFINE d == calls[i]
  <1>1. d \in Diagnosis /\ Usage(d) /\ d.phase = "sent"
    BY DEF CallsTyped, UsageAgrees, Handle
  <1>2. /\ calls'[i].phase = "done" /\ calls'[i].used = d.used
        /\ \A j \in CallId \ {i} : calls'[j] = calls[j]
    BY DEF CallsTyped, Handle, Unused
  <1>3. IsFiniteSet(Settled) /\ \A n : <<i, n>> \notin Settled
    <2>1. IsFiniteSet(CallId) /\ IsFiniteSet({1, 2})
      <3>1. {1, 2} = 1 .. 2 /\ MaxCalls \in Int
        BY CascadeAssumption
      <3>2. \A m \in Int : IsFiniteSet(1 .. m)
        BY FS_Interval
      <3>3. QED
        BY <3>1, <3>2, 2 \in Int DEF CallId
    <2>2. IsFiniteSet(CallId \X {1, 2})
      BY <2>1, FS_Product
    <2>3. Settled \in SUBSET (CallId \X {1, 2})
      BY DEF Settled, Useful
    <2>4. QED
      BY <1>1, <2>2, <2>3, FS_Subset DEF Settled
  <1> DEFINE new == {r \in CallId \X {1, 2} : r[1] = i /\ r[2] <= d.used}
  <1>4. Settled' = Settled \union new
    <2>1. ASSUME NEW r \in CallId \X {1, 2} PROVE r \in Settled' <=> r \in Settled \union new
      <3>1. r \in Settled' <=> r[2] <= calls'[r[1]].used /\ calls'[r[1]].phase = "done"
        BY DEF Settled, Useful
      <3>2. r \in Settled <=> r[2] <= calls[r[1]].used /\ calls[r[1]].phase = "done"
        BY DEF Settled, Useful
      <3>3. QED
        BY <1>1, <1>2, <3>1, <3>2
    <2>2. /\ Settled' \subseteq CallId \X {1, 2} /\ Settled \subseteq CallId \X {1, 2}
          /\ new \subseteq CallId \X {1, 2}
      BY DEF Settled, Useful
    <2> HIDE DEF new
    <2>3. QED
      BY <2>1, <2>2
  <1>5. Requests(i) = d.used /\ metered' = metered + Requests(i)
    BY <1>1 DEF Handle, Requests, ByModel, Usage, ByAI
  <1>6. d.used \in 0 .. 2 /\ Cardinality(Settled) \in Nat
    BY <1>1, <1>3, FS_CardinalityType DEF Diagnosis
  <1>7. CASE d.used = 0
    <2>1. Settled' = Settled
      BY <1>4, <1>7
    <2>2. QED
      BY <1>5, <1>6, <1>7, <2>1
  <1>8. CASE d.used = 1
    <2>1. Settled' = Settled \union {<<i, 1>>}
      BY <1>4, <1>8
    <2> HIDE DEF d
    <2>2. Cardinality(Settled \union {<<i, 1>>}) = Cardinality(Settled) + 1
      BY <1>3, FS_AddElement
    <2>3. QED
      BY <1>5, <1>6, <1>8, <2>1, <2>2
  <1>9. CASE d.used = 2
    <2> DEFINE one == Settled \union {<<i, 1>>}
    <2>1. Settled' = one \union {<<i, 2>>}
      BY <1>4, <1>9
    <2>2. IsFiniteSet(one) /\ Cardinality(one) = Cardinality(Settled) + 1
      BY <1>3, FS_AddElement
    <2>5. <<i, 2>> \notin one
      BY <1>3
    <2> HIDE DEF d, one
    <2>3. Cardinality(one \union {<<i, 2>>}) = Cardinality(one) + 1
      BY <2>2, <2>5, FS_AddElement
    <2>4. QED
      BY <1>5, <1>6, <1>9, <2>1, <2>2, <2>3
  <1>10. QED
    BY <1>6, <1>7, <1>8, <1>9

LEMMA MeterStep ==
  ASSUME Typed, MeterInv, [Next]_vars
  PROVE  MeterInv'
  <1> USE DEF Typed, MeterInv
  <1>1. UsageAgrees'
    <2>1. CASE UNCHANGED calls
      BY <2>1 DEF UsageAgrees
    <2>2. ASSUME NEW i \in CallId, NEW s \in Snapshot, NEW local \in BOOLEAN, Asked(i, s, local)
          PROVE  UsageAgrees'
      <3>1. PICK level \in Level \ ByAI :
              calls'[i] = Begun(s, local, IF local THEN "record" ELSE "fast", level)
        BY <2>2 DEF Asked, Begins
      <3>2. Usage(calls'[i])
        BY <3>1, UsageBegins
      <3>3. \A j \in CallId \ {i} : calls'[j] = calls[j]
        BY <2>2 DEF Asked, Begins
      <3>4. QED
        BY <3>2, <3>3 DEF UsageAgrees
    <2>3. ASSUME NEW i \in CallId, CallStep(i) PROVE UsageAgrees'
      <3>1. \A j \in CallId \ {i} : calls'[j] = calls[j]
        BY <2>3, CallGoesOn DEF GoesOn
      <3>2. QED
        BY <2>3, <3>1, UsageGoesOn DEF UsageAgrees
    <2>4. QED
      BY <2>1, <2>2, <2>3, Steps
  <1>2. CASE \E i \in CallId : Handle(i)
    BY <1>1, <1>2, SettledGrows
  <1>3. CASE ~(\E i \in CallId : Handle(i))
    <2>1. metered' = metered
      BY <1>3 DEF Next, vars, interfaceVars, Tick, ChangeState, Metrics, Key, Tab, Assign,
         CallStep, FastReply, CheckReExecuted, MarkReExecuted, DeepReply, RecordCrash,
         CountCrashes, UpdateLast, KeepInterface
    <2>2. \A i \in CallId : (calls'[i].phase = "done" <=> calls[i].phase = "done")
                            /\ (calls[i].phase = "done" => calls'[i] = calls[i])
      <3>1. CASE UNCHANGED calls
        BY <3>1
      <3>2. ASSUME NEW j \in CallId, NEW s \in Snapshot, NEW local \in BOOLEAN, Asked(j, s, local)
            PROVE  \A i \in CallId : (calls'[i].phase = "done" <=> calls[i].phase = "done")
                                     /\ (calls[i].phase = "done" => calls'[i] = calls[i])
        BY <3>2 DEF Asked, Begins
      <3>3. ASSUME NEW j \in CallId, CallStep(j)
            PROVE  \A i \in CallId : (calls'[i].phase = "done" <=> calls[i].phase = "done")
                                     /\ (calls[i].phase = "done" => calls'[i] = calls[i])
        <4>1. GoesOn(j)
          BY <3>3, CallGoesOn
        <4>2. calls[j].phase # "sent"
          BY <1>3, <3>3 DEF CallStep, FastReply, CheckReExecuted, MarkReExecuted, DeepReply,
             RecordCrash, CountCrashes, UpdateLast
        <4>3. QED
          BY <4>1, <4>2 DEF GoesOn, Follows
      <3>4. QED
        BY <3>1, <3>2, <3>3, Steps
    <2>3. Settled' = Settled
      BY <2>2 DEF Settled, Useful
    <2>4. QED
      BY <1>1, <2>1, <2>3
  <1>4. QED
    BY <1>2, <1>3

\* The meter of the session shows exactly the requests whose reply was used, once no
\* diagnosis is under way (update.go: diagnosisResultMsg), however the diagnoses fail,
\* interleave and deepen.
THEOREM MeterIsExact == Spec => []MeterExact
  <1>1. Init => MeterInv
    <2> SUFFICES ASSUME Init PROVE MeterInv
      OBVIOUS
    <2>1. calls = [i \in CallId |-> Unused] /\ metered = 0
      BY DEF Init
    <2>2. \A i \in CallId : Usage(calls[i]) /\ calls[i].phase = "unused"
      BY <2>1 DEF Usage, Unused, ByAI
    <2>3. Settled = {}
      BY <2>2 DEF Settled, Useful
    <2>4. QED
      BY <2>1, <2>2, <2>3, FS_EmptySet DEF MeterInv, UsageAgrees
  <1>2. Typed /\ MeterInv /\ [Next]_vars => MeterInv'
    BY MeterStep
  <1>3. MeterInv => MeterExact
    <2> SUFFICES ASSUME MeterInv, \A i \in CallId : ~InFlight(i) PROVE metered = Cardinality(Useful)
      BY DEF MeterExact
    <2>1. Settled = Useful
      BY DEF Settled, Useful, MeterInv, UsageAgrees, Usage, InFlight
    <2>2. QED
      BY <2>1 DEF MeterInv
  <1>4. QED
    BY <1>1, <1>2, <1>3, DiagnosesTyped, PTL DEF Spec

-----------------------------------------------------------------------------
(* What the journal counts did happen.                                     *)

JournalOrdered ==
  \A c \in Container :
    /\ \A n \in 1 .. Len(journal[c]) : journal[c][n].at <= now
    /\ \A m, n \in 1 .. Len(journal[c]) : m <= n => journal[c][m].at <= journal[c][n].at

\* No crash is in a list twice.
MarksApart ==
  \A c \in Container :
    /\ \A n \in 1 .. Len(journal[c]) : journal[c][n].mark \in recorded
    /\ \A m, n \in 1 .. Len(journal[c]) : m # n => journal[c][m].mark # journal[c][n].mark

\* H[c][k]: when c changed to kind k.  Snapshot s was taken after such a change.
Real(H, s) == s.stamp > 0 /\ s.stamp \in H[s.container][s.kind]

Happened(H) ==
  /\ \A c \in Container, k \in Kind :
       /\ IsFiniteSet(H[c][k]) /\ Cardinality(H[c][k]) <= past[c][k]
       /\ 0 \notin H[c][k]
  /\ \A c \in Container : fleet[c].since \in H[c][fleet[c].kind]
  /\ \A c \in Container \ Unreadable : shown[c] # NoSnapshot => Real(H, shown[c])
  /\ \A i \in CallId :
       InFlight(i) /\ calls[i].snapshot.container \notin Unreadable => Real(H, calls[i].snapshot)
  /\ \A c \in Container \ Unreadable : \A n \in 1 .. Len(journal[c]) :
       LET e == journal[c][n] IN \E t \in H[c][e.kind] : e.mark = <<c, "at", t, e.kind>>

PastTyped == past \in [Container -> [Kind -> Nat]] /\ now > 0

RecurrentHappened ==
  \A i \in CallId :
    LET s == calls[i].snapshot IN
    calls[i].recurrent =>
      /\ InFlight(i)
      /\ s.container \notin Unreadable => past[s.container][s.kind] >= Threshold

History == [Container -> [Kind -> SUBSET Nat]]

CountsInv ==
  /\ JournalOrdered /\ MarksApart /\ PastTyped
  /\ \E H \in History : Happened(H)
  /\ RecurrentHappened

\* Time passes, the containers change and the screen is filled in steps of their own.
LEMMA WorldSteps ==
  ASSUME Typed, [Next]_vars
  PROVE  /\ now' >= now
         /\ \/ UNCHANGED <<fleet, past>>
            \/ \E c \in Container : ChangeState(c)
         /\ \/ UNCHANGED shown
            \/ \E unread \in SUBSET Unreadable : Metrics(unread)
  <1>1. now \in Nat
    BY DEF Typed, ClockTyped
  <1>2. ASSUME NEW i \in CallId, CallStep(i) PROVE UNCHANGED <<now, fleet, past, shown>>
    BY <1>2 DEF CallStep, FastReply, CheckReExecuted, MarkReExecuted, DeepReply, RecordCrash,
       CountCrashes, UpdateLast, Handle, KeepInterface, fleetVars, interfaceVars
  <1>3. CASE Tick \/ Tab \/ Assign \/ UNCHANGED vars
    BY <1>1, <1>3 DEF Tick, Tab, Assign, vars, fleetVars, interfaceVars
  <1>4. ASSUME NEW c \in Container, Key(c, FALSE) \/ Key(c, TRUE)
        PROVE  UNCHANGED <<now, fleet, past, shown>>
    BY <1>4 DEF Key, fleetVars
  <1>5. ASSUME NEW c \in Container, ChangeState(c) PROVE UNCHANGED <<now, shown>>
    BY <1>5 DEF ChangeState, interfaceVars
  <1>6. ASSUME NEW unread, Metrics(unread) PROVE UNCHANGED <<now, fleet, past>>
    BY <1>6 DEF Metrics, fleetVars
  <1>7. now' = now => now' >= now
    BY <1>1
  <1>8. CASE \E i \in CallId : CallStep(i)
    BY <1>2, <1>7, <1>8
  <1>9. CASE \E c \in Container : ChangeState(c) \/ Key(c, FALSE) \/ Key(c, TRUE)
    BY <1>4, <1>5, <1>7, <1>9
  <1>10. CASE \E unread \in SUBSET Unreadable : Metrics(unread)
    BY <1>6, <1>7, <1>10
  <1>11. QED
    BY <1>3, <1>8, <1>9, <1>10 DEF Next

LEMMA OrderedStep ==
  ASSUME Typed, JournalTyped, JournalOrdered, [Next]_vars
  PROVE  JournalOrdered'
  <1>1. now \in Nat /\ now' \in Nat /\ now' >= now
    BY Steps, WorldSteps DEF Typed, ClockTyped
  <1> SUFFICES ASSUME NEW c \in Container
               PROVE  /\ \A n \in 1 .. Len(journal'[c]) : journal'[c][n].at <= now'
                      /\ \A m, n \in 1 .. Len(journal'[c]) :
                           m <= n => journal'[c][m].at <= journal'[c][n].at
    BY DEF JournalOrdered
  <1> DEFINE l == journal[c]
             Ordered == /\ \A n \in 1 .. Len(journal'[c]) : journal'[c][n].at <= now'
                        /\ \A m, n \in 1 .. Len(journal'[c]) :
                             m <= n => journal'[c][m].at <= journal'[c][n].at
  <1>2. /\ l \in Seq(Event) /\ Len(l) <= Keep /\ \A n \in 1 .. Len(l) : l[n].at <= now
        /\ \A m, n \in 1 .. Len(l) : m <= n => l[m].at <= l[n].at
    BY DEF JournalTyped, JournalOrdered
  <1> HIDE DEF l
  <1>3. \A n \in 1 .. Len(l) : l[n].at \in Nat
    <2>1. \A n \in 1 .. Len(l) : l[n] \in Event
      BY <1>2
    <2>2. QED
      BY <2>1 DEF Event
  <1>4. CASE journal'[c] = l
    BY <1>1, <1>2, <1>3, <1>4
  <1>5. ASSUME NEW a \in Container, NEW d \in Level, UpdateDiagnosis(a, d) PROVE Ordered
    <2>1. Len(journal'[c]) = Len(l) /\ \A n \in 1 .. Len(l) : journal'[c][n].at = l[n].at
      BY <1>5, Diagnosed DEF l
    <2>2. QED
      BY <1>1, <1>2, <1>3, <2>1
  <1>6. ASSUME NEW S \in Recordable, NEW d \in Level \union {NoDiagnosis}, RecordAll(S, d)
        PROVE  Ordered
    <2>1. ASSUME NEW e \in Event, e.at = now, journal'[c] = Remember(l, e) PROVE Ordered
      <3> DEFINE r == Remember(l, e)
      <3>1. /\ r \in Seq(Event)
            /\ Len(r) = IF Len(l) < Keep THEN Len(l) + 1 ELSE Keep
            /\ \A n \in 1 .. Len(r) :
                 r[n] = IF n = Len(r) THEN e ELSE IF Len(l) < Keep THEN l[n] ELSE l[n + 1]
        BY <1>2, Remembered
      <3>2. Keep \in Nat \ {0} /\ Len(l) \in Nat
        BY <1>2, JournalAssumption
      <3> HIDE DEF r
      <3>3. CASE Len(l) < Keep
        <4>1. \A n \in 1 .. Len(l) + 1 : r[n].at = IF n = Len(l) + 1 THEN now ELSE l[n].at
          BY <2>1, <3>1, <3>2, <3>3
        <4>2. \A n \in 1 .. Len(l) + 1 : n # Len(l) + 1 => n \in 1 .. Len(l)
          BY <3>2
        <4>3. \A n \in 1 .. Len(l) + 1 : r[n].at \in Nat /\ r[n].at <= now
          BY <1>1, <1>2, <1>3, <4>1, <4>2
        <4>4. ASSUME NEW m \in 1 .. Len(l) + 1, NEW n \in 1 .. Len(l) + 1, m <= n
              PROVE  r[m].at <= r[n].at
          <5>1. CASE n = Len(l) + 1
            BY <3>2, <4>1, <4>3, <5>1
          <5>2. CASE n # Len(l) + 1
            <6>1. m \in 1 .. Len(l) /\ n \in 1 .. Len(l)
              BY <3>2, <4>4, <5>2
            <6>2. QED
              BY <1>2, <3>2, <4>1, <4>4, <6>1
          <5>3. QED
            BY <5>1, <5>2
        <4>5. journal'[c] = r /\ Len(r) = Len(l) + 1
          BY <2>1, <3>1, <3>3 DEF r
        <4>6. QED
          BY <1>1, <4>3, <4>4, <4>5
      <3>4. CASE Len(l) = Keep
        <4>1. \A n \in 1 .. Keep : r[n].at = IF n = Keep THEN now ELSE l[n + 1].at
          BY <2>1, <3>1, <3>2, <3>4
        <4>2. \A n \in 1 .. Keep : n # Keep => n + 1 \in 1 .. Len(l)
          BY <3>2, <3>4
        <4>3. \A n \in 1 .. Keep : r[n].at \in Nat /\ r[n].at <= now
          BY <1>1, <1>2, <1>3, <4>1, <4>2
        <4>4. ASSUME NEW m \in 1 .. Keep, NEW n \in 1 .. Keep, m <= n
              PROVE  r[m].at <= r[n].at
          <5>1. CASE n = Keep
            BY <4>1, <4>3, <5>1
          <5>2. CASE n # Keep
            <6>1. m # Keep /\ m + 1 \in 1 .. Len(l) /\ n + 1 \in 1 .. Len(l) /\ m + 1 <= n + 1
              BY <3>2, <4>2, <4>4, <5>2
            <6>2. QED
              BY <1>2, <4>1, <5>2, <6>1
          <5>3. QED
            BY <5>1, <5>2
        <4>5. QED
          BY <1>1, <2>1, <3>1, <3>2, <3>4, <4>3, <4>4 DEF r
      <3>5. QED
        BY <1>2, <3>2, <3>3, <3>4
    <2>2. \A s : NewEvent(s, d).at = now
      BY DEF NewEvent
    <2>3. QED
      BY <1>1, <1>4, <1>6, <2>1, <2>2, Recorded DEF l
  <1>7. QED
    BY <1>4, <1>5, <1>6, JournalSteps DEF journalVars, l

LEMMA ApartStep ==
  ASSUME Typed, JournalTyped, MarksApart, [Next]_vars
  PROVE  MarksApart'
  <1>1. now \in Nat
    BY DEF Typed, ClockTyped
  <1> SUFFICES ASSUME NEW c \in Container
               PROVE  /\ \A n \in 1 .. Len(journal'[c]) : journal'[c][n].mark \in recorded'
                      /\ \A m, n \in 1 .. Len(journal'[c]) :
                           m # n => journal'[c][m].mark # journal'[c][n].mark
    BY DEF MarksApart
  <1> DEFINE l == journal[c]
             Apart == /\ \A n \in 1 .. Len(journal'[c]) : journal'[c][n].mark \in recorded'
                      /\ \A m, n \in 1 .. Len(journal'[c]) :
                           m # n => journal'[c][m].mark # journal'[c][n].mark
  <1>2. /\ l \in Seq(Event) /\ Len(l) <= Keep /\ \A n \in 1 .. Len(l) : l[n].mark \in recorded
        /\ \A m, n \in 1 .. Len(l) : m # n => l[m].mark # l[n].mark
    BY DEF JournalTyped, MarksApart
  <1> HIDE DEF l
  <1>3. CASE journal'[c] = l /\ recorded \subseteq recorded'
    BY <1>2, <1>3
  <1>4. ASSUME NEW a \in Container, NEW d \in Level, UpdateDiagnosis(a, d) PROVE Apart
    <2>1. /\ Len(journal'[c]) = Len(l) /\ \A n \in 1 .. Len(l) : journal'[c][n].mark = l[n].mark
          /\ recorded' = recorded
      BY <1>4, Diagnosed DEF l
    <2>2. QED
      BY <1>2, <2>1
  <1>5. ASSUME NEW S \in Recordable, NEW d \in Level \union {NoDiagnosis}, RecordAll(S, d)
        PROVE  Apart
    <2>1. recorded \subseteq recorded'
      BY <1>5 DEF RecordAll
    <2>2. ASSUME NEW s \in S, Fresh(s), NewEvent(s, d) \in Event,
                 journal'[c] = Remember(l, NewEvent(s, d))
          PROVE  Apart
      <3> DEFINE e == NewEvent(s, d)
                 r == Remember(l, e)
      <3>1. e.mark \notin recorded /\ e.mark \in recorded'
        BY <1>5, <2>2 DEF NewEvent, Fresh, RecordAll
      <3>2. /\ Len(r) = IF Len(l) < Keep THEN Len(l) + 1 ELSE Keep
            /\ \A n \in 1 .. Len(r) :
                 r[n] = IF n = Len(r) THEN e ELSE IF Len(l) < Keep THEN l[n] ELSE l[n + 1]
        BY <1>2, <2>2, Remembered
      <3>3. Keep \in Nat \ {0} /\ Len(l) \in Nat
        BY <1>2, JournalAssumption
      <3> HIDE DEF e, r
      <3>4. CASE Len(l) < Keep
        BY <1>2, <2>1, <2>2, <3>1, <3>2, <3>3, <3>4 DEF r, e
      <3>5. CASE Len(l) = Keep
        <4>1. \A n \in 1 .. Keep : r[n] = IF n = Keep THEN e ELSE l[n + 1]
          BY <3>2, <3>3, <3>5
        <4>2. \A n \in 1 .. Keep : n # Keep => n + 1 \in 1 .. Len(l)
          BY <3>3, <3>5
        <4>3. \A n \in 1 .. Keep : r[n].mark \in recorded'
          BY <1>2, <2>1, <3>1, <4>1, <4>2
        <4>4. ASSUME NEW m \in 1 .. Keep, NEW n \in 1 .. Keep, m # n
              PROVE  r[m].mark # r[n].mark
          <5>1. CASE n = Keep \/ m = Keep
            BY <1>2, <3>1, <4>1, <4>2, <4>4, <5>1
          <5>2. CASE n # Keep /\ m # Keep
            <6>1. m + 1 \in 1 .. Len(l) /\ n + 1 \in 1 .. Len(l) /\ m + 1 # n + 1
              BY <3>3, <4>2, <4>4, <5>2
            <6>2. QED
              BY <1>2, <4>1, <5>2, <6>1
          <5>3. QED
            BY <5>1, <5>2
        <4>5. QED
          BY <2>2, <3>2, <3>3, <3>5, <4>3, <4>4 DEF r, e
      <3>6. QED
        BY <1>2, <3>3, <3>4, <3>5
    <2>3. QED
      BY <1>1, <1>3, <1>5, <2>1, <2>2, Recorded DEF l
  <1>6. CASE UNCHANGED journalVars
    BY <1>3, <1>6 DEF journalVars, l
  <1>7. QED
    BY <1>4, <1>5, <1>6, JournalSteps

\* A change of a container is one more, whatever is known of the others.
LEMMA HappenedChanges ==
  ASSUME Typed, JournalTyped, PastTyped, NEW H \in History, Happened(H),
         NEW c \in Container, ChangeState(c)
  PROVE  /\ \E G \in History : Happened(G)'
         /\ PastTyped'
         /\ \A a \in Container, j \in Kind : past'[a][j] >= past[a][j]
  <1>1. PICK k \in Kind : /\ fleet' = [fleet EXCEPT ![c] = [kind |-> k, since |-> now]]
                          /\ past' = [past EXCEPT ![c][k] = @ + 1]
    BY DEF ChangeState
  <1>2. UNCHANGED <<now, journal, recorded, shown, calls>>
    BY DEF ChangeState, journalVars, interfaceVars
  <1>3. now \in Nat /\ now > 0 /\ past \in [Container -> [Kind -> Nat]]
    BY DEF PastTyped, Typed, ClockTyped
  <1>4. \A a \in Container, j \in Kind :
          past'[a][j] = IF a = c /\ j = k THEN past[a][j] + 1 ELSE past[a][j]
    BY <1>1, <1>3
  <1>5. PastTyped' /\ \A a \in Container, j \in Kind : past'[a][j] >= past[a][j]
    BY <1>1, <1>2, <1>3, <1>4 DEF PastTyped
  <1>6. PICK G \in History :
          \A a \in Container, j \in Kind :
            G[a][j] = IF a = c /\ j = k THEN H[a][j] \union {now} ELSE H[a][j]
    <2> DEFINE G == [a \in Container |-> [j \in Kind |->
                       IF a = c /\ j = k THEN H[a][j] \union {now} ELSE H[a][j]]]
    <2>1. G \in History /\ \A a \in Container, j \in Kind :
            G[a][j] = IF a = c /\ j = k THEN H[a][j] \union {now} ELSE H[a][j]
      BY <1>3 DEF History
    <2> HIDE DEF G
    <2>2. QED
      BY <2>1
  <1>7. \A a \in Container, j \in Kind :
          IsFiniteSet(G[a][j]) /\ Cardinality(G[a][j]) <= past'[a][j] /\ 0 \notin G[a][j]
    <2> SUFFICES ASSUME NEW a \in Container, NEW j \in Kind
                 PROVE  /\ IsFiniteSet(G[a][j]) /\ Cardinality(G[a][j]) <= past'[a][j]
                        /\ 0 \notin G[a][j]
      OBVIOUS
    <2>1. /\ IsFiniteSet(H[a][j]) /\ Cardinality(H[a][j]) <= past[a][j] /\ 0 \notin H[a][j]
          /\ past[a][j] \in Nat
      BY <1>3 DEF Happened
    <2>2. Cardinality(H[a][j]) \in Nat
      BY <2>1, FS_CardinalityType
    <2>3. /\ IsFiniteSet(H[a][j] \union {now})
          /\ Cardinality(H[a][j] \union {now}) <= Cardinality(H[a][j]) + 1
      <3>1. /\ IsFiniteSet(H[a][j] \union {now})
            /\ Cardinality(H[a][j] \union {now}) =
                 IF now \in H[a][j] THEN Cardinality(H[a][j]) ELSE Cardinality(H[a][j]) + 1
        BY <2>1, FS_AddElement
      <3>2. QED
        BY <2>2, <3>1
    <2>4. CASE a = c /\ j = k
      <3>1. G[a][j] = H[a][j] \union {now} /\ past'[a][j] = past[a][j] + 1
        BY <1>4, <1>6, <2>4
      <3>2. Cardinality(G[a][j]) \in Nat
        BY <2>3, <3>1, FS_CardinalityType
      <3>3. QED
        BY <1>3, <2>1, <2>2, <2>3, <3>1, <3>2
    <2>5. CASE ~(a = c /\ j = k)
      BY <1>4, <1>6, <2>1, <2>5
    <2>6. QED
      BY <2>4, <2>5
  <1>8. \A a \in Container : fleet'[a].since \in G[a][fleet'[a].kind]
    <2>1. \A a \in Container : fleet[a].kind \in Kind /\ fleet[a].since \in H[a][fleet[a].kind]
      BY DEF Happened, Typed, ClockTyped
    <2>2. \A a \in Container : fleet'[a] = IF a = c THEN [kind |-> k, since |-> now] ELSE fleet[a]
      BY <1>1 DEF Typed, ClockTyped
    <2> SUFFICES ASSUME NEW a \in Container PROVE fleet'[a].since \in G[a][fleet'[a].kind]
      OBVIOUS
    <2>3. CASE a = c
      <3>1. fleet'[a].since = now /\ fleet'[a].kind = k
        BY <2>2, <2>3
      <3>2. QED
        BY <1>6, <2>3, <3>1
    <2>4. CASE a # c
      <3>1. fleet'[a] = fleet[a]
        BY <2>2, <2>4
      <3>2. QED
        BY <1>6, <2>1, <2>4, <3>1
    <2>5. QED
      BY <2>3, <2>4
  <1>9. \A s : s.container \in Container /\ s.kind \in Kind /\ Real(H, s) => Real(G, s)
    BY <1>6 DEF Real
  <1>10. \A a \in Container \ Unreadable : shown'[a] # NoSnapshot => Real(G, shown'[a])
    BY <1>2, <1>9 DEF Happened, Typed, ShownTyped
  <1>11. \A i \in CallId :
           InFlight(i)' /\ calls'[i].snapshot.container \notin Unreadable => Real(G, calls'[i].snapshot)
    BY <1>2, <1>9 DEF Happened, Typed, CallsTyped, InFlight
  <1>12. \A a \in Container \ Unreadable : \A n \in 1 .. Len(journal'[a]) :
           LET e == journal'[a][n] IN \E t \in G[a][e.kind] : e.mark = <<a, "at", t, e.kind>>
    <2>1. \A a \in Container : \A n \in 1 .. Len(journal[a]) : journal[a][n].kind \in Kind
      <3>1. \A a \in Container : journal[a] \in Seq(Event)
        BY DEF JournalTyped
      <3>2. \A a \in Container : \A n \in 1 .. Len(journal[a]) : journal[a][n] \in Event
        BY <3>1
      <3>3. QED
        BY <3>2 DEF Event
    <2>2. \A a \in Container \ Unreadable : \A n \in 1 .. Len(journal[a]) :
            \E t \in H[a][journal[a][n].kind] :
              journal[a][n].mark = <<a, "at", t, journal[a][n].kind>>
      BY DEF Happened
    <2>3. \A a \in Container, j \in Kind : H[a][j] \subseteq G[a][j]
      BY <1>6
    <2>4. \A a \in Container \ Unreadable : \A n \in 1 .. Len(journal[a]) :
            \E t \in G[a][journal[a][n].kind] :
              journal[a][n].mark = <<a, "at", t, journal[a][n].kind>>
      BY <2>1, <2>2, <2>3
    <2>5. QED
      BY <1>2, <2>4
  <1>13. Happened(G)'
    BY <1>7, <1>8, <1>10, <1>11, <1>12 DEF Happened, Real
  <1>14. QED
    BY <1>5, <1>6, <1>13

\* What is read, asked about or recorded did happen.
LEMMA HappenedKnown ==
  ASSUME Typed, JournalTyped, PastTyped, NEW H \in History, Happened(H), [Next]_vars,
         UNCHANGED <<fleet, past>>
  PROVE  Happened(H)'
  <1>1. Typed' /\ now \in Nat
    BY Steps DEF Typed, ClockTyped
  <1>2. \A c \in Container, k \in Kind :
          IsFiniteSet(H[c][k]) /\ Cardinality(H[c][k]) <= past'[c][k] /\ 0 \notin H[c][k]
    BY DEF Happened
  <1>3. \A c \in Container : fleet'[c].since \in H[c][fleet'[c].kind]
    BY DEF Happened
  <1>4. \A c \in Container \ Unreadable : shown'[c] # NoSnapshot => Real(H, shown'[c])
    <2>1. CASE UNCHANGED shown
      BY <2>1 DEF Happened
    <2>2. ASSUME NEW unread \in SUBSET Unreadable, Metrics(unread), NEW c \in Container \ Unreadable
          PROVE  Real(H, shown'[c])
      <3>1. shown'[c] = Seen(c, c \in unread) /\ c \notin unread
        BY <2>2 DEF Metrics
      <3>2. /\ shown'[c].stamp = fleet[c].since /\ shown'[c].kind = fleet[c].kind
            /\ shown'[c].container = c
        BY <3>1 DEF Seen
      <3>3. fleet[c].since \in H[c][fleet[c].kind] /\ fleet[c].since \in Nat /\ fleet[c].since # 0
        BY DEF Happened, Typed, ClockTyped
      <3>4. QED
        BY <3>2, <3>3 DEF Real
    <2>3. QED
      BY <2>1, <2>2, WorldSteps
  <1>5. \A s : /\ s # NoSnapshot /\ \E c \in Container : s = shown'[c]
               /\ s.container \notin Unreadable
               => Real(H, s)
    BY <1>1, <1>4 DEF Typed, ShownTyped
  <1>6. \A i \in CallId :
          InFlight(i)' /\ calls'[i].snapshot.container \notin Unreadable => Real(H, calls'[i].snapshot)
    <2>1. CASE UNCHANGED calls
      BY <2>1 DEF Happened, InFlight
    <2>2. ASSUME NEW j \in CallId, NEW s \in Snapshot, NEW local \in BOOLEAN, Asked(j, s, local),
                 NEW i \in CallId, InFlight(i)', calls'[i].snapshot.container \notin Unreadable
          PROVE  Real(H, calls'[i].snapshot)
      <3>1. CASE i = j
        BY <1>5, <2>2, <3>1 DEF Asked, Begins
      <3>2. CASE i # j
        BY <2>2, <3>2 DEF Asked, Begins, Happened, InFlight
      <3>3. QED
        BY <3>1, <3>2
    <2>3. ASSUME NEW j \in CallId, CallStep(j),
                 NEW i \in CallId, InFlight(i)', calls'[i].snapshot.container \notin Unreadable
          PROVE  Real(H, calls'[i].snapshot)
      <3>1. GoesOn(j)
        BY <2>3, CallGoesOn DEF Typed
      <3>2. InFlight(i) /\ calls'[i].snapshot = calls[i].snapshot
        BY <2>3, <3>1 DEF GoesOn, Follows, InFlight
      <3>3. QED
        BY <2>3, <3>2 DEF Happened
    <2>4. QED
      BY <2>1, <2>2, <2>3, Steps
  <1>7. ASSUME NEW c \in Container \ Unreadable
        PROVE  \A n \in 1 .. Len(journal'[c]) :
                 LET e == journal'[c][n] IN \E t \in H[c][e.kind] : e.mark = <<c, "at", t, e.kind>>
    <2> DEFINE Dated(e) == \E t \in H[c][e.kind] : e.mark = <<c, "at", t, e.kind>>
               l == journal[c]
    <2>1. l \in Seq(Event) /\ Len(l) <= Keep /\ \A n \in 1 .. Len(l) : Dated(l[n])
      BY DEF JournalTyped, Happened
    <2> HIDE DEF l
    <2>2. CASE journal'[c] = l
      BY <2>1, <2>2
    <2>3. ASSUME NEW a \in Container, NEW d \in Level, UpdateDiagnosis(a, d)
          PROVE  \A n \in 1 .. Len(journal'[c]) : Dated(journal'[c][n])
      <3>1. /\ Len(journal'[c]) = Len(l)
            /\ \A n \in 1 .. Len(l) : /\ journal'[c][n].mark = l[n].mark
                                      /\ journal'[c][n].kind = l[n].kind
        BY <2>3, Diagnosed DEF l
      <3>2. QED
        BY <2>1, <3>1
    <2>4. ASSUME NEW S \in Recordable, NEW d \in Level \union {NoDiagnosis}, RecordAll(S, d),
                 \A s \in S : Witnessed(s)
          PROVE  \A n \in 1 .. Len(journal'[c]) : Dated(journal'[c][n])
      <3>1. ASSUME NEW s \in S, s.container = c, NewEvent(s, d) \in Event,
                   journal'[c] = Remember(l, NewEvent(s, d))
            PROVE  \A n \in 1 .. Len(journal'[c]) : Dated(journal'[c][n])
        <4> DEFINE e == NewEvent(s, d)
                   r == Remember(l, e)
        <4>1. Real(H, s)
          BY <1>5, <2>4, <3>1 DEF Witnessed, Happened
        <4>2. e.kind = s.kind /\ e.mark = <<c, "at", s.stamp, s.kind>> /\ s.stamp \in H[c][s.kind]
          BY <3>1, <4>1 DEF NewEvent, Mark, Real
        <4>3. Dated(e)
          BY <4>2
        <4>4. /\ Len(r) = IF Len(l) < Keep THEN Len(l) + 1 ELSE Keep
              /\ \A n \in 1 .. Len(r) :
                   r[n] = IF n = Len(r) THEN e ELSE IF Len(l) < Keep THEN l[n] ELSE l[n + 1]
          BY <2>1, <3>1, Remembered
        <4>5. Keep \in Nat \ {0} /\ Len(l) \in Nat
          BY <2>1, JournalAssumption
        <4> HIDE DEF e, r, Dated
        <4>6. ASSUME NEW n \in 1 .. Len(r) PROVE Dated(r[n])
          <5>1. CASE n = Len(r)
            BY <4>3, <4>4, <5>1
          <5>2. CASE n # Len(r) /\ Len(l) < Keep
            <6>1. n \in 1 .. Len(l) /\ r[n] = l[n]
              BY <4>4, <4>5, <5>2
            <6>2. QED
              BY <2>1, <6>1
          <5>3. CASE n # Len(r) /\ Len(l) = Keep
            <6>1. n + 1 \in 1 .. Len(l) /\ r[n] = l[n + 1]
              BY <4>4, <4>5, <5>3
            <6>2. QED
              BY <2>1, <6>1
          <5>4. QED
            BY <2>1, <4>5, <5>1, <5>2, <5>3
        <4>7. QED
          BY <3>1, <4>6 DEF e, r
      <3>2. QED
        BY <1>1, <2>2, <2>4, <3>1, Recorded DEF l
    <2>5. QED
      BY <2>2, <2>3, <2>4, JournalSteps DEF l, journalVars
  <1>8. QED
    BY <1>2, <1>3, <1>4, <1>6, <1>7 DEF Happened, Real

\* A set of positions has a first one.
LEMMA FirstOf ==
  ASSUME NEW T \in SUBSET Nat, T # {}
  PROVE  Min(T) \in T /\ \A n \in T : Min(T) <= n
  <1> DEFINE R == OpToRel(<, Nat)
  <1>1. \A m, n \in Nat : m < n => <<m, n>> \in R
    BY DEF OpToRel
  <1>2. \E m \in T : \A n \in T : <<n, m>> \notin R
    BY NatLessThanWellFounded, WFMin
  <1> HIDE DEF R
  <1>3. PICK m \in T : \A n \in T : <<n, m>> \notin R
    BY <1>2
  <1>4. \A n \in T : ~(n < m)
    BY <1>1, <1>3
  <1>6. \A n \in T : m <= n
    BY <1>4
  <1>5. QED
    BY <1>6 DEF Min

\* Each crash that counts has a time of its own.
LEMMA CountHappened ==
  ASSUME Typed, JournalTyped, MarksApart, PastTyped, NEW H \in History, Happened(H),
         NEW c \in Container \ Unreadable, NEW k \in Kind
  PROVE  Count(c, k) \in Nat /\ Count(c, k) <= past[c][k]
  <1> DEFINE P == {n \in Recent(c) : journal[c][n].kind = k}
             f == [n \in P |-> journal[c][n].mark[3]]
  <1>1. journal[c] \in Seq(Event) /\ P \subseteq 1 .. Len(journal[c])
    BY DEF JournalTyped, Recent
  <1>2. \A n \in P : f[n] \in H[c][k] /\ journal[c][n].mark = <<c, "at", f[n], k>>
    <2>1. \A n \in 1 .. Len(journal[c]) :
            LET e == journal[c][n] IN \E t \in H[c][e.kind] : e.mark = <<c, "at", t, e.kind>>
      BY DEF Happened
    <2>2. QED
      BY <1>1, <2>1
  <1>3. \A m, n \in P : f[m] = f[n] => m = n
    <2>1. \A m, n \in 1 .. Len(journal[c]) :
            m # n => journal[c][m].mark # journal[c][n].mark
      BY DEF MarksApart
    <2> HIDE DEF P, f
    <2>2. QED
      BY <1>1, <1>2, <2>1
  <1> HIDE DEF P
  <1>4. f \in [P -> H[c][k]]
    BY <1>2
  <1> HIDE DEF f
  <1>5. f \in Injection(P, H[c][k])
    BY <1>3, <1>4 DEF Injection, IsInjective
  <1>6. /\ IsFiniteSet(H[c][k]) /\ Cardinality(H[c][k]) <= past[c][k] /\ past[c][k] \in Nat
    BY DEF Happened, PastTyped
  <1>7. IsFiniteSet(P) /\ Cardinality(P) <= Cardinality(H[c][k])
    BY <1>5, <1>6, FS_Injection
  <1>8. Cardinality(P) \in Nat /\ Cardinality(H[c][k]) \in Nat
    BY <1>6, <1>7, FS_CardinalityType
  <1>9. QED
    BY <1>6, <1>7, <1>8 DEF Count, P

\* The block of a prompt agrees with what the operator is told.
LEMMA BlocksAgree ==
  ASSUME Typed, JournalTyped, JournalOrdered, NEW c \in Container
  PROVE  BlockAgrees(c)
  <1> SUFFICES ASSUME Recent(c) # {}
               PROVE  /\ PromptBlock(c).crashes = Cardinality(Recent(c))
                      /\ PromptBlock(c).kinds = Homogeneity(c)
    BY DEF BlockAgrees
  <1> DEFINE l == journal[c]
             last == l[Len(l)].kind
             first == l[Min(Recent(c))].kind
  <1>1. now \in Nat /\ Window \in Nat
    BY JournalAssumption DEF Typed, ClockTyped
  <1>2. l \in Seq(Event) /\ Recent(c) \subseteq 1 .. Len(l) /\ Len(l) \in Nat
    BY DEF JournalTyped, Recent
  <1>3. \A n \in 1 .. Len(l) : l[n].at \in Nat
    <2>1. \A n \in 1 .. Len(l) : l[n] \in Event
      BY <1>2
    <2>2. QED
      BY <2>1 DEF Event
  <1>4. Len(l) \in Recent(c)
    <2>1. PICK n \in Recent(c) : TRUE
      OBVIOUS
    <2>2. n \in 1 .. Len(l) /\ Len(l) \in 1 .. Len(l) /\ n <= Len(l)
      BY <1>2
    <2>3. l[n].at <= l[Len(l)].at
      BY <2>2 DEF JournalOrdered
    <2>4. l[n].at + Window > now
      BY DEF Recent
    <2>5. l[Len(l)].at + Window > now
      BY <1>1, <1>3, <2>2, <2>3, <2>4
    <2>6. QED
      BY <1>2, <2>2, <2>5 DEF Recent
  <1>5. Min(Recent(c)) \in Recent(c)
    BY <1>2, FirstOf
  <1>6. first \in KindsOf(c) /\ last \in KindsOf(c)
    BY <1>4, <1>5 DEF KindsOf
  <1>7. IsFiniteSet(KindsOf(c))
    <2> DEFINE f == [n \in Recent(c) |-> l[n].kind]
    <2>1. IsFiniteSet(Recent(c))
      <3>1. IsFiniteSet(1 .. Len(l))
        BY <1>2, FS_Interval
      <3>2. QED
        BY <1>2, <3>1, FS_Subset
    <2>2. f \in Surjection(Recent(c), KindsOf(c))
      BY DEF Surjection, KindsOf
    <2>3. QED
      BY <2>1, <2>2, FS_Surjection
  <1>8. Cardinality(KindsOf(c)) > 1 <=> KindsOf(c) # {first}
    <2> DEFINE n == Cardinality(KindsOf(c))
    <2>1. n \in Nat /\ n # 0
      BY <1>6, <1>7, FS_CardinalityType, FS_EmptySet
    <2>2. Cardinality(KindsOf(c)) = 1 <=> \E x : KindsOf(c) = {x}
      BY <1>7, FS_Singleton
    <2>3. (\E x : KindsOf(c) = {x}) <=> KindsOf(c) = {first}
      BY <1>6
    <2>4. n = 1 <=> KindsOf(c) = {first}
      BY <2>2, <2>3
    <2> HIDE DEF n
    <2>5. n > 1 <=> n # 1
      BY <2>1
    <2>6. QED
      BY <2>4, <2>5 DEF n
  <1>9. KindsOf(c) = {first} => last = first
    BY <1>6
  <1>10. PromptBlock(c).crashes = Cardinality(Recent(c))
         /\ PromptBlock(c).kinds = IF Cardinality(KindsOf(c)) > 1 THEN "mixed" ELSE last
    BY DEF PromptBlock
  <1>11. Homogeneity(c) = IF KindsOf(c) # {first} THEN "mixed" ELSE first
    BY DEF Homogeneity
  <1>12. QED
    BY <1>8, <1>9, <1>10, <1>11

\* Only the count makes a diagnosis recurrent.
LEMMA RecurrentKept ==
  ASSUME CallsTyped, NEW i \in CallId, CallStep(i), ~CountCrashes(i), ~Handle(i)
  PROVE  calls'[i].recurrent = calls[i].recurrent /\ calls[i].phase # "sent"
  <1> DEFINE d == calls[i]
  <1>1. d \in Diagnosis
    BY DEF CallsTyped
  <1>2. CASE FastReply(i)
    <2>1. \E used, level, phase :
            calls' = [calls EXCEPT ![i] = [d EXCEPT !.used = used, !.level = level, !.phase = phase]]
      BY <1>2 DEF FastReply
    <2>2. QED
      BY <1>1, <1>2, <2>1 DEF FastReply, CallsTyped, Diagnosis
  <1>3. CASE DeepReply(i)
    <2>1. \E used, taken : calls' = [calls EXCEPT ![i] =
            [d EXCEPT !.used = used, !.deepened = taken, !.phase = "record"]]
      BY <1>3 DEF DeepReply
    <2>2. QED
      BY <1>1, <1>3, <2>1 DEF DeepReply, CallsTyped, Diagnosis
  <1>4. CASE CheckReExecuted(i) \/ MarkReExecuted(i) \/ RecordCrash(i) \/ UpdateLast(i)
    <2>1. \E phase : calls' = [calls EXCEPT ![i].phase = phase]
      BY <1>4 DEF CheckReExecuted, MarkReExecuted, RecordCrash, UpdateLast
    <2>2. d.phase # "sent"
      BY <1>4 DEF CheckReExecuted, MarkReExecuted, RecordCrash, UpdateLast
    <2>3. QED
      BY <1>1, <2>1, <2>2 DEF CallsTyped, Diagnosis
  <1>5. QED
    BY <1>2, <1>3, <1>4 DEF CallStep

LEMMA RecurrentStep ==
  ASSUME Typed, JournalTyped, CountsInv, [Next]_vars
  PROVE  (\E G \in History : Happened(G)') /\ PastTyped' /\ RecurrentHappened'
  <1> USE DEF CountsInv
  <1>1. PICK H \in History : Happened(H)
    OBVIOUS
  <1>2. /\ \E G \in History : Happened(G)'
        /\ PastTyped'
        /\ \A a \in Container, j \in Kind : past'[a][j] >= past[a][j]
    <2>1. CASE UNCHANGED <<fleet, past>>
      <3>1. now' \in Nat /\ now' >= now /\ now \in Nat
        BY Steps, WorldSteps DEF Typed, ClockTyped
      <3>2. PastTyped' /\ \A a \in Container, j \in Kind : past'[a][j] >= past[a][j]
        BY <2>1, <3>1 DEF PastTyped
      <3>3. QED
        BY <1>1, <2>1, <3>2, HappenedKnown
    <2>2. CASE \E c \in Container : ChangeState(c)
      BY <1>1, <2>2, HappenedChanges
    <2>3. QED
      BY <2>1, <2>2, WorldSteps
  <1>3. \A a \in Container, j \in Kind : past[a][j] \in Nat /\ past'[a][j] \in Nat
    BY <1>2 DEF PastTyped
  <1>4. \A i \in CallId : InFlight(i) =>
          calls[i].snapshot.container \in Container /\ calls[i].snapshot.kind \in Kind
    BY DEF Typed, CallsTyped
  <1> DEFINE Fine(d) ==
               d.recurrent => /\ d.phase \notin {"unused", "done"}
                              /\ d.snapshot.container \notin Unreadable =>
                                   past'[d.snapshot.container][d.snapshot.kind] >= Threshold
  <1>5. \A i \in CallId : Fine(calls[i])
    BY <1>2, <1>3, <1>4, JournalAssumption DEF RecurrentHappened, InFlight
  <1>6. CASE UNCHANGED calls
    BY <1>2, <1>5, <1>6 DEF RecurrentHappened, InFlight
  <1>7. ASSUME NEW i \in CallId, NEW s \in Snapshot, NEW local \in BOOLEAN, Asked(i, s, local)
        PROVE  RecurrentHappened'
    <2>1. ~calls'[i].recurrent
      <3>1. PICK phase, level : calls'[i] = Begun(s, local, phase, level)
        BY <1>7 DEF Asked, Begins
      <3>2. QED
        BY <3>1 DEF Begun, Unused
    <2>2. \A j \in CallId \ {i} : calls'[j] = calls[j]
      BY <1>7 DEF Asked, Begins
    <2>3. QED
      BY <1>5, <2>1, <2>2 DEF RecurrentHappened, InFlight
  <1>8. ASSUME NEW i \in CallId, CallStep(i) PROVE RecurrentHappened'
    <2> DEFINE d == calls[i]
    <2>1. /\ GoesOn(i) /\ d \in Diagnosis
          /\ \A j \in CallId \ {i} : calls'[j] = calls[j]
      BY <1>8, CallGoesOn DEF GoesOn, Typed, CallsTyped
    <2>2. CASE CountCrashes(i)
      <3>1. /\ calls'[i].recurrent = IsRecurrent(d.snapshot.container, d.snapshot.kind)
            /\ calls'[i].phase = "update" /\ calls'[i].snapshot = d.snapshot /\ InFlight(i)
        BY <2>1, <2>2 DEF CountCrashes, InFlight, Diagnosis, Typed, CallsTyped
      <3>2. Fine(calls'[i])
        <4> SUFFICES ASSUME calls'[i].recurrent, d.snapshot.container \notin Unreadable
                     PROVE  past'[d.snapshot.container][d.snapshot.kind] >= Threshold
          BY <3>1
        <4>1. Count(d.snapshot.container, d.snapshot.kind) >= Threshold
          BY <3>1 DEF IsRecurrent
        <4>2. /\ Count(d.snapshot.container, d.snapshot.kind)
                   <= past[d.snapshot.container][d.snapshot.kind]
              /\ Count(d.snapshot.container, d.snapshot.kind) \in Nat
          BY <1>1, <1>4, <3>1, CountHappened
        <4>3. QED
          BY <1>2, <1>3, <1>4, <3>1, <4>1, <4>2, JournalAssumption
      <3>3. QED
        BY <1>5, <2>1, <3>2 DEF RecurrentHappened, InFlight
    <2>3. CASE Handle(i)
      <3>1. ~calls'[i].recurrent
        BY <2>3 DEF Handle, Unused, Typed, CallsTyped
      <3>2. QED
        BY <1>5, <2>1, <3>1 DEF RecurrentHappened, InFlight
    <2>4. CASE ~CountCrashes(i) /\ ~Handle(i)
      <3>1. calls'[i].recurrent = d.recurrent /\ d.phase # "sent"
        BY <1>8, <2>4, RecurrentKept DEF Typed
      <3>2. calls'[i].phase # "done" /\ calls'[i].phase # "unused" /\ calls'[i].snapshot = d.snapshot
        BY <2>1, <3>1 DEF GoesOn, Follows
      <3>3. QED
        BY <1>5, <2>1, <3>1, <3>2 DEF RecurrentHappened, InFlight
    <2>5. QED
      BY <2>2, <2>3, <2>4
  <1>9. QED
    BY <1>2, <1>6, <1>7, <1>8, Steps

LEMMA CountsInit == Init => CountsInv
  <1> SUFFICES ASSUME Init PROVE CountsInv
    OBVIOUS
  <1>1. /\ calls = [i \in CallId |-> Unused] /\ shown = [c \in Container |-> NoSnapshot]
        /\ fleet \in [Container -> [kind : Kind, since : {1}]] /\ now = 1
        /\ past = [c \in Container |-> [k \in Kind |-> IF k = fleet[c].kind THEN 1 ELSE 0]]
        /\ journal = [c \in Container |-> << >>]
    BY DEF Init, JournalInit
  <1>2. JournalOrdered /\ MarksApart /\ PastTyped
    BY <1>1 DEF JournalOrdered, MarksApart, PastTyped
  <1>3. \A i \in CallId : ~InFlight(i) /\ ~calls[i].recurrent
    BY <1>1 DEF InFlight, Unused
  <1> DEFINE H == [c \in Container |-> [k \in Kind |-> IF k = fleet[c].kind THEN {1} ELSE {}]]
  <1>4. H \in History /\ \A c \in Container, k \in Kind :
          H[c][k] = IF k = fleet[c].kind THEN {1} ELSE {}
    BY DEF History
  <1> HIDE DEF H
  <1>5. \A c \in Container, k \in Kind :
          IsFiniteSet(H[c][k]) /\ Cardinality(H[c][k]) <= past[c][k] /\ 0 \notin H[c][k]
    <2>1. /\ IsFiniteSet({1}) /\ Cardinality({1}) = 1
          /\ IsFiniteSet({}) /\ Cardinality({}) = 0
      BY FS_Singleton, FS_EmptySet
    <2>2. \A c \in Container, k \in Kind : past[c][k] = IF k = fleet[c].kind THEN 1 ELSE 0
      BY <1>1
    <2>3. QED
      BY <1>4, <2>1, <2>2
  <1>6. \A c \in Container : fleet[c].since \in H[c][fleet[c].kind]
    BY <1>1, <1>4
  <1>7. Happened(H)
    BY <1>1, <1>3, <1>5, <1>6 DEF Happened
  <1>8. QED
    BY <1>2, <1>3, <1>4, <1>7 DEF CountsInv, RecurrentHappened

LEMMA CountsStep ==
  ASSUME Typed, JournalTyped, CountsInv, [Next]_vars PROVE CountsInv'
  BY OrderedStep, ApartStep, RecurrentStep DEF CountsInv

LEMMA CountsHold == Typed /\ JournalTyped /\ CountsInv => CountsTrue
  <1> SUFFICES ASSUME Typed, JournalTyped, CountsInv PROVE CountsTrue
    OBVIOUS
  <1>1. \A c \in Container : BlockAgrees(c)
    BY BlocksAgree DEF CountsInv
  <1>2. QED
    BY <1>1 DEF CountsInv, RecurrentHappened, CountsTrue

\* A diagnosis that calls a crash recurrent is right: the container did crash as often,
\* however many times each crash was collected, recorded and diagnosed, and whatever the
\* list has dropped; and a prompt says what the operator reads (crash_journal.go: Record,
\* Count, Homogeneity, FormatPromptBlock).
THEOREM JournalCountsTrue == Spec => []CountsTrue
  <1>1. Typed /\ JournalTyped /\ CountsInv /\ [Next]_vars => CountsInv'
    BY CountsStep
  <1>2. QED
    BY <1>1, CountsInit, CountsHold, JournalInvariant, PTL DEF Spec

-----------------------------------------------------------------------------
(* The pure parts of a diagnosis: the table of rules and the requests to a  *)
(* model.  They are proved of any status, any logs and any policy.          *)

\* The table, row by row.
LEMMA RuleTable ==
  /\ DOMAIN DefaultLocalRules = 1 .. 12
  /\ DefaultLocalRules[1] = ByCode(137, {}, "critical", "restart")
  /\ DefaultLocalRules[2] = ByCode(143, {}, "warning", "none")
  /\ DefaultLocalRules[3] = ByCode(1, {"connection refused"}, "critical", "none")
  /\ DefaultLocalRules[4] = ByCode(1, {"address already in use"}, "critical", "stop")
  /\ DefaultLocalRules[5] = ByCode(1, {"no space left on device"}, "critical", "none")
  /\ DefaultLocalRules[6] = ByCode(1, {"permission denied"}, "warning", "none")
  /\ DefaultLocalRules[7] = ByCode(1, {"exec format error"}, "critical", "none")
  /\ DefaultLocalRules[8] = ByCode(1, {"killed"}, "critical", "none")
  /\ DefaultLocalRules[9] = ByStatus({"crashloopbackoff"}, "critical", "restart")
  /\ DefaultLocalRules[10] = ByStatus({"oomkilled"}, "critical", "restart")
  /\ DefaultLocalRules[11] = ByCode(255, {}, "warning", "none")
  /\ DefaultLocalRules[12] = ByCode(0, {}, "info", "none")
  <1> HIDE DEF ByCode, ByStatus
  <1> QED BY DEF DefaultLocalRules

\* The only rule that matches is the one that is found.
LEMMA OnlyMatch ==
  ASSUME NEW s, NEW logs, NEW i \in 1 .. 12,
         \A j \in 1 .. 12 : RuleMatches(DefaultLocalRules[j], s, logs) <=> j = i
  PROVE  Evaluate(DefaultLocalRules, s, logs) = i
  <1>1. {j \in DOMAIN DefaultLocalRules : RuleMatches(DefaultLocalRules[j], s, logs)} = {i}
    BY RuleTable
  <1>2. Min({i}) = i
    BY DEF Min
  <1> QED BY <1>1, <1>2 DEF Evaluate

\* No row is found but one that matches.
LEMMA FoundMatches ==
  ASSUME NEW s, NEW logs
  PROVE  LET i == Evaluate(DefaultLocalRules, s, logs) IN
         \/ i = NoRule /\ \A j \in 1 .. 12 : ~RuleMatches(DefaultLocalRules[j], s, logs)
         \/ i \in 1 .. 12 /\ RuleMatches(DefaultLocalRules[i], s, logs)
  <1> DEFINE hits == {j \in DOMAIN DefaultLocalRules : RuleMatches(DefaultLocalRules[j], s, logs)}
  <1>1. hits \subseteq 1 .. 12
    BY RuleTable
  <1>2. CASE hits = {}
    BY <1>2, RuleTable DEF Evaluate
  <1>3. CASE hits # {}
    <2>1. hits \in SUBSET Nat
      BY <1>1
    <2>2. Min(hits) \in hits
      <3> HIDE DEF hits
      <3> QED BY <1>3, <2>1, FirstOf
    <2> QED BY <1>1, <1>3, <2>2 DEF Evaluate
  <1> QED BY <1>2, <1>3

-----------------------------------------------------------------------------
\* The sign in the logs that each row by pattern asks for.
Sign == [i \in 3 .. 8 |-> CASE i = 3 -> "connection refused"
                            [] i = 4 -> "address already in use"
                            [] i = 5 -> "no space left on device"
                            [] i = 6 -> "permission denied"
                            [] i = 7 -> "exec format error"
                            [] i = 8 -> "killed"]

LEMMA SignRows ==
  /\ Sign[3] = "connection refused"
  /\ Sign[4] = "address already in use"
  /\ Sign[5] = "no space left on device"
  /\ Sign[6] = "permission denied"
  /\ Sign[7] = "exec format error"
  /\ Sign[8] = "killed"
  BY DEF Sign

\* No two rows ask for one sign.
LEMMA SignsDiffer ==
  \A i, j \in 3 .. 8 : Sign[i] = Sign[j] => i = j
  <1>3. Sign[3] # Sign[4] /\ Sign[3] # Sign[5] /\ Sign[3] # Sign[6]
        /\ Sign[3] # Sign[7] /\ Sign[3] # Sign[8]
    BY SignRows, Zenon
  <1>4. Sign[4] # Sign[5] /\ Sign[4] # Sign[6] /\ Sign[4] # Sign[7] /\ Sign[4] # Sign[8]
    BY SignRows, Zenon
  <1>5. Sign[5] # Sign[6] /\ Sign[5] # Sign[7] /\ Sign[5] # Sign[8]
    BY SignRows, Zenon
  <1>6. Sign[6] # Sign[7] /\ Sign[6] # Sign[8]
    BY SignRows, Zenon
  <1>7. Sign[7] # Sign[8]
    BY SignRows, Zenon
  <1> QED BY <1>3, <1>4, <1>5, <1>6, <1>7

\* What the rows by code, by word and by sign ask; -2 is no exit code.
LEMMA CodeRows ==
  ASSUME NEW s, NEW logs, ParseExitCode(s) # -2
  PROVE  /\ RuleMatches(DefaultLocalRules[1], s, logs) <=> ParseExitCode(s) = 137
         /\ RuleMatches(DefaultLocalRules[2], s, logs) <=> ParseExitCode(s) = 143
         /\ RuleMatches(DefaultLocalRules[11], s, logs) <=> ParseExitCode(s) = 255
         /\ RuleMatches(DefaultLocalRules[12], s, logs) <=> ParseExitCode(s) = 0
  <1>1. RuleMatches(DefaultLocalRules[1], s, logs) <=> ParseExitCode(s) = 137
    <2>1. DefaultLocalRules[1] = ByCode(137, {}, "critical", "restart")
      BY RuleTable
    <2> QED BY <2>1 DEF RuleMatches, ByCode
  <1>2. RuleMatches(DefaultLocalRules[2], s, logs) <=> ParseExitCode(s) = 143
    <2>1. DefaultLocalRules[2] = ByCode(143, {}, "warning", "none")
      BY RuleTable
    <2> QED BY <2>1 DEF RuleMatches, ByCode
  <1>11. RuleMatches(DefaultLocalRules[11], s, logs) <=> ParseExitCode(s) = 255
    <2>1. DefaultLocalRules[11] = ByCode(255, {}, "warning", "none")
      BY RuleTable
    <2> QED BY <2>1 DEF RuleMatches, ByCode
  <1>12. RuleMatches(DefaultLocalRules[12], s, logs) <=> ParseExitCode(s) = 0
    <2>1. DefaultLocalRules[12] = ByCode(0, {}, "info", "none")
      BY RuleTable
    <2> QED BY <2>1 DEF RuleMatches, ByCode
  <1> QED BY <1>1, <1>2, <1>11, <1>12

LEMMA WordRows ==
  ASSUME NEW s, NEW logs, ParseExitCode(s) # -2
  PROVE  /\ RuleMatches(DefaultLocalRules[9], s, logs) <=> "crashloopbackoff" \in s.words
         /\ RuleMatches(DefaultLocalRules[10], s, logs) <=> "oomkilled" \in s.words
  <1>9. RuleMatches(DefaultLocalRules[9], s, logs) <=> "crashloopbackoff" \in s.words
    <2>1. DefaultLocalRules[9] = ByStatus({"crashloopbackoff"}, "critical", "restart")
      BY RuleTable
    <2> QED BY <2>1 DEF RuleMatches, ByStatus
  <1>10. RuleMatches(DefaultLocalRules[10], s, logs) <=> "oomkilled" \in s.words
    <2>1. DefaultLocalRules[10] = ByStatus({"oomkilled"}, "critical", "restart")
      BY RuleTable
    <2> QED BY <2>1 DEF RuleMatches, ByStatus
  <1> QED BY <1>9, <1>10

LEMMA SignRow ==
  ASSUME NEW s, NEW logs, NEW sign, NEW severity, NEW action
  PROVE  RuleMatches(ByCode(1, {sign}, severity, action), s, logs)
           <=> ParseExitCode(s) = 1 /\ sign \in logs
  BY DEF RuleMatches, ByCode

\* The rows by sign, by the sign.
LEMMA SignTable ==
  /\ DefaultLocalRules[3] = ByCode(1, {Sign[3]}, "critical", "none")
  /\ DefaultLocalRules[4] = ByCode(1, {Sign[4]}, "critical", "stop")
  /\ DefaultLocalRules[5] = ByCode(1, {Sign[5]}, "critical", "none")
  /\ DefaultLocalRules[6] = ByCode(1, {Sign[6]}, "warning", "none")
  /\ DefaultLocalRules[7] = ByCode(1, {Sign[7]}, "critical", "none")
  /\ DefaultLocalRules[8] = ByCode(1, {Sign[8]}, "critical", "none")
  <1>3. DefaultLocalRules[3] = ByCode(1, {Sign[3]}, "critical", "none")
    BY RuleTable, SignRows, Zenon
  <1>4. DefaultLocalRules[4] = ByCode(1, {Sign[4]}, "critical", "stop")
    BY RuleTable, SignRows, Zenon
  <1>5. DefaultLocalRules[5] = ByCode(1, {Sign[5]}, "critical", "none")
    BY RuleTable, SignRows, Zenon
  <1>6. DefaultLocalRules[6] = ByCode(1, {Sign[6]}, "warning", "none")
    BY RuleTable, SignRows, Zenon
  <1>7. DefaultLocalRules[7] = ByCode(1, {Sign[7]}, "critical", "none")
    BY RuleTable, SignRows, Zenon
  <1>8. DefaultLocalRules[8] = ByCode(1, {Sign[8]}, "critical", "none")
    BY RuleTable, SignRows, Zenon
  <1> QED BY <1>3, <1>4, <1>5, <1>6, <1>7, <1>8

LEMMA SignRowsMatch ==
  ASSUME NEW s, NEW logs, NEW j \in 3 .. 8
  PROVE  RuleMatches(DefaultLocalRules[j], s, logs) <=> ParseExitCode(s) = 1 /\ Sign[j] \in logs
  <1>3. RuleMatches(DefaultLocalRules[3], s, logs) <=> ParseExitCode(s) = 1 /\ Sign[3] \in logs
    <2>1. RuleMatches(ByCode(1, {Sign[3]}, "critical", "none"), s, logs)
            <=> ParseExitCode(s) = 1 /\ Sign[3] \in logs
      BY SignRow, Zenon
    <2>2. DefaultLocalRules[3] = ByCode(1, {Sign[3]}, "critical", "none")
      BY SignTable
    <2> QED BY <2>1, <2>2, Zenon
  <1>4. RuleMatches(DefaultLocalRules[4], s, logs) <=> ParseExitCode(s) = 1 /\ Sign[4] \in logs
    <2>1. RuleMatches(ByCode(1, {Sign[4]}, "critical", "stop"), s, logs)
            <=> ParseExitCode(s) = 1 /\ Sign[4] \in logs
      BY SignRow, Zenon
    <2>2. DefaultLocalRules[4] = ByCode(1, {Sign[4]}, "critical", "stop")
      BY SignTable
    <2> QED BY <2>1, <2>2, Zenon
  <1>5. RuleMatches(DefaultLocalRules[5], s, logs) <=> ParseExitCode(s) = 1 /\ Sign[5] \in logs
    <2>1. RuleMatches(ByCode(1, {Sign[5]}, "critical", "none"), s, logs)
            <=> ParseExitCode(s) = 1 /\ Sign[5] \in logs
      BY SignRow, Zenon
    <2>2. DefaultLocalRules[5] = ByCode(1, {Sign[5]}, "critical", "none")
      BY SignTable
    <2> QED BY <2>1, <2>2, Zenon
  <1>6. RuleMatches(DefaultLocalRules[6], s, logs) <=> ParseExitCode(s) = 1 /\ Sign[6] \in logs
    <2>1. RuleMatches(ByCode(1, {Sign[6]}, "warning", "none"), s, logs)
            <=> ParseExitCode(s) = 1 /\ Sign[6] \in logs
      BY SignRow, Zenon
    <2>2. DefaultLocalRules[6] = ByCode(1, {Sign[6]}, "warning", "none")
      BY SignTable
    <2> QED BY <2>1, <2>2, Zenon
  <1>7. RuleMatches(DefaultLocalRules[7], s, logs) <=> ParseExitCode(s) = 1 /\ Sign[7] \in logs
    <2>1. RuleMatches(ByCode(1, {Sign[7]}, "critical", "none"), s, logs)
            <=> ParseExitCode(s) = 1 /\ Sign[7] \in logs
      BY SignRow, Zenon
    <2>2. DefaultLocalRules[7] = ByCode(1, {Sign[7]}, "critical", "none")
      BY SignTable
    <2> QED BY <2>1, <2>2, Zenon
  <1>8. RuleMatches(DefaultLocalRules[8], s, logs) <=> ParseExitCode(s) = 1 /\ Sign[8] \in logs
    <2>1. RuleMatches(ByCode(1, {Sign[8]}, "critical", "none"), s, logs)
            <=> ParseExitCode(s) = 1 /\ Sign[8] \in logs
      BY SignRow, Zenon
    <2>2. DefaultLocalRules[8] = ByCode(1, {Sign[8]}, "critical", "none")
      BY SignTable
    <2> QED BY <2>1, <2>2, Zenon
  <1>9. j = 3 \/ j = 4 \/ j = 5 \/ j = 6 \/ j = 7 \/ j = 8
    OBVIOUS
  <1> QED BY <1>3, <1>4, <1>5, <1>6, <1>7, <1>8, <1>9, Zenon

-----------------------------------------------------------------------------
\* A container that shows one sign only gets the row of that sign.
LEMMA CodeFinds ==
  ASSUME NEW i \in {1, 2, 11, 12}, NEW s, s.words = {},
         ParseExitCode(s) = CASE i = 1 -> 137 [] i = 2 -> 143 [] i = 11 -> 255 [] i = 12 -> 0
  PROVE  Evaluate(DefaultLocalRules, s, {}) = i
  <1>1. ParseExitCode(s) # -2 /\ ParseExitCode(s) # 1
    OBVIOUS
  <1>2. \A j \in 3 .. 8 : ~RuleMatches(DefaultLocalRules[j], s, {})
    BY <1>1, SignRowsMatch
  <1>3. ~RuleMatches(DefaultLocalRules[9], s, {}) /\ ~RuleMatches(DefaultLocalRules[10], s, {})
    BY <1>1, WordRows
  <1>4. /\ RuleMatches(DefaultLocalRules[1], s, {}) <=> i = 1
        /\ RuleMatches(DefaultLocalRules[2], s, {}) <=> i = 2
        /\ RuleMatches(DefaultLocalRules[11], s, {}) <=> i = 11
        /\ RuleMatches(DefaultLocalRules[12], s, {}) <=> i = 12
    BY <1>1, CodeRows
  <1>5. \A j \in 1 .. 12 : RuleMatches(DefaultLocalRules[j], s, {}) <=> j = i
    <2> SUFFICES ASSUME NEW j \in 1 .. 12 PROVE RuleMatches(DefaultLocalRules[j], s, {}) <=> j = i
      OBVIOUS
    <2>1. j \in 3 .. 8 \/ j \in {1, 2, 9, 10, 11, 12}
      OBVIOUS
    <2> QED BY <2>1, <1>2, <1>3, <1>4
  <1> QED BY <1>5, OnlyMatch

LEMMA WordFinds ==
  ASSUME NEW i \in {9, 10}, NEW s, ParseExitCode(s) = -1,
         s.words = IF i = 9 THEN {"crashloopbackoff"} ELSE {"oomkilled"}
  PROVE  Evaluate(DefaultLocalRules, s, {}) = i
  <1>1. \A j \in 3 .. 8 : ~RuleMatches(DefaultLocalRules[j], s, {})
    BY SignRowsMatch
  <1>2. /\ ~RuleMatches(DefaultLocalRules[1], s, {})
        /\ ~RuleMatches(DefaultLocalRules[2], s, {})
        /\ ~RuleMatches(DefaultLocalRules[11], s, {})
        /\ ~RuleMatches(DefaultLocalRules[12], s, {})
    BY CodeRows
  <1>3. /\ RuleMatches(DefaultLocalRules[9], s, {}) <=> i = 9
        /\ RuleMatches(DefaultLocalRules[10], s, {}) <=> i = 10
    BY WordRows
  <1>4. \A j \in 1 .. 12 : RuleMatches(DefaultLocalRules[j], s, {}) <=> j = i
    <2> SUFFICES ASSUME NEW j \in 1 .. 12 PROVE RuleMatches(DefaultLocalRules[j], s, {}) <=> j = i
      OBVIOUS
    <2>1. j \in 3 .. 8 \/ j \in {1, 2, 9, 10, 11, 12}
      OBVIOUS
    <2> QED BY <2>1, <1>1, <1>2, <1>3
  <1> QED BY <1>4, OnlyMatch

LEMMA SignFinds ==
  ASSUME NEW i \in 3 .. 8, NEW s, s.words = {}, ParseExitCode(s) = 1
  PROVE  Evaluate(DefaultLocalRules, s, {Sign[i]}) = i
  <1>1. \A j \in 3 .. 8 : RuleMatches(DefaultLocalRules[j], s, {Sign[i]}) <=> j = i
    BY SignRowsMatch, SignsDiffer
  <1>2. /\ ~RuleMatches(DefaultLocalRules[1], s, {Sign[i]})
        /\ ~RuleMatches(DefaultLocalRules[2], s, {Sign[i]})
        /\ ~RuleMatches(DefaultLocalRules[11], s, {Sign[i]})
        /\ ~RuleMatches(DefaultLocalRules[12], s, {Sign[i]})
    BY CodeRows
  <1>3. /\ ~RuleMatches(DefaultLocalRules[9], s, {Sign[i]})
        /\ ~RuleMatches(DefaultLocalRules[10], s, {Sign[i]})
    BY WordRows
  <1>4. \A j \in 1 .. 12 : RuleMatches(DefaultLocalRules[j], s, {Sign[i]}) <=> j = i
    <2> SUFFICES ASSUME NEW j \in 1 .. 12
                 PROVE  RuleMatches(DefaultLocalRules[j], s, {Sign[i]}) <=> j = i
      OBVIOUS
    <2>1. j \in 3 .. 8 \/ j \in {1, 2, 9, 10, 11, 12}
      OBVIOUS
    <2> QED BY <2>1, <1>1, <1>2, <1>3
  <1> QED BY <1>4, OnlyMatch

-----------------------------------------------------------------------------
\* What the rows propose.
LEMMA RowActions ==
  ASSUME NEW i \in 1 .. 12
  PROVE  /\ DefaultLocalRules[i].action = "restart" => i \in {1, 9, 10}
         /\ DefaultLocalRules[i].action = "stop" => i = 4
  <1>1. DefaultLocalRules[1].action = "restart"
    <2>1. DefaultLocalRules[1] = ByCode(137, {}, "critical", "restart")
      BY RuleTable
    <2> QED BY <2>1 DEF ByCode
  <1>2. DefaultLocalRules[2].action = "none"
    <2>1. DefaultLocalRules[2] = ByCode(143, {}, "warning", "none")
      BY RuleTable
    <2> QED BY <2>1 DEF ByCode
  <1>3. DefaultLocalRules[3].action = "none"
    <2>1. DefaultLocalRules[3] = ByCode(1, {Sign[3]}, "critical", "none")
      BY SignTable
    <2> QED BY <2>1 DEF ByCode
  <1>4. DefaultLocalRules[4].action = "stop"
    <2>1. DefaultLocalRules[4] = ByCode(1, {Sign[4]}, "critical", "stop")
      BY SignTable
    <2> QED BY <2>1 DEF ByCode
  <1>5. DefaultLocalRules[5].action = "none"
    <2>1. DefaultLocalRules[5] = ByCode(1, {Sign[5]}, "critical", "none")
      BY SignTable
    <2> QED BY <2>1 DEF ByCode
  <1>6. DefaultLocalRules[6].action = "none"
    <2>1. DefaultLocalRules[6] = ByCode(1, {Sign[6]}, "warning", "none")
      BY SignTable
    <2> QED BY <2>1 DEF ByCode
  <1>7. DefaultLocalRules[7].action = "none"
    <2>1. DefaultLocalRules[7] = ByCode(1, {Sign[7]}, "critical", "none")
      BY SignTable
    <2> QED BY <2>1 DEF ByCode
  <1>8. DefaultLocalRules[8].action = "none"
    <2>1. DefaultLocalRules[8] = ByCode(1, {Sign[8]}, "critical", "none")
      BY SignTable
    <2> QED BY <2>1 DEF ByCode
  <1>9. DefaultLocalRules[9].action = "restart"
    <2>1. DefaultLocalRules[9] = ByStatus({"crashloopbackoff"}, "critical", "restart")
      BY RuleTable
    <2> QED BY <2>1 DEF ByStatus
  <1>10. DefaultLocalRules[10].action = "restart"
    <2>1. DefaultLocalRules[10] = ByStatus({"oomkilled"}, "critical", "restart")
      BY RuleTable
    <2> QED BY <2>1 DEF ByStatus
  <1>11. DefaultLocalRules[11].action = "none"
    <2>1. DefaultLocalRules[11] = ByCode(255, {}, "warning", "none")
      BY RuleTable
    <2> QED BY <2>1 DEF ByCode
  <1>12. DefaultLocalRules[12].action = "none"
    <2>1. DefaultLocalRules[12] = ByCode(0, {}, "info", "none")
      BY RuleTable
    <2> QED BY <2>1 DEF ByCode
  <1> QED BY <1>1, <1>2, <1>3, <1>4, <1>5, <1>6, <1>7, <1>8, <1>9, <1>10, <1>11, <1>12

\* What the local verdict proposes on any status and any logs: a restart only for memory or
\* a crash loop, a stop only for a port in use, and nothing for a container that runs and
\* shows no sign (Sign[4] is the port in use).
LEMMA VerdictsApt ==
  ASSUME NEW s, NEW logs, ParseExitCode(s) # -2
  PROVE  /\ LocalVerdict(s, logs).action = "restart" =>
              "crashloopbackoff" \in s.words \/ "oomkilled" \in s.words \/ ParseExitCode(s) = 137
         /\ LocalVerdict(s, logs).action = "stop" => ParseExitCode(s) = 1 /\ Sign[4] \in logs
         /\ ParseExitCode(s) = -1 /\ s.words = {} => LocalVerdict(s, logs).level = "SIG"
  <1> DEFINE v == LocalVerdict(s, logs)
  <1> DEFINE i == Evaluate(DefaultLocalRules, s, logs)
  <1>1. CASE i = NoRule
    <2>1. v = [level |-> "SIG", severity |-> "info", action |-> "none"]
      BY <1>1 DEF LocalVerdict
    <2> QED BY <2>1
  <1>2. CASE i \in 1 .. 12 /\ RuleMatches(DefaultLocalRules[i], s, logs)
    <2>1. i # NoRule
      BY <1>2 DEF NoRule
    <2>2. v = [level |-> "RULE", severity |-> DefaultLocalRules[i].severity,
               action |-> DefaultLocalRules[i].action]
      BY <2>1 DEF LocalVerdict
    <2>3. v.action = DefaultLocalRules[i].action
      BY <2>2
    <2> HIDE DEF i, v
    <2>a. v.action = "restart" => i \in {1, 9, 10}
      BY <1>2, <2>3, RowActions
    <2>b. v.action = "stop" => i = 4
      BY <1>2, <2>3, RowActions
    <2>4. v.action = "restart" => "crashloopbackoff" \in s.words \/ "oomkilled" \in s.words
                                  \/ ParseExitCode(s) = 137
      BY <1>2, <2>a, CodeRows, WordRows
    <2>5. v.action = "stop" => ParseExitCode(s) = 1 /\ Sign[4] \in logs
      BY <1>2, <2>b, SignRowsMatch
    <2>6. ~(ParseExitCode(s) = -1 /\ s.words = {})
      <3> SUFFICES ASSUME ParseExitCode(s) = -1, s.words = {} PROVE FALSE
        OBVIOUS
      <3>1. \A j \in 3 .. 8 : ~RuleMatches(DefaultLocalRules[j], s, logs)
        BY SignRowsMatch
      <3>2. /\ ~RuleMatches(DefaultLocalRules[1], s, logs)
            /\ ~RuleMatches(DefaultLocalRules[2], s, logs)
            /\ ~RuleMatches(DefaultLocalRules[11], s, logs)
            /\ ~RuleMatches(DefaultLocalRules[12], s, logs)
        BY CodeRows
      <3>3. /\ ~RuleMatches(DefaultLocalRules[9], s, logs)
            /\ ~RuleMatches(DefaultLocalRules[10], s, logs)
        BY WordRows
      <3> QED BY <1>2, <3>1, <3>2, <3>3
    <2> QED BY <2>4, <2>5, <2>6, Zenon DEF v
  <1> QED BY <1>1, <1>2, FoundMatches

\* The same in the words of RulesExact.
VerdictApt(s, logs) ==
  LET v == LocalVerdict(s, logs) IN
  /\ v.action = "restart" => s.words # {} \/ ParseExitCode(s) = 137
  /\ v.action = "stop" => ParseExitCode(s) = 1 /\ "address already in use" \in logs
  /\ s.state = "up" /\ s.words = {} => v.level = "SIG"

LEMMA VerdictsAsTold ==
  ASSUME NEW s, NEW logs, ParseExitCode(s) # -2
  PROVE  VerdictApt(s, logs)
  <1>1. LocalVerdict(s, logs).action = "restart" => s.words # {} \/ ParseExitCode(s) = 137
    BY VerdictsApt
  <1>2. LocalVerdict(s, logs).action = "stop" => ParseExitCode(s) = 1
    BY VerdictsApt
  <1>3. LocalVerdict(s, logs).action = "stop" => Sign[4] \in logs
    BY VerdictsApt
  <1>4. Sign[4] = "address already in use"
    BY SignRows
  <1>5. s.state = "up" => ParseExitCode(s) = -1
    BY DEF ParseExitCode
  <1>6. s.state = "up" /\ s.words = {} => LocalVerdict(s, logs).level = "SIG"
    BY <1>5, VerdictsApt
  <1> HIDE DEF LocalVerdict, ParseExitCode
  <1> QED BY <1>1, <1>2, <1>3, <1>4, <1>6, Zenon DEF VerdictApt

\* Both halves, over the statuses that the model tells apart.
LEMMA TheRulesAreExact == RulesExact
  <1>1. ASSUME NEW i \in DOMAIN DefaultLocalRules
        PROVE  \E s \in [state : {"up", "exited", "restarting"},
                         code : {-1, 0, 1, 2, 137, 143, 255},
                         words : {{}, {"crashloopbackoff"}, {"oomkilled"}}],
                 logs \in SUBSET UNION {DefaultLocalRules[j].patterns : j \in DOMAIN DefaultLocalRules} :
                   Evaluate(DefaultLocalRules, s, logs) = i
    <2> DEFINE Status == [state : {"up", "exited", "restarting"},
                           code : {-1, 0, 1, 2, 137, 143, 255},
                           words : {{}, {"crashloopbackoff"}, {"oomkilled"}}]
               Signs == UNION {DefaultLocalRules[j].patterns : j \in DOMAIN DefaultLocalRules}
    <2> SUFFICES \E s \in Status, logs \in SUBSET Signs : Evaluate(DefaultLocalRules, s, logs) = i
      OBVIOUS
    <2>1. i \in 1 .. 12
      BY RuleTable
    <2>2. CASE i \in {1, 2, 11, 12}
      <3>1. PICK c \in {0, 137, 143, 255} :
              c = CASE i = 1 -> 137 [] i = 2 -> 143 [] i = 11 -> 255 [] i = 12 -> 0
        BY <2>2
      <3>2. PICK s \in Status : s = [state |-> "exited", code |-> c, words |-> {}]
        <4> HIDE DEF Signs
        <4>1. c \in {-1, 0, 1, 2, 137, 143, 255}
          OBVIOUS
        <4>2. [state |-> "exited", code |-> c, words |-> {}] \in Status
          BY <4>1
        <4> HIDE DEF Status
        <4> QED BY <4>2
      <3>3. ParseExitCode(s) = c /\ s.words = {}
        BY <3>2 DEF ParseExitCode
      <3> HIDE DEF Status, Signs
      <3>4. Evaluate(DefaultLocalRules, s, {}) = i
        BY <2>2, <3>1, <3>3, CodeFinds
      <3>5. {} \in SUBSET Signs
        OBVIOUS
      <3> QED BY <3>4, <3>5
    <2>3. CASE i \in {9, 10}
      <3>1. PICK w \in {{"crashloopbackoff"}, {"oomkilled"}} :
              w = IF i = 9 THEN {"crashloopbackoff"} ELSE {"oomkilled"}
        BY <2>3
      <3>2. PICK s \in Status : s = [state |-> "up", code |-> -1, words |-> w]
        <4> HIDE DEF Signs
        <4> QED OBVIOUS
      <3>3. ParseExitCode(s) = -1 /\ s.words = w
        BY <3>2 DEF ParseExitCode
      <3> HIDE DEF Status, Signs
      <3>4. Evaluate(DefaultLocalRules, s, {}) = i
        BY <2>3, <3>1, <3>3, WordFinds
      <3>5. {} \in SUBSET Signs
        OBVIOUS
      <3> QED BY <3>4, <3>5
    <2>4. CASE i \in 3 .. 8
      <3>1. PICK s \in Status : s = [state |-> "exited", code |-> 1, words |-> {}]
        <4> HIDE DEF Signs
        <4> QED OBVIOUS
      <3>2. ParseExitCode(s) = 1 /\ s.words = {}
        BY <3>1 DEF ParseExitCode
      <3>3. Evaluate(DefaultLocalRules, s, {Sign[i]}) = i
        <4> HIDE DEF Status, Signs
        <4> QED BY <2>4, <3>2, SignFinds
      <3>4. {Sign[i]} \in SUBSET Signs
        <4>1. Sign[i] \in DefaultLocalRules[i].patterns
          BY <2>4, SignTable DEF ByCode
        <4> QED BY <4>1
      <3> HIDE DEF Status, Signs
      <3> QED BY <3>3, <3>4
    <2>5. i \in {1, 2, 11, 12} \/ i \in {9, 10} \/ i \in 3 .. 8
      BY <2>1
    <2> QED BY <2>2, <2>3, <2>4, <2>5
  <1>2. \A s \in [state : {"up", "exited", "restarting"},
                  code : {-1, 0, 1, 2, 137, 143, 255},
                  words : {{}, {"crashloopbackoff"}, {"oomkilled"}}] : ParseExitCode(s) # -2
    BY DEF ParseExitCode
  <1>3. \A s \in [state : {"up", "exited", "restarting"},
                  code : {-1, 0, 1, 2, 137, 143, 255},
                  words : {{}, {"crashloopbackoff"}, {"oomkilled"}}],
           logs \in SUBSET UNION {DefaultLocalRules[j].patterns : j \in DOMAIN DefaultLocalRules} :
         VerdictApt(s, logs)
    BY <1>2, VerdictsAsTold
  <1> QED BY <1>1, <1>3, Zenon DEF RulesExact, VerdictApt

-----------------------------------------------------------------------------
\* A slot that is named has one model, whichever copy of the choice is asked, and it is
\* the operator's if he chose.
LEMMA OneModel ==
  ASSUME NEW slot \in Slot, NEW policy, NEW active, NEW selection, NEW severe
  PROVE  /\ ContainerModel(slot, selection, severe, policy, active) = IncidentModel(slot, policy)
         /\ policy[slot] # NoModel => IncidentModel(slot, policy) = policy[slot]
BY DEF ContainerModel, IncidentModel, GetAssignedModel

\* What each of the three callers answers with when its request fails is taken for a
\* failure, but for the two texts of Ollama.
LEMMA AnthropicTells ==
  ASSUME NEW o \in Failure
  PROVE  IsAIFailure(CallAnthropic(o))
  <1>1. IsAIFailure(CallAnthropic("no key"))
    BY Zenon DEF IsAIFailure, CallAnthropic, CommonFailure, Text
  <1>2. IsAIFailure(CallAnthropic("encoding"))
    BY Zenon DEF IsAIFailure, CallAnthropic, CommonFailure, Text
  <1>3. IsAIFailure(CallAnthropic("address"))
    BY Zenon DEF IsAIFailure, CallAnthropic, CommonFailure, Text
  <1>4. IsAIFailure(CallAnthropic("timeout"))
    BY Zenon DEF IsAIFailure, CallAnthropic, CommonFailure, Text
  <1>5. IsAIFailure(CallAnthropic("network"))
    BY Zenon DEF IsAIFailure, CallAnthropic, CommonFailure, Text
  <1>6. IsAIFailure(CallAnthropic("busy"))
    BY Zenon DEF IsAIFailure, CallAnthropic, CommonFailure, Text
  <1>7. IsAIFailure(CallAnthropic("status"))
    BY Zenon DEF IsAIFailure, CallAnthropic, CommonFailure, Text
  <1>8. IsAIFailure(CallAnthropic("unreadable"))
    BY Zenon DEF IsAIFailure, CallAnthropic, CommonFailure, Text
  <1>9. IsAIFailure(CallAnthropic("inconclusive"))
    BY Zenon DEF IsAIFailure, CallAnthropic, CommonFailure, Text
  <1>10. IsAIFailure(CallAnthropic("empty"))
    BY Zenon DEF IsAIFailure, CallAnthropic, CommonFailure, Text
  <1> QED BY <1>1, <1>2, <1>3, <1>4, <1>5, <1>6, <1>7, <1>8, <1>9, <1>10, Zenon DEF Failure

LEMMA OpenAITells ==
  ASSUME NEW o \in Failure
  PROVE  IsAIFailure(CallOpenAI(o))
  <1>1. IsAIFailure(CallOpenAI("no key"))
    BY Zenon DEF IsAIFailure, CallOpenAI, CommonFailure, Text
  <1>2. IsAIFailure(CallOpenAI("encoding"))
    BY Zenon DEF IsAIFailure, CallOpenAI, CommonFailure, Text
  <1>3. IsAIFailure(CallOpenAI("address"))
    BY Zenon DEF IsAIFailure, CallOpenAI, CommonFailure, Text
  <1>4. IsAIFailure(CallOpenAI("timeout"))
    BY Zenon DEF IsAIFailure, CallOpenAI, CommonFailure, Text
  <1>5. IsAIFailure(CallOpenAI("network"))
    BY Zenon DEF IsAIFailure, CallOpenAI, CommonFailure, Text
  <1>6. IsAIFailure(CallOpenAI("busy"))
    BY Zenon DEF IsAIFailure, CallOpenAI, CommonFailure, Text
  <1>7. IsAIFailure(CallOpenAI("status"))
    BY Zenon DEF IsAIFailure, CallOpenAI, CommonFailure, Text
  <1>8. IsAIFailure(CallOpenAI("unreadable"))
    BY Zenon DEF IsAIFailure, CallOpenAI, CommonFailure, Text
  <1>9. IsAIFailure(CallOpenAI("inconclusive"))
    BY Zenon DEF IsAIFailure, CallOpenAI, CommonFailure, Text
  <1>10. IsAIFailure(CallOpenAI("empty"))
    BY Zenon DEF IsAIFailure, CallOpenAI, CommonFailure, Text
  <1> QED BY <1>1, <1>2, <1>3, <1>4, <1>5, <1>6, <1>7, <1>8, <1>9, <1>10, Zenon DEF Failure

LEMMA OllamaTells ==
  ASSUME NEW o \in Failure \ {"timeout", "busy", "status"}
  PROVE  IsAIFailure(CallOllama(o))
  <1>1. IsAIFailure(CallOllama("no key"))
    BY Zenon DEF IsAIFailure, CallOllama, CommonFailure, Text
  <1>2. IsAIFailure(CallOllama("encoding"))
    BY Zenon DEF IsAIFailure, CallOllama, CommonFailure, Text
  <1>3. IsAIFailure(CallOllama("address"))
    BY Zenon DEF IsAIFailure, CallOllama, CommonFailure, Text
  <1>4. IsAIFailure(CallOllama("network"))
    BY Zenon DEF IsAIFailure, CallOllama, CommonFailure, Text
  <1>5. IsAIFailure(CallOllama("unreadable"))
    BY Zenon DEF IsAIFailure, CallOllama, CommonFailure, Text
  <1>6. IsAIFailure(CallOllama("inconclusive"))
    BY Zenon DEF IsAIFailure, CallOllama, CommonFailure, Text
  <1>7. IsAIFailure(CallOllama("empty"))
    BY Zenon DEF IsAIFailure, CallOllama, CommonFailure, Text
  <1> QED BY <1>1, <1>2, <1>3, <1>4, <1>5, <1>6, <1>7, Zenon DEF Failure

\* Whichever provider fails, in whichever way.
LEMMA FailuresTold ==
  ASSUME NEW p, NEW o \in Failure
  PROVE  \/ IsAIFailure(FailureText(p, o))
         \/ p = "ollama" /\ o \in {"timeout", "busy", "status"}
  <1>1. CASE p = "anthropic"
    <2>1. FailureText(p, o) = CallAnthropic(o)
      BY <1>1, Zenon DEF FailureText
    <2> QED BY <2>1, AnthropicTells, Zenon
  <1>2. CASE p = "ollama"
    <2>1. FailureText(p, o) = CallOllama(o)
      BY <1>2, Zenon DEF FailureText
    <2>2. CASE o \in {"timeout", "busy", "status"}
      BY <1>2, <2>2, Zenon
    <2>3. CASE o \notin {"timeout", "busy", "status"}
      <3>1. o \in Failure \ {"timeout", "busy", "status"}
        BY <2>3, Zenon
      <3> QED BY <2>1, <3>1, OllamaTells, Zenon
    <2> QED BY <2>2, <2>3, Zenon
  <1>3. CASE p # "anthropic" /\ p # "ollama"
    <2>1. FailureText(p, o) = CallOpenAI(o)
      BY <1>3, Zenon DEF FailureText
    <2> QED BY <2>1, OpenAITells, Zenon
  <1> QED BY <1>1, <1>2, <1>3, Zenon

LEMMA TheRequestsAreExact == RequestsExact
  <1>1. \A slot \in Slot : \A policy, active, selection, severe :
          /\ ContainerModel(slot, selection, severe, policy, active) = IncidentModel(slot, policy)
          /\ policy[slot] # NoModel => IncidentModel(slot, policy) = policy[slot]
    BY OneModel
  <1>2. \A p \in Provider, o \in Failure :
          \/ IsAIFailure(FailureText(p, o))
          \/ p = "ollama" /\ o \in {"timeout", "busy", "status"}
    BY FailuresTold, Zenon
  <1> QED BY <1>1, <1>2, Zenon DEF RequestsExact

-----------------------------------------------------------------------------
\* RULES.  Every diagnosis takes its level from rules none of which is hidden by an earlier
\* one; a restart is proposed only for memory or a crash loop, a stop only for a port in
\* use, and nothing for a container that runs and shows no sign (rule_engine.go, the table
\* of ai.go).
THEOREM RulesAreApt == Spec => []RulesApt
  <1>1. RulesApt
    BY TheRulesAreExact DEF RulesApt
  <1> QED BY <1>1, PTL

\* REQUESTS.  A request goes to the model chosen for its slot, whichever of the two copies
\* of that choice is asked, and what comes back is told apart from a failure, but for
\* Ollama's timeout and its HTTP errors (triage.go, isAIFailure).
THEOREM RequestsAreApt == Spec => []RequestsApt
  <1>1. RequestsApt
    BY TheRequestsAreExact DEF RequestsApt
  <1> QED BY <1>1, PTL
-----------------------------------------------------------------------------
(* Answers of a model: the extraction of an object from a text of any      *)
(* length, with objects nested to any depth in it.  The scan is a          *)
(* recursive function: that it exists, and what it leaves alone, is shown  *)
(* by the smallest counterexample.                                         *)

\* The states of the scan, outside and inside a string, and after a backslash.
At(depth, where) == [depth |-> depth, string |-> where = "string", escape |-> FALSE]
Escaped(depth) == [depth |-> depth, string |-> TRUE, escape |-> TRUE]

\* A text, as a model sends it.
RawText == Seq(Character)

\* Texts: the empty one, those of one character, and two in a row.
LEMMA RawTexts ==
  /\ << >> \in RawText
  /\ \A c \in Character : <<c>> \in RawText /\ Len(<<c>>) = 1 /\ <<c>>[1] = c
  /\ \A u \in RawText : Len(u) \in Nat /\ \A i \in 1 .. Len(u) : u[i] \in Character
  /\ \A u, v \in RawText :
       /\ u \o v \in RawText /\ Len(u \o v) = Len(u) + Len(v)
       /\ \A i \in 1 .. Len(u) : (u \o v)[i] = u[i]
       /\ \A i \in 1 .. Len(v) : (u \o v)[Len(u) + i] = v[i]
  BY ConcatProperties DEF RawText

\* The same of two texts, in the form the steps below cite.
LEMMA ConcatTexts ==
  ASSUME NEW u \in RawText, NEW v \in RawText
  PROVE  /\ u \o v \in RawText /\ Len(u \o v) = Len(u) + Len(v)
         /\ \A i \in 1 .. Len(u) : (u \o v)[i] = u[i]
         /\ \A i \in 1 .. Len(v) : (u \o v)[Len(u) + i] = v[i]
  BY RawTexts

\* What each character does to the scan in each of its states.
LEMMA ScanSteps ==
  ASSUME NEW d \in Int
  PROVE  /\ \A c : Scan(Escaped(d), c) = At(d, "string")
         /\ Scan(At(d, "string"), "backslash") = Escaped(d)
         /\ Scan(At(d, "string"), "quote") = At(d, "plain")
         /\ \A c : c \notin {"quote", "backslash"} => Scan(At(d, "string"), c) = At(d, "string")
         /\ Scan(At(d, "plain"), "quote") = At(d, "string")
         /\ Scan(At(d, "plain"), "open") = At(d + 1, "plain")
         /\ Scan(At(d, "plain"), "close") = At(d - 1, "plain")
         /\ \A c : c \notin {"quote", "open", "close"} => Scan(At(d, "plain"), c) = At(d, "plain")
  <1>1. \A c : Scan(Escaped(d), c) = At(d, "string")
    BY DEF Scan, At, Escaped
  <1>2. Scan(At(d, "string"), "backslash") = Escaped(d)
    BY DEF Scan, At, Escaped
  <1>3. Scan(At(d, "string"), "quote") = At(d, "plain")
    BY DEF Scan, At, Escaped
  <1>4. \A c : c \notin {"quote", "backslash"} => Scan(At(d, "string"), c) = At(d, "string")
    BY DEF Scan, At, Escaped
  <1>5. Scan(At(d, "plain"), "quote") = At(d, "string")
    BY DEF Scan, At, Escaped
  <1>6. Scan(At(d, "plain"), "open") = At(d + 1, "plain")
    BY DEF Scan, At, Escaped
  <1>7. Scan(At(d, "plain"), "close") = At(d - 1, "plain")
    BY DEF Scan, At, Escaped
  <1>8. \A c : c \notin {"quote", "open", "close"} => Scan(At(d, "plain"), c) = At(d, "plain")
    BY DEF Scan, At, Escaped
  <1> QED
    BY <1>1, <1>2, <1>3, <1>4, <1>5, <1>6, <1>7, <1>8

\* The states of a scan of a text that starts in a state.
Walk(f, from, text) ==
  f[0] = from /\ \A i \in 1 .. Len(text) : f[i] = Scan(f[i - 1], text[i])

\* Scanned is defined: what its recursion asks for exists.
LEMMA ScanExists ==
  ASSUME NEW text \in RawText
  PROVE  \E f : f = [i \in 0 .. Len(text) |-> IF i = 0 THEN Before ELSE Scan(f[i - 1], text[i])]
  <1> DEFINE W(f, m) == f = [i \in 0 .. m |-> IF i = 0 THEN Before ELSE Scan(f[i - 1], text[i])]
             T == {m \in Nat : ~\E f : W(f, m)}
  <1>1. CASE T = {}
    <2>1. Len(text) \in Nat
      BY RawTexts
    <2>2. \E f : W(f, Len(text))
      BY <1>1, <2>1
    <2> QED
      BY <2>2
  <1>2. CASE T # {}
    <2>1. PICK m \in T : \A n \in T : m <= n
      <3>1. T \in SUBSET Nat
        OBVIOUS
      <3> HIDE DEF T
      <3> QED
        BY <1>2, <3>1, FirstOf
    <2>2. CASE m = 0
      <3>1. W([i \in {0} |-> Before], m)
        BY <2>2
      <3> QED
        BY <2>1, <3>1
    <2>3. CASE m # 0
      <3>1. m \in Nat /\ m - 1 \in Nat /\ m - 1 \notin T
        <4>1. T \subseteq Nat
          OBVIOUS
        <4> HIDE DEF T
        <4> QED
          BY <2>1, <2>3, <4>1
      <3>2. PICK g : W(g, m - 1)
        BY <3>1
      <3> DEFINE f == [i \in 0 .. m |-> IF i = m THEN Scan(g[m - 1], text[m]) ELSE g[i]]
      <3>3. \A i \in 0 .. m - 1 : f[i] = IF i = 0 THEN Before ELSE Scan(g[i - 1], text[i])
        BY <3>1, <3>2
      <3>4. \A i \in 1 .. m : f[i - 1] = g[i - 1]
        BY <3>1
      <3>5. f[m] = Scan(f[m - 1], text[m])
        BY <3>1, <2>3
      <3>6. DOMAIN f = 0 .. m /\ f = [i \in 0 .. m |-> f[i]]
        OBVIOUS
      <3> HIDE DEF f
      <3>7. \A i \in 0 .. m : f[i] = IF i = 0 THEN Before ELSE Scan(f[i - 1], text[i])
        <4> SUFFICES ASSUME NEW i \in 0 .. m
                     PROVE  f[i] = IF i = 0 THEN Before ELSE Scan(f[i - 1], text[i])
          OBVIOUS
        <4>1. CASE i = m
          BY <4>1, <3>5, <2>3
        <4>2. CASE i # m
          BY <4>2, <3>1, <3>3, <3>4
        <4> QED
          BY <4>1, <4>2
      <3>8. W(f, m)
        BY <3>6, <3>7
      <3> QED
        BY <2>1, <3>8
    <2> QED
      BY <2>2, <2>3
  <1> QED
    BY <1>1, <1>2

\* And it is a walk of the text from depth 0 (the loop of ExtractJSONBlock).
LEMMA ScannedWalks ==
  ASSUME NEW text \in RawText
  PROVE  Walk(Scanned(text), At(0, "plain"), text)
  <1>1. Before = At(0, "plain")
    BY DEF Before, At
  <1>2. \E f : f = [i \in 0 .. Len(text) |-> IF i = 0 THEN Before ELSE Scan(f[i - 1], text[i])]
    BY ScanExists
  <1> DEFINE g == Scanned(text)
             h == [i \in 0 .. Len(text) |-> IF i = 0 THEN Before ELSE Scan(g[i - 1], text[i])]
  <1>3. g = h
    BY <1>2, Zenon DEF Scanned
  <1>4. Len(text) \in Nat
    BY RawTexts
  <1>5. h[0] = Before /\ \A i \in 1 .. Len(text) : h[i] = Scan(g[i - 1], text[i])
    BY <1>4
  <1> HIDE DEF g, h
  <1>6. Walk(g, Before, text)
    BY <1>3, <1>5 DEF Walk
  <1> QED
    BY <1>1, <1>6 DEF g

-----------------------------------------------------------------------------
\* What a walk of a text does on its two halves.
LEMMA WalkSplits ==
  ASSUME NEW u \in RawText, NEW v \in RawText, NEW from, NEW f, Walk(f, from, u \o v)
  PROVE  \E g, h :
           /\ Walk(g, from, u) /\ Walk(h, g[Len(u)], v)
           /\ \A i \in 0 .. Len(u) : f[i] = g[i]
           /\ \A i \in 0 .. Len(v) : f[Len(u) + i] = h[i]
  <1> DEFINE g == [i \in 0 .. Len(u) |-> f[i]]
             h == [i \in 0 .. Len(v) |-> f[Len(u) + i]]
  <1>1. /\ Len(u) \in Nat /\ Len(v) \in Nat /\ Len(u \o v) = Len(u) + Len(v)
        /\ \A i \in 1 .. Len(u) : (u \o v)[i] = u[i]
        /\ \A i \in 1 .. Len(v) : (u \o v)[Len(u) + i] = v[i]
    BY RawTexts
  <1>2. f[0] = from /\ \A i \in 1 .. Len(u \o v) : f[i] = Scan(f[i - 1], (u \o v)[i])
    BY DEF Walk
  <1>3. Walk(g, from, u)
    <2>1. g[0] = from
      BY <1>1, <1>2
    <2>2. ASSUME NEW i \in 1 .. Len(u) PROVE g[i] = Scan(g[i - 1], u[i])
      <3>1. i \in 1 .. Len(u \o v) /\ i \in 0 .. Len(u) /\ i - 1 \in 0 .. Len(u)
        BY <1>1
      <3>2. g[i] = f[i] /\ g[i - 1] = f[i - 1]
        BY <3>1
      <3> QED
        BY <1>1, <1>2, <3>1, <3>2
    <2> QED
      BY <2>1, <2>2 DEF Walk
  <1>4. Walk(h, g[Len(u)], v)
    <2>1. h[0] = g[Len(u)]
      BY <1>1
    <2>2. ASSUME NEW i \in 1 .. Len(v) PROVE h[i] = Scan(h[i - 1], v[i])
      <3>1. /\ i \in 0 .. Len(v) /\ i - 1 \in 0 .. Len(v)
            /\ Len(u) + i \in 1 .. Len(u \o v) /\ (Len(u) + i) - 1 = Len(u) + (i - 1)
        BY <1>1
      <3>2. h[i] = f[Len(u) + i] /\ h[i - 1] = f[(Len(u) + i) - 1]
        BY <3>1
      <3>3. f[Len(u) + i] = Scan(f[(Len(u) + i) - 1], (u \o v)[Len(u) + i])
        BY <1>2, <3>1
      <3> HIDE DEF g, h
      <3> QED
        BY <1>1, <3>2, <3>3
    <2> HIDE DEF g, h
    <2> QED
      BY <2>1, <2>2 DEF Walk
  <1>5. /\ \A i \in 0 .. Len(u) : f[i] = g[i]
        /\ \A i \in 0 .. Len(v) : f[Len(u) + i] = h[i]
    OBVIOUS
  <1> HIDE DEF g, h
  <1> QED
    BY <1>3, <1>4, <1>5

\* Two walks of a text from the same state are one.
LEMMA WalksAgree ==
  ASSUME NEW text \in RawText, NEW from, NEW f, NEW g,
         Walk(f, from, text), Walk(g, from, text)
  PROVE  \A i \in 0 .. Len(text) : f[i] = g[i]
  <1>1. Len(text) \in Nat
    BY RawTexts
  <1>2. /\ f[0] = from /\ \A i \in 1 .. Len(text) : f[i] = Scan(f[i - 1], text[i])
        /\ g[0] = from /\ \A i \in 1 .. Len(text) : g[i] = Scan(g[i - 1], text[i])
    BY DEF Walk
  <1> DEFINE T == {i \in 0 .. Len(text) : f[i] # g[i]}
  <1>3. T = {}
    <2> SUFFICES ASSUME T # {} PROVE FALSE
      OBVIOUS
    <2>1. PICK m \in T : \A n \in T : m <= n
      <3>1. T \in SUBSET Nat
        BY <1>1
      <3> HIDE DEF T
      <3> QED
        BY <3>1, FirstOf
    <2>2. m \in 1 .. Len(text) /\ m - 1 \in 0 .. Len(text)
      BY <1>1, <1>2
    <2>3. f[m - 1] = g[m - 1]
      BY <2>1, <2>2
    <2> QED
      BY <1>2, <2>2, <2>3
  <1> QED
    BY <1>3

\* What follows a text does not change the scan of it.
LEMMA ScannedPrefix ==
  ASSUME NEW u \in RawText, NEW v \in RawText
  PROVE  \A i \in 0 .. Len(u) : Scanned(u \o v)[i] = Scanned(u)[i]
  <1> DEFINE s == Scanned(u \o v)
             r == Scanned(u)
  <1>1. Walk(s, At(0, "plain"), u \o v)
    <2>1. u \o v \in RawText
      BY RawTexts
    <2> QED
      BY <2>1, ScannedWalks
  <1>2. Walk(r, At(0, "plain"), u)
    BY ScannedWalks
  <1> HIDE DEF s, r
  <1>3. PICK g : Walk(g, At(0, "plain"), u) /\ \A i \in 0 .. Len(u) : s[i] = g[i]
    BY <1>1, WalkSplits
  <1>4. \A i \in 0 .. Len(u) : g[i] = r[i]
    BY <1>2, <1>3, WalksAgree
  <1> QED
    BY <1>3, <1>4 DEF s, r

\* A text that leaves the scan as it found it, inside a string or outside, and closes no
\* brace that was open before it.
Returns(text, where) ==
  \A d \in Nat : \A f : Walk(f, At(d, where), text) =>
    /\ f[Len(text)] = At(d, where)
    /\ \A i \in 0 .. Len(text) : f[i].depth \in Nat /\ f[i].depth >= d

\* The empty text, and two such texts in a row.
LEMMA EmptyReturns == \A where : Returns(<< >>, where)
  <1> SUFFICES ASSUME NEW where, NEW d \in Nat, NEW f,
                      Walk(f, At(d, where), << >>)
               PROVE  /\ f[0] = At(d, where)
                      /\ \A i \in 0 .. 0 : f[i].depth \in Nat /\ f[i].depth >= d
    BY DEF Returns
  <1>1. f[0] = At(d, where)
    BY DEF Walk
  <1>2. At(d, where).depth = d
    BY DEF At
  <1> QED
    BY <1>1, <1>2

LEMMA ConcatReturns ==
  ASSUME NEW u \in RawText, NEW v \in RawText, NEW where,
         Returns(u, where), Returns(v, where)
  PROVE  Returns(u \o v, where)
  <1> SUFFICES ASSUME NEW d \in Nat, NEW f, Walk(f, At(d, where), u \o v)
               PROVE  /\ f[Len(u \o v)] = At(d, where)
                      /\ \A i \in 0 .. Len(u \o v) : f[i].depth \in Nat /\ f[i].depth >= d
    BY DEF Returns
  <1>1. PICK g, h :
           /\ Walk(g, At(d, where), u) /\ Walk(h, g[Len(u)], v)
           /\ \A i \in 0 .. Len(u) : f[i] = g[i]
           /\ \A i \in 0 .. Len(v) : f[Len(u) + i] = h[i]
    BY WalkSplits
  <1>2. /\ g[Len(u)] = At(d, where)
        /\ \A i \in 0 .. Len(u) : g[i].depth \in Nat /\ g[i].depth >= d
    BY <1>1 DEF Returns
  <1>3. /\ h[Len(v)] = At(d, where)
        /\ \A i \in 0 .. Len(v) : h[i].depth \in Nat /\ h[i].depth >= d
    BY <1>1, <1>2 DEF Returns
  <1>4. Len(u) \in Nat /\ Len(v) \in Nat /\ Len(u \o v) = Len(u) + Len(v)
    BY RawTexts
  <1>5. f[Len(u \o v)] = At(d, where)
    BY <1>1, <1>3, <1>4
  <1>6. ASSUME NEW i \in 0 .. Len(u \o v) PROVE f[i].depth \in Nat /\ f[i].depth >= d
    <2>1. CASE i <= Len(u)
      BY <1>1, <1>2, <1>4, <2>1
    <2>2. CASE i > Len(u)
      <3>1. i - Len(u) \in 0 .. Len(v) /\ i = Len(u) + (i - Len(u))
        BY <1>4, <2>2
      <3>2. f[Len(u) + (i - Len(u))] = h[i - Len(u)]
        BY <1>1, <3>1
      <3> QED
        BY <1>3, <3>1, <3>2
    <2> QED
      BY <1>4, <2>1, <2>2
  <1> QED
    BY <1>5, <1>6

\* One character that means nothing where it stands.
LEMMA LetterReturns ==
  /\ \A c \in Character \ {"quote", "open", "close"} : Returns(<<c>>, "plain")
  /\ \A c \in Character \ {"quote", "backslash"} : Returns(<<c>>, "string")
  <1>1. ASSUME NEW c \in Character, NEW where \in {"plain", "string"},
               \A d \in Int : Scan(At(d, where), c) = At(d, where)
        PROVE  Returns(<<c>>, where)
    <2> SUFFICES ASSUME NEW d \in Nat, NEW f, Walk(f, At(d, where), <<c>>)
                 PROVE  /\ f[1] = At(d, where)
                        /\ \A i \in 0 .. 1 : f[i].depth \in Nat /\ f[i].depth >= d
      BY DEF Returns
    <2>1. f[0] = At(d, where) /\ f[1] = Scan(f[0], c)
      BY DEF Walk
    <2>2. At(d, where).depth = d
      BY DEF At
    <2> QED
      BY <1>1, <2>1, <2>2
  <1> QED
    BY <1>1, ScanSteps

\* A text every character of which means nothing where it stands.
LEMMA QuietReturns ==
  ASSUME NEW text \in RawText, NEW where,
         \A i \in 1 .. Len(text) : \A d \in Nat : Scan(At(d, where), text[i]) = At(d, where)
  PROVE  Returns(text, where)
  <1> SUFFICES ASSUME NEW d \in Nat, NEW f, Walk(f, At(d, where), text)
               PROVE  /\ f[Len(text)] = At(d, where)
                      /\ \A i \in 0 .. Len(text) : f[i].depth \in Nat /\ f[i].depth >= d
    BY DEF Returns
  <1>1. Len(text) \in Nat
    BY RawTexts
  <1>2. f[0] = At(d, where) /\ \A i \in 1 .. Len(text) : f[i] = Scan(f[i - 1], text[i])
    BY DEF Walk
  <1> DEFINE T == {i \in 0 .. Len(text) : f[i] # At(d, where)}
  <1>3. T = {}
    <2> SUFFICES ASSUME T # {} PROVE FALSE
      OBVIOUS
    <2>1. PICK m \in T : \A n \in T : m <= n
      <3>1. T \in SUBSET Nat
        BY <1>1
      <3> HIDE DEF T
      <3> QED
        BY <3>1, FirstOf
    <2>2. m \in 1 .. Len(text) /\ m - 1 \in 0 .. Len(text)
      BY <1>1, <1>2
    <2>3. f[m - 1] = At(d, where)
      BY <2>1, <2>2
    <2> QED
      BY <1>2, <2>2, <2>3
  <1>4. \A i \in 0 .. Len(text) : f[i] = At(d, where)
    BY <1>3
  <1>5. At(d, where).depth = d
    BY DEF At
  <1> QED
    BY <1>1, <1>4, <1>5

\* An escaped character of a string.
LEMMA EscapeReturns == \A c \in Character : Returns(<<"backslash", c>>, "string")
  <1> SUFFICES ASSUME NEW c \in Character, NEW d \in Nat, NEW f,
                      Walk(f, At(d, "string"), <<"backslash", c>>)
               PROVE  /\ f[2] = At(d, "string")
                      /\ \A i \in 0 .. 2 : f[i].depth \in Nat /\ f[i].depth >= d
    BY DEF Returns
  <1>1. f[0] = At(d, "string") /\ f[1] = Scan(f[0], "backslash") /\ f[2] = Scan(f[1], c)
    BY DEF Walk
  <1>2. f[1] = Escaped(d) /\ f[2] = At(d, "string")
    BY <1>1, ScanSteps
  <1>3. At(d, "string").depth = d /\ Escaped(d).depth = d
    BY DEF At, Escaped
  <1> QED
    BY <1>1, <1>2, <1>3

\* A text between two characters that open and close it: a string or an object.
Enclosed(open, text, close) == (<<open>> \o text) \o <<close>>

\* Between the two, the scan stays at the depth the first one opens.
LEMMA EnclosedWalk ==
  ASSUME NEW open \in Character, NEW close \in Character, NEW u \in RawText,
         NEW where, NEW inside, NEW d \in Nat, NEW e \in Nat,
         Scan(At(d, where), open) = At(e, inside), Scan(At(e, inside), close) = At(d, where),
         Returns(u, inside), NEW f, Walk(f, At(d, where), Enclosed(open, u, close))
  PROVE  /\ f[0] = At(d, where) /\ f[Len(u) + 2] = At(d, where)
         /\ \A i \in 1 .. Len(u) + 1 : f[i].depth \in Nat /\ f[i].depth >= e
  <1> DEFINE first == <<open>>
             last == <<close>>
             front == first \o u
  <1>1. /\ first \in RawText /\ last \in RawText /\ front \in RawText
        /\ Len(first) = 1 /\ Len(last) = 1
        /\ first[1] = open /\ last[1] = close
        /\ Len(front) = 1 + Len(u) /\ Len(u) \in Nat
    BY RawTexts
  <1> HIDE DEF front, first, last
  <1>2. PICK g, h :
           /\ Walk(g, At(d, where), front) /\ Walk(h, g[Len(front)], last)
           /\ \A i \in 0 .. Len(front) : f[i] = g[i]
           /\ \A i \in 0 .. Len(last) : f[Len(front) + i] = h[i]
    <2>1. Walk(f, At(d, where), front \o last)
      BY DEF Enclosed, front, first, last
    <2> QED
      BY <1>1, <2>1, WalkSplits
  <1>3. PICK k, l :
           /\ Walk(k, At(d, where), first) /\ Walk(l, k[Len(first)], u)
           /\ \A i \in 0 .. Len(first) : g[i] = k[i]
           /\ \A i \in 0 .. Len(u) : g[Len(first) + i] = l[i]
    <2>1. Walk(g, At(d, where), first \o u)
      BY <1>2 DEF front
    <2>2. first \in RawText
      BY <1>1
    <2> QED
      BY <2>1, <2>2, WalkSplits
  <1>4. k[0] = At(d, where) /\ k[1] = At(e, inside)
    BY <1>1, <1>3 DEF Walk
  <1>5. /\ l[Len(u)] = At(e, inside)
        /\ \A i \in 0 .. Len(u) : l[i].depth \in Nat /\ l[i].depth >= e
    <2>1. Walk(l, At(e, inside), u)
      BY <1>1, <1>3, <1>4
    <2> QED
      BY <2>1 DEF Returns
  <1>6. f[0] = At(d, where)
    BY <1>1, <1>2, <1>3, <1>4
  <1>7. g[Len(front)] = At(e, inside)
    BY <1>1, <1>3, <1>5
  <1>8. h[0] = At(e, inside) /\ h[1] = At(d, where)
    BY <1>1, <1>2, <1>7 DEF Walk
  <1>9. f[Len(u) + 2] = At(d, where)
    <2>1. Len(front) + 1 = Len(u) + 2 /\ 1 \in 0 .. Len(last)
      BY <1>1
    <2>2. f[Len(front) + 1] = h[1]
      BY <1>2, <2>1
    <2> QED
      BY <1>8, <2>1, <2>2
  <1>10. ASSUME NEW i \in 1 .. Len(u) + 1 PROVE f[i].depth \in Nat /\ f[i].depth >= e
    <2>1. /\ i - 1 \in 0 .. Len(u) /\ i \in 0 .. Len(front) /\ Len(first) + (i - 1) = i
      BY <1>1
    <2>2. g[Len(first) + (i - 1)] = l[i - 1]
      BY <1>3, <2>1
    <2>3. f[i] = g[i]
      BY <1>2, <2>1
    <2>4. f[i] = l[i - 1]
      BY <2>1, <2>2, <2>3
    <2> QED
      BY <1>5, <2>1, <2>4
  <1> QED
    BY <1>6, <1>9, <1>10

\* Where its characters are.
LEMMA EnclosedTexts ==
  ASSUME NEW open \in Character, NEW close \in Character, NEW u \in RawText
  PROVE  /\ Enclosed(open, u, close) \in RawText
         /\ Len(Enclosed(open, u, close)) = Len(u) + 2
         /\ Enclosed(open, u, close)[1] = open
         /\ Enclosed(open, u, close)[Len(u) + 2] = close
  <1> DEFINE first == <<open>>
             last == <<close>>
             front == first \o u
  <1>1. /\ first \in RawText /\ last \in RawText
        /\ Len(first) = 1 /\ Len(last) = 1 /\ Len(u) \in Nat
        /\ first[1] = open /\ last[1] = close
    BY RawTexts
  <1> HIDE DEF first, last
  <1>2. front \in RawText /\ Len(front) = 1 + Len(u) /\ front[1] = open
    <2>1. 1 \in 1 .. Len(first) /\ first \in RawText
      BY <1>1
    <2>2. /\ first \o u \in RawText /\ Len(first \o u) = Len(first) + Len(u)
          /\ \A i \in 1 .. Len(first) : (first \o u)[i] = first[i]
      BY <2>1, ConcatTexts
    <2>3. (first \o u)[1] = first[1]
      BY <2>1, <2>2
    <2> HIDE DEF front
    <2> QED
      BY <1>1, <2>2, <2>3 DEF front
  <1> HIDE DEF front
  <1>3. /\ front \o last \in RawText /\ Len(front \o last) = Len(front) + 1
        /\ (front \o last)[1] = front[1]
        /\ (front \o last)[Len(front) + 1] = close
    <2>1. 1 \in 1 .. Len(last) /\ 1 \in 1 .. Len(front) /\ last \in RawText /\ front \in RawText
      BY <1>1, <1>2
    <2>2. /\ front \o last \in RawText /\ Len(front \o last) = Len(front) + Len(last)
          /\ \A i \in 1 .. Len(front) : (front \o last)[i] = front[i]
          /\ \A i \in 1 .. Len(last) : (front \o last)[Len(front) + i] = last[i]
      BY <2>1, ConcatTexts
    <2>3. (front \o last)[1] = front[1] /\ (front \o last)[Len(front) + 1] = last[1]
      BY <2>1, <2>2
    <2> QED
      BY <1>1, <2>2, <2>3
  <1> QED
    BY <1>1, <1>2, <1>3 DEF Enclosed, front, first, last

\* A string of a JSON object, and an object in it.
LEMMA QuotedReturns ==
  ASSUME NEW u \in RawText, Returns(u, "string")
  PROVE  Returns(Enclosed("quote", u, "quote"), "plain")
  <1> SUFFICES ASSUME NEW d \in Nat, NEW f,
                      Walk(f, At(d, "plain"), Enclosed("quote", u, "quote"))
               PROVE  /\ f[Len(u) + 2] = At(d, "plain")
                      /\ \A i \in 0 .. Len(u) + 2 : f[i].depth \in Nat /\ f[i].depth >= d
    <2>1. Len(Enclosed("quote", u, "quote")) = Len(u) + 2
      BY EnclosedTexts DEF Character
    <2> QED
      BY <2>1 DEF Returns
  <1>1. Scan(At(d, "plain"), "quote") = At(d, "string")
    BY ScanSteps
  <1>2. Scan(At(d, "string"), "quote") = At(d, "plain")
    BY ScanSteps
  <1>3. /\ f[0] = At(d, "plain") /\ f[Len(u) + 2] = At(d, "plain")
        /\ \A i \in 1 .. Len(u) + 1 : f[i].depth \in Nat /\ f[i].depth >= d
    <2>1. "quote" \in Character
      BY DEF Character
    <2> QED
      BY <1>1, <1>2, <2>1, EnclosedWalk
  <1>4. At(d, "plain").depth = d /\ Len(u) \in Nat
    BY RawTexts DEF At
  <1>5. \A i \in 0 .. Len(u) + 2 : i = 0 \/ i = Len(u) + 2 \/ i \in 1 .. Len(u) + 1
    BY <1>4
  <1> QED
    BY <1>3, <1>4, <1>5

LEMMA NestedReturns ==
  ASSUME NEW u \in RawText, Returns(u, "plain")
  PROVE  Returns(Enclosed("open", u, "close"), "plain")
  <1> SUFFICES ASSUME NEW d \in Nat, NEW f,
                      Walk(f, At(d, "plain"), Enclosed("open", u, "close"))
               PROVE  /\ f[Len(u) + 2] = At(d, "plain")
                      /\ \A i \in 0 .. Len(u) + 2 : f[i].depth \in Nat /\ f[i].depth >= d
    <2>1. Len(Enclosed("open", u, "close")) = Len(u) + 2
      BY EnclosedTexts DEF Character
    <2> QED
      BY <2>1 DEF Returns
  <1>1. Scan(At(d, "plain"), "open") = At(d + 1, "plain")
    BY ScanSteps
  <1>2. Scan(At(d + 1, "plain"), "close") = At(d, "plain")
    <2>1. d + 1 \in Int /\ (d + 1) - 1 = d
      OBVIOUS
    <2>2. Scan(At(d + 1, "plain"), "close") = At((d + 1) - 1, "plain")
      BY <2>1, ScanSteps
    <2> QED
      BY <2>1, <2>2
  <1>3. /\ f[0] = At(d, "plain") /\ f[Len(u) + 2] = At(d, "plain")
        /\ \A i \in 1 .. Len(u) + 1 : f[i].depth \in Nat /\ f[i].depth >= d + 1
    <2>1. "open" \in Character /\ "close" \in Character /\ d + 1 \in Nat
      BY DEF Character
    <2> QED
      BY <1>1, <1>2, <2>1, EnclosedWalk
  <1>4. At(d, "plain").depth = d /\ Len(u) \in Nat
    BY RawTexts DEF At
  <1>5. \A i \in 0 .. Len(u) + 2 : i = 0 \/ i = Len(u) + 2 \/ i \in 1 .. Len(u) + 1
    BY <1>4
  <1> QED
    BY <1>3, <1>4, <1>5

-----------------------------------------------------------------------------
\* The least number of a set.
LEMMA FirstIs ==
  ASSUME NEW T \in SUBSET Nat, NEW m \in T, \A n \in T : m <= n
  PROVE  Min(T) = m
  <1>1. Min(T) \in T /\ \A n \in T : Min(T) <= n
    BY FirstOf
  <1>2. Min(T) \in Nat /\ m \in Nat
    BY <1>1
  <1> QED
    BY <1>1, <1>2

\* Two texts in a row, cut where they meet.
LEMMA ConcatParts ==
  ASSUME NEW u \in RawText, NEW v \in RawText
  PROVE  /\ Len(u) # 0 => SubSeq(u \o v, 1, Len(u)) = u
         /\ Len(v) # 0 => SubSeq(u \o v, Len(u) + 1, Len(u) + Len(v)) = v
  <1>1. u \in Seq(Character) /\ v \in Seq(Character) /\ Len(u) \in Nat /\ Len(v) \in Nat
    BY RawTexts DEF RawText
  <1>2. SubSeq(u, 1, Len(u)) = u /\ SubSeq(v, 1, Len(v)) = v
    BY <1>1, SubSeqFull
  <1>3. ASSUME Len(u) # 0 PROVE SubSeq(u \o v, 1, Len(u)) = u
    <2>1. 1 \in 1 .. Len(u) /\ Len(u) \in 1 .. Len(u)
      BY <1>1, <1>3
    <2>2. SubSeq(u \o v, 1, Len(u)) = SubSeq(u, 1, Len(u))
      BY <1>1, <2>1, SubSeqOfConcat1
    <2> QED
      BY <1>2, <2>2
  <1>4. ASSUME Len(v) # 0 PROVE SubSeq(u \o v, Len(u) + 1, Len(u) + Len(v)) = v
    <2> DEFINE m == Len(u) + 1
               n == Len(u) + Len(v)
    <2>1. /\ m \in Len(u) + 1 .. Len(u) + Len(v) /\ n \in Len(u) + 1 .. Len(u) + Len(v)
          /\ m - Len(u) = 1 /\ n - Len(u) = Len(v)
      BY <1>1, <1>4
    <2> HIDE DEF m, n
    <2>2. SubSeq(u \o v, m, n) = SubSeq(v, m - Len(u), n - Len(u))
      BY <1>1, <2>1, SubSeqOfConcat2
    <2> QED
      BY <1>2, <2>1, <2>2 DEF m, n
  <1> QED
    BY <1>3, <1>4

\* A text from a brace to the first one at which the scan is as it was before it.
IsObject(b) ==
  /\ Len(b) # 0 /\ b[1] = "open" /\ b[Len(b)] = "close" /\ Scanned(b)[Len(b)] = Before
  /\ \A i \in 1 .. Len(b) - 1 : ~(b[i] = "close" /\ Scanned(b)[i] = Before)

\* The first object of a text: no brace opens before it.
FirstObject(b, text) ==
  \E p, t \in RawText :
    /\ text = p \o (b \o t) /\ IsObject(b)
    /\ \A i \in 1 .. Len(p) : p[i] # "open"

\* Braces around a text that leaves the scan as it was make an object.
LEMMA EnclosedIsObject ==
  ASSUME NEW u \in RawText, Returns(u, "plain")
  PROVE  IsObject(Enclosed("open", u, "close"))
  <1> DEFINE b == Enclosed("open", u, "close")
             s == Scanned(b)
  <1>1. "open" \in Character /\ "close" \in Character
    BY DEF Character
  <1>2. /\ b \in RawText /\ Len(b) = Len(u) + 2 /\ Len(u) \in Nat
        /\ b[1] = "open" /\ b[Len(u) + 2] = "close"
    BY <1>1, EnclosedTexts, RawTexts
  <1>3. Walk(s, At(0, "plain"), Enclosed("open", u, "close"))
    BY <1>2, ScannedWalks
  <1> HIDE DEF s
  <1>4. /\ s[Len(u) + 2] = At(0, "plain")
        /\ \A i \in 1 .. Len(u) + 1 : s[i].depth \in Nat /\ s[i].depth >= 1
    <2>1. Scan(At(0, "plain"), "open") = At(1, "plain")
      <3>1. 0 \in Int /\ 0 + 1 = 1
        OBVIOUS
      <3>2. Scan(At(0, "plain"), "open") = At(0 + 1, "plain")
        BY <3>1, ScanSteps
      <3> QED
        BY <3>1, <3>2
    <2>2. Scan(At(1, "plain"), "close") = At(0, "plain")
      <3>1. 1 \in Int /\ 1 - 1 = 0
        OBVIOUS
      <3>2. Scan(At(1, "plain"), "close") = At(1 - 1, "plain")
        BY <3>1, ScanSteps
      <3> QED
        BY <3>1, <3>2
    <2> QED
      BY <1>1, <1>3, <2>1, <2>2, EnclosedWalk
  <1> HIDE DEF b
  <1>5. Before = At(0, "plain") /\ Before.depth = 0
    BY DEF Before, At
  <1>6. s[Len(b)] = Before
    BY <1>2, <1>4, <1>5
  <1>7. ASSUME NEW i \in 1 .. Len(b) - 1 PROVE s[i] # Before
    <2>1. i \in 1 .. Len(u) + 1
      BY <1>2
    <2> QED
      BY <1>4, <1>5, <2>1
  <1> QED
    BY <1>2, <1>6, <1>7 DEF IsObject, b, s

\* The first object of a text is what the extraction takes from it.
LEMMA FirstObjectTaken ==
  ASSUME NEW p \in RawText, \A i \in 1 .. Len(p) : p[i] # "open",
         NEW b \in RawText, IsObject(b), NEW t \in RawText
  PROVE  ExtractJSONBlock(p \o (b \o t)) = b
  <1> DEFINE rest == b \o t
             text == p \o rest
             opens == {i \in DOMAIN text : text[i] = "open"}
             closes == {i \in DOMAIN rest : rest[i] = "close" /\ Scanned(rest)[i] = Before}
  <1>1. Len(b) \in Nat \ {0} /\ Len(b) \in 1 .. Len(b) /\ 1 \in 1 .. Len(b)
    BY RawTexts DEF IsObject
  <1>2. /\ b[1] = "open" /\ b[Len(b)] = "close" /\ Scanned(b)[Len(b)] = Before
        /\ \A i \in 1 .. Len(b) - 1 : ~(b[i] = "close" /\ Scanned(b)[i] = Before)
    BY DEF IsObject
  <1>3. \A i \in 1 .. Len(b) : Scanned(rest)[i] = Scanned(b)[i]
    BY <1>1, ScannedPrefix
  <1>4. /\ rest \in RawText /\ Len(rest) = Len(b) + Len(t) /\ Len(t) \in Nat
        /\ \A i \in 1 .. Len(b) : rest[i] = b[i]
    BY ConcatTexts, RawTexts
  <1>5. SubSeq(rest, 1, Len(b)) = b
    BY <1>1, ConcatParts
  <1>6. DOMAIN rest = 1 .. Len(rest)
    BY <1>4, LenProperties DEF RawText
  <1> HIDE DEF rest
  <1>7. Min(closes) = Len(b) /\ closes # {}
    <2>1. Len(b) \in closes
      BY <1>1, <1>2, <1>3, <1>4, <1>6
    <2>2. closes \in SUBSET Nat
      BY <1>1, <1>4, <1>6
    <2>3. ASSUME NEW i \in closes PROVE Len(b) <= i
      <3>1. i \in 1 .. Len(rest) /\ rest[i] = "close" /\ Scanned(rest)[i] = Before
        BY <1>6
      <3>2. i \in 1 .. Len(b) - 1 => b[i] = "close" /\ Scanned(b)[i] = Before
        BY <1>1, <1>3, <1>4, <3>1
      <3> QED
        BY <1>1, <1>2, <1>4, <3>1, <3>2
    <2> HIDE DEF closes
    <2> QED
      BY <2>1, <2>2, <2>3, FirstIs
  <1>8. /\ text \in RawText /\ Len(text) = Len(p) + Len(rest) /\ Len(p) \in Nat
        /\ \A i \in 1 .. Len(p) : text[i] = p[i]
        /\ \A i \in 1 .. Len(rest) : text[Len(p) + i] = rest[i]
    BY <1>4, ConcatTexts, RawTexts
  <1>9. SubSeq(text, Len(p) + 1, Len(text)) = rest
    <2>1. Len(rest) # 0
      BY <1>1, <1>4
    <2>2. SubSeq(text, Len(p) + 1, Len(p) + Len(rest)) = rest
      BY <1>4, <2>1, ConcatParts
    <2> QED
      BY <1>8, <2>2
  <1>10. DOMAIN text = 1 .. Len(text)
    BY <1>8, LenProperties DEF RawText
  <1> HIDE DEF text
  <1>11. Min(opens) = Len(p) + 1 /\ opens # {}
    <2>1. Len(p) + 1 \in opens
      <3>1. 1 \in 1 .. Len(rest)
        BY <1>1, <1>4
      <3>2. text[Len(p) + 1] = rest[1] /\ rest[1] = b[1]
        BY <1>1, <1>4, <1>8, <3>1
      <3>3. Len(p) + 1 \in 1 .. Len(text)
        BY <1>1, <1>4, <1>8
      <3> QED
        BY <1>2, <1>10, <3>2, <3>3
    <2>2. opens \in SUBSET Nat
      BY <1>1, <1>4, <1>8, <1>10
    <2>3. ASSUME NEW i \in opens PROVE Len(p) + 1 <= i
      BY <1>1, <1>4, <1>8, <1>10
    <2> HIDE DEF opens
    <2> QED
      BY <2>1, <2>2, <2>3, FirstIs
  <1>12. ExtractJSONBlock(text) =
           IF opens = {} THEN << >>
           ELSE LET tail == SubSeq(text, Min(opens), Len(text))
                    ends == {i \in DOMAIN tail : tail[i] = "close" /\ Scanned(tail)[i] = Before}
                IN IF ends = {} THEN << >> ELSE SubSeq(tail, 1, Min(ends))
    BY DEF ExtractJSONBlock
  <1>13. SubSeq(text, Min(opens), Len(text)) = rest
    BY <1>9, <1>11
  <1>14. ExtractJSONBlock(text) = IF closes = {} THEN << >> ELSE SubSeq(rest, 1, Min(closes))
    <2> HIDE DEF opens
    <2>1. opens # {}
      BY <1>11
    <2> QED
      BY <1>12, <1>13, <2>1, Zenon
  <1> HIDE DEF closes
  <1>15. ExtractJSONBlock(text) = b
    BY <1>5, <1>7, <1>14
  <1> QED
    BY <1>15 DEF text, rest

\* What the extraction takes from a text is the first object of it.
LEMMA TakenIsFirstObject ==
  ASSUME NEW text \in RawText, ExtractJSONBlock(text) # << >>
  PROVE  FirstObject(ExtractJSONBlock(text), text)
  <1> DEFINE opens == {i \in DOMAIN text : text[i] = "open"}
             rest == SubSeq(text, Min(opens), Len(text))
             closes == {i \in DOMAIN rest : rest[i] = "close" /\ Scanned(rest)[i] = Before}
             b == SubSeq(rest, 1, Min(closes))
  <1>1. ExtractJSONBlock(text) =
          IF opens = {} THEN << >> ELSE IF closes = {} THEN << >> ELSE b
    BY Zenon DEF ExtractJSONBlock
  <1>2. opens # {} /\ closes # {} /\ ExtractJSONBlock(text) = b
    <2> HIDE DEF opens, closes, b
    <2> QED
      BY <1>1
  <1>3. text \in Seq(Character) /\ Len(text) \in Nat /\ DOMAIN text = 1 .. Len(text)
    BY LenProperties DEF RawText
  <1>4. Min(opens) \in opens /\ \A n \in opens : Min(opens) <= n
    <2>1. opens \in SUBSET Nat
      BY <1>3
    <2> HIDE DEF opens
    <2> QED
      BY <1>2, <2>1, FirstOf
  <1>5. PICK o \in opens : o = Min(opens) /\ \A n \in opens : o <= n
    <2> HIDE DEF opens
    <2> QED
      BY <1>4
  <1>6. /\ o \in 1 .. Len(text) /\ text[o] = "open"
        /\ \A i \in 1 .. o - 1 : text[i] # "open"
    <2>1. o \in 1 .. Len(text) /\ text[o] = "open"
      BY <1>3
    <2>2. ASSUME NEW i \in 1 .. o - 1, text[i] = "open" PROVE FALSE
      <3>1. i \in opens
        BY <1>3, <2>1, <2>2
      <3>2. o <= i
        BY <1>5, <3>1
      <3> QED
        BY <2>1, <3>2
    <2> QED
      BY <2>1, <2>2
  <1>7. rest = SubSeq(text, o, Len(text))
    BY <1>5
  <1> HIDE DEF opens, rest
  <1>8. /\ rest \in Seq(Character) /\ Len(rest) = Len(text) - o + 1
        /\ \A i \in 1 .. Len(rest) : rest[i] = text[o + i - 1]
    <2>1. \A i \in o .. Len(text) : text[i] \in Character
      BY <1>3, <1>6, ElementOfSeq
    <2>2. /\ SubSeq(text, o, Len(text)) \in Seq(Character)
          /\ Len(SubSeq(text, o, Len(text))) = IF o <= Len(text) THEN Len(text) - o + 1 ELSE 0
          /\ \A i \in 1 .. Len(text) - o + 1 : SubSeq(text, o, Len(text))[i] = text[o + i - 1]
      BY <1>3, <1>6, <2>1, SubSeqProperties
    <2> QED
      BY <1>3, <1>6, <1>7, <2>2
  <1>9. Len(rest) \in Nat /\ DOMAIN rest = 1 .. Len(rest)
    BY <1>8, LenProperties
  <1>10. Min(closes) \in closes /\ \A n \in closes : Min(closes) <= n
    <2>1. closes \in SUBSET Nat
      BY <1>9
    <2> HIDE DEF closes
    <2> QED
      BY <1>2, <2>1, FirstOf
  <1>11. PICK e \in closes : e = Min(closes) /\ \A n \in closes : e <= n
    <2> HIDE DEF closes
    <2> QED
      BY <1>10
  <1>12. /\ e \in 1 .. Len(rest) /\ rest[e] = "close" /\ Scanned(rest)[e] = Before
         /\ \A i \in 1 .. e - 1 : ~(rest[i] = "close" /\ Scanned(rest)[i] = Before)
    <2>1. e \in 1 .. Len(rest) /\ rest[e] = "close" /\ Scanned(rest)[e] = Before
      BY <1>9
    <2>2. ASSUME NEW i \in 1 .. e - 1, rest[i] = "close", Scanned(rest)[i] = Before
          PROVE  FALSE
      <3>1. i \in closes
        BY <1>9, <2>1, <2>2
      <3>2. e <= i
        BY <1>11, <3>1
      <3> QED
        BY <2>1, <3>2
    <2> QED
      BY <2>1, <2>2
  <1>13. b = SubSeq(rest, 1, e)
    BY <1>11
  <1> HIDE DEF closes, b
  <1> DEFINE p == SubSeq(text, 1, o - 1)
             t == SubSeq(rest, e + 1, Len(rest))
  <1>14. /\ p \in RawText /\ Len(p) = o - 1
         /\ \A i \in 1 .. Len(p) : p[i] # "open"
    <2>1. \A i \in 1 .. o - 1 : text[i] \in Character
      BY <1>3, <1>6, ElementOfSeq
    <2>2. /\ p \in Seq(Character) /\ Len(p) = IF 1 <= o - 1 THEN (o - 1) - 1 + 1 ELSE 0
          /\ \A i \in 1 .. (o - 1) - 1 + 1 : p[i] = text[1 + i - 1]
      BY <1>3, <1>6, <2>1, SubSeqProperties
    <2> HIDE DEF p
    <2> QED
      BY <1>6, <2>2 DEF RawText
  <1>15. /\ b \in RawText /\ Len(b) = e
         /\ \A i \in 1 .. e : b[i] = rest[i]
    <2>1. \A i \in 1 .. e : rest[i] \in Character
      BY <1>8, <1>9, <1>12, ElementOfSeq
    <2>2. /\ SubSeq(rest, 1, e) \in Seq(Character)
          /\ Len(SubSeq(rest, 1, e)) = IF 1 <= e THEN e - 1 + 1 ELSE 0
          /\ \A i \in 1 .. e - 1 + 1 : SubSeq(rest, 1, e)[i] = rest[1 + i - 1]
      BY <1>12, <2>1, SubSeqProperties
    <2> QED
      BY <1>12, <1>13, <2>2 DEF RawText
  <1>16. t \in RawText
    <2>1. \A i \in e + 1 .. Len(rest) : rest[i] \in Character
      BY <1>8, <1>9, <1>12, ElementOfSeq
    <2> QED
      BY <1>9, <1>12, <2>1, SubSeqProperties DEF RawText
  <1>17. rest = b \o t
    <2>1. SubSeq(rest, 1, e) \o SubSeq(rest, e + 1, Len(rest)) = SubSeq(rest, 1, Len(rest))
      <3>1. /\ 1 \in 1 .. Len(rest) + 1 /\ e \in 1 - 1 .. Len(rest)
            /\ Len(rest) \in e .. Len(rest)
        BY <1>9, <1>12
      <3> QED
        BY <1>8, <3>1, ConcatAdjacentSubSeq
    <2>2. SubSeq(rest, 1, Len(rest)) = rest
      BY <1>8, SubSeqFull
    <2> QED
      BY <1>13, <2>1, <2>2
  <1>18. text = p \o rest
    <2>1. SubSeq(text, 1, o - 1) \o SubSeq(text, (o - 1) + 1, Len(text)) = SubSeq(text, 1, Len(text))
      <3>1. /\ 1 \in 1 .. Len(text) + 1 /\ o - 1 \in 1 - 1 .. Len(text)
            /\ Len(text) \in o - 1 .. Len(text)
        BY <1>3, <1>6
      <3> QED
        BY <1>3, <3>1, ConcatAdjacentSubSeq
    <2>2. SubSeq(text, 1, Len(text)) = text
      BY <1>3, SubSeqFull
    <2>3. (o - 1) + 1 = o
      BY <1>6
    <2> QED
      BY <1>7, <2>1, <2>2, <2>3
  <1> HIDE DEF p, t
  <1>19. IsObject(b)
    <2>1. \A i \in 1 .. e : Scanned(rest)[i] = Scanned(b)[i]
      BY <1>12, <1>15, <1>16, <1>17, ScannedPrefix
    <2>2. Len(b) # 0 /\ b[1] = "open"
      <3>1. 1 \in 1 .. e /\ 1 \in 1 .. Len(rest) /\ o + 1 - 1 = o
        BY <1>6, <1>9, <1>12
      <3>2. b[1] = rest[1] /\ rest[1] = text[o + 1 - 1]
        BY <1>8, <1>15, <3>1
      <3> QED
        BY <1>6, <1>12, <1>15, <3>1, <3>2
    <2>3. b[Len(b)] = "close" /\ Scanned(b)[Len(b)] = Before
      BY <1>12, <1>15, <2>1
    <2>4. \A i \in 1 .. Len(b) - 1 : ~(b[i] = "close" /\ Scanned(b)[i] = Before)
      BY <1>12, <1>15, <2>1
    <2> QED
      BY <2>2, <2>3, <2>4 DEF IsObject
  <1> QED
    BY <1>2, <1>14, <1>16, <1>17, <1>18, <1>19 DEF FirstObject

\* EXTRACTION.  From an answer of any length the parser takes its first object and nothing
\* else, and takes nothing only from an answer without one (ExtractJSONBlock).
THEOREM ExtractionIsExact ==
  ASSUME NEW text \in RawText, NEW b \in RawText, b # << >>
  PROVE  ExtractJSONBlock(text) = b <=> FirstObject(b, text)
  <1>1. ASSUME ExtractJSONBlock(text) = b PROVE FirstObject(b, text)
    BY <1>1, TakenIsFirstObject
  <1>2. ASSUME FirstObject(b, text) PROVE ExtractJSONBlock(text) = b
    BY <1>2, FirstObjectTaken DEF FirstObject
  <1> QED
    BY <1>1, <1>2

\* Whatever such a text holds, the object around it is found.
THEOREM FirstObjectFound ==
  ASSUME NEW p \in RawText, \A i \in 1 .. Len(p) : p[i] # "open",
         NEW u \in RawText, Returns(u, "plain"), NEW t \in RawText
  PROVE  ExtractJSONBlock(p \o (Enclosed("open", u, "close") \o t)) = Enclosed("open", u, "close")
  <1>1. "open" \in Character /\ "close" \in Character
    BY DEF Character
  <1>2. Enclosed("open", u, "close") \in RawText
    BY <1>1, EnclosedTexts
  <1> QED
    BY <1>2, EnclosedIsObject, FirstObjectTaken

-----------------------------------------------------------------------------
\* The listed objects are of that kind: a text read off the grammar leaves a scan as it was.
LEMMA EnclosedPair ==
  ASSUME NEW open \in Character, NEW close \in Character, NEW u \in RawText, NEW v \in RawText
  PROVE  <<open>> \o u \o v \o <<close>> = Enclosed(open, u \o v, close)
  <1> DEFINE first == <<open>>
             last == <<close>>
  <1>1. first \in RawText
    BY RawTexts
  <1> HIDE DEF first, last
  <1>2. (first \o u) \o v = first \o (u \o v)
    BY <1>1, ConcatAssociative DEF RawText
  <1>3. ((first \o u) \o v) \o last = (first \o (u \o v)) \o last
    BY <1>2
  <1> QED
    BY <1>3 DEF Enclosed, first, last

\* Texts of up to two characters.
LEMMA ListedTexts ==
  ASSUME NEW S \in SUBSET Character, NEW w \in UNION {[1 .. n -> S] : n \in 0 .. 2}
  PROVE  w \in RawText /\ \A i \in 1 .. Len(w) : w[i] \in S
  <1>1. PICK n \in 0 .. 2 : w \in [1 .. n -> S]
    OBVIOUS
  <1>2. n \in Nat /\ w \in [1 .. n -> Character]
    BY <1>1
  <1>3. w \in Seq(Character)
    BY <1>2
  <1>4. Len(w) = n
    BY <1>2, <1>3, LenProperties
  <1> QED
    BY <1>1, <1>3, <1>4 DEF RawText

\* Strings, what may stand before another object, and that object.
LEMMA QuotedIsQuiet ==
  ASSUME NEW q \in Quoted
  PROVE  q \in RawText /\ Returns(q, "plain")
  <1>1. PICK w \in Word, e \in Escape : q = <<"quote">> \o w \o e \o <<"quote">>
    BY DEF Quoted
  <1>2. w \in RawText /\ \A i \in 1 .. Len(w) : w[i] \in {"x", "open", "close"}
    <2>1. {"x", "open", "close"} \in SUBSET Character
      BY DEF Character
    <2> QED
      BY <2>1, ListedTexts DEF Word
  <1>3. Returns(w, "string")
    <2>1. \A d \in Nat : \A c \in {"x", "open", "close"} :
            Scan(At(d, "string"), c) = At(d, "string")
      <3>1. \A d \in Nat : d \in Int
        OBVIOUS
      <3>2. \A c \in {"x", "open", "close"} : c \notin {"quote", "backslash"}
        OBVIOUS
      <3> QED
        BY <3>1, <3>2, ScanSteps, Zenon
    <2>2. \A i \in 1 .. Len(w) : \A d \in Nat :
            Scan(At(d, "string"), w[i]) = At(d, "string")
      BY <1>2, <2>1
    <2> QED
      BY <1>2, <2>2, QuietReturns
  <1>4. e \in RawText /\ Returns(e, "string")
    <2>1. "backslash" \in Character /\ "quote" \in Character
      BY DEF Character
    <2>2. CASE e = << >>
      BY <2>2, RawTexts, EmptyReturns
    <2>3. \A c \in Character : <<"backslash", c>> \in RawText
      BY <2>1 DEF RawText
    <2>4. CASE e = <<"backslash", "quote">>
      BY <2>1, <2>3, <2>4, EscapeReturns
    <2>5. CASE e = <<"backslash", "backslash">>
      BY <2>1, <2>3, <2>5, EscapeReturns
    <2> QED
      BY <2>2, <2>4, <2>5 DEF Escape
  <1>5. "quote" \in Character
    BY DEF Character
  <1>6. q = Enclosed("quote", w \o e, "quote")
    BY <1>1, <1>2, <1>4, <1>5, EnclosedPair
  <1>7. w \o e \in RawText /\ Returns(w \o e, "string")
    BY <1>2, <1>3, <1>4, RawTexts, ConcatReturns
  <1>8. Enclosed("quote", w \o e, "quote") \in RawText
    BY <1>5, <1>7, EnclosedTexts
  <1> QED
    BY <1>6, <1>7, <1>8, QuotedReturns

LEMMA FlatIsQuiet ==
  ASSUME NEW f \in Flat
  PROVE  f \in RawText /\ Returns(f, "plain")
  <1>1. CASE f = << >>
    BY <1>1, RawTexts, EmptyReturns
  <1>2. CASE f = <<"x">>
    <2>1. "x" \in Character \ {"quote", "open", "close"}
      BY DEF Character
    <2> QED
      BY <1>2, <2>1, RawTexts, LetterReturns
  <1>3. CASE f \in Quoted
    BY <1>3, QuotedIsQuiet
  <1> QED
    BY <1>1, <1>2, <1>3 DEF Flat

LEMMA NestedIsQuiet ==
  ASSUME NEW n \in Nested
  PROVE  n \in RawText /\ Returns(n, "plain")
  <1>1. PICK f \in Flat : n = <<"open">> \o f \o <<"close">>
    BY DEF Nested
  <1>2. f \in RawText /\ Returns(f, "plain")
    BY FlatIsQuiet
  <1>3. "open" \in Character /\ "close" \in Character
    BY DEF Character
  <1>4. n = Enclosed("open", f, "close")
    BY <1>1 DEF Enclosed
  <1>5. Enclosed("open", f, "close") \in RawText
    BY <1>2, <1>3, EnclosedTexts
  <1> QED
    BY <1>2, <1>4, <1>5, NestedReturns

\* An object of the grammar holds such a text.
LEMMA BlockIsObject ==
  ASSUME NEW b \in Block
  PROVE  \E u \in RawText : Returns(u, "plain") /\ b = Enclosed("open", u, "close")
  <1>1. PICK f \in Flat, n \in Nested \union {<< >>} :
          b = <<"open">> \o f \o n \o <<"close">>
    BY DEF Block
  <1>2. f \in RawText /\ Returns(f, "plain")
    BY FlatIsQuiet
  <1>3. n \in RawText /\ Returns(n, "plain")
    <2>1. CASE n \in Nested
      BY <2>1, NestedIsQuiet
    <2>2. CASE n = << >>
      BY <2>2, RawTexts, EmptyReturns
    <2> QED
      BY <2>1, <2>2
  <1>4. "open" \in Character /\ "close" \in Character
    BY DEF Character
  <1>5. b = Enclosed("open", f \o n, "close")
    BY <1>1, <1>2, <1>3, <1>4, EnclosedPair
  <1>6. f \o n \in RawText /\ Returns(f \o n, "plain")
    BY <1>2, <1>3, RawTexts, ConcatReturns
  <1> QED
    BY <1>5, <1>6

\* The extraction, on the listed texts: what `ParserExact` says of it.
LEMMA BlocksExtracted ==
  ASSUME NEW b \in Block
  PROVE  /\ \A p \in Prose : ExtractJSONBlock(p \o b) = b
         /\ \A t \in Tail2 : ExtractJSONBlock(b \o t) = b
  <1>1. PICK u \in RawText : Returns(u, "plain") /\ b = Enclosed("open", u, "close")
    BY BlockIsObject
  <1>2. b \in RawText /\ b \o << >> = b
    <2>1. "open" \in Character /\ "close" \in Character
      BY DEF Character
    <2>2. b \in RawText
      BY <1>1, <2>1, EnclosedTexts
    <2> QED
      BY <2>2, ConcatEmptySeq DEF RawText
  <1>3. ASSUME NEW p \in Prose PROVE ExtractJSONBlock(p \o b) = b
    <2>1. p \in RawText /\ \A i \in 1 .. Len(p) : p[i] \in Character \ {"open"}
      BY ListedTexts DEF Prose
    <2>2. \A i \in 1 .. Len(p) : p[i] # "open"
      BY <2>1
    <2>3. << >> \in RawText
      BY RawTexts
    <2>4. ExtractJSONBlock(p \o (b \o << >>)) = b
      BY <1>1, <2>1, <2>2, <2>3, FirstObjectFound
    <2> QED
      BY <1>2, <2>4
  <1>4. ASSUME NEW t \in Tail2 PROVE ExtractJSONBlock(b \o t) = b
    <2>1. t \in RawText
      BY ListedTexts DEF Tail2
    <2>2. << >> \in RawText /\ \A i \in 1 .. Len(<< >>) : << >>[i] # "open"
      BY RawTexts
    <2>3. ExtractJSONBlock(<< >> \o (b \o t)) = b
      BY <1>1, <2>1, <2>2, FirstObjectFound
    <2>4. << >> \o (b \o t) = b \o t
      <3>1. b \o t \in RawText
        BY <1>2, <2>1, RawTexts
      <3> QED
        BY <3>1, ConcatEmptySeq DEF RawText
    <2> QED
      BY <2>3, <2>4
  <1> QED
    BY <1>3, <1>4

\* What is made of the fields of an object.
ParsedApt(w, f, crashed) ==
  LET r == Parse(w, f, crashed) IN
  /\ r.severity \in ValidSeverities /\ r.action \in ValidActions
  /\ r.confidence # "low" =>
       r = [level |-> "AI", severity |-> f.severity, action |-> f.action,
            confidence |-> f.confidence]
  /\ r.level = "AI" <=> w /\ f.rootCause = "text"

\* It is of the lists, and trusted only when nothing was replaced.
LEMMA FieldsParsed ==
  ASSUME NEW w \in BOOLEAN, NEW f \in Fields, NEW crashed \in BOOLEAN
  PROVE  ParsedApt(w, f, crashed)
  <1> DEFINE r == Parse(w, f, crashed)
             given == w /\ f.rootCause \notin {"absent", "other"}
  <1>1. /\ f.rootCause \in {"absent", "other", "text"}
        /\ f.severity \in ValidSeverities \union {"absent", "other"}
        /\ f.action \in ValidActions \union {"absent", "other"}
        /\ f.confidence \in ValidConfidences \union {"absent", "other"}
    BY DEF Fields
  <1>2. CASE ~given
    <2>1. r = FallbackPartial
      BY <1>2 DEF Parse
    <2>2. /\ r.level = "AI~" /\ r.severity = "warning" /\ r.action = "none"
          /\ r.confidence = "low"
      BY <2>1 DEF FallbackPartial
    <2>3. ~(w /\ f.rootCause = "text")
      BY <1>2
    <2> HIDE DEF r
    <2> QED
      BY <2>2, <2>3 DEF ParsedApt, r, ValidSeverities, ValidActions
  <1>3. CASE given
    <2> DEFINE trusted == /\ f.severity \in ValidSeverities /\ f.action \in ValidActions
                          /\ f.confidence \in ValidConfidences
    <2>1. r = [level |-> "AI",
               severity |-> IF f.severity \in ValidSeverities THEN f.severity
                            ELSE DeriveSignalSeverity(crashed),
               action |-> IF f.action \in ValidActions THEN f.action ELSE "none",
               confidence |-> IF trusted THEN f.confidence ELSE "low"]
      BY <1>3 DEF Parse
    <2>2. r.level = "AI"
      BY <2>1
    <2>3. r.severity \in ValidSeverities
      BY <2>1 DEF DeriveSignalSeverity, ValidSeverities
    <2>4. r.action \in ValidActions
      BY <2>1 DEF ValidActions
    <2>5. ASSUME r.confidence # "low"
          PROVE  r = [level |-> "AI", severity |-> f.severity, action |-> f.action,
                      confidence |-> f.confidence]
      <3>1. trusted
        BY <2>1, <2>5
      <3> QED
        BY <2>1, <3>1
    <2>6. w /\ f.rootCause = "text"
      BY <1>1, <1>3
    <2> HIDE DEF r
    <2> QED
      BY <2>2, <2>3, <2>4, <2>5, <2>6 DEF ParsedApt, r
  <1> QED
    BY <1>2, <1>3

\* Both halves of what the run checks.
LEMMA TheParserIsExact == ParserExact
  BY BlocksExtracted, FieldsParsed DEF ParserExact, ParsedApt

\* ANSWERS.  From whatever prose a model wraps it in, the object that is parsed is the first
\* one of the answer, whole, whatever braces and quotes its strings hold; nothing outside the
\* lists gets through, and an answer of which a field was replaced is not trusted
\* (ai_response_parser.go, ExtractJSONBlock and Parse).
THEOREM AnswersAreParsed == Spec => []AnswersParsed
  <1>1. AnswersParsed
    BY TheParserIsExact DEF AnswersParsed
  <1> QED BY <1>1, PTL
=============================================================================
