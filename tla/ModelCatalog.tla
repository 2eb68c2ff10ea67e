---------------------------- MODULE ModelCatalog ----------------------------
(***************************************************************************)
(* The catalogue of models (agent/internal/infrastructure/ai/              *)
(* catalog_service.go, catalog_provider.go, core/domain/ai.go): each       *)
(* interface keeps one in memory, synchronises it once with the providers  *)
(* and shares its cache file, written by way of one temporary file, with   *)
(* the other interfaces of the host.  Requests add to the statistics that  *)
(* rate the models.  Scores are in tenths; the number of requests and the  *)
(* rate of successes, which rate nothing, are left out.                    *)
(***************************************************************************)
EXTENDS Integers, SequencesExt

CONSTANTS
  Process,
  Seeds,          \* BootstrapSeedModels
  FreeRouter,     \* the model the OpenRouter provider always lists first
  Remote, Local,  \* the lists OpenRouter and Ollama may answer with
  Asked,          \* bound: the models requests go to
  Latency,
  Window, Enough, \* the latencies kept and those a percentile needs: 50 and 5
  MaxInferences,  \* bound: the requests of a behaviour
  MaxStarts       \* bound: the starts of the interface

VARIABLES
  at,             \* at[p]: where p is in its synchronisation, or "off"
  models, metrics, windows, assessments,   \* of each process
  cache, tmp,     \* the two files
  fd,             \* fd[p]: what the file p writes to is by now
  inferences, starts

memory == <<models, metrics, windows, assessments>>
bounds == <<inferences, starts>>
vars == <<at, memory, cache, tmp, fd, bounds>>

\* What may be listed, and rated.
Known == ToSet(Seeds) \union {FreeRouter} \union UNION {ToSet(l) : l \in Remote \union Local}
Id == {m.id : m \in Known} \union Asked

HasFree(list) == \E n \in DOMAIN list : list[n].free

ASSUME ListsAssumption ==
  \A list \in {Seeds} \union Remote \union Local : list \in Seq(Known)

\* One of the rescue seeds is free, OpenRouter's router is, and so is all Ollama has.
ASSUME FreeAssumption ==
  /\ HasFree(Seeds) /\ FreeRouter.free
  /\ \A list \in Local : \A n \in DOMAIN list : list[n].free

NoMetrics == [avg |-> 0, p95 |-> 0, state |-> "estimated"]
Fresh == [i \in Id |-> NoMetrics]

\* A file: its catalogue, if it is there and whole.
NoFile == [there |-> FALSE, whole |-> FALSE, models |-> << >>, metrics |-> Fresh]
Torn == [NoFile EXCEPT !.there = TRUE]

-----------------------------------------------------------------------------
(* Rating.                                                                 *)

AtLeast(a, b) == IF a < b THEN b ELSE a
Clamp(v) == IF v < 10 THEN 10 ELSE IF v > 50 THEN 50 ELSE v

\* By latency once it was observed, by the name until then.
Speed(m, rt) ==
  IF rt.state = "observed" /\ rt.avg > 0
  THEN IF rt.avg < 2 THEN 7 ELSE IF rt.avg < 4 THEN 3 ELSE IF rt.avg > 8 THEN -10 ELSE 0
  ELSE IF m.quick THEN 5 ELSE 0

AssessModel(m, rt) ==
  LET fast == 30 + (IF m.structured THEN 8 ELSE -15) + Speed(m, rt)
                 + (IF m.context = "short" THEN -5 ELSE 0) + (IF m.router THEN 2 ELSE 0)
      deep == 30 + (IF m.structured THEN 8 ELSE -10) + (IF m.reasoning THEN 12 ELSE 0)
                 + (CASE m.context = "long" -> 3 [] m.context = "short" -> -10 [] OTHER -> 0)
  IN [fast |-> Clamp(fast), deep |-> Clamp(deep),
      overall |-> Clamp((Clamp(fast) + Clamp(deep)) \div 2)]

Unrated == [fast |-> 0, deep |-> 0, overall |-> 0]

\* Where a model is listed.
Of(list, i) == {n \in DOMAIN list : list[n].id = i}

\* recomputeAssessmentsLocked: of two models of one identifier the last.
Recomputed(list, stats) ==
  [i \in Id |-> IF Of(list, i) = {} THEN Unrated
                ELSE AssessModel(list[Max(Of(list, i))], stats[i])]

\* The first of those rated best for a slot.
Best(p, among, slot) ==
  LET Rate(n) == assessments[p][models[p][n].id][slot]
  IN models[p][Min({n \in among : \A m \in among : Rate(m) <= Rate(n)})]

GetSlotFast(p) ==
  LET able == {n \in DOMAIN models[p] : models[p][n].structured}
  IN IF able = {} THEN models[p][1] ELSE Best(p, able, "fast")

GetSlotDeep(p) == Best(p, DOMAIN models[p], "deep")

GetSlotFree(p) ==
  LET free == {n \in DOMAIN models[p] : models[p][n].free}
      routers == {n \in free : models[p][n].router}
  IN IF routers # {} THEN models[p][Min(routers)]
     ELSE IF free # {} THEN Best(p, free, "overall")
     ELSE GetSlotFast(p)

-----------------------------------------------------------------------------
(* Start, synchronisation and the cache.                                   *)

Init ==
  /\ at = [p \in Process |-> "off"]
  /\ models = [p \in Process |-> << >>]
  /\ metrics = [p \in Process |-> Fresh]
  /\ windows = [p \in Process |-> [i \in Id |-> << >>]]
  /\ assessments = [p \in Process |-> Recomputed(<< >>, Fresh)]
  /\ cache = NoFile /\ tmp = NoFile
  /\ fd = [p \in Process |-> "none"]
  /\ inferences = 0 /\ starts = 0

\* What LoadCacheOrSeeds takes for a catalogue.
Usable(f) == f.there /\ f.whole /\ f.models # << >>

LoadCacheOrSeeds(p) ==
  /\ at[p] = "off" /\ starts < MaxStarts
  /\ starts' = starts + 1
  /\ at' = [at EXCEPT ![p] = "fetch"]
  /\ models' = [models EXCEPT ![p] = IF Usable(cache) THEN cache.models ELSE Seeds]
  /\ metrics' = [metrics EXCEPT ![p] = IF Usable(cache) THEN cache.metrics ELSE Fresh]
  /\ windows' = [windows EXCEPT ![p] = [i \in Id |-> << >>]]
  /\ assessments' = [assessments EXCEPT ![p] = Recomputed(models'[p], metrics'[p])]
  /\ UNCHANGED <<cache, tmp, fd, inferences>>

\* A slip of OpenRouterModels: the list as it is.
OpenRouterModelsOnly == {<< >>} \union Remote

\* What a provider returns is empty when it fails.  OpenRouter's own list comes after
\* the free router, which it may have once more.
OpenRouterModels == {<< >>} \union {<<FreeRouter>> \o l : l \in Remote}
OllamaModels == {<< >>} \union Local

\* A slip of Replaced: the assessments are left as they were.
ReplacedOnly(p, list) ==
  /\ models' = [models EXCEPT ![p] = list]
  /\ UNCHANGED <<metrics, windows, assessments>>

Replaced(p, list) ==
  /\ models' = [models EXCEPT ![p] = list]
  /\ assessments' = [assessments EXCEPT ![p] = Recomputed(list, metrics[p])]
  /\ UNCHANGED <<metrics, windows>>

\* SyncIfExpired, once the cache is older than an hour or was never synchronised: what
\* the providers that answered list, in any order, replaces the catalogue.
SyncIfExpired(p) ==
  /\ at[p] = "fetch"
  /\ \/ \E remote \in OpenRouterModels, here \in OllamaModels :
          /\ remote \o here # << >>
          /\ \/ Replaced(p, remote \o here)
             \/ Replaced(p, here \o remote)
          /\ at' = [at EXCEPT ![p] = "save"]
     \/ at' = [at EXCEPT ![p] = "done"] /\ UNCHANGED memory   \* young, or nobody answered
  /\ UNCHANGED <<cache, tmp, fd, bounds>>

\* SaveCache holds the lock for reading from here on.  WriteFile truncates.
OpenTmp(p) ==
  /\ at[p] = "save"
  /\ at' = [at EXCEPT ![p] = "write"]
  /\ tmp' = Torn
  /\ fd' = [fd EXCEPT ![p] = "tmp"]
  /\ UNCHANGED <<memory, cache, bounds>>

\* Another process that writes to the same file, or did since p opened it, may leave
\* its bytes among these.
WriteTmp(p) ==
  LET both == \/ \E q \in Process \ {p} : fd[q] = fd[p]
              \/ fd[p] = "tmp" /\ tmp.whole
              \/ fd[p] = "cache" /\ cache.whole
  IN /\ at[p] = "write"
     /\ at' = [at EXCEPT ![p] = "rename"]
     /\ \E after \in {[there |-> TRUE, whole |-> TRUE, models |-> models[p],
                       metrics |-> metrics[p]]} \union (IF both THEN {Torn} ELSE {}) :
          /\ tmp' = IF fd[p] = "tmp" THEN after ELSE tmp
          /\ cache' = IF fd[p] = "cache" THEN after ELSE cache
     /\ fd' = [fd EXCEPT ![p] = "none"]
     /\ UNCHANGED <<memory, bounds>>

\* Whoever still writes to the temporary file now writes to the cache.
Renamed ==
  [q \in Process |-> CASE fd[q] = "tmp" -> "cache" [] fd[q] = "cache" -> "gone" [] OTHER -> fd[q]]

Rename(p) ==
  /\ at[p] = "rename"
  /\ at' = [at EXCEPT ![p] = "done"]
  /\ IF tmp.there THEN cache' = tmp /\ tmp' = NoFile /\ fd' = Renamed
     ELSE UNCHANGED <<cache, tmp, fd>>
  /\ UNCHANGED <<memory, bounds>>

\* The interface is closed, or ends where it is.
Stop(p) ==
  /\ at[p] # "off"
  /\ at' = [at EXCEPT ![p] = "off"] /\ fd' = [fd EXCEPT ![p] = "none"]
  /\ models' = [models EXCEPT ![p] = << >>] /\ metrics' = [metrics EXCEPT ![p] = Fresh]
  /\ windows' = [windows EXCEPT ![p] = [i \in Id |-> << >>]]
  /\ assessments' = [assessments EXCEPT ![p] = Recomputed(<< >>, Fresh)]
  /\ UNCHANGED <<cache, tmp, bounds>>

-----------------------------------------------------------------------------
(* Statistics.                                                             *)

\* A percentile by the code's index, from 0.
P95(s) ==
  LET sorted == SortSeq(s, <)
      idx == (Len(s) * 95) \div 100 - 1
  IN sorted[AtLeast(idx, 0) + 1]

Measured(window) ==
  LET avg == FoldSeq(+, 0, window) \div Len(window)
      enough == Len(window) >= Enough
  IN [avg |-> avg,
      p95 |-> IF enough THEN P95(window) ELSE avg,
      state |-> IF enough THEN "observed" ELSE "estimated"]

\* The lock is taken for writing, so not while this process saves its cache.  Of two
\* models of one identifier this rates the first.
RecordInference(p, i, latency) ==
  LET all == Append(windows[p][i], latency)
      window == SubSeq(all, AtLeast(1, Len(all) - Window + 1), Len(all))
  IN /\ at[p] \in {"fetch", "save", "done"} /\ inferences < MaxInferences
     /\ inferences' = inferences + 1
     /\ windows' = [windows EXCEPT ![p][i] = window]
     /\ metrics' = [metrics EXCEPT ![p][i] = Measured(window)]
     /\ assessments' = [assessments EXCEPT ![p][i] =
          LET of == Of(models[p], i)
          IN IF of = {} THEN @ ELSE AssessModel(models[p][Min(of)], metrics'[p][i])]
     /\ UNCHANGED <<at, models, cache, tmp, fd, starts>>

\* Requests go to a model of a slot, or to one the operator assigned.
Ask(p) ==
  \E i \in Asked, latency \in Latency : RecordInference(p, i, latency)

Next ==
  \E p \in Process :
    \/ LoadCacheOrSeeds(p) \/ SyncIfExpired(p)
    \/ OpenTmp(p) \/ WriteTmp(p) \/ Rename(p) \/ Stop(p) \/ Ask(p)

Spec == Init /\ [][Next]_vars

-----------------------------------------------------------------------------
(* Properties.                                                             *)

Running(p) == at[p] # "off"

\* The ratings models are chosen by are those of the catalogue and the statistics of
\* the moment, over synchronisations that drop a model and bring it back, requests
\* to models that are not listed, and restarts.
\* A model listed twice is rated by one of its entries, which depends on what came last.
AssessmentsCurrent ==
  \A p \in Process, i \in Id :
    LET of == Of(models[p], i)
    IN assessments[p][i] \in (IF of = {} THEN {Unrated}
                              ELSE {AssessModel(models[p][n], metrics[p][i]) : n \in of})

\* There is always a free model to fall back on, whichever providers answered and
\* whatever other processes, or crashes, made of the cache: GetSlotFree finds it and
\* never turns to GetSlotFast, for which it would take the lock a second time.
FreeSlotIsFree == \A p \in Process : Running(p) => GetSlotFree(p).free
=============================================================================
