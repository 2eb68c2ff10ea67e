--------------------------- MODULE CatalogProofs ---------------------------
(***************************************************************************)
(* The catalogue of models, for any lists the providers may answer with,   *)
(* any number of interfaces on one host and of requests: the ratings are   *)
(* those of the statistics of the moment, and a free model can be had.     *)
(***************************************************************************)
EXTENDS ModelCatalog, SequenceTheorems, WellFoundedInduction, TLAPS

Place == {"off", "fetch", "save", "write", "rename", "done"}

IsTable(table) == table = [i \in Id |-> table[i]]

\* Each identifier is rated as one of its entries, by the statistics given.
RatedBy(list, stats, ratings) ==
  \A i \in Id : ratings[i] \in (IF Of(list, i) = {} THEN {Unrated}
                               ELSE {AssessModel(list[n], stats[i]) : n \in Of(list, i)})

-----------------------------------------------------------------------------
(* The inductive invariant.                                                *)

\* What a process has in memory is a catalogue, with tables that fit it.
MemoryTyped ==
  /\ at \in [Process -> Place] /\ models \in [Process -> Seq(Known)]
  /\ metrics = [p \in Process |-> metrics[p]] /\ windows = [p \in Process |-> windows[p]]
  /\ assessments = [p \in Process |-> assessments[p]]
  /\ \A p \in Process : IsTable(metrics[p]) /\ IsTable(assessments[p])

\* What a file may hold: any catalogue that was written whole has a free model, so that
\* it does not matter to the one who reads it who wrote it, or when.
Sound(f) ==
  f.models \in Seq(Known) /\ IsTable(f.metrics) /\ (f.whole => HasFree(f.models))
FilesSound == Sound(cache) /\ Sound(tmp)

Rated == \A p \in Process : RatedBy(models[p], metrics[p], assessments[p])
FreeAtHand == \A p \in Process : Running(p) => HasFree(models[p])

IInv == MemoryTyped /\ FilesSound /\ Rated /\ FreeAtHand

-----------------------------------------------------------------------------
(* Lists and ratings.                                                      *)

\* A set of numbers that is not empty has a least.
LEMMA MinIsLeast ==
  ASSUME NEW S \in SUBSET Nat, S # {}
  PROVE  Min(S) \in S /\ \A n \in S : Min(S) <= n
<1> DEFINE R == OpToRel(<, Nat)
<1>1. \A m, n \in Nat : m < n => <<m, n>> \in R
  BY DEF OpToRel
<1>2. \E m \in S : \A n \in S : <<n, m>> \notin R
  BY NatLessThanWellFounded, WFMin
<1> HIDE DEF R
<1>3. PICK m \in S : \A n \in S : <<n, m>> \notin R
  BY <1>2
<1>4. \A n \in S : ~(n < m)
  BY <1>1, <1>3
<1>5. \A n \in S : m <= n
  BY <1>4
<1> QED BY <1>5 DEF Min

\* A bounded one has a greatest: the one that is the least below the bound.
LEMMA MaxIsGreatest ==
  ASSUME NEW S \in SUBSET Nat, S # {}, NEW b \in Nat, \A n \in S : n <= b
  PROVE  Max(S) \in S /\ \A n \in S : n <= Max(S)
<1> DEFINE T == {b - n : n \in S}
<1>0. PICK s \in S : TRUE
  OBVIOUS
<1>1. T \in SUBSET Nat /\ b - s \in T
  OBVIOUS
<1>2. PICK d \in T : \A e \in T : d <= e
  BY <1>1, MinIsLeast
<1>3. PICK m \in S : d = b - m
  OBVIOUS
<1>4. ASSUME NEW k \in S PROVE m >= k
  <2>1. b - k \in T
    OBVIOUS
  <2>2. b - m <= b - k
    BY <1>2, <1>3, <2>1
  <2> HIDE DEF T
  <2> QED BY <2>2
<1>5. Max(S) \in S /\ \A n \in S : Max(S) >= n
  BY <1>4 DEF Max
<1> QED BY <1>5

\* A score is between 1 and 5, in tenths, whatever was measured.
LEMMA ScoresClamped ==
  ASSUME NEW m, NEW rt, NEW slot \in {"fast", "deep", "overall"}
  PROVE  AssessModel(m, rt)[slot] \in 10 .. 50
<1>1. \A v \in Int : Clamp(v) \in 10 .. 50
  BY DEF Clamp
<1>2. Speed(m, rt) \in Int
  BY DEF Speed
<1> DEFINE speed == Speed(m, rt)
           fast == 30 + (IF m.structured THEN 8 ELSE -15) + speed
                    + (IF m.context = "short" THEN -5 ELSE 0) + (IF m.router THEN 2 ELSE 0)
           deep == 30 + (IF m.structured THEN 8 ELSE -10) + (IF m.reasoning THEN 12 ELSE 0)
                    + (CASE m.context = "long" -> 3 [] m.context = "short" -> -10 [] OTHER -> 0)
           overall == (Clamp(fast) + Clamp(deep)) \div 2
<1>3. AssessModel(m, rt) = [fast |-> Clamp(fast), deep |-> Clamp(deep), overall |-> Clamp(overall)]
  BY DEF AssessModel
<1>4. fast \in Int
  <2> HIDE DEF speed
  <2> QED BY <1>2 DEF speed
<1>5. deep \in Int
  OBVIOUS
<1> HIDE DEF fast, deep
<1>6. Clamp(fast) \in 10 .. 50 /\ Clamp(deep) \in 10 .. 50
  BY <1>1, <1>4, <1>5
<1>7. overall \in Int
  BY <1>6
<1> HIDE DEF overall
<1>8. Clamp(overall) \in 10 .. 50
  BY <1>1, <1>7
<1> QED BY <1>3, <1>6, <1>8

\* Rating everything anew rates it by what it is given.
LEMMA RecomputedRates ==
  ASSUME NEW list \in Seq(Known), NEW stats
  PROVE  RatedBy(list, stats, Recomputed(list, stats)) /\ IsTable(Recomputed(list, stats))
<1>1. IsTable(Recomputed(list, stats))
  BY DEF Recomputed, IsTable
<1>2. ASSUME NEW i \in Id, Of(list, i) # {} PROVE Max(Of(list, i)) \in Of(list, i)
  <2>1. Of(list, i) \in SUBSET Nat /\ Len(list) \in Nat /\ \A n \in Of(list, i) : n <= Len(list)
    BY DEF Of
  <2> QED BY <2>1, <1>2, MaxIsGreatest
<1> QED BY <1>1, <1>2 DEF Recomputed, RatedBy

\* The first of those rated best exists.
LEMMA BestExists ==
  ASSUME NEW S \in SUBSET Nat, S # {}, NEW rate \in [S -> 10 .. 50]
  PROVE  Min({n \in S : \A m \in S : rate[m] <= rate[n]}) \in S
<1> DEFINE rates == {rate[n] : n \in S}
           best == {n \in S : \A m \in S : rate[m] <= rate[n]}
<1>1. \A n \in S : rate[n] \in Nat /\ rate[n] <= 50
  OBVIOUS
<1>2. rates # {}
  OBVIOUS
<1>3. rates \in SUBSET Nat /\ \A r \in rates : r <= 50
  BY <1>1
<1>4. Max(rates) \in rates /\ \A r \in rates : r <= Max(rates)
  <2> HIDE DEF rates
  <2> QED BY <1>2, <1>3, MaxIsGreatest
<1>5. PICK n \in S : rate[n] = Max(rates)
  BY <1>4
<1>6. n \in best /\ best \in SUBSET Nat
  BY <1>4, <1>5
<1>7. Min(best) \in best
  <2> HIDE DEF best
  <2> QED BY <1>6, MinIsLeast
<1> QED BY <1>7

\* The one found best is one of those among which it was looked for.
LEMMA BestIsAmong ==
  ASSUME NEW p \in Process, NEW slot \in {"fast", "deep", "overall"},
         models[p] \in Seq(Known), RatedBy(models[p], metrics[p], assessments[p]),
         NEW among \in SUBSET DOMAIN models[p], among # {}
  PROVE  \E n \in among : Best(p, among, slot) = models[p][n]
<1> DEFINE rate == [n \in among |-> assessments[p][models[p][n].id][slot]]
           best == {n \in among : \A m \in among : rate[m] <= rate[n]}
<1>1. ASSUME NEW n \in among
      PROVE  assessments[p][models[p][n].id][slot] \in 10 .. 50
  <2>1. models[p][n] \in Known
    OBVIOUS
  <2>2. models[p][n].id \in Id /\ n \in Of(models[p], models[p][n].id)
    BY <2>1 DEF Id, Of
  <2>3. \E k \in Of(models[p], models[p][n].id) :
          assessments[p][models[p][n].id]
            = AssessModel(models[p][k], metrics[p][models[p][n].id])
    BY <2>2 DEF RatedBy
  <2> QED BY <2>3, ScoresClamped
<1>2. Best(p, among, slot) = models[p][Min(best)]
  <2>1. best = {n \in among : \A m \in among :
                 assessments[p][models[p][m].id][slot] <= assessments[p][models[p][n].id][slot]}
    OBVIOUS
  <2> HIDE DEF best
  <2> QED BY <2>1 DEF Best
<1>3. rate \in [among -> 10 .. 50] /\ among \in SUBSET Nat
  <2>1. among \in SUBSET Nat
    OBVIOUS
  <2> QED BY <1>1, <2>1
<1>4. Min(best) \in among
  <2> HIDE DEF rate
  <2> QED BY <1>3, BestExists
<1> QED BY <1>2, <1>4

\* Of a catalogue with a free model the slot is one, and GetSlotFast is not asked.
LEMMA SlotOfFree ==
  ASSUME NEW p \in Process, models[p] \in Seq(Known),
         RatedBy(models[p], metrics[p], assessments[p]), HasFree(models[p])
  PROVE  GetSlotFree(p).free
<1> DEFINE free == {n \in DOMAIN models[p] : models[p][n].free}
           routers == {n \in free : models[p][n].router}
<1>1. free # {}
  BY DEF HasFree
<1>2. CASE routers # {}
  <2>1. routers \in SUBSET Nat
    OBVIOUS
  <2>2. Min(routers) \in routers
    <3> HIDE DEF routers
    <3> QED BY <1>2, <2>1, MinIsLeast
  <2> QED BY <1>2, <2>2 DEF GetSlotFree
<1>3. CASE routers = {}
  <2>1. PICK n \in free : Best(p, free, "overall") = models[p][n]
    BY <1>1, BestIsAmong
  <2> QED BY <1>1, <1>3, <2>1 DEF GetSlotFree
<1> QED BY <1>2, <1>3

-----------------------------------------------------------------------------
(* The steps.                                                              *)

InMemory == MemoryTyped /\ Rated /\ FreeAtHand

\* A process goes on with a catalogue that it rates anew.
LEMMA MemoryRenewed ==
  ASSUME InMemory, NEW p \in Process, NEW place \in Place, NEW list \in Seq(Known),
         NEW stats, IsTable(stats), place = "off" \/ HasFree(list),
         at' = [at EXCEPT ![p] = place], models' = [models EXCEPT ![p] = list],
         metrics' = [metrics EXCEPT ![p] = stats],
         windows' = [q \in Process |-> windows'[q]],
         assessments' = [assessments EXCEPT ![p] = Recomputed(list, stats)]
  PROVE  InMemory'
<1>1. /\ at \in [Process -> Place] /\ models \in [Process -> Seq(Known)]
      /\ metrics = [q \in Process |-> metrics[q]]
      /\ assessments = [q \in Process |-> assessments[q]]
      /\ \A q \in Process : IsTable(metrics[q]) /\ IsTable(assessments[q])
  BY DEF InMemory, MemoryTyped
<1>2. RatedBy(list, stats, Recomputed(list, stats)) /\ IsTable(Recomputed(list, stats))
  BY RecomputedRates
<1>3. /\ at'[p] = place /\ models'[p] = list /\ metrics'[p] = stats
      /\ assessments'[p] = Recomputed(list, stats)
  BY <1>1
<1>4. \A q \in Process \ {p} : /\ at'[q] = at[q] /\ models'[q] = models[q]
                              /\ metrics'[q] = metrics[q] /\ assessments'[q] = assessments[q]
  BY <1>1
<1>5. MemoryTyped'
  <2>1. at' \in [Process -> Place] /\ models' \in [Process -> Seq(Known)]
    BY <1>1
  <2>2. /\ metrics' = [q \in Process |-> metrics'[q]]
        /\ assessments' = [q \in Process |-> assessments'[q]]
    BY <1>1
  <2>3. ASSUME NEW q \in Process PROVE IsTable(metrics'[q]) /\ IsTable(assessments'[q])
    BY <1>1, <1>2, <1>3, <1>4
  <2> QED BY <2>1, <2>2, <2>3 DEF MemoryTyped
<1>6. Rated'
  <2>1. ASSUME NEW q \in Process PROVE RatedBy(models'[q], metrics'[q], assessments'[q])
    BY <1>2, <1>3, <1>4 DEF InMemory, Rated
  <2> QED BY <2>1 DEF Rated
<1>7. FreeAtHand'
  <2>1. ASSUME NEW q \in Process, at'[q] # "off" PROVE HasFree(models'[q])
    BY <1>3, <1>4, <2>1 DEF InMemory, FreeAtHand, Running
  <2> QED BY <2>1 DEF FreeAtHand, Running
<1> QED BY <1>5, <1>6, <1>7 DEF InMemory

\* A process that runs goes to another place with the catalogue it has.
LEMMA MemoryKept ==
  ASSUME InMemory, NEW p \in Process, NEW place \in Place, at[p] # "off",
         at' = [at EXCEPT ![p] = place], UNCHANGED memory
  PROVE  InMemory'
<1>1. UNCHANGED <<models, metrics, windows, assessments>>
  BY DEF memory
<1>2. at' \in [Process -> Place] /\ \A q \in Process : at'[q] # "off" => at[q] # "off"
  BY DEF InMemory, MemoryTyped
<1>3. MemoryTyped'
  BY <1>1, <1>2 DEF InMemory, MemoryTyped
<1>4. Rated'
  BY <1>1 DEF InMemory, Rated
<1>5. FreeAtHand'
  BY <1>1, <1>2 DEF InMemory, FreeAtHand, Running
<1> QED BY <1>3, <1>4, <1>5 DEF InMemory

LEMMA InitCatalog == Init => IInv
<1> SUFFICES ASSUME Init PROVE IInv
  OBVIOUS
<1>1. << >> \in Seq(Known) /\ IsTable(Fresh)
  BY DEF Fresh, IsTable
<1>2. FilesSound
  BY <1>1 DEF Init, NoFile, FilesSound, Sound
<1>3. RatedBy(<< >>, Fresh, Recomputed(<< >>, Fresh)) /\ IsTable(Recomputed(<< >>, Fresh))
  BY <1>1, RecomputedRates
<1>4. MemoryTyped
  BY <1>1, <1>3 DEF Init, MemoryTyped, Place
<1>5. Rated
  BY <1>3 DEF Init, Rated
<1>6. FreeAtHand
  BY DEF Init, FreeAtHand, Running
<1> QED BY <1>2, <1>4, <1>5, <1>6 DEF IInv

\* What a process starts with has a free model, be it a file's or the seeds.
LEMMA LoadStep ==
  ASSUME IInv, NEW p \in Process, LoadCacheOrSeeds(p)
  PROVE  IInv'
<1>1. InMemory /\ FilesSound
  BY DEF IInv, InMemory
<1>2. PICK list, stats :
        /\ list = IF Usable(cache) THEN cache.models ELSE Seeds
        /\ stats = IF Usable(cache) THEN cache.metrics ELSE Fresh
  OBVIOUS
<1>3. list \in Seq(Known) /\ HasFree(list)
  <2>1. Seeds \in Seq(Known) /\ HasFree(Seeds)
    BY ListsAssumption, FreeAssumption
  <2>2. Usable(cache) => cache.models \in Seq(Known) /\ HasFree(cache.models)
    BY <1>1 DEF FilesSound, Sound, Usable
  <2> QED BY <1>2, <2>1, <2>2
<1>4. IsTable(stats)
  <2>1. IsTable(Fresh)
    BY DEF IsTable, Fresh
  <2> QED BY <1>1, <1>2, <2>1 DEF FilesSound, Sound
<1>5. /\ at' = [at EXCEPT ![p] = "fetch"]
      /\ models' = [models EXCEPT ![p] = list] /\ metrics' = [metrics EXCEPT ![p] = stats]
      /\ windows' = [windows EXCEPT ![p] = [i \in Id |-> << >>]]
      /\ assessments' = [assessments EXCEPT ![p] = Recomputed(models'[p], metrics'[p])]
      /\ UNCHANGED <<cache, tmp>>
  BY <1>2 DEF LoadCacheOrSeeds
<1>6. /\ models'[p] = list /\ metrics'[p] = stats
      /\ windows' = [q \in Process |-> windows'[q]]
  BY <1>1, <1>5 DEF InMemory, MemoryTyped
<1>7. InMemory'
  <2>1. "fetch" \in Place
    BY DEF Place
  <2> QED BY <1>1, <1>3, <1>4, <1>5, <1>6, <2>1, MemoryRenewed
<1>8. FilesSound'
  BY <1>1, <1>5 DEF FilesSound
<1> QED BY <1>7, <1>8 DEF IInv, InMemory

\* What the providers answer is a catalogue with a free model, if it is one at all.
LEMMA Answers ==
  ASSUME NEW remote \in OpenRouterModels, NEW here \in OllamaModels, remote \o here # << >>
  PROVE  /\ remote \o here \in Seq(Known) /\ HasFree(remote \o here)
         /\ here \o remote \in Seq(Known) /\ HasFree(here \o remote)
<1>1. \A l \in Remote \union Local : l \in Seq(Known)
  BY ListsAssumption
<1>2. FreeRouter \in Known
  BY DEF Known
<1>3. remote \in Seq(Known) /\ (remote = << >> \/ HasFree(remote))
  <2>1. CASE remote = << >>
    BY <2>1
  <2>2. CASE remote # << >>
    <3>1. PICK l \in Remote : remote = <<FreeRouter>> \o l
      BY <2>2 DEF OpenRouterModels
    <3>2. l \in Seq(Known)
      BY <1>1
    <3>3. remote \in Seq(Known) /\ 1 \in DOMAIN remote /\ remote[1] = FreeRouter
      BY <1>2, <3>1, <3>2
    <3> QED BY <3>3, FreeAssumption DEF HasFree
  <2> QED BY <2>1, <2>2
<1>4. here \in Seq(Known) /\ (here = << >> \/ HasFree(here))
  <2>1. CASE here = << >>
    BY <2>1
  <2>2. CASE here # << >>
    <3>1. here \in Local /\ here \in Seq(Known)
      BY <1>1, <2>2 DEF OllamaModels
    <3>2. 1 \in DOMAIN here
      BY <2>2, <3>1
    <3> QED BY <3>1, <3>2, FreeAssumption DEF HasFree
  <2> QED BY <2>1, <2>2
<1>5. ASSUME NEW a \in Seq(Known), NEW b \in Seq(Known),
             a = << >> \/ HasFree(a), b = << >> \/ HasFree(b), a # << >> \/ b # << >>
      PROVE  a \o b \in Seq(Known) /\ HasFree(a \o b)
  <2>1. a \o b \in Seq(Known)
    OBVIOUS
  <2>2. CASE HasFree(a)
    <3>1. PICK n \in DOMAIN a : a[n].free
      BY <2>2 DEF HasFree
    <3>2. n \in DOMAIN (a \o b) /\ (a \o b)[n] = a[n]
      OBVIOUS
    <3> QED BY <2>1, <3>1, <3>2 DEF HasFree
  <2>3. CASE a = << >> /\ HasFree(b)
    <3>1. a \o b = b
      BY <2>3
    <3> QED BY <2>1, <2>3, <3>1
  <2> QED BY <1>5, <2>2, <2>3
<1>6. remote # << >> \/ here # << >>
  OBVIOUS
<1> QED BY <1>3, <1>4, <1>5, <1>6

LEMMA SyncStep ==
  ASSUME IInv, NEW p \in Process, SyncIfExpired(p)
  PROVE  IInv'
<1>1. InMemory /\ FilesSound /\ at[p] # "off"
  BY DEF IInv, InMemory, SyncIfExpired
<1>2. FilesSound'
  BY <1>1 DEF SyncIfExpired, FilesSound
<1>3. ASSUME NEW list \in Seq(Known), HasFree(list), Replaced(p, list),
             at' = [at EXCEPT ![p] = "save"]
      PROVE  InMemory'
  <2>1. /\ metrics = [q \in Process |-> metrics[q]] /\ windows = [q \in Process |-> windows[q]]
        /\ IsTable(metrics[p])
    BY <1>1 DEF InMemory, MemoryTyped
  <2>2. /\ metrics' = [metrics EXCEPT ![p] = metrics[p]]
        /\ windows' = [q \in Process |-> windows'[q]]
        /\ models' = [models EXCEPT ![p] = list]
        /\ assessments' = [assessments EXCEPT ![p] = Recomputed(list, metrics[p])]
    BY <1>3, <2>1 DEF Replaced
  <2>3. "save" \in Place
    BY DEF Place
  <2> QED BY <1>1, <1>3, <2>1, <2>2, <2>3, MemoryRenewed
<1>4. CASE at' = [at EXCEPT ![p] = "done"] /\ UNCHANGED memory
  <2>1. "done" \in Place
    BY DEF Place
  <2> QED BY <1>1, <1>2, <1>4, <2>1, MemoryKept DEF IInv, InMemory
<1>5. CASE \E remote \in OpenRouterModels, here \in OllamaModels :
             /\ remote \o here # << >>
             /\ Replaced(p, remote \o here) \/ Replaced(p, here \o remote)
             /\ at' = [at EXCEPT ![p] = "save"]
  <2>1. InMemory'
    BY <1>3, <1>5, Answers
  <2> QED BY <1>2, <2>1 DEF IInv, InMemory
<1> QED BY <1>4, <1>5 DEF SyncIfExpired

\* The three steps of a save leave in both files what is a catalogue that this process
\* has, the other file, or nothing whole.
LEMMA SaveStep ==
  ASSUME IInv, NEW p \in Process, OpenTmp(p) \/ WriteTmp(p) \/ Rename(p)
  PROVE  IInv'
<1>1. InMemory /\ FilesSound
  BY DEF IInv, InMemory
<1>2. Sound(NoFile) /\ Sound(Torn)
  <2>1. << >> \in Seq(Known) /\ IsTable(Fresh)
    BY DEF Fresh, IsTable
  <2> QED BY <2>1 DEF NoFile, Torn, Sound
<1>3. PICK place \in Place : at[p] # "off" /\ at' = [at EXCEPT ![p] = place] /\ UNCHANGED memory
  BY DEF OpenTmp, WriteTmp, Rename, Place
<1>4. InMemory'
  BY <1>1, <1>3, MemoryKept
<1>5. CASE OpenTmp(p)
  <2>1. cache' = cache /\ tmp' = Torn
    BY <1>5 DEF OpenTmp
  <2> QED BY <1>1, <1>2, <1>4, <2>1 DEF FilesSound, IInv, InMemory
<1>6. CASE WriteTmp(p)
  <2>1. PICK after :
          /\ \/ after = [there |-> TRUE, whole |-> TRUE, models |-> models[p], metrics |-> metrics[p]]
             \/ after = Torn
          /\ tmp' = IF fd[p] = "tmp" THEN after ELSE tmp
          /\ cache' = IF fd[p] = "cache" THEN after ELSE cache
    BY <1>6 DEF WriteTmp
  <2>2. models[p] \in Seq(Known) /\ IsTable(metrics[p]) /\ HasFree(models[p])
    BY <1>1, <1>3 DEF InMemory, MemoryTyped, FreeAtHand, Running
  <2>3. Sound(after)
    BY <1>2, <2>1, <2>2 DEF Sound
  <2> QED BY <1>1, <1>4, <2>1, <2>3 DEF FilesSound, IInv, InMemory
<1>7. CASE Rename(p)
  <2>1. cache' \in {cache, tmp} /\ tmp' \in {tmp, NoFile}
    BY <1>7 DEF Rename
  <2> QED BY <1>1, <1>2, <1>4, <2>1 DEF FilesSound, IInv, InMemory
<1> QED BY <1>5, <1>6, <1>7

LEMMA StopStep ==
  ASSUME IInv, NEW p \in Process, Stop(p)
  PROVE  IInv'
<1>1. InMemory /\ FilesSound
  BY DEF IInv, InMemory
<1>2. << >> \in Seq(Known) /\ IsTable(Fresh) /\ "off" \in Place
  BY DEF Fresh, IsTable, Place
<1>3. /\ at' = [at EXCEPT ![p] = "off"] /\ models' = [models EXCEPT ![p] = << >>]
      /\ metrics' = [metrics EXCEPT ![p] = Fresh]
      /\ windows' = [windows EXCEPT ![p] = [i \in Id |-> << >>]]
      /\ assessments' = [assessments EXCEPT ![p] = Recomputed(<< >>, Fresh)]
      /\ UNCHANGED <<cache, tmp>>
  BY DEF Stop
<1>4. windows' = [q \in Process |-> windows'[q]]
  BY <1>1, <1>3 DEF InMemory, MemoryTyped
<1>5. InMemory'
  BY <1>1, <1>2, <1>3, <1>4, MemoryRenewed
<1>6. FilesSound'
  BY <1>1, <1>3 DEF FilesSound
<1> QED BY <1>5, <1>6 DEF IInv, InMemory

\* A request changes the statistics of one identifier and its rating alone.
LEMMA RecordStep ==
  ASSUME IInv, NEW p \in Process, NEW i \in Id, NEW latency, RecordInference(p, i, latency)
  PROVE  IInv'
<1>1. InMemory /\ FilesSound /\ models[p] \in Seq(Known)
  BY DEF IInv, InMemory, MemoryTyped
<1>2. PICK window, measured :
        /\ windows' = [windows EXCEPT ![p][i] = window]
        /\ metrics' = [metrics EXCEPT ![p][i] = measured]
  BY DEF RecordInference
<1>3. UNCHANGED <<at, models, cache, tmp>>
  BY DEF RecordInference
<1>4. /\ metrics = [q \in Process |-> metrics[q]] /\ windows = [q \in Process |-> windows[q]]
      /\ assessments = [q \in Process |-> assessments[q]]
      /\ \A q \in Process : IsTable(metrics[q]) /\ IsTable(assessments[q])
  BY <1>1 DEF InMemory, MemoryTyped
<1>5. /\ metrics' = [q \in Process |-> metrics'[q]] /\ windows' = [q \in Process |-> windows'[q]]
      /\ \A q \in Process \ {p} : metrics'[q] = metrics[q]
      /\ metrics'[p] = [metrics[p] EXCEPT ![i] = measured]
  BY <1>2, <1>4
<1>6. IsTable(metrics'[p]) /\ metrics'[p][i] = measured
      /\ \A j \in Id \ {i} : metrics'[p][j] = metrics[p][j]
  BY <1>4, <1>5 DEF IsTable
<1>7. PICK rating :
        /\ assessments' = [assessments EXCEPT ![p][i] = rating]
        /\ rating = IF Of(models[p], i) = {} THEN assessments[p][i]
                    ELSE AssessModel(models[p][Min(Of(models[p], i))], measured)
  <2>1. assessments' = [assessments EXCEPT ![p][i] =
                          IF Of(models[p], i) = {} THEN assessments[p][i]
                          ELSE AssessModel(models[p][Min(Of(models[p], i))], metrics'[p][i])]
    BY DEF RecordInference
  <2> QED BY <1>6, <2>1
<1>8. /\ assessments' = [q \in Process |-> assessments'[q]]
      /\ \A q \in Process \ {p} : assessments'[q] = assessments[q]
      /\ assessments'[p] = [assessments[p] EXCEPT ![i] = rating]
  BY <1>4, <1>7
<1>9. IsTable(assessments'[p]) /\ assessments'[p][i] = rating
      /\ \A j \in Id \ {i} : assessments'[p][j] = assessments[p][j]
  BY <1>4, <1>8 DEF IsTable
<1>10. MemoryTyped'
  <2>1. ASSUME NEW q \in Process PROVE IsTable(metrics'[q]) /\ IsTable(assessments'[q])
    BY <1>4, <1>5, <1>6, <1>8, <1>9
  <2> QED BY <1>1, <1>3, <1>5, <1>8, <2>1 DEF InMemory, MemoryTyped
<1>11. RatedBy(models[p], metrics'[p], assessments'[p])
  <2>1. RatedBy(models[p], metrics[p], assessments[p])
    BY <1>1 DEF InMemory, Rated
  <2>2. rating \in (IF Of(models[p], i) = {} THEN {Unrated}
                   ELSE {AssessModel(models[p][n], measured) : n \in Of(models[p], i)})
    <3>1. Of(models[p], i) \in SUBSET Nat
      BY <1>1 DEF Of
    <3>2. Of(models[p], i) # {} => Min(Of(models[p], i)) \in Of(models[p], i)
      BY <3>1, MinIsLeast
    <3>3. Of(models[p], i) = {} => assessments[p][i] = Unrated
      BY <2>1 DEF RatedBy
    <3> QED BY <1>7, <3>2, <3>3
  <2>3. ASSUME NEW j \in Id, j # i
        PROVE  assessments'[p][j] \in
                 (IF Of(models[p], j) = {} THEN {Unrated}
                  ELSE {AssessModel(models[p][n], metrics'[p][j]) : n \in Of(models[p], j)})
    BY <1>6, <1>9, <2>1, <2>3 DEF RatedBy
  <2> QED BY <1>6, <1>9, <2>2, <2>3 DEF RatedBy
<1>12. Rated'
  <2>1. ASSUME NEW q \in Process, q # p PROVE RatedBy(models'[q], metrics'[q], assessments'[q])
    BY <1>1, <1>3, <1>5, <1>8, <2>1 DEF InMemory, Rated
  <2>2. RatedBy(models'[p], metrics'[p], assessments'[p])
    BY <1>3, <1>11
  <2> QED BY <2>1, <2>2 DEF Rated
<1>13. FreeAtHand' /\ FilesSound'
  BY <1>1, <1>3 DEF InMemory, FreeAtHand, Running, FilesSound
<1> QED BY <1>10, <1>12, <1>13 DEF IInv

LEMMA StepCatalog == IInv /\ [Next]_vars => IInv'
<1> SUFFICES ASSUME IInv, [Next]_vars PROVE IInv'
  OBVIOUS
<1>1. ASSUME NEW p \in Process, Ask(p) PROVE IInv'
  <2>1. \A i \in Asked : i \in Id
    BY DEF Id
  <2> QED BY <1>1, <2>1, RecordStep DEF Ask
<1>2. CASE UNCHANGED vars
  <2>1. UNCHANGED <<at, models, metrics, windows, assessments, cache, tmp>>
    BY <1>2 DEF vars, memory
  <2>2. MemoryTyped' /\ FilesSound'
    BY <2>1 DEF IInv, MemoryTyped, FilesSound
  <2>3. Rated' /\ FreeAtHand'
    BY <2>1 DEF IInv, Rated, FreeAtHand, Running
  <2> QED BY <2>2, <2>3 DEF IInv
<1> QED BY <1>1, <1>2, LoadStep, SyncStep, SaveStep, StopStep DEF Next

-----------------------------------------------------------------------------
(* The theorems.                                                           *)

\* In every interface, at every moment, a model is rated by an entry of its own in the
\* catalogue and by the statistics of the moment: synchronisations, restarts, requests to
\* models that are not listed and the files of other processes leave none behind
\* (catalog_service.go, the three places that update cs.assessments).
THEOREM RatingsFollow == Spec => []AssessmentsCurrent
<1>1. IInv => AssessmentsCurrent
  BY DEF IInv, Rated, RatedBy, AssessmentsCurrent
<1> QED BY <1>1, InitCatalog, StepCatalog, PTL DEF Spec

\* GetSlotFree always returns a free model, and so never asks GetSlotFast for the lock it
\* holds, whichever providers answer and whatever processes that share the cache file, or
\* end in the middle, make of it (catalog_service.go, GetSlotFree, LoadCacheOrSeeds).
THEOREM FreeModelFound == Spec => []FreeSlotIsFree
<1>1. IInv => FreeSlotIsFree
  <2> SUFFICES ASSUME IInv, NEW p \in Process, Running(p) PROVE GetSlotFree(p).free
    BY DEF FreeSlotIsFree
  <2>1. /\ models[p] \in Seq(Known) /\ HasFree(models[p])
        /\ RatedBy(models[p], metrics[p], assessments[p])
    BY DEF IInv, MemoryTyped, Rated, FreeAtHand
  <2> QED BY <2>1, SlotOfFree
<1> QED BY <1>1, InitCatalog, StepCatalog, PTL DEF Spec
=============================================================================
