-------------------------- MODULE CollectorProofs --------------------------
(***************************************************************************)
(* The collector, for any containers, traffic, delays and collections at a *)
(* time: no rate is above what a container can send.                       *)
(***************************************************************************)
EXTENDS DockerCollector, SequenceTheorems, FiniteSetTheorems, TLAPS

Nets == SUBSET UNION {Meta[c].networks : c \in Container}
Sample == [bytes : Nat, at : Nat \union {-1}]
Told ==
  [name : Container, running : BOOLEAN, networks : Nets,
   aliases : {Meta[c].aliases : c \in Container} \union {Meta[c].listed : c \in Container},
   tokens : {Meta[c].tokens : c \in Container} \union {{}},
   ports : {Meta[c].ports : c \in Container}, egress : [bytes : Nat, elapsed : Nat]]
Run ==
  [at : {"idle", "next", "read"}, begun : Nat, todo : Seq(Container), ran : SUBSET Container,
   networks : [Container -> Nets] \union {<< >>}, read : Nat, found : Seq(Told)]

-----------------------------------------------------------------------------
(* Types.                                                                  *)

HostTyped ==
  /\ order \in Seq(Container) /\ running \in [Container -> BOOLEAN]
  /\ networks \in [Container -> Nets] /\ sent \in [Container -> Nat] /\ clock \in Nat
  /\ overlapped \in BOOLEAN
RunsTyped ==
  /\ prevStates \in [Container -> Sample]
  /\ runs \in [Collection -> Run]
  /\ \A k \in Collection :
       /\ runs[k].at # "idle" => runs[k].networks \in [Container -> Nets]
       /\ runs[k].at = "read" => runs[k].todo # << >>
FleetTyped == fleet \in Seq(Told)
Typed == HostTyped /\ RunsTyped /\ FleetTyped

-----------------------------------------------------------------------------
(* What a container sends.                                                 *)

\* The most a container sends in t instants.
Most(t) == Peak * t

LEMMA MostFacts ==
  /\ \A t \in Int : Most(t) \in Int /\ Most(t + 1) = Most(t) + Peak
  /\ \A t, u \in Int : t <= u => Most(t) <= Most(u)
  /\ \A t \in Nat : Most(t) >= 0
  <1>1. Peak \in Nat
    BY CollectorAssumption
  <1>2. \A t \in Int : Most(t) \in Int /\ Most(t + 1) = Most(t) + Peak
    BY <1>1 DEF Most
  <1>3. \A t \in Nat : Most(t) >= 0
    BY <1>1 DEF Most
  <1>4. ASSUME NEW t \in Int, NEW u \in Int, t <= u PROVE Most(t) <= Most(u)
    <2>1. u - t \in Nat
      BY <1>4
    <2>2. Peak * (u - t) = Peak * u - Peak * t
      BY <1>1, <1>4
    <2>3. Peak * (u - t) >= 0
      BY <1>3, <2>1 DEF Most
    <2>4. QED
      BY <1>1, <2>2, <2>3 DEF Most
  <1>5. QED
    BY <1>2, <1>3, <1>4

-----------------------------------------------------------------------------
(* The inductive invariant.                                                *)

Reads(k, c) == runs[k].at = "read" /\ Head(runs[k].todo) = c

\* Not one of the exceptions: collections overlapped and c was restarted.
Sound(c) == ~(overlapped /\ c \in restarted)

OnTime ==
  /\ \A k \in Collection : runs[k].at # "idle" =>
       runs[k].begun <= clock /\ clock <= runs[k].begun + MaxDelay
  /\ \A c \in Container : prevStates[c].at <= clock

OneAtATime ==
  ~overlapped => \A k, q \in Collection :
                   runs[k].at # "idle" /\ runs[q].at # "idle" => k = q

\* A sample is read after the time that is written on it.
Sampled ==
  \A c \in Container : prevStates[c].at >= 0 =>
    sent[c] <= prevStates[c].bytes + Most(clock - prevStates[c].at)
ReadSince ==
  \A k \in Collection, c \in Container : Reads(k, c) =>
    sent[c] <= runs[k].read + Most(clock - runs[k].begun)

\* The counter of a container that was not restarted never goes back.
NeverBack ==
  \A k \in Collection, c \in Container \ restarted : Reads(k, c) => runs[k].read <= sent[c]
ReadsAgree ==
  \A k, q \in Collection, c \in Container \ restarted :
    Reads(k, c) /\ Reads(q, c) /\ runs[k].begun > runs[q].begun =>
      runs[k].read <= runs[q].read + Most(runs[k].begun + MaxDelay - runs[q].begun)

\* What a rate will be computed from, whoever wrote the sample before.
Rated ==
  \A k \in Collection, c \in Container :
    Reads(k, c) /\ prevStates[c].at >= 0 /\ runs[k].begun > prevStates[c].at /\ Sound(c) =>
      runs[k].read <= prevStates[c].bytes + Most(runs[k].begun + MaxDelay - prevStates[c].at)

Within(e) == Sound(e.name) => e.egress.bytes <= Most(e.egress.elapsed + MaxDelay)
ToldWithin ==
  /\ \A i \in DOMAIN fleet : Within(fleet[i])
  /\ \A k \in Collection : \A i \in DOMAIN runs[k].found : Within(runs[k].found[i])

RatesInv ==
  /\ Typed /\ OnTime /\ OneAtATime
  /\ Sampled /\ ReadSince /\ NeverBack /\ ReadsAgree /\ Rated /\ ToldWithin

-----------------------------------------------------------------------------
(* Types are kept.                                                         *)

LEMMA Orders ==
  ASSUME NEW S \in SUBSET Container, NEW list \in SetToSeqs(S)
  PROVE  /\ list \in Seq(Container)
         /\ \A i, j \in DOMAIN list : i # j => list[i] # list[j]
  <1>1. IsFiniteSet(S)
    BY CollectorAssumption, FS_Subset
  <1>2. Cardinality(S) \in Nat
    BY <1>1, FS_CardinalityType
  <1>3. list \in [1 .. Cardinality(S) -> S]
        /\ \A i, j \in 1 .. Cardinality(S) : i # j => list[i] # list[j]
    BY DEF SetToSeqs
  <1>4. list \in Seq(S)
    BY <1>2, <1>3
  <1>5. QED
    BY <1>3, <1>4

LEMMA OverTyped == Over \in Run /\ Over.at = "idle" /\ Over.found = << >>
  BY DEF Over, Run

LEMMA InitTyped == Init => Typed
  <1> SUFFICES ASSUME Init PROVE Typed
    OBVIOUS
  <1>1. order \in Seq(Container)
    BY Orders, CollectorAssumption DEF Init
  <1>2. networks \in [Container -> Nets]
    BY DEF Init, Nets
  <1>3. /\ prevStates = [c \in Container |-> NoSample] /\ runs = [k \in Collection |-> Over]
        /\ fleet = << >> /\ sent = [c \in Container |-> 0] /\ clock = 0
        /\ running = [c \in Container |-> TRUE] /\ overlapped = FALSE
    BY DEF Init
  <1>4. Over \in Run /\ Over.at = "idle" /\ NoSample \in Sample
    BY OverTyped DEF NoSample, Sample
  <1>5. HostTyped
    BY <1>1, <1>2, <1>3 DEF HostTyped
  <1>6. RunsTyped
    <2>1. prevStates \in [Container -> Sample]
      BY <1>3, <1>4
    <2>2. runs \in [Collection -> Run] /\ \A k \in Collection : runs[k].at = "idle"
      BY <1>3, <1>4
    <2>3. QED
      BY <2>1, <2>2 DEF RunsTyped
  <1>7. FleetTyped
    BY <1>3 DEF FleetTyped
  <1>8. QED
    BY <1>5, <1>6, <1>7 DEF Typed

LEMMA EntryTyped ==
  ASSUME NEW r \in Run, r.networks \in [Container -> Nets], NEW c \in Container,
         NEW inspected \in BOOLEAN, NEW egress \in [bytes : Nat, elapsed : Nat]
  PROVE  /\ Entry(r, c, inspected, egress) \in Told
         /\ Entry(r, c, inspected, egress).name = c
         /\ Entry(r, c, inspected, egress).egress = egress
  <1> DEFINE tokens == IF inspected THEN Meta[c].tokens ELSE {}
             aliases == IF inspected THEN Meta[c].aliases ELSE Meta[c].listed
             ran == c \in r.ran
  <1>1. tokens \in {Meta[a].tokens : a \in Container} \union {{}} /\ ran \in BOOLEAN
    OBVIOUS
  <1>2. /\ r.networks[c] \in Nets
        /\ aliases \in {Meta[a].aliases : a \in Container} \union {Meta[a].listed : a \in Container}
    OBVIOUS
  <1> HIDE DEF tokens, ran, aliases
  <1>3. Entry(r, c, inspected, egress) =
          [name |-> c, running |-> ran, networks |-> r.networks[c], aliases |-> aliases,
           tokens |-> tokens, ports |-> Meta[c].ports, egress |-> egress]
    BY DEF Entry, tokens, ran, aliases
  <1> HIDE DEF Entry
  <1>4. QED
    BY <1>1, <1>2, <1>3 DEF Told

LEMMA Rates ==
  ASSUME NEW prev \in Sample, NEW bytes \in Nat, NEW now \in Nat
  PROVE  Rate(prev, bytes, now) \in [bytes : Nat, elapsed : Nat]
  <1>1. CASE prev.at >= 0 /\ now > prev.at /\ bytes >= prev.bytes
    <2>1. bytes - prev.bytes \in Nat /\ now - prev.at \in Nat
      BY <1>1 DEF Sample
    <2>2. QED
      BY <1>1, <2>1 DEF Rate
  <1>2. CASE ~(prev.at >= 0 /\ now > prev.at /\ bytes >= prev.bytes)
    BY <1>2 DEF Rate, NoRate
  <1>3. QED
    BY <1>1, <1>2

\* A step of collection k changes it alone, to u.
Steps(k, u) ==
  /\ runs' = [runs EXCEPT ![k] = u]
  /\ u \in Run
  /\ u.at # "idle" => u.networks \in [Container -> Nets]
  /\ u.at = "read" => u.todo # << >>

LEMMA StepsTyped ==
  ASSUME Typed, NEW k \in Collection, NEW u, Steps(k, u),
         UNCHANGED <<docker, clock, overlapped>>, prevStates' \in [Container -> Sample],
         fleet' \in Seq(Told)
  PROVE  /\ Typed'
         /\ runs'[k] = u /\ \A q \in Collection \ {k} : runs'[q] = runs[q]
  BY DEF Typed, HostTyped, RunsTyped, FleetTyped, Steps, docker

\* A collection begins with the containers as they are listed.
Begun(now, list, ran, nets) ==
  [Over EXCEPT !.at = "next", !.begun = now, !.todo = list, !.ran = ran, !.networks = nets]

LEMMA Beginning ==
  ASSUME NEW now \in Nat, NEW list \in Seq(Container), NEW ran \in SUBSET Container,
         NEW nets \in [Container -> Nets]
  PROVE  /\ Begun(now, list, ran, nets) \in Run
         /\ Begun(now, list, ran, nets).at = "next"
         /\ Begun(now, list, ran, nets).begun = now
         /\ Begun(now, list, ran, nets).found = << >>
         /\ Begun(now, list, ran, nets).networks = nets
         /\ Begun(now, list, ran, nets).todo = list
  <1>1. Over \in Run /\ Over.found = << >>
    BY OverTyped
  <1>2. Begun(now, list, ran, nets) \in Run
    BY <1>1 DEF Begun, Run
  <1>3. QED
    BY <1>1, <1>2 DEF Begun, Run

LEMMA BeginSteps ==
  ASSUME Typed, NEW k \in Collection, Begin(k)
  PROVE  \E u \in Run : /\ Steps(k, u) /\ u.at = "next" /\ u.begun = clock
                        /\ u.found = << >> /\ u.todo = order
  <1> DEFINE ran == {c \in Container : running[c]}
             u == Begun(clock, order, ran, networks)
  <1>1. runs' = [runs EXCEPT ![k] = u]
    BY DEF Begin, Begun
  <1>2. ran \in SUBSET Container
    OBVIOUS
  <1> HIDE DEF ran
  <1>3. clock \in Nat /\ order \in Seq(Container) /\ networks \in [Container -> Nets]
    BY DEF Typed, HostTyped
  <1>4. /\ u \in Run /\ u.at = "next" /\ u.begun = clock /\ u.found = << >>
        /\ u.networks = networks /\ u.todo = order
    BY <1>2, <1>3, Beginning
  <1> HIDE DEF u
  <1>5. QED
    BY <1>1, <1>3, <1>4 DEF Steps

\* A container is passed over, or told of without a rate.
LEMMA WithoutSteps ==
  ASSUME Typed, NEW k \in Collection, NextWithout(k)
  PROVE  \E u \in Run :
           /\ Steps(k, u) /\ u.at = "next" /\ u.begun = runs[k].begun /\ runs[k].at = "next"
           /\ runs[k].todo # << >> /\ u.todo = Tail(runs[k].todo)
           /\ \/ u.found = runs[k].found
              \/ \E e \in Told : /\ u.found = Append(runs[k].found, e) /\ e.egress = NoRate
                                /\ e.name = Head(runs[k].todo)
  <1> DEFINE r == runs[k]
             c == Head(r.todo)
  <1>1. r \in Run /\ r.at = "next" /\ r.todo # << >> /\ r.networks \in [Container -> Nets]
    BY DEF Typed, RunsTyped, NextWithout
  <1>2. r.todo \in Seq(Container) /\ r.found \in Seq(Told)
    BY <1>1 DEF Run
  <1>3. Tail(r.todo) \in Seq(Container) /\ c \in Container
    BY <1>1, <1>2, HeadTailProperties
  <1>4. PICK inspected \in BOOLEAN, failed \in BOOLEAN :
          runs' = [runs EXCEPT ![k].todo = Tail(@),
                    ![k].found = IF failed THEN @ ELSE Append(@, Entry(r, c, inspected, NoRate))]
    BY DEF NextWithout, Inspected
  <1>5. NoRate \in [bytes : Nat, elapsed : Nat]
    BY DEF NoRate
  <1> DEFINE e == Entry(r, c, inspected, NoRate)
  <1>6. e \in Told /\ e.egress = NoRate /\ e.name = c
    BY <1>1, <1>3, <1>5, EntryTyped
  <1> HIDE DEF e
  <1> DEFINE found == IF failed THEN r.found ELSE Append(r.found, e)
             u == [r EXCEPT !.todo = Tail(r.todo), !.found = found]
  <1>7. found \in Seq(Told) /\ (found = r.found \/ found = Append(r.found, e))
    BY <1>2, <1>6
  <1>8. runs' = [runs EXCEPT ![k] = u]
    BY <1>4 DEF e, Typed, RunsTyped
  <1> HIDE DEF found
  <1>9. /\ u \in Run /\ u.at = r.at /\ u.begun = r.begun /\ u.networks = r.networks
        /\ u.found = found /\ u.todo = Tail(r.todo)
    BY <1>1, <1>3, <1>7 DEF Run
  <1> HIDE DEF u
  <1>10. QED
    BY <1>1, <1>6, <1>7, <1>8, <1>9 DEF Steps

\* The statistics of the container at the head have been read.
LEMMA ReadSteps ==
  ASSUME Typed, NEW k \in Collection, ReadStats(k)
  PROVE  \E u \in Run :
           /\ Steps(k, u) /\ u.at = "read" /\ u.begun = runs[k].begun /\ runs[k].at = "next"
           /\ u.found = runs[k].found /\ u.todo = runs[k].todo
           /\ Head(u.todo) \in Container /\ u.read = sent[Head(u.todo)]
  <1> DEFINE r == runs[k]
             bytes == sent[Head(r.todo)]
             u == [r EXCEPT !.at = "read", !.read = bytes]
  <1>1. r \in Run /\ r.at = "next" /\ r.todo # << >> /\ r.networks \in [Container -> Nets]
    BY DEF Typed, RunsTyped, ReadStats
  <1>2. r.todo \in Seq(Container)
    BY <1>1 DEF Run
  <1>3. Head(r.todo) \in Container
    BY <1>1, <1>2, HeadTailProperties
  <1>4. bytes \in Nat
    BY <1>3 DEF Typed, HostTyped
  <1>5. runs' = [runs EXCEPT ![k] = u]
    BY DEF ReadStats, Typed, RunsTyped
  <1> HIDE DEF bytes
  <1>6. /\ u \in Run /\ u.at = "read" /\ u.begun = r.begun /\ u.networks = r.networks
        /\ u.found = r.found /\ u.todo = r.todo /\ u.read = bytes
    BY <1>1, <1>4 DEF Run
  <1> HIDE DEF u
  <1>7. QED
    BY <1>1, <1>3, <1>5, <1>6 DEF Steps, bytes

\* A rate has been computed, and the sample before replaced.
LEMMA RecordSteps ==
  ASSUME Typed, NEW k \in Collection, Record(k)
  PROVE  \E u \in Run, e \in Told, c \in Container :
           /\ Steps(k, u) /\ u.at = "next" /\ u.begun = runs[k].begun /\ Reads(k, c)
           /\ runs[k].todo # << >> /\ u.todo = Tail(runs[k].todo)
           /\ u.found = Append(runs[k].found, e) /\ e.name = c
           /\ e.egress = Rate(prevStates[c], runs[k].read, runs[k].begun)
           /\ prevStates' = [prevStates EXCEPT ![c] = [bytes |-> runs[k].read,
                                                        at |-> runs[k].begun]]
           /\ prevStates' \in [Container -> Sample]
  <1> DEFINE r == runs[k]
             c == Head(r.todo)
             rate == Rate(prevStates[c], r.read, r.begun)
  <1>1. r \in Run /\ r.at = "read" /\ r.todo # << >> /\ r.networks \in [Container -> Nets]
    BY DEF Typed, RunsTyped, Record
  <1>2. r.todo \in Seq(Container) /\ r.found \in Seq(Told) /\ r.read \in Nat /\ r.begun \in Nat
    BY <1>1 DEF Run
  <1>3. Tail(r.todo) \in Seq(Container) /\ c \in Container
    BY <1>1, <1>2, HeadTailProperties
  <1>4. PICK inspected \in BOOLEAN :
          runs' = [runs EXCEPT ![k].at = "next", ![k].todo = Tail(@),
                    ![k].found = Append(@, Entry(r, c, inspected, rate))]
    BY DEF Record, Inspected
  <1>5. prevStates[c] \in Sample
    BY <1>3 DEF Typed, RunsTyped
  <1>6. rate \in [bytes : Nat, elapsed : Nat]
    BY <1>2, <1>5, Rates
  <1> HIDE DEF rate
  <1> DEFINE e == Entry(r, c, inspected, rate)
  <1>7. e \in Told /\ e.name = c /\ e.egress = rate
    BY <1>1, <1>3, <1>6, EntryTyped
  <1> HIDE DEF e
  <1> DEFINE found == Append(r.found, e)
             u == [r EXCEPT !.at = "next", !.todo = Tail(r.todo), !.found = found]
  <1>8. found \in Seq(Told)
    BY <1>2, <1>7
  <1>9. runs' = [runs EXCEPT ![k] = u]
    BY <1>4 DEF e, Typed, RunsTyped
  <1> HIDE DEF found
  <1>10. /\ u \in Run /\ u.at = "next" /\ u.begun = r.begun /\ u.networks = r.networks
         /\ u.found = found /\ u.todo = Tail(r.todo)
    BY <1>1, <1>3, <1>8 DEF Run
  <1> HIDE DEF u
  <1>11. Steps(k, u)
    BY <1>1, <1>9, <1>10 DEF Steps
  <1>12. prevStates' = [prevStates EXCEPT ![c] = [bytes |-> r.read, at |-> r.begun]]
    BY DEF Record
  <1>13. [bytes |-> r.read, at |-> r.begun] \in Sample
    BY <1>2 DEF Sample
  <1>14. prevStates' \in [Container -> Sample]
    BY <1>3, <1>12, <1>13 DEF Typed, RunsTyped
  <1>15. Reads(k, c)
    BY <1>1 DEF Reads
  <1>16. QED
    BY <1>1, <1>3, <1>7, <1>10, <1>11, <1>12, <1>14, <1>15 DEF found, rate

LEMMA EndSteps ==
  ASSUME Typed, NEW k \in Collection, End(k)
  PROVE  /\ Steps(k, Over) /\ Over.at = "idle" /\ Over.found = << >>
         /\ fleet' = runs[k].found /\ fleet' \in Seq(Told)
  BY OverTyped DEF Typed, RunsTyped, End, Steps, Run

\* What is done to a container leaves the collections and the fleet as they are.
LEMMA HostSteps ==
  ASSUME Typed, NEW c \in ToSet(order), ExecuteRemediation(c) \/ Recreate(c)
  PROVE  Typed' /\ c \in Container
  <1>1. c \in Container
    BY DEF Typed, HostTyped, ToSet
  <1>2. \A a \in Container : Meta[a].networks \in Nets
    BY DEF Nets
  <1>3. CASE ExecuteRemediation(c)
    <2>1. sent' \in [Container -> Nat] /\ running' \in [Container -> BOOLEAN]
      <3>1. sent \in [Container -> Nat] /\ running \in [Container -> BOOLEAN]
        BY DEF Typed, HostTyped
      <3>2. sent' = [sent EXCEPT ![c] = 0] \/ sent' = sent
        BY <1>3 DEF ExecuteRemediation, Started
      <3>3. \/ running' = [running EXCEPT ![c] = TRUE] \/ running' = [running EXCEPT ![c] = FALSE]
            \/ running' = running
        BY <1>3 DEF ExecuteRemediation
      <3>4. sent' \in [Container -> Nat]
        BY <3>1, <3>2
      <3>5. running' \in [Container -> BOOLEAN]
        BY <3>1, <3>3
      <3>6. QED
        BY <3>4, <3>5
    <2>2. networks' \in [Container -> Nets]
      <3>1. ASSUME NEW left \in SUBSET networks[c], networks' = [networks EXCEPT ![c] = left]
            PROVE  networks' \in [Container -> Nets]
        <4>1. networks[c] \in Nets
          BY <1>1 DEF Typed, HostTyped
        <4>2. left \in Nets
          BY <4>1 DEF Nets
        <4>3. QED
          BY <1>1, <3>1, <4>2 DEF Typed, HostTyped
      <3>2. QED
        BY <1>3, <3>1 DEF ExecuteRemediation, Typed, HostTyped
    <2>3. UNCHANGED <<order, clock, prevStates, runs, fleet, overlapped>>
      BY <1>3 DEF ExecuteRemediation
    <2>4. QED
      BY <1>1, <2>1, <2>2, <2>3 DEF Typed, HostTyped, RunsTyped, FleetTyped
  <1>4. CASE Recreate(c)
    <2>1. PICK i \in DOMAIN order : order' = <<c>> \o RemoveAt(order, i)
      BY <1>4 DEF Recreate
    <2>2. order \in Seq(Container) /\ i \in 1 .. Len(order) /\ Len(order) \in Nat
      BY <2>1 DEF Typed, HostTyped
    <2>3. SubSeq(order, 1, i - 1) \in Seq(Container)
      BY <2>2, SubSeqProperties
    <2>4. SubSeq(order, i + 1, Len(order)) \in Seq(Container)
      BY <2>2, SubSeqProperties
    <2>5. RemoveAt(order, i) \in Seq(Container)
      BY <2>3, <2>4 DEF RemoveAt
    <2>6. order' \in Seq(Container)
      BY <1>1, <2>1, <2>5
    <2>7. sent' \in [Container -> Nat] /\ running' \in [Container -> BOOLEAN]
          /\ networks' \in [Container -> Nets]
      BY <1>1, <1>2, <1>4 DEF Recreate, Typed, HostTyped
    <2>8. prevStates' \in [Container -> Sample]
      <3>1. NoSample \in Sample
        BY DEF NoSample, Sample
      <3>2. QED
        BY <1>1, <1>4, <3>1 DEF Recreate, Typed, RunsTyped
    <2>9. UNCHANGED <<clock, runs, fleet, overlapped>>
      BY <1>4 DEF Recreate
    <2>10. HostTyped'
      BY <2>6, <2>7, <2>9 DEF Typed, HostTyped
    <2>11. RunsTyped' /\ FleetTyped'
      BY <2>8, <2>9 DEF Typed, RunsTyped, FleetTyped
    <2>12. QED
      BY <1>1, <2>10, <2>11 DEF Typed
  <1>5. QED
    BY <1>1, <1>3, <1>4

-----------------------------------------------------------------------------
(* What happens to the containers keeps the invariant.                     *)

LEMMA Numbers ==
  ASSUME Typed
  PROVE  /\ MaxDelay \in Nat /\ clock \in Nat /\ Peak \in Nat
         /\ \A c \in Container : /\ sent[c] \in Nat /\ prevStates[c].bytes \in Nat
                                 /\ prevStates[c].at \in Int /\ prevStates[c].at >= -1
         /\ \A k \in Collection : /\ runs[k].begun \in Nat /\ runs[k].read \in Nat
                                  /\ runs[k].found \in Seq(Told)
  <1>1. prevStates \in [Container -> Sample] /\ runs \in [Collection -> Run]
        /\ sent \in [Container -> Nat] /\ clock \in Nat
    BY DEF Typed, HostTyped, RunsTyped
  <1>2. \A c \in Container : /\ prevStates[c].bytes \in Nat
                             /\ prevStates[c].at \in Int /\ prevStates[c].at >= -1
    BY <1>1 DEF Sample
  <1>3. \A k \in Collection : /\ runs[k].begun \in Nat /\ runs[k].read \in Nat
                              /\ runs[k].found \in Seq(Told)
    BY <1>1 DEF Run
  <1>4. QED
    BY <1>1, <1>2, <1>3, CollectorAssumption

\* Time passes: a container sends at most Peak.
LEMMA AdvanceSteps ==
  ASSUME Typed, Advance
  PROVE  /\ Typed' /\ clock' = clock + 1
         /\ \A c \in Container : sent[c] <= sent'[c] /\ sent'[c] <= sent[c] + Peak
         /\ \A k \in Collection : runs[k].at # "idle" => clock - runs[k].begun < MaxDelay
         /\ UNCHANGED <<prevStates, runs, fleet, overlapped, restarted>>
  <1>1. PICK more \in [Busy -> 0 .. Peak] :
          sent' = [c \in Container |->
                    IF c \in Busy /\ running[c] THEN sent[c] + more[c] ELSE sent[c]]
    BY DEF Advance
  <1>2. \A c \in Container : sent[c] \in Nat
    BY DEF Typed, HostTyped
  <1>3. Peak \in Nat
    BY CollectorAssumption
  <1>4. ASSUME NEW c \in Container
        PROVE  sent'[c] \in Nat /\ sent[c] <= sent'[c] /\ sent'[c] <= sent[c] + Peak
    <2>1. CASE c \in Busy /\ running[c]
      <3>1. more[c] \in 0 .. Peak /\ sent'[c] = sent[c] + more[c]
        BY <1>1, <2>1
      <3>2. QED
        BY <1>2, <1>3, <3>1
    <2>2. CASE ~(c \in Busy /\ running[c])
      <3>1. sent'[c] = sent[c]
        BY <1>1, <2>2
      <3>2. QED
        BY <1>2, <1>3, <3>1
    <2>3. QED
      BY <2>1, <2>2
  <1>5. sent' \in [Container -> Nat]
    BY <1>1, <1>4
  <1>6. /\ clock' = clock + 1 /\ clock' \in Nat
        /\ UNCHANGED <<order, running, networks, prevStates, runs, fleet, overlapped, restarted>>
    BY DEF Advance, history, Typed, HostTyped
  <1>7. Typed'
    BY <1>5, <1>6 DEF Typed, HostTyped, RunsTyped, FleetTyped
  <1>8. QED
    BY <1>4, <1>6, <1>7 DEF Advance

LEMMA AdvanceKeeps == RatesInv /\ Advance => RatesInv'
  <1> SUFFICES ASSUME RatesInv, Advance PROVE RatesInv'
    OBVIOUS
  <1>1. Typed
    BY DEF RatesInv
  <1>2. /\ Typed' /\ clock' = clock + 1
        /\ \A c \in Container : sent[c] <= sent'[c] /\ sent'[c] <= sent[c] + Peak
        /\ \A k \in Collection : runs[k].at # "idle" => clock - runs[k].begun < MaxDelay
        /\ UNCHANGED <<prevStates, runs, fleet, overlapped, restarted>>
    BY <1>1, AdvanceSteps
  <1>3. /\ MaxDelay \in Nat /\ clock \in Nat /\ Peak \in Nat
        /\ \A c \in Container : /\ sent[c] \in Nat /\ prevStates[c].bytes \in Nat
                                /\ prevStates[c].at \in Int /\ prevStates[c].at >= -1
        /\ \A k \in Collection : runs[k].begun \in Nat /\ runs[k].read \in Nat
    BY <1>1, Numbers
  <1>4. \A c \in Container : sent'[c] \in Nat
    BY <1>2, Numbers DEF Typed, HostTyped
  <1>5. OnTime'
    <2>1. ASSUME NEW k \in Collection, runs[k].at # "idle"
          PROVE  runs[k].begun <= clock' /\ clock' <= runs[k].begun + MaxDelay
      <3>1. runs[k].begun <= clock /\ clock - runs[k].begun < MaxDelay
        BY <1>2, <2>1 DEF RatesInv, OnTime
      <3>2. QED
        BY <1>2, <1>3, <3>1
    <2>2. ASSUME NEW c \in Container PROVE prevStates[c].at <= clock'
      BY <1>2, <1>3 DEF RatesInv, OnTime
    <2>3. QED
      BY <1>2, <2>1, <2>2 DEF OnTime
  <1>6. OneAtATime'
    BY <1>2 DEF RatesInv, OneAtATime
  <1>7. ASSUME NEW t \in Int, t <= clock
        PROVE  Most(clock' - t) = Most(clock - t) + Peak /\ Most(clock - t) \in Int
    <2>1. clock - t \in Int /\ clock' - t = (clock - t) + 1
      BY <1>2, <1>3
    <2>2. QED
      BY <2>1, MostFacts
  <1>8. Sampled'
    <2>1. ASSUME NEW c \in Container, prevStates[c].at >= 0
          PROVE  sent'[c] <= prevStates[c].bytes + Most(clock' - prevStates[c].at)
      <3>1. sent[c] <= prevStates[c].bytes + Most(clock - prevStates[c].at)
        BY <2>1 DEF RatesInv, Sampled
      <3>2. prevStates[c].at <= clock
        BY DEF RatesInv, OnTime
      <3>3. /\ Most(clock' - prevStates[c].at) = Most(clock - prevStates[c].at) + Peak
            /\ Most(clock - prevStates[c].at) \in Int
        BY <1>3, <1>7, <3>2
      <3>4. QED
        BY <1>2, <1>3, <1>4, <3>1, <3>3
    <2>2. QED
      BY <1>2, <2>1 DEF Sampled
  <1>9. ReadSince'
    <2>1. ASSUME NEW k \in Collection, NEW c \in Container, Reads(k, c)
          PROVE  sent'[c] <= runs[k].read + Most(clock' - runs[k].begun)
      <3>1. sent[c] <= runs[k].read + Most(clock - runs[k].begun)
        BY <2>1 DEF RatesInv, ReadSince
      <3>2. runs[k].begun <= clock
        BY <2>1 DEF RatesInv, OnTime, Reads
      <3>3. /\ Most(clock' - runs[k].begun) = Most(clock - runs[k].begun) + Peak
            /\ Most(clock - runs[k].begun) \in Int
        BY <1>3, <1>7, <3>2
      <3>4. QED
        BY <1>2, <1>3, <1>4, <3>1, <3>3
    <2>2. QED
      BY <1>2, <2>1 DEF ReadSince, Reads
  <1>10. NeverBack'
    <2>1. ASSUME NEW k \in Collection, NEW c \in Container \ restarted, Reads(k, c)
          PROVE  runs[k].read <= sent'[c]
      <3>1. runs[k].read <= sent[c] /\ sent[c] <= sent'[c]
        BY <1>2, <2>1 DEF RatesInv, NeverBack
      <3>2. QED
        BY <1>3, <1>4, <3>1
    <2>2. QED
      BY <1>2, <2>1 DEF NeverBack, Reads
  <1>11. ReadsAgree' /\ Rated' /\ ToldWithin'
    BY <1>2 DEF RatesInv, ReadsAgree, Rated, ToldWithin, Reads, Sound, Within
  <1>12. QED
    BY <1>2, <1>5, <1>6, <1>8, <1>9, <1>10, <1>11 DEF RatesInv

\* Whoever is restarted counts from nothing; whoever is not counts on.
LEMMA RemediationKeeps ==
  ASSUME RatesInv, NEW c \in ToSet(order), ExecuteRemediation(c)
  PROVE  RatesInv'
  <1>1. Typed
    BY DEF RatesInv
  <1>2. Typed' /\ c \in Container
    BY <1>1, HostSteps
  <1>3. /\ UNCHANGED <<clock, prevStates, runs, fleet, overlapped>>
        /\ restarted \subseteq restarted'
        /\ \A a \in Container : sent'[a] = sent[a] \/ (sent'[a] = 0 /\ a \in restarted')
    <2>1. UNCHANGED <<clock, prevStates, runs, fleet, overlapped>>
      BY DEF ExecuteRemediation
    <2>2. CASE Started(c)
      BY <1>1, <1>2, <2>1, <2>2 DEF Started, Typed, HostTyped
    <2>3. CASE UNCHANGED <<sent, restarted>>
      BY <2>1, <2>3
    <2>4. QED
      BY <2>2, <2>3 DEF ExecuteRemediation
  <1>4. /\ MaxDelay \in Nat /\ clock \in Nat
        /\ \A a \in Container : /\ sent[a] \in Nat /\ prevStates[a].bytes \in Nat
                                /\ prevStates[a].at \in Int /\ prevStates[a].at >= -1
        /\ \A k \in Collection : runs[k].begun \in Nat /\ runs[k].read \in Nat
    BY <1>1, Numbers
  <1>5. OnTime' /\ OneAtATime'
    BY <1>3 DEF RatesInv, OnTime, OneAtATime
  <1>6. Sampled'
    <2>1. ASSUME NEW a \in Container, prevStates[a].at >= 0
          PROVE  sent'[a] <= prevStates[a].bytes + Most(clock - prevStates[a].at)
      <3>1. sent[a] <= prevStates[a].bytes + Most(clock - prevStates[a].at)
        BY <2>1 DEF RatesInv, Sampled
      <3>2. clock - prevStates[a].at \in Nat
        BY <1>4, <2>1 DEF RatesInv, OnTime
      <3>3. Most(clock - prevStates[a].at) >= 0 /\ Most(clock - prevStates[a].at) \in Int
        BY <3>2, MostFacts
      <3>4. QED
        BY <1>3, <1>4, <3>1, <3>3
    <2>2. QED
      BY <1>3, <2>1 DEF Sampled
  <1>7. ReadSince'
    <2>1. ASSUME NEW k \in Collection, NEW a \in Container, Reads(k, a)
          PROVE  sent'[a] <= runs[k].read + Most(clock - runs[k].begun)
      <3>1. sent[a] <= runs[k].read + Most(clock - runs[k].begun)
        BY <2>1 DEF RatesInv, ReadSince
      <3>2. clock - runs[k].begun \in Nat
        BY <1>4, <2>1 DEF RatesInv, OnTime, Reads
      <3>3. Most(clock - runs[k].begun) >= 0 /\ Most(clock - runs[k].begun) \in Int
        BY <3>2, MostFacts
      <3>4. QED
        BY <1>3, <1>4, <3>1, <3>3
    <2>2. QED
      BY <1>3, <2>1 DEF ReadSince, Reads
  <1>8. NeverBack' /\ ReadsAgree'
    BY <1>3 DEF RatesInv, NeverBack, ReadsAgree, Reads
  <1>9. Rated'
    BY <1>3 DEF RatesInv, Rated, Reads, Sound
  <1>10. ToldWithin'
    BY <1>3 DEF RatesInv, ToldWithin, Sound, Within
  <1>11. QED
    BY <1>2, <1>5, <1>6, <1>7, <1>8, <1>9, <1>10 DEF RatesInv

\* A container created anew has no sample.
LEMMA RecreateKeeps ==
  ASSUME RatesInv, NEW c \in ToSet(order), Recreate(c)
  PROVE  RatesInv'
  <1>1. Typed
    BY DEF RatesInv
  <1>2. Typed' /\ c \in Container
    BY <1>1, HostSteps
  <1>3. /\ UNCHANGED <<clock, runs, fleet, overlapped, restarted>>
        /\ \A k \in Collection : runs[k].at = "idle"
        /\ prevStates' = [prevStates EXCEPT ![c] = NoSample]
        /\ sent' = [sent EXCEPT ![c] = 0]
    BY DEF Recreate
  <1>4. prevStates'[c].at = -1
        /\ \A a \in Container \ {c} : prevStates'[a] = prevStates[a] /\ sent'[a] = sent[a]
    BY <1>1, <1>2, <1>3 DEF NoSample, Typed, HostTyped, RunsTyped
  <1>5. clock \in Nat
    BY <1>1, Numbers
  <1>6. OnTime'
    BY <1>3, <1>4, <1>5 DEF RatesInv, OnTime
  <1>7. OneAtATime'
    BY <1>3 DEF RatesInv, OneAtATime
  <1>8. Sampled'
    BY <1>3, <1>4 DEF RatesInv, Sampled
  <1>9. ~\E k \in Collection, a \in Container : Reads(k, a) \/ Reads(k, a)'
    BY <1>3 DEF Reads
  <1>10. ReadSince' /\ NeverBack' /\ ReadsAgree' /\ Rated'
    BY <1>9 DEF ReadSince, NeverBack, ReadsAgree, Rated
  <1>11. ToldWithin'
    BY <1>3 DEF RatesInv, ToldWithin, Sound, Within
  <1>12. QED
    BY <1>2, <1>6, <1>7, <1>8, <1>10, <1>11 DEF RatesInv

-----------------------------------------------------------------------------
(* What the collections do keeps the invariant.                            *)

\* What a step of collection k to u that reads nothing anew leaves to be shown.
LEMMA QuietSteps ==
  ASSUME RatesInv, NEW k \in Collection, NEW u, Steps(k, u), u.at # "read",
         UNCHANGED <<docker, clock, prevStates, restarted>>,
         overlapped \in BOOLEAN, overlapped' \in BOOLEAN, overlapped => overlapped',
         fleet' \in Seq(Told),
         u.at # "idle" => u.begun <= clock /\ clock <= u.begun + MaxDelay,
         OneAtATime',
         \A i \in DOMAIN fleet' : Within(fleet'[i]),
         \A i \in DOMAIN u.found : Within(u.found[i])
  PROVE  RatesInv'
  <1>1. Typed
    BY DEF RatesInv
  <1>2. Typed' /\ runs'[k] = u /\ \A q \in Collection \ {k} : runs'[q] = runs[q]
    <2>1. prevStates' \in [Container -> Sample] /\ runs \in [Collection -> Run]
      BY <1>1 DEF Typed, RunsTyped
    <2>2. runs'[k] = u /\ \A q \in Collection \ {k} : runs'[q] = runs[q]
      BY <2>1 DEF Steps
    <2>3. HostTyped'
      BY <1>1 DEF Typed, HostTyped, docker
    <2>4. RunsTyped'
      BY <1>1, <2>1 DEF Typed, RunsTyped, Steps
    <2>5. QED
      BY <2>2, <2>3, <2>4 DEF Typed, FleetTyped
  <1>3. \A q \in Collection, c \in Container :
          Reads(q, c)' => Reads(q, c) /\ runs'[q] = runs[q]
    BY <1>2 DEF Reads
  <1>4. UNCHANGED sent
    BY DEF docker
  <1>5. OnTime'
    BY <1>2 DEF RatesInv, OnTime
  <1>6. Sampled'
    BY <1>4 DEF RatesInv, Sampled
  <1>7. ReadSince' /\ NeverBack'
    BY <1>3, <1>4 DEF RatesInv, ReadSince, NeverBack
  <1>8. ReadsAgree'
    BY <1>3, <1>4 DEF RatesInv, ReadsAgree
  <1>9. Rated'
    BY <1>3 DEF RatesInv, Rated, Sound
  <1>10. ToldWithin'
    BY <1>2 DEF RatesInv, ToldWithin, Within, Sound
  <1>11. QED
    BY <1>2, <1>5, <1>6, <1>7, <1>8, <1>9, <1>10 DEF RatesInv

LEMMA NoRateWithin ==
  ASSUME NEW e, e.egress = NoRate
  PROVE  Within(e)
  <1>1. 1 + MaxDelay \in Nat
    BY CollectorAssumption
  <1>2. Most(1 + MaxDelay) >= 0
    BY <1>1, MostFacts
  <1>3. e.egress.bytes = 0 /\ e.egress.elapsed = 1
    BY DEF NoRate
  <1>4. QED
    BY <1>2, <1>3 DEF Within

LEMMA BeginKeeps ==
  ASSUME RatesInv, NEW k \in Collection, Begin(k)
  PROVE  RatesInv'
  <1>1. Typed
    BY DEF RatesInv
  <1>2. PICK u \in Run : Steps(k, u) /\ u.at = "next" /\ u.begun = clock /\ u.found = << >>
    BY <1>1, BeginSteps
  <1>3. /\ overlapped' = (overlapped \/ \E q \in Collection : runs[q].at # "idle")
        /\ UNCHANGED <<docker, clock, prevStates, fleet, restarted>>
    BY DEF Begin
  <1>4. runs'[k] = u /\ \A q \in Collection \ {k} : runs'[q] = runs[q]
    BY <1>1, <1>2 DEF Steps, Typed, RunsTyped
  <1>5. OneAtATime'
    BY <1>3, <1>4 DEF OneAtATime
  <1>6. u.begun <= clock /\ clock <= u.begun + MaxDelay
    BY <1>1, <1>2, Numbers
  <1>7. /\ overlapped \in BOOLEAN /\ overlapped' \in BOOLEAN /\ (overlapped => overlapped')
        /\ fleet' \in Seq(Told)
    BY <1>1, <1>3 DEF Typed, HostTyped, FleetTyped
  <1>8. /\ \A i \in DOMAIN fleet' : Within(fleet'[i])
        /\ \A i \in DOMAIN u.found : Within(u.found[i])
    BY <1>2, <1>3 DEF RatesInv, ToldWithin
  <1>9. QED
    BY <1>2, <1>3, <1>5, <1>6, <1>7, <1>8, QuietSteps

\* A step of a collection that goes on does not make collections overlap.
LEMMA GoesOn ==
  ASSUME RatesInv, NEW k \in Collection, NEW u, Steps(k, u), runs[k].at # "idle",
         u.begun = runs[k].begun, UNCHANGED <<clock, overlapped>>
  PROVE  OneAtATime' /\ u.begun <= clock /\ clock <= u.begun + MaxDelay
  <1>1. runs'[k] = u /\ \A q \in Collection \ {k} : runs'[q] = runs[q]
    BY DEF RatesInv, Typed, RunsTyped, Steps
  <1>2. QED
    BY <1>1 DEF RatesInv, OneAtATime, OnTime

LEMMA WithoutKeeps ==
  ASSUME RatesInv, NEW k \in Collection, NextWithout(k)
  PROVE  RatesInv'
  <1>1. Typed
    BY DEF RatesInv
  <1>2. PICK u \in Run :
          /\ Steps(k, u) /\ u.at = "next" /\ u.begun = runs[k].begun /\ runs[k].at = "next"
          /\ \/ u.found = runs[k].found
             \/ \E e \in Told : u.found = Append(runs[k].found, e) /\ e.egress = NoRate
    BY <1>1, WithoutSteps
  <1>3. UNCHANGED <<docker, clock, prevStates, fleet, overlapped, restarted>>
    BY DEF NextWithout, history
  <1>4. OneAtATime' /\ u.begun <= clock /\ clock <= u.begun + MaxDelay
    BY <1>2, <1>3, GoesOn
  <1>5. /\ \A i \in DOMAIN runs[k].found : Within(runs[k].found[i])
        /\ \A i \in DOMAIN fleet : Within(fleet[i])
    BY DEF RatesInv, ToldWithin
  <1>6. \A i \in DOMAIN u.found : Within(u.found[i])
    <2>1. ASSUME NEW e \in Told, u.found = Append(runs[k].found, e), e.egress = NoRate
          PROVE  \A i \in DOMAIN u.found : Within(u.found[i])
      <3>1. runs[k].found \in Seq(Told)
        BY <1>1, Numbers
      <3>2. Within(e)
        BY <2>1, NoRateWithin
      <3>3. QED
        BY <1>5, <2>1, <3>1, <3>2
    <2>2. QED
      BY <1>2, <1>5, <2>1
  <1>7. overlapped \in BOOLEAN /\ overlapped' \in BOOLEAN /\ fleet' \in Seq(Told)
    BY <1>1, <1>3 DEF Typed, HostTyped, FleetTyped
  <1>8. \A i \in DOMAIN fleet' : Within(fleet'[i])
    BY <1>3, <1>5
  <1>9. QED
    BY <1>2, <1>3, <1>4, <1>6, <1>7, <1>8, QuietSteps

LEMMA EndKeeps ==
  ASSUME RatesInv, NEW k \in Collection, End(k)
  PROVE  RatesInv'
  <1>1. Typed
    BY DEF RatesInv
  <1>2. /\ Steps(k, Over) /\ Over.at = "idle" /\ Over.found = << >>
        /\ fleet' = runs[k].found /\ fleet' \in Seq(Told)
    BY <1>1, EndSteps
  <1>3. UNCHANGED <<docker, clock, prevStates, overlapped, restarted>>
    BY DEF End, history
  <1>4. runs'[k] = Over /\ \A q \in Collection \ {k} : runs'[q] = runs[q]
    BY <1>1, <1>2 DEF Steps, Typed, RunsTyped
  <1>5. OneAtATime'
    BY <1>2, <1>3, <1>4 DEF RatesInv, OneAtATime
  <1>6. /\ \A i \in DOMAIN fleet' : Within(fleet'[i])
        /\ \A i \in DOMAIN Over.found : Within(Over.found[i])
    BY <1>2 DEF RatesInv, ToldWithin
  <1>7. overlapped \in BOOLEAN /\ overlapped' \in BOOLEAN
    BY <1>1, <1>3 DEF Typed, HostTyped
  <1>8. QED
    BY <1>2, <1>3, <1>5, <1>6, <1>7, QuietSteps

\* What has just been read agrees with every sample and with every other reading.
LEMMA ReadKeeps ==
  ASSUME RatesInv, NEW k \in Collection, ReadStats(k)
  PROVE  RatesInv'
  <1>1. Typed
    BY DEF RatesInv
  <1>2. PICK u \in Run :
          /\ Steps(k, u) /\ u.at = "read" /\ u.begun = runs[k].begun /\ runs[k].at = "next"
          /\ u.found = runs[k].found /\ u.todo = runs[k].todo
          /\ Head(u.todo) \in Container /\ u.read = sent[Head(u.todo)]
    BY <1>1, ReadSteps
  <1>3. UNCHANGED <<docker, clock, prevStates, fleet, overlapped, restarted>>
    BY DEF ReadStats, history
  <1>4. Typed' /\ runs'[k] = u /\ \A q \in Collection \ {k} : runs'[q] = runs[q]
    BY <1>1, <1>2, <1>3, StepsTyped DEF Typed, RunsTyped, FleetTyped
  <1>5. OneAtATime' /\ u.begun <= clock /\ clock <= u.begun + MaxDelay
    BY <1>2, <1>3, GoesOn
  <1>6. UNCHANGED <<sent, clock, prevStates, fleet, overlapped, restarted>>
    BY <1>3 DEF docker
  <1> DEFINE c == Head(u.todo)
  <1>7. /\ Reads(k, c)' /\ ~Reads(k, c) /\ runs'[k].read = sent[c]
        /\ \A a \in Container : Reads(k, a)' => a = c
        /\ \A q \in Collection \ {k}, a \in Container : Reads(q, a)' <=> Reads(q, a)
    BY <1>2, <1>4 DEF Reads
  <1>8. /\ MaxDelay \in Nat /\ clock \in Nat /\ c \in Container
        /\ \A a \in Container : /\ sent[a] \in Nat /\ prevStates[a].bytes \in Nat
                                /\ prevStates[a].at \in Int /\ prevStates[a].at >= -1
        /\ \A q \in Collection : runs[q].begun \in Nat /\ runs[q].read \in Nat
    BY <1>1, <1>2, Numbers
  <1>9. OnTime'
    BY <1>4, <1>5, <1>6 DEF RatesInv, OnTime
  <1>10. Sampled'
    BY <1>6 DEF RatesInv, Sampled
  <1> HIDE DEF c
  <1>11. ReadSince'
    <2>1. sent[c] <= runs'[k].read + Most(clock - runs'[k].begun)
      <3>1. clock - u.begun \in Nat
        BY <1>2, <1>5, <1>8
      <3>2. Most(clock - u.begun) >= 0 /\ Most(clock - u.begun) \in Int
        BY <3>1, MostFacts
      <3>3. QED
        BY <1>4, <1>7, <1>8, <3>2
    <2>2. QED
      BY <1>4, <1>6, <1>7, <2>1 DEF RatesInv, ReadSince
  <1>12. NeverBack'
    <2>1. runs'[k].read <= sent[c]
      BY <1>7, <1>8
    <2>2. QED
      BY <1>4, <1>6, <1>7, <2>1 DEF RatesInv, NeverBack
  <1>13. ReadsAgree'
    <2> SUFFICES ASSUME NEW p \in Collection, NEW q \in Collection,
                        NEW a \in Container \ restarted, Reads(p, a)', Reads(q, a)',
                        runs'[p].begun > runs'[q].begun
                 PROVE  runs'[p].read <=
                          runs'[q].read + Most(runs'[p].begun + MaxDelay - runs'[q].begun)
      BY <1>6 DEF ReadsAgree
    <2>1. CASE p = k /\ q # k
      <3>1. a = c /\ runs'[p].read = sent[a] /\ runs'[q] = runs[q] /\ Reads(q, a)
        BY <1>4, <1>7, <2>1
      <3>2. sent[a] <= runs[q].read + Most(clock - runs[q].begun)
        BY <3>1 DEF RatesInv, ReadSince
      <3>3. runs'[p].begun \in Nat /\ clock <= runs'[p].begun + MaxDelay
        BY <1>2, <1>4, <1>5, <1>8, <2>1
      <3>4. /\ clock - runs[q].begun \in Int /\ runs'[p].begun + MaxDelay - runs[q].begun \in Int
            /\ clock - runs[q].begun <= runs'[p].begun + MaxDelay - runs[q].begun
        BY <1>8, <3>3
      <3>5. /\ Most(clock - runs[q].begun) <= Most(runs'[p].begun + MaxDelay - runs[q].begun)
            /\ Most(clock - runs[q].begun) \in Int
            /\ Most(runs'[p].begun + MaxDelay - runs[q].begun) \in Int
        BY <3>4, MostFacts
      <3>6. QED
        BY <1>8, <3>1, <3>2, <3>5
    <2>2. CASE q = k /\ p # k
      <3>1. a = c /\ runs'[q].read = sent[a] /\ runs'[p] = runs[p] /\ Reads(p, a)
        BY <1>4, <1>7, <2>2
      <3>2. runs[p].read <= sent[a]
        BY <3>1 DEF RatesInv, NeverBack
      <3>3. runs'[q].begun \in Nat
        BY <1>2, <1>4, <1>8, <2>2
      <3>4. runs'[p].begun + MaxDelay - runs'[q].begun \in Nat
        BY <1>8, <3>1, <3>3
      <3>5. /\ Most(runs'[p].begun + MaxDelay - runs'[q].begun) >= 0
            /\ Most(runs'[p].begun + MaxDelay - runs'[q].begun) \in Int
        BY <3>4, MostFacts
      <3>6. QED
        BY <1>8, <3>1, <3>2, <3>5
    <2>3. CASE p = k /\ q = k
      BY <1>2, <1>4, <1>8, <2>3
    <2>4. CASE p # k /\ q # k
      BY <1>4, <1>7, <2>4 DEF RatesInv, ReadsAgree
    <2>5. QED
      BY <2>1, <2>2, <2>3, <2>4
  <1>14. Rated'
    <2>1. ASSUME prevStates[c].at >= 0, u.begun > prevStates[c].at
          PROVE  sent[c] <= prevStates[c].bytes + Most(u.begun + MaxDelay - prevStates[c].at)
      <3>1. sent[c] <= prevStates[c].bytes + Most(clock - prevStates[c].at)
        BY <1>8, <2>1 DEF RatesInv, Sampled
      <3>2. u.begun \in Nat
        BY <1>2, <1>8
      <3>3. /\ clock - prevStates[c].at \in Int /\ u.begun + MaxDelay - prevStates[c].at \in Int
            /\ clock - prevStates[c].at <= u.begun + MaxDelay - prevStates[c].at
        BY <1>5, <1>8, <3>2
      <3>4. /\ Most(clock - prevStates[c].at) <= Most(u.begun + MaxDelay - prevStates[c].at)
            /\ Most(clock - prevStates[c].at) \in Int
            /\ Most(u.begun + MaxDelay - prevStates[c].at) \in Int
        BY <3>3, MostFacts
      <3>5. QED
        BY <1>8, <3>1, <3>4
    <2>2. QED
      BY <1>4, <1>6, <1>7, <2>1 DEF RatesInv, Rated, Sound
  <1>15. ToldWithin'
    <2>1. \A q \in Collection : runs'[q].found = runs[q].found
      BY <1>2, <1>4
    <2>2. QED
      BY <1>6, <2>1 DEF RatesInv, ToldWithin, Within, Sound
  <1>16. QED
    BY <1>4, <1>5, <1>9, <1>10, <1>11, <1>12, <1>13, <1>14, <1>15 DEF RatesInv

\* The rate that is computed is within bounds, and the sample that replaces the one
\* before agrees with what the others have read.
LEMMA RecordKeeps ==
  ASSUME RatesInv, NEW k \in Collection, Record(k)
  PROVE  RatesInv'
  <1>1. Typed
    BY DEF RatesInv
  <1>2. PICK u \in Run, e \in Told, c \in Container :
          /\ Steps(k, u) /\ u.at = "next" /\ u.begun = runs[k].begun /\ Reads(k, c)
          /\ u.found = Append(runs[k].found, e) /\ e.name = c
          /\ e.egress = Rate(prevStates[c], runs[k].read, runs[k].begun)
          /\ prevStates' = [prevStates EXCEPT ![c] = [bytes |-> runs[k].read,
                                                       at |-> runs[k].begun]]
          /\ prevStates' \in [Container -> Sample]
    BY <1>1, RecordSteps
  <1>3. UNCHANGED <<docker, clock, fleet, overlapped, restarted>>
    BY DEF Record, history
  <1>4. Typed' /\ runs'[k] = u /\ \A q \in Collection \ {k} : runs'[q] = runs[q]
    BY <1>1, <1>2, <1>3, StepsTyped DEF Typed, RunsTyped, FleetTyped
  <1>5. OneAtATime' /\ u.begun <= clock
    BY <1>2, <1>3, GoesOn DEF Reads
  <1>6. UNCHANGED <<sent, clock, fleet, overlapped, restarted>>
    BY <1>3 DEF docker
  <1>7. \A q \in Collection, a \in Container :
          Reads(q, a)' => Reads(q, a) /\ q # k /\ runs'[q] = runs[q]
    BY <1>2, <1>4 DEF Reads
  <1>8. /\ prevStates'[c].at = runs[k].begun /\ prevStates'[c].bytes = runs[k].read
        /\ \A a \in Container \ {c} : prevStates'[a] = prevStates[a]
    BY <1>1, <1>2 DEF Typed, RunsTyped
  <1>9. /\ MaxDelay \in Nat /\ clock \in Nat
        /\ \A a \in Container : /\ sent[a] \in Nat /\ prevStates[a].bytes \in Nat
                                /\ prevStates[a].at \in Int /\ prevStates[a].at >= -1
        /\ \A q \in Collection : /\ runs[q].begun \in Nat /\ runs[q].read \in Nat
                                 /\ runs[q].found \in Seq(Told)
    BY <1>1, Numbers
  <1>10. OnTime'
    <2>1. ASSUME NEW q \in Collection, runs'[q].at # "idle"
          PROVE  runs'[q].begun <= clock /\ clock <= runs'[q].begun + MaxDelay
      <3>1. runs'[q].begun = runs[q].begun /\ runs[q].at # "idle"
        BY <1>2, <1>4, <2>1 DEF Reads
      <3>2. QED
        BY <3>1 DEF RatesInv, OnTime
    <2>2. ASSUME NEW a \in Container PROVE prevStates'[a].at <= clock
      BY <1>2, <1>5, <1>8 DEF RatesInv, OnTime
    <2>3. QED
      BY <1>6, <2>1, <2>2 DEF OnTime
  <1>11. Sampled'
    <2>1. sent[c] <= runs[k].read + Most(clock - runs[k].begun)
      BY <1>2 DEF RatesInv, ReadSince
    <2>2. QED
      BY <1>6, <1>8, <2>1 DEF RatesInv, Sampled
  <1>12. ReadSince' /\ NeverBack' /\ ReadsAgree'
    BY <1>6, <1>7 DEF RatesInv, ReadSince, NeverBack, ReadsAgree
  <1>13. Rated'
    <2> SUFFICES ASSUME NEW q \in Collection, NEW a \in Container, Reads(q, a)',
                        prevStates'[a].at >= 0, runs'[q].begun > prevStates'[a].at, Sound(a)
                 PROVE  runs'[q].read <=
                          prevStates'[a].bytes + Most(runs'[q].begun + MaxDelay - prevStates'[a].at)
      BY <1>6 DEF Rated, Sound
    <2>1. Reads(q, a) /\ q # k /\ runs'[q] = runs[q]
      BY <1>7
    <2>2. CASE a = c
      <3>1. overlapped
        BY <1>2, <2>1 DEF RatesInv, OneAtATime, Reads
      <3>2. a \in Container \ restarted
        BY <3>1 DEF Sound
      <3>3. Reads(k, a) /\ runs[q].begun > runs[k].begun
        BY <1>2, <1>8, <2>1, <2>2
      <3>4. runs[q].read <= runs[k].read + Most(runs[q].begun + MaxDelay - runs[k].begun)
        BY <2>1, <3>2, <3>3 DEF RatesInv, ReadsAgree
      <3>5. QED
        BY <1>8, <2>1, <2>2, <3>4
    <2>3. CASE a # c
      BY <1>8, <2>1, <2>3 DEF RatesInv, Rated
    <2>4. QED
      BY <2>2, <2>3
  <1>14. Within(e)
    <2> DEFINE p == prevStates[c]
               r == runs[k]
    <2>1. CASE p.at >= 0 /\ r.begun > p.at /\ r.read >= p.bytes
      <3>1. e.egress.bytes = r.read - p.bytes /\ e.egress.elapsed = r.begun - p.at
        BY <1>2, <2>1 DEF Rate
      <3>2. Sound(c) => r.read <= p.bytes + Most(r.begun + MaxDelay - p.at)
        BY <1>2, <2>1 DEF RatesInv, Rated
      <3>3. /\ r.begun + MaxDelay - p.at \in Int
            /\ r.begun + MaxDelay - p.at = e.egress.elapsed + MaxDelay
        BY <1>9, <3>1
      <3>4. Most(e.egress.elapsed + MaxDelay) \in Int
        BY <3>3, MostFacts
      <3>5. QED
        BY <1>2, <1>9, <3>1, <3>2, <3>3, <3>4 DEF Within
    <2>2. CASE ~(p.at >= 0 /\ r.begun > p.at /\ r.read >= p.bytes)
      <3>1. e.egress = NoRate
        BY <1>2, <2>2 DEF Rate
      <3>2. QED
        BY <3>1, NoRateWithin
    <2>3. QED
      BY <2>1, <2>2
  <1>15. ToldWithin'
    <2>1. \A i \in DOMAIN u.found : Within(u.found[i])
      <3>1. \A i \in DOMAIN runs[k].found : Within(runs[k].found[i])
        BY DEF RatesInv, ToldWithin
      <3>2. QED
        BY <1>2, <1>9, <1>14, <3>1
    <2>2. \A q \in Collection : \A i \in DOMAIN runs'[q].found : Within(runs'[q].found[i])
      BY <1>4, <2>1 DEF RatesInv, ToldWithin
    <2>3. QED
      BY <1>6, <2>2 DEF RatesInv, ToldWithin, Within, Sound
  <1>16. QED
    BY <1>4, <1>5, <1>10, <1>11, <1>12, <1>13, <1>15 DEF RatesInv

-----------------------------------------------------------------------------
(* The theorems.                                                           *)

LEMMA RatesInit == Init => RatesInv
  <1> SUFFICES ASSUME Init PROVE RatesInv
    OBVIOUS
  <1>1. Typed
    BY InitTyped
  <1>2. /\ prevStates = [c \in Container |-> NoSample] /\ runs = [k \in Collection |-> Over]
        /\ fleet = << >> /\ clock = 0
    BY DEF Init
  <1>3. \A k \in Collection : runs[k].at = "idle" /\ runs[k].found = << >>
    BY <1>2, OverTyped
  <1>4. \A c \in Container : prevStates[c].at = -1
    BY <1>2 DEF NoSample
  <1>5. OnTime /\ OneAtATime /\ Sampled
    BY <1>2, <1>3, <1>4 DEF OnTime, OneAtATime, Sampled
  <1>6. ReadSince /\ NeverBack /\ ReadsAgree /\ Rated
    BY <1>3 DEF ReadSince, NeverBack, ReadsAgree, Rated, Reads
  <1>7. ToldWithin
    BY <1>2, <1>3 DEF ToldWithin
  <1>8. QED
    BY <1>1, <1>5, <1>6, <1>7 DEF RatesInv

LEMMA RatesStep == RatesInv /\ [Next]_vars => RatesInv'
  <1> SUFFICES ASSUME RatesInv, [Next]_vars PROVE RatesInv'
    OBVIOUS
  <1>1. CASE Advance
    BY <1>1, AdvanceKeeps
  <1>2. ASSUME NEW c \in ToSet(order), ExecuteRemediation(c) PROVE RatesInv'
    BY <1>2, RemediationKeeps
  <1>3. ASSUME NEW c \in ToSet(order), Recreate(c) PROVE RatesInv'
    BY <1>3, RecreateKeeps
  <1>4. ASSUME NEW k \in Collection, Begin(k) PROVE RatesInv'
    BY <1>4, BeginKeeps
  <1>5. ASSUME NEW k \in Collection, NextWithout(k) PROVE RatesInv'
    BY <1>5, WithoutKeeps
  <1>6. ASSUME NEW k \in Collection, ReadStats(k) PROVE RatesInv'
    BY <1>6, ReadKeeps
  <1>7. ASSUME NEW k \in Collection, Record(k) PROVE RatesInv'
    BY <1>7, RecordKeeps
  <1>8. ASSUME NEW k \in Collection, End(k) PROVE RatesInv'
    BY <1>8, EndKeeps
  <1>9. CASE UNCHANGED vars
    BY <1>9 DEF vars, docker, history, RatesInv, Typed, HostTyped, RunsTyped, FleetTyped,
       OnTime, OneAtATime, Sampled, ReadSince, NeverBack, ReadsAgree, Rated, ToldWithin,
       Reads, Sound, Within
  <1>10. QED
    BY <1>1, <1>2, <1>3, <1>4, <1>5, <1>6, <1>7, <1>8, <1>9 DEF Next

\* What the collector holds and returns is of the types its state and its fleets have
\* in agent/internal/infrastructure/docker/collector.go.
THEOREM CollectorTyped == Spec => []Typed
  <1>1. RatesInv => Typed
    BY DEF RatesInv
  <1>2. QED
    BY <1>1, RatesInit, RatesStep, PTL DEF Spec

\* However collections overlap, take their time and meet restarts, no rate a fleet tells
\* of is above what a container can send in the time it stands for and the time a
\* collection may take (computed in the loop of Collect over prevStates), unless
\* collections overlapped and that container was restarted.
THEOREM RatesBounded == Spec => []RateBounded
  <1>1. RatesInv => RateBounded
    BY DEF RatesInv, ToldWithin, Within, Sound, Most, RateBounded
  <1>2. QED
    BY <1>1, RatesInit, RatesStep, PTL DEF Spec

-----------------------------------------------------------------------------
(* What the graph says, told without positions: S is the set of what a     *)
(* list tells of, each of a container of its own.                          *)

Near(S, e) == {d \in S \ {e} : HaveSharedNetwork(e, d)}
Meant(S, e, token) == {d \in Near(S, e) : token \in Identifiers(d)}
Needs(S, e) == {d.name : d \in {x \in S : \E t \in e.tokens : x \in Meant(S, e, t)}}
Serves(S, e) == {d.name : d \in {x \in S : e.name \in Needs(S, x)}}
Lost(S, e) == {p \in e.ports : \E d \in S \ {e} : d.running /\ p \in d.ports}
Said(S, e) ==
  [of |-> e.name, needs |-> Needs(S, e), serves |-> Serves(S, e),
   radius |-> Cardinality(Near(S, e)), conflicts |-> Lost(S, e)]

Clear(S) ==
  /\ \A e \in S : \A c, d \in Near(S, e) :
       c # d => Identifiers(c) \intersect Identifiers(d) = {}
  /\ \A c, d \in S : c # d /\ c.running /\ d.running => c.ports \intersect d.ports = {}

\* A list that tells of nothing twice.
Once(list) == \A i, j \in DOMAIN list : i # j => list[i] # list[j]

LEMMA OneLeft == ASSUME NEW j \in Int PROVE Max({j}) = j
  BY DEF Max

\* The positions of siblings are those of the entries that share a network.
LEMMA SiblingsNear ==
  ASSUME NEW list \in Seq(Told), Once(list), NEW i \in DOMAIN list, NEW j \in DOMAIN list
  PROVE  j \in Siblings(list, i) <=> list[j] \in Near(ToSet(list), list[i])
  BY DEF Siblings, Near, ToSet, Once

LEMMA UnambiguousClear ==
  ASSUME NEW list \in Seq(Told), Once(list)
  PROVE  Unambiguous(list) <=> Clear(ToSet(list))
  <1> DEFINE S == ToSet(list)
  <1>1. \A e \in S : \E i \in DOMAIN list : e = list[i]
    BY DEF ToSet
  <1>2. \A i \in DOMAIN list : list[i] \in S
    BY DEF ToSet
  <1>3. \A e \in S : Near(S, e) \subseteq S
    BY DEF Near
  <1>4. \A i, j \in DOMAIN list : j \in Siblings(list, i) <=> list[j] \in Near(S, list[i])
    BY SiblingsNear
  <1>5. \A i \in DOMAIN list : Siblings(list, i) \subseteq DOMAIN list
    BY DEF Siblings
  <1> HIDE DEF S
  <1>6. ASSUME Unambiguous(list) PROVE Clear(S)
    <2>1. ASSUME NEW e \in S, NEW c \in Near(S, e), NEW d \in Near(S, e), c # d
          PROVE  Identifiers(c) \intersect Identifiers(d) = {}
      <3>1. PICK i \in DOMAIN list, j \in DOMAIN list, k \in DOMAIN list :
              e = list[i] /\ c = list[j] /\ d = list[k]
        BY <1>1, <1>3
      <3>2. j \in Siblings(list, i) /\ k \in Siblings(list, i) /\ j # k
        BY <1>4, <2>1, <3>1
      <3>3. QED
        BY <1>6, <3>1, <3>2 DEF Unambiguous
    <2>2. ASSUME NEW c \in S, NEW d \in S, c # d, c.running, d.running
          PROVE  c.ports \intersect d.ports = {}
      <3>1. PICK j \in DOMAIN list, k \in DOMAIN list : c = list[j] /\ d = list[k]
        BY <1>1
      <3>2. QED
        BY <1>6, <2>2, <3>1 DEF Unambiguous
    <2>3. QED
      BY <2>1, <2>2 DEF Clear
  <1>7. ASSUME Clear(S) PROVE Unambiguous(list)
    <2>1. ASSUME NEW i \in DOMAIN list, NEW j \in Siblings(list, i), NEW k \in Siblings(list, i),
                 j # k
          PROVE  Identifiers(list[j]) \intersect Identifiers(list[k]) = {}
      <3>1. j \in DOMAIN list /\ k \in DOMAIN list
        BY <1>5
      <3>2. list[j] \in Near(S, list[i]) /\ list[k] \in Near(S, list[i]) /\ list[j] # list[k]
        BY <1>4, <2>1, <3>1 DEF Once
      <3>3. QED
        BY <1>2, <1>7, <3>2 DEF Clear
    <2>2. ASSUME NEW j \in DOMAIN list, NEW k \in DOMAIN list, j # k,
                 list[j].running, list[k].running
          PROVE  list[j].ports \intersect list[k].ports = {}
      <3>1. list[j] # list[k] /\ list[j] \in S /\ list[k] \in S
        BY <1>2, <2>2 DEF Once
      <3>2. QED
        BY <1>7, <2>2, <3>1 DEF Clear
    <2>3. QED
      BY <2>1, <2>2 DEF Unambiguous
  <1>8. QED
    BY <1>6, <1>7 DEF S

LEMMA DependenciesSaid ==
  ASSUME NEW list \in Seq(Told), Once(list), Unambiguous(list), NEW i \in DOMAIN list
  PROVE  GetDependencies(list, i) = Needs(ToSet(list), list[i])
  <1> DEFINE S == ToSet(list)
             e == list[i]
  <1>1. DOMAIN list \subseteq Int
    OBVIOUS
  <1>2. \A j \in DOMAIN list : list[j] \in S
    BY DEF ToSet
  <1>3. ASSUME NEW t, NEW j \in Named(list, i, t)
        PROVE  /\ j \in DOMAIN list /\ list[j] \in Meant(S, e, t)
               /\ Named(list, i, t) = {j} /\ Max(Named(list, i, t)) = j
    <2>1. \A k \in Named(list, i, t) : /\ k \in Siblings(list, i) /\ k \in DOMAIN list
                                       /\ t \in Identifiers(list[k])
      BY DEF Named, Siblings
    <2>2. \A k \in Named(list, i, t) : k = j
      BY <2>1 DEF Unambiguous
    <2>3. Named(list, i, t) = {j}
      BY <2>2
    <2>4. j \in Int
      BY <1>1, <2>1
    <2>5. list[j] \in Meant(S, e, t)
      BY <2>1, SiblingsNear DEF Meant
    <2>6. QED
      BY <2>1, <2>3, <2>4, <2>5, OneLeft
  <1>4. ASSUME NEW t, NEW d \in Meant(S, e, t)
        PROVE  \E j \in Named(list, i, t) : d = list[j]
    <2>1. d \in Near(S, e) /\ t \in Identifiers(d)
      BY DEF Meant
    <2>2. PICK j \in DOMAIN list : d = list[j]
      BY <2>1 DEF Near, ToSet
    <2>3. j \in Siblings(list, i)
      BY <2>1, <2>2, SiblingsNear
    <2>4. QED
      BY <2>1, <2>2, <2>3 DEF Named
  <1>5. ASSUME NEW n \in GetDependencies(list, i) PROVE n \in Needs(S, e)
    <2>1. PICK t \in {u \in e.tokens : Named(list, i, u) # {}} :
            n = list[Max(Named(list, i, t))].name
      BY DEF GetDependencies
    <2>2. PICK j \in Named(list, i, t) : TRUE
      BY <2>1
    <2>3. n = list[j].name /\ list[j] \in Meant(S, e, t) /\ list[j] \in S /\ t \in e.tokens
      BY <1>2, <1>3, <2>1, <2>2
    <2> HIDE DEF S, e
    <2>4. QED
      BY <2>3 DEF Needs
  <1>6. ASSUME NEW n \in Needs(S, e) PROVE n \in GetDependencies(list, i)
    <2>1. PICK t \in e.tokens, d \in S : d \in Meant(S, e, t) /\ n = d.name
      BY DEF Needs
    <2>2. PICK j \in Named(list, i, t) : d = list[j]
      BY <1>4, <2>1
    <2>3. Max(Named(list, i, t)) = j
      BY <1>3
    <2>4. QED
      BY <2>1, <2>2, <2>3 DEF GetDependencies
  <1>7. QED
    BY <1>5, <1>6

LEMMA DependentsSaid ==
  ASSUME NEW list \in Seq(Told), Once(list), Unambiguous(list), NEW i \in DOMAIN list
  PROVE  GetDependents(list, i) = Serves(ToSet(list), list[i])
  <1> DEFINE S == ToSet(list)
             e == list[i]
  <1>1. \A k \in DOMAIN list : GetDependencies(list, k) = Needs(S, list[k])
    BY DependenciesSaid
  <1>2. /\ \A j \in DOMAIN list : list[j] \in S
        /\ \A d \in S : \E j \in DOMAIN list : d = list[j]
    BY DEF ToSet
  <1> HIDE DEF S
  <1>3. GetDependents(list, i) =
          {list[j].name : j \in {k \in DOMAIN list : e.name \in Needs(S, list[k])}}
    BY <1>1 DEF GetDependents
  <1>4. Serves(S, e) = {list[j].name : j \in {k \in DOMAIN list : e.name \in Needs(S, list[k])}}
    BY <1>2 DEF Serves
  <1>5. QED
    BY <1>3, <1>4 DEF S

LEMMA RadiusSaid ==
  ASSUME NEW list \in Seq(Told), Once(list), NEW i \in DOMAIN list
  PROVE  GetImpactRadius(list, i) = Cardinality(Near(ToSet(list), list[i]))
  <1> DEFINE S == ToSet(list)
             A == Siblings(list, i)
             B == Near(S, list[i])
             f == [j \in A |-> list[j]]
  <1>1. Len(list) \in Nat /\ DOMAIN list = 1 .. Len(list)
    OBVIOUS
  <1>2. IsFiniteSet(1 .. Len(list))
    BY <1>1, FS_Interval
  <1>3. A \in SUBSET (1 .. Len(list))
    BY <1>1 DEF Siblings
  <1>4. IsFiniteSet(A)
    BY <1>2, <1>3, FS_Subset
  <1>5. \A j \in DOMAIN list : j \in A <=> list[j] \in B
    BY SiblingsNear
  <1>6. \A d \in B : \E j \in DOMAIN list : d = list[j]
    BY DEF Near, ToSet
  <1> HIDE DEF A, B
  <1>7. f \in [A -> B]
    BY <1>1, <1>3, <1>5
  <1>8. \A d \in B : \E j \in A : f[j] = d
    BY <1>5, <1>6
  <1>9. \A j, k \in A : f[j] = f[k] => j = k
    BY <1>1, <1>3 DEF Once
  <1> HIDE DEF f
  <1>10. f \in Surjection(A, B)
    BY <1>7, <1>8 DEF Surjection
  <1>11. f \in Injection(A, B)
    BY <1>7, <1>9 DEF Injection, IsInjective
  <1>12. Cardinality(B) = Cardinality(A)
    BY <1>4, <1>10, <1>11, FS_Surjection
  <1>13. QED
    BY <1>12 DEF GetImpactRadius, A, B

LEMMA ConflictsSaid ==
  ASSUME NEW list \in Seq(Told), Once(list), Unambiguous(list), NEW i \in DOMAIN list
  PROVE  GetPortConflicts(list, i) = Lost(ToSet(list), list[i])
  <1> DEFINE S == ToSet(list)
             e == list[i]
  <1>1. DOMAIN list \subseteq Int
    OBVIOUS
  <1>2. /\ \A j \in DOMAIN list : list[j] \in S
        /\ \A d \in S : \E j \in DOMAIN list : d = list[j]
    BY DEF ToSet
  <1>3. ASSUME NEW p, NEW j \in Publishers(list, p)
        PROVE  /\ j \in DOMAIN list /\ list[j].running /\ p \in list[j].ports
               /\ Max(Publishers(list, p)) = j
    <2>1. \A k \in Publishers(list, p) : /\ k \in DOMAIN list /\ list[k].running
                                         /\ p \in list[k].ports
      BY DEF Publishers
    <2>2. \A k \in Publishers(list, p) : k = j
      BY <2>1 DEF Unambiguous
    <2>3. Publishers(list, p) = {j} /\ j \in Int
      BY <1>1, <2>1, <2>2
    <2>4. QED
      BY <2>1, <2>3, OneLeft
  <1> HIDE DEF S
  <1>4. ASSUME NEW p \in GetPortConflicts(list, i) PROVE p \in Lost(S, e)
    <2>1. PICK j \in Publishers(list, p) : TRUE
      BY DEF GetPortConflicts
    <2>2. j # i /\ j \in DOMAIN list /\ list[j].running /\ p \in list[j].ports /\ p \in e.ports
      BY <1>3 DEF GetPortConflicts
    <2>3. list[j] \in S \ {e}
      BY <1>2, <2>2 DEF Once
    <2>4. QED
      BY <2>2, <2>3 DEF Lost
  <1>5. ASSUME NEW p \in Lost(S, e) PROVE p \in GetPortConflicts(list, i)
    <2>1. PICK d \in S \ {e} : d.running /\ p \in d.ports /\ p \in e.ports
      BY DEF Lost
    <2>2. PICK j \in DOMAIN list : d = list[j]
      BY <1>2
    <2>3. j \in Publishers(list, p) /\ j # i
      BY <2>1, <2>2 DEF Publishers
    <2>4. Max(Publishers(list, p)) = j
      BY <1>3, <2>3
    <2>5. QED
      BY <2>1, <2>3, <2>4 DEF GetPortConflicts
  <1>6. QED
    BY <1>4, <1>5 DEF S

LEMMA FactsSaid ==
  ASSUME NEW list \in Seq(Told), Once(list), Unambiguous(list)
  PROVE  {Facts(list, i) : i \in DOMAIN list} = {Said(ToSet(list), e) : e \in ToSet(list)}
  <1> DEFINE S == ToSet(list)
  <1>1. ASSUME NEW i \in DOMAIN list PROVE Facts(list, i) = Said(S, list[i])
    <2>1. /\ GetDependencies(list, i) = Needs(S, list[i])
          /\ GetDependents(list, i) = Serves(S, list[i])
          /\ GetImpactRadius(list, i) = Cardinality(Near(S, list[i]))
          /\ GetPortConflicts(list, i) = Lost(S, list[i])
      BY DependenciesSaid, DependentsSaid, RadiusSaid, ConflictsSaid
    <2> HIDE DEF S
    <2>2. QED
      BY <2>1 DEF Facts, Said
  <1>2. S = {list[i] : i \in DOMAIN list}
    BY DEF ToSet
  <1> HIDE DEF S
  <1>3. {Facts(list, i) : i \in DOMAIN list} = {Said(S, list[i]) : i \in DOMAIN list}
    BY <1>1
  <1>4. {Said(S, e) : e \in S} = {Said(S, list[i]) : i \in DOMAIN list}
    BY <1>2
  <1>5. QED
    BY <1>3, <1>4 DEF S

\* A list of the same in another order.
LEMMA Reorderings ==
  ASSUME NEW list \in Seq(Told), Once(list), NEW other \in SetToSeqs(ToSet(list))
  PROVE  other \in Seq(Told) /\ Once(other) /\ ToSet(other) = ToSet(list)
  <1> DEFINE S == ToSet(list)
             n == Cardinality(S)
  <1>1. Len(list) \in Nat /\ list \in [1 .. Len(list) -> Told] /\ S = {list[i] : i \in 1 .. Len(list)}
    BY DEF ToSet
  <1> HIDE DEF S
  <1>2. IsFiniteSet(1 .. Len(list))
    BY <1>1, FS_Interval
  <1>3. list \in Surjection(1 .. Len(list), S)
    BY <1>1 DEF Surjection
  <1>4. IsFiniteSet(S)
    BY <1>2, <1>3, FS_Surjection
  <1>5. n \in Nat
    BY <1>4, FS_CardinalityType
  <1>6. other \in [1 .. n -> S] /\ \A i, j \in 1 .. n : i # j => other[i] # other[j]
    BY DEF SetToSeqs, S
  <1> HIDE DEF n
  <1>7. other \in Injection(1 .. n, S)
    BY <1>6 DEF Injection, IsInjective
  <1>8. IsFiniteSet(1 .. n) /\ Cardinality(1 .. n) = n
    BY <1>5, FS_Interval
  <1>9. other \in Surjection(1 .. n, S)
    BY <1>4, <1>7, <1>8, FS_Injection DEF n
  <1>10. \A e \in S : \E i \in 1 .. n : other[i] = e
    BY <1>9 DEF Surjection
  <1>11. ToSet(other) = S
    BY <1>6, <1>10 DEF ToSet
  <1>12. S \subseteq Told
    BY <1>1
  <1>13. other \in Seq(Told)
    BY <1>5, <1>6, <1>12
  <1>14. Once(other)
    BY <1>6 DEF Once
  <1>15. QED
    BY <1>11, <1>13, <1>14 DEF S

\* A graph does not depend on the order, for any list that tells of nothing twice.
LEMMA OrderIgnored ==
  ASSUME NEW list \in Seq(Told), Once(list), Unambiguous(list),
         NEW other \in SetToSeqs(ToSet(list))
  PROVE  {Facts(other, i) : i \in DOMAIN other} = {Facts(list, i) : i \in DOMAIN list}
  <1>1. other \in Seq(Told) /\ Once(other) /\ ToSet(other) = ToSet(list)
    BY Reorderings
  <1>2. Unambiguous(other)
    BY <1>1, UnambiguousClear
  <1>3. QED
    BY <1>1, <1>2, FactsSaid

-----------------------------------------------------------------------------
(* A collection tells of no container twice.                               *)

\* Of whom is told and who is still to do.
Each(found, todo) ==
  /\ Once(todo)
  /\ \A i, j \in DOMAIN found : i # j => found[i].name # found[j].name
  /\ \A i \in DOMAIN found, j \in DOMAIN todo : found[i].name # todo[j]

OneEach ==
  /\ Once(order)
  /\ \A k \in Collection : Each(runs[k].found, runs[k].todo)
  /\ Each(fleet, << >>)

EachInv == Typed /\ OneEach

LEMMA EachNext ==
  ASSUME NEW found \in Seq(Told), NEW todo \in Seq(Container), todo # << >>, Each(found, todo)
  PROVE  /\ Each(found, Tail(todo))
         /\ \A e \in Told : e.name = Head(todo) => Each(Append(found, e), Tail(todo))
  <1> DEFINE rest == Tail(todo)
  <1>1. Len(todo) \in Nat /\ Len(todo) > 0 /\ DOMAIN todo = 1 .. Len(todo) /\ Head(todo) = todo[1]
    OBVIOUS
  <1>2. \A j \in DOMAIN rest : /\ j \in Nat /\ j >= 1 /\ j + 1 \in DOMAIN todo
                               /\ rest[j] = todo[j + 1]
    BY <1>1
  <1> HIDE DEF rest
  <1>3. Once(rest)
    BY <1>2 DEF Each, Once
  <1>4. \A j \in DOMAIN rest : rest[j] # Head(todo)
    BY <1>1, <1>2 DEF Each, Once
  <1>5. Each(found, rest)
    BY <1>2, <1>3 DEF Each
  <1>6. ASSUME NEW e \in Told, e.name = Head(todo)
        PROVE  Each(Append(found, e), rest)
    <2> DEFINE more == Append(found, e)
    <2>1. Len(found) \in Nat /\ DOMAIN found = 1 .. Len(found)
      OBVIOUS
    <2>2. \A i \in DOMAIN more : \/ i \in DOMAIN found /\ more[i] = found[i]
                                 \/ i = Len(found) + 1 /\ more[i] = e
      BY <2>1
    <2> HIDE DEF more
    <2>3. \A i \in DOMAIN found : found[i].name # e.name
      BY <1>1, <1>6 DEF Each
    <2>4. \A i, j \in DOMAIN more : i # j => more[i].name # more[j].name
      BY <2>2, <2>3 DEF Each
    <2>5. \A i \in DOMAIN more, j \in DOMAIN rest : more[i].name # rest[j]
      BY <1>4, <1>5, <1>6, <2>2 DEF Each
    <2>6. QED
      BY <1>3, <2>4, <2>5 DEF Each, more
  <1>7. QED
    BY <1>5, <1>6 DEF rest

\* A container moved to the head of the list is listed once.
LEMMA MovedFirst ==
  ASSUME NEW list \in Seq(Container), Once(list), NEW i \in DOMAIN list
  PROVE  Once(<<list[i]>> \o RemoveAt(list, i))
  <1> DEFINE n == Len(list)
             head == SubSeq(list, 1, i - 1)
             tail == SubSeq(list, i + 1, n)
             moved == <<list[i]>> \o RemoveAt(list, i)
             from(p) == IF p = 1 THEN i ELSE IF p <= i THEN p - 1 ELSE p
  <1>1. n \in Nat /\ i \in 1 .. n /\ DOMAIN list = 1 .. n
    OBVIOUS
  <1>2. /\ head \in Seq(Container) /\ Len(head) = i - 1
        /\ \A p \in 1 .. i - 1 : head[p] = list[p]
    BY <1>1, SubSeqProperties
  <1>3. /\ tail \in Seq(Container) /\ Len(tail) = n - i
        /\ \A p \in 1 .. n - i : tail[p] = list[i + p]
    BY <1>1, SubSeqProperties
  <1> HIDE DEF head, tail, n
  <1>4. RemoveAt(list, i) = head \o tail
    BY DEF RemoveAt, head, tail, n
  <1>5. /\ head \o tail \in Seq(Container) /\ Len(head \o tail) = n - 1
        /\ \A p \in 1 .. n - 1 : (head \o tail)[p] = IF p < i THEN list[p] ELSE list[p + 1]
    <2>1. head \o tail \in Seq(Container) /\ Len(head \o tail) = (i - 1) + (n - i)
      <3>1. head \o tail \in Seq(Container) /\ Len(head \o tail) = Len(head) + Len(tail)
        BY <1>2, <1>3, ConcatProperties
      <3>2. QED
        BY <1>2, <1>3, <3>1
    <2>2. ASSUME NEW p \in 1 .. n - 1, p < i PROVE (head \o tail)[p] = list[p]
      BY <1>1, <1>2, <1>3, <2>2
    <2>3. ASSUME NEW p \in 1 .. n - 1, ~(p < i) PROVE (head \o tail)[p] = list[p + 1]
      <3>1. p - (i - 1) \in 1 .. n - i /\ i + (p - (i - 1)) = p + 1
        BY <1>1, <2>3
      <3>2. (head \o tail)[p] = tail[p - (i - 1)]
        BY <1>1, <1>2, <1>3, <2>3
      <3>3. QED
        BY <1>3, <3>1, <3>2
    <2>4. QED
      BY <1>1, <2>1, <2>2, <2>3
  <1>6. /\ DOMAIN moved = 1 .. n
        /\ \A p \in 1 .. n : moved[p] = list[from(p)]
    <2> DEFINE rest == head \o tail
    <2>1. rest \in Seq(Container) /\ Len(rest) = n - 1 /\ moved = <<list[i]>> \o rest
      BY <1>4, <1>5
    <2>2. \A p \in 1 .. n - 1 : rest[p] = IF p < i THEN list[p] ELSE list[p + 1]
      BY <1>5
    <2> HIDE DEF rest, moved
    <2>3. DOMAIN moved = 1 .. n /\ moved[1] = list[i] /\ \A p \in 2 .. n : moved[p] = rest[p - 1]
      BY <1>1, <2>1
    <2>4. ASSUME NEW p \in 2 .. n PROVE moved[p] = list[from(p)]
      <3>1. p - 1 \in 1 .. n - 1 /\ (p - 1) + 1 = p /\ p # 1 /\ (p - 1 < i <=> p <= i)
        BY <1>1
      <3>2. QED
        BY <2>2, <2>3, <3>1
    <2>5. QED
      BY <1>1, <2>3, <2>4
  <1>7. \A p \in 1 .. n : from(p) \in 1 .. n
    BY <1>1
  <1>8. \A p, q \in 1 .. n : p # q => from(p) # from(q)
    BY <1>1
  <1> HIDE DEF moved, from
  <1>9. Once(moved)
    BY <1>1, <1>6, <1>7, <1>8 DEF Once
  <1>10. QED
    BY <1>9 DEF moved

\* A step of a collection that leaves the list as it is.
LEMMA EachSteps ==
  ASSUME EachInv, NEW k \in Collection, NEW u, Steps(k, u), Each(u.found, u.todo),
         UNCHANGED order, Each(fleet', << >>)
  PROVE  OneEach'
  <1>1. runs'[k] = u /\ \A q \in Collection \ {k} : runs'[q] = runs[q]
    BY DEF EachInv, Typed, RunsTyped, Steps
  <1>2. QED
    BY <1>1 DEF EachInv, OneEach

LEMMA EachInit == Init => OneEach
  <1> SUFFICES ASSUME Init PROVE OneEach
    OBVIOUS
  <1>1. Once(order)
    BY Orders, CollectorAssumption DEF Init, Once
  <1>2. /\ runs = [k \in Collection |-> Over] /\ fleet = << >>
    BY DEF Init
  <1>3. Each(<< >>, << >>)
    BY DEF Each, Once
  <1>4. Over.found = << >> /\ Over.todo = << >>
    BY DEF Over
  <1>5. QED
    BY <1>1, <1>2, <1>3, <1>4 DEF OneEach

LEMMA EachStep == EachInv /\ [Next]_vars => OneEach'
  <1> SUFFICES ASSUME EachInv, [Next]_vars PROVE OneEach'
    OBVIOUS
  <1>1. Typed /\ OneEach
    BY DEF EachInv
  <1>2. CASE Advance
    BY <1>1, <1>2 DEF Advance, OneEach
  <1>3. ASSUME NEW c \in ToSet(order), ExecuteRemediation(c) PROVE OneEach'
    BY <1>1, <1>3 DEF ExecuteRemediation, OneEach
  <1>4. ASSUME NEW c \in ToSet(order), Recreate(c) PROVE OneEach'
    <2>1. PICK i \in DOMAIN order : order[i] = c /\ order' = <<c>> \o RemoveAt(order, i)
      BY <1>4 DEF Recreate
    <2>2. order \in Seq(Container) /\ Once(order)
      BY <1>1 DEF Typed, HostTyped, OneEach
    <2>3. Once(order')
      BY <2>1, <2>2, MovedFirst
    <2>4. UNCHANGED <<runs, fleet>>
      BY <1>4 DEF Recreate
    <2>5. QED
      BY <1>1, <2>3, <2>4 DEF OneEach
  <1>5. \A k \in Collection :
          /\ Each(runs[k].found, runs[k].todo)
          /\ runs[k].found \in Seq(Told) /\ runs[k].todo \in Seq(Container)
    BY <1>1 DEF OneEach, Typed, RunsTyped, Run
  <1>6. Once(order) /\ Each(fleet, << >>)
    BY <1>1 DEF OneEach
  <1>7. ASSUME NEW k \in Collection, Begin(k) PROVE OneEach'
    <2>1. PICK u \in Run : Steps(k, u) /\ u.found = << >> /\ u.todo = order
      BY <1>1, <1>7, BeginSteps
    <2>2. Each(u.found, u.todo)
      BY <1>6, <2>1 DEF Each
    <2>3. UNCHANGED <<order, fleet>>
      BY <1>7 DEF Begin, docker
    <2>4. QED
      BY <1>6, <2>1, <2>2, <2>3, EachSteps
  <1>8. ASSUME NEW k \in Collection, NextWithout(k) PROVE OneEach'
    <2>1. PICK u \in Run :
            /\ Steps(k, u) /\ runs[k].todo # << >> /\ u.todo = Tail(runs[k].todo)
            /\ \/ u.found = runs[k].found
               \/ \E e \in Told : /\ u.found = Append(runs[k].found, e)
                                  /\ e.name = Head(runs[k].todo)
      BY <1>1, <1>8, WithoutSteps
    <2>2. Each(u.found, u.todo)
      BY <1>5, <2>1, EachNext
    <2>3. UNCHANGED <<order, fleet>>
      BY <1>8 DEF NextWithout, docker
    <2>4. QED
      BY <1>6, <2>1, <2>2, <2>3, EachSteps
  <1>9. ASSUME NEW k \in Collection, ReadStats(k) PROVE OneEach'
    <2>1. PICK u \in Run : Steps(k, u) /\ u.found = runs[k].found /\ u.todo = runs[k].todo
      BY <1>1, <1>9, ReadSteps
    <2>2. UNCHANGED <<order, fleet>>
      BY <1>9 DEF ReadStats, docker
    <2>3. QED
      BY <1>5, <1>6, <2>1, <2>2, EachSteps
  <1>10. ASSUME NEW k \in Collection, Record(k) PROVE OneEach'
    <2>1. PICK u \in Run, e \in Told, c \in Container :
            /\ Steps(k, u) /\ Reads(k, c) /\ runs[k].todo # << >>
            /\ u.todo = Tail(runs[k].todo) /\ u.found = Append(runs[k].found, e) /\ e.name = c
      BY <1>1, <1>10, RecordSteps
    <2>2. e.name = Head(runs[k].todo)
      BY <2>1 DEF Reads
    <2>3. Each(u.found, u.todo)
      BY <1>5, <2>1, <2>2, EachNext
    <2>4. UNCHANGED <<order, fleet>>
      BY <1>10 DEF Record, docker
    <2>5. QED
      BY <1>6, <2>1, <2>3, <2>4, EachSteps
  <1>11. ASSUME NEW k \in Collection, End(k) PROVE OneEach'
    <2>1. Steps(k, Over) /\ Over.found = << >> /\ fleet' = runs[k].found
      BY <1>1, <1>11, EndSteps
    <2>2. Over.todo = << >>
      BY DEF Over
    <2>3. Each(Over.found, Over.todo)
      BY <2>1, <2>2 DEF Each, Once
    <2>4. Each(fleet', << >>)
      BY <1>5, <2>1 DEF Each, Once
    <2>5. UNCHANGED order
      BY <1>11 DEF End, docker
    <2>6. QED
      BY <2>1, <2>3, <2>4, <2>5, EachSteps
  <1>12. CASE UNCHANGED vars
    BY <1>1, <1>12 DEF vars, docker, OneEach
  <1>13. QED
    BY <1>2, <1>3, <1>4, <1>7, <1>8, <1>9, <1>10, <1>11, <1>12 DEF Next

\* The graph inferred from what a collection returned says the same in whatever order
\* Docker lists the containers (agent/internal/core/service/dependency_graph.go keeps, of
\* two that answer to a name or publish a port, the last listed), as long as no name and
\* no port means two of them.
THEOREM OrderOfGraphIgnored == Spec => []GraphIgnoresOrder
  <1>1. EachInv => GraphIgnoresOrder
    <2> SUFFICES ASSUME EachInv, Unambiguous(fleet), NEW other \in SetToSeqs(ToSet(fleet))
                 PROVE  {Facts(other, i) : i \in DOMAIN other} = {Facts(fleet, i) : i \in DOMAIN fleet}
      BY DEF GraphIgnoresOrder
    <2>1. fleet \in Seq(Told)
      BY DEF EachInv, Typed, FleetTyped
    <2>2. Once(fleet)
      BY DEF EachInv, OneEach, Each, Once
    <2>3. QED
      BY <2>1, <2>2, OrderIgnored
  <1>2. Init => OneEach
    BY EachInit
  <1>3. RatesInv => Typed
    BY DEF RatesInv
  <1>4. (Typed /\ OneEach) /\ [Next]_vars => OneEach'
    BY EachStep DEF EachInv
  <1>5. (Typed /\ OneEach) => GraphIgnoresOrder
    BY <1>1 DEF EachInv
  <1>6. QED
    BY <1>2, <1>3, <1>4, <1>5, RatesInit, RatesStep, PTL DEF Spec
=============================================================================
