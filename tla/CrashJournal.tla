---------------------------- MODULE CrashJournal ----------------------------
(***************************************************************************)
(* The memory of crashes (agent/internal/core/service/crash_journal.go):   *)
(* for each container its last Keep crashes, each with the diagnosis that  *)
(* was given of it.  It lives in memory only and every method holds its    *)
(* mutex from end to end, so each is one step of whoever calls it.         *)
(*                                                                         *)
(* A snapshot is what a collection saw of a container: the status text     *)
(* (what happened, and how long ago) and the time of its last change, 0    *)
(* when the inspection that reads it failed.                               *)
(***************************************************************************)
EXTENDS Naturals, Sequences, FiniteSetsExt

CONSTANTS
  Container,
  Kind,        \* what a status says happened: "running", "up", "oom", ...
  Keep,        \* the crashes remembered of a container (50)
  Threshold,   \* crashes of a kind that make it recurrent (3)
  Window,      \* ... within this time (1 h)
  MaxTime      \* bound: the last instant of the model

ASSUME JournalAssumption ==
  Keep \in Nat \ {0} /\ Threshold \in Nat \ {0} /\ Window \in Nat /\ MaxTime \in Nat

VARIABLES
  now,
  journal,     \* journal[c]: the crashes remembered of c, oldest first
  recorded     \* the marks of the crashes recorded so far (recordedKeys)

journalVars == <<journal, recorded>>

Instant == 0 .. MaxTime
\* Of a diagnosis, where it came from: "AI", "AI~", "RULE" or "SIG".
NoDiagnosis == ""

\* A slip of Mark: by the time of the recording instead.
MarkWhenSeen(s) == <<s.container, "at", now, s.kind>>

\* dedupeKey: by the time of the change when it is known, else by the text.
Mark(s) ==
  IF s.stamp > 0 THEN <<s.container, "at", s.stamp, s.kind>>
                 ELSE <<s.container, "text", s.ago, s.kind>>

Marks == Container \X {"at", "text"} \X Instant \X Kind
JournalInit ==
  /\ now = 1
  /\ journal = [c \in Container |-> << >>]
  /\ recorded = {}

-----------------------------------------------------------------------------
(* The methods that change the journal.                                    *)

\* A slip of Remember: the newest is dropped.
RememberOldest(list, e) == IF Len(list) < Keep THEN Append(list, e) ELSE list

Remember(list, e) ==
  LET longer == Append(list, e) IN
  IF Len(longer) > Keep THEN SubSeq(longer, Len(longer) - Keep + 1, Len(longer)) ELSE longer

Fresh(s) == Mark(s) \notin recorded

\* Record, for every snapshot of S: at most one of each container.
RecordAll(S, d) ==
  LET fresh == {s \in S : Fresh(s)} IN
  /\ recorded' = recorded \union {Mark(s) : s \in fresh}
  /\ journal' = [c \in Container |->
       IF \E s \in fresh : s.container = c
       THEN LET s == CHOOSE t \in fresh : t.container = c IN
            Remember(journal[c],
                     [at |-> now, kind |-> s.kind, mark |-> Mark(s), diagnosis |-> d])
       ELSE journal[c]]

\* UpdateDiagnosis: on the last crash recorded of c, whichever that is by now.
UpdateDiagnosis(c, d) ==
  /\ journal' = IF journal[c] = << >> THEN journal
                ELSE [journal EXCEPT ![c][Len(journal[c])].diagnosis = d]
  /\ UNCHANGED recorded

-----------------------------------------------------------------------------
(* The methods that read it.                                               *)

\* The positions in the list of the crashes within the window.
Recent(c) == {n \in DOMAIN journal[c] : journal[c][n].at + Window > now}

Count(c, kind) == Cardinality({n \in Recent(c) : journal[c][n].kind = kind})

IsRecurrent(c, kind) == Count(c, kind) >= Threshold

KindsOf(c) == {journal[c][n].kind : n \in Recent(c)}

Homogeneity(c) ==
  LET first == journal[c][Min(Recent(c))].kind IN
  IF Recent(c) = {} THEN "" ELSE IF KindsOf(c) # {first} THEN "mixed" ELSE first

\* The hypothesis of a prompt: the latest diagnosis, that of the present crash included.
Hypothesis(c) ==
  LET given == {n \in DOMAIN journal[c] : journal[c][n].diagnosis # NoDiagnosis} IN
  IF given = {} THEN NoDiagnosis ELSE journal[c][Max(given)].diagnosis

\* FormatPromptBlock: how many crashes, of which kind, and the hypothesis.
PromptBlock(c) ==
  LET all == journal[c] IN
  [crashes |-> IF Recent(c) = {} THEN Len(all) ELSE Cardinality(Recent(c)),
   kinds |-> IF Cardinality(KindsOf(c)) > 1 THEN "mixed" ELSE all[Len(all)].kind,
   hypothesis |-> Hypothesis(c)]

-----------------------------------------------------------------------------
(* Properties.                                                             *)

\* The block for the prompt counts and classifies on its own what Count and Homogeneity
\* do; when no crash is within the window it speaks of the older ones.
BlockAgrees(c) ==
  Recent(c) # {} =>
    /\ PromptBlock(c).crashes = Cardinality(Recent(c))
    /\ PromptBlock(c).kinds = Homogeneity(c)

Promise(c) ==
  INSTANCE BoundedFifo WITH Item <- Marks, Capacity <- Keep, returned <- << >>,
                            queue <- [i \in DOMAIN journal[c] |-> journal[c][i].mark]

\* Each container's list is a bounded queue of crashes that drops its oldest,
\* and takes every crash that gets a mark.
JournalIsFifo ==
  [][\A c \in Container :
       LET fresh == {m \in recorded' \ recorded : m[1] = c} IN
       IF fresh = {} THEN UNCHANGED [i \in DOMAIN journal[c] |-> journal[c][i].mark]
       ELSE \E m \in fresh : Promise(c)!Put(m)]_journalVars
=============================================================================
