---------------------------- MODULE VaultProofs ----------------------------
(***************************************************************************)
(* What a file holds as credentials is always one pair, and where saves    *)
(* neither overlap nor fail halfway what was last saved is what is read,   *)
(* for any number of processes, values and saves.  The payload a save has  *)
(* read and not yet written must be as whole as the file it came from.     *)
(***************************************************************************)
EXTENDS CredentialVault, TLAPS

AnyValue == Value \union {Left, Absent, None}
PayloadRecord ==
  [whole : BOOLEAN, url : AnyValue, token : AnyValue,
   rest : [Field \ {"credentials"} -> AnyValue]]
OpRecord ==
  [at : {"idle", "keyring", "read", "truncate", "write"}, field : Field,
   value : AnyValue, item : Nat, read : PayloadRecord]

Typed == file \in PayloadRecord /\ op \in [Process -> OpRecord]
ReadWhole == \A p \in Process : op[p].read.url = op[p].read.token
IInv == Typed /\ FilePairsWhole /\ ReadWhole

\* What the constant payloads are made of.
LEMMA Payloads ==
  /\ \A v \in AnyValue : Full(v) \in PayloadRecord /\ Full(v).url = Full(v).token
  /\ Payload \in PayloadRecord /\ Payload.url = Payload.token
  /\ Unreadable \in PayloadRecord /\ Unreadable.url = Unreadable.token
  /\ Idle \in OpRecord /\ Idle.read = Payload
  /\ \A f \in Field : Values(f) \subseteq AnyValue
  <1>1. \A v \in AnyValue : Full(v) \in PayloadRecord /\ Full(v).url = Full(v).token
    BY DEF Full, PayloadRecord
  <1>2. Payload \in PayloadRecord /\ Payload.url = Payload.token
    BY <1>1 DEF Payload, AnyValue
  <1>3. Unreadable \in PayloadRecord /\ Unreadable.url = Unreadable.token
    BY <1>2 DEF Unreadable, PayloadRecord
  <1>4. Idle \in OpRecord /\ Idle.read = Payload
    BY <1>2 DEF Idle, OpRecord, AnyValue, Field
  <1>5. \A f \in Field : Values(f) \subseteq AnyValue
    BY DEF Values, AnyValue
  <1>6. QED
    BY <1>1, <1>2, <1>3, <1>4, <1>5

LEMMA InitPairs == Init => IInv
  <1> SUFFICES ASSUME Init PROVE IInv
    OBVIOUS
  <1>1. op = [p \in Process |-> Idle] /\ (file = Unreadable \/ \E w \in AnyValue : file = Full(w))
    BY DEF Init, AnyValue
  <1>2. QED
    BY <1>1, Payloads DEF IInv, Typed, FilePairsWhole, ReadWhole

\* A step changes the file to nothing, or to what a save wrote; it changes a save to the
\* next of its stages, keeping what it has read, except where it reads.
LEMMA StepPairs == IInv /\ [Next]_vars => IInv'
  <1> SUFFICES ASSUME IInv, [Next]_vars PROVE IInv'
    OBVIOUS
  <1> USE DEF IInv, Typed, FilePairsWhole, ReadWhole
  <1> DEFINE Stays(p) ==
               /\ op' \in [Process -> OpRecord]
               /\ \A q \in Process : op'[q].read = op[q].read \/ op'[q].read = Payload
  <1>1. ASSUME NEW p \in Process, Stays(p), file' = file PROVE IInv'
    BY <1>1, Payloads
  <1> HIDE DEF Stays
  <1>2. ASSUME NEW p \in Process, NEW at \in {"read", "write"}, To(p, at) PROVE Stays(p)
    BY <1>2 DEF To, Stays, OpRecord
  <1>3. ASSUME NEW p \in Process, NextItem(p) PROVE Stays(p)
    <2> DEFINE next == [op[p] EXCEPT !.item = op[p].item + 1]
    <2>1. op' = [op EXCEPT ![p] = Idle] \/ op' = [op EXCEPT ![p] = next]
      <3> DEFINE last == op[p].item = Len(Items(op[p].field))
      <3>1. op' = [op EXCEPT ![p] = IF last THEN Idle ELSE next]
        BY <1>3 DEF NextItem
      <3> HIDE DEF last, next
      <3>2. QED
        BY <3>1
    <2>2. CASE op' = [op EXCEPT ![p] = Idle]
      BY <2>2, Payloads DEF Stays
    <2>3. next \in OpRecord /\ next.read = op[p].read
      BY DEF OpRecord
    <2> HIDE DEF next
    <2>4. CASE op' = [op EXCEPT ![p] = next]
      BY <2>3, <2>4 DEF Stays
    <2>5. QED
      BY <2>1, <2>2, <2>4
  <1>4. ASSUME NEW p \in Process, Save(p) PROVE IInv'
    <2>1. PICK f \in Field, v \in AnyValue :
            /\ op' = [op EXCEPT ![p] = [Idle EXCEPT !.at = "keyring", !.field = f, !.value = v]]
            /\ file' = file
      BY <1>4, Payloads DEF Save, Begin
    <2>2. [Idle EXCEPT !.at = "keyring", !.field = f, !.value = v] \in OpRecord
      BY <2>1, Payloads DEF OpRecord
    <2>3. [Idle EXCEPT !.at = "keyring", !.field = f, !.value = v].read = Payload
      BY Payloads DEF OpRecord
    <2>4. Stays(p)
      BY <2>1, <2>2, <2>3 DEF Stays
    <2>5. QED
      BY <1>1, <2>1, <2>4
  <1>5. ASSUME NEW p \in Process, SetItem(p) PROVE IInv'
    BY <1>1, <1>3, <1>5 DEF SetItem
  <1>6. ASSUME NEW p \in Process, SetFails(p) PROVE IInv'
    BY <1>1, <1>2, <1>3, <1>6 DEF SetFails
  <1>7. ASSUME NEW p \in Process, ReadPayload(p) PROVE IInv'
    <2>1. WhatFileHas \in PayloadRecord /\ WhatFileHas.url = WhatFileHas.token
      BY Payloads DEF WhatFileHas
    <2>2. /\ op' = [op EXCEPT ![p] = [@ EXCEPT !.read = WhatFileHas, !.at = "truncate"]]
          /\ file' = file
      BY <1>7 DEF ReadPayload
    <2> HIDE DEF WhatFileHas
    <2>3. QED
      BY <2>1, <2>2 DEF OpRecord
  <1>8. ASSUME NEW p \in Process, Truncate(p) PROVE IInv'
    <2>1. Stays(p) /\ file' = Unreadable
      BY <1>2, <1>8 DEF Truncate
    <2>2. QED
      BY <2>1, Payloads DEF Stays
  <1>9. ASSUME NEW p \in Process, WritePayload(p) PROVE IInv'
    <2>1. op[p] \in OpRecord /\ op[p].read.url = op[p].read.token
      OBVIOUS
    <2>2. Written(op[p]) \in PayloadRecord /\ Written(op[p]).url = Written(op[p]).token
      <3>1. CASE op[p].field = "credentials"
        BY <2>1, <3>1 DEF Written, OpRecord, PayloadRecord
      <3>2. CASE op[p].field # "credentials"
        BY <2>1, <3>2 DEF Written, OpRecord, PayloadRecord
      <3>3. QED
        BY <3>1, <3>2
    <2>3. Stays(p) /\ file' \in {Written(op[p]), Unreadable}
      BY <1>9, Payloads DEF WritePayload, Stays
    <2> HIDE DEF Written
    <2>4. QED
      BY <2>2, <2>3, Payloads DEF Stays
  <1>10. ASSUME NEW p \in Process, Crash(p) PROVE IInv'
    <2>1. Stays(p) /\ file' = file
      BY <1>10, Payloads DEF Crash, Stays
    <2>2. QED
      BY <1>1, <2>1
  <1>11. CASE UNCHANGED vars
    BY <1>11 DEF vars
  <1>12. QED
    BY <1>4, <1>5, <1>6, <1>7, <1>8, <1>9, <1>10, <1>11 DEF Next

\* Whatever crashes, fails or overlaps, the address and the token in the file
\* (FileVault.Save, writePayload) belong together.
THEOREM VaultPairs == Spec => []FilePairsWhole
  <1>1. IInv => FilePairsWhole
    BY DEF IInv
  <1>2. QED
    BY InitPairs, StepPairs, <1>1, PTL DEF Spec

-----------------------------------------------------------------------------
(* One save at a time, and each whole: the stores hold what was saved.     *)

StoresTyped ==
  /\ keyring \in [Item -> AnyValue] /\ up \in [Process -> BOOLEAN]
  /\ saved \in [keyring : [Field -> AnyValue], file : [Field -> AnyValue]]

Alone == \A p, q \in Process : ~Under(p, "idle") /\ ~Under(q, "idle") => p = q

\* p is setting items of the keyring.
Sets(p) == Under(p, "keyring") /\ up[p]
OnAnItem == \A p \in Process : Under(p, "keyring") => op[p].item \in DOMAIN Items(op[p].field)

\* All items of a field are what was saved last, but those that are being set.
KeyringFollows ==
  /\ \A f \in Field : (~\E p \in Process : Sets(p) /\ op[p].field = f) =>
       \A i \in DOMAIN Items(f) : keyring[Items(f)[i]] = saved.keyring[f]
  /\ \A p \in Process : Sets(p) =>
       \A i \in 1 .. op[p].item - 1 : keyring[Items(op[p].field)[i]] = op[p].value

\* A payload that holds what was last saved.
Holds(payload) ==
  /\ payload.whole
  /\ payload.url = saved.file["credentials"] /\ payload.token = saved.file["credentials"]
  /\ \A f \in Field \ {"credentials"} : payload.rest[f] = saved.file[f]

NothingSaved == \A f \in Field : saved.file[f] = Absent

\* A save that has read the file holds what was saved before, until it has written.
FileFollows ==
  /\ \A p \in Process : Under(p, "truncate") \/ Under(p, "write") => Holds(op[p].read)
  /\ \A p \in Process : Under(p, "write") => file = Unreadable
  /\ (\A p \in Process : ~Under(p, "write")) => Holds(file) \/ (file = Unreadable /\ NothingSaved)

StoresFollow == Alone /\ OnAnItem /\ KeyringFollows /\ FileFollows
SavedInv == Typed /\ StoresTyped /\ (world = {} => StoresFollow)

LEMMA ItemsOf ==
  /\ \A f \in Field : Items(f) \in Seq(Item) /\ Len(Items(f)) >= 1
  /\ \A f, g \in Field : \A i \in DOMAIN Items(f), j \in DOMAIN Items(g) :
       Items(f)[i] = Items(g)[j] => f = g /\ i = j
  /\ \A f \in Field : \A i \in DOMAIN Items(f) :
       Items(f)[i] = "openrouter_key" => i # Len(Items(f))
  <1>1. Items("credentials") = <<"server_url", "secret_token">>
    BY DEF Items
  <1>2. Items("ai_config") = <<"openrouter_key", "ai_config">>
    BY DEF Items
  <1>3. \A f \in Field \ {"credentials", "ai_config"} : Items(f) = <<f>>
    BY DEF Items
  <1> DEFINE Single == Field \ {"credentials", "ai_config"}
  <1>4. /\ \A f \in Single : f \in Item
        /\ \A f \in Single : f \notin {"server_url", "secret_token", "openrouter_key", "ai_config"}
    BY VaultAssumption DEF Field, Item
  <1>5. \A f \in Field : f = "credentials" \/ f = "ai_config" \/ f \in Single
    OBVIOUS
  <1> HIDE DEF Single
  <1>6. \A f \in Single : Items(f) = <<f>>
    BY <1>3 DEF Single
  <1>7. ASSUME NEW f \in Field PROVE Items(f) \in Seq(Item) /\ Len(Items(f)) >= 1
    <2>0. {"server_url", "secret_token", "openrouter_key", "ai_config"} \subseteq Item
      BY DEF Item
    <2>1. \A i \in Item : <<i>> \in Seq(Item) /\ Len(<<i>>) = 1
      OBVIOUS
    <2>2. \A i, j \in Item : <<i, j>> \in Seq(Item) /\ Len(<<i, j>>) = 2
      OBVIOUS
    <2>3. \/ \E i \in Item : Items(f) = <<i>>
          \/ \E i, j \in Item : Items(f) = <<i, j>>
      BY <1>1, <1>2, <1>4, <1>5, <1>6, <2>0
    <2>4. Items(f) \in Seq(Item) /\ (Len(Items(f)) = 1 \/ Len(Items(f)) = 2)
      BY <2>1, <2>2, <2>3, Zenon
    <2>5. QED
      BY <2>4
  <1>8. ASSUME NEW f \in Field, NEW i \in DOMAIN Items(f)
        PROVE  \/ f = "credentials" /\ i = 1 /\ Items(f)[i] = "server_url"
               \/ f = "credentials" /\ i = 2 /\ Items(f)[i] = "secret_token"
               \/ f = "ai_config" /\ i = 1 /\ Len(Items(f)) = 2 /\ Items(f)[i] = "openrouter_key"
               \/ f = "ai_config" /\ i = 2 /\ Items(f)[i] = "ai_config"
               \/ f \in Single /\ i = 1 /\ Items(f)[i] = f
    BY <1>1, <1>2, <1>5, <1>6
  <1>9. ASSUME NEW f \in Field, NEW g \in Field, NEW i \in DOMAIN Items(f),
               NEW j \in DOMAIN Items(g), Items(f)[i] = Items(g)[j]
        PROVE  f = g /\ i = j
    BY <1>4, <1>8, <1>9
  <1>10. ASSUME NEW f \in Field, NEW i \in DOMAIN Items(f), Items(f)[i] = "openrouter_key"
         PROVE  i # Len(Items(f))
    BY <1>4, <1>8, <1>10
  <1>11. QED
    BY <1>7, <1>9, <1>10

LEMMA IdleIs ==
  /\ Idle.at = "idle"
  /\ \A f \in Field, v \in AnyValue :
       LET o == [Idle EXCEPT !.at = "keyring", !.field = f, !.value = v]
       IN o.at = "keyring" /\ o.field = f /\ o.value = v /\ o.item = 1
  BY DEF Idle

LEMMA InitSaved == Init => SavedInv
  <1> SUFFICES ASSUME Init PROVE SavedInv
    OBVIOUS
  <1>1. Typed
    BY InitPairs DEF IInv
  <1>2. PICK v \in {Left, Absent}, w \in {Left, Absent} :
          /\ keyring = [i \in Item |-> v]
          /\ file = IF w = Absent THEN Unreadable ELSE Full(w)
          /\ saved = [keyring |-> [f \in Field |-> v], file |-> [f \in Field |-> w]]
          /\ up \in [Process -> BOOLEAN] /\ op = [p \in Process |-> Idle]
    BY DEF Init
  <1>3. v \in AnyValue /\ w \in AnyValue
    BY DEF AnyValue
  <1>4. StoresTyped
    BY <1>2, <1>3 DEF StoresTyped
  <1>5. \A p \in Process : Under(p, "idle")
    BY <1>2, IdleIs DEF Under
  <1>6. Alone /\ OnAnItem
    BY <1>5 DEF Alone, OnAnItem, Under
  <1>7. KeyringFollows
    <2>1. ASSUME NEW f \in Field, NEW i \in DOMAIN Items(f)
          PROVE  keyring[Items(f)[i]] = saved.keyring[f]
      <3>1. Items(f)[i] \in Item
        BY ItemsOf
      <3>2. QED
        BY <1>2, <3>1
    <2>2. ~\E p \in Process : Sets(p)
      BY <1>5 DEF Sets, Under
    <2>3. QED
      BY <2>1, <2>2 DEF KeyringFollows
  <1>8. FileFollows
    <2>1. CASE w = Absent
      BY <1>2, <1>5, <2>1 DEF FileFollows, Under, NothingSaved
    <2>2. CASE w # Absent
      <3>1. file = Full(w) /\ \A f \in Field : saved.file[f] = w
        BY <1>2, <2>2
      <3>2. "credentials" \in Field
        BY DEF Field
      <3>3. Holds(file)
        BY <3>1, <3>2 DEF Holds, Full
      <3>4. QED
        BY <1>5, <3>3 DEF FileFollows, Under
    <2>3. QED
      BY <2>1, <2>2
  <1>9. QED
    BY <1>1, <1>4, <1>6, <1>7, <1>8 DEF SavedInv, StoresFollow

\* Step of p alone, which goes to u.
Goes(p, u) == op' = [op EXCEPT ![p] = u]

LEMMA OneAtWork ==
  ASSUME Typed, Alone, NEW p \in Process, NEW u, Goes(p, u),
         ~Under(p, "idle") \/ \A q \in Process : Under(q, "idle")
  PROVE  /\ op'[p] = u /\ Alone'
         /\ \A q \in Process \ {p} : op'[q] = op[q] /\ op[q].at = "idle"
  <1>1. op'[p] = u /\ \A q \in Process \ {p} : op'[q] = op[q]
    BY DEF Typed, Goes
  <1>2. \A q \in Process \ {p} : op[q].at = "idle"
    BY DEF Alone, Under
  <1>3. Alone'
    BY <1>1, <1>2 DEF Alone, Under
  <1>4. QED
    BY <1>1, <1>2, <1>3

\* A step that leaves the keyring, and what was saved there, as they are.
LEMMA KeyringRests ==
  ASSUME StoresFollow, Typed, NEW p \in Process, NEW u, Goes(p, u),
         ~Under(p, "idle") \/ \A q \in Process : Under(q, "idle"),
         UNCHANGED <<keyring, up, saved.keyring>>,
         ~Sets(p), u.at = "keyring" => u.item \in DOMAIN Items(u.field),
         u.at = "keyring" /\ up[p] => u.item = 1
  PROVE  Alone' /\ OnAnItem' /\ KeyringFollows'
  <1>1. /\ op'[p] = u /\ Alone'
        /\ \A q \in Process \ {p} : op'[q] = op[q] /\ op[q].at = "idle"
    BY OneAtWork DEF StoresFollow
  <1>2. OnAnItem'
    BY <1>1 DEF OnAnItem, Under
  <1>3. \A q \in Process : ~Sets(q)
    BY <1>1 DEF Sets, Under
  <1>4. \A f \in Field : \A i \in DOMAIN Items(f) : keyring'[Items(f)[i]] = saved'.keyring[f]
    BY <1>3 DEF StoresFollow, KeyringFollows
  <1>5. \A q \in Process : Sets(q)' => q = p /\ op'[q].item = 1
    BY <1>1 DEF Sets, Under
  <1>6. KeyringFollows'
    BY <1>4, <1>5 DEF KeyringFollows
  <1>7. QED
    BY <1>1, <1>2, <1>6

\* A step that leaves the file, and what was saved there, as they are.
LEMMA FileRests ==
  ASSUME StoresFollow, Typed, NEW p \in Process, NEW u, Goes(p, u),
         ~Under(p, "idle") \/ \A q \in Process : Under(q, "idle"),
         UNCHANGED <<file, saved.file>>, op[p].at \in {"idle", "keyring"},
         u.at \in {"idle", "keyring", "read"}
  PROVE  FileFollows'
  <1>1. /\ op'[p] = u
        /\ \A q \in Process \ {p} : op'[q] = op[q] /\ op[q].at = "idle"
    BY OneAtWork DEF StoresFollow
  <1>2. \A q \in Process : op'[q].at \notin {"truncate", "write"} /\ op[q].at # "write"
    BY <1>1
  <1>3. Holds(file)' \/ (file' = Unreadable /\ NothingSaved')
    BY <1>2 DEF StoresFollow, FileFollows, Holds, NothingSaved, Under
  <1>4. QED
    BY <1>2, <1>3 DEF FileFollows, Under

LEMMA SaveFollows ==
  ASSUME SavedInv, world = {}, NEW p \in Process, Save(p)
  PROVE  StoresFollow' /\ StoresTyped'
  <1>1. PICK f \in Field, v \in AnyValue : Begin(p, f, v)
    BY Payloads DEF Save
  <1> DEFINE u == [Idle EXCEPT !.at = "keyring", !.field = f, !.value = v]
  <1>2. /\ Goes(p, u) /\ \A q \in Process : Under(q, "idle")
        /\ UNCHANGED <<keyring, file, up, saved>>
    BY <1>1 DEF Begin, Goes
  <1>3. u.at = "keyring" /\ u.field = f /\ u.item = 1
    BY IdleIs
  <1>4. 1 \in DOMAIN Items(f)
    BY ItemsOf
  <1>5. Typed /\ StoresFollow /\ StoresTyped
    BY DEF SavedInv
  <1> HIDE DEF u
  <1>6. ~Sets(p)
    BY <1>2 DEF Sets, Under
  <1>7. Alone' /\ OnAnItem' /\ KeyringFollows'
    BY <1>2, <1>3, <1>4, <1>5, <1>6, KeyringRests
  <1>8. FileFollows'
    BY <1>2, <1>3, <1>5, FileRests DEF Under
  <1>9. StoresTyped'
    BY <1>2, <1>5 DEF StoresTyped
  <1>10. QED
    BY <1>7, <1>8, <1>9 DEF StoresFollow

\* What SetItem and SetFails do to the save.
LEMMA NextItems ==
  ASSUME Typed, NEW p \in Process, NextItem(p)
  PROVE  \/ /\ op[p].item = Len(Items(op[p].field)) /\ Goes(p, Idle)
            /\ saved' = [saved EXCEPT !.keyring[op[p].field] = op[p].value]
         \/ /\ op[p].item # Len(Items(op[p].field)) /\ saved' = saved
            /\ \E u \in OpRecord : /\ Goes(p, u) /\ u.at = op[p].at /\ u.field = op[p].field
                                   /\ u.value = op[p].value /\ u.item = op[p].item + 1
  <1> DEFINE last == op[p].item = Len(Items(op[p].field))
             u == [op[p] EXCEPT !.item = op[p].item + 1]
  <1>1. /\ op' = [op EXCEPT ![p] = IF last THEN Idle ELSE u]
        /\ saved' = IF last THEN [saved EXCEPT !.keyring[op[p].field] = op[p].value] ELSE saved
    BY DEF NextItem
  <1>2. op[p] \in OpRecord
    BY DEF Typed
  <1>3. /\ u \in OpRecord /\ u.at = op[p].at /\ u.field = op[p].field /\ u.value = op[p].value
        /\ u.item = op[p].item + 1
    BY <1>2 DEF OpRecord
  <1> HIDE DEF u
  <1>4. CASE last
    BY <1>1, <1>4 DEF Goes
  <1>5. CASE ~last
    BY <1>1, <1>3, <1>5 DEF Goes
  <1>6. QED
    BY <1>4, <1>5

LEMMA SavedTyped ==
  ASSUME StoresTyped, NEW f \in Field, NEW v \in AnyValue
  PROVE  /\ LET s == [saved EXCEPT !.keyring[f] = v]
            IN /\ s \in [keyring : [Field -> AnyValue], file : [Field -> AnyValue]]
               /\ s.keyring = [saved.keyring EXCEPT ![f] = v] /\ s.file = saved.file
         /\ LET s == [saved EXCEPT !.file[f] = v]
            IN /\ s \in [keyring : [Field -> AnyValue], file : [Field -> AnyValue]]
               /\ s.file = [saved.file EXCEPT ![f] = v] /\ s.keyring = saved.keyring
  BY DEF StoresTyped

\* With the last of its items the keyring holds a field whole.
LEMMA SetItemFollows ==
  ASSUME SavedInv, world = {}, NEW p \in Process, SetItem(p)
  PROVE  StoresFollow' /\ StoresTyped'
  <1> DEFINE f == op[p].field
             v == op[p].value
             n == op[p].item
             it == Items(f)[n]
  <1>1. Typed /\ StoresFollow /\ StoresTyped
    BY DEF SavedInv
  <1>2. /\ Under(p, "keyring") /\ up[p] /\ Sets(p) /\ ~Under(p, "idle")
        /\ keyring' = [keyring EXCEPT ![it] = v]
        /\ NextItem(p) /\ UNCHANGED <<file, up>>
    BY DEF SetItem, Sets, Under
  <1>3. op[p] \in OpRecord /\ f \in Field /\ v \in AnyValue /\ n \in Nat
    BY <1>1 DEF Typed, OpRecord
  <1>4. n \in DOMAIN Items(f) /\ Items(f) \in Seq(Item) /\ DOMAIN Items(f) = 1 .. Len(Items(f))
        /\ Len(Items(f)) \in Nat
    BY <1>1, <1>2, <1>3, ItemsOf DEF StoresFollow, OnAnItem
  <1>5. it \in Item
    BY <1>4
  <1>6. keyring' \in [Item -> AnyValue]
    BY <1>1, <1>2, <1>3, <1>5 DEF StoresTyped
  <1>7. \A g \in Field \ {f} : \A i \in DOMAIN Items(g) :
          keyring'[Items(g)[i]] = keyring[Items(g)[i]]
    <2>1. \A g \in Field \ {f} : \A i \in DOMAIN Items(g) : Items(g)[i] # it /\ Items(g)[i] \in Item
      BY <1>3, <1>4, ItemsOf
    <2>2. QED
      BY <1>1, <1>2, <2>1 DEF StoresTyped
  <1>8. \A i \in 1 .. n : keyring'[Items(f)[i]] = v
    <2>1. \A i \in 1 .. n - 1 : keyring[Items(f)[i]] = v
      BY <1>1, <1>2 DEF StoresFollow, KeyringFollows
    <2>2. \A i \in 1 .. n - 1 : i \in DOMAIN Items(f) /\ Items(f)[i] \in Item
      BY <1>3, <1>4
    <2>3. keyring'[it] = v
      BY <1>1, <1>2, <1>5 DEF StoresTyped
    <2>4. \A i \in 1 .. n - 1 : keyring'[Items(f)[i]] = v
      BY <1>1, <1>2, <2>1, <2>2, <2>3 DEF StoresTyped
    <2>5. QED
      BY <1>3, <2>3, <2>4
  <1>9. ASSUME NEW u, Goes(p, u)
        PROVE  /\ op'[p] = u /\ Alone'
               /\ \A q \in Process \ {p} : op'[q] = op[q] /\ op[q].at = "idle"
    BY <1>1, <1>2, <1>9, OneAtWork DEF StoresFollow
  <1>10. ASSUME NEW g \in Field \ {f}, NEW q \in Process, Sets(q), op[q].field = g,
                NEW u, Goes(p, u)
         PROVE  FALSE
    BY <1>9, <1>10 DEF Sets, Under
  <1> HIDE DEF it
  <1>11. CASE /\ n = Len(Items(f)) /\ Goes(p, Idle)
              /\ saved' = [saved EXCEPT !.keyring[f] = v]
    <2>1. /\ saved' \in [keyring : [Field -> AnyValue], file : [Field -> AnyValue]]
          /\ saved'.keyring = [saved.keyring EXCEPT ![f] = v] /\ saved'.file = saved.file
      BY <1>1, <1>3, <1>11, SavedTyped
    <2>2. StoresTyped'
      BY <1>1, <1>2, <1>6, <2>1 DEF StoresTyped
    <2>3. \A q \in Process : op'[q].at = "idle"
      BY <1>9, <1>11, IdleIs
    <2>4. Alone' /\ OnAnItem'
      BY <1>9, <1>11, <2>3 DEF OnAnItem, Under
    <2>5. ASSUME NEW g \in Field, NEW i \in DOMAIN Items(g)
          PROVE  keyring'[Items(g)[i]] = saved'.keyring[g]
      <3>1. CASE g = f
        <4>1. saved'.keyring[f] = v
          BY <1>1, <1>3, <2>1 DEF StoresTyped
        <4>2. QED
          BY <1>4, <1>8, <1>11, <3>1, <4>1
      <3>2. CASE g # f
        <4>1. keyring[Items(g)[i]] = saved.keyring[g]
          BY <1>1, <1>10, <1>11, <3>2 DEF StoresFollow, KeyringFollows
        <4>2. saved'.keyring[g] = saved.keyring[g]
          BY <1>1, <2>1, <3>2 DEF StoresTyped
        <4>3. QED
          BY <1>7, <3>2, <4>1, <4>2
      <3>3. QED
        BY <3>1, <3>2
    <2>6. KeyringFollows'
      BY <2>3, <2>5 DEF KeyringFollows, Sets, Under
    <2>7. FileFollows'
      BY <1>1, <1>2, <1>11, <2>1, FileRests, IdleIs DEF Under
    <2>8. QED
      BY <2>2, <2>4, <2>6, <2>7 DEF StoresFollow
  <1>12. ASSUME NEW u \in OpRecord, n # Len(Items(f)), saved' = saved, Goes(p, u),
                u.at = op[p].at, u.field = f, u.value = v, u.item = n + 1
         PROVE  StoresFollow' /\ StoresTyped'
    <2>1. StoresTyped'
      BY <1>1, <1>2, <1>6, <1>12 DEF StoresTyped
    <2>2. Alone' /\ OnAnItem'
      <3>1. n + 1 \in DOMAIN Items(f)
        BY <1>3, <1>4, <1>12
      <3>2. QED
        BY <1>9, <1>12, <3>1 DEF OnAnItem, Under
    <2>3. u.at = "keyring" /\ up'[p]
      BY <1>2, <1>12 DEF Under
    <2>4. Sets(p)' /\ op'[p].field = f /\ op'[p].value = v /\ op'[p].item = n + 1
      BY <1>9, <1>12, <2>3 DEF Sets, Under
    <2>5. \A q \in Process : Sets(q)' => q = p
      BY <1>9, <1>12 DEF Sets, Under
    <2>6. ASSUME NEW g \in Field, ~\E q \in Process : Sets(q)' /\ op'[q].field = g,
                 NEW i \in DOMAIN Items(g)
          PROVE  keyring'[Items(g)[i]] = saved'.keyring[g]
      <3>1. g # f
        BY <2>4, <2>6
      <3>2. keyring[Items(g)[i]] = saved.keyring[g]
        BY <1>1, <1>10, <1>12, <3>1 DEF StoresFollow, KeyringFollows
      <3>3. QED
        BY <1>7, <1>12, <3>1, <3>2
    <2>7. KeyringFollows'
      <3>1. (n + 1) - 1 = n
        BY <1>3
      <3>2. QED
        BY <1>8, <2>4, <2>5, <2>6, <3>1 DEF KeyringFollows
    <2>8. FileFollows'
      BY <1>1, <1>2, <1>12, <2>3, FileRests DEF Under
    <2>9. QED
      BY <2>1, <2>2, <2>7, <2>8 DEF StoresFollow
  <1>13. QED
    BY <1>1, <1>2, <1>11, <1>12, NextItems

\* Without a keyring nothing is set, and the save turns to the file.
LEMMA SetFailsFollows ==
  ASSUME SavedInv, world = {}, NEW p \in Process, SetFails(p)
  PROVE  StoresFollow' /\ StoresTyped'
  <1> DEFINE f == op[p].field
             n == op[p].item
  <1>1. Typed /\ StoresFollow /\ StoresTyped
    BY DEF SavedInv
  <1>2. Under(p, "keyring") /\ ~up[p] /\ ~Sets(p) /\ ~Under(p, "idle")
        /\ UNCHANGED <<keyring, file, up>>
    BY DEF SetFails, Sets, Under
  <1>3. op[p] \in OpRecord /\ f \in Field /\ n \in Nat
    BY <1>1 DEF Typed, OpRecord
  <1>4. n \in DOMAIN Items(f) /\ Items(f) \in Seq(Item)
    BY <1>1, <1>2, <1>3, ItemsOf DEF StoresFollow, OnAnItem
  <1>5. /\ saved' = saved
        /\ \E u \in OpRecord : /\ Goes(p, u) /\ u.at \in {"keyring", "read"}
                               /\ u.at = "keyring" => u.item \in DOMAIN Items(u.field)
    <2>1. CASE Items(f)[n] = "openrouter_key"
      <3>1. NextItem(p)
        BY <1>2, <2>1 DEF SetFails
      <3>2. n # Len(Items(f))
        BY <1>3, <1>4, <2>1, ItemsOf
      <3>3. n + 1 \in DOMAIN Items(f)
        BY <1>3, <1>4, <3>2
      <3>4. PICK u \in OpRecord : /\ Goes(p, u) /\ u.at = op[p].at /\ u.field = f
                                  /\ u.item = n + 1
        BY <1>1, <3>1, <3>2, NextItems
      <3>5. saved' = saved
        BY <1>1, <3>1, <3>2, NextItems
      <3>6. QED
        BY <1>2, <3>3, <3>4, <3>5 DEF Under
    <2>2. CASE Items(f)[n] # "openrouter_key"
      <3> DEFINE u == [op[p] EXCEPT !.at = "read"]
      <3>1. To(p, "read") /\ saved' = saved
        BY <1>2, <2>2 DEF SetFails
      <3>2. Goes(p, u)
        BY <3>1 DEF To, Goes
      <3>3. u \in OpRecord /\ u.at = "read"
        BY <1>3 DEF OpRecord
      <3> HIDE DEF u
      <3>4. QED
        BY <3>1, <3>2, <3>3
    <2>3. QED
      BY <2>1, <2>2
  <1>6. PICK u \in OpRecord : /\ Goes(p, u) /\ u.at \in {"keyring", "read"}
                              /\ u.at = "keyring" => u.item \in DOMAIN Items(u.field)
    BY <1>5
  <1>7. Alone' /\ OnAnItem' /\ KeyringFollows'
    BY <1>1, <1>2, <1>5, <1>6, KeyringRests
  <1>8. FileFollows'
    BY <1>1, <1>2, <1>5, <1>6, FileRests DEF Under
  <1>9. StoresTyped'
    BY <1>1, <1>2, <1>5 DEF StoresTyped
  <1>10. QED
    BY <1>7, <1>8, <1>9 DEF StoresFollow

LEMMA ReadFollows ==
  ASSUME SavedInv, world = {}, NEW p \in Process, ReadPayload(p)
  PROVE  StoresFollow' /\ StoresTyped'
  <1> DEFINE u == [op[p] EXCEPT !.read = WhatFileHas, !.at = "truncate"]
  <1>1. Typed /\ StoresFollow /\ StoresTyped /\ op[p] \in OpRecord
    BY DEF SavedInv, Typed
  <1>2. Under(p, "read") /\ ~Under(p, "idle") /\ ~Sets(p)
        /\ UNCHANGED <<keyring, file, up, saved>>
    BY DEF ReadPayload, Sets, Under
  <1>3. Goes(p, u)
    BY DEF ReadPayload, Goes
  <1>4. u.at = "truncate" /\ u.read = WhatFileHas
    BY <1>1 DEF OpRecord
  <1> HIDE DEF u
  <1>5. op'[p] = u /\ \A q \in Process \ {p} : op'[q] = op[q] /\ op[q].at = "idle"
    BY <1>1, <1>2, <1>3, OneAtWork DEF StoresFollow
  <1>6. Alone' /\ OnAnItem' /\ KeyringFollows'
    BY <1>1, <1>2, <1>3, <1>4, KeyringRests
  <1>7. Holds(file) \/ (file = Unreadable /\ NothingSaved)
    BY <1>1, <1>2, <1>5 DEF StoresFollow, FileFollows, Under
  <1>8. Holds(WhatFileHas)
    <2>1. CASE Holds(file)
      BY <2>1 DEF Holds, WhatFileHas
    <2>2. CASE file = Unreadable /\ NothingSaved
      <3>1. ~file.whole
        BY <2>2 DEF Unreadable, Payload, Full
      <3>2. "credentials" \in Field
        BY DEF Field
      <3>3. QED
        BY <2>2, <3>1, <3>2 DEF WhatFileHas, Payload, Full, Holds, NothingSaved
    <2>3. QED
      BY <1>7, <2>1, <2>2
  <1> HIDE DEF WhatFileHas
  <1>9. FileFollows'
    BY <1>2, <1>4, <1>5, <1>7, <1>8 DEF FileFollows, Holds, NothingSaved, Under
  <1>10. StoresTyped'
    BY <1>1, <1>2 DEF StoresTyped
  <1>11. QED
    BY <1>6, <1>9, <1>10 DEF StoresFollow

LEMMA TruncateFollows ==
  ASSUME SavedInv, world = {}, NEW p \in Process, Truncate(p)
  PROVE  StoresFollow' /\ StoresTyped'
  <1> DEFINE u == [op[p] EXCEPT !.at = "write"]
  <1>1. Typed /\ StoresFollow /\ StoresTyped /\ op[p] \in OpRecord
    BY DEF SavedInv, Typed
  <1>2. Under(p, "truncate") /\ ~Under(p, "idle") /\ ~Sets(p)
        /\ file' = Unreadable /\ UNCHANGED <<keyring, up, saved>>
    BY DEF Truncate, Sets, Under
  <1>3. Goes(p, u)
    BY DEF Truncate, To, Goes
  <1>4. u.at = "write" /\ u.read = op[p].read
    BY <1>1 DEF OpRecord
  <1> HIDE DEF u
  <1>5. op'[p] = u /\ \A q \in Process \ {p} : op'[q] = op[q] /\ op[q].at = "idle"
    BY <1>1, <1>2, <1>3, OneAtWork DEF StoresFollow
  <1>6. Alone' /\ OnAnItem' /\ KeyringFollows'
    BY <1>1, <1>2, <1>3, <1>4, KeyringRests
  <1>7. Holds(op[p].read)
    BY <1>1, <1>2 DEF StoresFollow, FileFollows
  <1>8. FileFollows'
    BY <1>2, <1>4, <1>5, <1>7 DEF FileFollows, Holds, Under
  <1>9. StoresTyped'
    BY <1>1, <1>2 DEF StoresTyped
  <1>10. QED
    BY <1>6, <1>8, <1>9 DEF StoresFollow

\* What is written is what was read with the new value of one field.
LEMMA WriteFollows ==
  ASSUME SavedInv, world = {}, NEW p \in Process, WritePayload(p)
  PROVE  StoresFollow' /\ StoresTyped'
  <1> DEFINE f == op[p].field
             v == op[p].value
  <1>1. Typed /\ StoresFollow /\ StoresTyped /\ op[p] \in OpRecord
    BY DEF SavedInv, Typed
  <1>2. f \in Field /\ v \in AnyValue /\ op[p].read \in PayloadRecord
    BY <1>1 DEF OpRecord
  <1>3. Under(p, "write") /\ ~Under(p, "idle") /\ ~Sets(p)
        /\ Goes(p, Idle) /\ UNCHANGED <<keyring, up>>
        /\ saved' = [saved EXCEPT !.file[f] = v]
    BY DEF WritePayload, Goes, Sets, Under
  <1>4. op'[p] = Idle /\ \A q \in Process \ {p} : op'[q] = op[q] /\ op[q].at = "idle"
    BY <1>1, <1>3, OneAtWork DEF StoresFollow
  <1>5. /\ saved' \in [keyring : [Field -> AnyValue], file : [Field -> AnyValue]]
        /\ saved'.file = [saved.file EXCEPT ![f] = v] /\ saved'.keyring = saved.keyring
    BY <1>1, <1>2, <1>3, SavedTyped
  <1>6. Alone' /\ OnAnItem' /\ KeyringFollows'
    BY <1>1, <1>3, <1>5, KeyringRests, IdleIs
  <1>7. file' = Written(op[p])
    <2>1. ~file.whole
      BY <1>1, <1>3 DEF StoresFollow, FileFollows, Unreadable, Payload, Full
    <2>2. ~\E q \in Process \ {p} : Under(q, "write")
      BY <1>4 DEF Under
    <2>3. QED
      BY <2>1, <2>2 DEF WritePayload
  <1>8. Holds(op[p].read)
    BY <1>1, <1>3 DEF StoresFollow, FileFollows
  <1>9. Holds(file)'
    <2>1. saved.file \in [Field -> AnyValue] /\ "credentials" \in Field
      BY <1>1 DEF StoresTyped, Field
    <2>2. CASE f = "credentials"
      BY <1>2, <1>5, <1>7, <1>8, <2>1, <2>2 DEF Holds, Written, PayloadRecord
    <2>3. CASE f # "credentials"
      BY <1>2, <1>5, <1>7, <1>8, <2>1, <2>3 DEF Holds, Written, PayloadRecord
    <2>4. QED
      BY <2>2, <2>3
  <1>10. \A q \in Process : op'[q].at = "idle"
    BY <1>4, IdleIs
  <1>11. FileFollows'
    BY <1>9, <1>10 DEF FileFollows, Under
  <1>12. StoresTyped'
    BY <1>1, <1>3, <1>5 DEF StoresTyped
  <1>13. QED
    BY <1>6, <1>11, <1>12 DEF StoresFollow

\* What the stores are made of, whatever the world is.
LEMMA StoresStay == Typed /\ StoresTyped /\ [Next]_vars => StoresTyped'
  <1> SUFFICES ASSUME Typed, StoresTyped, [Next]_vars PROVE StoresTyped'
    OBVIOUS
  <1>1. ASSUME NEW p \in Process PROVE op[p] \in OpRecord /\ op[p].field \in Field
                                       /\ op[p].value \in AnyValue
    BY DEF Typed, OpRecord
  <1>2. ASSUME NEW p \in Process, NextItem(p)
        PROVE  saved' \in [keyring : [Field -> AnyValue], file : [Field -> AnyValue]]
    <2>1. saved' = saved \/ saved' = [saved EXCEPT !.keyring[op[p].field] = op[p].value]
      BY <1>2, NextItems
    <2>2. [saved EXCEPT !.keyring[op[p].field] = op[p].value]
            \in [keyring : [Field -> AnyValue], file : [Field -> AnyValue]]
      BY <1>1, SavedTyped
    <2>3. saved \in [keyring : [Field -> AnyValue], file : [Field -> AnyValue]]
      BY DEF StoresTyped
    <2>4. QED
      BY <2>1, <2>2, <2>3
  <1>3. ASSUME NEW p \in Process, SetItem(p) PROVE StoresTyped'
    <2>1. keyring' \in [Item -> AnyValue]
      BY <1>1, <1>3 DEF SetItem, StoresTyped
    <2>2. QED
      BY <1>2, <1>3, <2>1 DEF SetItem, StoresTyped
  <1>4. ASSUME NEW p \in Process, SetFails(p) PROVE StoresTyped'
    BY <1>2, <1>4 DEF SetFails, StoresTyped
  <1>5. ASSUME NEW p \in Process, WritePayload(p) PROVE StoresTyped'
    <2>1. saved' \in [keyring : [Field -> AnyValue], file : [Field -> AnyValue]]
      BY <1>1, <1>5, SavedTyped DEF WritePayload
    <2>2. QED
      BY <1>5, <2>1 DEF WritePayload, StoresTyped
  <1>6. ASSUME NEW p \in Process, Save(p) \/ ReadPayload(p) \/ Truncate(p) \/ Crash(p)
        PROVE  StoresTyped'
    BY <1>6 DEF Save, Begin, ReadPayload, Truncate, Crash, StoresTyped
  <1>7. CASE UNCHANGED vars
    BY <1>7 DEF vars, StoresTyped
  <1>8. QED
    BY <1>3, <1>4, <1>5, <1>6, <1>7 DEF Next

LEMMA StepSaved == IInv /\ SavedInv /\ [Next]_vars => SavedInv'
  <1> SUFFICES ASSUME IInv, SavedInv, [Next]_vars PROVE SavedInv'
    OBVIOUS
  <1>1. Typed' /\ StoresTyped'
    BY StepPairs, StoresStay DEF IInv, SavedInv
  <1>2. world' = world
    BY DEF Next, vars, Save, Begin, SetItem, SetFails, ReadPayload, Truncate, WritePayload, Crash
  <1>3. ASSUME world = {} PROVE StoresFollow'
    <2>1. CASE UNCHANGED vars
      BY <1>3, <2>1 DEF vars, SavedInv, StoresFollow, Alone, OnAnItem, KeyringFollows, FileFollows,
         Holds, NothingSaved, Sets, Under
    <2>2. ASSUME NEW p \in Process, Crash(p) PROVE FALSE
      BY <1>3, <2>2 DEF Crash
    <2>3. QED
      BY <1>3, <2>1, <2>2, SaveFollows, SetItemFollows, SetFailsFollows, ReadFollows,
         TruncateFollows, WriteFollows DEF Next
  <1>4. QED
    BY <1>1, <1>2, <1>3 DEF SavedInv

\* A store that holds the last value of a field yields it.
LEMMA StoresYield ==
  ASSUME SavedInv, world = {}, AllIdle, NEW f \in Field
  PROVE  /\ saved.keyring[f] \notin {Absent, None} => InKeyring(f) = saved.keyring[f]
         /\ saved.keyring[f] = Absent => InKeyring(f) = Absent
         /\ saved.file[f] \notin {Absent, None} => InFile(f) = saved.file[f]
  <1>1. \A p \in Process : ~Sets(p) /\ ~Under(p, "write")
    BY DEF AllIdle, Sets, Under
  <1>2. \A i \in DOMAIN Items(f) : keyring[Items(f)[i]] = saved.keyring[f]
    BY <1>1 DEF SavedInv, StoresFollow, KeyringFollows
  <1>3. /\ saved.keyring[f] \notin {Absent, None} => InKeyring(f) = saved.keyring[f]
        /\ saved.keyring[f] = Absent => InKeyring(f) = Absent
    <2>1. CASE f = "credentials"
      <3>1. Items(f) = <<"server_url", "secret_token">>
        BY <2>1 DEF Items
      <3>2. keyring["server_url"] = saved.keyring[f] /\ keyring["secret_token"] = saved.keyring[f]
        BY <1>2, <3>1
      <3>3. InKeyring(f) = Pair(keyring["server_url"], keyring["secret_token"])
        BY <2>1 DEF InKeyring
      <3>4. QED
        BY <3>2, <3>3 DEF Pair
    <2>2. CASE f = "ai_config"
      <3>1. Items(f) = <<"openrouter_key", "ai_config">>
        BY <2>2 DEF Items
      <3>2. keyring["openrouter_key"] = saved.keyring[f] /\ keyring["ai_config"] = saved.keyring[f]
        BY <1>2, <3>1
      <3>3. InKeyring(f) = IF keyring["ai_config"] # Absent THEN keyring["ai_config"]
                           ELSE IF keyring["openrouter_key"] # Absent THEN Default ELSE Absent
        BY <2>2 DEF InKeyring
      <3>4. QED
        BY <3>2, <3>3
    <2>3. CASE f \notin {"credentials", "ai_config"}
      <3>1. Items(f) = <<f>>
        BY <2>3 DEF Items
      <3>2. keyring[f] = saved.keyring[f]
        BY <1>2, <3>1
      <3>3. \/ InKeyring(f) = keyring[f]
            \/ InKeyring(f) = IF keyring[f] = None THEN Absent ELSE keyring[f]
        BY <2>3 DEF InKeyring
      <3>4. QED
        BY <3>2, <3>3
    <2>4. QED
      BY <2>1, <2>2, <2>3
  <1>4. Holds(file) \/ (file = Unreadable /\ NothingSaved)
    BY <1>1 DEF SavedInv, StoresFollow, FileFollows
  <1>5. ASSUME saved.file[f] \notin {Absent, None} PROVE InFile(f) = saved.file[f]
    <2>1. Holds(file)
      BY <1>4, <1>5 DEF NothingSaved
    <2>2. CASE f = "credentials"
      <3>1. InFile(f) = Pair(file.url, file.token)
        BY <2>1, <2>2 DEF InFile, Holds
      <3>2. QED
        BY <1>5, <2>1, <2>2, <3>1 DEF Holds, Pair
    <2>3. CASE f # "credentials"
      <3>1. file.rest[f] = saved.file[f] /\ file.whole
        BY <2>1, <2>3 DEF Holds
      <3>2. \/ InFile(f) = file.rest[f]
            \/ InFile(f) = IF file.rest[f] = None THEN Absent ELSE file.rest[f]
            \/ InFile(f) = IF file.rest[f] = Absent THEN Default ELSE file.rest[f]
        BY <2>3, <3>1 DEF InFile
      <3>3. QED
        BY <1>5, <3>1, <3>2
    <2>4. QED
      BY <2>2, <2>3
  <1>6. QED
    BY <1>3, <1>5

\* Where saves neither overlap nor crash nor fail halfway, every process reads what was
\* last saved in the first of its stores that has the field (CascadeVault over
\* KeyringVault and FileVault), whichever processes saved and whatever else they saved.
THEOREM LastSaveIsRead == Spec => []LastSavedIsRead
  <1>1. SavedInv => LastSavedIsRead
    <2> SUFFICES ASSUME SavedInv, world = {}, AllIdle, NEW p \in Process, NEW f \in Field
                 PROVE  LET store == IF up[p] /\ saved.keyring[f] # Absent
                                     THEN "keyring" ELSE "file"
                            value == saved[store][f]
                        IN value \notin {Absent, None} => Get(p, f) = value
      BY DEF LastSavedIsRead
    <2>1. /\ saved.keyring[f] \notin {Absent, None} => InKeyring(f) = saved.keyring[f]
          /\ saved.keyring[f] = Absent => InKeyring(f) = Absent
          /\ saved.file[f] \notin {Absent, None} => InFile(f) = saved.file[f]
      BY StoresYield
    <2>2. CASE up[p] /\ saved.keyring[f] # Absent
      BY <2>1, <2>2 DEF Get
    <2>3. CASE ~(up[p] /\ saved.keyring[f] # Absent)
      BY <2>1, <2>3 DEF Get
    <2>4. QED
      BY <2>2, <2>3
  <1>2. QED
    BY <1>1, InitPairs, StepPairs, InitSaved, StepSaved, PTL DEF Spec
=============================================================================
