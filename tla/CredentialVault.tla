-------------------------- MODULE CredentialVault --------------------------
(***************************************************************************)
(* The vault of the agent (agent/internal/infrastructure/vault/vault.go):  *)
(* the keyring of the session, then an encrypted file, then the            *)
(* environment.  The daemon, the interface and the onboarding are separate *)
(* processes over the same stores; some run in a session without a         *)
(* keyring.  A save is a call of the keyring per item or, if one fails, a  *)
(* read, a truncation and a write of the whole file.  A read is one step.  *)
(* Encryption is what tells a whole file from another.                     *)
(***************************************************************************)
EXTENDS Naturals, FiniteSets, Sequences

CONSTANTS
  Process,
  Value,      \* what a field is given
  Left,       \* what earlier processes gave all fields, if they gave any
  Setting,    \* the fields that are one item everywhere: the theme, the language
  Env,        \* Env[f]: what the environment gives field f, or Absent
  Worlds,     \* bound: which of "fails", "crash", "overlap" a behaviour may have
  MaxSaves    \* bound: the saves of a behaviour

\* A setting is kept under a name of its own.
ASSUME VaultAssumption ==
  Setting \intersect {"credentials", "server_url", "secret_token", "openrouter_key", "ai_config",
                      "pinned_containers"} = {}

VARIABLES
  keyring,    \* the items of the keyring
  file,       \* the payload of the file, or Unreadable
  up,         \* up[p]: the session of p has a keyring
  op,         \* op[p]: the save under way
  saved,      \* what was last saved whole, by store and field
  world, saves

vars == <<keyring, file, up, op, saved, world, saves>>

Absent == "absent"
None == "none"             \* the empty list of pins
Default == "default"       \* the default configuration
Mixed == "mixed"           \* an address with the token of another

Field == {"credentials", "ai_config", "pinned_containers"} \union Setting

\* The items of the keyring a field is kept in, in the order they are set.
Items(f) ==
  CASE f = "credentials" -> <<"server_url", "secret_token">>
    [] f = "ai_config" -> <<"openrouter_key", "ai_config">>
    [] OTHER -> <<f>>

Item == {"server_url", "secret_token", "openrouter_key", "ai_config", "pinned_containers"}
          \union Setting

Values(f) == IF f = "pinned_containers" THEN Value \union {None} ELSE Value

\* The payload of a file; one that is missing, torn or not ours does not decrypt.
Full(v) == [whole |-> TRUE, url |-> v, token |-> v,
            rest |-> [f \in Field \ {"credentials"} |-> v]]
Payload == Full(Absent)
Unreadable == [Payload EXCEPT !.whole = FALSE]
Idle == [at |-> "idle", field |-> "credentials", value |-> Absent, item |-> 1, read |-> Payload]

\* What earlier processes may have left.
Init ==
  \E v \in {Left, Absent}, w \in {Left, Absent} :
    /\ keyring = [i \in Item |-> v]
    /\ file = IF w = Absent THEN Unreadable ELSE Full(w)
    /\ saved = [keyring |-> [f \in Field |-> v], file |-> [f \in Field |-> w]]
    /\ up \in [Process -> BOOLEAN]
    /\ op = [p \in Process |-> Idle]
    /\ world \in Worlds /\ saves = 0

-----------------------------------------------------------------------------
(* Reading.                                                                *)

Pair(url, token) ==
  IF Absent \in {url, token} THEN Absent ELSE IF url = token THEN url ELSE Mixed

\* KeyringVault: a pair counts when it is whole, an empty list is stored as null, and
\* without a configuration the key of old makes one.
InKeyring(f) ==
  CASE f = "credentials" -> Pair(keyring["server_url"], keyring["secret_token"])
    [] f = "ai_config" ->
         IF keyring["ai_config"] # Absent THEN keyring["ai_config"]
         ELSE IF keyring["openrouter_key"] # Absent THEN Default ELSE Absent
    [] f = "pinned_containers" -> IF keyring[f] = None THEN Absent ELSE keyring[f]
    [] OTHER -> keyring[f]

\* FileVault: an empty list is left out of the payload.  A configuration it has not,
\* in a file that it has, is the default one.
InFile(f) ==
  IF ~file.whole THEN Absent
  ELSE CASE f = "credentials" -> Pair(file.url, file.token)
         [] f = "pinned_containers" -> IF file.rest[f] = None THEN Absent ELSE file.rest[f]
         [] f \in {"ai_config", "theme_config"} ->
              IF file.rest[f] = Absent THEN Default ELSE file.rest[f]
         [] OTHER -> file.rest[f]

\* CascadeVault.
Get(p, f) ==
  IF up[p] /\ InKeyring(f) # Absent THEN InKeyring(f)
  ELSE IF InFile(f) # Absent THEN InFile(f) ELSE Env[f]

-----------------------------------------------------------------------------
(* Saving.                                                                 *)

Under(p, at) == op[p].at = at
To(p, at) == op' = [op EXCEPT ![p].at = at]

Begin(p, f, v) ==
  /\ Under(p, "idle") /\ saves < MaxSaves
  /\ "overlap" \in world \/ \A q \in Process : Under(q, "idle")
  /\ saves' = saves + 1
  /\ op' = [op EXCEPT ![p] = [Idle EXCEPT !.at = "keyring", !.field = f, !.value = v]]
  /\ UNCHANGED <<keyring, file, up, saved, world>>

\* The items in turn; the save ends with the last.
NextItem(p) ==
  LET last == op[p].item = Len(Items(op[p].field)) IN
  /\ op' = [op EXCEPT ![p] = IF last THEN Idle ELSE [op[p] EXCEPT !.item = @ + 1]]
  /\ saved' = IF last THEN [saved EXCEPT !.keyring[op[p].field] = op[p].value] ELSE saved

SetItem(p) ==
  /\ Under(p, "keyring") /\ up[p]
  /\ keyring' = [keyring EXCEPT ![Items(op[p].field)[op[p].item]] = op[p].value]
  /\ NextItem(p)
  /\ UNCHANGED <<file, up, world, saves>>

\* The error of the key of old is ignored; any other turns to the file.
SetFails(p) ==
  /\ Under(p, "keyring") /\ (~up[p] \/ "fails" \in world)
  /\ IF Items(op[p].field)[op[p].item] = "openrouter_key"
     THEN NextItem(p)
     ELSE To(p, "read") /\ UNCHANGED saved
  /\ UNCHANGED <<keyring, file, up, world, saves>>

\* A slip of WhatFileHas: the other fields are not looked up.
WhatFileHasNot == Payload

\* The error of a file that cannot be read is ignored.
WhatFileHas == IF file.whole THEN file ELSE Payload

ReadPayload(p) ==
  /\ Under(p, "read")
  /\ op' = [op EXCEPT ![p] = [@ EXCEPT !.read = WhatFileHas, !.at = "truncate"]]
  /\ UNCHANGED <<keyring, file, up, saved, world, saves>>

Truncate(p) ==
  /\ Under(p, "truncate")
  /\ To(p, "write")
  /\ file' = Unreadable
  /\ UNCHANGED <<keyring, up, saved, world, saves>>

\* A slip of Written: a token that is there is kept.
WrittenKeepingToken(o) ==
  IF o.field = "credentials"
  THEN [o.read EXCEPT !.url = o.value, !.token = IF @ = Absent THEN o.value ELSE @]
  ELSE [o.read EXCEPT !.rest[o.field] = o.value]

Written(o) ==
  IF o.field = "credentials" THEN [o.read EXCEPT !.url = o.value, !.token = o.value]
  ELSE [o.read EXCEPT !.rest[o.field] = o.value]

\* Two writes at once may leave bytes of both, which no longer decrypt.
WritePayload(p) ==
  /\ Under(p, "write")
  /\ \/ file' = Written(op[p])
     \/ /\ file.whole \/ \E q \in Process \ {p} : Under(q, "write")
        /\ file' = Unreadable
  /\ op' = [op EXCEPT ![p] = Idle]
  /\ saved' = [saved EXCEPT !.file[op[p].field] = op[p].value]
  /\ UNCHANGED <<keyring, up, world, saves>>

\* The process ends in the middle of a save.
Crash(p) ==
  /\ "crash" \in world /\ ~Under(p, "idle")
  /\ op' = [op EXCEPT ![p] = Idle]
  /\ UNCHANGED <<keyring, file, up, saved, world, saves>>

Save(p) == \E f \in Field : \E v \in Values(f) : Begin(p, f, v)

Next ==
  \E p \in Process :
    \/ Save(p) \/ SetItem(p) \/ SetFails(p)
    \/ ReadPayload(p) \/ Truncate(p) \/ WritePayload(p) \/ Crash(p)

Spec == Init /\ [][Next]_vars

-----------------------------------------------------------------------------
(* Properties.                                                             *)

AllIdle == \A p \in Process : Under(p, "idle")

\* Without crashes, overlaps and failures halfway, every process reads what was last
\* saved in the first of its stores that has the field: a save disturbs no other
\* field, and what older stores hold does not come through.  The empty list of pins
\* is the exception: it reads as no list at all.
LastSavedIsRead ==
  world = {} /\ AllIdle =>
    \A p \in Process, f \in Field :
      LET store == IF up[p] /\ saved.keyring[f] # Absent THEN "keyring" ELSE "file"
          value == saved[store][f]
      IN value \notin {Absent, None} => Get(p, f) = value

\* Whatever crashes, fails or overlaps, the token a file holds is the one saved with
\* its address.
FilePairsWhole == file.url = file.token
=============================================================================
