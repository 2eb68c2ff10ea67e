-------------------------- MODULE SettingsScreens ---------------------------
(***************************************************************************)
(* The screens of the terminal interface on which it is set up             *)
(* (agent/internal/delivery/tui/update.go, lists of ai_views.go): models,  *)
(* their browser, providers and keys; preferences, themes and language.    *)
(* Every key is handled in one step; a scan of the providers comes back as *)
(* a message, and the catalogue, read anew at every key, is renewed in the *)
(* background.  A position in a list counts from 0, as in the code.        *)
(* Texts, colours, scrolling, what is saved in the vault and what the      *)
(* client of the models is told are left out.                              *)
(***************************************************************************)
EXTENDS Naturals, SequencesExt

CONSTANTS
  Model,        \* the models a catalogue can list
  ProviderOf,   \* ProviderOf[x]: the provider of model x
  Free,         \* the models without a price
  LocalRuntime, \* the providers that run on this host
  Row,          \* the list of providers, without its last row
  Catalogue,    \* the models the catalogue lists at the start
  Fetched,      \* what a sync of the catalogue may list, when it gets any
  Discoveries,  \* what a scan of the providers may list, when it lists any
  Queries,      \* what a text typed leaves of the models
  Themes,       \* how many themes there are
  MaxChanges    \* bound: the changes of the configuration

\* Models are listed in an order, a name may be typed, and there is a provider.
ASSUME SettingsAssumption ==
  /\ Catalogue \in Seq(Model) /\ Fetched \subseteq Seq(Model) /\ Discoveries \subseteq Seq(Model)
  /\ Queries \subseteq SUBSET Model
  /\ Row \in Seq(STRING) /\ Row # << >> /\ Themes \in Nat

VARIABLES
  screen,       \* activeState; the two faces of the diagnosis modal are two
  line,         \* the cursor of the list that is open, where each is set on opening
  ai,           \* the fields of the screens about models, and the catalogue behind them;
                \* .shrunk notes that a scan or a sync left fewer items since the cursor
                \* of the browser was placed
  config,       \* the mode, the models assigned, the keys held and the language
  changes       \* how often it was changed, for the bound

settingsVars == <<line, ai, config, changes>>

Slot == {"fast", "deep"}
NoModel == "none"

SettingsInit ==
  /\ line = 0
  /\ ai = [view |-> "policy", policy |-> 0, slot |-> "fast", cursor |-> 0, free |-> FALSE,
           local |-> FALSE, searching |-> FALSE, query |-> Model, row |-> 0,
           provider |-> Row[1], discovered |-> << >>, catalogue |-> Catalogue,
           syncing |-> TRUE, shrunk |-> FALSE]
  /\ config = [mode |-> "auto", assigned |-> [s \in Slot |-> NoModel], keyed |-> {},
               endpoint |-> FALSE, language |-> "es"]
  /\ changes = 0

-----------------------------------------------------------------------------
(* The list of models.                                                     *)

\* What a scan has found; until then, the catalogue as it is at that moment.
Offered(a) == IF a.discovered = << >> THEN a.catalogue ELSE a.discovered

\* The positions of the models that the filters and the text leave.
Matching(a) ==
  {i \in DOMAIN Offered(a) : LET x == Offered(a)[i] IN
     /\ a.free => x \in Free
     /\ a.local => ProviderOf[x] \in LocalRuntime
     /\ x \in a.query}

\* `at` is where an item belongs: the group, and the place within the group.
Item(kind, what, at) == [kind |-> kind, what |-> what, at |-> at]

\* getBrowserItems: under the name of each provider, in the order in which they are met,
\* its models; last, a new endpoint.
BrowserItems(a) ==
  LET offered == Offered(a)
      provider(i) == ProviderOf[offered[i]]
      group(i) == Min({j \in Matching(a) : provider(j) = provider(i)})
  IN {Item("header", provider(i), <<group(i), 0>>) : i \in Matching(a)}
       \union {Item("model", offered[i], <<group(i), i>>) : i \in Matching(a)}
       \union {Item("add", "", <<Len(offered) + 1, 0>>)}

IsAbove(x, y) == x.at[1] < y.at[1] \/ (x.at[1] = y.at[1] /\ x.at[2] < y.at[2])

\* The index of an item: how many are above it.
Place(items, item) == Cardinality({x \in items : IsAbove(x, item)})

PlacedAt(a, place) == [a EXCEPT !.cursor = place, !.shrunk = FALSE]

\* The cursor on the first model, or at the top when there is none.
AtFirstModel(a) ==
  LET items == BrowserItems(a)
      models == {Place(items, x) : x \in {y \in items : y.kind = "model"}}
  IN PlacedAt(a, IF models = {} THEN 0 ELSE Min(models))

-----------------------------------------------------------------------------
(* Screens that only move a cursor, and the language.                      *)

Keep == UNCHANGED <<ai, config, changes>>

\* What the handlers that set the configuration have in common; each of them also saves
\* it and tells the client, in the same step.
Configure(new) == changes < MaxChanges /\ changes' = changes + 1 /\ config' = new

MoveLine(last) ==
  /\ line' \in {line - 1, line + 1} \intersect (0 .. last)
  /\ UNCHANGED screen /\ Keep

Open(s) == screen' = s /\ line' = 0

HelpKey == screen = "help" /\ Open("fleet") /\ Keep

ThemeKey ==
  /\ screen = "theme"
  /\ MoveLine(Themes - 1) \/ (Open("fleet") /\ Keep)

PreferencesKey ==
  /\ screen = "preferences"
  /\ \/ MoveLine(2)
     \/ Open("fleet") /\ Keep
     \/ /\ line = 0
        /\ screen' = "theme" /\ line' \in 0 .. Themes - 1   \* on the active theme
        /\ Keep
     \/ /\ line = 2
        /\ Configure([config EXCEPT !.language = IF @ = "es" THEN "en" ELSE "es"])
        /\ UNCHANGED <<screen, line, ai>>

\* The first run asks for the language.
LanguageKey ==
  /\ screen = "language"
  /\ \/ MoveLine(1)
     \/ /\ Open("fleet")
        /\ Configure([config EXCEPT !.language = IF line = 1 THEN "en" ELSE "es"])
        /\ UNCHANGED ai

-----------------------------------------------------------------------------
(* The screens about models.                                               *)

Show(a) == ai' = a /\ UNCHANGED <<screen, line, config, changes>>

\* To another view.  What the views left set anew when they open is forgotten here;
\* in the code it keeps its value.
To(view, a) ==
  [a EXCEPT !.view = view, !.slot = "fast", !.cursor = 0, !.query = Model, !.searching = FALSE,
            !.shrunk = FALSE, !.provider = Row[1]]

PolicyKey ==
  /\ screen = "config" /\ ai.view = "policy"
  /\ \/ Open("fleet") /\ Keep
     \/ \E p \in {ai.policy - 1, ai.policy + 1} \intersect (0 .. 2) : Show([ai EXCEPT !.policy = p])
     \/ Show([To("providers", ai) EXCEPT !.row = 0])
     \/ /\ ai.policy \in {0, 1}
        /\ Show(AtFirstModel(
             [To("browser", ai) EXCEPT !.slot = IF ai.policy = 0 THEN "fast" ELSE "deep"]))

InBrowser == screen = "config" /\ ai.view = "browser"

\* A slip of Typed: the cursor stays where it was.
TypedInPlace(a, q) == [a EXCEPT !.query = q]

\* Every key typed puts the cursor at the top.
Typed(a, q) == PlacedAt([a EXCEPT !.query = q], 0)

SearchKey ==
  /\ InBrowser /\ ai.searching
  /\ \/ Show([ai EXCEPT !.searching = FALSE])
     \/ \E q \in Queries : Show(Typed(ai, q))

\* f and l put the cursor on the first model left.
BrowserKey ==
  /\ InBrowser /\ ~ai.searching
  /\ \/ Show(To("policy", ai))
     \/ Show([ai EXCEPT !.searching = TRUE])
     \/ Show(AtFirstModel([ai EXCEPT !.free = ~@]))
     \/ Show(AtFirstModel([ai EXCEPT !.local = ~@]))

\* Up and down pass over the names of providers.  Up reads the item above the
\* cursor whatever the list has become: beyond its end the program panics.
BrowserMove ==
  LET items == BrowserItems(ai)
      stops == {Place(items, x) : x \in {y \in items : y.kind # "header"}}
      above == {p \in stops : p < ai.cursor}
      below == {p \in stops : p > ai.cursor}
  IN /\ InBrowser /\ ~ai.searching
     /\ \/ /\ ai.cursor > Cardinality(items)
           /\ screen' = "panic" /\ UNCHANGED settingsVars
        \/ /\ ai.cursor \in 1 .. Cardinality(items) /\ above # {}
           /\ Show(PlacedAt(ai, Max(above)))
        \/ below # {} /\ Show(PlacedAt(ai, Min(below)))

BrowserEnter ==
  \E item \in BrowserItems(ai) :
  /\ InBrowser /\ ~ai.searching /\ Place(BrowserItems(ai), item) = ai.cursor
  /\ \/ item.kind = "add" /\ Show(To("endpoint", ai))
     \/ /\ item.kind = "model"
        /\ Configure([config EXCEPT !.assigned[ai.slot] = item.what])
        /\ ai' = To("policy", ai)
        /\ UNCHANGED <<screen, line>>

\* The last row asks for an endpoint, one in the cloud for its key, and one found
\* on this host opens the browser, for the fast slot and with its cursor at the top.
ProvidersKey ==
  /\ screen = "config" /\ ai.view = "providers"
  /\ \/ Show(To("policy", ai))
     \/ \E r \in {ai.row - 1, ai.row + 1} \intersect (0 .. Len(Row)) : Show([ai EXCEPT !.row = r])
     \/ Show(To("endpoint", ai))
     \/ /\ ai.row < Len(Row)
        /\ LET p == Row[ai.row + 1] IN
           IF p \notin LocalRuntime THEN Show([To("key", ai) EXCEPT !.provider = p])
           ELSE Show([To("browser", ai) EXCEPT !.local = TRUE])

\* A key is typed, or erased.
KeyInputKey ==
  /\ screen = "config" /\ ai.view = "key"
  /\ \/ Show(To("providers", ai))
     \/ /\ \E keyed \in {config.keyed \union {ai.provider}, config.keyed \ {ai.provider}} :
             Configure([config EXCEPT !.keyed = keyed])
        /\ ai' = To("providers", ai)
        /\ UNCHANGED <<screen, line>>

\* Without an address the screen is left as by esc.
EndpointKey ==
  /\ screen = "config" /\ ai.view = "endpoint"
  /\ \/ Show(To("providers", ai))
     \/ /\ Configure([config EXCEPT !.endpoint = TRUE])
        /\ ai' = To("providers", ai)
        /\ UNCHANGED <<screen, line>>

\* Another list under the cursor, which stays where it is.
Relisted(a) ==
  [a EXCEPT !.shrunk = @ \/ Cardinality(BrowserItems(a)) < Cardinality(BrowserItems(ai))]

\* discoveryMsg: a scan comes back, on whatever screen; one without models is passed over.
Discovered == \E found \in Discoveries : Show(Relisted([ai EXCEPT !.discovered = found]))

\* SyncIfExpired, begun once by Init, ends at any moment, between two keys: no message
\* is waited for.  One that is not due or gets no models is as one that never ends.
Synced ==
  /\ ai.syncing
  /\ \E list \in Fetched : Show(Relisted([ai EXCEPT !.catalogue = list, !.syncing = FALSE]))

SettingsKey ==
  \/ HelpKey \/ ThemeKey \/ PreferencesKey \/ LanguageKey
  \/ PolicyKey \/ SearchKey \/ BrowserKey \/ BrowserMove \/ BrowserEnter
  \/ ProvidersKey \/ KeyInputKey \/ EndpointKey

-----------------------------------------------------------------------------
(* Properties.                                                             *)

\* Neither keys, nor filters, searches and the ways to open the browser, leave its cursor
\* beyond its list, so that up does not panic: unless a scan or the catalogue's sync left
\* fewer items under the cursor, which nothing in the code minds.
BrowserCursorInList ==
  ~ai.shrunk =>
    /\ screen # "panic"
    /\ ai.view = "browser" => ai.cursor < Cardinality(BrowserItems(ai))
=============================================================================
