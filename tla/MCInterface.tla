---------------------------- MODULE MCInterface -----------------------------
(***************************************************************************)
(* A small instance of InterfaceLoop.                                      *)
(***************************************************************************)
EXTENDS InterfaceLoop

ProviderOfModel == [x \in Model |-> IF x \in {"big", "small"} THEN "ollama" ELSE "openrouter"]
ProviderRows == <<"openrouter", "ollama">>
Listed == <<"big", "paid", "free", "small">>
Scans == {<<"small">>, <<"paid", "big">>}
Syncs == {<<"paid", "small">>}
Texts == {Model, {"free"}, {}}

FleetLists == {<<"a", "b", "c">>, <<"b", "a">>, << >>}
FilterTexts == {Container, {"b"}}
Incident2 == [members |-> {"a", "b"}, origin |-> "", cascade |-> << >>, sure |-> FALSE]
Incident3 == [members |-> {"a", "b", "c"}, origin |-> "a", cascade |-> << >>, sure |-> TRUE]
Suggestions == {[suggests |-> "restart", level |-> "RULE"]}
Known == {Incident2, Incident3}
=============================================================================
