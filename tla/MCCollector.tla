---------------------------- MODULE MCCollector ----------------------------
(***************************************************************************)
(* A small instance of DockerCollector: an application, its database and   *)
(* an older database on a network of its own.                              *)
(***************************************************************************)
EXTENDS DockerCollector

AsCreated ==
  [c \in Container |->
    CASE c = "api" -> [networks |-> {"front", "back"}, aliases |-> {}, listed |-> {}, tokens |-> {"pg"}, ports |-> {80}]
      [] c = "db" -> [networks |-> {"back"}, aliases |-> {"pg"}, listed |-> {}, tokens |-> {}, ports |-> {5432}]
      [] c = "old" -> [networks |-> {"front"}, aliases |-> {"pg-old"}, listed |-> {"pg-old"}, tokens |-> {"api"}, ports |-> {5432}]]
=============================================================================
