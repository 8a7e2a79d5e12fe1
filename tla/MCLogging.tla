------------------------------- MODULE MCLogging -------------------------------
(* Small instances of the logging package for TLC.  A stack names the modules *)
(* from the caller of get_logger outwards; modules are executed by importlib. *)
EXTENDS Logging

Hunter == <<"hunter", "importlib">>

\* At the top of a module: without a name, with an id, with a level.
ModuleCall == [via |-> "get_logger", name |-> NoName, stack |-> Hunter]
MCCalls ==
  {ModuleCall,
   [via |-> "with_id", name |-> NoName, stack |-> Hunter],
   [via |-> "with_level", name |-> "root", stack |-> Hunter]}

MCLoggers == {"root", "hunter", "importlib", "asyncpg", "unknown"}

Production ==
  [environment |-> "production", level |-> "ERROR", console |-> TRUE, file |-> TRUE,
   optimize |-> TRUE, verbose |-> TRUE]

MCDeployments ==
  {Production,
   [Production EXCEPT !.environment = "staging", !.level = "loud"],
   [Production EXCEPT !.environment = "local", !.file = FALSE, !.verbose = FALSE]}

OneDeployment == {Production}
OneCall == {ModuleCall}
=============================================================================
