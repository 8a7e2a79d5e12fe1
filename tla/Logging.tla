-------------------------------- MODULE Logging --------------------------------
(***************************************************************************)
(* infrastructure/logging: get_logger, called by the threads of a process  *)
(* while their modules are imported or later, configures the root logger   *)
(* once under a lock; loggers get levels of their own; records carry the   *)
(* correlation id of an adapter, or the one that the filter finds.         *)
(*                                                                         *)
(* Texts, colours, rotation and time are left out; a formatter is its      *)
(* name.  The logging package of Python is external.                       *)
(*                                                                         *)
(* A definition whose comment begins with "Altered" is a plausible slip in *)
(* the one that follows it; Next never reaches it.                         *)
(***************************************************************************)
EXTENDS Naturals, Sequences

CONSTANTS
  Callers,      \* threads, each with a context of its own
  Calls,        \* the calls of get_logger they may make: [via, name, stack]
  NoName,       \* a call that leaves the name to detection
  Loggers,      \* the names of loggers, "root" among them
  Noisy,        \* loggers that production tones down
  Silenced,     \* loggers that the test fixture tones down
  Ids,          \* correlation ids
  NoId,         \* no correlation id
  Deployments,  \* the settings of the process
  Nobody,       \* the lock is free
  MaxFailures   \* bound: log files that cannot be opened

DEBUG == 10
INFO == 20
WARNING == 30
ERROR == 40
CRITICAL == 50
LevelNumbers == {DEBUG, INFO, WARNING, ERROR, CRITICAL}
NOTSET == 0

ASSUME LoggingAssumption ==
  /\ {"root", "unknown"} \cup Noisy \cup Silenced \subseteq Loggers
  /\ \A c \in Calls : c.name \in Loggers \cup {NoName} /\ c.stack \in Seq(Loggers)
  /\ Nobody \notin Callers
  /\ NoId \notin Ids
  /\ MaxFailures \in Nat

VARIABLES
  settings,    \* the deployment
  configured,  \* _logging_configured
  lock,        \* who holds _configuration_lock
  handlers,    \* the handlers of the root logger
  todo,        \* the handlers each caller has made and has to add
  levels,      \* the level of each logger, NOTSET to inherit
  filtered,    \* whether the root logger has the correlation filter
  pc,          \* where each caller is
  call,        \* the call each makes or has made last
  got,         \* the logger it got, and the adapter's correlation id
  context,     \* correlation_id_var in each context
  asked,       \* the level last asked for each logger, once configured
  replaced,    \* whether the test fixture has replaced the configuration
  failures     \* log files that could not be opened so far

vars == <<settings, configured, lock, handlers, todo, levels, filtered, pc, call, got, context,
          asked, replaced, failures>>
config == <<configured, lock, handlers, todo, levels>>
tracing == <<filtered, context>>

NoCall == [via |-> "none", name |-> NoName, stack |-> <<>>]

-----------------------------------------------------------------------------
(* What a deployment prescribes.                                           *)

LevelMap == [t \in {"DEBUG", "INFO", "WARNING", "ERROR", "CRITICAL"} |->
               CASE t = "DEBUG" -> DEBUG [] t = "INFO" -> INFO [] t = "WARNING" -> WARNING
                 [] t = "ERROR" -> ERROR [] t = "CRITICAL" -> CRITICAL]

\* Altered: a text that is no level switches the level off.
LevelOrNone(s) == IF s.level \in DOMAIN LevelMap THEN LevelMap[s.level] ELSE NOTSET

\* LOG_LEVEL_INT, which knows every text: INFO if it is no level.
LogLevelInt(s) == IF s.level \in DOMAIN LevelMap THEN LevelMap[s.level] ELSE INFO

Handler(sink, format, level) == [sink |-> sink, format |-> format, level |-> level]

Console(s) ==
  CASE s.environment = "staging" -> Handler("console", "structured", LogLevelInt(s))
    [] s.environment = "production" ->
         Handler("console", "json", IF s.optimize THEN WARNING ELSE LogLevelInt(s))
    [] OTHER -> Handler("console", "detailed", IF s.verbose THEN DEBUG ELSE LogLevelInt(s))

File(s) ==
  IF s.environment = "production" THEN Handler("file", "json", LogLevelInt(s))
                                  ELSE Handler("file", "structured", DEBUG)

\* The console first, then the file.
HandlersOf(s) ==
  (IF s.console THEN <<Console(s)>> ELSE <<>>) \o (IF s.file THEN <<File(s)>> ELSE <<>>)

\* The levels that setup sets, the rest stay.
LevelsOf(s) ==
  [n \in Loggers |->
     IF n = "root" THEN LogLevelInt(s)
     ELSE IF s.environment = "production" /\ n \in Noisy THEN WARNING ELSE levels[n]]

Init ==
  /\ settings \in Deployments
  /\ configured = FALSE
  /\ lock = Nobody
  /\ handlers = <<>>
  /\ todo = [t \in Callers |-> <<>>]
  /\ levels = [n \in Loggers |-> IF n = "root" THEN WARNING ELSE NOTSET]
  /\ filtered = FALSE
  /\ pc = [t \in Callers |-> "idle"]
  /\ call = [t \in Callers |-> NoCall]
  /\ got = [t \in Callers |-> [logger |-> NoName, id |-> NoId]]
  /\ context = [t \in Callers |-> NoId]
  /\ asked = [n \in Loggers |-> NOTSET]
  /\ replaced = FALSE
  /\ failures = 0

Goto(t, l) == pc' = [pc EXCEPT ![t] = l]

-----------------------------------------------------------------------------
(* get_logger: the configuration.                                          *)

\* A caller calls, or tries again; "if not _logging_configured" without the lock.
Ask(t, c) ==
  /\ pc[t] \in {"idle", "failed"}
  /\ call' = [call EXCEPT ![t] = c]
  /\ Goto(t, IF configured THEN "name" ELSE "acquire")
  /\ UNCHANGED <<settings, config, got, tracing, asked, replaced, failures>>

Acquire(t) ==
  /\ pc[t] = "acquire" /\ lock = Nobody
  /\ lock' = t
  /\ Goto(t, "locked")
  /\ UNCHANGED <<settings, configured, handlers, todo, levels, call, got, tracing, asked, replaced, failures>>

\* Altered: whoever gets the lock configures.
AlwaysConfigures == TRUE

\* "if not _logging_configured", again, with the lock.
MustConfigure == ~configured

\* Altered: an exception leaves the lock behind.
Keeps(t) == lock' = IF pc[t] = "create" THEN lock ELSE Nobody

\* The end of "with _configuration_lock", on an exception too.
Releases(t) == lock' = Nobody

Recheck(t) ==
  /\ pc[t] = "locked"
  /\ IF MustConfigure THEN Goto(t, "clear") /\ UNCHANGED lock
                      ELSE Goto(t, "name") /\ Releases(t)
  /\ UNCHANGED <<settings, configured, handlers, todo, levels, call, got, tracing, asked, replaced, failures>>

\* Altered: the flag is set before the work.
MarksFirst(step) == step = "clear"

\* _logging_configured = True
Marks(step) == step = "levels"

\* One statement of the configuration.
Setup(t, step, next) ==
  /\ pc[t] = step
  /\ Goto(t, next)
  /\ configured' = (configured \/ Marks(step))
  /\ UNCHANGED <<settings, call, got, tracing, asked, replaced>>

\* logging.getLogger().handlers.clear()
ClearHandlers(t) ==
  /\ Setup(t, "clear", "create")
  /\ handlers' = <<>>
  /\ UNCHANGED <<lock, levels, todo, failures>>

\* All handlers are made before one is added.
CreateHandlers(t) ==
  /\ Setup(t, "create", "add")
  /\ todo' = [todo EXCEPT ![t] = HandlersOf(settings)]
  /\ UNCHANGED <<lock, handlers, levels, failures>>

\* The log file does not open: the caller gets the exception, as a rule while
\* its module is imported.
OpenFails(t) ==
  /\ settings.file
  /\ failures < MaxFailures /\ failures' = failures + 1
  /\ Setup(t, "create", "failed")
  /\ Releases(t)
  /\ UNCHANGED <<handlers, levels, todo>>

\* root_logger.addHandler(handler)
AddHandler(t) ==
  /\ todo[t] # <<>>
  /\ Setup(t, "add", "add")
  /\ handlers' = Append(handlers, Head(todo[t]))
  /\ todo' = [todo EXCEPT ![t] = Tail(@)]
  /\ UNCHANGED <<lock, levels, failures>>

AllAdded(t) ==
  /\ todo[t] = <<>>
  /\ Setup(t, "add", "levels")
  /\ UNCHANGED <<lock, handlers, levels, todo, failures>>

\* The level of the root logger, and in production of the noisy ones; then the
\* flag is set and the lock released.
SetLevels(t) ==
  /\ Setup(t, "levels", "name")
  /\ levels' = LevelsOf(settings)
  /\ Releases(t)
  /\ UNCHANGED <<handlers, todo, failures>>

-----------------------------------------------------------------------------
(* get_logger: the name, and what its variants add.                        *)

\* The module of the frame that is n frames above the one that called
\* get_logger; the stack lists modules, the innermost first.
FrameAbove(stack, n) == IF n < Len(stack) THEN stack[n + 1] ELSE "unknown"

\* _detect_calling_module goes three frames up from its own: past get_logger
\* and past its caller.  From get_logger_with_correlation_id, which stands
\* between, it arrives at the caller.
DetectedName(c) == FrameAbove(c.stack, IF c.via = "with_id" THEN 0 ELSE 1)

NameOf(c) == IF c.name = NoName THEN DetectedName(c) ELSE c.name

\* The adapter of get_logger_with_correlation_id carries an id, whatever the
\* context says.
AdapterIds(c) == IF c.via = "with_id" THEN Ids ELSE {NoId}

\* modules/common/utils/logger.py sets the level that it is given.
SetsLevel(c) ==
  IF c.via = "with_level"
    THEN /\ levels' = [levels EXCEPT ![NameOf(c)] = DEBUG]
         /\ asked' = [asked EXCEPT ![NameOf(c)] = DEBUG]
    ELSE UNCHANGED <<levels, asked>>

NameLogger(t) ==
  /\ pc[t] = "name"
  /\ \E i \in AdapterIds(call[t]) : got' = [got EXCEPT ![t] = [logger |-> NameOf(call[t]), id |-> i]]
  /\ SetsLevel(call[t])
  /\ Goto(t, "ready")
  /\ UNCHANGED <<settings, configured, lock, handlers, todo, tracing, call, replaced, failures>>

\* reconfigure_logger_level, to debug a component; before the configuration it may be undone by it.
Reconfigure(n) ==
  /\ levels' = [levels EXCEPT ![n] = DEBUG]
  /\ asked' = IF configured THEN [asked EXCEPT ![n] = DEBUG] ELSE asked
  /\ UNCHANGED <<settings, configured, lock, handlers, todo, pc, call, got, tracing, replaced, failures>>

\* configure_testing_logging, from a fixture: no lock, and no flag, so that the
\* first get_logger after it configures all the same.
ReplaceForTests ==
  /\ ~replaced /\ replaced' = TRUE
  /\ handlers' = <<Handler("null", "none", NOTSET)>>
  /\ levels' = [n \in Loggers |-> IF n \in {"root"} \cup Silenced THEN ERROR ELSE levels[n]]
  /\ asked' = [n \in Loggers |-> IF n \in {"root"} \cup Silenced THEN NOTSET ELSE asked[n]]
  /\ UNCHANGED <<settings, configured, lock, todo, pc, call, got, tracing, failures>>

-----------------------------------------------------------------------------
(* Correlation ids.                                                        *)

\* add_correlation_id_filter
AddFilter ==
  /\ ~filtered /\ filtered' = TRUE
  /\ UNCHANGED <<settings, config, pc, call, got, context, asked, replaced, failures>>

\* set_correlation_id: correlation_id_var is a ContextVar, the others keep theirs.
SetId(t, i) ==
  /\ context' = [context EXCEPT ![t] = i]
  /\ UNCHANGED <<settings, config, pc, call, got, filtered, asked, replaced, failures>>

\* CorrelationIdFilter: the id of the context; else an attribute of the thread;
\* else that of a request among the local variables of any caller.
FoundId(t, thread, request) ==
  LET found == SelectSeq(<<context[t], thread, request>>, LAMBDA i : i # NoId)
  IN IF found = <<>> THEN NoId ELSE Head(found)

\* The id of a record.  A logger's filters see what is logged through that logger,
\* not through its children; there what the filter finds replaces the adapter's.
IdOf(t, thread, request) ==
  IF filtered /\ got[t].logger = "root" THEN FoundId(t, thread, request) ELSE got[t].id

-----------------------------------------------------------------------------
GetLogger(t) ==
  \/ Acquire(t) \/ Recheck(t) \/ ClearHandlers(t) \/ CreateHandlers(t) \/ OpenFails(t)
  \/ AddHandler(t) \/ AllAdded(t) \/ SetLevels(t) \/ NameLogger(t)

Next ==
  \/ \E t \in Callers :
       \/ \E c \in Calls : Ask(t, c)
       \/ GetLogger(t)
       \/ \E i \in Ids : SetId(t, i)
  \/ \E n \in Noisy : Reconfigure(n)
  \/ AddFilter \/ ReplaceForTests

\* A thread inside get_logger goes on; nobody has to call it.
Spec == Init /\ [][Next]_vars /\ \A t \in Callers : WF_vars(GetLogger(t))

-----------------------------------------------------------------------------
Steps == {"idle", "acquire", "locked", "clear", "create", "add", "levels", "name", "ready", "failed"}
Handlers == [sink : {"console", "file"}, format : {"detailed", "structured", "json"}, level : LevelNumbers]
              \cup {Handler("null", "none", NOTSET)}

\* Every variable holds a value of its kind; no handler has a level that is
\* none, whatever text LOG_LEVEL is.
TypeOK ==
  /\ settings \in Deployments
  /\ configured \in BOOLEAN
  /\ lock \in Callers \cup {Nobody}
  /\ handlers \in Seq(Handlers)
  /\ todo \in [Callers -> Seq(Handlers)]
  /\ levels \in [Loggers -> LevelNumbers \cup {NOTSET}]
  /\ levels["root"] # NOTSET
  /\ filtered \in BOOLEAN
  /\ pc \in [Callers -> Steps]
  /\ call \in [Callers -> Calls \cup {NoCall}]
  /\ got \in [Callers -> [logger : Loggers \cup {NoName}, id : Ids \cup {NoId}]]
  /\ context \in [Callers -> Ids \cup {NoId}]
  /\ asked \in [Loggers -> LevelNumbers \cup {NOTSET}]
  /\ replaced \in BOOLEAN
  /\ failures \in 0..MaxFailures

\* A caller that has its logger finds the root logger configured as the
\* deployment prescribes, every sink once and in order, no matter who else
\* was asking or configuring at the same time and whose attempts had failed;
\* only the test fixture changes that.
ReadyMeansConfigured ==
  \A t \in Callers : pc[t] \in {"name", "ready"} /\ ~replaced => handlers = HandlersOf(settings)

\* A level that was asked for once logging is configured stays until another
\* one is asked for: no late get_logger configures again over it.
LevelsAreKept == \A n \in Loggers : asked[n] # NOTSET => levels[n] = asked[n]

\* "Adds the filter to the root logger so all child loggers inherit the correlation
\* ID functionality": with the filter added, a record of any logger carries the id
\* that set_correlation_id put into its context.
FilteredRecordsCarryTheId ==
  \A t \in Callers, thread, request \in Ids \cup {NoId} :
    filtered /\ pc[t] = "ready" /\ context[t] # NoId => IdOf(t, thread, request) = context[t]

\* Whoever asks for a logger gets it, or the exception of a log file that does
\* not open; the lock is left to the others.
EveryCallIsAnswered ==
  \A t \in Callers : pc[t] = "acquire" ~> pc[t] \in {"ready", "failed"}

\* "Detect the module name of the calling function": without a name, the logger
\* is that of the module whose code called.
DetectsTheCaller ==
  \A t \in Callers : pc[t] = "ready" /\ call[t].name = NoName => got[t].logger = Head(call[t].stack)
=============================================================================
