----------------------------- MODULE LoggingProofs -----------------------------
(***************************************************************************)
(* Proofs about the logging package, for any threads, calls, loggers and   *)
(* deployments and any number of failures.                                 *)
(***************************************************************************)
EXTENDS Logging, TLAPS

\* Who configures holds the lock and finds nothing configured; who has passed
\* the configuration finds it done.
Locked ==
  \A t \in Callers :
    /\ pc[t] \in {"locked", "clear", "create", "add", "levels"} => lock = t
    /\ pc[t] \in {"clear", "create", "add", "levels"} => ~configured
    /\ pc[t] \in {"name", "ready"} => configured

\* The handlers of the root logger, with those still to be added, are what the
\* deployment prescribes, once the old ones are cleared.
Built ==
  ~replaced =>
    /\ configured => handlers = HandlersOf(settings)
    /\ \A t \in Callers :
         /\ pc[t] = "create" => handlers = <<>>
         /\ pc[t] = "add" => handlers \o todo[t] = HandlersOf(settings)
         /\ pc[t] = "levels" => handlers = HandlersOf(settings)

\* No level counts as asked for before the configuration, none is lost after it.
LevelsKnown == (~configured => \A n \in Loggers : asked[n] = NOTSET) /\ LevelsAreKept

LoggingInv == TypeOK /\ Locked /\ Built /\ LevelsKnown

-----------------------------------------------------------------------------
(* Operators.                                                              *)

\* A deployment prescribes handlers of their kind, and a level for root.
LEMMA Prescriptions ==
  ASSUME NEW s
  PROVE  HandlersOf(s) \in Seq(Handlers) /\ LogLevelInt(s) \in LevelNumbers
<1>1. LogLevelInt(s) \in LevelNumbers
  BY DEF LogLevelInt, LevelMap, LevelNumbers
<1>2. Console(s) \in Handlers
  <2>1. \A level \in LevelNumbers : \A f \in {"detailed", "structured", "json"} :
          Handler("console", f, level) \in Handlers
    BY DEF Handler, Handlers
  <2>2. WARNING \in LevelNumbers /\ DEBUG \in LevelNumbers
    BY DEF LevelNumbers
  <2> QED
    BY <1>1, <2>1, <2>2 DEF Console
<1>3. File(s) \in Handlers
  <2>1. \A level \in LevelNumbers : \A f \in {"detailed", "structured", "json"} :
          Handler("file", f, level) \in Handlers
    BY DEF Handler, Handlers
  <2>2. DEBUG \in LevelNumbers
    BY DEF LevelNumbers
  <2> QED
    BY <1>1, <2>1, <2>2 DEF File
<1>4. HandlersOf(s) \in Seq(Handlers)
  <2>1. <<Console(s)>> \in Seq(Handlers) /\ <<File(s)>> \in Seq(Handlers) /\ <<>> \in Seq(Handlers)
    BY <1>2, <1>3
  <2>2. \A a \in Seq(Handlers) : \A b \in Seq(Handlers) : a \o b \in Seq(Handlers)
    OBVIOUS
  <2> QED
    BY <2>1, <2>2 DEF HandlersOf
<1> QED
  BY <1>1, <1>4

\* The name of a logger is known, whichever way it was found.
LEMMA NamesAreLoggers ==
  ASSUME NEW c \in Calls \cup {NoCall}
  PROVE  NameOf(c) \in Loggers
<1>1. c.stack \in Seq(Loggers) /\ c.name \in Loggers \cup {NoName} /\ "unknown" \in Loggers
  <2>1. NoCall.stack = <<>> /\ NoCall.name = NoName /\ <<>> \in Seq(Loggers)
    BY DEF NoCall
  <2> QED
    BY <2>1, LoggingAssumption DEF LoggingAssumption
<1>2. \A n \in {0, 1} : FrameAbove(c.stack, n) \in Loggers
  BY <1>1 DEF FrameAbove
<1> QED
  BY <1>1, <1>2 DEF NameOf, DetectedName

\* Adding the first of the remaining handlers leaves the whole as it is.
LEMMA AddedInOrder ==
  ASSUME NEW S, NEW h \in Seq(S), NEW rest \in Seq(S), rest # <<>>
  PROVE  Append(h, Head(rest)) \o Tail(rest) = h \o rest
<1> QED
  OBVIOUS

-----------------------------------------------------------------------------
(* The invariant.                                                          *)

\* A process starts with nothing configured.
LEMMA InitHolds == ASSUME Init PROVE LoggingInv
<1>1. TypeOK
  <2>1. "root" \in Loggers /\ MaxFailures \in Nat
    BY LoggingAssumption DEF LoggingAssumption
  <2>2. WARNING \in LevelNumbers /\ WARNING # NOTSET
    BY DEF WARNING, LevelNumbers, NOTSET
  <2>3. levels \in [Loggers -> LevelNumbers \cup {NOTSET}] /\ levels["root"] # NOTSET
        /\ asked \in [Loggers -> LevelNumbers \cup {NOTSET}]
    BY <2>1, <2>2 DEF Init
  <2>4. handlers \in Seq(Handlers) /\ todo \in [Callers -> Seq(Handlers)]
    BY DEF Init
  <2>5. failures \in 0..MaxFailures
    BY <2>1 DEF Init
  <2> QED
    BY <2>3, <2>4, <2>5 DEF Init, TypeOK, Steps
<1>2. Locked /\ Built /\ LevelsKnown
  BY DEF Init, Locked, Built, LevelsKnown, LevelsAreKept
<1> QED
  BY <1>1, <1>2 DEF LoggingInv

\* Every step keeps the types.
LEMMA TypeKept == ASSUME LoggingInv, [Next]_vars PROVE TypeOK'
<1> USE DEF Goto, config, tracing
<1>0. TypeOK /\ {"root"} \cup Noisy \cup Silenced \subseteq Loggers /\ MaxFailures \in Nat
  BY LoggingAssumption DEF LoggingInv, LoggingAssumption
<1>a. ERROR \in LevelNumbers /\ DEBUG \in LevelNumbers /\ WARNING \in LevelNumbers
      /\ ERROR # NOTSET /\ DEBUG # NOTSET /\ NOTSET \notin LevelNumbers
  BY DEF LevelNumbers, NOTSET, DEBUG, INFO, WARNING, ERROR, CRITICAL
<1>1. ASSUME NEW t \in Callers, NEW c \in Calls, Ask(t, c) PROVE TypeOK'
  BY <1>0, <1>1 DEF Ask, TypeOK, Steps
<1>2. ASSUME NEW t \in Callers, Acquire(t) PROVE TypeOK'
  BY <1>0, <1>2 DEF Acquire, TypeOK, Steps
<1>3. ASSUME NEW t \in Callers, Recheck(t) PROVE TypeOK'
  BY <1>0, <1>3 DEF Recheck, Releases, TypeOK, Steps
<1>4. ASSUME NEW t \in Callers, ClearHandlers(t) PROVE TypeOK'
  BY <1>0, <1>4 DEF ClearHandlers, Setup, Marks, TypeOK, Steps
<1>5. ASSUME NEW t \in Callers, CreateHandlers(t) PROVE TypeOK'
  BY <1>0, <1>5, Prescriptions DEF CreateHandlers, Setup, Marks, TypeOK, Steps
<1>6. ASSUME NEW t \in Callers, OpenFails(t) PROVE TypeOK'
  BY <1>0, <1>6 DEF OpenFails, Setup, Marks, Releases, TypeOK, Steps
<1>7. ASSUME NEW t \in Callers, AddHandler(t) PROVE TypeOK'
  <2>1. todo[t] \in Seq(Handlers) /\ todo[t] # <<>> /\ handlers \in Seq(Handlers)
    BY <1>0, <1>7 DEF AddHandler, TypeOK
  <2>2. Tail(todo[t]) \in Seq(Handlers) /\ Append(handlers, Head(todo[t])) \in Seq(Handlers)
    BY <2>1
  <2> QED
    BY <1>0, <1>7, <2>2 DEF AddHandler, Setup, Marks, TypeOK, Steps
<1>8. ASSUME NEW t \in Callers, AllAdded(t) PROVE TypeOK'
  BY <1>0, <1>8 DEF AllAdded, Setup, Marks, TypeOK, Steps
<1>9. ASSUME NEW t \in Callers, SetLevels(t) PROVE TypeOK'
  <2>1. levels' \in [Loggers -> LevelNumbers \cup {NOTSET}] /\ levels'["root"] # NOTSET
    <3>1. LogLevelInt(settings) \in LevelNumbers /\ LogLevelInt(settings) # NOTSET
      BY <1>a, Prescriptions
    <3> QED
      BY <1>0, <1>a, <1>9, <3>1 DEF SetLevels, LevelsOf, TypeOK
  <2> QED
    BY <1>0, <1>9, <2>1 DEF SetLevels, Setup, Releases, TypeOK, Steps
<1>10. ASSUME NEW t \in Callers, NameLogger(t) PROVE TypeOK'
  <2>1. call[t] \in Calls \cup {NoCall} /\ NameOf(call[t]) \in Loggers
    BY <1>0, NamesAreLoggers DEF TypeOK
  <2>2. /\ levels' \in [Loggers -> LevelNumbers \cup {NOTSET}] /\ levels'["root"] # NOTSET
        /\ asked' \in [Loggers -> LevelNumbers \cup {NOTSET}]
    BY <1>0, <1>a, <1>10, <2>1 DEF NameLogger, SetsLevel, TypeOK
  <2>3. PICK i \in AdapterIds(call[t]) :
          got' = [got EXCEPT ![t] = [logger |-> NameOf(call[t]), id |-> i]]
    BY <1>10 DEF NameLogger
  <2>4. i \in Ids \cup {NoId}
    BY DEF AdapterIds
  <2>5. got' \in [Callers -> [logger : Loggers \cup {NoName}, id : Ids \cup {NoId}]]
    BY <1>0, <2>1, <2>3, <2>4 DEF TypeOK
  <2> QED
    BY <1>0, <1>10, <2>2, <2>5 DEF NameLogger, TypeOK, Steps
<1>11. ASSUME NEW t \in Callers, NEW i \in Ids, SetId(t, i) PROVE TypeOK'
  BY <1>0, <1>11 DEF SetId, TypeOK
<1>12. ASSUME NEW n \in Noisy, Reconfigure(n) PROVE TypeOK'
  BY <1>0, <1>a, <1>12 DEF Reconfigure, TypeOK
<1>13. CASE AddFilter
  BY <1>0, <1>13 DEF AddFilter, TypeOK
<1>14. CASE ReplaceForTests
  <2>1. handlers' \in Seq(Handlers)
    BY <1>14 DEF ReplaceForTests, Handlers
  <2>2. /\ levels' \in [Loggers -> LevelNumbers \cup {NOTSET}] /\ levels'["root"] # NOTSET
        /\ asked' \in [Loggers -> LevelNumbers \cup {NOTSET}]
    BY <1>0, <1>a, <1>14 DEF ReplaceForTests, TypeOK
  <2> QED
    BY <1>0, <1>14, <2>1, <2>2 DEF ReplaceForTests, TypeOK
<1>15. CASE UNCHANGED vars
  BY <1>0, <1>15 DEF vars, TypeOK
<1> QED
  BY <1>1, <1>2, <1>3, <1>4, <1>5, <1>6, <1>7, <1>8, <1>9, <1>10, <1>11, <1>12, <1>13, <1>14, <1>15
     DEF Next, GetLogger

\* The lock keeps the configuration to one caller, who sets the flag last.
LEMMA LockKept == ASSUME LoggingInv, [Next]_vars PROVE Locked'
<1> USE DEF Goto, config, tracing, Setup, Marks, Releases, MustConfigure
<1>0. TypeOK /\ Locked
  BY DEF LoggingInv
<1>1. ASSUME NEW t \in Callers, NEW c \in Calls, Ask(t, c) PROVE Locked'
  BY <1>0, <1>1 DEF Ask, TypeOK, Locked
<1>2. ASSUME NEW t \in Callers, Acquire(t) PROVE Locked'
  BY <1>0, <1>2, LoggingAssumption DEF Acquire, TypeOK, Locked, LoggingAssumption
<1>3. ASSUME NEW t \in Callers, Recheck(t) PROVE Locked'
  BY <1>0, <1>3 DEF Recheck, TypeOK, Locked
<1>4. ASSUME NEW t \in Callers, ClearHandlers(t) \/ CreateHandlers(t) \/ AddHandler(t) \/ AllAdded(t)
      PROVE  Locked'
  BY <1>0, <1>4 DEF ClearHandlers, CreateHandlers, AddHandler, AllAdded, TypeOK, Locked
<1>5. ASSUME NEW t \in Callers, OpenFails(t) PROVE Locked'
  BY <1>0, <1>5 DEF OpenFails, TypeOK, Locked
<1>6. ASSUME NEW t \in Callers, SetLevels(t) PROVE Locked'
  BY <1>0, <1>6 DEF SetLevels, TypeOK, Locked
<1>7. ASSUME NEW t \in Callers, NameLogger(t) PROVE Locked'
  BY <1>0, <1>7 DEF NameLogger, TypeOK, Locked
<1>8. CASE UNCHANGED <<configured, lock, pc>>
  BY <1>0, <1>8 DEF Locked
<1> QED
  BY <1>1, <1>2, <1>3, <1>4, <1>5, <1>6, <1>7, <1>8
     DEF Next, GetLogger, SetId, Reconfigure, AddFilter, ReplaceForTests, vars

\* The handlers are built once, in order, by the one who holds the lock.
LEMMA BuiltKept == ASSUME LoggingInv, [Next]_vars PROVE Built'
<1> USE DEF Goto, config, tracing, Setup, Marks, Releases, MustConfigure
<1>0. TypeOK /\ Locked /\ Built
  BY DEF LoggingInv
<1>s. settings' = settings /\ HandlersOf(settings)' = HandlersOf(settings)
  BY DEF HandlersOf, Console, File, Next, vars, GetLogger, Ask, Acquire, Recheck, ClearHandlers, CreateHandlers,
         OpenFails, AddHandler, AllAdded, SetLevels, NameLogger, SetId, Reconfigure, AddFilter, ReplaceForTests
<1>1. ASSUME NEW t \in Callers, UNCHANGED <<configured, handlers, todo, replaced>>, pc' = [pc EXCEPT ![t] = pc'[t]],
             pc'[t] \notin {"create", "add", "levels"}
      PROVE  Built'
  BY <1>0, <1>s, <1>1 DEF Built, TypeOK
<1>2. ASSUME NEW t \in Callers, NEW c \in Calls, Ask(t, c) PROVE Built'
  BY <1>0, <1>1, <1>2 DEF Ask, TypeOK
<1>3. ASSUME NEW t \in Callers, Acquire(t) \/ Recheck(t) \/ NameLogger(t) PROVE Built'
  BY <1>0, <1>1, <1>3 DEF Acquire, Recheck, NameLogger, TypeOK
<1>4. ASSUME NEW t \in Callers, ClearHandlers(t) PROVE Built'
  BY <1>0, <1>s, <1>4 DEF ClearHandlers, TypeOK, Locked, Built
<1>5. ASSUME NEW t \in Callers, CreateHandlers(t) PROVE Built'
  <2>1. <<>> \o HandlersOf(settings) = HandlersOf(settings)
    BY Prescriptions
  <2> QED
    BY <1>0, <1>s, <1>5, <2>1 DEF CreateHandlers, TypeOK, Locked, Built
<1>6. ASSUME NEW t \in Callers, OpenFails(t) PROVE Built'
  BY <1>0, <1>s, <1>6 DEF OpenFails, TypeOK, Locked, Built
<1>7. ASSUME NEW t \in Callers, AddHandler(t) PROVE Built'
  <2>1. handlers' \o todo'[t] = handlers \o todo[t]
    <3>1. /\ handlers \in Seq(Handlers) /\ todo[t] \in Seq(Handlers) /\ todo[t] # <<>>
          /\ handlers' = Append(handlers, Head(todo[t])) /\ todo'[t] = Tail(todo[t])
      BY <1>0, <1>7 DEF AddHandler, TypeOK
    <3> QED
      BY <3>1, AddedInOrder
  <2>2. pc[t] = "add" /\ pc' = pc /\ ~configured /\ ~configured' /\ replaced' = replaced
    BY <1>0, <1>7 DEF AddHandler, TypeOK, Locked
  <2>3. \A u \in Callers : u # t => pc[u] \notin {"clear", "create", "add", "levels"}
    BY <1>0, <2>2 DEF Locked
  <2> QED
    BY <1>0, <1>s, <2>1, <2>2, <2>3 DEF Built
<1>8. ASSUME NEW t \in Callers, AllAdded(t) PROVE Built'
  <2>1. handlers \o todo[t] = handlers
    BY <1>0, <1>8 DEF AllAdded, TypeOK
  <2> QED
    BY <1>0, <1>s, <1>8, <2>1 DEF AllAdded, TypeOK, Locked, Built
<1>9. ASSUME NEW t \in Callers, SetLevels(t) PROVE Built'
  BY <1>0, <1>s, <1>9 DEF SetLevels, TypeOK, Locked, Built
<1>10. CASE ReplaceForTests
  BY <1>10 DEF ReplaceForTests, Built
<1>11. CASE UNCHANGED <<configured, handlers, todo, replaced, pc>>
  BY <1>0, <1>s, <1>11 DEF Built
<1> QED
  BY <1>2, <1>3, <1>4, <1>5, <1>6, <1>7, <1>8, <1>9, <1>10, <1>11
     DEF Next, GetLogger, SetId, Reconfigure, AddFilter, vars

\* Levels are set by the configuration before any is asked for.
LEMMA LevelsKept == ASSUME LoggingInv, [Next]_vars PROVE LevelsKnown'
<1> USE DEF Goto, config, tracing, Setup, Marks, Releases
<1>0. TypeOK /\ Locked /\ LevelsKnown /\ LoggingAssumption
  BY LoggingAssumption DEF LoggingInv
<1>1. CASE UNCHANGED <<levels, asked>> /\ (configured => configured')
  BY <1>0, <1>1 DEF LevelsKnown, LevelsAreKept
<1>2. ASSUME NEW t \in Callers, SetLevels(t) PROVE LevelsKnown'
  BY <1>0, <1>2 DEF SetLevels, Locked, LevelsKnown, LevelsAreKept
<1>3. ASSUME NEW t \in Callers, NameLogger(t) PROVE LevelsKnown'
  <2>1. configured'
    BY <1>0, <1>3 DEF NameLogger, Locked
  <2>2. \/ UNCHANGED <<levels, asked>>
        \/ \E name : levels' = [levels EXCEPT ![name] = DEBUG] /\ asked' = [asked EXCEPT ![name] = DEBUG]
    BY <1>3 DEF NameLogger, SetsLevel
  <2>3. \A n \in Loggers : asked'[n] # NOTSET => levels'[n] = asked'[n]
    <3> SUFFICES ASSUME NEW n \in Loggers, asked'[n] # NOTSET PROVE levels'[n] = asked'[n]
      OBVIOUS
    <3>1. asked[n] # NOTSET => levels[n] = asked[n]
      BY <1>0 DEF LevelsKnown, LevelsAreKept
    <3>2. n \in DOMAIN levels /\ n \in DOMAIN asked
      BY <1>0 DEF TypeOK
    <3>3. CASE UNCHANGED <<levels, asked>>
      BY <3>1, <3>3
    <3>4. ASSUME NEW name, levels' = [levels EXCEPT ![name] = DEBUG], asked' = [asked EXCEPT ![name] = DEBUG]
          PROVE  levels'[n] = asked'[n]
      <4>1. CASE n = name
        BY <3>2, <3>4, <4>1
      <4>2. CASE n # name
        BY <3>1, <3>2, <3>4, <4>2
      <4> QED
        BY <4>1, <4>2
    <3> QED
      BY <2>2, <3>3, <3>4
  <2> QED
    BY <2>1, <2>3 DEF LevelsKnown, LevelsAreKept
<1>4. ASSUME NEW n \in Noisy, Reconfigure(n) PROVE LevelsKnown'
  BY <1>0, <1>4 DEF Reconfigure, TypeOK, LevelsKnown, LevelsAreKept
<1>5. CASE ReplaceForTests
  BY <1>0, <1>5 DEF ReplaceForTests, TypeOK, LevelsKnown, LevelsAreKept
<1>6. ASSUME NEW t \in Callers, Acquire(t) \/ Recheck(t) \/ ClearHandlers(t) \/ CreateHandlers(t)
                                 \/ OpenFails(t) \/ AddHandler(t) \/ AllAdded(t)
      PROVE  LevelsKnown'
  BY <1>1, <1>6 DEF Acquire, Recheck, ClearHandlers, CreateHandlers, OpenFails, AddHandler, AllAdded
<1> QED
  BY <1>1, <1>2, <1>3, <1>4, <1>5, <1>6 DEF Next, GetLogger, Ask, SetId, AddFilter, vars

\* The invariant of every behaviour.
LEMMA LoggingInvariant == Spec => []LoggingInv
<1>1. LoggingInv /\ [Next]_vars => LoggingInv'
  BY TypeKept, LockKept, BuiltKept, LevelsKept DEF LoggingInv
<1> QED
  BY <1>1, InitHolds, PTL DEF Spec

-----------------------------------------------------------------------------
(* What it says to those who log.                                          *)

\* Every variable holds a value of its kind at all times, whatever text the
\* level of the deployment is.
THEOREM LoggingIsTyped == Spec => []TypeOK
<1>1. LoggingInv => TypeOK
  BY DEF LoggingInv
<1> QED
  BY <1>1, LoggingInvariant, PTL

\* Whoever has a logger finds the handlers of the deployment, each once and in
\* order, however many threads have asked and whatever attempts have failed.
THEOREM LoggersAreConfigured == Spec => []ReadyMeansConfigured
<1>1. LoggingInv => ReadyMeansConfigured
  BY DEF LoggingInv, Locked, Built, ReadyMeansConfigured
<1> QED
  BY <1>1, LoggingInvariant, PTL

\* A level that was asked for after the configuration is not lost to a late one.
THEOREM AskedLevelsStay == Spec => []LevelsAreKept
<1>1. LoggingInv => LevelsAreKept
  BY DEF LoggingInv, LevelsKnown
<1> QED
  BY <1>1, LoggingInvariant, PTL
=============================================================================
