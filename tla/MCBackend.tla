------------------------------- MODULE MCBackend -------------------------------
(* Small deployments for TLC: one or two workers, two tables, one or two cache keys. *)
EXTENDS Backend

CONSTANTS k1, k2

MCArguments ==
  [createTables |-> Absent, docsInProduction |-> Absent, docsUrl |-> "/docs",
   cors |-> Absent, gzip |-> Absent]

MCTables == <<"companies", "contacts">>

\* Production with Redis and tables created at start; the other deployments
\* differ in what each of the settings decides.
Production ==
  [environment |-> "production", database |-> TRUE, createTables |-> Absent, cache |-> "redis",
   clientCache |-> TRUE, cors |-> TRUE, gzip |-> Absent, securityHeaders |-> Absent,
   docsInProduction |-> FALSE, docsUrl |-> "/internal"]

Migrated == [Production EXCEPT !.createTables = FALSE]

MCDeployments ==
  {Production,
   [Migrated EXCEPT !.cache = "memcached", !.environment = "staging", !.gzip = FALSE],
   [Migrated EXCEPT !.cache = "memory", !.docsInProduction = TRUE, !.securityHeaders = FALSE],
   [Migrated EXCEPT !.cache = "none", !.environment = Absent, !.cors = Absent],
   [Migrated EXCEPT !.clientCache = FALSE, !.environment = "development", !.cors = FALSE]}

MCValues ==
  {[type |-> "object", chars |-> "{}"], [type |-> "object", chars |-> "[]"],
   [type |-> "none", chars |-> "null"], [type |-> "bool", chars |-> "True"],
   [type |-> "text", chars |-> "1"], [type |-> "bytes", chars |-> "word"]}

\* Values that the codec keeps, None excepted.
MCKeptValues ==
  {[type |-> "object", chars |-> "{}"], [type |-> "number", chars |-> "1"],
   [type |-> "bytes", chars |-> "word"]}

\* The text of the guide, "My App".
MCTexts == {[type |-> "text", chars |-> "word"]}

\* A minute, and the longest expiration that is one to Memcached.
MCUsualExpirations == {60, MonthSeconds}

\* Deployments whose tables are there, one for each backend.
MCCaches == {Migrated, [Migrated EXCEPT !.cache = "memcached"]}
=============================================================================
