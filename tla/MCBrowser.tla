----------------------------- MODULE MCBrowser -----------------------------
(* The browser scripts against a service that answers as it likes, in ticks of  *)
(* five seconds, and their contract tests against mocked responses, in seconds. *)
EXTENDS Browser, Sequences

VARIABLES test, tenth, responses, calls, sleeps

mcTestVars == <<test, tenth, responses, calls, sleeps>>

\* The normal and pg-failure variants of business do what abandon does without leaving;
\* a worker's payment comes up to 200 s after its order.
MCPlans ==
  [script : {"business"}, variant : Variants \ {"normal", "pg-failure"}, since : {0}]
  \cup [script : {"business"}, variant : {"burst"}, since : {12}]
  \cup [script : {"returning"}, variant : {"abandon"}, since : {60}]
  \cup [script : {"warmup", "reservation"}, variant : {"normal"}, since : {0}]
  \cup [script : {"waiting"}, variant : {"abandon"}, since : {0}]
  \cup [script : {"worker"}, variant : {"normal"}, since : {0, 40}]

\* BrowserInit chooses among the plans of the tests too.
MCTestPlans ==
  [script : {"worker", "waiting", "reservation", "business", "warmup"},
   variant : Variants, since : {0}]

T == INSTANCE BrowserTests WITH
       Plans <- MCTestPlans, Latencies <- {0}, BrowserFor <- 180, LongestThink <- 45,
       OneSecond <- {1}, BurstAt <- 60, RetryAfters <- {1}, TicketFor <- 10, HoldFor <- 300,
       GracefulStop <- 420

NoTest == "none"

MCInit ==
  \/ /\ BrowserInit
     /\ test = NoTest /\ tenth = 0
     /\ responses = <<>> /\ calls = <<>> /\ sleeps = <<>>
  \/ T!TestInit

MCNext ==
  \/ test = NoTest /\ BrowserNext /\ UNCHANGED mcTestVars
  \/ test # NoTest /\ T!TestNext

MCSpec == MCInit /\ [][MCNext]_<<browserVars, mcTestVars>>

\* Every contract test of the browser scripts passes (BrowserTests).
TestsPass == test # NoTest => T!Asserted
=============================================================================
