------------------------------- MODULE Process -------------------------------
(***************************************************************************)
(* The life of the server process (cmd/sender-report/main.go): the start   *)
(* with the .env migration (internal/envmigrate), the STARTTLS pair        *)
(* (internal/tlscert), the accept loop of the SMTP server and its          *)
(* WaitGroup (internal/smtp/server.go), the health check of the seed       *)
(* accounts (internal/web/server.go, internal/ipt/check.go), the shutdown, *)
(* and crashes and restarts between any two steps.                         *)
(***************************************************************************)
EXTENDS Integers, Sequences, FiniteSets, SequencesExt

CONSTANTS OwnKeys,    \* variables the operator has set in .env
          NewKeys,    \* variables this version adds to it
          Sessions,   \* SMTP connections
          Accounts,   \* seed accounts
          MaxTurns    \* crashes, signals, faults, connections and timer ticks

VARIABLES
  turns,     \* how many of them happened
  proc,      \* where main is
  env,       \* the lines of .env: <<key, who set the value>>
  plan,      \* the lines MigrateFile is writing
  pair,      \* [cert, key]: which generation each file holds
  starttls,  \* TLSConfig # nil
  ctx,       \* "live", or "done" after a signal or cancel()
  smtp,      \* [listener, closer]: the SMTP listener and the goroutine that closes it
  session,   \* session[s]: the connection's goroutine
  health,    \* the iptHealth cache
  check,     \* [at, out]: the running health check and its answers
  alarms,    \* history: why alerts were sent since the account last was fine
  torn       \* history: the files whose last write failed or was cut short

procVars == <<turns, proc, env, plan, pair, starttls, ctx, smtp, session, health, check, alarms, torn>>
bootVars == <<env, plan, pair, starttls, torn>>
smtpVars == <<smtp, session>>
healthVars == <<health, check, alarms>>

Up == {"serving", "drain", "wait"}
Absent == 0
Torn == -1

ProcTypeOK ==
  /\ turns \in 0..MaxTurns
  /\ proc \in {"down", "migrate", "write", "setup", "tls", "key", "stopped"} \cup Up
  /\ \A l \in ToSet(env) \cup ToSet(plan) : l \in (OwnKeys \cup NewKeys) \X {"operator", "default", "cut"}
  /\ pair \in [cert : {Torn} \cup Nat, key : {Torn} \cup Nat]
  /\ starttls \in BOOLEAN /\ ctx \in {"live", "done"}
  /\ smtp \in [listener : {"off", "open", "closed"}, closer : BOOLEAN]
  /\ session \in [Sessions -> {"none", "accepted", "running"}]
  /\ health \in [Accounts -> {"unknown", "ok", "failed"}]
  /\ check.at \in {"off", "idle", "pinging", "alert"}
  /\ check.out \in [Accounts -> {"none", "ok", "failed", "interrupted"}]
  /\ \A a \in Accounts : ToSet(alarms[a]) \subseteq {"failed", "interrupted"}
  /\ torn \subseteq {"env", "cert", "key"}

NoAnswers == [a \in Accounts |-> "none"]
NoCheck == [at |-> "off", out |-> NoAnswers]
NoSmtp == [listener |-> "off", closer |-> FALSE]

ProcInit ==
  /\ turns = 0 /\ proc = "down"
  /\ env = SetToSeq(OwnKeys \X {"operator"}) /\ plan = <<>>
  /\ pair = [cert |-> Absent, key |-> Absent] /\ starttls = FALSE
  /\ ctx = "live" /\ smtp = NoSmtp /\ session = [s \in Sessions |-> "none"]
  /\ health = [a \in Accounts |-> "unknown"] /\ check = NoCheck
  /\ alarms = [a \in Accounts |-> <<>>] /\ torn = {}

Turn == turns < MaxTurns /\ turns' = turns + 1

-----------------------------------------------------------------------------
\* A start, by the operator or the restart policy: nothing in memory survives.
Boot ==
  /\ Turn
  /\ proc \in {"down", "stopped"}
  /\ proc' = "migrate" /\ plan' = <<>> /\ starttls' = FALSE /\ ctx' = "live"
  /\ smtp' = NoSmtp /\ session' = [s \in Sessions |-> "none"]
  /\ health' = [a \in Accounts |-> "unknown"] /\ check' = NoCheck
  /\ alarms' = [a \in Accounts |-> <<>>]
  /\ UNCHANGED <<env, pair, torn>>

Keys(lines) == {l[1] : l \in ToSet(lines)}

\* Fault variant: every known variable is appended, set or not.
MigrateFile_AddsAll(lines) == lines \o SetToSeq((OwnKeys \cup NewKeys) \X {"default"})

\* The lines as they are, then every known variable that is not among them.
MigrateFile(lines) ==
  lines \o SetToSeq(((OwnKeys \cup NewKeys) \ Keys(lines)) \X {"default"})

\* main up to opening the file for writing, which truncates it.
Migrate ==
  /\ proc = "migrate"
  /\ IF MigrateFile(env) = env
     THEN proc' = "setup" /\ UNCHANGED <<env, plan>>
     ELSE proc' = "write" /\ plan' = MigrateFile(env) /\ env' = <<>>
  /\ UNCHANGED <<turns, pair, starttls, ctx, torn>> /\ UNCHANGED smtpVars /\ UNCHANGED healthVars

\* The buffered lines reach the file.
WriteEnv ==
  /\ proc = "write"
  /\ env' = plan /\ torn' = torn \ {"env"} /\ proc' = "setup"
  /\ UNCHANGED <<turns, plan, pair, starttls, ctx>> /\ UNCHANGED smtpVars /\ UNCHANGED healthVars

\* What a write that does not get to its end leaves of the lines: the first ones,
\* the last of them whole or with a part of its value.
CutShort(lines) ==
  UNION {{SubSeq(lines, 1, n), Append(SubSeq(lines, 1, n), <<lines[n + 1][1], "cut">>)} :
           n \in 0..Len(lines) - 1}

\* The file cannot be opened for writing, or a write error leaves a part of the
\* lines; main logs it and goes on.
WriteEnvFails ==
  /\ Turn
  /\ \/ proc = "migrate" /\ MigrateFile(env) # env /\ UNCHANGED env
     \/ proc = "write" /\ env' \in CutShort(plan)
  /\ torn' = torn \cup {"env"} /\ proc' = "setup"
  /\ UNCHANGED <<plan, pair, starttls, ctx>> /\ UNCHANGED smtpVars /\ UNCHANGED healthVars

\* config.Load, checkStorage, db.Open and web.New; then the background tasks,
\* the first health check among them, are running.
SetUp ==
  /\ proc = "setup"
  /\ proc' = "tls" /\ check' = [at |-> "pinging", out |-> NoAnswers]
  /\ UNCHANGED <<turns, ctx, health, alarms>> /\ UNCHANGED bootVars /\ UNCHANGED smtpVars

\* Any of them failing ends the process.
SetUpFails ==
  /\ Turn
  /\ proc = "setup"
  /\ proc' = "down"
  /\ UNCHANGED ctx /\ UNCHANGED bootVars /\ UNCHANGED smtpVars /\ UNCHANGED healthVars

Generation == IF pair.cert > pair.key THEN pair.cert + 1 ELSE pair.key + 1

\* Fault variant: a certificate alone counts as the pair.
LoadPair_CertOnly ==
  /\ proc = "tls" /\ pair.cert # Absent
  /\ starttls' = (pair.cert = pair.key /\ pair.cert # Torn)
  /\ proc' = "serving"
  /\ UNCHANGED <<turns, env, plan, pair, ctx, torn>> /\ UNCHANGED smtpVars /\ UNCHANGED healthVars

\* EnsureAndLoad: two files that exist are loaded, and a pair that does not
\* belong together or cannot be read leaves STARTTLS off ...
LoadPair ==
  /\ proc = "tls" /\ pair.cert # Absent /\ pair.key # Absent
  /\ starttls' = (pair.cert = pair.key /\ pair.cert # Torn)
  /\ proc' = "serving"
  /\ UNCHANGED <<turns, env, plan, pair, ctx, torn>> /\ UNCHANGED smtpVars /\ UNCHANGED healthVars

\* ... otherwise both are generated: the certificate is written first,
GenerateCert ==
  /\ proc = "tls" /\ Absent \in {pair.cert, pair.key}
  /\ pair' = [pair EXCEPT !.cert = Generation]
  /\ torn' = torn \ {"cert"} /\ proc' = "key"
  /\ UNCHANGED <<turns, env, plan, starttls, ctx>> /\ UNCHANGED smtpVars /\ UNCHANGED healthVars

\* the key second.
GenerateKey ==
  /\ proc = "key"
  /\ pair' = [pair EXCEPT !.key = pair.cert]
  /\ torn' = torn \ {"key"} /\ starttls' = TRUE /\ proc' = "serving"
  /\ UNCHANGED <<turns, env, plan, ctx>> /\ UNCHANGED smtpVars /\ UNCHANGED healthVars

\* Either file cannot be opened and stays as it is, or a write error leaves a
\* part of it; the server runs without STARTTLS.
GenerateFails ==
  /\ Turn
  /\ \/ proc = "tls" /\ Absent \in {pair.cert, pair.key}
        /\ pair' \in {pair, [pair EXCEPT !.cert = Torn]} /\ torn' = torn \cup {"cert"}
     \/ proc = "key"
        /\ pair' \in {pair, [pair EXCEPT !.key = Torn]} /\ torn' = torn \cup {"key"}
  /\ proc' = "serving"
  /\ UNCHANGED <<env, plan, starttls, ctx>> /\ UNCHANGED smtpVars /\ UNCHANGED healthVars

\* The machine or the process dies; a write that was under way is cut short.
Crash ==
  /\ Turn
  /\ proc \notin {"down", "stopped"}
  /\ proc' = "down"
  /\ \/ /\ proc = "write"
        /\ env' \in CutShort(plan)
        /\ torn' = torn \cup {"env"} /\ UNCHANGED pair
     \/ /\ proc = "tls" /\ Absent \in {pair.cert, pair.key}
        /\ pair' = [pair EXCEPT !.cert = Torn]
        /\ torn' = torn \cup {"cert"} /\ UNCHANGED env
     \/ /\ proc = "key"
        /\ pair' = [pair EXCEPT !.key = Torn]
        /\ torn' = torn \cup {"key"} /\ UNCHANGED env
     \/ proc # "write" /\ UNCHANGED <<env, pair, torn>>
  /\ session' = [s \in Sessions |-> "none"] /\ smtp' = NoSmtp /\ check' = NoCheck
  /\ UNCHANGED <<plan, starttls, ctx, health, alarms>>

-----------------------------------------------------------------------------
\* smtp.Server.Start: the listener and the goroutine that closes it.
ListenSmtp ==
  /\ proc \in Up /\ smtp.listener = "off"
  /\ smtp' = [listener |-> "open", closer |-> TRUE]
  /\ UNCHANGED <<turns, proc, ctx, session>> /\ UNCHANGED bootVars /\ UNCHANGED healthVars

\* Accept returns a connection; the loop has not counted it yet.
Accept(s) ==
  /\ Turn
  /\ proc \in Up /\ smtp.listener = "open"
  /\ session[s] = "none" /\ \A q \in Sessions : session[q] # "accepted"
  /\ session' = [session EXCEPT ![s] = "accepted"]
  /\ UNCHANGED <<proc, ctx, smtp>> /\ UNCHANGED bootVars /\ UNCHANGED healthVars

\* wg.Add and the connection's goroutine.
CountSession(s) ==
  /\ proc \in Up /\ session[s] = "accepted"
  /\ session' = [session EXCEPT ![s] = "running"]
  /\ UNCHANGED <<turns, proc, ctx, smtp>> /\ UNCHANGED bootVars /\ UNCHANGED healthVars

\* handleConn returns, at the latest by its deadline, or panics and is recovered.
SessionEnds(s) ==
  /\ proc \in Up /\ session[s] = "running"
  /\ session' = [session EXCEPT ![s] = "none"]
  /\ UNCHANGED <<turns, proc, ctx, smtp>> /\ UNCHANGED bootVars /\ UNCHANGED healthVars

\* ctx is done: the listener is closed.
CloseSmtp ==
  /\ proc \in Up /\ ctx = "done" /\ smtp.closer
  /\ smtp' = [listener |-> "closed", closer |-> FALSE]
  /\ UNCHANGED <<turns, proc, ctx, session>> /\ UNCHANGED bootVars /\ UNCHANGED healthVars

Running == {s \in Sessions : session[s] = "running"}

-----------------------------------------------------------------------------
\* SIGTERM cancels ctx, whatever main is doing; while it serves, that is what it
\* waits for.
Signal ==
  /\ Turn
  /\ ctx = "live" /\ proc \in {"tls", "key"} \cup Up
  /\ ctx' = "done"
  /\ UNCHANGED proc /\ UNCHANGED bootVars /\ UNCHANGED smtpVars /\ UNCHANGED healthVars

\* main leaves its select for the signal and stops accepting HTTP requests ...
ShutdownOnSignal ==
  /\ proc = "serving" /\ ctx = "done"
  /\ proc' = "drain"
  /\ UNCHANGED <<turns, ctx>> /\ UNCHANGED bootVars /\ UNCHANGED smtpVars /\ UNCHANGED healthVars

\* ... or for a listener that failed, with ctx still live.
FatalError ==
  /\ Turn
  /\ proc = "serving"
  /\ proc' = "drain"
  /\ UNCHANGED ctx /\ UNCHANGED bootVars /\ UNCHANGED smtpVars /\ UNCHANGED healthVars

\* Fault variant: the shutdown waits for the handlers without a limit.
Drained_NoTimeout(idle) ==
  /\ proc = "drain" /\ idle
  /\ proc' = "wait" /\ ctx' = "done"
  /\ UNCHANGED turns /\ UNCHANGED bootVars /\ UNCHANGED smtpVars /\ UNCHANGED healthVars

\* httpSrv.Shutdown returns when the server is idle or after ten seconds, so
\* idle or not in the end; then cancel().
Drained(idle) ==
  /\ proc = "drain"
  /\ proc' = "wait" /\ ctx' = "done"
  /\ UNCHANGED turns /\ UNCHANGED bootVars /\ UNCHANGED smtpVars /\ UNCHANGED healthVars

\* smtpSrv.Wait and the end of main: what is still running ends with it.
Exit ==
  /\ proc = "wait" /\ ~smtp.closer /\ Running = {}
  /\ proc' = "stopped" /\ check' = NoCheck /\ smtp' = NoSmtp
  /\ session' = [s \in Sessions |-> "none"]
  /\ UNCHANGED <<turns, ctx, health, alarms>> /\ UNCHANGED bootVars

-----------------------------------------------------------------------------
Alive == {"tls", "key"} \cup Up

\* The ticker of StartBackgroundTasks.
HealthTick ==
  /\ Turn
  /\ proc \in Alive /\ check.at = "idle" /\ ctx = "live"
  /\ check' = [at |-> "pinging", out |-> NoAnswers]
  /\ UNCHANGED <<proc, ctx, health, alarms>> /\ UNCHANGED bootVars /\ UNCHANGED smtpVars

\* PingAccount: the login works or does not, or ctx is done before it answers.
PingAccount(a) ==
  /\ proc \in Alive /\ check.at = "pinging" /\ check.out[a] = "none"
  /\ \E answer \in {"ok", "failed"} \cup (IF ctx = "done" THEN {"interrupted"} ELSE {}) :
       check' = [check EXCEPT !.out[a] = answer]
  /\ UNCHANGED <<turns, proc, ctx, health, alarms>> /\ UNCHANGED bootVars /\ UNCHANGED smtpVars

\* Fault variant: every failed account counts as newly failed.
NewlyFailed_All == {a \in Accounts : check.out[a] # "ok"}

\* Without an OK answer now, and not known as failed before.
NewlyFailed == {a \in Accounts : check.out[a] # "ok" /\ health[a] # "failed"}

\* CheckAll has every answer: they are stored, and new failures are mailed.
HealthStored ==
  /\ proc \in Alive /\ check.at = "pinging" /\ \A a \in Accounts : check.out[a] # "none"
  /\ health' = [a \in Accounts |-> IF check.out[a] = "ok" THEN "ok" ELSE "failed"]
  /\ LET new == NewlyFailed
     IN check' = IF new = {} THEN [at |-> "idle", out |-> NoAnswers]
                 ELSE [at |-> "alert",
                       out |-> [a \in Accounts |-> IF a \in new THEN check.out[a] ELSE "none"]]
  /\ alarms' = [a \in Accounts |-> IF check.out[a] = "ok" THEN <<>> ELSE alarms[a]]
  /\ UNCHANGED <<turns, proc, ctx>> /\ UNCHANGED bootVars /\ UNCHANGED smtpVars

\* SendIPTAlert; an error is logged and the alert is gone.
SendAlert ==
  /\ proc \in Alive /\ check.at = "alert"
  /\ check' = [at |-> "idle", out |-> NoAnswers]
  /\ \/ /\ alarms' = [a \in Accounts |-> IF check.out[a] = "none" THEN alarms[a]
                                         ELSE Append(alarms[a], check.out[a])]
        /\ UNCHANGED turns
     \/ Turn /\ UNCHANGED alarms
  /\ UNCHANGED <<proc, ctx, health>> /\ UNCHANGED bootVars /\ UNCHANGED smtpVars

-----------------------------------------------------------------------------
SmtpStep ==
  \/ ListenSmtp \/ CloseSmtp
  \/ \E s \in Sessions : CountSession(s) \/ SessionEnds(s)

HealthStep == HealthStored \/ SendAlert \/ \E a \in Accounts : PingAccount(a)

Environment ==
  \/ WriteEnvFails \/ SetUpFails \/ GenerateFails \/ Signal \/ FatalError \/ HealthTick
  \/ \E s \in Sessions : Accept(s)

-----------------------------------------------------------------------------
\* A start completes .env, also the one a crash or a write error cut short: once
\* the server is up, every variable is there exactly once, unless the start's own
\* write failed.
EnvComplete ==
  proc \in Up /\ "env" \notin torn =>
    Keys(env) = OwnKeys \cup NewKeys /\ Len(env) = Cardinality(Keys(env))

\* "Existing values are NEVER changed": while no migration is writing, the values
\* the operator set are in .env.
EnvValuesKept == proc # "write" => OwnKeys \X {"operator"} \subseteq ToSet(env)

\* The SMTP server offers STARTTLS after every start, whatever came between the
\* writes of certificate and key at earlier ones: it is off only after the last
\* write of one of the two files failed or was cut short.
StarttlsOffered == proc \in Up /\ torn \cap {"cert", "key"} = {} => starttls

\* One alert per outage of an account and process: an account that was reported
\* is not reported again before it worked in between, and unless the server is
\* being stopped it was reported for a login that failed.
AlertOncePerOutage ==
  \A a \in Accounts :
    /\ Len(alarms[a]) <= 1
    /\ ctx = "live" => "interrupted" \notin ToSet(alarms[a])
=============================================================================
