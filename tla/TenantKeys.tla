------------------------------- MODULE TenantKeys -------------------------------
(***************************************************************************)
(* The P-256 key pairs of one tenant: the rows of tenant_keys, of which a  *)
(* partial unique index lets one be active, and the cache of every process *)
(* that holds a keystore.Service.                                          *)
(*                                                                         *)
(* Factory provisioning burns the active public key into a device, BLE and *)
(* OTA requests sign with the active private key, the admin generates a    *)
(* new pair.  Generate is a transaction of two statements; who finds no    *)
(* key at all generates one too.  A worker is one goroutine, used again.   *)
(***************************************************************************)
EXTENDS Naturals, FiniteSets

CONSTANTS
  Workers,   \* goroutines
  Procs,     \* processes: servers and the admin console
  Keys,      \* key pairs that can be drawn
  Legacy,    \* cfg.CloudPubkeyHex
  None,      \* no key, no worker
  TTL,       \* cacheTTL in ticks
  Settings   \* what goes on, see Setting

Jobs == {"provision", "sign", "rotate"}

\* warm: the tenant has a key.  jobs: the requests that occur, at most calls of
\* them.  prompt: no time passes between a read or a commit and the caching of its
\* key.  faulty: statements may fail, processes restart.  ticks: how much time passes.
Setting ==
  [warm : BOOLEAN, jobs : SUBSET Jobs, calls : Nat, prompt : BOOLEAN, faulty : BOOLEAN,
   ticks : Nat]

ASSUME KeyAssumptions ==
  /\ Settings \subseteq Setting
  /\ None \notin Keys /\ None \notin Workers /\ Legacy \notin Keys /\ Legacy # None
  /\ TTL \in Nat

VARIABLES
  setting,
  calls,     \* requests left
  ticks,     \* time left
  rows,      \* tenant_keys: is a key without a row, active or rotated
  lock,      \* the transaction that has deactivated a key
  since,     \* ticks since a key was rotated (history)
  cache,     \* of each process
  pc,        \* next step of each worker
  job,       \* its request
  proc,      \* its process
  saw,       \* the active key its UPDATE has found
  got,       \* the key it has drawn or loaded
  burned,    \* public keys written into devices (history)
  signed     \* keys signed with (history)

tableVars  == <<rows, lock, since>>
workerVars == <<pc, job, proc, saw, got>>
history    == <<burned, signed>>
vars == <<setting, calls, ticks, tableVars, cache, workerVars, history>>

NoEntry == [key |-> None, age |-> TTL]
Steps ==
  {"idle", "look", "load", "begin", "update", "insert", "commit", "store", "use", "failed"}

TypeOK ==
  /\ setting \in Settings
  /\ calls \in 0..setting.calls /\ ticks \in 0..setting.ticks
  /\ rows \in [Keys -> {"absent", "active", "rotated"}]
  /\ lock \in [Keys -> Workers \cup {None}]
  /\ since \in [Keys -> 0..TTL]
  /\ cache \in [Procs -> [key : Keys \cup {None}, age : 0..TTL]]
  /\ pc \in [Workers -> Steps]
  /\ job \in [Workers -> Jobs \cup {"none"}]
  /\ proc \in [Workers -> Procs]
  /\ saw \in [Workers -> Keys \cup {None}]
  /\ got \in [Workers -> Keys \cup {None}]
  /\ burned \subseteq Keys \cup {Legacy}
  /\ signed \subseteq Keys

Init ==
  /\ setting \in Settings
  /\ calls = setting.calls /\ ticks = setting.ticks
  /\ IF setting.warm
     THEN \E k \in Keys : rows = [j \in Keys |-> IF j = k THEN "active" ELSE "absent"]
     ELSE rows = [k \in Keys |-> "absent"]
  /\ lock = [k \in Keys |-> None]
  /\ since = [k \in Keys |-> 0]
  /\ cache = [p \in Procs |-> NoEntry]
  /\ pc = [w \in Workers |-> "idle"]
  /\ job = [w \in Workers |-> "none"]
  /\ \E p \in Procs : proc = [w \in Workers |-> p]
  /\ saw = [w \in Workers |-> None]
  /\ got = [w \in Workers |-> None]
  /\ burned = {} /\ signed = {}

Active == {k \in Keys : rows[k] = "active"}
\* P-256 keys are drawn at random: no two draws agree.
Fresh(k) == rows[k] = "absent" /\ \A w \in Workers : got[w] # k

Goto(w, step) ==
  /\ pc' = [pc EXCEPT ![w] = step]
  /\ UNCHANGED <<job, proc>>

Finish(w) ==
  /\ pc' = [pc EXCEPT ![w] = "idle"]
  /\ job' = [job EXCEPT ![w] = "none"]
  /\ saw' = [saw EXCEPT ![w] = None]
  /\ got' = [got EXCEPT ![w] = None]
  /\ UNCHANGED proc

Unlocked(w) == [k \in Keys |-> IF lock[k] = w THEN None ELSE lock[k]]

Request(w, what, p) ==
  /\ pc[w] = "idle" /\ calls > 0 /\ what \in setting.jobs
  /\ calls' = calls - 1
  /\ pc' = [pc EXCEPT ![w] = IF what = "rotate" THEN "begin" ELSE "look"]
  /\ job' = [job EXCEPT ![w] = what]
  /\ proc' = [proc EXCEPT ![w] = p]
  /\ UNCHANGED <<setting, ticks, tableVars, cache, saw, got, history>>

-----------------------------------------------------------------------------
(* ActiveKey.                                                              *)

\* Fault: a hit counts as a new entry.
LookRenew(w) ==
  LET entry == cache[proc[w]] IN
  /\ pc[w] = "look"
  /\ IF entry.key # None /\ entry.age < TTL
     THEN /\ got' = [got EXCEPT ![w] = entry.key]
          /\ cache' = [cache EXCEPT ![proc[w]].age = 0]
          /\ Goto(w, "use")
     ELSE Goto(w, "load") /\ UNCHANGED <<got, cache>>
  /\ UNCHANGED <<setting, calls, ticks, tableVars, saw, history>>

Look(w) ==
  LET entry == cache[proc[w]] IN
  /\ pc[w] = "look"
  /\ IF entry.key # None /\ entry.age < TTL
     THEN got' = [got EXCEPT ![w] = entry.key] /\ Goto(w, "use")
     ELSE Goto(w, "load") /\ UNCHANGED got
  /\ UNCHANGED <<setting, calls, ticks, tableVars, cache, saw, history>>

\* Fault: any error is taken for "no key yet".
LoadOrGenerate(w) ==
  /\ pc[w] = "load"
  /\ \/ \E k \in Active : got' = [got EXCEPT ![w] = k] /\ Goto(w, "store")
     \/ (Active = {} \/ setting.faulty) /\ UNCHANGED got /\ Goto(w, "begin")
  /\ UNCHANGED <<setting, calls, ticks, tableVars, cache, saw, history>>

\* loadFromDB; without a row the key is generated.
Load(w) ==
  /\ pc[w] = "load"
  /\ \/ \E k \in Active : got' = [got EXCEPT ![w] = k] /\ Goto(w, "store")
     \/ Active = {} /\ UNCHANGED got /\ Goto(w, "begin")
     \/ setting.faulty /\ UNCHANGED got /\ Goto(w, "failed")
  /\ UNCHANGED <<setting, calls, ticks, tableVars, cache, saw, history>>

-----------------------------------------------------------------------------
(* Generate.                                                               *)

\* The UPDATE finds the key that is active now...
Begin(w) ==
  /\ pc[w] = "begin"
  /\ \E k \in Keys : Fresh(k) /\ got' = [got EXCEPT ![w] = k]
  /\ IF Active = {} THEN saw' = [saw EXCEPT ![w] = None]
     ELSE \E k \in Active : saw' = [saw EXCEPT ![w] = k]
  /\ Goto(w, "update")
  /\ UNCHANGED <<setting, calls, ticks, tableVars, cache, history>>

\* ... waits for a transaction that has deactivated it, and then leaves it alone.
Update(w) ==
  LET k == saw[w] IN
  /\ pc[w] = "update"
  /\ IF k = None \/ rows[k] # "active" THEN UNCHANGED lock
     ELSE lock[k] = None /\ lock' = [lock EXCEPT ![k] = w]
  /\ Goto(w, "insert")
  /\ UNCHANGED <<setting, calls, ticks, rows, since, cache, saw, got, history>>

\* Another transaction may still decide whether the index has room.
Undecided(w) ==
  \/ \E k \in Active : lock[k] \notin {None, w}
  \/ \E v \in Workers \ {w} : pc[v] = "commit"

\* Fault: no partial unique index.
InsertAnyway(w) ==
  /\ pc[w] = "insert"
  /\ Goto(w, "commit") /\ UNCHANGED <<lock, saw, got>>
  /\ UNCHANGED <<setting, calls, ticks, rows, since, cache, history>>

Insert(w) ==
  /\ pc[w] = "insert" /\ ~ Undecided(w)
  /\ IF \E k \in Active : lock[k] = None
     THEN lock' = Unlocked(w) /\ Goto(w, "failed")
     ELSE UNCHANGED lock /\ Goto(w, "commit")
  /\ UNCHANGED <<setting, calls, ticks, rows, since, cache, saw, got, history>>

Commit(w) ==
  /\ pc[w] = "commit"
  /\ rows' = [k \in Keys |-> IF lock[k] = w THEN "rotated"
                             ELSE IF k = got[w] THEN "active" ELSE rows[k]]
  /\ lock' = Unlocked(w)
  /\ Goto(w, "store")
  /\ UNCHANGED <<setting, calls, ticks, since, cache, saw, got, history>>

\* A statement of Generate fails: its transaction is rolled back.
Rollback(w) ==
  /\ setting.faulty /\ pc[w] \in {"begin", "update", "insert", "commit"}
  /\ lock' = Unlocked(w)
  /\ Goto(w, "failed")
  /\ UNCHANGED <<setting, calls, ticks, rows, since, cache, saw, got, history>>

-----------------------------------------------------------------------------

\* setCache of loadFromDB and of Generate.
Store(w) ==
  /\ pc[w] = "store"
  /\ cache' = [cache EXCEPT ![proc[w]] = [key |-> got[w], age |-> 0]]
  /\ Goto(w, "use")
  /\ UNCHANGED <<setting, calls, ticks, tableVars, saw, got, history>>

\* HandleProvision hands the public key out, SignBLENonce and AdminIssueOTA sign,
\* generateTenantKey answers.
Use(w) ==
  /\ pc[w] = "use"
  /\ burned' = burned \cup {k \in {got[w]} : job[w] = "provision"}
  /\ signed' = signed \cup {k \in {got[w]} : job[w] = "sign"}
  /\ Finish(w)
  /\ UNCHANGED <<setting, calls, ticks, tableVars, cache>>

\* The factory falls back to the configured key, the others answer 500.
Fail(w) ==
  /\ pc[w] = "failed"
  /\ burned' = burned \cup {k \in {Legacy} : job[w] = "provision"}
  /\ Finish(w)
  /\ UNCHANGED <<setting, calls, ticks, tableVars, cache, signed>>

\* A restart forgets the cache and the process's requests; the database rolls
\* their transactions back.
Restart(p) ==
  /\ setting.faulty
  /\ cache' = [cache EXCEPT ![p] = NoEntry]
  /\ LET gone == {w \in Workers : proc[w] = p} IN
       /\ lock' = [k \in Keys |-> IF lock[k] \in gone THEN None ELSE lock[k]]
       /\ pc' = [w \in Workers |-> IF w \in gone THEN "idle" ELSE pc[w]]
       /\ job' = [w \in Workers |-> IF w \in gone THEN "none" ELSE job[w]]
       /\ saw' = [w \in Workers |-> IF w \in gone THEN None ELSE saw[w]]
       /\ got' = [w \in Workers |-> IF w \in gone THEN None ELSE got[w]]
  /\ UNCHANGED <<setting, calls, ticks, rows, since, proc, history>>

\* Ages are told apart up to the TTL.
Older(age) == IF age < TTL THEN age + 1 ELSE TTL

Tick ==
  /\ ticks > 0
  /\ ticks' = ticks - 1
  /\ setting.prompt => \A w \in Workers : pc[w] \notin {"store", "use"}
  /\ cache' = [p \in Procs |-> [cache[p] EXCEPT !.age = Older(@)]]
  /\ since' = [k \in Keys |-> IF rows[k] = "rotated" THEN Older(since[k]) ELSE 0]
  /\ UNCHANGED <<setting, calls, rows, lock, workerVars, history>>

-----------------------------------------------------------------------------

Continue(w) ==
  \/ Look(w) \/ Load(w) \/ Begin(w) \/ Update(w) \/ Insert(w) \/ Commit(w) \/ Rollback(w)
  \/ Store(w) \/ Use(w) \/ Fail(w)

Next ==
  \/ Tick
  \/ \E p \in Procs : Restart(p)
  \/ \E w \in Workers :
       Continue(w) \/ \E what \in Jobs, p \in Procs : Request(w, what, p)

Spec == Init /\ [][Next]_vars

-----------------------------------------------------------------------------
\* "Exactly one active key per tenant at any time", once there has been one: two
\* Generates, a failing one or a restart never leave two or none.
OneActive ==
  /\ Cardinality(Active) <= 1
  /\ (\E k \in Keys : rows[k] # "absent") => Active # {}

Rotated == {k \in Keys : rows[k] = "rotated"}

Line == INSTANCE SigningKey
          WITH active <- Active, old <- Rotated, out <- (burned \cup signed) \ {Legacy}

\* keystore.go: the service implements one line of keys per tenant.  A commit replaces the
\* active key by a new one in one step, no key comes back, and nobody burns or signs with one
\* that was never active.
KeyLine == Line!Spec

\* A key that a process caches, or that went out, has a row: nobody uses a key
\* whose transaction did not commit, or it would be lost with the process.
KeysAreStored ==
  /\ \A p \in Procs : cache[p].key # None => rows[cache[p].key] # "absent"
  /\ \A k \in burned \cup signed : k # Legacy => rows[k] # "absent"

\* A key that is about to be used was active less than cacheTTL ago, wherever it
\* was rotated, as long as nothing stalls between reading a key and caching it.
UsedKeyIsRecent ==
  setting.prompt /\ TTL > 0 =>
    \A w \in Workers :
      pc[w] = "use" /\ rows[got[w]] = "rotated" => since[got[w]] < TTL

\* A tenant that has its key keeps it until the admin rotates it: whatever fails,
\* devices get that key, or the configured one, and every signature is by it.
KeyOutlivesFailures ==
  setting.warm /\ "rotate" \notin setting.jobs =>
    Active = {k \in Keys : rows[k] # "absent"} /\ burned \cup signed \subseteq Active \cup {Legacy}

\* BLE signing oracle: "The private key you sign with here MUST be the counterpart
\* of the cloud_pk burned into the device at factory provisioning."
SignaturesVerify == \A k \in signed, d \in burned : k = d
================================================================================
