------------------------------ MODULE ShadowCache ------------------------------
(***************************************************************************)
(* The shadow of one device: a Postgres row per datapoint with a desired   *)
(* and a reported value, and a Redis document that the device API reads.   *)
(*                                                                         *)
(* A report is one batch of upserts, one implicit transaction that locks   *)
(* the rows in the order of a Go map; the document is then refreshed by a  *)
(* SELECT and a SET, two steps.  The retained shadow replaces the document *)
(* by one of another shape.  A command writes desired values row by row:   *)
(* the tenant API through SetDesired, which refreshes, the app and voice   *)
(* paths without refreshing.  A worker is one goroutine, used again.       *)
(***************************************************************************)
EXTENDS Naturals, FiniteSets

CONSTANTS
  Workers,   \* goroutines of message handlers and requests
  DPs,       \* datapoint ids
  Values,    \* values of a datapoint
  None,      \* SQL NULL, and no worker
  Settings   \* what goes on, see Setting

\* prompt: the device changes only when its last message has been handled.
\* path: who issues commands.  faulty: statements may fail.  expires: the document
\* may be gone, and GetShadow rebuild it.  changes and asks bound the device's
\* changes of state and the commands.
Setting ==
  [prompt : BOOLEAN, path : {"app", "tenant"}, faulty : BOOLEAN, expires : BOOLEAN,
   changes : Nat, asks : Nat]

ASSUME ShadowAssumptions ==
  /\ Settings \subseteq Setting
  /\ None \notin Values /\ None \notin Workers

VARIABLES
  setting,
  dev,      \* the device's datapoints
  changes,  \* changes left
  asks,     \* commands left
  net,      \* messages of the device not taken yet
  said,     \* the states it has reported (history)
  rows,     \* the shadows table, as committed
  lock,     \* the worker whose transaction has written a row
  doc,      \* the Redis document
  pc,       \* next step of each worker
  job,      \* what it handles
  load,     \* the datapoints of its message or request
  todo,     \* those it has not written yet
  at,       \* the one its statement is about
  snap      \* what its SELECT has returned

deviceVars == <<dev, changes, net, said>>
workerVars == <<pc, job, load, todo, at, snap>>
vars == <<setting, deviceVars, asks, rows, lock, doc, workerVars>>

State   == [DPs -> Values]
Column  == [DPs -> Values \cup {None}]
Table   == [desired : Column, reported : Column]
\* The document is missing, is {desired, reported}, or is the {dps} of /shd,
\* whose datapoints are in reported here.
Doc     == [shape : {"none", "rows", "dps"}, desired : Column, reported : Column]
Message == [what : {"rpt", "shd"}, dps : State]
Nulls   == [d \in DPs |-> None]
Empty   == [desired |-> Nulls, reported |-> Nulls]
NoDoc   == [shape |-> "none", desired |-> Nulls, reported |-> Nulls]

TypeOK ==
  /\ setting \in Settings
  /\ dev \in State /\ said \subseteq State /\ net \subseteq Message
  /\ changes \in 0..setting.changes /\ asks \in 0..setting.asks
  /\ rows \in Table
  /\ lock \in [DPs -> Workers \cup {None}]
  /\ doc \in Doc
  /\ pc \in [Workers -> {"idle", "exec", "commit", "shadow", "next", "read", "set"}]
  /\ job \in [Workers -> {"none", "rpt", "shd", "command", "get"}]
  /\ load \in [Workers -> Column]
  /\ todo \in [Workers -> SUBSET DPs]
  /\ at \in [Workers -> DPs \cup {None}]
  /\ snap \in [Workers -> Table]

Init ==
  /\ setting \in Settings
  /\ \E v \in Values : dev = [d \in DPs |-> v]
  /\ said = {} /\ net = {}
  /\ changes = setting.changes /\ asks = setting.asks
  /\ rows = Empty
  /\ lock = [d \in DPs |-> None]
  /\ doc = NoDoc
  /\ pc = [w \in Workers |-> "idle"]
  /\ job = [w \in Workers |-> "none"]
  /\ load = [w \in Workers |-> Nulls]
  /\ todo = [w \in Workers |-> {}]
  /\ at = [w \in Workers |-> None]
  /\ snap = [w \in Workers |-> Empty]

Quiet == net = {} /\ \A w \in Workers : pc[w] = "idle"

\* The worker is through, or has met an error.
Finish(w) ==
  /\ pc' = [pc EXCEPT ![w] = "idle"]
  /\ job' = [job EXCEPT ![w] = "none"]
  /\ load' = [load EXCEPT ![w] = Nulls]
  /\ todo' = [todo EXCEPT ![w] = {}]
  /\ at' = [at EXCEPT ![w] = None]
  /\ snap' = [snap EXCEPT ![w] = Empty]

Goto(w, step) ==
  /\ pc' = [pc EXCEPT ![w] = step]
  /\ UNCHANGED <<job, load, todo, at, snap>>

Begin(w, step, what, dps, which) ==
  /\ pc[w] = "idle"
  /\ pc' = [pc EXCEPT ![w] = step]
  /\ job' = [job EXCEPT ![w] = what]
  /\ load' = [load EXCEPT ![w] = dps]
  /\ todo' = [todo EXCEPT ![w] = which]

-----------------------------------------------------------------------------
(* The device: it applies a command, or somebody presses its button; it    *)
(* reports its state and may publish it as its retained shadow too.        *)

Change ==
  /\ changes > 0
  /\ setting.prompt => net = {} /\ \A w \in Workers : job[w] \notin {"rpt", "shd"}
  /\ \E s \in State \ {dev} :
       /\ dev' = s
       /\ \E shd \in SUBSET {"shd"} :
            net' = net \cup [what : {"rpt"} \cup shd, dps : {s}]
       /\ said' = said \cup {s}
  /\ changes' = changes - 1
  /\ UNCHANGED <<setting, asks, rows, lock, doc, workerVars>>

-----------------------------------------------------------------------------
(* UpdateReported.                                                         *)

TakeReport(w, m) ==
  /\ m \in net /\ m.what = "rpt"
  /\ net' = net \ {m}
  /\ Begin(w, "exec", "rpt", m.dps, DPs)
  /\ \E d \in DPs : at' = [at EXCEPT ![w] = d]
  /\ UNCHANGED <<setting, dev, changes, said, asks, rows, lock, doc, snap>>

\* Fault: a round trip of its own for each datapoint.
UpsertAlone(w) ==
  LET d == at[w]  left == todo[w] \ {d} IN
  /\ pc[w] = "exec" /\ lock[d] = None
  /\ rows' = [rows EXCEPT !.reported[d] = load[w][d]]
  /\ todo' = [todo EXCEPT ![w] = left]
  /\ IF left = {} THEN pc' = [pc EXCEPT ![w] = "commit"] /\ UNCHANGED at
                  ELSE (\E e \in left : at' = [at EXCEPT ![w] = e]) /\ UNCHANGED pc
  /\ UNCHANGED <<setting, deviceVars, asks, lock, doc, job, load, snap>>

\* One statement of the batch.  It waits for the row while another
\* transaction has it; which statement comes next is the map's choice.
Upsert(w) ==
  LET d == at[w]  left == todo[w] \ {d} IN
  /\ pc[w] = "exec" /\ lock[d] = None
  /\ lock' = [lock EXCEPT ![d] = w]
  /\ todo' = [todo EXCEPT ![w] = left]
  /\ IF left = {} THEN pc' = [pc EXCEPT ![w] = "commit"] /\ UNCHANGED at
                  ELSE (\E e \in left : at' = [at EXCEPT ![w] = e]) /\ UNCHANGED pc
  /\ UNCHANGED <<setting, deviceVars, asks, rows, doc, job, load, snap>>

Unlocked(w) == [d \in DPs |-> IF lock[d] = w THEN None ELSE lock[d]]

\* Fault: the batch is the end of it.
CommitOnly(w) ==
  /\ pc[w] = "commit"
  /\ rows' = [rows EXCEPT !.reported = load[w]]
  /\ lock' = Unlocked(w)
  /\ Finish(w)
  /\ UNCHANGED <<setting, deviceVars, asks, doc>>

\* The end of the batch commits it; every row of the report shows at once.
Commit(w) ==
  /\ pc[w] = "commit"
  /\ rows' = [rows EXCEPT !.reported = load[w]]
  /\ lock' = Unlocked(w)
  /\ Goto(w, "read")
  /\ UNCHANGED <<setting, deviceVars, asks, doc>>

\* The worker waits for a row that v has written.
WaitsFor(w, v) == pc[w] = "exec" /\ v # w /\ lock[at[w]] = v

\* Fault: the error path does not close the batch.
RollbackUnclosed(w) ==
  /\ pc[w] \in {"exec", "commit"}
  /\ \/ setting.faulty
     \/ \E v \in Workers : WaitsFor(w, v) /\ WaitsFor(v, w)
  /\ UNCHANGED lock
  /\ Finish(w)
  /\ UNCHANGED <<setting, deviceVars, asks, rows, doc>>

\* A statement fails, or the database breaks a deadlock: the batch is rolled
\* back, the report is logged and lost.
Rollback(w) ==
  /\ pc[w] \in {"exec", "commit"}
  /\ \/ setting.faulty
     \/ \E v \in Workers : WaitsFor(w, v) /\ WaitsFor(v, w)
  /\ lock' = Unlocked(w)
  /\ Finish(w)
  /\ UNCHANGED <<setting, deviceVars, asks, rows, doc>>

-----------------------------------------------------------------------------
(* HandleShadow.                                                           *)

TakeShadow(w, m) ==
  /\ m \in net /\ m.what = "shd"
  /\ net' = net \ {m}
  /\ Begin(w, "shadow", "shd", m.dps, {})
  /\ UNCHANGED <<setting, dev, changes, said, asks, rows, lock, doc, at, snap>>

HandleShadow(w) ==
  /\ pc[w] = "shadow"
  /\ doc' = [shape |-> "dps", desired |-> Nulls, reported |-> load[w]]
  /\ Finish(w)
  /\ UNCHANGED <<setting, deviceVars, asks, rows, lock>>

-----------------------------------------------------------------------------
(* Commands.  The loop over the datapoints of the payload comes after the  *)
(* publish; its errors are ignored.                                        *)

Ask(w) ==
  /\ asks > 0
  /\ asks' = asks - 1
  /\ \E v \in Values, which \in SUBSET DPs \ {{}} :
       Begin(w, "next", "command", [d \in DPs |-> v], which)
  /\ UNCHANGED <<setting, deviceVars, rows, lock, doc, at, snap>>

\* One statement; it waits while a report has the row.
SetDesired(w) ==
  /\ pc[w] = "next" /\ job[w] = "command"
  /\ \E d \in todo[w] :
       /\ lock[d] = None
       /\ todo' = [todo EXCEPT ![w] = @ \ {d}]
       /\ \/ /\ rows' = [rows EXCEPT !.desired[d] = load[w][d]]
             /\ pc' = [pc EXCEPT ![w] = IF setting.path = "tenant" THEN "read" ELSE "next"]
          \/ setting.faulty /\ UNCHANGED <<rows, pc>>
  /\ UNCHANGED <<setting, deviceVars, asks, lock, doc, job, load, at, snap>>

Answer(w) ==
  /\ pc[w] = "next" /\ todo[w] = {}
  /\ Finish(w)
  /\ UNCHANGED <<setting, deviceVars, asks, rows, lock, doc>>

-----------------------------------------------------------------------------
(* refreshCache and GetShadow.                                             *)

\* The SELECT sees what is committed.
Select(w) ==
  /\ pc[w] = "read"
  /\ \/ snap' = [snap EXCEPT ![w] = rows] /\ pc' = [pc EXCEPT ![w] = "set"]
     \/ /\ setting.faulty /\ UNCHANGED snap
        /\ pc' = [pc EXCEPT ![w] = "next"]
  /\ UNCHANGED <<setting, deviceVars, asks, rows, lock, doc, job, load, todo, at>>

\* The SET; a command goes on with its next datapoint.
Cache(w) ==
  /\ pc[w] = "set"
  /\ doc' = [shape |-> "rows", desired |-> snap[w].desired, reported |-> snap[w].reported]
  /\ snap' = [snap EXCEPT ![w] = Empty]
  /\ pc' = [pc EXCEPT ![w] = "next"]
  /\ UNCHANGED <<setting, deviceVars, asks, rows, lock, job, load, todo, at>>

\* The document's 24 hours are over, or Redis was emptied.
Expire ==
  /\ setting.expires
  /\ doc' = NoDoc
  /\ UNCHANGED <<setting, deviceVars, asks, rows, lock, workerVars>>

\* GetShadow finds no document.  (A hit changes nothing.)
GetShadow(w) ==
  /\ setting.expires /\ doc.shape = "none"
  /\ Begin(w, "read", "get", Nulls, {})
  /\ UNCHANGED <<setting, deviceVars, asks, rows, lock, doc, at, snap>>

-----------------------------------------------------------------------------

Continue(w) ==
  \/ Upsert(w) \/ Commit(w) \/ HandleShadow(w) \/ SetDesired(w) \/ Answer(w)
  \/ Select(w) \/ Cache(w)

Next ==
  \/ Change \/ Expire
  \/ \E w \in Workers :
       \/ \E m \in net : TakeReport(w, m) \/ TakeShadow(w, m)
       \/ Ask(w) \/ GetShadow(w) \/ Rollback(w) \/ Continue(w)

Spec == Init /\ [][Next]_vars

\* Goroutines run to their end, the database breaks deadlocks.
FairSpec ==
  /\ Spec
  /\ \A w \in Workers : WF_vars(Continue(w) \/ Rollback(w))
  /\ WF_vars(\E w \in Workers, m \in net : TakeReport(w, m) \/ TakeShadow(w, m))

-----------------------------------------------------------------------------
\* Readers of the table (the app, voice assistants, state reports) see one
\* report of the device and never a mixture of two, whatever the interleaving
\* of batches, deadlocks and failures in UpdateReported.
NoTornReport == rows.reported # Nulls => rows.reported \in said

\* No row stays locked after its batch: an error closes the batch.
LocksGivenBack == \A d \in DPs : lock[d] # None => pc[lock[d]] \in {"exec", "commit"}

\* When the device reports one thing at a time and no statement fails, its
\* last report ends up in the table, also under commands; and the document shows
\* it too where two refreshes cannot overlap: the app and voice paths do not refresh.
Settled ==
  Quiet /\ setting.prompt /\ ~ setting.faulty /\ said # {} =>
    /\ rows.reported = dev
    /\ setting.path = "app" /\ ~ setting.expires => doc.reported = dev

\* Every handler ends: a cycle of batches waiting for each other is broken.
HandlersEnd == \A w \in Workers : pc[w] # "idle" ~> pc[w] = "idle"

================================================================================
