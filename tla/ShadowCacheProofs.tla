--------------------------- MODULE ShadowCacheProofs ---------------------------
(***************************************************************************)
(* Proofs about ShadowCache, for any workers, datapoints, values, settings.*)
(***************************************************************************)
EXTENDS ShadowCache, TLAPS

-----------------------------------------------------------------------------
(* Typing.                                                                 *)

\* States, and the missing values, are columns; the empty table is a table.
LEMMA StateIsColumn == State \subseteq Column /\ Nulls \in Column /\ Empty \in Table
  BY DEF State, Column, Nulls, Empty, Table

\* The worker's variables keep their types in the shared parts of actions.
WorkerTypes ==
  /\ pc \in [Workers -> {"idle", "exec", "commit", "shadow", "next", "read", "set"}]
  /\ job \in [Workers -> {"none", "rpt", "shd", "command", "get"}]
  /\ load \in [Workers -> Column]
  /\ todo \in [Workers -> SUBSET DPs]
  /\ at \in [Workers -> DPs \cup {None}]
  /\ snap \in [Workers -> Table]

\* A worker that ends keeps the types of the workers' variables.
LEMMA FinishTypes ==
  ASSUME WorkerTypes, NEW w \in Workers, Finish(w) PROVE WorkerTypes'
  BY StateIsColumn DEF WorkerTypes, Finish

\* So does one that begins, with datapoints of the right kind.
LEMMA BeginTypes ==
  ASSUME WorkerTypes, NEW w \in Workers,
         NEW step \in {"exec", "shadow", "next", "read"},
         NEW what \in {"rpt", "shd", "command", "get"},
         NEW dps \in Column, NEW which \in SUBSET DPs,
         Begin(w, step, what, dps, which),
         snap' \in [Workers -> Table], at' \in [Workers -> DPs \cup {None}]
  PROVE  WorkerTypes'
  BY DEF WorkerTypes, Begin

\* So does one that goes on to refresh the document.
LEMMA GotoTypes ==
  ASSUME WorkerTypes, NEW w \in Workers, NEW step \in {"next", "read"}, Goto(w, step)
  PROVE  WorkerTypes'
  BY DEF WorkerTypes, Goto

\* Giving the locks back leaves a table of locks.
LEMMA UnlockedType ==
  ASSUME lock \in [DPs -> Workers \cup {None}], NEW w
  PROVE  Unlocked(w) \in [DPs -> Workers \cup {None}]
  BY DEF Unlocked

\* Typing holds at the start.
THEOREM TypingInit == Init => TypeOK
<1>. SUFFICES ASSUME Init PROVE TypeOK
  OBVIOUS
<1>1. setting \in Setting
  BY ShadowAssumptions DEF ShadowAssumptions, Init
<1>2. changes \in 0..setting.changes /\ asks \in 0..setting.asks
  BY <1>1 DEF Setting, Init
<1>3. dev \in State
  BY DEF Init, State
<1>4. doc \in Doc
  BY StateIsColumn DEF Init, Doc, NoDoc
<1>. QED
  BY <1>2, <1>3, <1>4, StateIsColumn DEF Init, TypeOK

\* Every step keeps it.
THEOREM TypingStep == TypeOK /\ [Next]_vars => TypeOK'
<1>. SUFFICES ASSUME TypeOK, [Next]_vars PROVE TypeOK'
  OBVIOUS
<1>0. /\ WorkerTypes /\ rows \in Table /\ doc \in Doc
      /\ lock \in [DPs -> Workers \cup {None}]
      /\ setting.changes \in Nat /\ setting.asks \in Nat
  BY ShadowAssumptions DEF TypeOK, WorkerTypes, ShadowAssumptions, Setting
<1>1. CASE Change
  <2>1. PICK s \in State, shd \in SUBSET {"shd"} :
          /\ dev' = s
          /\ net' = net \cup [what : {"rpt"} \cup shd, dps : {s}]
          /\ said' = said \cup {s}
    BY <1>1 DEF Change
  <2>2. net' \subseteq Message
    BY <2>1 DEF TypeOK, Message
  <2>3. changes \in 0..setting.changes /\ changes > 0 /\ changes' = changes - 1
    BY <1>1 DEF Change, TypeOK
  <2>4. changes' \in 0..setting.changes
    BY <1>0, <2>3
  <2>. QED
    BY <1>1, <2>1, <2>2, <2>4 DEF Change, TypeOK, workerVars
<1>2. ASSUME NEW w \in Workers, NEW m \in net, TakeReport(w, m) PROVE TypeOK'
  <2>1. m.dps \in Column
    BY StateIsColumn DEF TypeOK, Message
  <2>2. at' \in [Workers -> DPs \cup {None}] /\ snap' \in [Workers -> Table]
    BY <1>2 DEF TakeReport, TypeOK
  <2>3. WorkerTypes'
    BY <1>0, <1>2, <2>1, <2>2, BeginTypes DEF TakeReport
  <2>. QED
    BY <1>2, <2>3 DEF TakeReport, TypeOK, WorkerTypes
<1>3. ASSUME NEW w \in Workers, NEW m \in net, TakeShadow(w, m) PROVE TypeOK'
  <2>1. m.dps \in Column
    BY StateIsColumn DEF TypeOK, Message
  <2>2. at' \in [Workers -> DPs \cup {None}] /\ snap' \in [Workers -> Table]
    BY <1>3 DEF TakeShadow, TypeOK
  <2>3. WorkerTypes'
    BY <1>0, <1>3, <2>1, <2>2, BeginTypes DEF TakeShadow
  <2>. QED
    BY <1>3, <2>3 DEF TakeShadow, TypeOK, WorkerTypes
<1>4. ASSUME NEW w \in Workers, Ask(w) PROVE TypeOK'
  <2>1. PICK v \in Values, which \in SUBSET DPs :
          Begin(w, "next", "command", [d \in DPs |-> v], which)
    BY <1>4 DEF Ask
  <2>2. [d \in DPs |-> v] \in Column
    BY DEF Column
  <2>3. at' \in [Workers -> DPs \cup {None}] /\ snap' \in [Workers -> Table]
    BY <1>4 DEF Ask, TypeOK
  <2>4. WorkerTypes'
    BY <1>0, <2>1, <2>2, <2>3, BeginTypes
  <2>5. asks \in 0..setting.asks /\ asks > 0 /\ asks' = asks - 1
    BY <1>4 DEF Ask, TypeOK
  <2>6. asks' \in 0..setting.asks
    BY <1>0, <2>5
  <2>. QED
    BY <1>4, <2>4, <2>6 DEF Ask, TypeOK, WorkerTypes, deviceVars
<1>5. ASSUME NEW w \in Workers, GetShadow(w) PROVE TypeOK'
  <2>1. at' \in [Workers -> DPs \cup {None}] /\ snap' \in [Workers -> Table]
    BY <1>5 DEF GetShadow, TypeOK
  <2>2. WorkerTypes'
    BY <1>0, <1>5, <2>1, StateIsColumn, BeginTypes DEF GetShadow
  <2>. QED
    BY <1>5, <2>2 DEF GetShadow, TypeOK, WorkerTypes, deviceVars
<1>6. ASSUME NEW w \in Workers, Rollback(w) PROVE TypeOK'
  <2>1. WorkerTypes'
    BY <1>0, <1>6, FinishTypes DEF Rollback
  <2>. QED
    BY <1>0, <1>6, <2>1, UnlockedType DEF Rollback, TypeOK, WorkerTypes, deviceVars
<1>7. ASSUME NEW w \in Workers, Upsert(w) PROVE TypeOK'
  <2>1. at' \in [Workers -> DPs \cup {None}]
    BY <1>0, <1>7 DEF Upsert, WorkerTypes
  <2>2. pc' \in [Workers -> {"idle", "exec", "commit", "shadow", "next", "read", "set"}]
    BY <1>0, <1>7 DEF Upsert, WorkerTypes
  <2>3. todo' \in [Workers -> SUBSET DPs]
    BY <1>0, <1>7 DEF Upsert, WorkerTypes
  <2>4. lock' \in [DPs -> Workers \cup {None}]
    BY <1>0, <1>7 DEF Upsert
  <2>. QED
    BY <1>7, <2>1, <2>2, <2>3, <2>4 DEF Upsert, TypeOK, deviceVars
<1>8. ASSUME NEW w \in Workers, Commit(w) PROVE TypeOK'
  <2>1. WorkerTypes'
    BY <1>0, <1>8, GotoTypes DEF Commit
  <2>2. rows' \in Table
    BY <1>0, <1>8 DEF Commit, Table, WorkerTypes
  <2>. QED
    BY <1>0, <1>8, <2>1, <2>2, UnlockedType DEF Commit, TypeOK, WorkerTypes, deviceVars
<1>9. ASSUME NEW w \in Workers, HandleShadow(w) PROVE TypeOK'
  <2>1. WorkerTypes'
    BY <1>0, <1>9, FinishTypes DEF HandleShadow
  <2>2. doc' \in Doc
    BY <1>0, <1>9, StateIsColumn DEF HandleShadow, Doc, WorkerTypes
  <2>. QED
    BY <1>9, <2>1, <2>2 DEF HandleShadow, TypeOK, WorkerTypes, deviceVars
<1>10. ASSUME NEW w \in Workers, SetDesired(w) PROVE TypeOK'
  <2>1. PICK d \in todo[w] :
          /\ todo' = [todo EXCEPT ![w] = @ \ {d}]
          /\ \/ /\ rows' = [rows EXCEPT !.desired[d] = load[w][d]]
                /\ pc' = [pc EXCEPT ![w] = IF setting.path = "tenant" THEN "read" ELSE "next"]
             \/ UNCHANGED <<rows, pc>>
    BY <1>10 DEF SetDesired
  <2>2. d \in DPs
    BY <1>0 DEF WorkerTypes
  <2>3. load[w][d] \in Values \cup {None}
    BY <1>0, <2>2 DEF WorkerTypes, Column
  <2>4. [rows EXCEPT !.desired[d] = load[w][d]] \in Table
    BY <1>0, <2>3 DEF Table, Column
  <2>5. todo' \in [Workers -> SUBSET DPs]
    BY <1>0, <2>1 DEF WorkerTypes
  <2>6. pc' \in [Workers -> {"idle", "exec", "commit", "shadow", "next", "read", "set"}]
    BY <1>0, <2>1 DEF WorkerTypes
  <2>. QED
    BY <1>0, <1>10, <2>1, <2>4, <2>5, <2>6 DEF SetDesired, TypeOK, deviceVars
<1>11. ASSUME NEW w \in Workers, Answer(w) PROVE TypeOK'
  <2>1. WorkerTypes'
    BY <1>0, <1>11, FinishTypes DEF Answer
  <2>. QED
    BY <1>11, <2>1 DEF Answer, TypeOK, WorkerTypes, deviceVars
<1>12. ASSUME NEW w \in Workers, Select(w) PROVE TypeOK'
  <2>1. snap' \in [Workers -> Table]
    BY <1>0, <1>12 DEF Select, WorkerTypes
  <2>2. pc' \in [Workers -> {"idle", "exec", "commit", "shadow", "next", "read", "set"}]
    BY <1>0, <1>12 DEF Select, WorkerTypes
  <2>. QED
    BY <1>12, <2>1, <2>2 DEF Select, TypeOK, deviceVars
<1>13. ASSUME NEW w \in Workers, Cache(w) PROVE TypeOK'
  <2>1. snap' \in [Workers -> Table]
    BY <1>0, <1>13, StateIsColumn DEF Cache, WorkerTypes
  <2>2. pc' \in [Workers -> {"idle", "exec", "commit", "shadow", "next", "read", "set"}]
    BY <1>0, <1>13 DEF Cache, WorkerTypes
  <2>3. doc' \in Doc
    BY <1>0, <1>13 DEF Cache, WorkerTypes, Table, Doc
  <2>. QED
    BY <1>13, <2>1, <2>2, <2>3 DEF Cache, TypeOK, deviceVars
<1>14. CASE Expire
  <2>1. NoDoc \in Doc
    BY StateIsColumn DEF NoDoc, Doc
  <2>. QED
    BY <1>14, <2>1 DEF Expire, TypeOK, deviceVars, workerVars
<1>15. CASE UNCHANGED vars
  BY <1>15 DEF vars, deviceVars, workerVars, TypeOK
<1>. QED
  BY <1>1, <1>2, <1>3, <1>4, <1>5, <1>6, <1>7, <1>8, <1>9, <1>10, <1>11, <1>12, <1>13,
     <1>14, <1>15 DEF Next, Continue

\* Every variable keeps its type.
THEOREM TypeCorrect == Spec => []TypeOK
  BY TypingInit, TypingStep, PTL DEF Spec

-----------------------------------------------------------------------------
(* Reports are whole.                                                      *)

\* What is on its way to the reported column is one report of the device.
Reports ==
  /\ \A m \in net : m.dps \in said
  /\ \A w \in Workers : pc[w] \in {"exec", "commit"} => load[w] \in said
  /\ NoTornReport

\* The messages, batches and rows start empty.
LEMMA ReportsInit == Init => Reports
  BY DEF Init, Reports, NoTornReport, Empty

\* Every step keeps them whole.
LEMMA ReportsStep == TypeOK /\ Reports /\ [Next]_vars => Reports'
<1>. SUFFICES ASSUME TypeOK, Reports, [Next]_vars PROVE Reports'
  OBVIOUS
<1>0. WorkerTypes /\ rows \in Table
  BY DEF TypeOK, WorkerTypes
<1>1. CASE Change
  <2>1. PICK s \in State, shd \in SUBSET {"shd"} :
          /\ net' = net \cup [what : {"rpt"} \cup shd, dps : {s}]
          /\ said' = said \cup {s}
    BY <1>1 DEF Change
  <2>2. \A m \in net' : m.dps \in said'
    BY <2>1 DEF Reports
  <2>3. UNCHANGED <<pc, load, rows>>
    BY <1>1 DEF Change, workerVars
  <2>. QED
    BY <2>1, <2>2, <2>3 DEF Reports, NoTornReport, Nulls
<1>2. ASSUME NEW w \in Workers, NEW m \in net, TakeReport(w, m) \/ TakeShadow(w, m)
      PROVE  Reports'
  <2>1. net' \subseteq net /\ m.dps \in said /\ UNCHANGED <<said, rows>>
    BY <1>2 DEF TakeReport, TakeShadow, Reports
  <2>2. load' = [load EXCEPT ![w] = m.dps]
    BY <1>2 DEF TakeReport, TakeShadow, Begin
  <2>3. \A v \in Workers \ {w} : pc'[v] = pc[v] /\ load'[v] = load[v]
    BY <1>2, <1>0 DEF TakeReport, TakeShadow, Begin, WorkerTypes
  <2>4. load'[w] \in said'
    BY <2>1, <2>2, <1>0 DEF WorkerTypes
  <2>. QED
    BY <2>1, <2>3, <2>4 DEF Reports, NoTornReport, Nulls
<1>3. ASSUME NEW w \in Workers, Commit(w) PROVE Reports'
  <2>1. load[w] \in said
    BY <1>3 DEF Commit, Reports
  <2>2. rows'.reported = load[w]
    BY <1>0, <1>3 DEF Commit, Table
  <2>3. pc' = [pc EXCEPT ![w] = "read"] /\ UNCHANGED <<net, said, load>>
    BY <1>3 DEF Commit, Goto, deviceVars
  <2>. QED
    BY <1>0, <2>1, <2>2, <2>3 DEF Reports, NoTornReport, Nulls, WorkerTypes
<1>4. ASSUME NEW w \in Workers, Upsert(w) PROVE Reports'
  <2>1. UNCHANGED <<net, said, load, rows>>
    BY <1>4 DEF Upsert, deviceVars
  <2>2. pc[w] = "exec" /\ \A v \in Workers \ {w} : pc'[v] = pc[v]
    BY <1>0, <1>4 DEF Upsert, WorkerTypes
  <2>. QED
    BY <2>1, <2>2 DEF Reports, NoTornReport, Nulls
<1>5. ASSUME NEW w \in Workers,
             \/ Ask(w) \/ GetShadow(w) \/ Rollback(w) \/ HandleShadow(w) \/ Answer(w)
             \/ Select(w) \/ Cache(w)
      PROVE  Reports'
  <2>1. UNCHANGED <<net, said, rows>>
    BY <1>5 DEF Ask, GetShadow, Rollback, HandleShadow, Answer, Select, Cache, deviceVars
  <2>2. pc'[w] \notin {"exec", "commit"}
    BY <1>0, <1>5 DEF Ask, GetShadow, Rollback, HandleShadow, Answer, Select, Cache, Begin,
                      Finish, WorkerTypes
  <2>3. \A v \in Workers \ {w} : pc'[v] = pc[v] /\ load'[v] = load[v]
    BY <1>0, <1>5 DEF Ask, GetShadow, Rollback, HandleShadow, Answer, Select, Cache, Begin,
                      Finish, WorkerTypes
  <2>. QED
    BY <2>1, <2>2, <2>3 DEF Reports, NoTornReport, Nulls
<1>6. ASSUME NEW w \in Workers, SetDesired(w) PROVE Reports'
  <2>1. rows'.reported = rows.reported /\ UNCHANGED <<net, said, load>>
    BY <1>0, <1>6 DEF SetDesired, Table, deviceVars
  <2>2. pc'[w] \notin {"exec", "commit"} /\ \A v \in Workers \ {w} : pc'[v] = pc[v]
    BY <1>0, <1>6 DEF SetDesired, WorkerTypes
  <2>. QED
    BY <2>1, <2>2 DEF Reports, NoTornReport, Nulls
<1>7. CASE Expire \/ UNCHANGED vars
  BY <1>7 DEF Expire, vars, deviceVars, workerVars, Reports, NoTornReport, Nulls
<1>. QED
  BY <1>1, <1>2, <1>3, <1>4, <1>5, <1>6, <1>7 DEF Next, Continue

\* The reported column is never a mixture of two reports.
THEOREM ReportsAreWhole == Spec => []NoTornReport
<1>1. Reports => NoTornReport
  BY DEF Reports
<1>. QED
  BY ReportsInit, ReportsStep, TypeCorrect, <1>1, PTL DEF Spec

-----------------------------------------------------------------------------
(* Locks.                                                                  *)

\* A lock belongs to a batch that has not ended.
THEOREM LocksHaveBatches == Spec => []LocksGivenBack
<1>1. Init => LocksGivenBack
  BY DEF Init, LocksGivenBack
<1>2. TypeOK /\ LocksGivenBack /\ [Next]_vars => LocksGivenBack'
  <2>. SUFFICES ASSUME TypeOK, LocksGivenBack, [Next]_vars PROVE LocksGivenBack'
    OBVIOUS
  <2>0. WorkerTypes /\ lock \in [DPs -> Workers \cup {None}]
    BY DEF TypeOK, WorkerTypes
  <2>1. CASE Change \/ Expire \/ UNCHANGED vars
    BY <2>1 DEF Change, Expire, vars, workerVars, LocksGivenBack
  <2>2. ASSUME NEW w \in Workers, Upsert(w) PROVE LocksGivenBack'
    <3>1. lock' = [lock EXCEPT ![at[w]] = w] /\ pc'[w] \in {"exec", "commit"}
      BY <2>0, <2>2 DEF Upsert, WorkerTypes
    <3>2. \A v \in Workers \ {w} : pc'[v] = pc[v]
      BY <2>0, <2>2 DEF Upsert, WorkerTypes
    <3>. QED
      BY <2>0, <3>1, <3>2 DEF LocksGivenBack
  <2>3. ASSUME NEW w \in Workers, Commit(w) \/ Rollback(w) PROVE LocksGivenBack'
    <3>1. lock' = [d \in DPs |-> IF lock[d] = w THEN None ELSE lock[d]]
      BY <2>3 DEF Commit, Rollback, Unlocked
    <3>2. \A v \in Workers \ {w} : pc'[v] = pc[v]
      BY <2>0, <2>3 DEF Commit, Rollback, Goto, Finish, WorkerTypes
    <3>. QED
      BY <2>0, <3>1, <3>2 DEF LocksGivenBack
  <2>4. ASSUME NEW w \in Workers,
               \/ Ask(w) \/ GetShadow(w) \/ HandleShadow(w) \/ Answer(w) \/ Select(w)
               \/ Cache(w) \/ SetDesired(w) \/ \E m \in net : TakeReport(w, m) \/ TakeShadow(w, m)
        PROVE  LocksGivenBack'
    <3>1. pc[w] \notin {"exec", "commit"} /\ UNCHANGED lock
      BY <2>4 DEF Ask, GetShadow, HandleShadow, Answer, Select, Cache, SetDesired, TakeReport,
                  TakeShadow, Begin
    <3>2. \A v \in Workers \ {w} : pc'[v] = pc[v]
      BY <2>0, <2>4 DEF Ask, GetShadow, HandleShadow, Answer, Select, Cache, SetDesired,
                        TakeReport, TakeShadow, Begin, Finish, WorkerTypes
    <3>. QED
      BY <2>0, <3>1, <3>2 DEF LocksGivenBack
  <2>. QED
    BY <2>1, <2>2, <2>3, <2>4 DEF Next, Continue
<1>. QED
  BY <1>1, <1>2, TypeCorrect, PTL DEF Spec

-----------------------------------------------------------------------------
(* The last report.                                                        *)

\* The device reports one thing at a time, and no statement fails.
Timely == setting.prompt /\ ~ setting.faulty

\* What is under way is the state of the device, as one report and one retained shadow.
OneReport ==
  /\ \A m \in net : m.dps = dev
  /\ \A m, n \in net : m.what = n.what => m = n
  /\ \A w \in Workers :
       /\ pc[w] \in {"exec", "commit"} => job[w] = "rpt" /\ load[w] = dev
       /\ pc[w] = "shadow" => job[w] = "shd" /\ load[w] = dev
       /\ \A v \in Workers : job[w] = "rpt" /\ job[v] = "rpt" => w = v
       /\ \A m \in net : job[w] = "rpt" => m.what # "rpt"

\* The report is not in the table yet.
UnderWay == (\E m \in net : m.what = "rpt") \/ \E w \in Workers : pc[w] \in {"exec", "commit"}

\* The table shows the device, or is about to.
Stored == said # {} => rows.reported = dev \/ UnderWay

\* Only the report's worker refreshes the document, and from rows that show the device.
Cached ==
  setting.path = "app" /\ ~ setting.expires =>
    /\ \A w \in Workers :
         /\ pc[w] \in {"read", "set"} => job[w] = "rpt"
         /\ pc[w] = "read" => rows.reported = dev
         /\ pc[w] = "set" => snap[w].reported = dev
    /\ said # {} => doc.reported = dev \/ UnderWay \/ \E w \in Workers : pc[w] \in {"read", "set"}

\* A step is the device's, the clock's, or one worker's.
LEMMA WorkerMoves ==
  ASSUME WorkerTypes, NEW w \in Workers,
         \/ \E m \in net : TakeReport(w, m) \/ TakeShadow(w, m)
         \/ Ask(w) \/ GetShadow(w) \/ Rollback(w) \/ Continue(w)
  PROVE  /\ \A v \in Workers \ {w} : /\ pc'[v] = pc[v] /\ job'[v] = job[v] /\ load'[v] = load[v]
                                     /\ snap'[v] = snap[v]
         /\ UNCHANGED <<setting, dev, said>> /\ net' \subseteq net
<1>1. CASE \E m \in net : TakeReport(w, m) \/ TakeShadow(w, m)
  BY <1>1 DEF WorkerTypes, TakeReport, TakeShadow, Begin
<1>2. CASE Ask(w) \/ GetShadow(w) \/ Rollback(w)
  BY <1>2 DEF WorkerTypes, Ask, GetShadow, Rollback, Begin, Finish, deviceVars
<1>3. CASE Continue(w)
  BY <1>3 DEF WorkerTypes, Continue, Upsert, Commit, HandleShadow, SetDesired, Answer, Select,
     Cache, Goto, Finish, deviceVars
<1>. QED
  BY <1>1, <1>2, <1>3

\* A change of the device waits for the last one to be through.
LEMMA ChangeWaits ==
  ASSUME TypeOK, Timely, OneReport, Cached, Change
  PROVE  /\ OneReport' /\ UnderWay' /\ Cached'
<1>1. PICK s \in State, shd \in SUBSET {"shd"} :
        dev' = s /\ net' = net \cup [what : {"rpt"} \cup shd, dps : {s}]
  BY DEF Change
<1>2. net = {} /\ \A w \in Workers : job[w] \notin {"rpt", "shd"}
  BY DEF Change, Timely
<1>3. UNCHANGED <<setting, rows, doc, pc, job, load, snap>>
  BY DEF Change, workerVars
<1>4. \A w \in Workers : pc[w] \notin {"exec", "commit", "shadow"}
  BY <1>2 DEF OneReport
<1>5. net' = [what : {"rpt"} \cup shd, dps : {s}]
  BY <1>1, <1>2
<1>6. [what |-> "rpt", dps |-> s] \in net'
  BY <1>5
<1>7. \A m \in net' : m.dps = dev' /\ m = [what |-> m.what, dps |-> s]
  <2>. SUFFICES ASSUME NEW m \in [what : {"rpt"} \cup shd, dps : {s}]
                PROVE  m.dps = s /\ m = [what |-> m.what, dps |-> s]
    BY <1>1, <1>5
  <2>1. m = [what |-> m.what, dps |-> m.dps] /\ m.dps = s
    OBVIOUS
  <2>. QED
    BY <2>1
<1>8. OneReport'
  <2>1. ASSUME NEW m \in net', NEW n \in net', m.what = n.what PROVE m = n
    BY <1>7, <2>1
  <2>2. \A w \in Workers : /\ pc'[w] \notin {"exec", "commit", "shadow"}
                           /\ job'[w] \notin {"rpt", "shd"}
    BY <1>2, <1>3, <1>4
  <2>3. \A m \in net' : m.dps = dev'
    BY <1>7
  <2>. QED
    BY <2>1, <2>2, <2>3 DEF OneReport
<1>9. UnderWay'
  BY <1>6 DEF UnderWay
<1>10. setting.path = "app" /\ ~ setting.expires => \A w \in Workers : pc[w] \notin {"read", "set"}
  BY <1>2 DEF Cached
<1>. QED
  BY <1>3, <1>8, <1>9, <1>10 DEF Cached

\* The report is taken once.
LEMMA TakesOne ==
  ASSUME TypeOK, OneReport, NEW w \in Workers, NEW m \in net, TakeReport(w, m) \/ TakeShadow(w, m)
  PROVE  OneReport'
<1>0. WorkerTypes
  BY DEF TypeOK, WorkerTypes
<1>1. /\ \A v \in Workers \ {w} : pc'[v] = pc[v] /\ job'[v] = job[v] /\ load'[v] = load[v]
      /\ UNCHANGED dev /\ net' = net \ {m}
  BY <1>0, WorkerMoves DEF TakeReport, TakeShadow
<1>2. load'[w] = dev'
  BY <1>0, <1>1 DEF TakeReport, TakeShadow, Begin, OneReport, WorkerTypes
<1>3. CASE TakeReport(w, m)
  <2>1. pc'[w] = "exec" /\ job'[w] = "rpt" /\ m.what = "rpt"
    BY <1>0, <1>3 DEF TakeReport, Begin, WorkerTypes
  <2>2. \A n \in net' : n.what # "rpt"
    BY <1>1, <2>1 DEF OneReport
  <2>3. \A v \in Workers \ {w} : job[v] # "rpt"
    BY <2>1 DEF OneReport
  <2>. QED
    BY <1>1, <1>2, <2>1, <2>2, <2>3 DEF OneReport
<1>4. CASE TakeShadow(w, m)
  <2>1. pc'[w] = "shadow" /\ job'[w] = "shd"
    BY <1>0, <1>4 DEF TakeShadow, Begin, WorkerTypes
  <2>. QED
    BY <1>1, <1>2, <2>1 DEF OneReport
<1>. QED
  BY <1>3, <1>4

\* Two batches never wait for each other here.
LEMMA NoRollback ==
  ASSUME TypeOK, LocksGivenBack, Timely, OneReport, NEW w \in Workers
  PROVE  ~ Rollback(w)
<1>1. ASSUME NEW v \in Workers, WaitsFor(w, v), WaitsFor(v, w) PROVE FALSE
  BY <1>1 DEF WaitsFor, OneReport
<1>. QED
  BY <1>1 DEF Rollback, Timely

\* Every step keeps to one report.
LEMMA OneReportStep ==
  ASSUME TypeOK, LocksGivenBack, Timely, OneReport, Cached, [Next]_vars
  PROVE  OneReport'
<1>0. WorkerTypes
  BY DEF TypeOK, WorkerTypes
<1>1. CASE Expire \/ UNCHANGED vars
  BY <1>1 DEF Expire, vars, deviceVars, workerVars, OneReport
<1>2. ASSUME NEW w \in Workers, Ask(w) \/ GetShadow(w) \/ Continue(w) PROVE OneReport'
  <2>1. /\ \A v \in Workers \ {w} : pc'[v] = pc[v] /\ job'[v] = job[v] /\ load'[v] = load[v]
        /\ UNCHANGED <<dev, net>>
    BY <1>0, <1>2, WorkerMoves DEF Ask, GetShadow, Continue, Upsert, Commit, HandleShadow,
       SetDesired, Answer, Select, Cache, deviceVars
  <2>2. job'[w] = "rpt" => job[w] = "rpt"
    BY <1>0, <1>2 DEF Ask, GetShadow, Continue, Upsert, Commit, HandleShadow, SetDesired, Answer,
       Select, Cache, Goto, Begin, Finish, WorkerTypes
  <2>3. pc'[w] \in {"exec", "commit"} => /\ pc[w] \in {"exec", "commit"} /\ job'[w] = job[w]
                                        /\ load'[w] = load[w]
    BY <1>0, <1>2 DEF Ask, GetShadow, Continue, Upsert, Commit, HandleShadow, SetDesired, Answer,
       Select, Cache, Goto, Begin, Finish, WorkerTypes
  <2>4. pc'[w] # "shadow"
    BY <1>0, <1>2 DEF Ask, GetShadow, Continue, Upsert, Commit, HandleShadow, SetDesired, Answer,
       Select, Cache, Goto, Begin, Finish, WorkerTypes
  <2>. QED
    BY <2>1, <2>2, <2>3, <2>4 DEF OneReport
<1>. QED
  BY <1>1, <1>2, ChangeWaits, TakesOne, NoRollback DEF Next

\* A report that leaves its batch is in the table.
LEMMA UnderWayEnds ==
  ASSUME TypeOK, OneReport, NEW w \in Workers, UnderWay,
         \/ \E m \in net : TakeReport(w, m) \/ TakeShadow(w, m)
         \/ Ask(w) \/ GetShadow(w) \/ Continue(w)
  PROVE  UnderWay' \/ (Commit(w) /\ rows'.reported = dev')
<1>0. WorkerTypes /\ rows \in Table
  BY DEF TypeOK, WorkerTypes
<1>1. ASSUME NEW m \in net, TakeReport(w, m) PROVE UnderWay'
  <2>1. pc'[w] = "exec"
    BY <1>0, <1>1 DEF TakeReport, Begin, WorkerTypes
  <2>. QED
    BY <2>1 DEF UnderWay
<1>2. CASE Commit(w)
  <2>1. rows'.reported = load[w] /\ pc[w] = "commit" /\ dev' = dev
    BY <1>0, <1>2 DEF Commit, Table, deviceVars
  <2>. QED
    BY <1>2, <2>1 DEF OneReport
<1>3. CASE /\ ~ Commit(w) /\ ~ \E m \in net : TakeReport(w, m)
  <2>1. \A m \in net : m.what = "rpt" => m \in net'
    BY <1>3 DEF TakeShadow, Ask, GetShadow, Continue, Upsert, HandleShadow, SetDesired, Answer,
       Select, Cache, deviceVars
  <2>2. pc[w] \in {"exec", "commit"} => pc'[w] \in {"exec", "commit"}
    BY <1>0, <1>3 DEF TakeShadow, Ask, GetShadow, Continue, Upsert, HandleShadow, SetDesired,
       Answer, Select, Cache, Begin, WorkerTypes
  <2>3. \A v \in Workers \ {w} : pc'[v] = pc[v]
    BY <1>0, WorkerMoves
  <2>. QED
    BY <2>1, <2>2, <2>3 DEF UnderWay
<1>. QED
  BY <1>1, <1>2, <1>3

\* The reported column changes by a commit only.
LEMMA OthersKeepReported ==
  ASSUME TypeOK, NEW w \in Workers,
         \/ \E m \in net : TakeReport(w, m) \/ TakeShadow(w, m)
         \/ Ask(w) \/ GetShadow(w) \/ Continue(w)
  PROVE  Commit(w) \/ rows'.reported = rows.reported
  BY DEF TypeOK, Table, TakeReport, TakeShadow, Ask, GetShadow, Continue, Upsert, HandleShadow,
     SetDesired, Answer, Select, Cache

\* The table keeps up with the device.
LEMMA StoredStep ==
  ASSUME TypeOK, LocksGivenBack, Timely, OneReport, Stored, Cached, [Next]_vars
  PROVE  Stored'
<1>1. CASE Change
  BY <1>1, ChangeWaits DEF Stored
<1>2. CASE Expire \/ UNCHANGED vars
  BY <1>2 DEF Expire, vars, deviceVars, workerVars, Stored, UnderWay
<1>3. ASSUME NEW w \in Workers,
             \/ \E m \in net : TakeReport(w, m) \/ TakeShadow(w, m)
             \/ Ask(w) \/ GetShadow(w) \/ Continue(w)
      PROVE  Stored'
  <2>1. UNCHANGED <<dev, said>>
    BY <1>3, WorkerMoves DEF TypeOK, WorkerTypes
  <2>2. Commit(w) => rows'.reported = dev'
    <3>1. CASE Commit(w)
      <4>1. rows'.reported = load[w] /\ pc[w] = "commit"
        BY <3>1 DEF Commit, TypeOK, Table
      <4>. QED
        BY <2>1, <4>1 DEF OneReport
    <3>. QED
      BY <3>1
  <2>. QED
    BY <1>3, <2>1, <2>2, UnderWayEnds, OthersKeepReported DEF Stored
<1>. QED
  BY <1>1, <1>2, <1>3, NoRollback DEF Next

\* So does the document, where nobody else refreshes it.
LEMMA CachedStep ==
  ASSUME TypeOK, LocksGivenBack, Timely, OneReport, Stored, Cached, [Next]_vars
  PROVE  Cached'
<1>0. WorkerTypes /\ rows \in Table /\ doc \in Doc
  BY DEF TypeOK, WorkerTypes
<1>1. CASE Change
  BY <1>1, ChangeWaits
<1>2. CASE Expire \/ UNCHANGED vars
  BY <1>2 DEF Expire, vars, deviceVars, workerVars, Cached, UnderWay
<1>3. ASSUME NEW w \in Workers,
             \/ \E m \in net : TakeReport(w, m) \/ TakeShadow(w, m)
             \/ Ask(w) \/ GetShadow(w) \/ Continue(w),
             setting.path = "app", ~ setting.expires
      PROVE  Cached'
  <2>1. /\ UNCHANGED <<setting, dev, said>>
        /\ \A v \in Workers \ {w} : pc'[v] = pc[v] /\ job'[v] = job[v] /\ snap'[v] = snap[v]
    BY <1>0, <1>3, WorkerMoves
  <2>2. /\ \A v \in Workers :
             /\ pc[v] \in {"read", "set"} => job[v] = "rpt"
             /\ pc[v] = "read" => rows.reported = dev
             /\ pc[v] = "set" => snap[v].reported = dev
        /\ said # {} => doc.reported = dev \/ UnderWay \/ \E v \in Workers : pc[v] \in {"read", "set"}
    BY <1>3 DEF Cached
  <2>3. Commit(w) => rows'.reported = dev /\ pc'[w] = "read" /\ job'[w] = "rpt"
    <3>1. CASE Commit(w)
      <4>1. /\ rows'.reported = load[w] /\ pc[w] = "commit" /\ pc'[w] = "read"
            /\ job'[w] = job[w]
        BY <1>0, <3>1 DEF Commit, Goto, Table, WorkerTypes
      <4>. QED
        BY <4>1 DEF OneReport
    <3>. QED
      BY <3>1
  <2>4. pc'[w] = "read" => Commit(w)
    BY <1>0, <1>3 DEF TakeReport, TakeShadow, Ask, GetShadow, Continue, Upsert, HandleShadow,
       SetDesired, Answer, Select, Cache, Begin, Finish, WorkerTypes
  <2>5. pc'[w] = "set" => /\ pc[w] = "read" /\ job'[w] = job[w] /\ snap'[w] = rows
    BY <1>0, <1>3 DEF TakeReport, TakeShadow, Ask, GetShadow, Continue, Upsert, Commit,
       HandleShadow, SetDesired, Answer, Select, Cache, Goto, Begin, Finish, WorkerTypes
  <2>6. \A v \in Workers :
          /\ pc'[v] \in {"read", "set"} => job'[v] = "rpt"
          /\ pc'[v] = "read" => rows'.reported = dev'
          /\ pc'[v] = "set" => snap'[v].reported = dev'
    BY <1>3, <2>1, <2>2, <2>3, <2>4, <2>5, OthersKeepReported
  <2>7. CASE HandleShadow(w)
    <3>1. doc'.reported = load[w] /\ pc[w] = "shadow"
      BY <2>7 DEF HandleShadow
    <3>2. doc'.reported = dev'
      BY <2>1, <3>1 DEF OneReport
    <3>. QED
      BY <2>6, <3>2 DEF Cached
  <2>8. CASE Cache(w)
    <3>1. doc'.reported = snap[w].reported /\ pc[w] = "set"
      BY <2>8 DEF Cache
    <3>2. doc'.reported = dev'
      BY <2>1, <2>2, <3>1
    <3>. QED
      BY <2>6, <3>2 DEF Cached
  <2>9. CASE ~ HandleShadow(w) /\ ~ Cache(w)
    <3>1. doc' = doc
      BY <1>3, <2>9 DEF TakeReport, TakeShadow, Ask, GetShadow, Continue, Upsert, Commit,
         SetDesired, Answer, Select
    <3>2. pc[w] \in {"read", "set"} => pc'[w] \in {"read", "set"}
      BY <1>0, <1>3, <2>9 DEF TakeReport, TakeShadow, Ask, GetShadow, Continue, Upsert, Commit,
         SetDesired, Answer, Select, Begin, Timely, WorkerTypes
    <3>3. UnderWay => UnderWay' \/ pc'[w] = "read"
      BY <1>3, <2>3, UnderWayEnds
    <3>. QED
      BY <2>1, <2>2, <2>6, <3>1, <3>2, <3>3 DEF Cached
  <2>. QED
    BY <2>7, <2>8, <2>9
<1>4. ASSUME NEW w \in Workers,
             \/ \E m \in net : TakeReport(w, m) \/ TakeShadow(w, m)
             \/ Ask(w) \/ GetShadow(w) \/ Continue(w),
             ~ (setting.path = "app" /\ ~ setting.expires)
      PROVE  Cached'
  <2>1. UNCHANGED setting
    BY <1>0, <1>4, WorkerMoves
  <2>. QED
    BY <1>4, <2>1 DEF Cached
<1>. QED
  BY <1>1, <1>2, <1>3, <1>4, NoRollback DEF Next

\* The setting does not change.
LEMMA SettingStays == TypeOK /\ [Next]_vars => setting' = setting
<1>. SUFFICES ASSUME TypeOK, [Next]_vars PROVE setting' = setting
  OBVIOUS
<1>1. WorkerTypes
  BY DEF TypeOK, WorkerTypes
<1>. QED
  BY <1>1, WorkerMoves DEF Next, Change, Expire, vars

\* When reports come one at a time and no statement fails, the last one ends up in the table, and
\* in the document where only reports refresh it.
THEOREM LastReportSettles == Spec => []Settled
<1>. DEFINE LastInv == Timely => OneReport /\ Stored /\ Cached
<1>1. Init => LastInv
  BY DEF Init, OneReport, Stored, Cached
<1>2. TypeOK /\ LocksGivenBack /\ LastInv /\ [Next]_vars => LastInv'
  BY OneReportStep, StoredStep, CachedStep, SettingStays DEF Timely
<1>3. LastInv => Settled
  BY DEF Settled, Quiet, Timely, Stored, Cached, UnderWay
<1>. QED
  BY <1>1, <1>2, <1>3, TypeCorrect, LocksHaveBatches, PTL DEF Spec

================================================================================
