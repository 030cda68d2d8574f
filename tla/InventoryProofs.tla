---------------------------- MODULE InventoryProofs ----------------------------
(***************************************************************************)
(* Proofs about Inventory, for any workers, users, dids and settings.      *)
(***************************************************************************)
EXTENDS Inventory, TLAPS

\* Steps at which the worker has found its device.
Found == {"check", "first", "again", "sign", "link", "row", "insert", "remove", "reg"}
Late  == {"devices", "owner", "commit"}

WorkerOK(w) ==
  /\ pc[w] # "idle" => user[w] \in Users
  /\ pc[w] \in Found => did[w] \in Dids
  /\ pc[w] \in Late \cup {"answer"} /\ job[w] # "reset" => did[w] \in Dids

WorkersTyped ==
  /\ pc \in [Workers -> Steps]
  /\ job \in [Workers -> Jobs \cup {"none"}]
  /\ user \in [Workers -> Users \cup {None}]
  /\ did \in [Workers -> Dids \cup {None}]
  /\ \A w \in Workers : WorkerOK(w)

Typed == TypeOK /\ WorkersTyped

-----------------------------------------------------------------------------
(* Typing.                                                                 *)

\* A request that ends leaves its worker typed.
LEMMA FinishTyped ==
  ASSUME WorkersTyped, NEW w \in Workers, Finish(w) PROVE WorkersTyped'
<1>1. pc' \in [Workers -> Steps]
  BY DEF Finish, WorkersTyped, Steps
<1>2. /\ job' \in [Workers -> Jobs \cup {"none"}]
      /\ user' \in [Workers -> Users \cup {None}]
      /\ did' \in [Workers -> Dids \cup {None}]
  BY DEF Finish, WorkersTyped
<1>3. ASSUME NEW v \in Workers PROVE WorkerOK(v)'
  <2>1. CASE v = w
    BY <2>1 DEF Finish, WorkersTyped, WorkerOK, Found, Late
  <2>2. CASE v # w
    BY <2>2 DEF Finish, WorkersTyped, WorkerOK
  <2>. QED
    BY <2>1, <2>2
<1>. QED
  BY <1>1, <1>2, <1>3 DEF WorkersTyped

\* So does one that goes on, if it has a device where it needs one.
LEMMA GotoTyped ==
  ASSUME WorkersTyped, NEW w \in Workers, NEW step \in Steps \ {"idle"},
         NEW x \in Dids \cup {None},
         pc[w] # "idle", Goto(w, step), did' = [did EXCEPT ![w] = x],
         step \in Found => x \in Dids,
         step \in Late \cup {"answer"} /\ job[w] # "reset" => x \in Dids
  PROVE  WorkersTyped'
<1>1. /\ pc' \in [Workers -> Steps]
      /\ job' \in [Workers -> Jobs \cup {"none"}]
      /\ user' \in [Workers -> Users \cup {None}]
      /\ did' \in [Workers -> Dids \cup {None}]
  BY DEF Goto, WorkersTyped
<1>2. ASSUME NEW v \in Workers PROVE WorkerOK(v)'
  <2>1. CASE v = w
    BY <2>1 DEF Goto, WorkersTyped, WorkerOK
  <2>2. CASE v # w
    BY <2>2 DEF Goto, WorkersTyped, WorkerOK
  <2>. QED
    BY <2>1, <2>2
<1>. QED
  BY <1>1, <1>2 DEF WorkersTyped

\* The same, when the device it has found stays.
LEMMA StayTyped ==
  ASSUME WorkersTyped, NEW w \in Workers, NEW step \in Steps \ {"idle"},
         pc[w] # "idle", Goto(w, step), UNCHANGED did,
         step \in Found => did[w] \in Dids,
         step \in Late \cup {"answer"} /\ job[w] # "reset" => did[w] \in Dids
  PROVE  WorkersTyped'
<1>1. did' = [did EXCEPT ![w] = did[w]] /\ did[w] \in Dids \cup {None}
  BY DEF WorkersTyped
<1>. QED
  BY <1>1, GotoTyped

\* The end of a transaction leaves its locks typed.
LEMMA UnlockTyped ==
  ASSUME TypeOK, NEW w \in Workers, Unlock(w)
  PROVE  /\ invLock' \in Workers \cup {None}
         /\ devLock' \in [Dids -> Workers \cup {None}]
         /\ appLock' \in [Dids -> Workers \cup {None}]
  BY DEF TypeOK, Unlock

\* Typing holds at the start.
LEMMA TypedInit == Init => Typed
<1>. SUFFICES ASSUME Init PROVE Typed
  OBVIOUS
<1>1. calls \in 0..setting.calls
  <2>1. setting.calls \in Nat
    BY InventoryAssumptions DEF Init, InventoryAssumptions, Setting
  <2>. QED
    BY <2>1 DEF Init
<1>2. WorkersTyped
  BY DEF Init, WorkersTyped, WorkerOK, Steps, Found, Late
<1>3. TypeOK
  BY <1>1, <1>2 DEF Init, TypeOK, WorkersTyped, Pending
<1>. QED
  BY <1>2, <1>3 DEF Typed

\* A step of a transaction keeps it.
LEMMA TransactTyped == ASSUME Typed, NEW w \in Workers, Transact(w) PROVE Typed'
<1>0. TypeOK /\ WorkersTyped /\ WorkerOK(w)
  BY DEF Typed, WorkersTyped
<1>1. CASE BeginTx(w)
  <2>1. PICK step \in {"read", "update"} : Goto(w, step)
    BY <1>1 DEF BeginTx
  <2>2. WorkersTyped'
    BY <1>0, <1>1, <2>1, StayTyped DEF BeginTx, Steps, InTxSteps, Found, Late
  <2>. QED
    BY <1>0, <1>1, <2>2 DEF BeginTx, Typed, TypeOK, WorkersTyped, tables, locks, history
<1>2. CASE ReadDid(w)
  <2>1. WorkersTyped'
    BY <1>0, <1>2, GotoTyped DEF ReadDid, Steps, InTxSteps, Found, Late, TypeOK
  <2>. QED
    BY <1>0, <1>2, <2>1 DEF ReadDid, Typed, TypeOK, WorkersTyped, tables, locks, history
<1>3. CASE UpdateRow(w)
  <2>1. inv.did \in Dids
    BY <1>0, <1>3 DEF UpdateRow, Updatable, TypeOK
  <2>2. ASSUME job[w] = "reset" PROVE WorkersTyped'
    BY <1>0, <1>3, <2>2, StayTyped DEF UpdateRow, Steps, InTxSteps, Found, Late
  <2>3. ASSUME job[w] # "reset" PROVE WorkersTyped'
    BY <1>0, <1>3, <2>1, <2>3, GotoTyped DEF UpdateRow, Steps, InTxSteps, Found, Late
  <2>4. WorkersTyped'
    BY <2>2, <2>3
  <2>. QED
    BY <1>0, <1>3, <2>4 DEF UpdateRow, Typed, TypeOK, WorkersTyped, tables, history
<1>4. CASE UpdateNoRow(w)
  <2>1. ASSUME job[w] = "factory" PROVE WorkersTyped'
    BY <1>0, <1>4, <2>1, StayTyped DEF UpdateNoRow, Steps, InTxSteps, Found, Late
  <2>2. ASSUME job[w] # "factory" PROVE WorkersTyped'
    BY <1>0, <1>4, <2>2, FinishTyped DEF UpdateNoRow
  <2>3. WorkersTyped'
    BY <2>1, <2>2
  <2>. QED
    BY <1>0, <1>4, <2>3 DEF UpdateNoRow, Typed, TypeOK, WorkersTyped, tables, locks, history
<1>5. CASE Exists(w)
  <2>1. WorkersTyped'
    BY <1>0, <1>5, FinishTyped DEF Exists
  <2>. QED
    BY <1>0, <1>5, <2>1 DEF Exists, Typed, TypeOK, WorkersTyped, tables, locks, history
<1>6. CASE WriteDevices(w)
  <2>1. PICK step \in {"owner", "commit"} : Goto(w, step)
    BY <1>6 DEF WriteDevices
  <2>2. WorkersTyped'
    BY <1>0, <1>6, <2>1, StayTyped DEF WriteDevices, WorkerOK, Steps, InTxSteps, Found, Late
  <2>3. devLock' \in [Dids -> Workers \cup {None}]
    BY <1>0, <1>6 DEF WriteDevices, TypeOK
  <2>. QED
    BY <1>0, <1>6, <2>2, <2>3 DEF WriteDevices, Typed, TypeOK, WorkersTyped, tables, history
<1>7. CASE DeleteOwner(w)
  <2>1. WorkersTyped'
    BY <1>0, <1>7, StayTyped DEF DeleteOwner, WorkerOK, Steps, InTxSteps, Found, Late
  <2>2. appLock' \in [Dids -> Workers \cup {None}]
    BY <1>0, <1>7 DEF DeleteOwner, TypeOK
  <2>. QED
    BY <1>0, <1>7, <2>1, <2>2 DEF DeleteOwner, Typed, TypeOK, WorkersTyped, tables, history
<1>8. CASE CommitReset(w)
  <2>1. WorkersTyped'
    BY <1>0, <1>8, FinishTyped DEF CommitReset
  <2>2. devices' \subseteq Dids /\ owner' \in [Dids -> Users \cup {None}]
    BY <1>0, <1>8 DEF CommitReset, TypeOK
  <2>3. /\ inv' \in [did : Dids \cup {None}, provisioned : BOOLEAN,
                     status : {"inventory", "provisioned"}]
        /\ given' \in Nat
    BY <1>0, <1>8 DEF CommitReset, TypeOK, Pending
  <2>. QED
    BY <1>0, <1>8, <2>1, <2>2, <2>3, UnlockTyped DEF CommitReset, Typed, TypeOK, WorkersTyped
<1>9. CASE CommitClaim(w)
  <2>1. did[w] \in Dids
    BY <1>0, <1>9 DEF CommitClaim, WorkerOK, Late
  <2>2. WorkersTyped'
    BY <1>0, <1>9, <2>1, StayTyped DEF CommitClaim, Steps, InTxSteps, Found, Late
  <2>3. devices' \subseteq Dids
    BY <1>0, <1>9, <2>1 DEF CommitClaim, TypeOK
  <2>4. inv' \in [did : Dids \cup {None}, provisioned : BOOLEAN,
                  status : {"inventory", "provisioned"}]
    BY <1>0, <1>9 DEF CommitClaim, TypeOK
  <2>5. given' \in Nat
    BY <1>0, <1>9 DEF CommitClaim, TypeOK
  <2>. QED
    BY <1>0, <1>9, <2>2, <2>3, <2>4, <2>5, UnlockTyped DEF CommitClaim, Typed, TypeOK, WorkersTyped
<1>10. CASE Rollback(w)
  <2>1. WorkersTyped'
    BY <1>0, <1>10, FinishTyped DEF Rollback
  <2>. QED
    BY <1>0, <1>10, <2>1, UnlockTyped DEF Rollback, Typed, TypeOK, WorkersTyped, tables, history
<1>11. CASE Answer(w)
  <2>1. WorkersTyped'
    BY <1>0, <1>11, FinishTyped DEF Answer
  <2>2. held' \in Dids \cup {None}
    BY <1>0, <1>11 DEF Answer, TypeOK
  <2>. QED
    BY <1>0, <1>11, <2>1, <2>2 DEF Answer, Typed, TypeOK, WorkersTyped, tables, locks, history
<1>. QED
  BY <1>1, <1>2, <1>3, <1>4, <1>5, <1>6, <1>7, <1>8, <1>9, <1>10, <1>11 DEF Transact

\* A step of the app or of the device keeps it.
LEMMA OwnTyped == ASSUME Typed, NEW w \in Workers, Own(w) PROVE Typed'
<1>0. TypeOK /\ WorkersTyped /\ WorkerOK(w)
  BY DEF Typed, WorkersTyped
<1>1. ASSUME SetOwner(w), did[w] \in Dids, user[w] \in Users
      PROVE  owner' \in [Dids -> Users \cup {None}] /\ owners' \subseteq Users \X Dids
  BY <1>0, <1>1 DEF SetOwner, TypeOK
<1>2. CASE AdoptLook(w)
  <2>1. ASSUME inv.did # None /\ inv.provisioned PROVE WorkersTyped'
    BY <1>0, <1>2, <2>1, GotoTyped DEF AdoptLook, TypeOK, Steps, InTxSteps, Found, Late
  <2>2. ASSUME ~ (inv.did # None /\ inv.provisioned) PROVE WorkersTyped'
    BY <1>0, <1>2, <2>2, FinishTyped DEF AdoptLook
  <2>. QED
    BY <1>0, <1>2, <2>1, <2>2 DEF AdoptLook, Typed, TypeOK, WorkersTyped, tables, locks, history
<1>3. CASE AdoptLink(w)
  <2>1. WorkersTyped'
    BY <1>0, <1>3, FinishTyped DEF AdoptLink
  <2>2. did[w] \in Dids /\ user[w] \in Users
    BY <1>0, <1>3 DEF AdoptLink, WorkerOK, Found
  <2>. QED
    BY <1>0, <1>1, <1>3, <2>1, <2>2 DEF AdoptLink, Typed, TypeOK, WorkersTyped, locks
<1>4. CASE SignLook(w)
  <2>1. ASSUME NEW d \in devices, did' = [did EXCEPT ![w] = d], Goto(w, "check")
        PROVE  WorkersTyped'
    <3>1. d \in Dids
      BY <1>0 DEF TypeOK
    <3>2. pc[w] # "idle"
      BY <1>4 DEF SignLook
    <3>. QED
      BY <1>0, <2>1, <3>1, <3>2, GotoTyped DEF Steps, InTxSteps, Found, Late
  <2>2. ASSUME Finish(w) PROVE WorkersTyped'
    BY <1>0, <2>2, FinishTyped
  <2>3. WorkersTyped'
    BY <1>4, <2>1, <2>2 DEF SignLook
  <2>. QED
    BY <1>0, <1>4, <2>3 DEF SignLook, Typed, TypeOK, WorkersTyped, tables, locks, history
<1>5. CASE SignCheck(w)
  <2>1. pc[w] # "idle" /\ did[w] \in Dids
    BY <1>0, <1>5 DEF SignCheck, WorkerOK, Found
  <2>2. ASSUME NEW step \in {"sign", "first"}, Goto(w, step), UNCHANGED did PROVE WorkersTyped'
    BY <1>0, <2>1, <2>2, StayTyped DEF Steps, InTxSteps
  <2>3. ASSUME Finish(w) PROVE WorkersTyped'
    BY <1>0, <2>3, FinishTyped
  <2>4. WorkersTyped'
    BY <1>5, <2>2, <2>3 DEF SignCheck
  <2>. QED
    BY <1>0, <1>5, <2>4 DEF SignCheck, Typed, TypeOK, WorkersTyped, tables, locks, history
<1>6. CASE SignFirst(w)
  <2>1. pc[w] # "idle" /\ did[w] \in Dids /\ user[w] \in Users
    BY <1>0, <1>6 DEF SignFirst, WorkerOK, Found
  <2>2. WorkersTyped'
    BY <1>0, <1>6, <2>1, StayTyped DEF SignFirst, Steps, InTxSteps
  <2>3. owner' \in [Dids -> Users \cup {None}] /\ owners' \subseteq Users \X Dids
    BY <1>0, <1>1, <1>6, <2>1 DEF SignFirst, TypeOK
  <2>. QED
    BY <1>0, <1>6, <2>2, <2>3 DEF SignFirst, Typed, TypeOK, WorkersTyped, locks
<1>7. CASE SignAgain(w)
  <2>1. pc[w] # "idle" /\ did[w] \in Dids
    BY <1>0, <1>7 DEF SignAgain, WorkerOK, Found
  <2>2. ASSUME Goto(w, "sign"), UNCHANGED did PROVE WorkersTyped'
    BY <1>0, <2>1, <2>2, StayTyped DEF Steps, InTxSteps
  <2>3. ASSUME Finish(w) PROVE WorkersTyped'
    BY <1>0, <2>3, FinishTyped
  <2>4. WorkersTyped'
    BY <1>7, <2>2, <2>3 DEF SignAgain
  <2>. QED
    BY <1>0, <1>7, <2>4 DEF SignAgain, Typed, TypeOK, WorkersTyped, tables, locks, history
<1>8. CASE Sign(w)
  <2>1. WorkersTyped'
    BY <1>0, <1>8, FinishTyped DEF Sign
  <2>2. <<user[w], did[w]>> \in Users \X Dids
    BY <1>0, <1>8 DEF Sign, WorkerOK, Found
  <2>. QED
    BY <1>0, <1>8, <2>1, <2>2 DEF Sign, Typed, TypeOK, WorkersTyped, tables, locks
<1>9. CASE ClaimRow(w)
  <2>1. pc[w] # "idle" /\ did[w] \in Dids
    BY <1>0, <1>9 DEF ClaimRow, WorkerOK, Found
  <2>2. WorkersTyped'
    BY <1>0, <1>9, <2>1, StayTyped DEF ClaimRow, Steps, InTxSteps
  <2>. QED
    BY <1>0, <1>9, <2>1, <2>2 DEF ClaimRow, Typed, TypeOK, WorkersTyped, locks, history
<1>10. CASE ClaimInsert(w)
  <2>1. WorkersTyped'
    BY <1>0, <1>10, FinishTyped DEF ClaimInsert
  <2>2. did[w] \in Dids /\ user[w] \in Users
    BY <1>0, <1>10 DEF ClaimInsert, WorkerOK, Found
  <2>3. owner' \in [Dids -> Users \cup {None}] /\ owners' \subseteq Users \X Dids
    BY <1>0, <1>1, <1>10, <2>2 DEF ClaimInsert, TypeOK
  <2>. QED
    BY <1>0, <1>10, <2>1, <2>3 DEF ClaimInsert, Typed, TypeOK, WorkersTyped, locks
<1>11. CASE RemoveDevice(w)
  <2>1. WorkersTyped'
    BY <1>0, <1>11, FinishTyped DEF RemoveDevice
  <2>2. owner' \in [Dids -> Users \cup {None}]
    BY <1>0, <1>11 DEF RemoveDevice, TypeOK
  <2>. QED
    BY <1>0, <1>11, <2>1, <2>2 DEF RemoveDevice, Typed, TypeOK, WorkersTyped, locks, history
<1>. QED
  BY <1>2, <1>3, <1>4, <1>5, <1>6, <1>7, <1>8, <1>9, <1>10, <1>11 DEF Own

\* A new request starts typed.
LEMMA RequestTyped ==
  ASSUME Typed, NEW w \in Workers, NEW what \in Jobs, NEW u \in Users, Request(w, what, u)
  PROVE  Typed'
<1>0. TypeOK /\ WorkersTyped /\ WorkerOK(w)
  BY DEF Typed, WorkersTyped
<1>1. FirstStep[what] \in {"begin", "row", "remove", "reg", "look"}
  BY DEF FirstStep
<1>2. FirstStep[what] \in Found => what \in {"claim", "remove", "reg"}
  BY DEF FirstStep, Found, Jobs, Transactions
<1>3. PICK x \in Dids \cup {None} :
        /\ did' = [did EXCEPT ![w] = x]
        /\ what \in {"claim", "remove", "reg"} => x \in Dids
  <2>1. CASE what \in {"claim", "remove"}
    BY <2>1 DEF Request
  <2>2. CASE what = "reg"
    BY <1>0, <2>2 DEF Request, TypeOK
  <2>3. CASE what \notin {"claim", "remove", "reg"}
    <3>1. did' = [did EXCEPT ![w] = did[w]] /\ did[w] \in Dids \cup {None}
      BY <1>0, <2>3 DEF Request, WorkersTyped
    <3>. QED
      BY <2>3, <3>1
  <2>. QED
    BY <2>1, <2>2, <2>3
<1>4. /\ pc' = [pc EXCEPT ![w] = FirstStep[what]]
      /\ job' = [job EXCEPT ![w] = what]
      /\ user' = [user EXCEPT ![w] = u]
  BY DEF Request
<1>5. FirstStep[what] \in Steps /\ FirstStep[what] \notin Late \cup {"answer"}
  BY <1>1 DEF Steps, InTxSteps, Late
<1>6. /\ pc' \in [Workers -> Steps]
      /\ job' \in [Workers -> Jobs \cup {"none"}]
      /\ user' \in [Workers -> Users \cup {None}]
      /\ did' \in [Workers -> Dids \cup {None}]
  BY <1>0, <1>3, <1>4, <1>5 DEF WorkersTyped
<1>7. ASSUME NEW v \in Workers PROVE WorkerOK(v)'
  <2>1. CASE v = w
    BY <1>0, <1>2, <1>3, <1>4, <1>5, <2>1 DEF WorkersTyped, WorkerOK
  <2>2. CASE v # w
    BY <1>0, <1>3, <1>4, <2>2 DEF WorkersTyped, WorkerOK
  <2>. QED
    BY <2>1, <2>2
<1>8. calls \in 0..setting.calls /\ setting.calls \in Nat /\ calls > 0 /\ calls' = calls - 1
  BY <1>0, InventoryAssumptions DEF Request, TypeOK, InventoryAssumptions, Setting
<1>9. calls' \in 0..setting.calls
  BY <1>8
<1>10. WorkersTyped'
  BY <1>6, <1>7 DEF WorkersTyped
<1>. QED
  BY <1>0, <1>9, <1>10 DEF Request, Typed, TypeOK, WorkersTyped, tables, locks, history

\* Every step keeps typing.
LEMMA TypedStep == Typed /\ [Next]_vars => Typed'
<1>. SUFFICES ASSUME Typed, [Next]_vars PROVE Typed'
  OBVIOUS
<1>0. TypeOK /\ WorkersTyped
  BY DEF Typed
<1>1. CASE AddDevice
  <2>1. inv' \in [did : Dids \cup {None}, provisioned : BOOLEAN,
                  status : {"inventory", "provisioned"}]
    BY <1>1 DEF AddDevice, Pending
  <2>. QED
    BY <1>0, <1>1, <2>1 DEF AddDevice, Typed, TypeOK, WorkersTyped, WorkerOK, locks, history,
                            workerVars
<1>2. ASSUME NEW w \in Workers, DeleteLook(w) PROVE Typed'
  <2>1. ASSUME Goto(w, "delete"), UNCHANGED did PROVE WorkersTyped'
    BY <1>0, <1>2, <2>1, StayTyped DEF DeleteLook, Steps, InTxSteps, Found, Late
  <2>2. ASSUME Finish(w) PROVE WorkersTyped'
    BY <1>0, <2>2, FinishTyped
  <2>. QED
    BY <1>0, <1>2, <2>1, <2>2 DEF DeleteLook, Typed, TypeOK, WorkersTyped, tables, locks, history
<1>3. ASSUME NEW w \in Workers, DeleteRow(w) PROVE Typed'
  <2>1. WorkersTyped'
    BY <1>0, <1>3, FinishTyped DEF DeleteRow
  <2>2. Pending(None) \in [did : Dids \cup {None}, provisioned : BOOLEAN,
                          status : {"inventory", "provisioned"}]
    BY DEF Pending
  <2>3. (inv' = Pending(None) \/ inv' = inv) /\ (given' = 0 \/ given' = given)
    BY <1>3 DEF DeleteRow
  <2>4. given' \in Nat
    BY <1>0, <2>3 DEF TypeOK
  <2>. QED
    BY <1>0, <1>3, <2>1, <2>2, <2>3, <2>4 DEF DeleteRow, Typed, TypeOK, WorkersTyped, locks
<1>4. ASSUME NEW w \in Workers, HandleReg(w) PROVE Typed'
  <2>1. WorkersTyped'
    BY <1>0, <1>4, FinishTyped DEF HandleReg
  <2>2. did[w] \in Dids
    BY <1>0, <1>4 DEF HandleReg, WorkersTyped, WorkerOK, Found
  <2>. QED
    BY <1>0, <1>4, <2>1, <2>2 DEF HandleReg, Typed, TypeOK, WorkersTyped, locks, history
<1>5. ASSUME NEW w \in Workers, Fail(w) PROVE Typed'
  <2>1. WorkersTyped'
    BY <1>0, <1>5, FinishTyped DEF Fail
  <2>. QED
    BY <1>0, <1>5, <2>1 DEF Fail, Typed, TypeOK, WorkersTyped, tables, locks, history
<1>6. CASE UNCHANGED vars
  BY <1>0, <1>6 DEF vars, tables, locks, history, workerVars, Typed, TypeOK, WorkersTyped, WorkerOK
<1>. QED
  BY <1>1, <1>2, <1>3, <1>4, <1>5, <1>6, TransactTyped, OwnTyped, RequestTyped DEF Next, Continue

\* Every variable keeps its type.
THEOREM TypeCorrect == Spec => []TypeOK
<1>1. Typed => TypeOK
  BY DEF Typed
<1>. QED
  BY TypedInit, TypedStep, <1>1, PTL DEF Spec

-----------------------------------------------------------------------------
(* The inventory row.                                                      *)

\* A transaction past its UPDATE has the row's lock, and the row is as that
\* UPDATE has found it.
Custody ==
  /\ \A w \in Workers : invLock = w <=> pc[w] \in Late
  /\ \A w \in Workers : pc[w] \in Late =>
       /\ inv.did # None
       /\ job[w] # "reset" => ~ inv.provisioned /\ did[w] = inv.did
  /\ ~ inv.provisioned => given = 0
  /\ HandedOutOnce
  /\ ProvisionedHasRow

\* What the workers that are not past their UPDATE do leaves the row alone.
LEMMA ElsewhereKeepsCustody ==
  ASSUME Typed, Custody, NEW w \in Workers,
         pc[w] \notin Late, pc'[w] \notin Late,
         \A v \in Workers \ {w} : pc'[v] = pc[v] /\ job'[v] = job[v] /\ did'[v] = did[v],
         UNCHANGED <<inv, invLock, given>>, devices \subseteq devices'
  PROVE  Custody'
<1>1. \A v \in Workers : invLock' = v <=> pc'[v] \in Late
  BY DEF Custody
<1>2. \A v \in Workers : pc'[v] \in Late =>
        /\ inv'.did # None
        /\ job'[v] # "reset" => ~ inv'.provisioned /\ did'[v] = inv'.did
  BY DEF Custody
<1>3. HandedOutOnce' /\ ProvisionedHasRow'
  BY DEF Custody, HandedOutOnce, ProvisionedHasRow
<1>. QED
  BY <1>1, <1>2, <1>3 DEF Custody

\* So does what the transactions do between their UPDATE and their end.
LEMMA MiddleKeepsCustody ==
  ASSUME Typed, Custody, NEW w \in Workers, pc[w] \in Late, pc'[w] \in Late,
         job' = job, did' = did,
         \A v \in Workers \ {w} : pc'[v] = pc[v],
         UNCHANGED <<inv, invLock, given, devices>>
  PROVE  Custody'
  BY DEF Custody, HandedOutOnce, ProvisionedHasRow

\* Nobody has the row at the start.
LEMMA CustodyInit == Init => Custody
  BY InventoryAssumptions
     DEF Init, Custody, HandedOutOnce, ProvisionedHasRow, InventoryAssumptions, Late, Pending

\* Transactions hand the row on as they have found it or as they have made it.
LEMMA TransactCustody ==
  ASSUME Typed, Custody, NEW w \in Workers, Transact(w) PROVE Custody'
<1>0. TypeOK /\ WorkersTyped /\ WorkerOK(w) /\ w # None
  BY InventoryAssumptions DEF Typed, WorkersTyped, InventoryAssumptions
<1>1. CASE BeginTx(w) \/ ReadDid(w) \/ UpdateNoRow(w) \/ Exists(w) \/ Answer(w)
  <2>1. pc[w] \notin Late /\ pc'[w] \notin Late
    BY <1>0, <1>1 DEF BeginTx, ReadDid, UpdateNoRow, Exists, Answer, Goto, Finish, Late,
                      WorkersTyped
  <2>2. \A v \in Workers \ {w} : pc'[v] = pc[v] /\ job'[v] = job[v] /\ did'[v] = did[v]
    BY <1>0, <1>1 DEF BeginTx, ReadDid, UpdateNoRow, Exists, Answer, Goto, Finish, WorkersTyped
  <2>3. UNCHANGED <<inv, invLock, given, devices>>
    BY <1>1 DEF BeginTx, ReadDid, UpdateNoRow, Exists, Answer, tables, locks, history
  <2>. QED
    BY <2>1, <2>2, <2>3, ElsewhereKeepsCustody
<1>2. CASE UpdateRow(w)
  <2>1. /\ \A v \in Workers : pc[v] \notin Late
        /\ inv.did # None /\ (job[w] # "reset" => ~ inv.provisioned)
    BY <1>0, <1>2, InventoryAssumptions DEF UpdateRow, Updatable, Custody, InventoryAssumptions
  <2>2. /\ pc'[w] = "devices" /\ invLock' = w /\ job' = job
        /\ job[w] # "reset" => did'[w] = inv.did
    BY <1>0, <1>2 DEF UpdateRow, Goto, WorkersTyped
  <2>3. \A v \in Workers \ {w} : pc'[v] = pc[v]
    BY <1>0, <1>2 DEF UpdateRow, Goto, WorkersTyped
  <2>4. UNCHANGED <<inv, given, devices>>
    BY <1>2 DEF UpdateRow, tables, history
  <2>. QED
    BY <2>1, <2>2, <2>3, <2>4 DEF Custody, HandedOutOnce, ProvisionedHasRow, Late
<1>3. CASE WriteDevices(w) \/ DeleteOwner(w)
  <2>1. pc[w] \in Late /\ pc'[w] \in Late
    BY <1>0, <1>3 DEF WriteDevices, DeleteOwner, Goto, Late, WorkersTyped
  <2>2. /\ job' = job /\ did' = did /\ \A v \in Workers \ {w} : pc'[v] = pc[v]
        /\ UNCHANGED <<inv, invLock, given, devices>>
    BY <1>0, <1>3 DEF WriteDevices, DeleteOwner, Goto, WorkersTyped, tables, history
  <2>. QED
    BY <2>1, <2>2, MiddleKeepsCustody
<1>4. ASSUME pc[w] \in Late, Unlock(w), pc'[w] \notin Late,
             \A v \in Workers \ {w} : pc'[v] = pc[v]
      PROVE  invLock' = None /\ \A v \in Workers : pc'[v] \notin Late
  BY <1>0, <1>4 DEF Unlock, Custody
<1>5. CASE CommitReset(w)
  <2>1. invLock' = None /\ \A v \in Workers : pc'[v] \notin Late
    BY <1>0, <1>4, <1>5 DEF CommitReset, Finish, Late, WorkersTyped
  <2>2. ~ inv'.provisioned /\ given' = 0
    BY <1>5 DEF CommitReset, Pending
  <2>. QED
    BY <2>1, <2>2, InventoryAssumptions
       DEF Custody, HandedOutOnce, ProvisionedHasRow, InventoryAssumptions
<1>6. CASE CommitClaim(w)
  <2>1. pc[w] \in Late /\ given = 0 /\ did[w] = inv.did
    BY <1>6 DEF CommitClaim, Custody, Late
  <2>2. invLock' = None /\ \A v \in Workers : pc'[v] \notin Late
    BY <1>0, <1>4, <1>6, <2>1 DEF CommitClaim, Goto, Late, WorkersTyped
  <2>3. inv'.provisioned = TRUE /\ inv'.did = inv.did
    BY <1>0, <1>6 DEF CommitClaim, TypeOK
  <2>4. given' = 1 /\ inv'.did \in devices'
    BY <1>6, <2>1, <2>3 DEF CommitClaim
  <2>5. HandedOutOnce' /\ ProvisionedHasRow'
    BY <2>4 DEF HandedOutOnce, ProvisionedHasRow
  <2>. QED
    BY <2>2, <2>3, <2>5, InventoryAssumptions DEF Custody, InventoryAssumptions
<1>7. CASE Rollback(w)
  <2>1. /\ pc'[w] \notin Late /\ Unlock(w)
        /\ \A v \in Workers \ {w} : pc'[v] = pc[v] /\ job'[v] = job[v] /\ did'[v] = did[v]
        /\ UNCHANGED <<inv, given, devices>>
    BY <1>0, <1>7 DEF Rollback, Finish, Late, WorkersTyped, tables, history
  <2>2. CASE pc[w] \in Late
    BY <1>4, <2>1, <2>2, InventoryAssumptions
       DEF Custody, HandedOutOnce, ProvisionedHasRow, InventoryAssumptions
  <2>3. CASE pc[w] \notin Late
    BY <2>1, <2>3, ElsewhereKeepsCustody DEF Unlock, Custody
  <2>. QED
    BY <2>2, <2>3
<1>. QED
  BY <1>1, <1>2, <1>3, <1>5, <1>6, <1>7 DEF Transact

\* Every step keeps custody.
LEMMA CustodyStep == Typed /\ Custody /\ [Next]_vars => Custody'
<1>. SUFFICES ASSUME Typed, Custody, [Next]_vars PROVE Custody'
  OBVIOUS
<1>0. TypeOK /\ WorkersTyped
  BY DEF Typed
<1>1. CASE AddDevice
  <2>1. \A w \in Workers : pc[w] \notin Late
    BY <1>1 DEF AddDevice, Custody
  <2>2. ~ inv'.provisioned /\ given' = 0
    BY <1>0, <1>1, InventoryAssumptions
       DEF AddDevice, Custody, Pending, history, ProvisionedHasRow, TypeOK, InventoryAssumptions
  <2>3. UNCHANGED <<invLock, pc>>
    BY <1>1 DEF AddDevice, locks, workerVars
  <2>. QED
    BY <2>1, <2>2, <2>3 DEF Custody, HandedOutOnce, ProvisionedHasRow
<1>2. ASSUME NEW w \in Workers, DeleteRow(w) PROVE Custody'
  <2>1. /\ pc[w] \notin Late /\ pc'[w] \notin Late
        /\ \A v \in Workers \ {w} : pc'[v] = pc[v] /\ job'[v] = job[v] /\ did'[v] = did[v]
        /\ UNCHANGED <<invLock, devices>>
    BY <1>0, <1>2 DEF DeleteRow, Finish, Late, WorkersTyped, locks
  <2>2. CASE inv.did # None /\ ~ inv.provisioned
    <3>1. \A v \in Workers : pc[v] \notin Late
      BY <1>2, <2>2, InventoryAssumptions DEF DeleteRow, Custody, InventoryAssumptions
    <3>2. ~ inv'.provisioned /\ given' = 0 /\ invLock' = None
      BY <1>2, <2>2 DEF DeleteRow, Pending, locks
    <3>. QED
      BY <2>1, <3>1, <3>2, InventoryAssumptions
         DEF Custody, HandedOutOnce, ProvisionedHasRow, InventoryAssumptions
  <2>3. CASE ~ (inv.did # None /\ ~ inv.provisioned)
    BY <1>2, <2>1, <2>3, ElsewhereKeepsCustody DEF DeleteRow
  <2>. QED
    BY <2>2, <2>3
<1>3. ASSUME NEW w \in Workers, Own(w) \/ DeleteLook(w) \/ HandleReg(w) \/ Fail(w)
      PROVE  Custody'
  <2>1. pc[w] \notin Late /\ pc'[w] \notin Late
    BY <1>0, <1>3 DEF Own, AdoptLook, AdoptLink, SignLook, SignCheck, SignFirst, SignAgain, Sign,
         ClaimRow, ClaimInsert, RemoveDevice, DeleteLook, HandleReg, Fail, Goto, Finish, Late,
         WorkersTyped
  <2>2. \A v \in Workers \ {w} : pc'[v] = pc[v] /\ job'[v] = job[v] /\ did'[v] = did[v]
    BY <1>0, <1>3 DEF Own, AdoptLook, AdoptLink, SignLook, SignCheck, SignFirst, SignAgain, Sign,
         ClaimRow, ClaimInsert, RemoveDevice, DeleteLook, HandleReg, Fail, Goto, Finish,
         WorkersTyped
  <2>3. UNCHANGED <<inv, invLock, given>> /\ devices \subseteq devices'
    BY <1>3 DEF Own, AdoptLook, AdoptLink, SignLook, SignCheck, SignFirst, SignAgain, Sign,
         ClaimRow, ClaimInsert, RemoveDevice, DeleteLook, HandleReg, Fail, tables, locks, history
  <2>. QED
    BY <2>1, <2>2, <2>3, ElsewhereKeepsCustody
<1>4. ASSUME NEW w \in Workers, NEW what \in Jobs, NEW u \in Users, Request(w, what, u)
      PROVE  Custody'
  <2>1. FirstStep[what] \notin Late
    BY DEF FirstStep, Late
  <2>2. pc[w] \notin Late /\ pc'[w] \notin Late
    BY <1>0, <1>4, <2>1 DEF Request, WorkersTyped, Late
  <2>3. \A v \in Workers \ {w} : did'[v] = did[v]
    BY <1>0, <1>4 DEF Request, WorkersTyped
  <2>4. \A v \in Workers \ {w} : pc'[v] = pc[v] /\ job'[v] = job[v]
    BY <1>0, <1>4 DEF Request, WorkersTyped
  <2>5. UNCHANGED <<inv, invLock, given, devices>>
    BY <1>4 DEF Request, tables, locks, history
  <2>. QED
    BY <2>2, <2>3, <2>4, <2>5, ElsewhereKeepsCustody
<1>5. CASE UNCHANGED vars
  BY <1>5 DEF vars, tables, locks, history, workerVars, Custody, HandedOutOnce, ProvisionedHasRow
<1>. QED
  BY <1>1, <1>2, <1>3, <1>4, <1>5, TransactCustody DEF Next, Continue

\* Custody holds throughout.
LEMMA CustodyHolds == Spec => [](Typed /\ Custody)
  BY TypedInit, TypedStep, CustodyInit, CustodyStep, PTL DEF Spec

\* The device is handed out at most once between two resets.
THEOREM OneHandOut == Spec => []HandedOutOnce
<1>1. Typed /\ Custody => HandedOutOnce
  BY DEF Custody
<1>. QED
  BY CustodyHolds, <1>1, PTL

\* A provisioned device has its devices row.
THEOREM RowOfProvisioned == Spec => []ProvisionedHasRow
<1>1. Typed /\ Custody => ProvisionedHasRow
  BY DEF Custody
<1>. QED
  BY CustodyHolds, <1>1, PTL

\* A device that is deleted from the inventory was not provisioned.
THEOREM OnlyPendingDeleted == Spec => DeletedOnlyPending
<1>1. Typed /\ Custody /\ [Next]_vars =>
        [inv.did # None /\ inv'.did = None => ~ inv.provisioned]_vars
  <2>. SUFFICES ASSUME Typed, Custody, Next, inv.did # None, inv'.did = None
                PROVE  ~ inv.provisioned
    OBVIOUS
  <2>0. TypeOK
    BY DEF Typed
  <2>1. ASSUME NEW w \in Workers, DeleteRow(w) PROVE ~ inv.provisioned
    BY <2>1 DEF DeleteRow
  <2>2. ASSUME NEW w \in Workers, CommitClaim(w) \/ CommitReset(w) PROVE inv'.did = inv.did
    <3>1. CASE CommitClaim(w)
      BY <2>0, <3>1 DEF CommitClaim, TypeOK
    <3>2. CASE CommitReset(w)
      BY <3>2 DEF CommitReset, Pending
    <3>. QED
      BY <2>2, <3>1, <3>2
  <2>3. ASSUME ~ \E w \in Workers : DeleteRow(w) \/ CommitClaim(w) \/ CommitReset(w)
        PROVE  inv' = inv \/ AddDevice
    BY <2>3 DEF Next, Continue, Transact, Own, BeginTx, ReadDid, UpdateRow, UpdateNoRow, Exists,
         WriteDevices, DeleteOwner, Rollback, Answer, DeleteLook, AdoptLook, AdoptLink, SignLook,
         SignCheck, SignFirst, SignAgain, Sign, ClaimRow, ClaimInsert, RemoveDevice, HandleReg,
         Fail, Request, tables
  <2>4. ASSUME AddDevice PROVE inv.did = None
    BY <2>4 DEF AddDevice
  <2>. QED
    BY <2>1, <2>2, <2>3, <2>4
<1>. QED
  BY CustodyHolds, <1>1, PTL DEF Spec, DeletedOnlyPending

-----------------------------------------------------------------------------
(* The life of the device in the inventory.                                *)

\* A commit of the factory or of the admin's switch hands the pending device out.
LEMMA ClaimHandsOut ==
  ASSUME Typed, Custody, NEW w \in Workers, CommitClaim(w) PROVE Life!HandOut
<1>1. pc[w] \in Late /\ job[w] # "reset"
  BY DEF CommitClaim, Late
<1>2. inv.did # None /\ ~ inv.provisioned /\ did[w] = inv.did /\ given = 0
  BY <1>1 DEF Custody
<1>3. inv'.did = inv.did /\ inv'.provisioned = TRUE
  BY DEF CommitClaim, Typed, TypeOK
<1>4. given' = 1 /\ inv'.did \in devices'
  BY <1>2, <1>3 DEF CommitClaim
<1>. QED
  BY <1>2, <1>3, <1>4 DEF Life!HandOut

\* A reset that commits takes the device back, and makes no row for it.
LEMMA ResetTakesBack ==
  ASSUME Typed, Custody, NEW w \in Workers, CommitReset(w) PROVE Life!TakeBack
<1>1. pc[w] \in Late
  BY DEF CommitReset, Late
<1>2. inv.did # None
  BY <1>1 DEF Custody
<1>3. inv'.did = inv.did /\ inv'.provisioned = FALSE /\ given' = 0
  BY DEF CommitReset, Pending
<1>4. inv'.did \in devices' => inv.did \in devices
  BY <1>3 DEF CommitReset
<1>. QED
  BY <1>2, <1>3, <1>4 DEF Life!TakeBack

\* A delete that finds the device pending removes it, any other leaves it alone.
LEMMA DeleteRemoves ==
  ASSUME Typed, Custody, NEW w \in Workers, DeleteRow(w)
  PROVE  Life!Remove \/ UNCHANGED <<inv, given, devices>>
<1>1. UNCHANGED devices
  BY DEF DeleteRow
<1>2. CASE inv.did # None /\ ~ inv.provisioned
  <2>1. inv' = Pending(None) /\ given' = 0 /\ given = 0
    BY <1>2 DEF DeleteRow, Custody
  <2>2. inv'.did = None /\ inv'.provisioned = FALSE
    BY <2>1 DEF Pending
  <2>3. inv.provisioned = FALSE
    BY <1>2 DEF Typed, TypeOK
  <2>4. None \notin devices'
    BY <1>1, InventoryAssumptions DEF InventoryAssumptions, Typed, TypeOK
  <2>. QED
    BY <1>2, <2>1, <2>2, <2>3, <2>4 DEF Life!Remove
<1>3. CASE ~ (inv.did # None /\ ~ inv.provisioned)
  BY <1>1, <1>3 DEF DeleteRow
<1>. QED
  BY <1>2, <1>3

\* Adding the MAC again gives it a did without a row.
LEMMA AddAdds == ASSUME Typed, Custody, AddDevice PROVE Life!Add
<1>1. PICK d \in Dids : d \notin devices /\ inv' = Pending(d)
  BY DEF AddDevice
<1>2. inv.did = None /\ UNCHANGED <<devices, given>>
  BY DEF AddDevice, history
<1>3. inv.provisioned = FALSE
  BY <1>2, InventoryAssumptions
     DEF Custody, ProvisionedHasRow, InventoryAssumptions, Typed, TypeOK
<1>4. inv'.did = d /\ inv'.provisioned = FALSE
  BY <1>1 DEF Pending
<1>. QED
  BY <1>1, <1>2, <1>3, <1>4 DEF Life!Add

\* Where devices only grows, some did is named, if not the one in the inventory.
LEMMA GrowthNames ==
  ASSUME Typed, UNCHANGED <<inv, given>>, devices \subseteq devices', devices' \subseteq Dids
  PROVE  Life!Name \/ UNCHANGED Life!vars
<1>1. CASE (inv.did \in devices') = (inv.did \in devices)
  BY <1>1 DEF Life!vars
<1>2. CASE inv.did \in devices' /\ inv.did \notin devices
  <2>1. inv.did # None
    BY <1>2, InventoryAssumptions DEF InventoryAssumptions
  <2>. QED
    BY <1>2, <2>1 DEF Life!Name
<1>. QED
  BY <1>1, <1>2

\* Every step is one of the device's life, or none of its business.
LEMMA LifeStep == Typed /\ Custody /\ [Next]_vars => [Life!Next]_(Life!vars)
<1>. SUFFICES ASSUME Typed, Custody, [Next]_vars PROVE Life!Next \/ UNCHANGED Life!vars
  OBVIOUS
<1>0. devices' \subseteq Dids
  BY TypedStep DEF Typed, TypeOK
<1>1. ASSUME UNCHANGED <<inv, given, devices>> PROVE UNCHANGED Life!vars
  BY <1>1 DEF Life!vars
<1>2. CASE AddDevice
  BY <1>2, AddAdds DEF Life!Next
<1>3. ASSUME NEW w \in Workers, CommitClaim(w) PROVE Life!Next
  BY <1>3, ClaimHandsOut DEF Life!Next
<1>4. ASSUME NEW w \in Workers, CommitReset(w) PROVE Life!Next
  BY <1>4, ResetTakesBack DEF Life!Next
<1>5. ASSUME NEW w \in Workers, DeleteRow(w) PROVE Life!Next \/ UNCHANGED Life!vars
  BY <1>1, <1>5, DeleteRemoves DEF Life!Next
<1>6. ASSUME NEW w \in Workers, HandleReg(w) \/ ClaimRow(w)
      PROVE  Life!Next \/ UNCHANGED Life!vars
  <2>1. UNCHANGED <<inv, given>> /\ devices \subseteq devices'
    BY <1>6 DEF HandleReg, ClaimRow, history
  <2>. QED
    BY <1>0, <2>1, GrowthNames DEF Life!Next
<1>7. ASSUME ~ AddDevice,
             ~ \E w \in Workers :
                 \/ CommitClaim(w) \/ CommitReset(w) \/ DeleteRow(w)
                 \/ HandleReg(w) \/ ClaimRow(w)
      PROVE  UNCHANGED <<inv, given, devices>>
  BY <1>7 DEF Next, Continue, Transact, Own, BeginTx, ReadDid, UpdateRow, UpdateNoRow, Exists,
       WriteDevices, DeleteOwner, Rollback, Answer, DeleteLook, AdoptLook, AdoptLink, SignLook,
       SignCheck, SignFirst, SignAgain, Sign, ClaimInsert, RemoveDevice, Fail, Request, tables,
       history, vars
<1>. QED
  BY <1>1, <1>2, <1>3, <1>4, <1>5, <1>6, <1>7

\* Whatever requests meet, the inventory row lives the life of Provisioning: it is handed out
\* once before it is taken back, is removed only while pending, and has its devices row from
\* the hand-out on.
THEOREM ImplementsLife == Spec => DeviceLife
<1>1. Init => Life!Init
  <2>. SUFFICES ASSUME Init PROVE Life!Init
    OBVIOUS
  <2>1. PICK d \in Dids : inv = Pending(d)
    BY DEF Init
  <2>2. inv.did = d /\ inv.provisioned = FALSE
    BY <2>1 DEF Pending
  <2>. QED
    BY <2>2 DEF Init, Life!Init
<1>. QED
  BY <1>1, CustodyHolds, LifeStep, PTL DEF Spec, DeviceLife, Life!Spec

-----------------------------------------------------------------------------
(* Ownership.                                                              *)

\* Owners have been linked, and so has whoever is about to get a signature.
Linked ==
  /\ \A d \in Dids : owner[d] # None => <<owner[d], d>> \in owners
  /\ \A w \in Workers : pc[w] = "sign" => <<user[w], did[w]>> \in owners
  /\ SignedForOwners

\* Requests that link nobody and sign nothing keep the links.
LEMMA OthersKeepLinks ==
  ASSUME Typed, Linked, NEW w \in Workers, pc'[w] # "sign",
         \A v \in Workers \ {w} : pc'[v] = pc[v] /\ user'[v] = user[v] /\ did'[v] = did[v],
         owners \subseteq owners', signed' = signed,
         \A d \in Dids : owner'[d] # None => owner'[d] = owner[d] \/ <<owner'[d], d>> \in owners'
  PROVE  Linked'
<1>1. \A d \in Dids : owner'[d] # None => <<owner'[d], d>> \in owners'
  BY DEF Linked
<1>2. \A v \in Workers : pc'[v] = "sign" => <<user'[v], did'[v]>> \in owners'
  BY DEF Linked
<1>3. SignedForOwners'
  BY DEF Linked, SignedForOwners
<1>. QED
  BY <1>1, <1>2, <1>3 DEF Linked

\* Nobody is linked at the start.
LEMMA LinkedInit == Init => Linked
  BY DEF Init, Linked, SignedForOwners

\* Every step keeps the links.
LEMMA LinkedStep == Typed /\ Linked /\ [Next]_vars => Linked'
<1>. SUFFICES ASSUME Typed, Linked, [Next]_vars PROVE Linked'
  OBVIOUS
<1>0. TypeOK /\ WorkersTyped
  BY DEF Typed
<1>1. ASSUME NEW w \in Workers, AdoptLink(w) \/ SignFirst(w) \/ ClaimInsert(w) PROVE Linked'
  <2>1. pc'[w] # "sign" /\ UNCHANGED signed
    BY <1>0, <1>1 DEF AdoptLink, SignFirst, ClaimInsert, Goto, Finish, WorkersTyped
  <2>2. \A v \in Workers \ {w} : pc'[v] = pc[v] /\ user'[v] = user[v] /\ did'[v] = did[v]
    BY <1>0, <1>1 DEF AdoptLink, SignFirst, ClaimInsert, Goto, Finish, WorkersTyped
  <2>3. SetOwner(w) \/ UNCHANGED <<owner, owners>>
    BY <1>1 DEF AdoptLink, SignFirst, ClaimInsert
  <2>4. /\ owners \subseteq owners'
        /\ \A d \in Dids : owner'[d] # None => owner'[d] = owner[d] \/ <<owner'[d], d>> \in owners'
    BY <1>0, <2>3 DEF SetOwner, TypeOK
  <2>. QED
    BY <2>1, <2>2, <2>4, OthersKeepLinks
<1>2. ASSUME NEW w \in Workers, SignCheck(w) \/ SignAgain(w) PROVE Linked'
  <2>1. did[w] \in Dids /\ user[w] \in Users /\ user[w] # None
    BY <1>0, <1>2, InventoryAssumptions
       DEF SignCheck, SignAgain, WorkersTyped, WorkerOK, Found, InventoryAssumptions
  <2>2. UNCHANGED <<owner, owners, signed>>
    BY <1>2 DEF SignCheck, SignAgain, tables, history
  <2>3. \A v \in Workers \ {w} : pc'[v] = pc[v] /\ user'[v] = user[v] /\ did'[v] = did[v]
    BY <1>0, <1>2 DEF SignCheck, SignAgain, Goto, Finish, WorkersTyped
  <2>4. pc'[w] = "sign" => owner[did[w]] = user[w] /\ UNCHANGED <<user, did>>
    BY <1>0, <1>2 DEF SignCheck, SignAgain, Goto, Finish, WorkersTyped
  <2>5. pc'[w] = "sign" => <<user'[w], did'[w]>> \in owners'
    BY <2>1, <2>2, <2>4 DEF Linked
  <2>. QED
    BY <2>2, <2>3, <2>5 DEF Linked, SignedForOwners
<1>3. ASSUME NEW w \in Workers, Sign(w) PROVE Linked'
  <2>1. UNCHANGED <<owner, owners>> /\ signed' = signed \cup {<<user[w], did[w]>>}
    BY <1>3 DEF Sign, tables
  <2>2. <<user[w], did[w]>> \in owners
    BY <1>3 DEF Sign, Linked
  <2>3. pc'[w] # "sign"
    BY <1>0, <1>3 DEF Sign, Finish, WorkersTyped
  <2>4. \A v \in Workers \ {w} : pc'[v] = pc[v] /\ user'[v] = user[v] /\ did'[v] = did[v]
    BY <1>0, <1>3 DEF Sign, Finish, WorkersTyped
  <2>. QED
    BY <2>1, <2>2, <2>3, <2>4 DEF Linked, SignedForOwners
<1>4. ASSUME NEW w \in Workers,
             \/ Transact(w) \/ DeleteLook(w) \/ DeleteRow(w) \/ HandleReg(w) \/ Fail(w)
             \/ AdoptLook(w) \/ SignLook(w) \/ ClaimRow(w) \/ RemoveDevice(w)
             \/ \E what \in Jobs, u \in Users : Request(w, what, u)
      PROVE  Linked'
  <2>1. pc'[w] # "sign"
    BY <1>0, <1>4 DEF Transact, BeginTx, ReadDid, UpdateRow, UpdateNoRow, Exists, WriteDevices,
         DeleteOwner, CommitReset, CommitClaim, Rollback, Answer, DeleteLook, DeleteRow, HandleReg,
         Fail, AdoptLook, SignLook, ClaimRow, RemoveDevice, Request, FirstStep, Goto, Finish,
         WorkersTyped
  <2>2. \A v \in Workers \ {w} : pc'[v] = pc[v] /\ user'[v] = user[v] /\ did'[v] = did[v]
    BY <1>0, <1>4 DEF Transact, BeginTx, ReadDid, UpdateRow, UpdateNoRow, Exists, WriteDevices,
         DeleteOwner, CommitReset, CommitClaim, Rollback, Answer, DeleteLook, DeleteRow, HandleReg,
         Fail, AdoptLook, SignLook, ClaimRow, RemoveDevice, Request, Goto, Finish, WorkersTyped
  <2>3. UNCHANGED <<owners, signed>>
    BY <1>4 DEF Transact, BeginTx, ReadDid, UpdateRow, UpdateNoRow, Exists, WriteDevices,
         DeleteOwner, CommitReset, CommitClaim, Rollback, Answer, DeleteLook, DeleteRow, HandleReg,
         Fail, AdoptLook, SignLook, ClaimRow, RemoveDevice, Request, history
  <2>4. \A d \in Dids : owner'[d] # None => owner'[d] = owner[d]
    BY <1>0, <1>4 DEF Transact, BeginTx, ReadDid, UpdateRow, UpdateNoRow, Exists, WriteDevices,
         DeleteOwner, CommitReset, CommitClaim, Rollback, Answer, DeleteLook, DeleteRow, HandleReg,
         Fail, AdoptLook, SignLook, ClaimRow, RemoveDevice, Request, tables, TypeOK
  <2>. QED
    BY <2>1, <2>2, <2>3, <2>4, OthersKeepLinks
<1>5. CASE AddDevice \/ UNCHANGED vars
  BY <1>5 DEF AddDevice, vars, tables, locks, history, workerVars, Linked, SignedForOwners
<1>. QED
  BY <1>1, <1>2, <1>3, <1>4, <1>5 DEF Next, Continue, Own

\* Nonces are signed only for users to whom the device has been linked.
THEOREM SignaturesForOwners == Spec => []SignedForOwners
<1>1. Linked => SignedForOwners
  BY DEF Linked
<1>. QED
  BY TypedInit, TypedStep, LinkedInit, LinkedStep, <1>1, PTL DEF Spec

-----------------------------------------------------------------------------
(* A clean reset.                                                          *)

\* Resets and deletes run by themselves, and nobody makes the rows by hand.
Calm == setting.calm /\ setting.jobs \cap {"claim", "reg"} = {}

\* Who resets or deletes is the only one at work.
Alone ==
  /\ \A w \in Workers :
       /\ pc[w] # "idle" => job[w] \in setting.jobs
       /\ pc[w] \in {"row", "insert"} => job[w] = "claim"
       /\ pc[w] = "reg" => job[w] = "reg"
       /\ pc[w] = "delete" => job[w] = "delete"
  /\ \A w, v \in Workers : w # v /\ pc[w] # "idle" /\ job[w] \in Cleaning => pc[v] = "idle"

\* Who is about to link a did has the did of the provisioned device.
Linking(w) == pc[w] \in {"link", "check", "first"} => inv.provisioned /\ did[w] = inv.did

\* A reset of a provisioned device has read its did, and holds the rows of it that there are.
Resetting(w) ==
  job[w] = "reset" /\ pc[w] \in {"update"} \cup Late /\ inv.provisioned =>
    /\ did[w] = inv.did
    /\ pc[w] \in {"owner", "commit"} /\ did[w] \in devices => devLock[did[w]] = w
    /\ pc[w] = "commit" /\ owner[did[w]] # None => appLock[did[w]] = w

CleanInv ==
  Calm => Alone /\ CleanWhenPending /\ \A w \in Workers : Linking(w) /\ Resetting(w)

\* A request that goes on remains what it is, and touches no other worker.
LEMMA ContinueMoves ==
  ASSUME Typed, NEW w \in Workers, Continue(w)
  PROVE  /\ pc[w] # "idle" /\ (pc'[w] = "idle" \/ job'[w] = job[w])
         /\ \A v \in Workers \ {w} : pc'[v] = pc[v] /\ job'[v] = job[v] /\ did'[v] = did[v]
         /\ pc'[w] \notin {"row", "reg"} /\ (pc'[w] = "insert" => pc[w] = "row")
         /\ pc'[w] = "delete" => job[w] = "delete"
         /\ UNCHANGED setting
<1>0. DOMAIN pc = Workers /\ DOMAIN job = Workers /\ DOMAIN did = Workers
  BY DEF Typed, WorkersTyped
<1>1. CASE Transact(w)
  BY <1>0, <1>1 DEF Transact, BeginTx, ReadDid, UpdateRow, UpdateNoRow, Exists, WriteDevices,
       DeleteOwner, CommitReset, CommitClaim, Rollback, Answer, InTransaction, InTxSteps, Goto,
       Finish
<1>2. CASE Own(w)
  BY <1>0, <1>2 DEF Own, AdoptLook, AdoptLink, SignLook, SignCheck, SignFirst, SignAgain, Sign,
       ClaimRow, ClaimInsert, RemoveDevice, Goto, Finish
<1>3. CASE DeleteLook(w) \/ DeleteRow(w) \/ HandleReg(w) \/ Fail(w)
  BY <1>0, <1>3 DEF DeleteLook, DeleteRow, HandleReg, Fail, Goto, Finish
<1>. QED
  BY <1>1, <1>2, <1>3 DEF Continue

\* A new request changes nothing but its worker.
LEMMA RequestMoves ==
  ASSUME Typed, NEW w \in Workers, NEW what \in Jobs, NEW u \in Users, Request(w, what, u)
  PROVE  /\ pc[w] = "idle" /\ job'[w] = what /\ what \in setting.jobs
         /\ pc'[w] = FirstStep[what]
         /\ \A v \in Workers \ {w} : pc'[v] = pc[v] /\ job'[v] = job[v] /\ did'[v] = did[v]
         /\ UNCHANGED <<setting, inv, devices, owner, locks>>
  BY DEF Request, Typed, WorkersTyped, tables

\* Every step leaves who cleans alone.
LEMMA AloneStep ==
  ASSUME Typed, Calm, Alone, [Next]_vars
  PROVE  Alone'
<1>1. CASE AddDevice \/ UNCHANGED vars
  BY <1>1 DEF AddDevice, vars, workerVars, Alone
<1>2. ASSUME NEW w \in Workers, Continue(w) PROVE Alone'
  BY <1>2, ContinueMoves DEF Alone
<1>3. ASSUME NEW w \in Workers, NEW what \in Jobs, NEW u \in Users, Request(w, what, u)
      PROVE  Alone'
  <2>1. /\ FirstStep[what] = "row" => what = "claim"
        /\ FirstStep[what] = "reg" => what = "reg"
        /\ FirstStep[what] \notin {"insert", "delete"}
    BY DEF FirstStep, Jobs, Transactions
  <2>2. \A v \in Workers : pc[v] # "idle" => what \notin Cleaning /\ job[v] \notin Cleaning
    BY <1>3 DEF Calm, Request
  <2>. QED
    BY <1>3, <2>1, <2>2, RequestMoves DEF Alone
<1>. QED
  BY <1>1, <1>2, <1>3 DEF Next

\* What a step may do to the tables in a calm setting.
LEMMA CalmTables ==
  ASSUME Typed, Calm, Alone, [Next]_vars
  PROVE  \/ /\ inv' = inv /\ devices' = devices
            /\ \A d \in Dids : owner[d] = None => owner'[d] = None
         \/ AddDevice
         \/ \E w \in Workers :
              CommitClaim(w) \/ CommitReset(w) \/ DeleteRow(w) \/ AdoptLink(w) \/ SignFirst(w)
<1>1. ASSUME NEW w \in Workers
      PROVE  ~ ClaimRow(w) /\ ~ ClaimInsert(w) /\ ~ HandleReg(w)
  BY DEF Calm, Alone, ClaimRow, ClaimInsert, HandleReg
<1>2. ASSUME NEW w \in Workers, RemoveDevice(w)
      PROVE  /\ inv' = inv /\ devices' = devices
             /\ \A d \in Dids : owner[d] = None => owner'[d] = None
  BY <1>2 DEF RemoveDevice, Typed, TypeOK
<1>3. ASSUME NEW w \in Workers,
             \/ BeginTx(w) \/ ReadDid(w) \/ UpdateRow(w) \/ UpdateNoRow(w) \/ Exists(w)
             \/ WriteDevices(w) \/ DeleteOwner(w) \/ Rollback(w) \/ Answer(w) \/ DeleteLook(w)
             \/ AdoptLook(w) \/ SignLook(w) \/ SignCheck(w) \/ SignAgain(w) \/ Sign(w) \/ Fail(w)
             \/ \E what \in Jobs, u \in Users : Request(w, what, u)
      PROVE  UNCHANGED <<inv, devices, owner>>
  BY <1>3 DEF BeginTx, ReadDid, UpdateRow, UpdateNoRow, Exists, WriteDevices, DeleteOwner,
       Rollback, Answer, DeleteLook, AdoptLook, SignLook, SignCheck, SignAgain, Sign, Fail, Request,
       tables
<1>4. CASE UNCHANGED vars
  BY <1>4 DEF vars, tables
<1>. QED
  BY <1>1, <1>2, <1>3, <1>4 DEF Next, Continue, Transact, Own

\* A claim keeps the did of the row and provisions it.
LEMMA CommitClaimInv ==
  ASSUME Typed, NEW w \in Workers, CommitClaim(w)
  PROVE  inv'.provisioned = TRUE /\ inv'.did = inv.did
  BY DEF CommitClaim, Typed, TypeOK

\* Every step of a calm setting keeps what is not provisioned clean.
LEMMA CleanStep ==
  ASSUME Typed, Custody, Calm, CleanInv, [Next]_vars
  PROVE  CleanWhenPending'
<1>0. /\ Alone /\ \A w \in Workers : Linking(w) /\ Resetting(w)
      /\ \A d \in Dids : ~ (inv.provisioned /\ inv.did = d) => d \notin devices /\ owner[d] = None
      /\ DOMAIN owner = Dids /\ devices \subseteq Dids /\ None \notin Dids
  BY InventoryAssumptions
     DEF CleanInv, Calm, CleanWhenPending, Typed, TypeOK, InventoryAssumptions
<1>. SUFFICES ASSUME NEW d \in Dids, ~ (inv'.provisioned /\ inv'.did = d)
              PROVE  d \notin devices' /\ owner'[d] = None
  BY DEF CleanWhenPending
<1>1. CASE /\ inv' = inv /\ devices' = devices
           /\ \A x \in Dids : owner[x] = None => owner'[x] = None
  BY <1>0, <1>1
<1>2. CASE AddDevice
  <2>1. inv.did = None /\ UNCHANGED <<devices, owner>>
    BY <1>2 DEF AddDevice
  <2>. QED
    BY <1>0, <2>1
<1>3. ASSUME NEW w \in Workers, CommitClaim(w) PROVE d \notin devices' /\ owner'[d] = None
  <2>1. did[w] = inv.did
    BY <1>3 DEF CommitClaim, Custody, Late
  <2>2. devices' = devices \cup {did[w]} /\ owner' = owner
    BY <1>3 DEF CommitClaim
  <2>. QED
    BY <1>0, <1>3, <2>1, <2>2, CommitClaimInv
<1>4. ASSUME NEW w \in Workers, CommitReset(w) PROVE d \notin devices' /\ owner'[d] = None
  <2>1. /\ devices' = {x \in devices : devLock[x] # w}
        /\ owner' = [x \in Dids |-> IF appLock[x] = w THEN None ELSE owner[x]]
        /\ pc[w] = "commit" /\ job[w] = "reset"
    BY <1>4 DEF CommitReset
  <2>2. CASE ~ (inv.provisioned /\ inv.did = d)
    BY <1>0, <2>1, <2>2
  <2>3. CASE inv.provisioned /\ inv.did = d
    <3>1. /\ did[w] = d
          /\ d \in devices => devLock[d] = w
          /\ owner[d] # None => appLock[d] = w
      BY <1>0, <2>1, <2>3 DEF Resetting, Late
    <3>. QED
      BY <2>1, <3>1
  <2>. QED
    BY <2>2, <2>3
<1>5. ASSUME NEW w \in Workers, DeleteRow(w) PROVE d \notin devices' /\ owner'[d] = None
  <2>1. UNCHANGED <<devices, owner>> /\ (inv' = inv \/ ~ inv.provisioned)
    BY <1>5 DEF DeleteRow
  <2>. QED
    BY <1>0, <2>1
<1>6. ASSUME NEW w \in Workers, AdoptLink(w) \/ SignFirst(w)
      PROVE  d \notin devices' /\ owner'[d] = None
  <2>1. inv.provisioned /\ did[w] = inv.did
    BY <1>0, <1>6 DEF AdoptLink, SignFirst, Linking
  <2>2. UNCHANGED <<inv, devices>> /\ (owner' = owner \/ owner' = [owner EXCEPT ![did[w]] = user[w]])
    BY <1>6 DEF AdoptLink, SignFirst, SetOwner
  <2>. QED
    BY <1>0, <2>1, <2>2
<1>. QED
  BY <1>0, <1>1, <1>2, <1>3, <1>4, <1>5, <1>6, CalmTables

\* Who has found the provisioned device links that device: no reset or delete comes in between.
LEMMA LinkingStep ==
  ASSUME Typed, Calm, CleanInv, [Next]_vars, NEW v \in Workers
  PROVE  Linking(v)'
<1>0. /\ Alone /\ Linking(v) /\ TypeOK /\ WorkerOK(v)
      /\ \A d \in Dids : ~ (inv.provisioned /\ inv.did = d) => d \notin devices
      /\ devices \subseteq Dids /\ None \notin Dids
      /\ DOMAIN pc = Workers /\ DOMAIN did = Workers
  BY InventoryAssumptions
     DEF CleanInv, Calm, CleanWhenPending, Typed, TypeOK, WorkersTyped, InventoryAssumptions
<1>. SUFFICES ASSUME pc'[v] \in {"link", "check", "first"}
              PROVE  inv'.provisioned /\ did'[v] = inv'.did
  BY DEF Linking
<1>1. CASE AddDevice \/ UNCHANGED vars
  BY <1>0, <1>1 DEF AddDevice, vars, workerVars, tables, Linking, WorkerOK, Found
<1>2. ASSUME NEW w \in Workers, CommitReset(w) \/ DeleteRow(w) PROVE FALSE
  <2>1. pc[w] # "idle" /\ job[w] \in Cleaning /\ Continue(w)
    BY <1>0, <1>2 DEF CommitReset, DeleteRow, Cleaning, Alone, Continue, Transact
  <2>2. pc'[w] = "idle"
    BY <1>0, <1>2 DEF CommitReset, DeleteRow, Finish
  <2>3. v # w => pc'[v] = "idle"
    BY <1>0, <2>1, ContinueMoves DEF Alone
  <2>. QED
    BY <2>2, <2>3
<1>3. ASSUME NEW w \in Workers, Continue(w), ~ CommitReset(w), ~ DeleteRow(w)
      PROVE  inv'.provisioned /\ did'[v] = inv'.did
  <2>1. (inv.provisioned => inv'.provisioned) /\ inv'.did = inv.did
    <3>1. CASE CommitClaim(w)
      BY <3>1, CommitClaimInv
    <3>2. CASE ~ CommitClaim(w)
      <4>1. inv' = inv
        BY <1>3, <3>2 DEF Continue, Transact, Own, BeginTx, ReadDid, UpdateRow, UpdateNoRow,
           Exists, WriteDevices, DeleteOwner, Rollback, Answer, DeleteLook, AdoptLook, AdoptLink,
           SignLook, SignCheck, SignFirst, SignAgain, Sign, ClaimRow, ClaimInsert, RemoveDevice,
           HandleReg, Fail, tables
      <4>. QED
        BY <4>1
    <3>. QED
      BY <3>1, <3>2
  <2>2. CASE v # w
    BY <1>0, <1>3, <2>1, <2>2, ContinueMoves DEF Linking
  <2>3. CASE v = w
    <3>1. CASE AdoptLook(v)
      BY <1>0, <2>1, <3>1 DEF AdoptLook, Goto, Finish
    <3>2. CASE SignLook(v)
      BY <1>0, <2>1, <3>2 DEF SignLook, Goto, Finish
    <3>3. CASE SignCheck(v)
      BY <1>0, <2>1, <3>3 DEF SignCheck, Goto, Finish, Linking
    <3>4. CASE ~ AdoptLook(v) /\ ~ SignLook(v) /\ ~ SignCheck(v)
      <4>1. pc'[v] \notin {"link", "check", "first"}
        BY <1>0, <1>3, <2>3, <3>4 DEF Continue, Transact, Own, BeginTx, ReadDid, UpdateRow,
           UpdateNoRow, Exists, WriteDevices, DeleteOwner, CommitClaim, Rollback, Answer,
           DeleteLook, AdoptLink, SignFirst, SignAgain, Sign, ClaimRow, ClaimInsert, RemoveDevice,
           HandleReg, Fail, Goto, Finish
      <4>. QED
        BY <4>1
    <3>. QED
      BY <3>1, <3>2, <3>3, <3>4
  <2>. QED
    BY <2>2, <2>3
<1>4. ASSUME NEW w \in Workers, NEW what \in Jobs, NEW u \in Users, Request(w, what, u)
      PROVE  inv'.provisioned /\ did'[v] = inv'.did
  <2>1. FirstStep[what] \notin {"link", "check", "first"}
    BY DEF FirstStep
  <2>. QED
    BY <1>0, <1>4, <2>1, RequestMoves DEF Linking
<1>. QED
  BY <1>1, <1>2, <1>3, <1>4 DEF Next

\* A reset cleans the device it has read: nothing is provisioned or linked next to it.
LEMMA ResettingStep ==
  ASSUME Typed, Custody, Calm, CleanInv, [Next]_vars, NEW v \in Workers
  PROVE  Resetting(v)'
<1>0. /\ Alone /\ Resetting(v) /\ TypeOK
      /\ DOMAIN pc = Workers /\ DOMAIN did = Workers /\ DOMAIN job = Workers
      /\ DOMAIN devLock = Dids /\ DOMAIN appLock = Dids
      /\ devices \subseteq Dids
  BY DEF CleanInv, Calm, Typed, TypeOK, WorkersTyped
<1>. SUFFICES ASSUME job'[v] = "reset", pc'[v] \in {"update"} \cup Late, inv'.provisioned
              PROVE  /\ did'[v] = inv'.did
                     /\ pc'[v] \in {"owner", "commit"} /\ did'[v] \in devices'
                          => devLock'[did'[v]] = v
                     /\ pc'[v] = "commit" /\ owner'[did'[v]] # None => appLock'[did'[v]] = v
  BY DEF Resetting
<1>1. CASE AddDevice
  BY <1>1 DEF AddDevice, Pending
<1>2. CASE UNCHANGED vars
  BY <1>0, <1>2 DEF vars, workerVars, tables, locks, Resetting
<1>3. ASSUME NEW w \in Workers, w # v, Continue(w) PROVE FALSE
  <2>1. pc[v] # "idle" /\ job[v] \in Cleaning /\ pc[w] # "idle"
    BY <1>3, ContinueMoves DEF Late, Cleaning
  <2>. QED
    BY <1>0, <1>3, <2>1 DEF Alone
<1>4. ASSUME NEW w \in Workers, NEW what \in Jobs, NEW u \in Users, Request(w, what, u)
      PROVE  FALSE
  <2>1. CASE v = w
    <3>1. FirstStep[what] \notin {"update"} \cup Late
      BY DEF FirstStep, Late
    <3>. QED
      BY <1>4, <2>1, <3>1, RequestMoves
  <2>2. CASE v # w
    <3>1. pc[v] # "idle" /\ job[v] \in Cleaning
      BY <1>4, <2>2, RequestMoves DEF Late, Cleaning
    <3>. QED
      BY <1>4, <3>1 DEF Calm, Request
  <2>. QED
    BY <2>1, <2>2
<1>5. CASE ReadDid(v)
  BY <1>0, <1>5 DEF ReadDid, Goto, tables
<1>6. CASE UpdateRow(v)
  BY <1>0, <1>6 DEF UpdateRow, Goto, tables, Resetting
<1>7. CASE WriteDevices(v)
  <2>1. /\ pc[v] = "devices" /\ pc'[v] = "owner" /\ job[v] = "reset" /\ UNCHANGED <<did, inv, devices>>
    BY <1>0, <1>7 DEF WriteDevices, Goto, tables
  <2>2. did[v] = inv.did
    BY <1>0, <2>1 DEF Resetting, Late
  <2>3. did[v] \in devices => devLock'[did[v]] = v
    BY <1>0, <1>7, <2>1, InventoryAssumptions DEF WriteDevices, InventoryAssumptions
  <2>. QED
    BY <2>1, <2>2, <2>3
<1>8. CASE DeleteOwner(v)
  <2>1. /\ pc[v] = "owner" /\ pc'[v] = "commit" /\ job[v] = "reset"
        /\ UNCHANGED <<did, inv, devices, owner, devLock>>
    BY <1>0, <1>8 DEF DeleteOwner, Goto, tables
  <2>2. did[v] = inv.did /\ (did[v] \in devices => devLock[did[v]] = v)
    BY <1>0, <2>1 DEF Resetting, Late
  <2>3. owner[did[v]] # None => appLock'[did[v]] = v
    <3>1. did[v] \in Dids /\ did[v] # None
      BY <1>0, <2>1, <2>2, InventoryAssumptions
         DEF Custody, ProvisionedHasRow, InventoryAssumptions
    <3>. QED
      BY <1>0, <1>8, <3>1 DEF DeleteOwner
  <2>. QED
    BY <2>1, <2>2, <2>3
<1>9. ASSUME Continue(v), ~ ReadDid(v), ~ UpdateRow(v), ~ WriteDevices(v), ~ DeleteOwner(v)
      PROVE  FALSE
  <2>1. pc'[v] = "update" => pc[v] = "begin" /\ job[v] # "reset" /\ job' = job
    BY <1>0, <1>9 DEF Continue, Transact, Own, BeginTx, UpdateNoRow, Exists, CommitReset,
       CommitClaim, Rollback, Answer, DeleteLook, DeleteRow, AdoptLook, AdoptLink, SignLook,
       SignCheck, SignFirst, SignAgain, Sign, ClaimRow, ClaimInsert, RemoveDevice, HandleReg, Fail,
       Goto, Finish
  <2>2. pc'[v] \notin Late
    BY <1>0, <1>9 DEF Continue, Transact, Own, BeginTx, UpdateNoRow, Exists, CommitReset,
       CommitClaim, Rollback, Answer, DeleteLook, DeleteRow, AdoptLook, AdoptLink, SignLook,
       SignCheck, SignFirst, SignAgain, Sign, ClaimRow, ClaimInsert, RemoveDevice, HandleReg, Fail,
       Goto, Finish, Late
  <2>. QED
    BY <2>1, <2>2
<1>. QED
  BY <1>1, <1>2, <1>3, <1>4, <1>5, <1>6, <1>7, <1>8, <1>9 DEF Next

\* Every step keeps the invariant of a calm setting.
LEMMA CleanInvStep == Typed /\ Custody /\ CleanInv /\ [Next]_vars => CleanInv'
<1>. SUFFICES ASSUME Typed, Custody, CleanInv, [Next]_vars, Calm' PROVE
              (Alone /\ CleanWhenPending /\ \A w \in Workers : Linking(w) /\ Resetting(w))'
  BY DEF CleanInv
<1>1. UNCHANGED setting
  <2>1. ASSUME NEW w \in Workers, Continue(w) PROVE UNCHANGED setting
    BY <2>1, ContinueMoves
  <2>2. ASSUME NEW w \in Workers, NEW what \in Jobs, NEW u \in Users, Request(w, what, u)
        PROVE  UNCHANGED setting
    BY <2>2 DEF Request
  <2>. QED
    BY <2>1, <2>2 DEF Next, AddDevice, vars
<1>2. Calm /\ Alone
  BY <1>1 DEF Calm, CleanInv
<1>. QED
  BY <1>2, AloneStep, CleanStep, LinkingStep, ResettingStep

\* updateDeviceStatus: "so the device is completely clean".  When resets and deletes run by
\* themselves, what is not provisioned has no owner and no devices row.
THEOREM ResetLeavesClean == Spec => []CleanWhenPending
<1>1. Init => CleanInv
  BY InventoryAssumptions
     DEF Init, CleanInv, Calm, Alone, CleanWhenPending, Linking, Resetting, InventoryAssumptions
<1>2. CleanInv => CleanWhenPending
  BY DEF CleanInv, Calm, CleanWhenPending
<1>. QED
  BY CustodyHolds, <1>1, <1>2, CleanInvStep, PTL DEF Spec
================================================================================
