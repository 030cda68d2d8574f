--------------------------- MODULE TenantKeysProofs ---------------------------
(***************************************************************************)
(* Proofs about TenantKeys, for any workers, processes, keys and settings. *)
(***************************************************************************)
EXTENDS TenantKeys, FiniteSetTheorems, TLAPS

Drawing == {"update", "insert", "commit"}
Holding == {"store", "use"}
Stored  == {k \in Keys : rows[k] # "absent"}

\* A worker that is past drawing or loading has its key.
GotOK == \A w \in Workers : pc[w] \in Drawing \cup Holding => got[w] \in Keys

Typed == TypeOK /\ GotOK

-----------------------------------------------------------------------------
(* Typing.                                                                 *)

\* Ages stay within the TTL.
LEMMA OlderTyped == \A age \in 0..TTL : Older(age) \in 0..TTL
BY KeyAssumptions DEF Older

\* Typing holds at the start.
LEMMA TypedInit == Init => Typed
<1>. SUFFICES ASSUME Init PROVE Typed
  OBVIOUS
<1>1. setting \in Setting
  BY KeyAssumptions DEF Init
<1>2. calls \in 0..setting.calls /\ ticks \in 0..setting.ticks
  <2>1. setting.calls \in Nat /\ setting.ticks \in Nat
    BY <1>1 DEF Setting
  <2>. QED
    BY <2>1 DEF Init
<1>3. since \in [Keys -> 0..TTL] /\ cache \in [Procs -> [key : Keys \cup {None}, age : 0..TTL]]
  BY KeyAssumptions DEF Init, NoEntry
<1>4. TypeOK
  BY <1>2, <1>3 DEF Init, TypeOK, Steps
<1>5. GotOK
  BY DEF Init, GotOK, Drawing, Holding
<1>. QED
  BY <1>4, <1>5 DEF Typed

\* A request that goes on keeps the types of its worker.
LEMMA GotoTyped ==
  ASSUME Typed, NEW w \in Workers, NEW step \in Steps, Goto(w, step),
         NEW k \in Keys \cup {None}, got' = [got EXCEPT ![w] = k],
         step \in Drawing \cup Holding => k \in Keys
  PROVE  /\ pc' \in [Workers -> Steps] /\ got' \in [Workers -> Keys \cup {None}]
         /\ GotOK'
  BY DEF Typed, TypeOK, GotOK, Goto

\* The same, when the key it has stays.
LEMMA StayTyped ==
  ASSUME Typed, NEW w \in Workers, NEW step \in Steps, Goto(w, step), UNCHANGED got,
         step \in Drawing \cup Holding => got[w] \in Keys
  PROVE  pc' \in [Workers -> Steps] /\ GotOK'
  BY DEF Typed, TypeOK, GotOK, Goto

\* A request that ends keeps them, too.
LEMMA FinishTyped ==
  ASSUME Typed, NEW w \in Workers, Finish(w)
  PROVE  /\ pc' \in [Workers -> Steps] /\ job' \in [Workers -> Jobs \cup {"none"}]
         /\ saw' \in [Workers -> Keys \cup {None}]
         /\ got' \in [Workers -> Keys \cup {None}] /\ GotOK'
  BY DEF Typed, TypeOK, GotOK, Finish, Drawing, Holding, Steps

\* A released lock is a lock of nobody.
LEMMA UnlockedTyped ==
  ASSUME TypeOK, NEW w \in Workers PROVE Unlocked(w) \in [Keys -> Workers \cup {None}]
  BY DEF TypeOK, Unlocked

\* ActiveKey keeps the types.
LEMMA LookupTyped ==
  ASSUME Typed, NEW w \in Workers, Look(w) \/ Load(w) \/ Store(w) PROVE Typed'
<1>0. TypeOK /\ GotOK
  BY DEF Typed
<1>1. ASSUME Look(w) PROVE Typed'
  <2>1. CASE UNCHANGED got
    BY <1>0, <1>1, <2>1, StayTyped
       DEF Look, Typed, TypeOK, Steps, Drawing, Holding, tableVars, history, Goto
  <2>2. CASE ~ UNCHANGED got
    <3>1. cache[proc[w]].key \in Keys
      BY <1>0, <1>1, <2>2 DEF Look, TypeOK
    <3>. QED
      BY <1>0, <1>1, <2>2, <3>1, GotoTyped
         DEF Look, Typed, TypeOK, Steps, Drawing, Holding, tableVars, history, Goto
  <2>. QED
    BY <2>1, <2>2
<1>2. ASSUME Load(w) PROVE Typed'
  <2>1. CASE UNCHANGED got
    <3>1. PICK step \in {"store", "begin", "failed"} :
            Goto(w, step) /\ (step = "store" => got[w] \in Keys)
      BY <1>0, <1>2, <2>1 DEF Load, Active, TypeOK
    <3>. QED
      BY <1>0, <1>2, <2>1, <3>1, StayTyped
         DEF Load, Typed, TypeOK, Steps, Drawing, Holding, tableVars, history, Goto
  <2>2. CASE ~ UNCHANGED got
    <3>1. PICK k \in Keys : got' = [got EXCEPT ![w] = k] /\ Goto(w, "store")
      BY <1>2, <2>2 DEF Load, Active
    <3>. QED
      BY <1>0, <1>2, <3>1, GotoTyped
         DEF Load, Typed, TypeOK, Steps, Drawing, Holding, tableVars, history, Goto
  <2>. QED
    BY <2>1, <2>2
<1>3. ASSUME Store(w) PROVE Typed'
  <2>1. got[w] \in Keys
    BY <1>0, <1>3 DEF Store, GotOK, Holding
  <2>2. cache' \in [Procs -> [key : Keys \cup {None}, age : 0..TTL]]
    BY <1>0, <1>3, <2>1, KeyAssumptions DEF Store, TypeOK
  <2>3. pc' \in [Workers -> Steps] /\ GotOK'
    BY <1>3, <2>1, StayTyped DEF Store, Steps
  <2>. QED
    BY <1>0, <1>3, <2>2, <2>3 DEF Store, Typed, TypeOK, tableVars, history, Goto
<1>. QED
  BY <1>1, <1>2, <1>3

\* Generate keeps the types.
LEMMA GenerateTyped ==
  ASSUME Typed, NEW w \in Workers,
         Begin(w) \/ Update(w) \/ Insert(w) \/ Commit(w) \/ Rollback(w)
  PROVE  Typed'
<1>0. TypeOK /\ GotOK /\ Unlocked(w) \in [Keys -> Workers \cup {None}]
  BY UnlockedTyped DEF Typed
<1>1. ASSUME Begin(w) PROVE Typed'
  <2>1. PICK k \in Keys : got' = [got EXCEPT ![w] = k] /\ Goto(w, "update")
    BY <1>1 DEF Begin
  <2>2. saw' \in [Workers -> Keys \cup {None}]
    BY <1>0, <1>1 DEF Begin, TypeOK, Active
  <2>. QED
    BY <1>0, <1>1, <2>1, <2>2, GotoTyped
       DEF Begin, Typed, TypeOK, Steps, Drawing, Holding, tableVars, history, Goto
<1>2. ASSUME Update(w) PROVE Typed'
  <2>1. lock' \in [Keys -> Workers \cup {None}]
    BY <1>0, <1>2 DEF Update, TypeOK
  <2>2. pc' \in [Workers -> Steps] /\ GotOK'
    BY <1>0, <1>2, StayTyped DEF Update, GotOK, Steps, Drawing, Holding
  <2>. QED
    BY <1>0, <1>2, <2>1, <2>2 DEF Update, Typed, TypeOK, history, Goto
<1>3. ASSUME Insert(w) PROVE Typed'
  <2>1. lock' \in [Keys -> Workers \cup {None}]
    BY <1>0, <1>3 DEF Insert, TypeOK
  <2>2. PICK step \in {"failed", "commit"} : Goto(w, step)
    BY <1>3 DEF Insert
  <2>3. pc' \in [Workers -> Steps] /\ GotOK'
    BY <1>0, <1>3, <2>2, StayTyped DEF Insert, GotOK, Steps, Drawing, Holding
  <2>. QED
    BY <1>0, <1>3, <2>1, <2>2, <2>3 DEF Insert, Typed, TypeOK, history, Goto
<1>4. ASSUME Commit(w) PROVE Typed'
  <2>1. pc' \in [Workers -> Steps] /\ GotOK'
    BY <1>0, <1>4, StayTyped DEF Commit, GotOK, Steps, Drawing, Holding
  <2>2. rows' \in [Keys -> {"absent", "active", "rotated"}]
    BY <1>0, <1>4 DEF Commit, TypeOK
  <2>. QED
    BY <1>0, <1>4, <2>1, <2>2 DEF Commit, Typed, TypeOK, history, Goto
<1>5. ASSUME Rollback(w) PROVE Typed'
  <2>1. pc' \in [Workers -> Steps] /\ GotOK'
    BY <1>5, StayTyped DEF Rollback, Steps, Drawing, Holding
  <2>. QED
    BY <1>0, <1>5, <2>1 DEF Rollback, Typed, TypeOK, history, Goto
<1>. QED
  BY <1>1, <1>2, <1>3, <1>4, <1>5

\* The beginning and the end of a request keep the types.
LEMMA RequestTyped ==
  ASSUME Typed, NEW w \in Workers,
         \/ Use(w) \/ Fail(w)
         \/ \E what \in Jobs, p \in Procs : Request(w, what, p)
  PROVE  Typed'
<1>0. TypeOK /\ GotOK
  BY DEF Typed
<1>1. ASSUME Use(w) PROVE Typed'
  <2>1. got[w] \in Keys
    BY <1>0, <1>1 DEF Use, GotOK, Holding
  <2>2. burned' \subseteq Keys \cup {Legacy} /\ signed' \subseteq Keys
    BY <1>0, <1>1, <2>1 DEF Use, TypeOK
  <2>. QED
    BY <1>0, <1>1, <2>2, FinishTyped DEF Use, Typed, TypeOK, tableVars, Finish
<1>2. ASSUME Fail(w) PROVE Typed'
  <2>1. burned' \subseteq Keys \cup {Legacy}
    BY <1>0, <1>2 DEF Fail, TypeOK
  <2>. QED
    BY <1>0, <1>2, <2>1, FinishTyped DEF Fail, Typed, TypeOK, tableVars, Finish
<1>3. ASSUME NEW what \in Jobs, NEW p \in Procs, Request(w, what, p) PROVE Typed'
  <2>1. calls' \in 0..setting.calls
    <3>1. setting.calls \in Nat
      BY <1>0, KeyAssumptions DEF TypeOK, Setting
    <3>. QED
      BY <1>0, <1>3, <3>1 DEF Request, TypeOK
  <2>2. /\ pc' \in [Workers -> Steps] /\ job' \in [Workers -> Jobs \cup {"none"}]
        /\ proc' \in [Workers -> Procs]
    BY <1>0, <1>3 DEF Request, TypeOK, Steps
  <2>3. GotOK'
    BY <1>0, <1>3 DEF Request, TypeOK, GotOK, Drawing, Holding
  <2>. QED
    BY <1>0, <1>3, <2>1, <2>2, <2>3 DEF Request, Typed, TypeOK, tableVars, history
<1>. QED
  BY <1>1, <1>2, <1>3

\* So do restarts and the passing of time.
LEMMA OutsideTyped == ASSUME Typed, Tick \/ \E p \in Procs : Restart(p) PROVE Typed'
<1>0. TypeOK /\ GotOK
  BY DEF Typed
<1>1. ASSUME Tick PROVE Typed'
  <2>1. ticks' \in 0..setting.ticks
    <3>1. setting.ticks \in Nat
      BY <1>0, KeyAssumptions DEF TypeOK, Setting
    <3>. QED
      BY <1>0, <1>1, <3>1 DEF Tick, TypeOK
  <2>2. since' \in [Keys -> 0..TTL]
    BY <1>0, <1>1, OlderTyped, KeyAssumptions DEF Tick, TypeOK
  <2>3. cache' \in [Procs -> [key : Keys \cup {None}, age : 0..TTL]]
    BY <1>0, <1>1, OlderTyped DEF Tick, TypeOK
  <2>. QED
    BY <1>0, <1>1, <2>1, <2>2, <2>3 DEF Tick, Typed, TypeOK, GotOK, workerVars, history
<1>2. ASSUME NEW p \in Procs, Restart(p) PROVE Typed'
  <2>1. cache' \in [Procs -> [key : Keys \cup {None}, age : 0..TTL]]
    BY <1>0, <1>2, KeyAssumptions DEF Restart, TypeOK, NoEntry
  <2>2. lock' \in [Keys -> Workers \cup {None}]
    BY <1>0, <1>2 DEF Restart, TypeOK
  <2>3. /\ pc' \in [Workers -> Steps] /\ job' \in [Workers -> Jobs \cup {"none"}]
        /\ saw' \in [Workers -> Keys \cup {None}] /\ got' \in [Workers -> Keys \cup {None}]
    BY <1>0, <1>2 DEF Restart, TypeOK, Steps
  <2>4. GotOK'
    BY <1>0, <1>2 DEF Restart, TypeOK, GotOK, Drawing, Holding
  <2>. QED
    BY <1>0, <1>2, <2>1, <2>2, <2>3, <2>4 DEF Restart, Typed, TypeOK, history
<1>. QED
  BY <1>1, <1>2

\* Every step keeps the types.
LEMMA TypedNext == Typed /\ [Next]_vars => Typed'
<1>. SUFFICES ASSUME Typed, [Next]_vars PROVE Typed'
  OBVIOUS
<1>1. CASE UNCHANGED vars
  BY <1>1 DEF vars, tableVars, workerVars, history, Typed, TypeOK, GotOK
<1>2. CASE Next
  BY <1>2, LookupTyped, GenerateTyped, RequestTyped, OutsideTyped DEF Next, Continue
<1>. QED
  BY <1>1, <1>2

\* Every variable of TenantKeys keeps its type.
THEOREM TypeCorrect == Spec => []TypeOK
<1>1. Typed => TypeOK
  BY DEF Typed
<1>. QED
  BY <1>1, TypedInit, TypedNext, PTL DEF Spec

-----------------------------------------------------------------------------
(* One active key.                                                         *)

\* A lock is on the active key, and held in the middle of Generate.
LocksHeld ==
  \A k \in Keys : lock[k] # None => rows[k] = "active" /\ pc[lock[k]] \in {"insert", "commit"}

\* A drawn key is nobody else's until it is committed.
DrawnNew ==
  \A w \in Workers : pc[w] \in Drawing =>
    /\ rows[got[w]] = "absent"
    /\ \A v \in Workers \ {w} : pc[v] \in Drawing => got[v] # got[w]

\* Whoever has passed the index is alone, and has deactivated what was active.
Alone ==
  \A w \in Workers : pc[w] = "commit" =>
    /\ \A k \in Active : lock[k] = w
    /\ \A v \in Workers \ {w} : pc[v] # "commit"

AtMostOne == \A j, k \in Active : j = k

SomeActive == Stored # {} => Active # {}

IndexInv == LocksHeld /\ DrawnNew /\ Alone /\ AtMostOne /\ SomeActive

\* A step that commits nothing keeps the rows.
LEMMA RowsStay ==
  ASSUME UNCHANGED rows PROVE UNCHANGED Active /\ UNCHANGED Stored
  BY DEF Active, Stored

\* One active key at the start.
LEMMA IndexInit == Init => IndexInv
<1>. SUFFICES ASSUME Init PROVE IndexInv
  OBVIOUS
<1>1. LocksHeld /\ DrawnNew /\ Alone
  BY DEF Init, LocksHeld, DrawnNew, Alone, Drawing
<1>2. AtMostOne /\ SomeActive
  BY DEF Init, AtMostOne, SomeActive, Active, Stored
<1>. QED
  BY <1>1, <1>2 DEF IndexInv

\* Drawing a key, waiting for a lock, waiting for the index.
LEMMA IndexGenerate ==
  ASSUME Typed, IndexInv, NEW w \in Workers, Begin(w) \/ Update(w) \/ Insert(w)
  PROVE  IndexInv'
<1>0. TypeOK /\ GotOK /\ LocksHeld /\ DrawnNew /\ Alone /\ AtMostOne /\ SomeActive
  BY DEF Typed, IndexInv
<1>1. AtMostOne' /\ SomeActive' /\ UNCHANGED Active
  BY <1>0, RowsStay DEF Begin, Update, Insert, AtMostOne, SomeActive, tableVars
<1>2. ASSUME Begin(w) PROVE LocksHeld' /\ DrawnNew' /\ Alone'
  <2>1. PICK k \in Keys : Fresh(k) /\ got' = [got EXCEPT ![w] = k]
    BY <1>2 DEF Begin
  <2>2. pc' = [pc EXCEPT ![w] = "update"] /\ UNCHANGED tableVars /\ pc[w] = "begin"
    BY <1>2 DEF Begin, Goto
  <2>3. LocksHeld'
    BY <1>0, <2>2 DEF LocksHeld, tableVars, TypeOK
  <2>4. DrawnNew'
    BY <1>0, <2>1, <2>2 DEF DrawnNew, tableVars, TypeOK, Fresh, Drawing
  <2>5. Alone'
    BY <1>0, <1>1, <2>2 DEF Alone, tableVars, TypeOK
  <2>. QED
    BY <2>3, <2>4, <2>5
<1>3. ASSUME Update(w) PROVE LocksHeld' /\ DrawnNew' /\ Alone'
  <2>2. pc' = [pc EXCEPT ![w] = "insert"] /\ UNCHANGED <<rows, got>> /\ pc[w] = "update"
    BY <1>3 DEF Update, Goto
  <2>1. \/ UNCHANGED lock
        \/ /\ saw[w] \in Keys /\ rows[saw[w]] = "active" /\ lock[saw[w]] = None
           /\ lock' = [lock EXCEPT ![saw[w]] = w]
    BY <1>0, <1>3 DEF Update, TypeOK
  <2>3. LocksHeld'
    BY <1>0, <2>1, <2>2 DEF LocksHeld, TypeOK
  <2>4. DrawnNew'
    BY <1>0, <2>2 DEF DrawnNew, TypeOK, Drawing
  <2>5. Alone'
    <3>1. SUFFICES ASSUME NEW v \in Workers, pc'[v] = "commit"
                   PROVE  /\ \A k \in Active : lock'[k] = v
                          /\ \A u \in Workers \ {v} : pc'[u] # "commit"
      BY <1>1 DEF Alone
    <3>2. pc[v] = "commit" /\ v # w
      BY <1>0, <2>2, <3>1 DEF TypeOK
    <3>3. \A k \in Active : k \in Keys /\ lock[k] = v /\ lock[k] # None
      BY <1>0, <3>2, KeyAssumptions DEF Alone, Active
    <3>4. UNCHANGED lock
      BY <2>1, <3>3 DEF Active
    <3>5. \A u \in Workers \ {v} : pc'[u] # "commit"
      BY <1>0, <2>2, <3>2 DEF Alone, TypeOK
    <3>. QED
      BY <3>3, <3>4, <3>5
  <2>. QED
    BY <2>3, <2>4, <2>5
<1>4. ASSUME Insert(w) PROVE LocksHeld' /\ DrawnNew' /\ Alone'
  <2>1. ~ Undecided(w) /\ UNCHANGED <<rows, got>> /\ pc[w] = "insert"
    BY <1>4 DEF Insert
  <2>2. CASE \E k \in Active : lock[k] = None
    <3>1. lock' = Unlocked(w) /\ pc' = [pc EXCEPT ![w] = "failed"]
      BY <1>4, <2>2 DEF Insert, Goto
    <3>2. LocksHeld'
      BY <1>0, <2>1, <3>1 DEF LocksHeld, TypeOK, Unlocked
    <3>3. DrawnNew'
      BY <1>0, <2>1, <3>1 DEF DrawnNew, TypeOK, Drawing
    <3>4. Alone'
      BY <1>0, <1>1, <2>1, <3>1 DEF Alone, TypeOK, Unlocked, Active
    <3>. QED
      BY <3>2, <3>3, <3>4
  <2>3. CASE ~ \E k \in Active : lock[k] = None
    <3>1. UNCHANGED lock /\ pc' = [pc EXCEPT ![w] = "commit"]
      BY <1>4, <2>3 DEF Insert, Goto
    <3>2. LocksHeld'
      BY <1>0, <2>1, <3>1 DEF LocksHeld, TypeOK
    <3>3. DrawnNew'
      BY <1>0, <2>1, <3>1 DEF DrawnNew, TypeOK, Drawing
    <3>4. Alone'
      BY <1>0, <1>1, <2>1, <2>3, <3>1 DEF Alone, TypeOK, Undecided, Active
    <3>. QED
      BY <3>2, <3>3, <3>4
  <2>. QED
    BY <2>2, <2>3
<1>. QED
  BY <1>1, <1>2, <1>3, <1>4 DEF IndexInv

\* A commit replaces the active key by the drawn one.
LEMMA CommitReplaces ==
  ASSUME Typed, IndexInv, NEW w \in Workers, Commit(w)
  PROVE  Active' = {got[w]} /\ got[w] \in Keys
<1>0. TypeOK /\ GotOK /\ LocksHeld /\ DrawnNew /\ Alone
  BY DEF Typed, IndexInv
<1>1. pc[w] = "commit" /\ got[w] \in Keys /\ rows[got[w]] = "absent"
  BY <1>0 DEF Commit, GotOK, DrawnNew, Drawing
<1>2. lock[got[w]] # w
  BY <1>0, <1>1, KeyAssumptions DEF LocksHeld
<1>3. \A k \in Keys : rows[k] = "active" => lock[k] = w
  BY <1>0, <1>1 DEF Alone, Active
<1>. QED
  BY <1>1, <1>2, <1>3 DEF Commit, Active

LEMMA IndexCommit ==
  ASSUME Typed, IndexInv, NEW w \in Workers, Commit(w) PROVE IndexInv'
<1>0. TypeOK /\ GotOK /\ LocksHeld /\ DrawnNew /\ Alone
  BY DEF Typed, IndexInv
<1>1. Active' = {got[w]} /\ got[w] \in Keys
  BY CommitReplaces
<1>2. pc[w] = "commit" /\ pc' = [pc EXCEPT ![w] = "store"] /\ UNCHANGED got
  BY DEF Commit, Goto
<1>3. \A k \in Keys : lock'[k] = None
  <2>1. SUFFICES ASSUME NEW k \in Keys, lock[k] # None PROVE lock[k] = w
    BY DEF Commit, Unlocked
  <2>. QED
    BY <1>0, <1>2, <2>1 DEF LocksHeld, Alone, Active
<1>4. LocksHeld'
  BY <1>3 DEF LocksHeld
<1>5. DrawnNew'
  <2>1. SUFFICES ASSUME NEW v \in Workers, pc'[v] \in Drawing
                 PROVE  /\ rows'[got[v]] = "absent"
                        /\ \A u \in Workers \ {v} : pc'[u] \in Drawing => got[u] # got[v]
    BY <1>2 DEF DrawnNew
  <2>2. v # w /\ pc[v] \in Drawing /\ pc[w] \in Drawing
    BY <1>0, <1>2, <2>1 DEF Drawing, TypeOK
  <2>3. got[v] \in Keys /\ rows[got[v]] = "absent" /\ got[v] # got[w]
    BY <1>0, <2>2 DEF DrawnNew, GotOK
  <2>4. lock[got[v]] # w
    BY <1>0, <2>3, KeyAssumptions DEF LocksHeld
  <2>5. rows'[got[v]] = "absent"
    BY <2>3, <2>4 DEF Commit
  <2>6. \A u \in Workers \ {v} : pc'[u] \in Drawing => got[u] # got[v]
    BY <1>0, <1>2, <2>2 DEF DrawnNew, TypeOK, Drawing
  <2>. QED
    BY <2>5, <2>6
<1>6. Alone'
  BY <1>0, <1>2 DEF Alone, TypeOK
<1>7. AtMostOne' /\ SomeActive'
  BY <1>1 DEF AtMostOne, SomeActive
<1>. QED
  BY <1>4, <1>5, <1>6, <1>7 DEF IndexInv

\* Giving up releases the locks and leaves the drawn key to nobody.
LEMMA IndexGiveUp ==
  ASSUME Typed, IndexInv, (\E w \in Workers : Rollback(w)) \/ \E p \in Procs : Restart(p)
  PROVE  IndexInv'
<1>0. TypeOK /\ GotOK /\ LocksHeld /\ DrawnNew /\ Alone /\ AtMostOne /\ SomeActive
  BY DEF Typed, IndexInv
<1>1. AtMostOne' /\ SomeActive' /\ UNCHANGED <<Active, rows>>
  BY <1>0, RowsStay DEF Rollback, Restart, AtMostOne, SomeActive
<1>2. ASSUME NEW w \in Workers, Rollback(w) PROVE LocksHeld' /\ DrawnNew' /\ Alone'
  <2>1. lock' = Unlocked(w) /\ pc' = [pc EXCEPT ![w] = "failed"] /\ UNCHANGED got
    BY <1>2 DEF Rollback, Goto
  <2>2. LocksHeld'
    BY <1>0, <1>1, <2>1 DEF LocksHeld, TypeOK, Unlocked
  <2>3. DrawnNew'
    BY <1>0, <1>1, <2>1 DEF DrawnNew, TypeOK, Drawing
  <2>4. Alone'
    BY <1>0, <1>1, <2>1 DEF Alone, TypeOK, Unlocked, Active
  <2>. QED
    BY <2>2, <2>3, <2>4
<1>3. ASSUME NEW p \in Procs, Restart(p) PROVE LocksHeld' /\ DrawnNew' /\ Alone'
  <2>. DEFINE gone == {w \in Workers : proc[w] = p}
  <2>1. /\ lock' = [k \in Keys |-> IF lock[k] \in gone THEN None ELSE lock[k]]
        /\ pc' = [w \in Workers |-> IF w \in gone THEN "idle" ELSE pc[w]]
        /\ got' = [w \in Workers |-> IF w \in gone THEN None ELSE got[w]]
    BY <1>3 DEF Restart
  <2>2. LocksHeld'
    BY <1>0, <1>1, <2>1 DEF LocksHeld, TypeOK
  <2>3. DrawnNew'
    BY <1>0, <1>1, <2>1 DEF DrawnNew, Drawing
  <2>4. Alone'
    <3>1. SUFFICES ASSUME NEW w \in Workers, pc'[w] = "commit"
                   PROVE  /\ \A k \in Active : lock'[k] = w
                          /\ \A v \in Workers \ {w} : pc'[v] # "commit"
      BY <1>1 DEF Alone
    <3>2. w \notin gone /\ pc[w] = "commit"
      BY <2>1, <3>1
    <3>. QED
      BY <1>0, <2>1, <3>2 DEF Alone, Active
  <2>. QED
    BY <2>2, <2>3, <2>4
<1>. QED
  BY <1>1, <1>2, <1>3 DEF IndexInv

\* The other steps take nobody into or out of Generate's transaction.
LEMMA IndexOther ==
  ASSUME Typed, IndexInv,
         \/ Tick
         \/ \E w \in Workers : \/ Look(w) \/ Load(w) \/ Store(w) \/ Use(w) \/ Fail(w)
                               \/ \E what \in Jobs, p \in Procs : Request(w, what, p)
  PROVE  IndexInv'
<1>0. TypeOK /\ GotOK /\ LocksHeld /\ DrawnNew /\ Alone /\ AtMostOne /\ SomeActive
  BY DEF Typed, IndexInv
<1>1. UNCHANGED <<rows, lock>> /\ UNCHANGED <<Active, Stored>>
  BY RowsStay DEF Tick, Look, Load, Store, Use, Fail, Request, tableVars
<1>2. \A w \in Workers :
        \/ pc'[w] = pc[w] /\ got'[w] = got[w]
        \/ pc[w] \notin Drawing /\ pc'[w] \notin Drawing
  BY <1>0 DEF Tick, Look, Load, Store, Use, Fail, Request, Goto, Finish, workerVars, TypeOK,
              Drawing
<1>3. LocksHeld'
  BY <1>0, <1>1, <1>2 DEF LocksHeld, TypeOK, Drawing
<1>4. DrawnNew'
  BY <1>0, <1>1, <1>2 DEF DrawnNew
<1>5. Alone'
  BY <1>0, <1>1, <1>2 DEF Alone, Drawing
<1>6. AtMostOne' /\ SomeActive'
  BY <1>0, <1>1 DEF AtMostOne, SomeActive
<1>. QED
  BY <1>3, <1>4, <1>5, <1>6 DEF IndexInv

\* Nothing at all happens.
LEMMA IndexStutter == ASSUME IndexInv, UNCHANGED vars PROVE IndexInv'
<1>1. UNCHANGED <<Active, Stored>> /\ UNCHANGED <<rows, lock, pc, got>>
  BY RowsStay DEF vars, tableVars, workerVars
<1>. QED
  BY <1>1 DEF IndexInv, LocksHeld, DrawnNew, Alone, AtMostOne, SomeActive

LEMMA IndexNext == Typed /\ IndexInv /\ [Next]_vars => IndexInv'
<1>. SUFFICES ASSUME Typed, IndexInv, [Next]_vars PROVE IndexInv'
  OBVIOUS
<1>1. CASE UNCHANGED vars
  BY <1>1, IndexStutter
<1>2. CASE Next
  <2>1. CASE Tick
    BY <2>1, IndexOther
  <2>2. CASE \E p \in Procs : Restart(p)
    BY <2>2, IndexGiveUp
  <2>3. ASSUME NEW w \in Workers,
               Continue(w) \/ \E what \in Jobs, p \in Procs : Request(w, what, p)
        PROVE  IndexInv'
    <3>1. CASE Begin(w) \/ Update(w) \/ Insert(w)
      BY <3>1, IndexGenerate
    <3>2. CASE Commit(w)
      BY <3>2, IndexCommit
    <3>3. CASE Rollback(w)
      BY <3>3, IndexGiveUp
    <3>4. CASE \/ Look(w) \/ Load(w) \/ Store(w) \/ Use(w) \/ Fail(w)
               \/ \E what \in Jobs, p \in Procs : Request(w, what, p)
      BY <3>4, IndexOther
    <3>. QED
      BY <2>3, <3>1, <3>2, <3>3, <3>4 DEF Continue
  <2>. QED
    BY <1>2, <2>1, <2>2, <2>3 DEF Next
<1>. QED
  BY <1>1, <1>2

\* Two Generates, a failing one or a restart never leave a tenant with two active
\* keys, or without one once it has had one.
THEOREM OneActiveKey == Spec => []OneActive
<1>1. Spec => [](Typed /\ IndexInv)
  BY TypedInit, TypedNext, IndexInit, IndexNext, PTL DEF Spec
<1>2. IndexInv => OneActive
  <2>. SUFFICES ASSUME IndexInv PROVE OneActive
    OBVIOUS
  <2>1. AtMostOne /\ SomeActive
    BY DEF IndexInv
  <2>2. Cardinality(Active) <= 1
    <3>1. CASE Active = {}
      BY <3>1, FS_EmptySet
    <3>2. CASE Active # {}
      <4>1. PICK k \in Active : Active = {k}
        BY <2>1, <3>2 DEF AtMostOne
      <4>. QED
        BY <4>1, FS_Singleton
    <3>. QED
      BY <3>1, <3>2
  <2>. QED
    BY <2>1, <2>2 DEF OneActive, SomeActive, Stored
<1>. QED
  BY <1>1, <1>2, PTL

-----------------------------------------------------------------------------
(* Keys in use have a row.                                                 *)

KeptStored ==
  /\ KeysAreStored
  /\ \A w \in Workers : pc[w] \in Holding => got[w] \in Stored

\* Rows change their state, they never go.
LEMMA StoredGrows ==
  ASSUME Typed, IndexInv, [Next]_vars PROVE Stored \subseteq Stored'
<1>1. ASSUME NEW w \in Workers, Commit(w) PROVE Stored \subseteq Stored'
  BY <1>1 DEF Commit, Stored
<1>2. ASSUME UNCHANGED rows PROVE Stored \subseteq Stored'
  BY <1>2 DEF Stored
<1>. QED
  BY <1>1, <1>2
     DEF Next, Continue, Tick, Restart, Request, Look, Load, Begin, Update, Insert, Rollback,
         Store, Use, Fail, tableVars, vars

LEMMA KeptNext == Typed /\ IndexInv /\ KeptStored /\ [Next]_vars => KeptStored'
<1>. SUFFICES ASSUME Typed, IndexInv, KeptStored, [Next]_vars PROVE KeptStored'
  OBVIOUS
<1>0. TypeOK /\ GotOK /\ KeysAreStored /\ Stored \subseteq Stored'
  BY StoredGrows DEF Typed, KeptStored
<1>1. \A w \in Workers : pc'[w] \in Holding => got'[w] \in Stored'
  <2>1. SUFFICES ASSUME NEW w \in Workers, pc'[w] \in Holding PROVE got'[w] \in Stored'
    OBVIOUS
  <2>2. CASE pc[w] \in Holding /\ got'[w] = got[w]
    BY <1>0, <2>2 DEF KeptStored
  <2>3. CASE Commit(w)
    <3>1. got'[w] = got[w] /\ Active' = {got[w]} /\ got[w] \in Keys
      BY <2>3, CommitReplaces DEF Commit
    <3>. QED
      BY <3>1 DEF Active, Stored
  <2>4. CASE Look(w) \/ Load(w)
    BY <1>0, <2>1, <2>4
       DEF Look, Load, Goto, TypeOK, Holding, KeysAreStored, Active, Stored, tableVars
  <2>5. \/ pc[w] \in Holding /\ got'[w] = got[w]
        \/ Commit(w) \/ Look(w) \/ Load(w)
    <3>1. CASE UNCHANGED vars
      BY <2>1, <3>1 DEF vars, workerVars
    <3>2. CASE Tick
      BY <2>1, <3>2 DEF Tick, workerVars
    <3>3. ASSUME NEW p \in Procs, Restart(p) PROVE pc[w] \in Holding /\ got'[w] = got[w]
      BY <1>0, <2>1, <3>3 DEF Restart, TypeOK, Holding
    <3>4. ASSUME NEW v \in Workers,
                 \/ Continue(v) /\ (v # w \/ ~ (Commit(v) \/ Look(v) \/ Load(v)))
                 \/ \E what \in Jobs, p \in Procs : Request(v, what, p)
          PROVE pc[w] \in Holding /\ got'[w] = got[w]
      BY <1>0, <2>1, <3>4
         DEF Continue, Request, Look, Load, Begin, Update, Insert, Commit, Rollback, Store, Use,
             Fail, Goto, Finish, TypeOK, Holding
    <3>. QED
      BY <3>1, <3>2, <3>3, <3>4 DEF Next
  <2>. QED
    BY <2>2, <2>3, <2>4, <2>5
<1>2. \A p \in Procs : cache'[p].key # None => cache'[p].key \in Stored'
  <2>1. SUFFICES ASSUME NEW p \in Procs, cache'[p].key # None PROVE cache'[p].key \in Stored'
    OBVIOUS
  <2>2. CASE cache'[p].key = cache[p].key
    BY <1>0, <2>1, <2>2 DEF KeysAreStored, Stored, TypeOK
  <2>3. CASE \E w \in Workers : Store(w) /\ cache'[p].key = got[w]
    BY <1>0, <2>3 DEF Store, KeptStored, Holding
  <2>4. cache'[p].key = cache[p].key \/ \E w \in Workers : Store(w) /\ cache'[p].key = got[w]
    <3>1. CASE Tick
      BY <1>0, <3>1 DEF Tick, TypeOK
    <3>2. ASSUME NEW q \in Procs, Restart(q) PROVE cache'[p].key = cache[p].key
      BY <1>0, <2>1, <3>2 DEF Restart, NoEntry, TypeOK
    <3>3. ASSUME NEW w \in Workers, Store(w)
          PROVE  cache'[p].key = cache[p].key \/ cache'[p].key = got[w]
      BY <1>0, <3>3 DEF Store, TypeOK
    <3>4. CASE UNCHANGED cache
      BY <3>4
    <3>5. \/ Tick \/ (\E q \in Procs : Restart(q)) \/ (\E w \in Workers : Store(w))
          \/ UNCHANGED cache
      BY DEF Next, Continue, Request, Look, Load, Begin, Update, Insert, Commit, Rollback, Use,
             Fail, vars
    <3>. QED
      BY <3>1, <3>2, <3>3, <3>4, <3>5
  <2>. QED
    BY <2>2, <2>3, <2>4
<1>3. \A k \in burned' \cup signed' : k # Legacy => k \in Stored'
  <2>1. \A k \in (burned' \cup signed') \ (burned \cup signed \cup {Legacy}) :
          \E w \in Workers : pc[w] \in Holding /\ k = got[w]
    BY DEF Next, Continue, Request, Look, Load, Begin, Update, Insert, Commit, Rollback, Store,
           Use, Fail, Tick, Restart, history, vars, Holding
  <2>2. \A k \in burned \cup signed : k # Legacy => k \in Stored
    BY <1>0 DEF KeysAreStored, Stored, TypeOK
  <2>. QED
    BY <1>0, <2>1, <2>2 DEF KeptStored
<1>. QED
  BY <1>1, <1>2, <1>3 DEF KeptStored, KeysAreStored, Stored

\* No process caches, burns or signs with a key that has no row.
THEOREM KeysAlwaysStored == Spec => []KeysAreStored
<1>1. Init => KeptStored
  BY DEF Init, KeptStored, KeysAreStored, NoEntry, Holding
<1>2. KeptStored => KeysAreStored
  BY DEF KeptStored
<1>. QED
  BY <1>1, <1>2, TypedInit, TypedNext, IndexInit, IndexNext, KeptNext, PTL DEF Spec

-----------------------------------------------------------------------------
(* TenantKeys implements SigningKey: a commit replaces the key, and the end  *)
(* of a request hands one out.                                              *)

\* The keys that devices and signatures have been made with, but for the configured one.
Out == (burned \cup signed) \ {Legacy}

\* What was rotated in the course of a commit is what was active before.
LEMMA CommitIsReplace ==
  ASSUME Typed, IndexInv, NEW w \in Workers, Commit(w)
  PROVE  Line!Replace(got[w]) /\ got[w] \in Keys
<1>0. TypeOK /\ LocksHeld /\ DrawnNew /\ Alone
  BY DEF Typed, IndexInv
<1>1. Active' = {got[w]} /\ got[w] \in Keys
  BY CommitReplaces
<1>2. pc[w] = "commit" /\ rows[got[w]] = "absent"
  BY <1>0 DEF Commit, DrawnNew, Drawing
<1>3. got[w] \notin Active \cup Rotated
  BY <1>2 DEF Active, Rotated
<1>4. ASSUME NEW k \in Keys
      PROVE  k \in Rotated' <=> k \in Rotated \cup Active
  <2>1. lock[k] = w <=> k \in Active
    BY <1>0, <1>2, KeyAssumptions DEF LocksHeld, Alone, Active
  <2>2. rows'[k] = IF lock[k] = w THEN "rotated" ELSE IF k = got[w] THEN "active" ELSE rows[k]
    BY DEF Commit
  <2>. QED
    BY <1>2, <2>1, <2>2 DEF Rotated, Active
<1>5. Rotated' = Rotated \cup Active
  BY <1>4 DEF Rotated, Active
<1>6. UNCHANGED Out
  BY DEF Commit, history, Out
<1>. QED
  BY <1>1, <1>3, <1>5, <1>6 DEF Line!Replace, Out

\* The key of a request that ends has been active, if it is not the configured one.
LEMMA UseIsHandOut ==
  ASSUME Typed, KeptStored, NEW w \in Workers, Use(w)
  PROVE  \/ got[w] \in Keys /\ Line!HandOut(got[w])
         \/ UNCHANGED <<Active, Rotated, Out>>
<1>1. pc[w] = "use" /\ UNCHANGED rows
  BY DEF Use, tableVars
<1>2. got[w] \in Keys /\ rows[got[w]] # "absent" /\ got[w] # Legacy
  BY <1>1, KeyAssumptions DEF Typed, GotOK, KeptStored, Holding, Stored
<1>3. got[w] \in Active \cup Rotated
  BY <1>2 DEF Typed, TypeOK, Active, Rotated
<1>4. UNCHANGED <<Active, Rotated>>
  BY <1>1 DEF Active, Rotated
<1>5. Out' = Out \cup {got[w]} \/ Out' = Out
  BY <1>2 DEF Use, Out
<1>. QED
  BY <1>2, <1>3, <1>4, <1>5 DEF Line!HandOut, Out

\* Every step replaces the active key, hands one out, or does neither.
LEMMA LineStep ==
  Typed /\ IndexInv /\ KeptStored /\ [Next]_vars => [Line!Next]_(Line!vars)
<1>. SUFFICES ASSUME Typed, IndexInv, KeptStored, [Next]_vars
              PROVE  (\E k \in Keys : Line!Replace(k) \/ Line!HandOut(k))
                       \/ UNCHANGED <<Active, Rotated, Out>>
  BY DEF Line!Next, Line!vars, Out
<1>1. ASSUME UNCHANGED rows, UNCHANGED history
      PROVE  UNCHANGED <<Active, Rotated, Out>>
  BY <1>1 DEF Active, Rotated, history, Out
<1>2. CASE UNCHANGED vars
  BY <1>1, <1>2 DEF vars, tableVars
<1>3. CASE Tick
  BY <1>1, <1>3 DEF Tick
<1>4. ASSUME NEW p \in Procs, Restart(p)
      PROVE  UNCHANGED <<Active, Rotated, Out>>
  BY <1>1, <1>4 DEF Restart
<1>5. ASSUME NEW w \in Workers, NEW what \in Jobs, NEW p \in Procs, Request(w, what, p)
      PROVE  UNCHANGED <<Active, Rotated, Out>>
  BY <1>1, <1>5 DEF Request, tableVars
<1>6. ASSUME NEW w \in Workers,
             \/ Look(w) \/ Load(w) \/ Begin(w) \/ Update(w) \/ Insert(w) \/ Rollback(w)
             \/ Store(w)
      PROVE  UNCHANGED <<Active, Rotated, Out>>
  BY <1>1, <1>6 DEF Look, Load, Begin, Update, Insert, Rollback, Store, tableVars
<1>7. ASSUME NEW w \in Workers, Fail(w)
      PROVE  UNCHANGED <<Active, Rotated, Out>>
  BY <1>7 DEF Fail, tableVars, Active, Rotated, Out
<1>8. ASSUME NEW w \in Workers, Continue(w)
      PROVE  (\E k \in Keys : Line!Replace(k) \/ Line!HandOut(k))
               \/ UNCHANGED <<Active, Rotated, Out>>
  BY <1>6, <1>7, <1>8, CommitIsReplace, UseIsHandOut DEF Continue
<1>. QED
  BY <1>2, <1>3, <1>4, <1>5, <1>8 DEF Next

\* The key service implements one line of keys: the active key changes in one step and for a
\* new key, no key comes back, and only keys that are or were active go out.
THEOREM ImplementsLine == Spec => KeyLine
<1>1. Init => Line!Init
  <2>. SUFFICES ASSUME Init
                PROVE  /\ Active = {} \/ \E k \in Keys : Active = {k}
                       /\ Rotated = {} /\ Out = {}
    BY DEF Line!Init, Out
  <2>1. Rotated = {} /\ Out = {}
    BY DEF Init, Rotated, Out
  <2>2. CASE setting.warm
    <3>1. PICK k \in Keys : rows = [j \in Keys |-> IF j = k THEN "active" ELSE "absent"]
      BY <2>2 DEF Init
    <3>2. Active = {k}
      BY <3>1 DEF Active
    <3>. QED
      BY <2>1, <3>2
  <2>3. CASE ~ setting.warm
    BY <2>1, <2>3 DEF Init, Active
  <2>. QED
    BY <2>2, <2>3
<1>2. Init => KeptStored
  BY DEF Init, KeptStored, KeysAreStored, NoEntry, Holding
<1>. QED
  BY <1>1, <1>2, LineStep, TypedInit, TypedNext, IndexInit, IndexNext, KeptNext, PTL
     DEF Spec, KeyLine, Line!Spec

-----------------------------------------------------------------------------
(* A tenant that has its key keeps it.                                     *)

Unrotated == setting.warm /\ "rotate" \notin setting.jobs

\* Nobody generates where a key is found and no admin asks for another.
Quiet ==
  Unrotated =>
    /\ \A w \in Workers : pc[w] \notin {"begin"} \cup Drawing
    /\ Active = Stored /\ Active # {}

LEMMA QuietInit == Init => Quiet
<1>. SUFFICES ASSUME Init, Unrotated PROVE Active = Stored /\ Active # {}
  BY DEF Init, Quiet, Drawing
<1>1. PICK k \in Keys : rows = [j \in Keys |-> IF j = k THEN "active" ELSE "absent"]
  BY DEF Init, Unrotated
<1>. QED
  BY <1>1 DEF Active, Stored

LEMMA QuietNext == Typed /\ Quiet /\ [Next]_vars => Quiet'
<1>. SUFFICES ASSUME Typed, Quiet, [Next]_vars, Unrotated' PROVE Quiet'
  BY DEF Quiet
<1>0. TypeOK /\ setting' = setting /\ Unrotated
  BY DEF Typed, Unrotated, Next, Continue, Tick, Restart, Request, Look, Load, Begin, Update,
         Insert, Commit, Rollback, Store, Use, Fail, vars
<1>1. /\ \A w \in Workers : pc[w] \notin {"begin"} \cup Drawing
      /\ Active = Stored /\ Active # {}
  BY <1>0 DEF Quiet
<1>2. CASE UNCHANGED vars
  BY <1>0, <1>1, <1>2, RowsStay DEF vars, tableVars, workerVars, Quiet
<1>3. CASE Tick
  BY <1>0, <1>1, <1>3, RowsStay DEF Tick, workerVars, Quiet
<1>4. ASSUME NEW p \in Procs, Restart(p) PROVE Quiet'
  <2>1. \A w \in Workers : pc'[w] \notin {"begin"} \cup Drawing
    BY <1>1, <1>4 DEF Restart, Drawing
  <2>. QED
    BY <1>1, <1>4, <2>1, RowsStay DEF Restart, Quiet
<1>5. ASSUME NEW w \in Workers, NEW what \in Jobs, NEW p \in Procs, Request(w, what, p)
      PROVE  Quiet'
  <2>1. what # "rotate"
    BY <1>0, <1>5 DEF Request, Unrotated
  <2>2. \A v \in Workers : pc'[v] \notin {"begin"} \cup Drawing
    BY <1>0, <1>1, <1>5, <2>1 DEF Request, Drawing, TypeOK
  <2>. QED
    BY <1>1, <1>5, <2>2, RowsStay DEF Request, tableVars, Quiet
<1>6. ASSUME NEW w \in Workers, Continue(w) PROVE Quiet'
  <2>1. pc[w] \notin {"begin"} \cup Drawing
    BY <1>1
  <2>2. UNCHANGED rows /\ \A v \in Workers : pc'[v] \notin {"begin"} \cup Drawing
    BY <1>0, <1>1, <1>6, <2>1
       DEF Continue, Look, Load, Begin, Update, Insert, Commit, Rollback, Store, Use, Fail,
           Goto, Finish, tableVars, TypeOK, Drawing
  <2>. QED
    BY <1>1, <2>2, RowsStay DEF Quiet
<1>. QED
  BY <1>2, <1>3, <1>4, <1>5, <1>6 DEF Next

\* Whatever fails, a tenant that has a key and an admin who leaves it alone goes on
\* with that key: it stays active, and is the only one that goes out.
THEOREM KeySurvives == Spec => []KeyOutlivesFailures
<1>1. TypeOK /\ Quiet /\ KeysAreStored => KeyOutlivesFailures
  BY DEF TypeOK, Quiet, Unrotated, KeysAreStored, KeyOutlivesFailures, Active, Stored
<1>. QED
  BY <1>1, TypeCorrect, KeysAlwaysStored, TypedInit, TypedNext, QuietInit, QuietNext, PTL
     DEF Spec

-----------------------------------------------------------------------------
(* A cached key is rotated for less than cacheTTL.                         *)

\* since counts from the rotation; a key in a cache has not been rotated before it
\* got there, and one that is about to be cached has not been rotated before now.
Recent ==
  /\ \A k \in Keys : rows[k] # "rotated" => since[k] = 0
  /\ setting.prompt =>
       /\ \A p \in Procs : cache[p].key # None => since[cache[p].key] <= cache[p].age
       /\ \A w \in Workers : pc[w] = "store" => since[got[w]] = 0
       /\ \A w \in Workers : pc[w] = "use" => since[got[w]] = 0 \/ since[got[w]] < TTL

\* Growing older keeps the order of ages.
LEMMA OlderMonotone ==
  \A i, j \in 0..TTL : i <= j => Older(i) <= Older(j)
BY KeyAssumptions DEF Older

LEMMA RecentInit == Init => Recent
BY DEF Init, Recent, NoEntry

LEMMA RecentTick == ASSUME Typed, Recent, Tick PROVE Recent'
<1>0. TypeOK /\ GotOK
  BY DEF Typed
<1>1. \A k \in Keys : rows'[k] # "rotated" => since'[k] = 0
  BY DEF Tick
<1>2. ASSUME setting.prompt, NEW p \in Procs, cache'[p].key # None
      PROVE  since'[cache'[p].key] <= cache'[p].age
  <2>. DEFINE k == cache[p].key
  <2>1. k \in Keys /\ cache'[p].key = k /\ cache'[p].age = Older(cache[p].age)
    BY <1>0, <1>2 DEF Tick, TypeOK
  <2>2. since[k] \in 0..TTL /\ cache[p].age \in 0..TTL /\ since[k] <= cache[p].age
    BY <1>0, <1>2, <2>1 DEF Recent, TypeOK
  <2>3. since'[k] = Older(since[k]) \/ since'[k] = 0
    BY <2>1 DEF Tick
  <2>4. Older(since[k]) <= Older(cache[p].age) /\ Older(cache[p].age) \in 0..TTL
    BY <2>2, OlderMonotone, OlderTyped
  <2>. QED
    BY <2>1, <2>3, <2>4, KeyAssumptions
<1>3. setting.prompt => \A w \in Workers : pc'[w] \notin Holding
  BY DEF Tick, workerVars, Holding
<1>4. setting' = setting
  BY DEF Tick
<1>. QED
  BY <1>1, <1>2, <1>3, <1>4 DEF Recent, Holding

\* A commit puts its own key where no rotation has been.
LEMMA RecentCommit ==
  ASSUME Typed, IndexInv, Recent, NEW w \in Workers, Commit(w) PROVE Recent'
<1>0. TypeOK /\ GotOK /\ DrawnNew
  BY DEF Typed, IndexInv
<1>1. UNCHANGED <<setting, since, cache, got>> /\ pc[w] = "commit"
      /\ pc' = [pc EXCEPT ![w] = "store"]
  BY DEF Commit, Goto
<1>2. got[w] \in Keys /\ since[got[w]] = 0
  BY <1>0, <1>1 DEF DrawnNew, Drawing, GotOK, Recent
<1>3. \A k \in Keys : rows'[k] # "rotated" => rows[k] # "rotated" \/ k = got[w]
  BY DEF Commit
<1>. QED
  BY <1>0, <1>1, <1>2, <1>3 DEF Recent, TypeOK

\* ActiveKey passes keys on while they are fresh.
LEMMA RecentLookup ==
  ASSUME Typed, Recent, NEW w \in Workers, Look(w) \/ Load(w) \/ Store(w) PROVE Recent'
<1>0. TypeOK /\ GotOK
  BY DEF Typed
<1>1. ASSUME Look(w) PROVE Recent'
  <2>1. UNCHANGED <<setting, rows, since, cache>>
    BY <1>1 DEF Look, tableVars
  <2>2. CASE UNCHANGED got /\ pc' = [pc EXCEPT ![w] = "load"]
    BY <1>0, <2>1, <2>2 DEF Recent, TypeOK
  <2>3. CASE /\ cache[proc[w]].key # None /\ cache[proc[w]].age < TTL
             /\ got' = [got EXCEPT ![w] = cache[proc[w]].key]
             /\ pc' = [pc EXCEPT ![w] = "use"]
    <3>. DEFINE k == cache[proc[w]].key
    <3>1. k \in Keys /\ cache[proc[w]].age \in 0..TTL /\ since[k] \in 0..TTL
      BY <1>0, <2>3 DEF TypeOK
    <3>2. setting.prompt => since[k] <= cache[proc[w]].age
      BY <1>0, <2>3 DEF Recent, TypeOK
    <3>3. setting.prompt => since[k] < TTL
      BY <2>3, <3>1, <3>2, KeyAssumptions
    <3>. QED
      BY <1>0, <2>1, <2>3, <3>3 DEF Recent, TypeOK
  <2>. QED
    BY <1>1, <2>2, <2>3 DEF Look, Goto
<1>2. ASSUME Load(w) PROVE Recent'
  <2>1. UNCHANGED <<setting, rows, since, cache>>
    BY <1>2 DEF Load, tableVars
  <2>2. \/ UNCHANGED got /\ pc' = [pc EXCEPT ![w] = "begin"]
        \/ UNCHANGED got /\ pc' = [pc EXCEPT ![w] = "failed"]
        \/ \E k \in Active : got' = [got EXCEPT ![w] = k] /\ pc' = [pc EXCEPT ![w] = "store"]
    BY <1>2 DEF Load, Goto
  <2>3. \A k \in Active : since[k] = 0
    BY DEF Recent, Active
  <2>. QED
    BY <1>0, <2>1, <2>2, <2>3 DEF Recent, TypeOK
<1>3. ASSUME Store(w) PROVE Recent'
  <2>1. UNCHANGED <<setting, rows, since, got>> /\ pc[w] = "store"
        /\ pc' = [pc EXCEPT ![w] = "use"] /\ got[w] \in Keys
        /\ cache' = [cache EXCEPT ![proc[w]] = [key |-> got[w], age |-> 0]]
    BY <1>0, <1>3 DEF Store, Goto, tableVars, GotOK, Holding
  <2>2. setting.prompt => since[got[w]] = 0
    BY <2>1 DEF Recent
  <2>. QED
    BY <1>0, <2>1, <2>2 DEF Recent, TypeOK
<1>. QED
  BY <1>1, <1>2, <1>3

\* The other steps bring no key to anybody.
LEMMA RecentNext == Typed /\ IndexInv /\ Recent /\ [Next]_vars => Recent'
<1>. SUFFICES ASSUME Typed, IndexInv, Recent, [Next]_vars PROVE Recent'
  OBVIOUS
<1>0. TypeOK
  BY DEF Typed
<1>1. CASE UNCHANGED vars
  BY <1>1 DEF vars, tableVars, workerVars, Recent
<1>2. CASE Tick
  BY <1>2, RecentTick
<1>3. ASSUME NEW p \in Procs, Restart(p) PROVE Recent'
  <2>1. UNCHANGED <<setting, rows, since>>
    BY <1>3 DEF Restart
  <2>2. \A q \in Procs : cache'[q] = cache[q] \/ cache'[q].key = None
    BY <1>0, <1>3 DEF Restart, NoEntry, TypeOK
  <2>3. \A w \in Workers : pc'[w] = "idle" \/ (pc'[w] = pc[w] /\ got'[w] = got[w])
    <3>. DEFINE gone == {w \in Workers : proc[w] = p}
    <3>1. /\ pc' = [w \in Workers |-> IF w \in gone THEN "idle" ELSE pc[w]]
          /\ got' = [w \in Workers |-> IF w \in gone THEN None ELSE got[w]]
      BY <1>3 DEF Restart
    <3>. QED
      BY <3>1
  <2>. QED
    BY <2>1, <2>2, <2>3 DEF Recent
<1>4. ASSUME NEW w \in Workers,
             \/ Begin(w) \/ Update(w) \/ Insert(w) \/ Rollback(w) \/ Use(w) \/ Fail(w)
             \/ \E what \in Jobs, p \in Procs : Request(w, what, p)
      PROVE  Recent'
  <2>1. UNCHANGED <<setting, rows, since, cache>>
    BY <1>4 DEF Begin, Update, Insert, Rollback, Use, Fail, Request, tableVars
  <2>2. \A v \in Workers : pc'[v] \notin Holding \/ (pc'[v] = pc[v] /\ got'[v] = got[v])
    BY <1>0, <1>4
       DEF Begin, Update, Insert, Rollback, Use, Fail, Request, Goto, Finish, TypeOK, Holding
  <2>. QED
    BY <2>1, <2>2 DEF Recent, Holding
<1>. QED
  BY <1>1, <1>2, <1>3, <1>4, RecentCommit, RecentLookup DEF Next, Continue

\* As long as nothing stalls between reading a key and caching it, a key is used
\* for less than cacheTTL after its rotation, wherever it was rotated.
THEOREM UsedKeysAreRecent == Spec => []UsedKeyIsRecent
<1>1. Recent => UsedKeyIsRecent
  BY KeyAssumptions DEF Recent, UsedKeyIsRecent
<1>. QED
  BY <1>1, TypedInit, TypedNext, IndexInit, IndexNext, RecentInit, RecentNext, PTL DEF Spec

================================================================================
