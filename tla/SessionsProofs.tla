----------------------------- MODULE SessionsProofs -----------------------------
(* Proofs about Sessions: types, the end of a family, single use of a token, *)
(* and the lock; and about Accounts: the same with registrations, and the    *)
(* guesses at a code.                                                        *)
EXTENDS Accounts, FiniteSetTheorems, TLAPS

\* The workers' own variables.
WorkersTyped ==
  /\ pc \in [Workers -> Steps]
  /\ tok \in [Workers -> Tokens \cup {None}]
  /\ seen \in [Workers -> 0..MaxFailures]
  /\ code \in [Workers -> 0..MaxCodes]

TokensTyped ==
  /\ family \in [Tokens -> Tokens \cup {None}]
  /\ used \subseteq Rows /\ revoked \subseteq Rows /\ sent \subseteq Rows
  /\ parent \in [Tokens -> Tokens \cup {None}]
  /\ loose \subseteq Tokens /\ closed \subseteq Tokens

CountsTyped ==
  /\ setting \in Settings
  /\ account \in BOOLEAN
  /\ failed \in 0..MaxFailures /\ locked \in BOOLEAN
  /\ wrong \in 0..MaxFailures /\ waited \in BOOLEAN /\ mixed \in BOOLEAN

CodesTyped == issued \in 0..MaxCodes /\ codes \subseteq 1..issued

\* The type invariant in parts, one for each group of variables.
LEMMA TypeParts == TypeOK <=> WorkersTyped /\ TokensTyped /\ CountsTyped /\ CodesTyped
BY DEF TypeOK, WorkersTyped, TokensTyped, CountsTyped, CodesTyped

\* What a request works on: a refresh has a row, and every family has the row it
\* is named after.
HaveRows ==
  /\ \A w \in At({"use", "replace", "close"}) : tok[w] \in Rows
  /\ \A t \in Rows : family[t] \in Rows

\* A capped count is a count.
LEMMA CappedTyped == \A n \in Nat : Capped(n) \in 0..MaxFailures
BY SessionAssumptions DEF Capped

\* A worker that finishes or goes on keeps its variables typed.
LEMMA WorkerMoves ==
  ASSUME WorkersTyped, NEW w \in Workers
  PROVE  /\ Finish(w) => WorkersTyped'
         /\ \A step \in Steps : Goto(w, step) => WorkersTyped'
<1>1. None \in Tokens \cup {None} /\ 0 \in 0..MaxFailures /\ 0 \in 0..MaxCodes /\ "idle" \in Steps
  BY SessionAssumptions DEF Steps
<1>2. Finish(w) => WorkersTyped'
  <2> SUFFICES ASSUME Finish(w) PROVE WorkersTyped'
    OBVIOUS
  <2> QED
    BY <1>1 DEF WorkersTyped, Finish
<1>3. \A step \in Steps : Goto(w, step) => WorkersTyped'
  BY DEF WorkersTyped, Goto
<1> QED
  BY <1>2, <1>3

\* Storing a token: the rows grow at most by it, and it belongs to its family.
LEMMA StoreEffect ==
  ASSUME TokensTyped, HaveRows, NEW w \in Workers, NEW t \in Tokens,
         NEW fam \in Tokens, NEW old \in Tokens \cup {None},
         StoreRefreshToken(w, t, fam, old), fam \in Rows \cup {t}
  PROVE  /\ TokensTyped' /\ Rows \subseteq Rows' /\ Rows' \subseteq Rows \cup {t}
         /\ \A u \in Rows : family'[u] = family[u]
         /\ \A u \in Rows' : family'[u] \in Rows'
         /\ t \in Rows' => family'[t] = fam /\ parent'[t] = old
         /\ \A u \in Tokens \ {t} : family'[u] = family[u] /\ parent'[u] = parent[u]
         /\ t \notin Rows' => parent' = parent /\ family' = family
<1> USE SessionAssumptions DEF TokensTyped, HaveRows, StoreRefreshToken, Rows
<1>1. CASE family' = family /\ parent' = parent /\ sent' = sent
  BY <1>1
<1>2. CASE /\ family' = [family EXCEPT ![t] = fam] /\ parent' = [parent EXCEPT ![t] = old]
           /\ sent' = sent \cup {t} \/ sent' = sent
  <2>1. family' \in [Tokens -> Tokens \cup {None}] /\ parent' \in [Tokens -> Tokens \cup {None}]
    BY <1>2
  <2>2. \A u \in Tokens \ {t} : family'[u] = family[u] /\ parent'[u] = parent[u]
    BY <1>2
  <2>3. family'[t] = fam /\ parent'[t] = old /\ fam # None
    BY <1>2
  <2>4. Rows' = Rows \cup {t}
    BY <2>2, <2>3
  <2> QED
    BY <1>2, <2>1, <2>2, <2>3, <2>4
<1> QED
  BY <1>1, <1>2

-----------------------------------------------------------------------------

\* Initially every variable has its type, no request is running and there is no row.
LEMMA InitTyped == Init => TypeOK /\ HaveRows
<1> SUFFICES ASSUME Init PROVE TypeOK /\ HaveRows
  OBVIOUS
<1> USE SessionAssumptions DEF Init
<1>1. WorkersTyped
  BY DEF WorkersTyped, Steps
<1>2. TokensTyped
  BY DEF TokensTyped, Rows
<1>3. CountsTyped /\ CodesTyped
  <2>1. 0 \in 0..MaxFailures /\ 0 \in 0..MaxCodes
    OBVIOUS
  <2>2. CountsTyped
    BY <2>1 DEF CountsTyped
  <2>3. CodesTyped
    BY <2>1 DEF CodesTyped
  <2> QED
    BY <2>2, <2>3
<1>4. HaveRows
  BY DEF HaveRows, Rows, At
<1> QED
  BY <1>1, <1>2, <1>3, <1>4, TypeParts

\* Revocation marks rows, and closes families that have rows.
LEMMA RevokeTyped ==
  ASSUME TokensTyped, NEW fams, fams \subseteq Rows, Revoke(fams), UNCHANGED family
  PROVE  revoked' \subseteq Rows /\ closed' \subseteq Tokens
BY SessionAssumptions DEF TokensTyped, Revoke, Rows

\* Types and rows are kept by every step.
LEMMA TypedNext == TypeOK /\ HaveRows /\ [Next]_vars => TypeOK' /\ HaveRows'
<1> SUFFICES ASSUME TypeOK, HaveRows, [Next]_vars PROVE TypeOK' /\ HaveRows'
  OBVIOUS
<1>0. WorkersTyped /\ TokensTyped /\ CountsTyped /\ CodesTyped
  BY TypeParts
<1>t. ASSUME WorkersTyped', TokensTyped', CountsTyped', CodesTyped' PROVE TypeOK'
  BY <1>t DEF TypeOK, WorkersTyped, TokensTyped, CountsTyped, CodesTyped
<1>s. {"idle", "count", "reset", "mint", "close", "use", "replace", "consume", "revoke",
       "delete"} = Steps
  BY DEF Steps
<1>m. MaxFailures \in Nat \ {0} /\ MaxCodes \in Nat /\ None \notin Tokens
  BY SessionAssumptions
<1>r. ASSUME UNCHANGED family,
             \A w \in Workers : pc'[w] \in {"use", "replace", "close"} =>
               tok'[w] \in Rows \/ (pc[w] \in {"use", "replace", "close"} /\ tok'[w] = tok[w])
      PROVE  HaveRows'
  BY <1>r DEF HaveRows, Rows, At
<1>k. ASSUME UNCHANGED <<tokenVars, spentVars, closed>> PROVE TokensTyped'
  BY <1>0, <1>k DEF TokensTyped, tokenVars, spentVars, Rows
<1>n. ASSUME UNCHANGED <<setting, account, lockVars, strikeVars>> PROVE CountsTyped'
  BY <1>0, <1>n DEF CountsTyped, lockVars, strikeVars
<1>c. ASSUME UNCHANGED codeVars PROVE CodesTyped'
  BY <1>0, <1>c DEF CodesTyped, codeVars
<1>f. ASSUME NEW w \in Workers, Finish(w) PROVE
        /\ WorkersTyped'
        /\ UNCHANGED family => HaveRows'
  <2>1. WorkersTyped'
    BY <1>0, <1>f, WorkerMoves
  <2>2. \A v \in Workers : pc'[v] \in {"use", "replace", "close"} =>
          pc[v] \in {"use", "replace", "close"} /\ tok'[v] = tok[v]
    BY <1>0, <1>f DEF WorkersTyped, Finish
  <2> QED
    BY <1>r, <2>1, <2>2
<1>g. ASSUME NEW w \in Workers, NEW step \in Steps, Goto(w, step),
             step \in {"use", "replace", "close"} => pc[w] \in {"use", "replace", "close"}
      PROVE  WorkersTyped' /\ (UNCHANGED family => HaveRows')
  <2>1. WorkersTyped'
    BY <1>0, <1>g, WorkerMoves
  <2>2. \A v \in Workers : pc'[v] \in {"use", "replace", "close"} =>
          pc[v] \in {"use", "replace", "close"} /\ tok'[v] = tok[v]
    BY <1>0, <1>g DEF WorkersTyped, Goto
  <2> QED
    BY <1>r, <2>1, <2>2
<1>1. ASSUME NEW w \in Workers, NEW t \in Tokens, Refresh(w, t) PROVE TypeOK' /\ HaveRows'
  <2>1. t \in Rows /\ pc[w] = "idle"
    BY <1>0, <1>1 DEF Refresh, Idle, TokensTyped
  <2>2. \A v \in Workers : v # w => pc'[v] = pc[v] /\ tok'[v] = tok[v]
    BY <1>0, <1>1 DEF Refresh, WorkersTyped
  <2>3. tok'[w] = t /\ UNCHANGED family
    BY <1>0, <1>1 DEF Refresh, WorkersTyped, tokenVars
  <2>4. WorkersTyped'
    BY <1>0, <1>1, <1>s DEF Refresh, WorkersTyped
  <2>5. TokensTyped'
    <3>1. loose' \subseteq Tokens
      BY <1>0, <1>1 DEF Refresh, TokensTyped
    <3> QED
      BY <1>0, <1>1, <3>1 DEF Refresh, TokensTyped, tokenVars, Rows
  <2>6. CountsTyped' /\ CodesTyped'
    BY <1>1, <1>n, <1>c DEF Refresh
  <2> QED
    BY <1>r, <2>1, <2>2, <2>3, <2>4, <2>5, <2>6, <1>t
<1>2. ASSUME NEW w \in Workers, CloseFamily(w) PROVE TypeOK' /\ HaveRows'
  <2>1. {family[tok[w]]} \subseteq Rows
    BY <1>0, <1>2 DEF CloseFamily, HaveRows, At
  <2>2. revoked' \subseteq Rows /\ closed' \subseteq Tokens
    <3>1. CASE Revoke({family[tok[w]]})
      BY <1>0, <1>2, <2>1, <3>1, RevokeTyped DEF CloseFamily
    <3> QED
      BY <1>0, <1>2, <3>1 DEF CloseFamily, TokensTyped
  <2>3. TokensTyped'
    BY <1>0, <1>2, <2>2 DEF CloseFamily, TokensTyped, spentVars, Rows
  <2> QED
    BY <1>2, <1>f, <1>n, <1>c, <2>3, <1>t DEF CloseFamily
<1>3. ASSUME NEW w \in Workers, MarkUsed(w) PROVE TypeOK' /\ HaveRows'
  <2>1. tok[w] \in Rows
    BY <1>3 DEF MarkUsed, HaveRows, At
  <2>2. TokensTyped'
    BY <1>0, <1>3, <2>1 DEF MarkUsed, TokensTyped, Rows
  <2> QED
    BY <1>3, <1>g, <1>n, <1>c, <1>s, <2>2, <1>t DEF MarkUsed
<1>4. ASSUME NEW w \in Workers, NEW t \in Tokens, NEW fam \in Tokens,
             NEW old \in Tokens \cup {None},
             StoreRefreshToken(w, t, fam, old), fam \in Rows \cup {t}
      PROVE  TypeOK' /\ HaveRows'
  <2>1. /\ TokensTyped' /\ Rows \subseteq Rows' /\ \A u \in Rows' : family'[u] \in Rows'
    BY <1>0, <1>4, StoreEffect
  <2>2. WorkersTyped' /\ CountsTyped' /\ CodesTyped'
    BY <1>4, <1>f, <1>n, <1>c DEF StoreRefreshToken
  <2>3. \A v \in Workers : pc'[v] \in {"use", "replace", "close"} =>
          pc[v] \in {"use", "replace", "close"} /\ tok'[v] = tok[v]
    BY <1>0, <1>4 DEF WorkersTyped, Finish, StoreRefreshToken
  <2>4. HaveRows'
    BY <2>1, <2>3 DEF HaveRows, At
  <2> QED
    BY <2>1, <2>2, <2>4, <1>t
<1>5. ASSUME NEW w \in Workers, Replace(w) PROVE TypeOK' /\ HaveRows'
  <2>1. tok[w] \in Rows /\ family[tok[w]] \in Rows /\ Rows \subseteq Tokens
    BY <1>5 DEF Replace, HaveRows, At, Rows
  <2> QED
    BY <1>4, <1>5, <2>1 DEF Replace
<1>6. ASSUME NEW w \in Workers, MintSession(w) PROVE TypeOK' /\ HaveRows'
  BY <1>4, <1>6 DEF MintSession
<1>7. ASSUME NEW w \in Workers, Login(w) PROVE TypeOK' /\ HaveRows'
  <2>1. WorkersTyped'
    BY <1>0, <1>7, <1>s DEF Login, WorkersTyped, CountsTyped
  <2>2. \A v \in Workers : pc'[v] \in {"use", "replace", "close"} =>
          pc[v] \in {"use", "replace", "close"} /\ tok'[v] = tok[v]
    BY <1>0, <1>7 DEF Login, WorkersTyped
  <2>3. CountsTyped'
    BY <1>0, <1>7 DEF Login, CountsTyped, lockVars
  <2> QED
    BY <1>7, <1>r, <1>k, <1>c, <2>1, <2>2, <2>3, <1>t DEF Login, tokenVars
<1>8. ASSUME NEW w \in Workers, CountFailure(w) PROVE TypeOK' /\ HaveRows'
  <2>1. Capped(seen[w] + 1) \in 0..MaxFailures /\ Capped(wrong + 1) \in 0..MaxFailures
    BY <1>0, <1>m, CappedTyped DEF WorkersTyped, CountsTyped
  <2>2. CountsTyped'
    BY <1>0, <1>8, <2>1 DEF CountFailure, CountsTyped, lockVars
  <2> QED
    BY <1>8, <1>f, <1>k, <1>c, <2>2, <1>t DEF CountFailure, tokenVars
<1>9. ASSUME NEW w \in Workers, ResetFailures(w) PROVE TypeOK' /\ HaveRows'
  <2>1. CountsTyped'
    <3>1. failed' \in {0, failed} /\ wrong' = 0 /\ waited' = FALSE
      BY <1>9 DEF ResetFailures, lockVars
    <3>2. locked' \in BOOLEAN /\ mixed' \in BOOLEAN
      BY <1>0, <1>9 DEF ResetFailures, lockVars, CountsTyped
    <3>3. failed' \in 0..MaxFailures /\ wrong' \in 0..MaxFailures
      BY <1>0, <1>m, <3>1 DEF CountsTyped
    <3> QED
      BY <1>0, <1>9, <3>1, <3>2, <3>3 DEF ResetFailures, CountsTyped
  <2> QED
    BY <1>9, <1>g, <1>k, <1>c, <1>s, <2>1, <1>t DEF ResetFailures, tokenVars
<1>10. ASSUME NEW w \in Workers, DeleteAccount(w) PROVE TypeOK' /\ HaveRows'
  <2>1. codes \subseteq 0..MaxCodes
    BY <1>0, <1>m DEF CodesTyped
  <2>2. WorkersTyped'
    BY <1>0, <1>10, <1>s, <2>1 DEF DeleteAccount, WorkersTyped
  <2>3. \A v \in Workers : pc'[v] \in {"use", "replace", "close"} =>
          pc[v] \in {"use", "replace", "close"} /\ tok'[v] = tok[v]
    BY <1>0, <1>10 DEF DeleteAccount, WorkersTyped
  <2> QED
    BY <1>10, <1>r, <1>k, <1>n, <1>c, <2>2, <2>3, <1>t DEF DeleteAccount, tokenVars
<1>11. ASSUME NEW w \in Workers, Consume(w) PROVE TypeOK' /\ HaveRows'
  <2>1. CodesTyped'
    BY <1>0, <1>11 DEF Consume, CodesTyped
  <2> QED
    BY <1>11, <1>g, <1>k, <1>n, <1>s, <2>1, <1>t DEF Consume, tokenVars
<1>12. ASSUME NEW w \in Workers, RevokeAll(w) PROVE TypeOK' /\ HaveRows'
  <2>1. {family[t] : t \in Rows} \subseteq Rows
    BY DEF HaveRows
  <2>2. revoked' \subseteq Rows /\ closed' \subseteq Tokens
    <3>1. CASE Revoke({family[t] : t \in Rows})
      BY <1>0, <1>12, <2>1, <3>1, RevokeTyped DEF RevokeAll
    <3> QED
      BY <1>0, <1>12, <3>1 DEF RevokeAll, TokensTyped
  <2>3. TokensTyped'
    BY <1>0, <1>12, <2>2 DEF RevokeAll, TokensTyped, spentVars, Rows
  <2> QED
    BY <1>12, <1>g, <1>n, <1>c, <1>s, <2>3, <1>t DEF RevokeAll
<1>13. ASSUME NEW w \in Workers, DeleteRow(w) PROVE TypeOK' /\ HaveRows'
  <2>1. CountsTyped'
    BY <1>0, <1>13 DEF DeleteRow, CountsTyped, lockVars, strikeVars
  <2> QED
    BY <1>13, <1>f, <1>k, <1>c, <2>1, <1>t DEF DeleteRow, tokenVars
<1>14. ASSUME NEW w \in Workers, Crash(w) PROVE TypeOK' /\ HaveRows'
  <2>1. CountsTyped'
    BY <1>0, <1>14 DEF Crash, CountsTyped, lockVars
  <2> QED
    BY <1>14, <1>f, <1>k, <1>c, <2>1, <1>t DEF Crash, tokenVars
<1>15. ASSUME NEW t \in Tokens, Logout(t) PROVE TypeOK' /\ HaveRows'
  <2>1. {family[t]} \subseteq Rows
    BY <1>0, <1>15 DEF Logout, HaveRows, TokensTyped
  <2>2. revoked' \subseteq Rows /\ closed' \subseteq Tokens
    BY <1>0, <1>15, <2>1, RevokeTyped DEF Logout
  <2>3. TokensTyped'
    BY <1>0, <1>15, <2>2 DEF Logout, TokensTyped, spentVars, Rows
  <2>4. WorkersTyped' /\ UNCHANGED <<pc, tok, family>>
    BY <1>0, <1>15 DEF Logout, WorkersTyped, workerVars
  <2> QED
    BY <1>15, <1>r, <1>n, <1>c, <2>3, <2>4, <1>t DEF Logout
<1>16. ASSUME Unlock \/ RequestDeleteOTP PROVE TypeOK' /\ HaveRows'
  <2>1. WorkersTyped' /\ UNCHANGED <<pc, tok, family>>
    BY <1>0, <1>16 DEF Unlock, RequestDeleteOTP, WorkersTyped, workerVars, tokenVars
  <2>2. CountsTyped'
    BY <1>0, <1>16 DEF Unlock, RequestDeleteOTP, CountsTyped, lockVars, strikeVars
  <2>3. CodesTyped'
    <3>1. CASE UNCHANGED codeVars
      BY <1>c, <3>1
    <3>2. CASE RequestDeleteOTP
      <4>1. issued \in Nat /\ issued < MaxCodes /\ issued' = issued + 1
        BY <1>0, <1>m, <3>2 DEF RequestDeleteOTP, CodesTyped
      <4>2. issued' \in 0..MaxCodes
        BY <1>m, <4>1
      <4>3. codes' \subseteq 1..issued'
        BY <1>0, <3>2, <4>1 DEF RequestDeleteOTP, CodesTyped
      <4> QED
        BY <4>2, <4>3 DEF CodesTyped
    <3> QED
      BY <1>16, <3>1, <3>2 DEF Unlock
  <2> QED
    BY <1>16, <1>r, <1>k, <2>1, <2>2, <2>3, <1>t DEF Unlock, RequestDeleteOTP
<1>17. CASE UNCHANGED vars
  BY <1>17 DEF vars, TypeOK, HaveRows, At, Rows, lockVars, tokenVars, codeVars, workerVars,
     spentVars, strikeVars
<1> QED
  BY <1>1, <1>2, <1>3, <1>5, <1>6, <1>7, <1>8, <1>9, <1>10, <1>11, <1>12, <1>13, <1>14, <1>15,
     <1>16, <1>17 DEF Next

\* Every variable of Sessions keeps its type.
THEOREM TypeCorrect == Spec => []TypeOK
<1>1. Spec => [](TypeOK /\ HaveRows)
  BY InitTyped, TypedNext, PTL DEF Spec
<1> QED
  BY <1>1, PTL

-----------------------------------------------------------------------------
(* The end of a family.                                                    *)

\* A closed family has a row, all its rows are revoked, and no refresh of it is
\* under way.
FamiliesEnd ==
  /\ closed \subseteq Rows
  /\ ClosedIsClosed
  /\ \A f \in closed : Quiet(f)

\* Revoking families of rows, as CloseFamily, RevokeAll and Logout do it.
LEMMA RevokeEnds ==
  ASSUME TypeOK, FamiliesEnd, NEW fams, fams \subseteq Rows, Revoke(fams), UNCHANGED family,
         \A w \in Workers : pc'[w] \in {"use", "replace"} =>
           pc[w] \in {"use", "replace"} /\ tok'[w] = tok[w]
  PROVE  FamiliesEnd'
<1>1. closed' \subseteq Rows /\ Rows' = Rows
  BY DEF FamiliesEnd, Revoke, Rows
<1>2. ClosedIsClosed'
  BY DEF FamiliesEnd, ClosedIsClosed, Revoke
<1>3. \A f \in closed' : Quiet(f)
  BY DEF FamiliesEnd, Revoke
<1>4. \A f \in closed' : Quiet(f)'
  BY <1>3 DEF Quiet, At
<1> QED
  BY <1>1, <1>2, <1>4 DEF FamiliesEnd

\* No step reopens a closed family.
LEMMA FamiliesEndNext == TypeOK /\ HaveRows /\ FamiliesEnd /\ [Next]_vars => FamiliesEnd'
<1> SUFFICES ASSUME TypeOK, HaveRows, FamiliesEnd, [Next]_vars PROVE FamiliesEnd'
  OBVIOUS
<1>0. WorkersTyped /\ TokensTyped
  BY TypeParts
<1>q. ASSUME UNCHANGED <<family, revoked, closed>>,
             \A w \in Workers : pc'[w] \in {"use", "replace"} =>
               pc[w] \in {"use", "replace"} /\ tok'[w] = tok[w]
      PROVE  FamiliesEnd'
  BY <1>q DEF FamiliesEnd, ClosedIsClosed, Quiet, At, Rows
<1>1. ASSUME NEW w \in Workers, NEW t \in Tokens, Refresh(w, t) PROVE FamiliesEnd'
  <2>1. t \in Rows /\ family[t] \notin closed
    BY <1>0, <1>1 DEF Refresh, TokensTyped, FamiliesEnd, ClosedIsClosed
  <2>2. tok'[w] = t /\ \A v \in Workers \ {w} : pc'[v] = pc[v] /\ tok'[v] = tok[v]
    BY <1>0, <1>1 DEF Refresh, WorkersTyped
  <2>3. UNCHANGED <<family, revoked, closed>>
    BY <1>1 DEF Refresh, tokenVars
  <2> QED
    BY <2>1, <2>2, <2>3 DEF FamiliesEnd, ClosedIsClosed, Quiet, At, Rows
<1>2. ASSUME NEW w \in Workers, CloseFamily(w) PROVE FamiliesEnd'
  <2>1. {family[tok[w]]} \subseteq Rows
    BY <1>2 DEF CloseFamily, HaveRows, At
  <2>2. \A v \in Workers : pc'[v] \in {"use", "replace"} =>
          pc[v] \in {"use", "replace"} /\ tok'[v] = tok[v]
    BY <1>0, <1>2 DEF CloseFamily, Finish, WorkersTyped
  <2>3. CASE Revoke({family[tok[w]]})
    BY <1>2, <2>1, <2>2, <2>3, RevokeEnds DEF CloseFamily
  <2> QED
    BY <1>2, <1>q, <2>2, <2>3 DEF CloseFamily
<1>3. ASSUME NEW w \in Workers, MarkUsed(w) PROVE FamiliesEnd'
  BY <1>0, <1>3, <1>q DEF MarkUsed, Goto, WorkersTyped
<1>4. ASSUME NEW w \in Workers, NEW t \in Tokens, NEW fam \in Tokens,
             NEW old \in Tokens \cup {None},
             StoreRefreshToken(w, t, fam, old), fam \in Rows \cup {t}, fam \notin closed
      PROVE  FamiliesEnd'
  <2>1. /\ Rows \subseteq Rows' /\ Rows' \subseteq Rows \cup {t}
        /\ \A u \in Tokens \ {t} : family'[u] = family[u]
        /\ t \in Rows' => family'[t] = fam
    BY <1>0, <1>4, StoreEffect
  <2>2. t \in Tokens \ Rows /\ UNCHANGED <<revoked, closed>>
    BY <1>4 DEF StoreRefreshToken
  <2>3. closed \subseteq Rows /\ None \notin Rows
    BY SessionAssumptions DEF FamiliesEnd, Rows
  <2>4. ClosedIsClosed'
    <3> SUFFICES ASSUME NEW u \in Tokens, family'[u] \in closed PROVE u \in revoked
      BY <2>2 DEF ClosedIsClosed
    <3>1. u # t
      BY <1>4, <2>1, <2>3, SessionAssumptions DEF Rows
    <3> QED
      BY <2>1, <3>1 DEF FamiliesEnd, ClosedIsClosed
  <2>5. \A v \in Workers : pc'[v] \in {"use", "replace"} =>
          /\ pc[v] \in {"use", "replace"} /\ tok'[v] = tok[v] /\ tok[v] # t
    BY <1>0, <1>4, <2>2 DEF WorkersTyped, Finish, StoreRefreshToken, HaveRows, At
  <2>6. \A v \in Workers : pc'[v] \in {"use", "replace"} => tok[v] \in Rows
    BY <2>5 DEF HaveRows, At
  <2>7. \A f \in closed : Quiet(f)'
    BY <2>1, <2>5, <2>6 DEF FamiliesEnd, Quiet, At, Rows
  <2> QED
    BY <2>1, <2>2, <2>3, <2>4, <2>7 DEF FamiliesEnd
<1>5. ASSUME NEW w \in Workers, Replace(w) PROVE FamiliesEnd'
  <2>1. tok[w] \in Rows /\ family[tok[w]] \in Rows /\ Rows \subseteq Tokens
    BY <1>5 DEF Replace, HaveRows, At, Rows
  <2>2. family[tok[w]] \notin closed
    BY <1>5 DEF Replace, FamiliesEnd, Quiet, At
  <2> QED
    BY <1>4, <1>5, <2>1, <2>2 DEF Replace
<1>6. ASSUME NEW w \in Workers, MintSession(w) PROVE FamiliesEnd'
  <2>1. PICK t \in Tokens : StoreRefreshToken(w, t, t, None)
    BY <1>6 DEF MintSession
  <2>2. t \notin closed
    BY <2>1 DEF StoreRefreshToken, FamiliesEnd
  <2> QED
    BY <1>4, <2>1, <2>2
<1>7. ASSUME NEW w \in Workers, Login(w) PROVE FamiliesEnd'
  BY <1>0, <1>7, <1>q DEF Login, WorkersTyped, tokenVars
<1>8. ASSUME NEW w \in Workers, CountFailure(w) PROVE FamiliesEnd'
  BY <1>0, <1>8, <1>q DEF CountFailure, Finish, WorkersTyped, tokenVars
<1>9. ASSUME NEW w \in Workers, ResetFailures(w) PROVE FamiliesEnd'
  BY <1>0, <1>9, <1>q DEF ResetFailures, Goto, WorkersTyped, tokenVars
<1>10. ASSUME NEW w \in Workers, DeleteAccount(w) \/ Consume(w) \/ DeleteRow(w) PROVE FamiliesEnd'
  BY <1>0, <1>10, <1>q DEF DeleteAccount, Consume, DeleteRow, Goto, Finish, WorkersTyped,
     tokenVars
<1>11. ASSUME NEW w \in Workers, RevokeAll(w) PROVE FamiliesEnd'
  <2>1. {family[t] : t \in Rows} \subseteq Rows
    BY DEF HaveRows
  <2>2. \A v \in Workers : pc'[v] \in {"use", "replace"} =>
          pc[v] \in {"use", "replace"} /\ tok'[v] = tok[v]
    BY <1>0, <1>11 DEF RevokeAll, Goto, WorkersTyped
  <2>3. CASE Revoke({family[t] : t \in Rows})
    BY <1>11, <2>1, <2>2, <2>3, RevokeEnds DEF RevokeAll
  <2> QED
    BY <1>11, <1>q, <2>2, <2>3 DEF RevokeAll
<1>12. ASSUME NEW w \in Workers, Crash(w) PROVE FamiliesEnd'
  BY <1>0, <1>12, <1>q DEF Crash, Finish, WorkersTyped, tokenVars
<1>13. ASSUME NEW t \in Tokens, Logout(t) PROVE FamiliesEnd'
  <2>1. {family[t]} \subseteq Rows
    BY <1>0, <1>13 DEF Logout, HaveRows, TokensTyped
  <2> QED
    BY <1>13, <2>1, RevokeEnds DEF Logout, workerVars
<1>14. ASSUME Unlock \/ RequestDeleteOTP \/ UNCHANGED vars PROVE FamiliesEnd'
  BY <1>14, <1>q DEF Unlock, RequestDeleteOTP, vars, tokenVars, workerVars
<1> QED
  BY <1>1, <1>2, <1>3, <1>5, <1>6, <1>7, <1>8, <1>9, <1>10, <1>11, <1>12, <1>13, <1>14 DEF Next

\* A session that was ended while none of its refreshes was under way stays ended.
THEOREM SessionsEnd == Spec => []ClosedIsClosed
<1>1. Init => FamiliesEnd
  BY SessionAssumptions DEF Init, FamiliesEnd, ClosedIsClosed
<1>2. Spec => [](TypeOK /\ HaveRows /\ FamiliesEnd)
  BY <1>1, InitTyped, TypedNext, FamiliesEndNext, PTL DEF Spec
<1>3. FamiliesEnd => ClosedIsClosed
  BY DEF FamiliesEnd
<1> QED
  BY <1>2, <1>3, PTL

-----------------------------------------------------------------------------
(* Single use of a refresh token.                                          *)

Spending(w) == pc[w] \in {"use", "replace"}

\* A token that has been replaced, or is about to be, is marked; a token that was
\* read once before its mark has one request at work on it, or one replacement.
Spent ==
  /\ \A t \in Tokens : parent[t] # None => t \in Rows /\ parent[t] \in used \cup loose
  /\ \A w \in Workers : pc[w] = "replace" => tok[w] \in used \cup loose
  /\ \A w, v \in Workers :
       Spending(w) /\ Spending(v) /\ tok[w] = tok[v] /\ tok[w] \notin loose => w = v
  /\ \A w \in Workers, t \in Tokens :
       Spending(w) /\ tok[w] \notin loose => parent[t] # tok[w]
  /\ SpentOnce

\* Steps that leave the rows' parents alone, start no refresh, and mark or excuse
\* tokens at most.
LEMMA SpentKept ==
  ASSUME TypeOK, HaveRows, Spent, UNCHANGED parent, Rows \subseteq Rows',
         used \subseteq used', loose \subseteq loose',
         \A w \in Workers : Spending(w)' => Spending(w) /\ tok'[w] = tok[w],
         \A w \in Workers : pc'[w] = "replace" =>
           pc[w] = "replace" \/ tok[w] \in used' \cup loose'
  PROVE  Spent'
<1>1. \A t \in Tokens : parent'[t] # None => t \in Rows' /\ parent'[t] \in used' \cup loose'
  BY DEF Spent
<1>2. \A w \in Workers : pc'[w] = "replace" => tok'[w] \in used' \cup loose'
  BY DEF Spent, Spending
<1>3. \A w, v \in Workers :
        Spending(w)' /\ Spending(v)' /\ tok'[w] = tok'[v] /\ tok'[w] \notin loose' => w = v
  BY DEF Spent
<1>4. \A w \in Workers, t \in Tokens :
        Spending(w)' /\ tok'[w] \notin loose' => parent'[t] # tok'[w]
  BY DEF Spent
<1>5. SpentOnce'
  BY DEF Spent, SpentOnce
<1> QED
  BY <1>1, <1>2, <1>3, <1>4, <1>5 DEF Spent

\* No step replaces a token twice.
LEMMA SpentNext == TypeOK /\ HaveRows /\ Spent /\ [Next]_vars => Spent'
<1> SUFFICES ASSUME TypeOK, HaveRows, Spent, [Next]_vars PROVE Spent'
  OBVIOUS
<1>0. WorkersTyped /\ TokensTyped
  BY TypeParts
<1>q. ASSUME UNCHANGED <<family, used, parent, loose>>,
             \A w \in Workers : Spending(w)' => Spending(w) /\ tok'[w] = tok[w] /\ pc'[w] = pc[w]
      PROVE  Spent'
  BY <1>q, SpentKept DEF Rows, Spending
<1>f. ASSUME NEW w \in Workers, Finish(w), UNCHANGED <<family, used, parent, loose>> PROVE Spent'
  BY <1>0, <1>f, <1>q DEF Finish, WorkersTyped, Spending
<1>g. ASSUME NEW w \in Workers, NEW step, Goto(w, step), step \notin {"use", "replace"},
             UNCHANGED <<family, used, parent, loose>>
      PROVE  Spent'
  BY <1>0, <1>g, <1>q DEF Goto, WorkersTyped, Spending
<1>1. ASSUME NEW w \in Workers, NEW t \in Tokens, Refresh(w, t) PROVE Spent'
  <2>1. /\ tok'[w] = t /\ pc[w] = "idle" /\ \A v \in Workers \ {w} : pc'[v] = pc[v] /\ tok'[v] = tok[v]
    BY <1>0, <1>1 DEF Refresh, WorkersTyped, Idle
  <2>2. UNCHANGED <<family, used, parent>> /\ loose \subseteq loose'
    BY <1>1 DEF Refresh, tokenVars
  <2>3. CASE pc' = [pc EXCEPT ![w] = "close"]
    BY <1>0, <2>1, <2>2, <2>3, SpentKept DEF Spending, WorkersTyped, Rows
  <2>4. CASE /\ t \notin used /\ pc' = [pc EXCEPT ![w] = "use"]
             /\ loose' = loose \cup {t : v \in {v \in At({"use"}) : tok[v] = t}}
    <3>1. pc'[w] = "use"
      BY <1>0, <2>4 DEF WorkersTyped
    <3>2. ASSUME NEW v \in Workers \ {w}, Spending(v), tok[v] = t PROVE t \in loose'
      <4>1. CASE pc[v] = "use"
        BY <2>4, <3>2, <4>1 DEF At
      <4>2. CASE pc[v] = "replace"
        BY <2>4, <3>2, <4>2 DEF Spent
      <4> QED
        BY <3>2, <4>1, <4>2 DEF Spending
    <3>3. \A u \in Tokens : t \notin loose' => parent[u] # t
      BY <2>2, <2>4, SessionAssumptions DEF Spent
    <3>4. \A u \in Tokens : parent'[u] # None => u \in Rows' /\ parent'[u] \in used' \cup loose'
      BY <2>2 DEF Spent, Rows
    <3>5. \A v \in Workers : pc'[v] = "replace" => tok'[v] \in used' \cup loose'
      BY <2>1, <2>2, <3>1 DEF Spent
    <3>6. \A x, v \in Workers :
            Spending(x)' /\ Spending(v)' /\ tok'[x] = tok'[v] /\ tok'[x] \notin loose' => x = v
      BY <2>1, <2>2, <3>1, <3>2 DEF Spent, Spending
    <3>7. \A v \in Workers, u \in Tokens :
            Spending(v)' /\ tok'[v] \notin loose' => parent'[u] # tok'[v]
      BY <2>1, <2>2, <3>1, <3>3 DEF Spent, Spending
    <3>8. SpentOnce'
      BY <2>2 DEF Spent, SpentOnce
    <3> QED
      BY <3>4, <3>5, <3>6, <3>7, <3>8 DEF Spent
  <2> QED
    BY <1>1, <2>3, <2>4 DEF Refresh
<1>2. ASSUME NEW w \in Workers, CloseFamily(w) PROVE Spent'
  BY <1>2, <1>f DEF CloseFamily, spentVars
<1>3. ASSUME NEW w \in Workers, MarkUsed(w) PROVE Spent'
  <2>1. tok[w] \in used' \cup loose' /\ used \subseteq used' /\ loose \subseteq loose'
    BY <1>3 DEF MarkUsed
  <2>2. \A v \in Workers : Spending(v)' => Spending(v) /\ tok'[v] = tok[v]
    BY <1>0, <1>3 DEF MarkUsed, Goto, WorkersTyped, Spending
  <2>3. \A v \in Workers \ {w} : pc'[v] = pc[v]
    BY <1>0, <1>3 DEF MarkUsed, Goto, WorkersTyped
  <2>4. UNCHANGED <<family, parent>>
    BY <1>3 DEF MarkUsed
  <2> QED
    BY <2>1, <2>2, <2>3, <2>4, SpentKept DEF Rows
<1>4. ASSUME NEW w \in Workers, NEW t \in Tokens, NEW fam \in Tokens,
             NEW old \in Tokens \cup {None},
             StoreRefreshToken(w, t, fam, old), fam \in Rows \cup {t},
             old = None \/ (pc[w] = "replace" /\ tok[w] = old)
      PROVE  Spent'
  <2>1. /\ Rows \subseteq Rows'
        /\ t \in Rows' => parent'[t] = old
        /\ \A u \in Tokens \ {t} : parent'[u] = parent[u]
        /\ t \notin Rows' => parent' = parent
    BY <1>0, <1>4, StoreEffect
  <2>2. t \in Tokens \ Rows /\ UNCHANGED <<used, loose>>
    BY <1>4 DEF StoreRefreshToken
  <2>3. \A v \in Workers : Spending(v)' => Spending(v) /\ tok'[v] = tok[v] /\ pc'[v] = pc[v] /\ v # w
    BY <1>0, <1>4 DEF StoreRefreshToken, Finish, WorkersTyped, Spending
  <2>4. CASE t \notin Rows'
    <3>1. \A v \in Workers : pc'[v] = "replace" => pc[v] = "replace"
      BY <2>3 DEF Spending
    <3> QED
      BY <2>1, <2>2, <2>3, <2>4, <3>1, SpentKept
  <2>5. CASE t \in Rows'
    <3>1. old # None => Spending(w) /\ tok[w] = old /\ old \in used \cup loose
      BY <1>4 DEF Spending, Spent
    <3>2. \A u \in Tokens : parent'[u] # None => u \in Rows' /\ parent'[u] \in used' \cup loose'
      BY <2>1, <2>2, <2>5, <3>1 DEF Spent
    <3>3. \A v \in Workers : pc'[v] = "replace" => tok'[v] \in used' \cup loose'
      BY <2>2, <2>3 DEF Spent, Spending
    <3>4. \A x, v \in Workers :
            Spending(x)' /\ Spending(v)' /\ tok'[x] = tok'[v] /\ tok'[x] \notin loose' => x = v
      BY <2>2, <2>3 DEF Spent
    <3>5. \A v \in Workers, u \in Tokens :
            Spending(v)' /\ tok'[v] \notin loose' => parent'[u] # tok'[v]
      <4> SUFFICES ASSUME NEW v \in Workers, NEW u \in Tokens, Spending(v)', tok'[v] \notin loose'
                   PROVE  parent'[u] # tok'[v]
        OBVIOUS
      <4>1. CASE u # t
        BY <2>1, <2>2, <2>3, <4>1 DEF Spent
      <4>2. CASE u = t
        <5>1. tok[v] # None
          BY <2>3, SessionAssumptions DEF HaveRows, At, Rows, Spending
        <5>2. CASE old = None
          BY <2>1, <2>3, <2>5, <4>2, <5>1, <5>2
        <5>3. CASE old # None
          BY <2>1, <2>2, <2>3, <2>5, <3>1, <4>2, <5>3 DEF Spent
        <5> QED
          BY <5>2, <5>3
      <4> QED
        BY <4>1, <4>2
    <3>6. SpentOnce'
      <4> SUFFICES ASSUME NEW x \in Tokens, NEW u \in Tokens, parent'[x] = parent'[u],
                          parent'[x] \notin loose \cup {None}
                   PROVE  x = u
        BY <2>2 DEF SpentOnce
      <4>1. CASE x # t /\ u # t
        BY <2>1, <4>1 DEF Spent, SpentOnce
      <4>2. CASE x = t /\ u # t
        BY <2>1, <2>5, <3>1, <4>2 DEF Spent
      <4>3. CASE x # t /\ u = t
        BY <2>1, <2>5, <3>1, <4>3 DEF Spent
      <4> QED
        BY <4>1, <4>2, <4>3
    <3> QED
      BY <3>2, <3>3, <3>4, <3>5, <3>6 DEF Spent
  <2> QED
    BY <2>4, <2>5
<1>5. ASSUME NEW w \in Workers, Replace(w) PROVE Spent'
  <2>1. tok[w] \in Rows /\ family[tok[w]] \in Rows /\ Rows \subseteq Tokens
    BY <1>5 DEF Replace, HaveRows, At, Rows
  <2> QED
    BY <1>4, <1>5, <2>1 DEF Replace
<1>6. ASSUME NEW w \in Workers, MintSession(w) PROVE Spent'
  BY <1>4, <1>6 DEF MintSession
<1>7. ASSUME NEW w \in Workers, Login(w) PROVE Spent'
  BY <1>0, <1>7, <1>q DEF Login, WorkersTyped, Spending, tokenVars, spentVars
<1>8. ASSUME NEW w \in Workers, CountFailure(w) \/ DeleteRow(w) \/ Crash(w) PROVE Spent'
  BY <1>8, <1>f DEF CountFailure, DeleteRow, Crash, tokenVars, spentVars
<1>9. ASSUME NEW w \in Workers, ResetFailures(w) \/ Consume(w) \/ RevokeAll(w) PROVE Spent'
  BY <1>9, <1>g DEF ResetFailures, Consume, RevokeAll, tokenVars, spentVars
<1>10. ASSUME NEW w \in Workers, DeleteAccount(w) PROVE Spent'
  BY <1>0, <1>10, <1>q DEF DeleteAccount, WorkersTyped, Spending, tokenVars, spentVars
<1>11. ASSUME (\E t \in Tokens : Logout(t)) \/ Unlock \/ RequestDeleteOTP \/ UNCHANGED vars
       PROVE  Spent'
  BY <1>11, <1>q DEF Logout, Unlock, RequestDeleteOTP, vars, tokenVars, spentVars, workerVars,
     Spending
<1> QED
  BY <1>1, <1>2, <1>3, <1>5, <1>6, <1>7, <1>8, <1>9, <1>10, <1>11 DEF Next

\* A token is replaced once, unless it was read twice before its mark or not marked.
THEOREM TokensSpentOnce == Spec => []SpentOnce
<1>1. Init => Spent
  BY SessionAssumptions DEF Init, Spent, SpentOnce, Spending
<1>2. Spec => [](TypeOK /\ HaveRows /\ Spent)
  BY <1>1, InitTyped, TypedNext, SpentNext, PTL DEF Spec
<1>3. Spent => SpentOnce
  BY DEF Spent
<1> QED
  BY <1>2, <1>3, PTL

-----------------------------------------------------------------------------
(* The lock.                                                               *)

LoggingIn(w) == pc[w] \in {"count", "reset"}

\* As long as logins come one at a time, the row counts the wrong passwords, and
\* the one login at work has read what is there.
Counted ==
  account /\ ~ mixed =>
    /\ failed = wrong
    /\ wrong = MaxFailures /\ ~ waited => locked
    /\ \A w \in Workers : LoggingIn(w) => seen[w] = failed /\ ~ locked
    /\ \A w, v \in Workers : LoggingIn(w) /\ LoggingIn(v) => w = v

\* No step loses a wrong password.
LEMMA CountedNext == TypeOK /\ Counted /\ [Next]_vars => Counted'
<1> SUFFICES ASSUME TypeOK, Counted, [Next]_vars PROVE Counted'
  OBVIOUS
<1>0. WorkersTyped /\ CountsTyped
  BY TypeParts
<1>m. MaxFailures \in Nat \ {0}
  BY SessionAssumptions
<1>q. ASSUME UNCHANGED <<lockVars, strikeVars>>, account' => account,
             \A w \in Workers : LoggingIn(w)' => LoggingIn(w) /\ seen'[w] = seen[w]
      PROVE  Counted'
  BY <1>q DEF Counted, lockVars, strikeVars
<1>f. ASSUME NEW w \in Workers, Finish(w), UNCHANGED <<lockVars, strikeVars>>, account' => account
      PROVE  Counted'
  BY <1>0, <1>f, <1>q DEF Finish, WorkersTyped, LoggingIn
<1>g. ASSUME NEW w \in Workers, NEW step, Goto(w, step), step \notin {"count", "reset"},
             UNCHANGED <<account, lockVars, strikeVars>>
      PROVE  Counted'
  BY <1>0, <1>g, <1>q DEF Goto, WorkersTyped, LoggingIn
<1>1. ASSUME NEW w \in Workers, NEW t \in Tokens, Refresh(w, t) PROVE Counted'
  BY <1>0, <1>1, <1>q DEF Refresh, WorkersTyped, LoggingIn
<1>2. ASSUME NEW w \in Workers, Login(w) PROVE Counted'
  <2> SUFFICES ASSUME account', ~ mixed' PROVE Counted'
    BY DEF Counted
  <2>1. account /\ ~ mixed /\ ~ locked /\ At({"count", "reset"}) = {}
    BY <1>0, <1>2 DEF Login, CountsTyped
  <2>2. UNCHANGED <<failed, locked, wrong, waited>>
    BY <1>2 DEF Login, lockVars
  <2>3. \A v \in Workers : LoggingIn(v)' => v = w
    BY <1>0, <1>2, <2>1 DEF Login, WorkersTyped, LoggingIn, At
  <2>4. seen'[w] = failed
    BY <1>0, <1>2 DEF Login, WorkersTyped
  <2> QED
    BY <2>1, <2>2, <2>3, <2>4 DEF Counted
<1>3. ASSUME NEW w \in Workers, CountFailure(w) PROVE Counted'
  <2> SUFFICES ASSUME account', ~ mixed' PROVE Counted'
    BY DEF Counted
  <2>1. account /\ ~ mixed /\ pc[w] = "count"
    BY <1>3 DEF CountFailure
  <2>2. /\ failed' = Capped(seen[w] + 1) /\ locked' = (locked \/ seen[w] + 1 >= MaxFailures)
        /\ wrong' = Capped(wrong + 1) /\ waited' = FALSE
    BY <1>3, <2>1 DEF CountFailure
  <2>3. seen[w] = failed /\ failed = wrong /\ \A v \in Workers : LoggingIn(v) => v = w
    BY <2>1 DEF Counted, LoggingIn
  <2>4. \A v \in Workers : ~ LoggingIn(v)'
    BY <1>0, <1>3, <2>3 DEF CountFailure, Finish, WorkersTyped, LoggingIn
  <2>5. wrong' = MaxFailures => wrong + 1 >= MaxFailures
    BY <1>0, <1>m, <2>2 DEF Capped, CountsTyped
  <2> QED
    BY <2>2, <2>3, <2>4, <2>5 DEF Counted
<1>4. ASSUME NEW w \in Workers, ResetFailures(w) PROVE Counted'
  <2> SUFFICES ASSUME account', ~ mixed' PROVE Counted'
    BY DEF Counted
  <2>1. /\ account /\ failed' = 0 /\ wrong' = 0 /\ waited' = FALSE
        /\ At({"count", "reset"}) = {w}
    BY <1>4 DEF ResetFailures
  <2>2. \A v \in Workers : ~ LoggingIn(v)'
    BY <1>0, <1>4, <2>1 DEF ResetFailures, Goto, WorkersTyped, LoggingIn, At
  <2> QED
    BY <1>m, <2>1, <2>2 DEF Counted
<1>5. ASSUME Unlock PROVE Counted'
  BY <1>5 DEF Unlock, Counted, workerVars, LoggingIn
<1>6. ASSUME NEW w \in Workers, Crash(w) PROVE Counted'
  <2>1. \A v \in Workers : LoggingIn(v)' => LoggingIn(v) /\ seen'[v] = seen[v]
    BY <1>0, <1>6 DEF Crash, Finish, WorkersTyped, LoggingIn
  <2>2. mixed => mixed'
    BY <1>0, <1>6 DEF Crash, CountsTyped
  <2> QED
    BY <1>6, <2>1, <2>2 DEF Crash, Counted, lockVars
<1>7. ASSUME NEW w \in Workers, CloseFamily(w) \/ DeleteRow(w) PROVE Counted'
  BY <1>0, <1>7, <1>f DEF CloseFamily, DeleteRow, lockVars, strikeVars, CountsTyped
<1>8. ASSUME NEW w \in Workers, Replace(w) \/ MintSession(w) PROVE Counted'
  BY <1>8, <1>f DEF Replace, MintSession, StoreRefreshToken
<1>9. ASSUME NEW w \in Workers, MarkUsed(w) \/ Consume(w) \/ RevokeAll(w) PROVE Counted'
  BY <1>9, <1>g DEF MarkUsed, Consume, RevokeAll
<1>10. ASSUME NEW w \in Workers, DeleteAccount(w) PROVE Counted'
  BY <1>0, <1>10, <1>q DEF DeleteAccount, WorkersTyped, LoggingIn
<1>11. ASSUME (\E t \in Tokens : Logout(t)) \/ RequestDeleteOTP \/ UNCHANGED vars PROVE Counted'
  <2>1. UNCHANGED <<account, lockVars, strikeVars, workerVars>>
    BY <1>11 DEF Logout, RequestDeleteOTP, vars
  <2> QED
    BY <1>q, <2>1 DEF workerVars, LoggingIn
<1> QED
  BY <1>1, <1>2, <1>3, <1>4, <1>5, <1>6, <1>7, <1>8, <1>9, <1>10, <1>11 DEF Next

\* The last allowed wrong password locks the account.
THEOREM AccountLocks == Spec => []StrikesLock
<1>1. Init => Counted
  BY SessionAssumptions DEF Init, Counted, LoggingIn
<1>2. Spec => [](TypeOK /\ Counted)
  BY <1>1, InitTyped, TypedNext, CountedNext, TypeCorrect, PTL DEF Spec
<1>3. Counted => StrikesLock
  BY DEF Counted, StrikesLock
<1> QED
  BY <1>2, <1>3, PTL

-----------------------------------------------------------------------------
(* Registrations.                                                          *)

\* What CreateAccount does to the variables of Sessions, when its INSERT succeeds.
Created(w) ==
  /\ \E v \in Visitors : visit[v].at = "create"
  /\ ~ account /\ pc[w] = "idle"
  /\ account' = TRUE
  /\ Goto(w, "mint")
  /\ UNCHANGED <<setting, lockVars, tokenVars, codeVars, spentVars, closed, strikeVars>>

\* A step of Accounts is one of Sessions', or leaves its variables alone, or makes the account.
LEMMA StepOfSessions ==
  [AccountNext]_accountVars => [Next]_vars \/ \E w \in Workers : Created(w)
<1> SUFFICES ASSUME [AccountNext]_accountVars PROVE [Next]_vars \/ \E w \in Workers : Created(w)
  OBVIOUS
<1>1. CASE Next
  BY <1>1
<1>2. CASE UNCHANGED accountVars
  BY <1>2 DEF accountVars
<1>3. ASSUME NEW v \in Visitors, CreateAccount(v) PROVE [Next]_vars \/ \E w \in Workers : Created(w)
  <2>1. CASE UNCHANGED <<account, workerVars>>
    BY <1>3, <2>1 DEF CreateAccount, vars
  <2>2. CASE \E w \in Workers : ~ account /\ pc[w] = "idle" /\ account' = TRUE /\ Goto(w, "mint")
    BY <1>3, <2>2 DEF CreateAccount, Created
  <2> QED
    BY <1>3, <2>1, <2>2 DEF CreateAccount
<1>4. ASSUME NEW v \in Visitors,
             \/ RequestOTP(v) \/ StoreCode(v) \/ VerifyOTP(v) \/ CountAttempt(v) \/ ConsumeCode(v)
             \/ Prove(v) \/ Register(v) \/ SpendProof(v) \/ LookForAccount(v) \/ GoAway(v)
      PROVE  UNCHANGED vars
  BY <1>4 DEF RequestOTP, StoreCode, VerifyOTP, CountAttempt, ConsumeCode, Prove, Register,
     SpendProof, LookForAccount, GoAway
<1> QED
  BY <1>1, <1>2, <1>3, <1>4 DEF AccountNext

\* Making the account disturbs neither types nor rows, nor what is proved of tokens.
LEMMA CreatedKeeps ==
  ASSUME TypeOK, HaveRows, NEW w \in Workers, Created(w)
  PROVE  TypeOK' /\ HaveRows' /\ (FamiliesEnd => FamiliesEnd') /\ (Spent => Spent')
<1>0. WorkersTyped /\ TokensTyped /\ CountsTyped /\ CodesTyped
  BY TypeParts
<1>1. "mint" \in Steps
  BY DEF Steps
<1>2. WorkersTyped'
  BY <1>0, <1>1, WorkerMoves DEF Created
<1>3. TokensTyped' /\ CodesTyped' /\ CountsTyped'
  <2>1. TokensTyped'
    BY <1>0 DEF Created, TokensTyped, tokenVars, spentVars, Rows
  <2>2. CodesTyped'
    BY <1>0 DEF Created, CodesTyped, codeVars
  <2>3. CountsTyped'
    BY <1>0 DEF Created, CountsTyped, lockVars, strikeVars
  <2> QED
    BY <2>1, <2>2, <2>3
<1>4. TypeOK'
  BY <1>2, <1>3 DEF TypeOK, WorkersTyped, TokensTyped, CountsTyped, CodesTyped
<1>5. \A v \in Workers : pc'[v] \in {"use", "replace", "close"} =>
        pc'[v] = pc[v] /\ tok'[v] = tok[v]
  BY <1>0 DEF Created, Goto, WorkersTyped
<1>6. UNCHANGED <<family, used, revoked, closed, parent, loose>>
  BY DEF Created, tokenVars, spentVars
<1>7. HaveRows'
  BY <1>5, <1>6 DEF HaveRows, Rows, At
<1>8. FamiliesEnd => FamiliesEnd'
  BY <1>5, <1>6 DEF FamiliesEnd, ClosedIsClosed, Quiet, At, Rows
<1>9. Spent => Spent'
  BY <1>5, <1>6, SpentKept DEF Spending, Rows
<1> QED
  BY <1>4, <1>7, <1>8, <1>9

\* Types and rows are kept by every step of Accounts.
LEMMA TypedAccountNext ==
  TypeOK /\ HaveRows /\ [AccountNext]_accountVars => TypeOK' /\ HaveRows'
BY StepOfSessions, TypedNext, CreatedKeeps

\* A session that was ended stays ended while accounts are registered.
THEOREM AccountSessionsEnd == AccountSpec => []ClosedIsClosed
<1>1. AccountInit => TypeOK /\ HaveRows /\ FamiliesEnd
  BY SessionAssumptions, InitTyped DEF AccountInit, Init, FamiliesEnd, ClosedIsClosed
<1>2. TypeOK /\ HaveRows /\ FamiliesEnd /\ [AccountNext]_accountVars
        => TypeOK' /\ HaveRows' /\ FamiliesEnd'
  BY StepOfSessions, TypedNext, FamiliesEndNext, CreatedKeeps
<1>3. FamiliesEnd => ClosedIsClosed
  BY DEF FamiliesEnd
<1> QED
  BY <1>1, <1>2, <1>3, PTL DEF AccountSpec

\* A token is replaced once, also one of a session that came of a registration.
THEOREM AccountTokensSpentOnce == AccountSpec => []SpentOnce
<1>1. AccountInit => TypeOK /\ HaveRows /\ Spent
  BY SessionAssumptions, InitTyped DEF AccountInit, Init, Spent, SpentOnce, Spending
<1>2. TypeOK /\ HaveRows /\ Spent /\ [AccountNext]_accountVars
        => TypeOK' /\ HaveRows' /\ Spent'
  BY StepOfSessions, TypedNext, SpentNext, CreatedKeeps
<1>3. Spent => SpentOnce
  BY DEF Spent
<1> QED
  BY <1>1, <1>2, <1>3, PTL DEF AccountSpec

-----------------------------------------------------------------------------
(* The lock, of an account that is registered meanwhile.                   *)

\* Who registers is in a setting without deletions, where nobody deletes; before the account
\* is made nobody has logged in to it.
Unborn ==
  /\ \A v \in Visitors : visit[v].at # "idle" => "register" \in setting.jobs
  /\ "register" \in setting.jobs => At({"consume", "revoke", "delete"}) = {}
  /\ "register" \in setting.jobs /\ ~ account =>
       failed = 0 /\ wrong = 0 /\ \A w \in Workers : ~ LoggingIn(w)

\* A visitor's step is one in a setting with registrations, in which nobody deletes, or it leaves
\* everybody else alone.
LEMMA VisitorsRegister ==
  ASSUME visit \in [Visitors -> [at : Places, mail : 0..MaxMails, right : BOOLEAN, proof : 0..MaxProofs]],
         Unborn, [AccountNext]_accountVars
  PROVE  \A v \in Visitors : visit'[v].at # "idle" => "register" \in setting.jobs
<1>1. ASSUME NEW v \in Visitors, NEW u \in Visitors, NEW r, visit' = [visit EXCEPT ![v] = r],
             r.at = "idle" \/ visit[v].at # "idle" \/ "register" \in setting.jobs,
             visit'[u].at # "idle"
      PROVE  "register" \in setting.jobs
  <2>1. CASE u = v
    BY <1>1, <2>1 DEF Unborn
  <2>2. CASE u # v
    BY <1>1, <2>2 DEF Unborn
  <2> QED
    BY <2>1, <2>2
<1>2. CASE UNCHANGED visit
  BY <1>2 DEF Unborn
<1>3. Outside.at = "idle"
  BY DEF Outside
<1>4. ASSUME NEW v \in Visitors,
             \/ RequestOTP(v) \/ StoreCode(v) \/ VerifyOTP(v) \/ CountAttempt(v) \/ ConsumeCode(v)
             \/ Prove(v) \/ Register(v) \/ SpendProof(v) \/ LookForAccount(v) \/ CreateAccount(v)
             \/ GoAway(v)
      PROVE  /\ \E r : visit' = [visit EXCEPT ![v] = r]
             /\ Leave(v) \/ visit[v].at # "idle" \/ "register" \in setting.jobs
  <2>1. CASE RequestOTP(v) \/ VerifyOTP(v) \/ Register(v)
    BY <2>1 DEF RequestOTP, VerifyOTP, Register, Enter, Onward
  <2>2. CASE StoreCode(v) \/ Prove(v) \/ CreateAccount(v) \/ GoAway(v)
    BY <2>2 DEF StoreCode, Prove, CreateAccount, GoAway, Leave, Onward
  <2>3. CASE CountAttempt(v) \/ ConsumeCode(v) \/ SpendProof(v) \/ LookForAccount(v)
    BY <2>3 DEF CountAttempt, ConsumeCode, SpendProof, LookForAccount, Leave, Onward
  <2> QED
    BY <1>4, <2>1, <2>2, <2>3
<1>5. CASE Next /\ UNCHANGED registerVars
  BY <1>2, <1>5 DEF registerVars
<1>6. CASE UNCHANGED accountVars
  BY <1>2, <1>6 DEF accountVars, registerVars
<1>7. ASSUME NEW v \in Visitors,
             \/ RequestOTP(v) \/ StoreCode(v) \/ VerifyOTP(v) \/ CountAttempt(v) \/ ConsumeCode(v)
             \/ Prove(v) \/ Register(v) \/ SpendProof(v) \/ LookForAccount(v) \/ CreateAccount(v)
             \/ GoAway(v)
      PROVE  \A u \in Visitors : visit'[u].at # "idle" => "register" \in setting.jobs
  <2>1. PICK r : visit' = [visit EXCEPT ![v] = r]
    BY <1>4, <1>7
  <2>2. CASE Leave(v)
    BY <1>1, <1>3, <2>2 DEF Leave, Onward
  <2>3. CASE visit[v].at # "idle" \/ "register" \in setting.jobs
    BY <1>1, <2>1, <2>3
  <2> QED
    BY <1>4, <1>7, <2>2, <2>3
<1> QED
  BY <1>5, <1>6, <1>7 DEF AccountNext

\* Nobody is logged in to, or deletes, an account that is not there yet.
LEMMA UnbornNext ==
  ASSUME AccountTypeOK, Unborn, [AccountNext]_accountVars
  PROVE  Unborn'
<1>0. WorkersTyped /\ CountsTyped /\ setting' = setting
  <2>1. [Next]_vars => setting' = setting
    BY DEF Next, vars, Refresh, CloseFamily, MarkUsed, Replace, StoreRefreshToken, Login,
       CountFailure, ResetFailures, MintSession, DeleteAccount, Consume, RevokeAll, DeleteRow,
       Crash, Logout, Unlock, RequestDeleteOTP
  <2> QED
    BY <2>1, TypeParts, StepOfSessions DEF AccountTypeOK, Created
<1>1. (\A v \in Visitors : visit[v].at # "idle" => "register" \in setting.jobs)'
  BY <1>0, VisitorsRegister DEF AccountTypeOK
<1>2. CASE "register" \notin setting.jobs
  BY <1>0, <1>1, <1>2 DEF Unborn
<1>3. CASE "register" \in setting.jobs
  <2> DEFINE Deleting == {"consume", "revoke", "delete"}
             Absent == failed = 0 /\ wrong = 0 /\ \A w \in Workers : ~ LoggingIn(w)
  <2>0. /\ "delete" \notin setting.jobs
        /\ \A w \in Workers : pc[w] \notin Deleting
        /\ ~ account => Absent
    BY <1>0, <1>3, AccountAssumptions DEF Unborn, At, CountsTyped
  <2> HIDE DEF Absent
  <2>1. ASSUME \A w \in Workers : pc'[w] \notin Deleting, ~ account' => Absent'
        PROVE  Unborn'
    BY <1>0, <1>1, <2>1 DEF Unborn, At, Absent, LoggingIn
  <2>2. ASSUME UNCHANGED <<failed, wrong>>, account' = account,
               \A w \in Workers : pc'[w] = pc[w] \/ pc'[w] \notin Deleting \cup {"count", "reset"}
        PROVE  Unborn'
    <3>1. \A w \in Workers : pc'[w] \notin Deleting
      BY <2>0, <2>2
    <3>2. ~ account' => Absent'
      BY <2>0, <2>2 DEF Absent, LoggingIn
    <3> QED
      BY <2>1, <3>1, <3>2
  <2>3. ASSUME NEW w \in Workers, Created(w) PROVE Unborn'
    <3>1. \A x \in Workers : pc'[x] = pc[x] \/ pc'[x] = "mint"
      BY <1>0, <2>3 DEF Created, Goto, WorkersTyped
    <3> QED
      BY <2>0, <2>1, <2>3, <3>1 DEF Created
  <2>4. ASSUME NEW w \in Workers, Login(w) PROVE Unborn'
    <3>1. \A x \in Workers : pc'[x] = pc[x] \/ pc'[x] \in {"count", "reset"}
      BY <1>0, <2>4 DEF Login, WorkersTyped
    <3>2. account'
      BY <1>0, <2>4 DEF Login
    <3> QED
      BY <2>0, <2>1, <3>1, <3>2
  <2>5. ASSUME NEW w \in Workers, CountFailure(w) \/ ResetFailures(w) PROVE Unborn'
    <3>1. account /\ account' = account
      BY <2>0, <2>5 DEF CountFailure, ResetFailures, Absent, LoggingIn
    <3>2. \A x \in Workers : pc'[x] = pc[x] \/ pc'[x] \in {"idle", "mint"}
      BY <1>0, <2>5 DEF CountFailure, ResetFailures, Finish, Goto, WorkersTyped
    <3> QED
      BY <2>0, <2>1, <3>1, <3>2
  <2>6. ASSUME NEW w \in Workers, DeleteAccount(w) \/ Consume(w) \/ RevokeAll(w) \/ DeleteRow(w)
        PROVE  Unborn'
    BY <2>0, <2>6 DEF DeleteAccount, Consume, RevokeAll, DeleteRow, Idle
  <2>7. ASSUME NEW w \in Workers, (\E t \in Tokens : Refresh(w, t)) \/ MarkUsed(w) PROVE Unborn'
    BY <1>0, <2>2, <2>7 DEF Refresh, MarkUsed, Goto, WorkersTyped, lockVars, strikeVars
  <2>8. ASSUME NEW w \in Workers, CloseFamily(w) \/ Crash(w) PROVE Unborn'
    BY <1>0, <2>2, <2>8 DEF CloseFamily, Crash, Finish, WorkersTyped, lockVars, strikeVars
  <2>9. ASSUME NEW w \in Workers, Replace(w) \/ MintSession(w) PROVE Unborn'
    BY <1>0, <2>2, <2>9 DEF Replace, MintSession, StoreRefreshToken, Finish, WorkersTyped, lockVars,
       strikeVars
  <2>10. ASSUME (\E t \in Tokens : Logout(t)) \/ Unlock \/ RequestDeleteOTP \/ UNCHANGED vars
         PROVE  Unborn'
    BY <2>2, <2>10 DEF Logout, Unlock, RequestDeleteOTP, vars, workerVars, lockVars, strikeVars
  <2> QED
    BY <2>3, <2>4, <2>5, <2>6, <2>7, <2>8, <2>9, <2>10, StepOfSessions DEF Next
<1> QED
  BY <1>2, <1>3

-----------------------------------------------------------------------------
(* The visitors' variables.                                                *)

Visit == [at : Places, mail : 0..MaxMails, right : BOOLEAN, proof : 0..MaxProofs]

\* A request is about a code, or a verification token, that there is.
HaveSubjects ==
  /\ visit \in [Visitors -> Visit]
  /\ \A v \in Visitors :
       /\ visit[v].at \in {"count", "consume"} => visit[v].mail \in Mails
       /\ visit[v].at = "spend" => visit[v].proof \in Proofs

\* The rest of the type invariant of Accounts.
MailsTyped ==
  /\ mailed \in 0..MaxMails /\ attempts \in [Mails -> Nat] /\ consumed \subseteq Mails
  /\ proofs \in 0..MaxProofs /\ spent \subseteq Proofs
  /\ tried \in [Mails -> Nat] /\ uncounted \subseteq Mails

\* The type invariant of Accounts in parts.
LEMMA AccountTypeParts == TypeOK /\ HaveSubjects /\ MailsTyped => AccountTypeOK
BY DEF AccountTypeOK, HaveSubjects, MailsTyped, Visit

\* A visitor that goes on to a subject there is.
LEMMA VisitorMoves ==
  ASSUME HaveSubjects, NEW v \in Visitors, NEW r \in Visit, Onward(v, r),
         r.at \in {"count", "consume"} => r.mail \in Mails,
         r.at = "spend" => r.proof \in Proofs
  PROVE  HaveSubjects'
<1>1. visit' = [visit EXCEPT ![v] = r]
  BY DEF Onward
<1>2. visit' \in [Visitors -> Visit]
  BY <1>1 DEF HaveSubjects
<1>3. \A x \in Visitors : visit'[x] = IF x = v THEN r ELSE visit[x]
  BY <1>1 DEF HaveSubjects
<1> QED
  BY <1>2, <1>3 DEF HaveSubjects

\* The visitors' variables keep their types.
LEMMA VisitorsTypedNext ==
  ASSUME TypeOK, HaveSubjects, MailsTyped, [AccountNext]_accountVars
  PROVE  HaveSubjects' /\ MailsTyped'
<1>m. MaxAttempts \in Nat \ {0} /\ MaxMails \in Nat /\ MaxProofs \in Nat
  BY AccountAssumptions
<1>o. /\ Outside \in Visit /\ Outside.at = "idle"
      /\ \A step \in Places : /\ [Outside EXCEPT !.at = step] \in Visit
                            /\ [Outside EXCEPT !.at = step].at = step
  <2>1. 0 \in 0..MaxMails /\ 0 \in 0..MaxProofs /\ "idle" \in Places
    BY <1>m DEF Places
  <2>2. Outside \in Visit /\ Outside.at = "idle"
    BY <2>1 DEF Outside, Visit
  <2> QED
    BY <2>2 DEF Visit
<1>l. ASSUME NEW v \in Visitors, Leave(v) PROVE HaveSubjects'
  BY <1>l, <1>o, VisitorMoves DEF Leave
<1>s. ASSUME NEW v \in Visitors, NEW step \in Places \ {"count", "consume", "spend"},
             Onward(v, [Outside EXCEPT !.at = step])
      PROVE  HaveSubjects'
  <2>1. [Outside EXCEPT !.at = step] \in Visit /\ [Outside EXCEPT !.at = step].at = step
    BY <1>o
  <2> QED
    BY <1>s, <2>1, VisitorMoves
<1>q. ASSUME UNCHANGED <<otpVars, proofVars, tried, uncounted>> PROVE MailsTyped'
  BY <1>q DEF MailsTyped, otpVars, proofVars
<1>1. CASE UNCHANGED registerVars
  BY <1>1 DEF registerVars, HaveSubjects, MailsTyped, otpVars, proofVars
<1>2. ASSUME NEW v \in Visitors, RequestOTP(v) PROVE HaveSubjects' /\ MailsTyped'
  <2>1. "store" \in Places \ {"count", "consume", "spend"}
    BY DEF Places
  <2> QED
    BY <1>2, <1>q, <1>s, <2>1 DEF RequestOTP, Enter
<1>3. ASSUME NEW v \in Visitors, StoreCode(v) PROVE HaveSubjects' /\ MailsTyped'
  <2>1. mailed' \in 0..MaxMails
    <3>1. CASE mailed < setting.mails /\ mailed' = mailed + 1
      <4>1. setting.mails \in Nat /\ setting.mails <= MaxMails
        BY AccountAssumptions, SessionAssumptions DEF TypeOK, Setting
      <4> QED
        BY <1>m, <3>1, <4>1 DEF MailsTyped
    <3> QED
      BY <1>3, <3>1 DEF StoreCode, MailsTyped
  <2> QED
    BY <1>3, <1>l, <2>1 DEF StoreCode, MailsTyped, proofVars
<1>4. ASSUME NEW v \in Visitors, VerifyOTP(v) PROVE HaveSubjects' /\ MailsTyped'
  <2>1. PICK c \in 1..mailed \ consumed, right \in BOOLEAN :
          Onward(v, [Outside EXCEPT !.at = "count", !.mail = c, !.right = right])
    BY <1>4 DEF VerifyOTP, Enter
  <2>2. c \in Mails /\ c \in 0..MaxMails /\ "count" \in Places
    BY <1>m DEF MailsTyped, Mails, Places
  <2> DEFINE r == [Outside EXCEPT !.at = "count", !.mail = c, !.right = right]
  <2>3. r \in Visit
    BY <1>o, <2>2 DEF Visit
  <2>4. r.at = "count" /\ r.mail = c
    BY <1>o DEF Visit
  <2> QED
    BY <1>4, <1>q, <2>1, <2>2, <2>3, <2>4, VisitorMoves DEF VerifyOTP
<1>5. ASSUME NEW v \in Visitors, CountAttempt(v) PROVE HaveSubjects' /\ MailsTyped'
  <2>1. visit[v].mail \in Mails
    BY <1>5 DEF CountAttempt, HaveSubjects
  <2>2. attempts' \in [Mails -> Nat] /\ tried' \in [Mails -> Nat] /\ uncounted' \subseteq Mails
    BY <1>5, <2>1 DEF CountAttempt, MailsTyped
  <2>3. MailsTyped'
    BY <1>5, <2>2 DEF CountAttempt, MailsTyped, proofVars
  <2>4. CASE Leave(v)
    BY <1>l, <2>3, <2>4
  <2>5. CASE Onward(v, [Outside EXCEPT !.at = "consume", !.mail = visit[v].mail])
    <3> DEFINE r == [Outside EXCEPT !.at = "consume", !.mail = visit[v].mail]
    <3>1. visit[v].mail \in 0..MaxMails /\ "consume" \in Places
      BY <1>m, <2>1 DEF Mails, Places
    <3>2. r \in Visit
      BY <1>o, <3>1 DEF Visit
    <3>3. r.at = "consume" /\ r.mail = visit[v].mail
      BY <1>o DEF Visit
    <3> QED
      BY <2>1, <2>3, <2>5, <3>2, <3>3, VisitorMoves
  <2> QED
    BY <1>5, <2>4, <2>5 DEF CountAttempt
<1>6. ASSUME NEW v \in Visitors, ConsumeCode(v) PROVE HaveSubjects' /\ MailsTyped'
  <2>1. visit[v].mail \in Mails /\ "prove" \in Places \ {"count", "consume", "spend"}
    BY <1>6 DEF ConsumeCode, HaveSubjects, Places
  <2>2. MailsTyped'
    BY <1>6, <2>1 DEF ConsumeCode, MailsTyped, proofVars
  <2> QED
    BY <1>6, <1>s, <2>1, <2>2 DEF ConsumeCode
<1>7. ASSUME NEW v \in Visitors, Prove(v) PROVE HaveSubjects' /\ MailsTyped'
  <2>1. proofs' \in 0..MaxProofs
    BY <1>7, <1>m DEF Prove, MailsTyped
  <2> QED
    BY <1>7, <1>l, <2>1 DEF Prove, MailsTyped, otpVars
<1>8. ASSUME NEW v \in Visitors, Register(v) PROVE HaveSubjects' /\ MailsTyped'
  <2>1. PICK p \in 1..proofs \ spent : Onward(v, [Outside EXCEPT !.at = "spend", !.proof = p])
    BY <1>8 DEF Register, Enter
  <2>2. p \in Proofs /\ p \in 0..MaxProofs /\ "spend" \in Places
    BY <1>m DEF MailsTyped, Proofs, Places
  <2> DEFINE r == [Outside EXCEPT !.at = "spend", !.proof = p]
  <2>3. r \in Visit
    BY <1>o, <2>2 DEF Visit
  <2>4. r.at = "spend" /\ r.proof = p
    BY <1>o DEF Visit
  <2> QED
    BY <1>8, <1>q, <2>1, <2>2, <2>3, <2>4, VisitorMoves DEF Register
<1>9. ASSUME NEW v \in Visitors, SpendProof(v) PROVE HaveSubjects' /\ MailsTyped'
  <2>1. visit[v].proof \in Proofs /\ "look" \in Places \ {"count", "consume", "spend"}
    BY <1>9 DEF SpendProof, HaveSubjects, Places
  <2>2. MailsTyped'
    BY <1>9, <2>1 DEF SpendProof, MailsTyped, otpVars
  <2> QED
    BY <1>9, <1>s, <2>1, <2>2 DEF SpendProof
<1>10. ASSUME NEW v \in Visitors, LookForAccount(v) PROVE HaveSubjects' /\ MailsTyped'
  <2>1. "create" \in Places \ {"count", "consume", "spend"}
    BY DEF Places
  <2> QED
    BY <1>10, <1>l, <1>q, <1>s, <2>1 DEF LookForAccount
<1>11. ASSUME NEW v \in Visitors, CreateAccount(v) \/ GoAway(v) PROVE HaveSubjects' /\ MailsTyped'
  BY <1>11, <1>l, <1>q DEF CreateAccount, GoAway
<1> QED
  BY <1>1, <1>2, <1>3, <1>4, <1>5, <1>6, <1>7, <1>8, <1>9, <1>10, <1>11
     DEF AccountNext, accountVars, registerVars

\* What all of the following rests on.
AccountInv == TypeOK /\ HaveRows /\ HaveSubjects /\ MailsTyped /\ Unborn

\* It holds from the beginning.
LEMMA AccountInvInit == AccountInit => AccountInv
<1> SUFFICES ASSUME AccountInit PROVE AccountInv
  OBVIOUS
<1>1. TypeOK /\ HaveRows
  BY InitTyped DEF AccountInit
<1>2. HaveSubjects
  BY AccountAssumptions DEF AccountInit, HaveSubjects, Outside, Visit, Places
<1>3. MailsTyped
  BY AccountAssumptions DEF AccountInit, MailsTyped
<1>4. Unborn
  BY DEF AccountInit, Init, Unborn, Outside, At, LoggingIn
<1> QED
  BY <1>1, <1>2, <1>3, <1>4 DEF AccountInv

\* And is kept by every step.
LEMMA AccountInvNext == AccountInv /\ [AccountNext]_accountVars => AccountInv'
<1> SUFFICES ASSUME AccountInv, [AccountNext]_accountVars PROVE AccountInv'
  OBVIOUS
<1>1. TypeOK' /\ HaveRows'
  BY TypedAccountNext DEF AccountInv
<1>2. HaveSubjects' /\ MailsTyped'
  BY VisitorsTypedNext DEF AccountInv
<1>3. Unborn'
  BY UnbornNext, AccountTypeParts DEF AccountInv
<1> QED
  BY <1>1, <1>2, <1>3 DEF AccountInv

\* Every variable of Accounts keeps its type.
THEOREM AccountTypeCorrect == AccountSpec => []AccountTypeOK
<1>1. AccountInv => AccountTypeOK
  BY AccountTypeParts DEF AccountInv
<1> QED
  BY <1>1, AccountInvInit, AccountInvNext, PTL DEF AccountSpec

\* The last allowed wrong password locks an account, also one made by a registration.
THEOREM RegisteredAccountLocks == AccountSpec => []StrikesLock
<1>1. AccountInit => Counted
  BY SessionAssumptions DEF AccountInit, Init, Counted, LoggingIn
<1>2. AccountInv /\ Counted /\ [AccountNext]_accountVars => Counted'
  <2> SUFFICES ASSUME AccountInv, Counted, [AccountNext]_accountVars PROVE Counted'
    OBVIOUS
  <2>1. CASE [Next]_vars
    BY <2>1, CountedNext DEF AccountInv
  <2>2. ASSUME NEW w \in Workers, Created(w) PROVE Counted'
    <3>1. /\ "register" \in setting.jobs /\ ~ account
          /\ failed = 0 /\ wrong = 0 /\ \A x \in Workers : ~ LoggingIn(x)
      BY <2>2 DEF Created, AccountInv, Unborn
    <3>2. UNCHANGED <<failed, wrong>>
      BY <2>2 DEF Created, lockVars, strikeVars
    <3>3. \A x \in Workers : ~ LoggingIn(x)'
      BY <2>2, <3>1, TypeParts DEF AccountInv, Created, Goto, WorkersTyped, LoggingIn
    <3> QED
      BY <3>1, <3>2, <3>3, SessionAssumptions DEF Counted
  <2> QED
    BY <2>1, <2>2, StepOfSessions
<1>3. Counted => StrikesLock
  BY DEF Counted, StrikesLock
<1> QED
  BY <1>1, <1>2, <1>3, AccountInvInit, AccountInvNext, PTL DEF AccountSpec

-----------------------------------------------------------------------------
(* The guesses at a code.                                                  *)

\* The requests that have read the count of a code and not yet added to it.
Counting(c) == {v \in Visitors : visit[v].at = "count" /\ visit[v].mail = c}

\* A code is compared once for each attempt; and its attempts, with those that are about to be
\* counted, exceed the allowed ones by the other visitors at most.
Guessed ==
  \A c \in Mails :
    /\ c \notin uncounted => tried[c] <= attempts[c]
    /\ attempts[c] + Cardinality(Counting(c)) <= Limit

\* A set of visitors has a number, which is smaller for a smaller set.
LEMMA VisitorsCounted ==
  /\ Cardinality(Visitors) \in Nat /\ Limit \in Int
  /\ \A V \in SUBSET Visitors : Cardinality(V) \in Nat /\ Cardinality(V) <= Cardinality(Visitors)
  /\ \A V, W \in SUBSET Visitors : V \subseteq W => Cardinality(V) <= Cardinality(W)
  /\ \A V \in SUBSET Visitors : \A v \in V : Cardinality(V \ {v}) = Cardinality(V) - 1
<1>0. IsFiniteSet(Visitors)
  BY AccountAssumptions
<1>1. \A V \in SUBSET Visitors : IsFiniteSet(V) /\ Cardinality(V) <= Cardinality(Visitors)
  <2> TAKE V \in SUBSET Visitors
  <2>1. IsFiniteSet(V)
    BY <1>0, FS_Subset
  <2>2. Cardinality(V) <= Cardinality(Visitors)
    BY <1>0, FS_Subset
  <2> QED
    BY <2>1, <2>2
<1>2. \A V \in SUBSET Visitors : Cardinality(V) \in Nat
  BY <1>1, FS_CardinalityType
<1>3. \A V, W \in SUBSET Visitors : V \subseteq W => Cardinality(V) <= Cardinality(W)
  BY <1>1, FS_Subset
<1>4. \A V \in SUBSET Visitors : \A v \in V : Cardinality(V \ {v}) = Cardinality(V) - 1
  BY <1>1, FS_RemoveElement
<1>5. Cardinality(Visitors) \in Nat /\ Limit \in Int
  BY <1>2, AccountAssumptions DEF Limit
<1> QED
  BY <1>1, <1>2, <1>3, <1>4, <1>5

\* No step compares a code with an answer more than that.
LEMMA GuessedNext == AccountInv /\ Guessed /\ [AccountNext]_accountVars => Guessed'
<1> SUFFICES ASSUME AccountInv, Guessed, [AccountNext]_accountVars PROVE Guessed'
  OBVIOUS
<1>0. HaveSubjects /\ MailsTyped
  BY DEF AccountInv
<1>a. MaxAttempts \in Nat \ {0}
  BY AccountAssumptions
<1>c. \A c : Counting(c) \in SUBSET Visitors /\ Counting(c)' \in SUBSET Visitors
  BY DEF Counting
<1>q. ASSUME UNCHANGED <<attempts, tried, uncounted>>, \A c \in Mails : Counting(c)' \subseteq Counting(c)
      PROVE  Guessed'
  <2> SUFFICES ASSUME NEW c \in Mails
               PROVE  /\ c \notin uncounted => tried[c] <= attempts[c]
                      /\ attempts[c] + Cardinality(Counting(c)') <= Limit
    BY <1>q DEF Guessed, Limit
  <2>1. /\ Cardinality(Counting(c)') \in Nat /\ Cardinality(Counting(c)) \in Nat
        /\ Cardinality(Counting(c)') <= Cardinality(Counting(c))
    BY <1>c, <1>q, VisitorsCounted
  <2>2. attempts[c] \in Nat
    BY <1>0 DEF MailsTyped
  <2> QED
    BY <2>1, <2>2, VisitorsCounted DEF Guessed
<1> DEFINE Off(v) == visit'[v].at # "count" /\ \A x \in Visitors \ {v} : visit'[x] = visit[x]
<1>r. ASSUME NEW v \in Visitors, NEW r, Onward(v, r), r.at # "count" PROVE Off(v)
  BY <1>0, <1>r DEF Onward, HaveSubjects
<1>v. ASSUME NEW v \in Visitors, Off(v) PROVE \A c \in Mails : Counting(c)' \subseteq Counting(c)
  BY <1>v DEF Counting
<1>w. ASSUME NEW v \in Visitors, Off(v), UNCHANGED <<attempts, tried, uncounted>> PROVE Guessed'
  BY <1>q, <1>v, <1>w
<1>l. ASSUME NEW v \in Visitors, Leave(v) PROVE Off(v)
  BY <1>l, <1>r DEF Leave, Outside
<1>s. ASSUME NEW v \in Visitors, NEW step, step # "count", Onward(v, [Outside EXCEPT !.at = step])
      PROVE  Off(v)
  <2>1. [Outside EXCEPT !.at = step].at = step
    BY DEF Outside
  <2> QED
    BY <1>r, <1>s, <2>1
<1>1. CASE UNCHANGED registerVars
  BY <1>1, <1>q DEF registerVars, otpVars, Counting
<1>2. ASSUME NEW v \in Visitors, VerifyOTP(v) PROVE Guessed'
  <2>1. PICK c \in 1..mailed \ consumed, right \in BOOLEAN :
          /\ attempts[c] < MaxAttempts
          /\ Onward(v, [Outside EXCEPT !.at = "count", !.mail = c, !.right = right])
    BY <1>2 DEF VerifyOTP, Enter
  <2>2. UNCHANGED <<attempts, tried, uncounted>>
    BY <1>2 DEF VerifyOTP, otpVars
  <2>3. visit'[v].mail = c /\ \A x \in Visitors \ {v} : visit'[x] = visit[x]
    <3>1. [Outside EXCEPT !.at = "count", !.mail = c, !.right = right].mail = c
      BY DEF Outside
    <3> QED
      BY <1>0, <2>1, <3>1 DEF Onward, HaveSubjects
  <2> SUFFICES ASSUME NEW d \in Mails
               PROVE  /\ d \notin uncounted => tried[d] <= attempts[d]
                      /\ attempts[d] + Cardinality(Counting(d)') <= Limit
    BY <2>2 DEF Guessed, Limit
  <2>4. attempts[d] \in Nat
    BY <1>0 DEF MailsTyped
  <2>5. CASE d # c
    <3>1. Counting(d)' \subseteq Counting(d)
      BY <2>3, <2>5 DEF Counting
    <3>2. /\ Cardinality(Counting(d)') \in Nat /\ Cardinality(Counting(d)) \in Nat
          /\ Cardinality(Counting(d)') <= Cardinality(Counting(d))
      BY <1>c, <3>1, VisitorsCounted
    <3> QED
      BY <2>4, <3>2, VisitorsCounted DEF Guessed
  <2>6. CASE d = c
    <3>1. Cardinality(Counting(d)') \in Nat /\ Cardinality(Counting(d)') <= Cardinality(Visitors)
      BY <1>c, VisitorsCounted
    <3> QED
      BY <1>a, <2>1, <2>4, <2>6, <3>1, VisitorsCounted DEF Guessed, Limit
  <2> QED
    BY <2>5, <2>6
<1>3. ASSUME NEW v \in Visitors, CountAttempt(v) PROVE Guessed'
  <2>0. PICK c \in Mails : c = visit[v].mail
    BY <1>0, <1>3 DEF CountAttempt, HaveSubjects
  <2>1. v \in Counting(c)
    BY <1>3, <2>0 DEF CountAttempt, Counting
  <2>2. Off(v)
    <3>1. CASE Leave(v)
      BY <1>l, <3>1
    <3>2. CASE Onward(v, [Outside EXCEPT !.at = "consume", !.mail = c])
      <4>1. [Outside EXCEPT !.at = "consume", !.mail = c].at = "consume"
        BY DEF Outside
      <4> QED
        BY <1>r, <3>2, <4>1
    <3> QED
      BY <1>3, <2>0, <3>1, <3>2 DEF CountAttempt
  <2>3. /\ \A d \in Mails : Counting(d)' \subseteq Counting(d)
        /\ Counting(c)' \subseteq Counting(c) \ {v}
    BY <1>v, <2>2 DEF Counting
  <2>4. \/ attempts' = [attempts EXCEPT ![c] = @ + 1] /\ uncounted' = uncounted
        \/ attempts' = attempts /\ uncounted' = uncounted \cup {c}
    BY <1>3, <2>0 DEF CountAttempt
  <2>5. tried' = [tried EXCEPT ![c] = IF @ > Limit THEN @ ELSE @ + 1]
    BY <1>3, <2>0 DEF CountAttempt
  <2> SUFFICES ASSUME NEW d \in Mails
               PROVE  /\ d \notin uncounted' => tried'[d] <= attempts'[d]
                      /\ attempts'[d] + Cardinality(Counting(d)') <= Limit
    BY DEF Guessed, Limit
  <2>6. /\ Cardinality(Counting(d)') \in Nat /\ Cardinality(Counting(d)) \in Nat
        /\ Cardinality(Counting(d)') <= Cardinality(Counting(d))
        /\ d = c => Cardinality(Counting(d)') <= Cardinality(Counting(d)) - 1
    <3>1. Counting(d) \ {v} \in SUBSET Visitors /\ Counting(c) \in SUBSET Visitors
      BY <1>c
    <3>2. Cardinality(Counting(c) \ {v}) = Cardinality(Counting(c)) - 1
      BY <2>1, <3>1, VisitorsCounted
    <3>3. Cardinality(Counting(d)') <= Cardinality(Counting(d))
      BY <1>c, <2>3, VisitorsCounted
    <3>4. d = c => Cardinality(Counting(d)') <= Cardinality(Counting(c) \ {v})
      BY <1>c, <2>3, <3>1, VisitorsCounted
    <3>5. Cardinality(Counting(d)') \in Nat /\ Cardinality(Counting(d)) \in Nat
      BY <1>c, VisitorsCounted
    <3> QED
      BY <3>2, <3>3, <3>4, <3>5
  <2>7. attempts[d] \in Nat /\ tried[d] \in Nat /\ attempts' \in [Mails -> Nat]
    BY <1>0, <2>1, <2>4 DEF MailsTyped
  <2>8. CASE d # c
    <3>1. attempts'[d] = attempts[d] /\ tried'[d] = tried[d] /\ (d \in uncounted' <=> d \in uncounted)
      BY <1>0, <2>4, <2>5, <2>8 DEF MailsTyped
    <3> QED
      BY <2>6, <2>7, <3>1, VisitorsCounted DEF Guessed
  <2>9. CASE d = c
    <3>1. tried'[d] \in {tried[d], tried[d] + 1}
      BY <1>0, <2>5, <2>9 DEF MailsTyped
    <3>2. \/ attempts'[d] = attempts[d] + 1 /\ uncounted' = uncounted
          \/ attempts'[d] = attempts[d] /\ d \in uncounted'
      BY <1>0, <2>4, <2>9 DEF MailsTyped
    <3> QED
      BY <2>6, <2>7, <2>9, <3>1, <3>2, VisitorsCounted DEF Guessed
  <2> QED
    BY <2>8, <2>9
<1>4. ASSUME NEW v \in Visitors,
             \/ RequestOTP(v) \/ StoreCode(v) \/ ConsumeCode(v) \/ Prove(v) \/ Register(v)
             \/ SpendProof(v) \/ LookForAccount(v) \/ CreateAccount(v) \/ GoAway(v)
      PROVE  Guessed'
  <2>1. UNCHANGED <<attempts, tried, uncounted>>
    BY <1>4 DEF RequestOTP, StoreCode, ConsumeCode, Prove, Register, SpendProof, LookForAccount,
       CreateAccount, GoAway, otpVars
  <2>2. Off(v)
    <3>1. CASE RequestOTP(v)
      BY <1>s, <3>1 DEF RequestOTP, Enter
    <3>2. CASE Register(v)
      <4>1. PICK p \in 1..proofs \ spent : Onward(v, [Outside EXCEPT !.at = "spend", !.proof = p])
        BY <3>2 DEF Register, Enter
      <4>2. [Outside EXCEPT !.at = "spend", !.proof = p].at = "spend"
        BY DEF Outside
      <4> QED
        BY <1>r, <4>1, <4>2
    <3>3. CASE Leave(v)
      BY <1>l, <3>3
    <3>4. CASE ConsumeCode(v) \/ SpendProof(v) \/ LookForAccount(v)
      BY <1>s, <3>3, <3>4 DEF ConsumeCode, SpendProof, LookForAccount
    <3> QED
      BY <1>4, <3>1, <3>2, <3>3, <3>4 DEF StoreCode, Prove, CreateAccount, GoAway
  <2> QED
    BY <1>w, <2>1, <2>2
<1> QED
  BY <1>1, <1>2, <1>3, <1>4 DEF AccountNext, accountVars, registerVars

\* A code is compared with its attempts, and one answer more for each other visitor at most.
THEOREM GuessesAreLimited == AccountSpec => []GuessesLimited
<1>1. AccountInit => Guessed
  <2> SUFFICES ASSUME AccountInit PROVE Guessed
    OBVIOUS
  <2>1. \A c \in Mails : Counting(c) = {} /\ attempts[c] = 0 /\ tried[c] = 0
    BY DEF AccountInit, Outside, Counting
  <2>2. Limit >= Cardinality(Visitors) /\ Limit \in Int
    BY VisitorsCounted, AccountAssumptions DEF Limit
  <2> QED
    BY <2>1, <2>2, FS_EmptySet, VisitorsCounted DEF Guessed
<1>2. AccountInv /\ Guessed => GuessesLimited
  <2> SUFFICES ASSUME AccountInv, Guessed, NEW c \in Mails \ uncounted PROVE tried[c] <= Limit
    BY DEF GuessesLimited
  <2>1. Cardinality(Counting(c)) \in Nat
    BY VisitorsCounted DEF Counting
  <2>2. tried[c] \in Nat /\ attempts[c] \in Nat
    BY DEF AccountInv, MailsTyped
  <2> QED
    BY <2>1, <2>2, VisitorsCounted DEF Guessed
<1> QED
  BY <1>1, <1>2, AccountInvInit, AccountInvNext, GuessedNext, PTL DEF AccountSpec

================================================================================
