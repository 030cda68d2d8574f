------------------------------ MODULE VoiceProofs ------------------------------
(***************************************************************************)
(* Proofs about the voice assistants: how accounts are linked (OAuthLink),  *)
(* how values are converted (VoiceMapping) and what becomes of a wish      *)
(* (VoiceControl), for any sets of requests, clients, users and devices.   *)
(* OAuthLink and VoiceControl share no state; each part is about the       *)
(* specification of its own.                                               *)
(***************************************************************************)
EXTENDS OAuthLink, VoiceControl, FiniteSetTheorems, WellFoundedInduction, SequenceTheorems, TLAPS

-----------------------------------------------------------------------------
(* OAuthLink: types, single use of a code, one live pair, the last pair,    *)
(* the end by revocation and the end with the account.                     *)

\* The workers' own variables, and what a request at work is about.
WorkersTyped ==
  /\ pc \in [Workers -> Steps]
  /\ link \in [Workers -> Links \cup {None}]
  /\ code \in [Workers -> 0..MaxCodes]
  /\ pair \in [Workers -> 0..MaxPairs]
  /\ \A w \in Workers : pc[w] # "idle" => link[w] \in Links
  /\ \A w \in Workers : pc[w] = "mark" => code[w] \in Codes
  /\ \A w \in Workers : pc[w] = "end" => code[w] = 0 /\ pair[w] \in 1..drawn
  /\ \A w \in Workers : pc[w] = "link" => pair[w] \in 1..drawn

CodesTyped ==
  /\ setting \in Settings /\ users \subseteq Users
  /\ issued \in 0..MaxCodes
  /\ codeOf \in [Codes -> Links \cup {None}]
  /\ used \subseteq Codes /\ linked \subseteq Links

\* The pairs; those that are not drawn yet have left no trace.
PairsTyped ==
  /\ pairOf \in [Pairs -> Links \cup {None}]
  /\ drawn \in 0..MaxPairs
  /\ revoked \subseteq 1..drawn /\ sent \subseteq 1..drawn
  /\ \A p \in Pairs : p > drawn => pairOf[p] = None

HistoryTyped ==
  /\ from \in [Pairs -> 0..MaxCodes]
  /\ loose \subseteq Codes
  /\ doubled \subseteq Links /\ broken \subseteq Links
  /\ given \subseteq Pairs
  /\ ended \subseteq Links /\ left \subseteq Links

Typed == WorkersTyped /\ CodesTyped /\ PairsTyped /\ HistoryTyped

\* The strengthened types imply the type invariant.
LEMMA TypedIsTypeOK == Typed => TypeOK
<1> SUFFICES ASSUME Typed PROVE TypeOK
  OBVIOUS
<1>1. drawn \in Nat /\ drawn <= MaxPairs /\ 1..drawn \subseteq Pairs
  BY LinkAssumptions DEF Typed, PairsTyped, Pairs
<1> QED
  BY <1>1 DEF TypeOK, Typed, WorkersTyped, CodesTyped, PairsTyped, HistoryTyped

\* What a setting bounds.
LEMMA Bounded ==
  ASSUME setting \in Settings
  PROVE  setting.codes \in 0..MaxCodes /\ setting.pairs \in 0..MaxPairs /\ setting.links \subseteq Links
BY LinkAssumptions DEF Setting

\* A worker that begins, goes on or finishes keeps its variables typed.
LEMMA WorkerMoves ==
  ASSUME WorkersTyped, NEW w \in Workers, drawn \in Nat, drawn' \in Nat, drawn <= drawn'
  PROVE  /\ Finish(w) => WorkersTyped'
         /\ \A step \in {"revoke", "insert"} : pc[w] # "idle" /\ Goto(w, step) => WorkersTyped'
         /\ \A l \in Links, k \in Codes : Begin(w, "mark", l, k, 0) => WorkersTyped'
         /\ \A l \in Links, p \in 1..drawn, step \in {"end", "unlink"} :
              p \in Pairs /\ Begin(w, step, l, 0, p) => WorkersTyped'
<1> USE LinkAssumptions DEF WorkersTyped, Steps, Codes, Pairs
<1>0. 0 \in 0..MaxCodes /\ 0 \in 0..MaxPairs /\ 1..drawn \subseteq 1..drawn' /\ Codes \subseteq 0..MaxCodes
      /\ Pairs \subseteq 0..MaxPairs
  OBVIOUS
<1>1. Finish(w) => WorkersTyped'
  BY <1>0 DEF Finish
<1>2. \A step \in {"revoke", "insert"} : pc[w] # "idle" /\ Goto(w, step) => WorkersTyped'
  BY <1>0 DEF Goto
<1>3. \A l \in Links, k \in Codes : Begin(w, "mark", l, k, 0) => WorkersTyped'
  BY <1>0 DEF Begin
<1>4. \A l \in Links, p \in 1..drawn, step \in {"end", "unlink"} :
        p \in Pairs /\ Begin(w, step, l, 0, p) => WorkersTyped'
  BY <1>0 DEF Begin
<1> QED
  BY <1>1, <1>2, <1>3, <1>4

\* Initially everything has its type.
LEMMA InitTyped == Init => Typed
<1> SUFFICES ASSUME Init PROVE Typed
  OBVIOUS
<1> USE LinkAssumptions DEF Init, Codes, Pairs
<1>1. 0 \in 0..MaxCodes /\ 0 \in 0..MaxPairs
  OBVIOUS
<1>2. WorkersTyped
  BY <1>1 DEF WorkersTyped, Steps
<1>3. CodesTyped
  BY <1>1 DEF CodesTyped
<1>4. PairsTyped
  BY <1>1 DEF PairsTyped
<1>5. HistoryTyped
  BY <1>1 DEF HistoryTyped
<1> QED
  BY <1>2, <1>3, <1>4, <1>5 DEF Typed

\* Every step keeps them.
LEMMA TypedNext == Typed /\ [Next]_vars => Typed'
<1> SUFFICES ASSUME Typed, [Next]_vars PROVE Typed'
  OBVIOUS
<1> USE LinkAssumptions
<1>0. WorkersTyped /\ CodesTyped /\ PairsTyped /\ HistoryTyped
  BY DEF Typed
<1>b. /\ setting.codes \in 0..MaxCodes /\ setting.pairs \in 0..MaxPairs /\ setting.links \subseteq Links
      /\ drawn \in Nat /\ drawn <= MaxPairs /\ 1..drawn \subseteq Pairs
  BY <1>0, Bounded DEF CodesTyped, PairsTyped, Pairs
<1>t. ASSUME WorkersTyped', CodesTyped', PairsTyped', HistoryTyped' PROVE Typed'
  BY <1>t DEF Typed
<1>c. ASSUME UNCHANGED <<setting, users, codeVars, linked>> PROVE CodesTyped'
  BY <1>0, <1>c DEF CodesTyped, codeVars
<1>p. ASSUME UNCHANGED <<pairVars, drawn>> PROVE PairsTyped'
  BY <1>0, <1>p DEF PairsTyped, pairVars
<1>h. ASSUME UNCHANGED <<from, loose, doubled, given, ended, left>>, broken' \subseteq Links
      PROVE  HistoryTyped'
  BY <1>0, <1>h DEF HistoryTyped
<1>w. ASSUME NEW w \in Workers, UNCHANGED drawn
      PROVE  /\ Finish(w) => WorkersTyped'
             /\ \A step \in {"revoke", "insert"} : pc[w] # "idle" /\ Goto(w, step) => WorkersTyped'
             /\ \A l \in Links, k \in Codes : Begin(w, "mark", l, k, 0) => WorkersTyped'
             /\ \A l \in Links, p \in 1..drawn, step \in {"end", "unlink"} :
                  p \in Pairs /\ Begin(w, step, l, 0, p) => WorkersTyped'
  <2>1. drawn <= drawn'
    BY <1>b, <1>w
  <2> QED
    BY <1>0, <1>b, <1>w, <2>1, WorkerMoves
<1>1. ASSUME NEW w \in Workers, NEW k \in Codes, ExchangeAuthCode(w, k) PROVE Typed'
  <2>1. codeOf[k] \in Links
    BY <1>0, <1>1 DEF ExchangeAuthCode, CodesTyped
  <2>2. WorkersTyped'
    BY <1>1, <1>w, <2>1 DEF ExchangeAuthCode
  <2>3. HistoryTyped'
    <3>1. loose' \subseteq Codes /\ ended' \subseteq Links
      BY <1>0, <1>1 DEF ExchangeAuthCode, HistoryTyped
    <3> QED
      BY <1>0, <1>1, <3>1 DEF ExchangeAuthCode, HistoryTyped
  <2> QED
    BY <1>1, <1>c, <1>p, <1>t, <2>2, <2>3 DEF ExchangeAuthCode
<1>2. ASSUME NEW w \in Workers, NEW p \in Pairs, RotateRefreshToken(w, p) PROVE Typed'
  <2>1. pairOf[p] \in Links /\ p \in 1..drawn
    BY <1>0, <1>2 DEF RotateRefreshToken, PairsTyped
  <2>2. WorkersTyped'
    BY <1>2, <1>w, <2>1 DEF RotateRefreshToken, history
  <2> QED
    BY <1>0, <1>2, <1>c, <1>p, <1>h, <1>t, <2>2 DEF RotateRefreshToken, history, HistoryTyped
<1>3. ASSUME NEW w \in Workers, NEW p \in Pairs, Disconnect(w, p) PROVE Typed'
  <2>1. pairOf[p] \in Links /\ p \in 1..drawn
    BY <1>0, <1>3 DEF Disconnect, PairsTyped
  <2>2. WorkersTyped'
    BY <1>3, <1>w, <2>1 DEF Disconnect, history
  <2> QED
    BY <1>0, <1>3, <1>c, <1>p, <1>h, <1>t, <2>2 DEF Disconnect, history, HistoryTyped
<1>4. ASSUME NEW w \in Workers, MarkCode(w) PROVE Typed'
  <2>1. code[w] \in Codes
    BY <1>0, <1>4 DEF MarkCode, WorkersTyped
  <2>2. WorkersTyped'
    BY <1>4, <1>w DEF MarkCode
  <2>3. CodesTyped'
    BY <1>0, <1>4, <2>1 DEF MarkCode, CodesTyped
  <2>4. HistoryTyped'
    BY <1>0, <1>4, <2>1 DEF MarkCode, HistoryTyped
  <2> QED
    BY <1>4, <1>p, <1>t, <2>2, <2>3, <2>4 DEF MarkCode
<1>5. ASSUME NEW w \in Workers, EndPair(w) PROVE Typed'
  <2>1. pair[w] \in 1..drawn
    BY <1>0, <1>5 DEF EndPair, WorkersTyped
  <2>2. WorkersTyped'
    BY <1>5, <1>w DEF EndPair, history
  <2>3. PairsTyped'
    BY <1>0, <1>5, <2>1 DEF EndPair, PairsTyped, history
  <2> QED
    BY <1>0, <1>5, <1>c, <1>h, <1>t, <2>2, <2>3 DEF EndPair, history, HistoryTyped
<1>6. ASSUME NEW w \in Workers, RevokePairs(w) PROVE Typed'
  <2>1. link[w] \in Links
    BY <1>0, <1>6 DEF RevokePairs, WorkersTyped
  <2>2. WorkersTyped'
    BY <1>6, <1>w DEF RevokePairs
  <2>3. Live(link[w]) \subseteq 1..drawn
    BY <1>0, <1>b, <2>1 DEF Live, PairsTyped, Pairs
  <2>4. PairsTyped'
    BY <1>0, <1>6, <2>3 DEF RevokePairs, PairsTyped
  <2>5. HistoryTyped'
    BY <1>0, <1>6, <2>1 DEF RevokePairs, HistoryTyped
  <2> QED
    BY <1>6, <1>c, <1>t, <2>2, <2>4, <2>5 DEF RevokePairs
<1>7. ASSUME NEW w \in Workers, InsertPair(w) PROVE Typed'
  <2>1. link[w] \in Links /\ code[w] \in 0..MaxCodes
    BY <1>0, <1>7 DEF InsertPair, WorkersTyped
  <2>2. drawn' = drawn + 1 /\ drawn + 1 \in Pairs /\ drawn + 1 <= MaxPairs
    BY <1>b, <1>7 DEF InsertPair, Pairs
  <2>3. sent' \subseteq sent \cup {drawn + 1}
    BY <1>7 DEF InsertPair, Hand
  <2>4. PairsTyped'
    <3>1. pairOf' \in [Pairs -> Links \cup {None}]
      BY <1>0, <1>7, <2>1 DEF InsertPair, PairsTyped
    <3>2. \A p \in Pairs : p > drawn' => pairOf'[p] = None
      BY <1>0, <1>b, <1>7, <2>2 DEF InsertPair, PairsTyped, Pairs
    <3>3. revoked' \subseteq 1..drawn' /\ sent' \subseteq 1..drawn'
      BY <1>0, <1>b, <1>7, <2>2, <2>3 DEF InsertPair, PairsTyped
    <3>4. drawn' \in 0..MaxPairs
      BY <1>b, <2>2
    <3> QED
      BY <3>1, <3>2, <3>3, <3>4 DEF PairsTyped
  <2>5. HistoryTyped'
    <3>1. from' \in [Pairs -> 0..MaxCodes]
      BY <1>0, <1>7, <2>1 DEF InsertPair, HistoryTyped
    <3>2. doubled' \subseteq Links /\ broken' \subseteq Links
      BY <1>0, <1>7, <2>1 DEF InsertPair, HistoryTyped
    <3> QED
      BY <1>0, <1>7, <3>1, <3>2 DEF InsertPair, HistoryTyped
  <2>6. WorkersTyped'
    <3>1. CASE Finish(w)
      BY <1>0, <1>b, <2>2, <3>1, WorkerMoves
    <3>2. CASE /\ pc' = [pc EXCEPT ![w] = "link"] /\ pair' = [pair EXCEPT ![w] = drawn + 1]
               /\ UNCHANGED <<link, code>>
      <4>1. 1..drawn \subseteq 1..drawn' /\ drawn + 1 \in 1..drawn' /\ drawn + 1 \in 0..MaxPairs
        BY <1>b, <2>2
      <4> QED
        BY <1>0, <2>1, <3>2, <4>1 DEF WorkersTyped, Steps
    <3> QED
      BY <1>7, <3>1, <3>2 DEF InsertPair, Hand
  <2> QED
    BY <1>7, <1>c, <1>t, <2>4, <2>5, <2>6 DEF InsertPair
<1>8. ASSUME NEW w \in Workers, InsertFails(w) PROVE Typed'
  <2>1. link[w] \in Links
    BY <1>0, <1>8 DEF InsertFails, WorkersTyped
  <2>2. broken' \subseteq Links
    BY <1>0, <1>8, <2>1 DEF InsertFails, HistoryTyped
  <2> QED
    BY <1>8, <1>w, <1>c, <1>p, <1>h, <1>t, <2>2 DEF InsertFails
<1>9. ASSUME NEW w \in Workers, Crash(w) PROVE Typed'
  <2>1. link[w] \in Links
    BY <1>0, <1>9 DEF Crash, WorkersTyped
  <2>2. broken' \subseteq Links
    BY <1>0, <1>9, <2>1 DEF Crash, HistoryTyped
  <2> QED
    BY <1>9, <1>w, <1>c, <1>p, <1>h, <1>t, <2>2 DEF Crash
<1>10. ASSUME NEW w \in Workers, LinkAccount(w) PROVE Typed'
  <2>1. link[w] \in Links /\ pair[w] \in 1..drawn
    BY <1>0, <1>10 DEF LinkAccount, WorkersTyped
  <2>2. CodesTyped'
    BY <1>0, <1>10, <2>1 DEF LinkAccount, Upsert, CodesTyped, codeVars
  <2>3. PairsTyped'
    BY <1>0, <1>10, <2>1 DEF LinkAccount, PairsTyped
  <2>4. HistoryTyped'
    BY <1>0, <1>10, <2>1 DEF LinkAccount, HistoryTyped
  <2> QED
    BY <1>10, <1>w, <1>t, <2>2, <2>3, <2>4 DEF LinkAccount
<1>11. ASSUME NEW w \in Workers, Unlink(w) PROVE Typed'
  <2>1. link[w] \in Links
    BY <1>0, <1>11 DEF Unlink, WorkersTyped
  <2>2. CodesTyped'
    BY <1>0, <1>11, <2>1 DEF Unlink, Upsert, CodesTyped, codeVars
  <2>3. HistoryTyped'
    BY <1>0, <1>11, <2>1 DEF Unlink, HistoryTyped
  <2> QED
    BY <1>11, <1>w, <1>p, <1>t, <2>2, <2>3 DEF Unlink
<1>12. ASSUME NEW l \in Links, Authorize(l) PROVE Typed'
  <2>1. issued + 1 \in Codes /\ issued + 1 \in 0..MaxCodes
    BY <1>0, <1>b, <1>12 DEF Authorize, CreateAuthCode, CodesTyped, Codes
  <2>2. CodesTyped'
    BY <1>0, <1>12, <2>1 DEF Authorize, CreateAuthCode, CodesTyped
  <2>3. WorkersTyped'
    BY <1>0, <1>12 DEF Authorize, CreateAuthCode, WorkersTyped, workerVars, history
  <2> QED
    BY <1>0, <1>12, <1>p, <1>h, <1>t, <2>2, <2>3 DEF Authorize, CreateAuthCode, history, HistoryTyped
<1>13. ASSUME NEW p \in Pairs, RevokeByToken(p) PROVE Typed'
  <2>1. pairOf[p] \in Links /\ p \in 1..drawn
    BY <1>0, <1>13 DEF RevokeByToken, PairsTyped
  <2>2. PairsTyped'
    BY <1>0, <1>13, <2>1 DEF RevokeByToken, PairsTyped
  <2>3. HistoryTyped'
    BY <1>0, <1>13, <2>1 DEF RevokeByToken, HistoryTyped
  <2>4. WorkersTyped'
    BY <1>0, <1>13 DEF RevokeByToken, WorkersTyped, workerVars
  <2> QED
    BY <1>13, <1>c, <1>t, <2>2, <2>3, <2>4 DEF RevokeByToken
<1>14. ASSUME NEW u \in Users, DeleteUser(u) PROVE Typed'
  <2>1. CodesTyped'
    BY <1>0, <1>14 DEF DeleteUser, CodesTyped
  <2>2. PairsTyped'
    BY <1>0, <1>14 DEF DeleteUser, PairsTyped, history
  <2>3. WorkersTyped'
    BY <1>0, <1>14 DEF DeleteUser, WorkersTyped, workerVars, history
  <2> QED
    BY <1>0, <1>14, <1>h, <1>t, <2>1, <2>2, <2>3 DEF DeleteUser, history, HistoryTyped
<1>15. CASE UNCHANGED vars
  <2>1. WorkersTyped'
    BY <1>0, <1>15 DEF vars, WorkersTyped, workerVars, history
  <2> QED
    BY <1>0, <1>15, <1>c, <1>p, <1>h, <1>t, <2>1 DEF vars, history, HistoryTyped
<1> QED
  BY <1>1, <1>2, <1>3, <1>4, <1>5, <1>6, <1>7, <1>8, <1>9, <1>10, <1>11, <1>12, <1>13, <1>14,
     <1>15 DEF Next

\* Every variable keeps its type, and no request goes on about nothing.
THEOREM TypeCorrect == Spec => []TypeOK
<1>1. Spec => []Typed
  BY InitTyped, TypedNext, PTL DEF Spec
<1> QED
  BY <1>1, TypedIsTypeOK, PTL

-----------------------------------------------------------------------------

\* What a step does to the workers: only one of them moves.
LEMMA OneMoves ==
  ASSUME WorkersTyped, NEW w \in Workers
  PROVE  /\ \A step \in Steps : Goto(w, step) =>
              /\ pc'[w] = step /\ link' = link /\ code' = code /\ pair' = pair
              /\ \A v \in Workers \ {w} : pc'[v] = pc[v]
         /\ Finish(w) =>
              /\ pc'[w] = "idle"
              /\ \A v \in Workers \ {w} :
                   pc'[v] = pc[v] /\ link'[v] = link[v] /\ code'[v] = code[v] /\ pair'[v] = pair[v]
         /\ \A step \in Steps, l \in Links, k \in 0..MaxCodes, p \in 0..MaxPairs :
              Begin(w, step, l, k, p) =>
              /\ pc[w] = "idle" /\ pc'[w] = step /\ link'[w] = l /\ code'[w] = k /\ pair'[w] = p
              /\ \A v \in Workers \ {w} :
                   pc'[v] = pc[v] /\ link'[v] = link[v] /\ code'[v] = code[v] /\ pair'[v] = pair[v]
BY DEF WorkersTyped, Goto, Finish, Begin

\* The insertion of a pair leaves the worker that made it with the pair, or finished.
LEMMA Inserted ==
  ASSUME Typed, NEW w \in Workers, InsertPair(w)
  PROVE  /\ drawn' = drawn + 1 /\ drawn + 1 \in Pairs /\ link[w] \in Links
         /\ pc'[w] \in {"idle", "link"}
         /\ \A v \in Workers \ {w} :
              pc'[v] = pc[v] /\ link'[v] = link[v] /\ code'[v] = code[v] /\ pair'[v] = pair[v]
         /\ pairOf'[drawn + 1] = link[w] /\ from'[drawn + 1] = code[w]
         /\ \A p \in Pairs \ {drawn + 1} : pairOf'[p] = pairOf[p] /\ from'[p] = from[p]
         /\ \/ broken' = broken \cup {link[w]}
            \/ drawn + 1 \in sent'
            \/ pc'[w] = "link" /\ pair'[w] = drawn + 1 /\ link'[w] = link[w]
         /\ sent \subseteq sent'
<1> USE LinkAssumptions
<1>0. WorkersTyped /\ PairsTyped /\ HistoryTyped /\ CodesTyped
  BY DEF Typed
<1>1. drawn' = drawn + 1 /\ drawn + 1 \in Pairs /\ link[w] \in Links
  BY <1>0, Bounded DEF InsertPair, WorkersTyped, CodesTyped, PairsTyped, Pairs
<1>2. /\ pairOf'[drawn + 1] = link[w] /\ from'[drawn + 1] = code[w]
      /\ \A p \in Pairs \ {drawn + 1} : pairOf'[p] = pairOf[p] /\ from'[p] = from[p]
  BY <1>0, <1>1 DEF InsertPair, PairsTyped, HistoryTyped
<1>3. CASE Finish(w)
  <2>1. drawn + 1 \in sent' \/ broken' = broken \cup {link[w]}
    BY <1>0, <1>3, <1>1 DEF InsertPair, Hand, Finish, WorkersTyped
  <2>2. sent \subseteq sent'
    BY <1>0, <1>3 DEF InsertPair, Hand
  <2> QED
    BY <1>0, <1>1, <1>2, <1>3, <2>1, <2>2, OneMoves
<1>4. CASE /\ pc' = [pc EXCEPT ![w] = "link"] /\ pair' = [pair EXCEPT ![w] = drawn + 1]
           /\ UNCHANGED <<link, code, sent>>
  BY <1>0, <1>1, <1>2, <1>4 DEF WorkersTyped
<1> QED
  BY <1>3, <1>4 DEF InsertPair, Hand

-----------------------------------------------------------------------------

\* Who holds a code that was read by one exchange at a time and marked: at most one
\* worker, it has marked it from the UPDATE on, and no pair has come of it yet.
Holds(w) == pc[w] \in {"mark", "revoke", "insert"}

CodesHeld ==
  \A w \in Workers : Holds(w) /\ code[w] \notin loose \cup {0} =>
    /\ \A v \in Workers : Holds(v) /\ code[v] = code[w] => v = w
    /\ pc[w] # "mark" => code[w] \in used
    /\ \A p \in Pairs : from[p] # code[w]

PairsMarked == \A p \in Pairs : from[p] \notin loose \cup {0} => from[p] \in used

CodeInv == CodesHeld /\ PairsMarked /\ CodeSpentOnce

\* Steps that take no code leave the invariant alone: nobody new holds a code, no
\* worker gets a code, and the marks, the pairs and their codes are the same.
LEMMA CodesAlone ==
  ASSUME CodeInv, UNCHANGED <<used, from, loose>>,
         \A w \in Workers : Holds(w)' =>
           \/ code'[w] = 0
           \/ Holds(w) /\ code'[w] = code[w] /\ (pc'[w] # "mark" => pc[w] # "mark")
  PROVE  CodeInv'
BY DEF CodeInv, CodesHeld, PairsMarked, CodeSpentOnce, Holds

\* The invariant is kept by every step.
LEMMA CodeNext == Typed /\ CodeInv /\ [Next]_vars => CodeInv'
<1> SUFFICES ASSUME Typed, CodeInv, [Next]_vars PROVE CodeInv'
  OBVIOUS
<1> USE LinkAssumptions
<1>0. WorkersTyped /\ CodesTyped /\ PairsTyped /\ HistoryTyped
  BY DEF Typed
<1>f. ASSUME NEW w \in Workers, Finish(w), UNCHANGED <<used, from, loose>> PROVE CodeInv'
  BY <1>0, <1>f, OneMoves, CodesAlone DEF Holds
<1>b. ASSUME NEW w \in Workers, NEW step \in Steps, NEW l \in Links, NEW p \in Pairs,
             Begin(w, step, l, 0, p), UNCHANGED <<used, from, loose>>
      PROVE  CodeInv'
  <2>1. 0 \in 0..MaxCodes /\ p \in 0..MaxPairs
    BY DEF Pairs
  <2> QED
    BY <1>0, <1>b, <2>1, OneMoves, CodesAlone DEF Holds
<1>1. ASSUME NEW w \in Workers, NEW k \in Codes, ExchangeAuthCode(w, k) PROVE CodeInv'
  <2>1. /\ pc'[w] = "mark" /\ code'[w] = k
        /\ \A v \in Workers \ {w} : pc'[v] = pc[v] /\ code'[v] = code[v]
    BY <1>0, <1>1 DEF ExchangeAuthCode, Begin, WorkersTyped
  <2>2. k \notin used /\ UNCHANGED <<used, from>> /\ loose \subseteq loose'
    BY <1>1 DEF ExchangeAuthCode, codeVars
  <2>3. \A v \in Workers : pc[v] = "mark" /\ code[v] = k => k \in loose'
    BY <1>1 DEF ExchangeAuthCode
  <2>4. k # 0
    BY DEF Codes
  <2>5. CodesHeld'
    <3> SUFFICES ASSUME NEW v \in Workers, Holds(v)', code'[v] \notin loose' \cup {0}
                 PROVE  /\ \A x \in Workers : Holds(x)' /\ code'[x] = code'[v] => x = v
                        /\ pc'[v] # "mark" => code'[v] \in used'
                        /\ \A p \in Pairs : from'[p] # code'[v]
      BY DEF CodesHeld
    <3>1. CASE v = w
      BY <2>1, <2>2, <2>3, <2>4, <3>1 DEF CodeInv, CodesHeld, PairsMarked, Holds
    <3>2. CASE v # w
      <4>1. code[v] # k
        BY <2>1, <2>2, <2>3, <3>2 DEF CodeInv, CodesHeld, Holds
      <4> QED
        BY <2>1, <2>2, <3>2, <4>1 DEF CodeInv, CodesHeld, Holds
    <3> QED
      BY <3>1, <3>2
  <2> QED
    BY <2>2, <2>5 DEF CodeInv, PairsMarked, CodeSpentOnce
<1>2. ASSUME NEW w \in Workers, NEW p \in Pairs, RotateRefreshToken(w, p) PROVE CodeInv'
  <2>1. pairOf[p] \in Links
    BY <1>0, <1>2 DEF RotateRefreshToken, PairsTyped
  <2> QED
    BY <1>2, <1>b, <2>1 DEF RotateRefreshToken, codeVars, history, Steps
<1>3. ASSUME NEW w \in Workers, NEW p \in Pairs, Disconnect(w, p) PROVE CodeInv'
  <2>1. pairOf[p] \in Links
    BY <1>0, <1>3 DEF Disconnect, PairsTyped
  <2> QED
    BY <1>3, <1>b, <2>1 DEF Disconnect, codeVars, history, Steps
<1>4. ASSUME NEW w \in Workers, MarkCode(w) PROVE CodeInv'
  <2>1. /\ pc[w] = "mark" /\ pc'[w] = "revoke" /\ code' = code
        /\ \A v \in Workers \ {w} : pc'[v] = pc[v]
    BY <1>0, <1>4, OneMoves DEF MarkCode, Steps
  <2>2. /\ UNCHANGED from /\ used \subseteq used' /\ loose \subseteq loose'
        /\ code[w] \in used' \/ code[w] \in loose'
    BY <1>4 DEF MarkCode
  <2> QED
    BY <2>1, <2>2 DEF CodeInv, CodesHeld, PairsMarked, CodeSpentOnce, Holds
<1>5. ASSUME NEW w \in Workers, EndPair(w) PROVE CodeInv'
  <2>1. code'[w] = 0 /\ code' = code /\ \A v \in Workers \ {w} : pc'[v] = pc[v]
    BY <1>0, <1>5, OneMoves DEF EndPair, WorkersTyped, Steps
  <2> QED
    BY <1>5, <2>1, CodesAlone DEF EndPair, codeVars, history, Holds
<1>6. ASSUME NEW w \in Workers, RevokePairs(w) PROVE CodeInv'
  <2>1. /\ pc[w] = "revoke" /\ pc'[w] = "insert" /\ code' = code
        /\ \A v \in Workers \ {w} : pc'[v] = pc[v]
    BY <1>0, <1>6, OneMoves DEF RevokePairs, Steps
  <2> QED
    BY <1>6, <2>1, CodesAlone DEF RevokePairs, codeVars, Holds
<1>7. ASSUME NEW w \in Workers, InsertPair(w) PROVE CodeInv'
  <2>1. /\ ~ Holds(w)' /\ Holds(w) /\ pc[w] # "mark"
        /\ \A v \in Workers \ {w} : pc'[v] = pc[v] /\ code'[v] = code[v]
        /\ from'[drawn + 1] = code[w] /\ \A p \in Pairs \ {drawn + 1} : from'[p] = from[p]
    BY <1>7, Inserted DEF InsertPair, Holds
  <2>2. UNCHANGED <<used, loose>>
    BY <1>7 DEF InsertPair, codeVars
  <2>3. code[w] \notin loose \cup {0} =>
          /\ code[w] \in used /\ \A p \in Pairs : from[p] # code[w]
          /\ \A v \in Workers : Holds(v) /\ code[v] = code[w] => v = w
    BY <2>1 DEF CodeInv, CodesHeld
  <2>4. CodesHeld'
    BY <2>1, <2>2, <2>3 DEF CodeInv, CodesHeld, Holds
  <2>5. PairsMarked' /\ CodeSpentOnce'
    BY <2>1, <2>2, <2>3 DEF CodeInv, PairsMarked, CodeSpentOnce
  <2> QED
    BY <2>4, <2>5 DEF CodeInv
<1>8. ASSUME NEW w \in Workers, InsertFails(w) PROVE CodeInv'
  BY <1>8, <1>f DEF InsertFails, codeVars
<1>9. ASSUME NEW w \in Workers, Crash(w) PROVE CodeInv'
  BY <1>9, <1>f DEF Crash, codeVars
<1>10. ASSUME NEW w \in Workers, LinkAccount(w) PROVE CodeInv'
  BY <1>10, <1>f DEF LinkAccount, codeVars
<1>11. ASSUME NEW w \in Workers, Unlink(w) PROVE CodeInv'
  BY <1>11, <1>f DEF Unlink, codeVars
<1>12. ASSUME NEW l \in Links, Authorize(l) PROVE CodeInv'
  BY <1>12, CodesAlone DEF Authorize, CreateAuthCode, workerVars, history, Holds
<1>13. ASSUME NEW p \in Pairs, RevokeByToken(p) PROVE CodeInv'
  BY <1>13, CodesAlone DEF RevokeByToken, workerVars, codeVars, Holds
<1>14. ASSUME NEW u \in Users, DeleteUser(u) PROVE CodeInv'
  BY <1>14, CodesAlone DEF DeleteUser, workerVars, history, Holds
<1>15. CASE UNCHANGED vars
  BY <1>15, CodesAlone DEF vars, workerVars, codeVars, history, Holds
<1> QED
  BY <1>1, <1>2, <1>3, <1>4, <1>5, <1>6, <1>7, <1>8, <1>9, <1>10, <1>11, <1>12, <1>13, <1>14,
     <1>15 DEF Next

\* A code is worth one pair of tokens, unless it was read twice before it was marked
\* or the mark was lost.
THEOREM CodesAreSpentOnce == Spec => []CodeSpentOnce
<1>1. Init => CodeInv
  BY DEF Init, CodeInv, CodesHeld, PairsMarked, CodeSpentOnce, Holds
<1>2. Spec => [](Typed /\ CodeInv)
  BY <1>1, InitTyped, TypedNext, CodeNext, PTL DEF Spec
<1> QED
  BY <1>2, PTL DEF CodeInv

-----------------------------------------------------------------------------

\* Where issues have not overlapped there is one live pair, and none while a new one
\* is about to be inserted.
LiveInv ==
  \A l \in Links \ doubled :
    /\ \A p, q \in Live(l) : p = q
    /\ At(l, {"insert"}) # {} => Live(l) = {}

\* The live pairs of a link without a new pair are at most those before.
LEMMA LiveShrinks ==
  ASSUME revoked \subseteq revoked', \A p \in Pairs : pairOf'[p] \in {pairOf[p], None}, NEW l \in Links
  PROVE  Live(l)' \subseteq Live(l)
BY LinkAssumptions DEF Live

\* Steps that insert nothing and send nobody to the insertion keep it.
LEMMA LiveAlone ==
  ASSUME LiveInv, revoked \subseteq revoked', \A p \in Pairs : pairOf'[p] \in {pairOf[p], None},
         doubled' = doubled,
         \A w \in Workers : pc'[w] = "insert" => pc[w] = "insert" /\ link'[w] = link[w]
  PROVE  LiveInv'
<1>1. \A l \in Links : Live(l)' \subseteq Live(l) /\ At(l, {"insert"})' \subseteq At(l, {"insert"})
  BY LiveShrinks DEF At
<1> QED
  BY <1>1 DEF LiveInv

\* The invariant is kept by every step.
LEMMA LiveNext == Typed /\ LiveInv /\ [Next]_vars => LiveInv'
<1> SUFFICES ASSUME Typed, LiveInv, [Next]_vars PROVE LiveInv'
  OBVIOUS
<1> USE LinkAssumptions
<1>0. WorkersTyped /\ CodesTyped /\ PairsTyped /\ HistoryTyped
  BY DEF Typed
<1>k. UNCHANGED pairOf => \A p \in Pairs : pairOf'[p] \in {pairOf[p], None}
  OBVIOUS
<1>f. ASSUME NEW w \in Workers, Finish(w), UNCHANGED <<pairOf, revoked, doubled>> PROVE LiveInv'
  BY <1>0, <1>f, <1>k, OneMoves, LiveAlone
<1>b. ASSUME NEW w \in Workers, NEW step \in Steps \ {"insert"}, NEW l \in Links, NEW k \in 0..MaxCodes,
             NEW p \in 0..MaxPairs, Begin(w, step, l, k, p), UNCHANGED <<pairOf, revoked, doubled>>
      PROVE  LiveInv'
  BY <1>0, <1>b, <1>k, OneMoves, LiveAlone
<1>g. ASSUME NEW w \in Workers, NEW step \in Steps \ {"insert"}, Goto(w, step), revoked \subseteq revoked',
             UNCHANGED <<pairOf, doubled>>
      PROVE  LiveInv'
  BY <1>0, <1>g, <1>k, OneMoves, LiveAlone
<1>n. 0 \in 0..MaxPairs /\ 0 \in 0..MaxCodes /\ Codes \subseteq 0..MaxCodes /\ Pairs \subseteq 0..MaxPairs
  BY DEF Codes, Pairs
<1>1. ASSUME NEW w \in Workers, NEW k \in Codes, ExchangeAuthCode(w, k) PROVE LiveInv'
  <2>1. codeOf[k] \in Links
    BY <1>0, <1>1 DEF ExchangeAuthCode, CodesTyped
  <2> QED
    BY <1>1, <1>b, <1>n, <2>1 DEF ExchangeAuthCode, pairVars, Steps
<1>2. ASSUME NEW w \in Workers, NEW p \in Pairs, RotateRefreshToken(w, p) PROVE LiveInv'
  <2>1. pairOf[p] \in Links
    BY <1>0, <1>2 DEF RotateRefreshToken, PairsTyped
  <2> QED
    BY <1>2, <1>b, <1>n, <2>1 DEF RotateRefreshToken, pairVars, history, Steps
<1>3. ASSUME NEW w \in Workers, NEW p \in Pairs, Disconnect(w, p) PROVE LiveInv'
  <2>1. pairOf[p] \in Links
    BY <1>0, <1>3 DEF Disconnect, PairsTyped
  <2> QED
    BY <1>3, <1>b, <1>n, <2>1 DEF Disconnect, pairVars, history, Steps
<1>4. ASSUME NEW w \in Workers, MarkCode(w) PROVE LiveInv'
  BY <1>4, <1>g DEF MarkCode, pairVars, Steps
<1>5. ASSUME NEW w \in Workers, EndPair(w) PROVE LiveInv'
  BY <1>5, <1>g DEF EndPair, history, Steps
<1>6. ASSUME NEW w \in Workers, RevokePairs(w) PROVE LiveInv'
  <2>1. /\ link[w] \in Links /\ pc'[w] = "insert" /\ link' = link
        /\ \A v \in Workers \ {w} : pc'[v] = pc[v]
    BY <1>0, <1>6, OneMoves DEF RevokePairs, WorkersTyped, Steps
  <2>2. revoked \subseteq revoked' /\ UNCHANGED pairOf
    BY <1>6 DEF RevokePairs
  <2>3. ASSUME NEW l \in Links \ doubled', l # link[w]
        PROVE  l \notin doubled /\ Live(l)' \subseteq Live(l) /\ At(l, {"insert"})' = At(l, {"insert"})
    BY <1>6, <2>1, <2>2, <2>3, <1>k, LiveShrinks DEF RevokePairs, At
  <2>4. link[w] \in doubled' \/ Live(link[w])' = {}
    BY <1>6, <2>1, <2>2 DEF RevokePairs, Live
  <2> QED
    BY <2>1, <2>3, <2>4 DEF LiveInv
<1>7. ASSUME NEW w \in Workers, InsertPair(w) PROVE LiveInv'
  <2>1. /\ link[w] \in Links /\ pc'[w] # "insert" /\ pc[w] = "insert"
        /\ \A v \in Workers \ {w} : pc'[v] = pc[v] /\ link'[v] = link[v]
        /\ drawn + 1 \in Pairs /\ pairOf'[drawn + 1] = link[w]
        /\ \A p \in Pairs \ {drawn + 1} : pairOf'[p] = pairOf[p]
    BY <1>7, Inserted DEF InsertPair
  <2>2. revoked' = revoked
    BY <1>7 DEF InsertPair
  <2>3. ASSUME NEW l \in Links \ doubled', l # link[w]
        PROVE  l \notin doubled /\ Live(l)' \subseteq Live(l) /\ At(l, {"insert"})' \subseteq At(l, {"insert"})
    BY <1>7, <2>1, <2>2, <2>3 DEF InsertPair, At, Live
  <2>4. ASSUME NEW l \in Links \ doubled', l = link[w]
        PROVE  Live(l)' \subseteq {drawn + 1} /\ At(l, {"insert"})' = {}
    <3>1. At(l, {"insert"}) = {w} /\ l \notin doubled
      BY <1>7, <2>4 DEF InsertPair
    <3>2. Live(l) = {}
      BY <2>1, <3>1 DEF LiveInv
    <3>3. Live(l)' \subseteq {drawn + 1}
      BY <2>1, <2>2, <3>2 DEF Live
    <3>4. At(l, {"insert"})' = {}
      BY <2>1, <3>1 DEF At
    <3> QED
      BY <3>3, <3>4
  <2> QED
    BY <2>1, <2>3, <2>4 DEF LiveInv
<1>8. ASSUME NEW w \in Workers, InsertFails(w) PROVE LiveInv'
  BY <1>8, <1>f DEF InsertFails, pairVars
<1>9. ASSUME NEW w \in Workers, Crash(w) PROVE LiveInv'
  BY <1>9, <1>f DEF Crash, pairVars
<1>10. ASSUME NEW w \in Workers, LinkAccount(w) PROVE LiveInv'
  BY <1>10, <1>f DEF LinkAccount
<1>11. ASSUME NEW w \in Workers, Unlink(w) PROVE LiveInv'
  BY <1>11, <1>f DEF Unlink, pairVars
<1>12. ASSUME NEW l \in Links, Authorize(l) PROVE LiveInv'
  BY <1>12, <1>k, LiveAlone DEF Authorize, CreateAuthCode, workerVars, pairVars, history
<1>13. ASSUME NEW p \in Pairs, RevokeByToken(p) PROVE LiveInv'
  BY <1>13, <1>k, LiveAlone DEF RevokeByToken, workerVars
<1>14. ASSUME NEW u \in Users, DeleteUser(u) PROVE LiveInv'
  <2>1. \A p \in Pairs : pairOf'[p] \in {pairOf[p], None}
    BY <1>14 DEF DeleteUser
  <2> QED
    BY <1>14, <2>1, LiveAlone DEF DeleteUser, workerVars, history
<1>15. CASE UNCHANGED vars
  BY <1>15, <1>k, LiveAlone DEF vars, workerVars, pairVars, history
<1> QED
  BY <1>1, <1>2, <1>3, <1>4, <1>5, <1>6, <1>7, <1>8, <1>9, <1>10, <1>11, <1>12, <1>13, <1>14,
     <1>15 DEF Next

\* No user and client have two live pairs, unless two issues for them overlapped or one
\* could not revoke.
THEOREM PairsAreReplaced == Spec => []OneLivePair
<1>1. Init => LiveInv
  BY LinkAssumptions DEF Init, LiveInv, Live, At
<1>2. LiveInv => OneLivePair
  BY DEF LiveInv, OneLivePair
<1> QED
  BY <1>1, <1>2, InitTyped, TypedNext, LiveNext, PTL DEF Spec

-----------------------------------------------------------------------------

\* A link whose client has revoked its last pair: nothing lives and nothing is issued.
EndInv == \A l \in ended : Live(l) = {} /\ At(l, Issuing) = {}

\* Steps that insert nothing and start no issue keep it.
LEMMA EndAlone ==
  ASSUME EndInv, ended \subseteq Links, revoked \subseteq revoked',
         \A p \in Pairs : pairOf'[p] \in {pairOf[p], None}, ended' \subseteq ended,
         \A w \in Workers : pc'[w] \in Issuing =>
           link'[w] \notin ended' \/ (pc[w] \in Issuing /\ link'[w] = link[w])
  PROVE  EndInv'
<1>1. \A l \in ended' : Live(l)' \subseteq Live(l) /\ At(l, Issuing)' \subseteq At(l, Issuing)
  BY LiveShrinks DEF At
<1> QED
  BY <1>1 DEF EndInv

\* The invariant is kept by every step.
LEMMA EndNext == Typed /\ EndInv /\ [Next]_vars => EndInv'
<1> SUFFICES ASSUME Typed, EndInv, [Next]_vars PROVE EndInv'
  OBVIOUS
<1> USE LinkAssumptions
<1>0. WorkersTyped /\ CodesTyped /\ PairsTyped /\ HistoryTyped /\ ended \subseteq Links
  BY DEF Typed, HistoryTyped
<1>k. UNCHANGED pairOf => \A p \in Pairs : pairOf'[p] \in {pairOf[p], None}
  OBVIOUS
<1>n. 0 \in 0..MaxPairs /\ 0 \in 0..MaxCodes /\ Codes \subseteq 0..MaxCodes /\ Pairs \subseteq 0..MaxPairs
  BY DEF Codes, Pairs
<1>f. ASSUME NEW w \in Workers, Finish(w), UNCHANGED <<pairOf, revoked, ended>> PROVE EndInv'
  <2>1. \A v \in Workers : pc'[v] \in Issuing => pc[v] \in Issuing /\ link'[v] = link[v]
    BY <1>0, <1>f, OneMoves DEF Issuing
  <2> QED
    BY <1>0, <1>f, <1>k, <2>1, EndAlone
<1>g. ASSUME NEW w \in Workers, NEW step \in Steps, Goto(w, step), pc[w] \in Issuing,
             revoked \subseteq revoked', UNCHANGED <<pairOf, ended>>
      PROVE  EndInv'
  <2>1. \A v \in Workers : pc'[v] \in Issuing => pc[v] \in Issuing /\ link'[v] = link[v]
    BY <1>0, <1>g, OneMoves
  <2> QED
    BY <1>0, <1>g, <1>k, <2>1, EndAlone
<1>1. ASSUME NEW w \in Workers, NEW k \in Codes, ExchangeAuthCode(w, k) PROVE EndInv'
  <2>1. codeOf[k] \in Links
    BY <1>0, <1>1 DEF ExchangeAuthCode, CodesTyped
  <2>2. \A v \in Workers : pc'[v] \in Issuing =>
          link'[v] \notin ended' \/ (pc[v] \in Issuing /\ link'[v] = link[v])
    BY <1>0, <1>1, <1>n, <2>1, OneMoves DEF ExchangeAuthCode, Steps
  <2> QED
    BY <1>0, <1>1, <1>k, <2>2, EndAlone DEF ExchangeAuthCode, pairVars
<1>2. ASSUME NEW w \in Workers, NEW p \in Pairs, RotateRefreshToken(w, p) PROVE EndInv'
  <2>1. pairOf[p] \in Links \ ended
    BY <1>0, <1>2 DEF RotateRefreshToken, PairsTyped, EndInv, Live
  <2>2. \A v \in Workers : pc'[v] \in Issuing =>
          link'[v] \notin ended \/ (pc[v] \in Issuing /\ link'[v] = link[v])
    BY <1>0, <1>2, <1>n, <2>1, OneMoves DEF RotateRefreshToken, Steps
  <2> QED
    BY <1>0, <1>2, <1>k, <2>2, EndAlone DEF RotateRefreshToken, pairVars, history
<1>3. ASSUME NEW w \in Workers, NEW p \in Pairs, Disconnect(w, p) PROVE EndInv'
  <2>1. pairOf[p] \in Links
    BY <1>0, <1>3 DEF Disconnect, PairsTyped
  <2>2. \A v \in Workers : pc'[v] \in Issuing => pc[v] \in Issuing /\ link'[v] = link[v]
    BY <1>0, <1>3, <1>n, <2>1, OneMoves DEF Disconnect, Steps, Issuing
  <2> QED
    BY <1>0, <1>3, <1>k, <2>2, EndAlone DEF Disconnect, pairVars, history
<1>4. ASSUME NEW w \in Workers, MarkCode(w) PROVE EndInv'
  BY <1>4, <1>g DEF MarkCode, pairVars, Steps, Issuing
<1>5. ASSUME NEW w \in Workers, EndPair(w) PROVE EndInv'
  BY <1>5, <1>g DEF EndPair, history, Steps, Issuing
<1>6. ASSUME NEW w \in Workers, RevokePairs(w) PROVE EndInv'
  BY <1>6, <1>g DEF RevokePairs, Steps, Issuing
<1>7. ASSUME NEW w \in Workers, InsertPair(w) PROVE EndInv'
  <2>1. /\ link[w] \in Links /\ pc'[w] \notin Issuing /\ pc[w] \in Issuing
        /\ \A v \in Workers \ {w} : pc'[v] = pc[v] /\ link'[v] = link[v]
        /\ drawn + 1 \in Pairs /\ pairOf'[drawn + 1] = link[w]
        /\ \A p \in Pairs \ {drawn + 1} : pairOf'[p] = pairOf[p]
    BY <1>7, Inserted DEF InsertPair, Issuing
  <2>2. revoked' = revoked /\ ended' = ended
    BY <1>7 DEF InsertPair
  <2>3. link[w] \notin ended
    BY <2>1 DEF EndInv, At
  <2>4. \A l \in ended : Live(l)' \subseteq Live(l) /\ At(l, Issuing)' \subseteq At(l, Issuing)
    BY <2>1, <2>2, <2>3 DEF Live, At
  <2> QED
    BY <2>2, <2>4 DEF EndInv
<1>8. ASSUME NEW w \in Workers, InsertFails(w) PROVE EndInv'
  BY <1>8, <1>f DEF InsertFails, pairVars
<1>9. ASSUME NEW w \in Workers, Crash(w) PROVE EndInv'
  BY <1>9, <1>f DEF Crash, pairVars
<1>10. ASSUME NEW w \in Workers, LinkAccount(w) PROVE EndInv'
  BY <1>10, <1>f DEF LinkAccount
<1>11. ASSUME NEW w \in Workers, Unlink(w) PROVE EndInv'
  BY <1>11, <1>f DEF Unlink, pairVars
<1>12. ASSUME NEW l \in Links, Authorize(l) PROVE EndInv'
  BY <1>0, <1>12, <1>k, EndAlone DEF Authorize, CreateAuthCode, workerVars, pairVars, history
<1>13. ASSUME NEW p \in Pairs, RevokeByToken(p) PROVE EndInv'
  <2>1. /\ UNCHANGED <<pairOf, pc, link>> /\ revoked' = revoked \cup {p}
        /\ pairOf[p] \in Links
    BY <1>0, <1>13 DEF RevokeByToken, workerVars, PairsTyped
  <2>2. \A l \in Links : Live(l)' = Live(l) \ {p} /\ At(l, Issuing)' = At(l, Issuing)
    BY <2>1 DEF Live, At
  <2>3. ASSUME NEW l \in ended' \ ended PROVE Live(l) \subseteq {p} /\ At(l, Issuing) = {} /\ l \in Links
    <3>1. l = pairOf[p] /\ Live(l) \subseteq {p} /\ At(l, Steps) = {}
      BY <1>13, <2>3 DEF RevokeByToken
    <3>2. At(l, Issuing) \subseteq At(l, Steps)
      BY DEF At, Issuing, Steps
    <3> QED
      BY <2>1, <3>1, <3>2
  <2> QED
    BY <1>0, <2>2, <2>3 DEF EndInv
<1>14. ASSUME NEW u \in Users, DeleteUser(u) PROVE EndInv'
  <2>1. \A p \in Pairs : pairOf'[p] \in {pairOf[p], None}
    BY <1>14 DEF DeleteUser
  <2> QED
    BY <1>0, <1>14, <2>1, EndAlone DEF DeleteUser, workerVars, history
<1>15. CASE UNCHANGED vars
  BY <1>0, <1>15, <1>k, EndAlone DEF vars, workerVars, pairVars, history
<1> QED
  BY <1>1, <1>2, <1>3, <1>4, <1>5, <1>6, <1>7, <1>8, <1>9, <1>10, <1>11, <1>12, <1>13, <1>14,
     <1>15 DEF Next

\* A link whose client has revoked its last pair has no live pair again before another
\* code is exchanged: no rotation that is under way, or repeated, brings it back.
THEOREM RevocationEnds == Spec => []RevokedEnds
<1>1. Init => EndInv
  BY DEF Init, EndInv
<1>2. EndInv => RevokedEnds
  BY DEF EndInv, RevokedEnds
<1> QED
  BY <1>1, <1>2, InitTyped, TypedNext, EndNext, PTL DEF Spec

-----------------------------------------------------------------------------

\* The newest pair of a link that no request has left halfway.
Latest(p) ==
  /\ pairOf[p] # None /\ p \notin given /\ pairOf[p] \notin broken
  /\ \A q \in Pairs : pairOf[q] = pairOf[p] => q <= p

\* If it is revoked its successor is under way, and if the client does not have it, it is
\* on its way to the client.  A rotation ends a pair of the link it is for.
LastInv ==
  /\ \A p \in Pairs : Latest(p) /\ p \in revoked =>
       \E w \in Workers : pc[w] \in {"revoke", "insert"} /\ link[w] = pairOf[p]
  /\ \A p \in Pairs : Latest(p) /\ p \notin sent =>
       \E w \in Workers : pc[w] = "link" /\ link[w] = pairOf[p] /\ pair[w] = p
  /\ \A w \in Workers : pc[w] = "end" => pairOf[pair[w]] \in {link[w], None}

\* Steps without a new pair keep it, if whoever goes away leaves the link broken or the
\* pair sent, and who revokes a pair is about to insert another.
LEMMA LastAlone ==
  ASSUME Typed, LastInv, UNCHANGED pairOf, broken \subseteq broken', given \subseteq given',
         sent \subseteq sent', NEW w \in Workers,
         \A v \in Workers \ {w} : pc'[v] = pc[v] /\ link'[v] = link[v] /\ pair'[v] = pair[v],
         \A p \in Pairs : Latest(p)' /\ p \in revoked' \ revoked =>
           pc'[w] \in {"revoke", "insert"} /\ link'[w] = pairOf[p],
         pc[w] \in {"revoke", "insert"} =>
           \/ link[w] \in broken'
           \/ pc'[w] \in {"revoke", "insert"} /\ link'[w] = link[w],
         pc[w] = "link" => link[w] \in broken' \/ pair[w] \in sent',
         pc'[w] = "end" => pairOf[pair'[w]] \in {link'[w], None}
  PROVE  LastInv'
<1>1. \A p \in Pairs : Latest(p)' => Latest(p) /\ pairOf[p] \notin broken'
  BY DEF Latest
<1>2. ASSUME NEW p \in Pairs, Latest(p)', p \in revoked'
      PROVE  \E v \in Workers : pc'[v] \in {"revoke", "insert"} /\ link'[v] = pairOf'[p]
  <2>1. CASE p \in revoked
    <3>1. PICK v \in Workers : pc[v] \in {"revoke", "insert"} /\ link[v] = pairOf[p]
      BY <1>1, <1>2, <2>1 DEF LastInv
    <3> QED
      BY <1>1, <1>2, <3>1
  <2>2. CASE p \notin revoked
    BY <1>2, <2>2
  <2> QED
    BY <2>1, <2>2
<1>3. ASSUME NEW p \in Pairs, Latest(p)', p \notin sent'
      PROVE  \E v \in Workers : pc'[v] = "link" /\ link'[v] = pairOf'[p] /\ pair'[v] = p
  <2>1. PICK v \in Workers : pc[v] = "link" /\ link[v] = pairOf[p] /\ pair[v] = p
    BY <1>1, <1>3 DEF LastInv
  <2>2. v # w
    BY <1>1, <1>3, <2>1
  <2> QED
    BY <2>1, <2>2
<1>4. \A v \in Workers : pc'[v] = "end" => pairOf'[pair'[v]] \in {link'[v], None}
  BY DEF LastInv
<1> QED
  BY <1>2, <1>3, <1>4 DEF LastInv

\* The invariant is kept by every step.
LEMMA LastNext == Typed /\ LastInv /\ [Next]_vars => LastInv'
<1> SUFFICES ASSUME Typed, LastInv, [Next]_vars PROVE LastInv'
  OBVIOUS
<1> USE LinkAssumptions
<1>0. WorkersTyped /\ CodesTyped /\ PairsTyped /\ HistoryTyped
  BY DEF Typed
<1>n. 0 \in 0..MaxPairs /\ 0 \in 0..MaxCodes /\ Codes \subseteq 0..MaxCodes /\ Pairs \subseteq 0..MaxPairs
  BY DEF Codes, Pairs
<1>b. ASSUME NEW w \in Workers, NEW step \in {"mark", "end", "unlink"}, NEW l \in Links,
             NEW k \in 0..MaxCodes, NEW p \in 0..MaxPairs, Begin(w, step, l, k, p),
             step = "end" => pairOf[p] = l,
             UNCHANGED <<pairOf, revoked, sent, broken, given>>
      PROVE  LastInv'
  <2>1. /\ pc[w] = "idle" /\ pc'[w] = step /\ link'[w] = l /\ pair'[w] = p
        /\ \A v \in Workers \ {w} : pc'[v] = pc[v] /\ link'[v] = link[v] /\ pair'[v] = pair[v]
    BY <1>0, <1>b, OneMoves DEF Steps
  <2> QED
    BY <1>b, <2>1, LastAlone
<1>s. ASSUME UNCHANGED <<workerVars, pairOf, revoked, broken>>, sent \subseteq sent',
             given \subseteq given'
      PROVE  LastInv'
  BY <1>s DEF LastInv, Latest, workerVars
<1>1. ASSUME NEW w \in Workers, NEW k \in Codes, ExchangeAuthCode(w, k) PROVE LastInv'
  <2>1. codeOf[k] \in Links
    BY <1>0, <1>1 DEF ExchangeAuthCode, CodesTyped
  <2> QED
    BY <1>1, <1>b, <1>n, <2>1 DEF ExchangeAuthCode, pairVars
<1>2. ASSUME NEW w \in Workers, NEW p \in Pairs, RotateRefreshToken(w, p) PROVE LastInv'
  <2>1. pairOf[p] \in Links
    BY <1>0, <1>2 DEF RotateRefreshToken, PairsTyped
  <2> QED
    BY <1>2, <1>b, <1>n, <2>1 DEF RotateRefreshToken, pairVars, history
<1>3. ASSUME NEW w \in Workers, NEW p \in Pairs, Disconnect(w, p) PROVE LastInv'
  <2>1. pairOf[p] \in Links
    BY <1>0, <1>3 DEF Disconnect, PairsTyped
  <2> QED
    BY <1>3, <1>b, <1>n, <2>1 DEF Disconnect, pairVars, history
<1>4. ASSUME NEW w \in Workers, MarkCode(w) PROVE LastInv'
  <2>1. /\ pc[w] = "mark" /\ pc'[w] = "revoke" /\ link' = link /\ pair' = pair
        /\ \A v \in Workers \ {w} : pc'[v] = pc[v]
    BY <1>0, <1>4, OneMoves DEF MarkCode, Steps
  <2> QED
    BY <1>4, <2>1, LastAlone DEF MarkCode, pairVars
<1>5. ASSUME NEW w \in Workers, EndPair(w) PROVE LastInv'
  <2>1. /\ pc[w] = "end" /\ pc'[w] = "revoke" /\ link' = link /\ pair' = pair
        /\ \A v \in Workers \ {w} : pc'[v] = pc[v]
    BY <1>0, <1>5, OneMoves DEF EndPair, Steps
  <2>2. UNCHANGED <<pairOf, sent, broken, given>> /\ revoked' \subseteq revoked \cup {pair[w]}
    BY <1>5 DEF EndPair, history
  <2>3. \A p \in Pairs : Latest(p)' /\ p \in revoked' \ revoked => link[w] = pairOf[p]
    BY <2>1, <2>2 DEF LastInv, Latest
  <2> QED
    BY <2>1, <2>2, <2>3, LastAlone
<1>6. ASSUME NEW w \in Workers, RevokePairs(w) PROVE LastInv'
  <2>1. /\ pc[w] = "revoke" /\ pc'[w] = "insert" /\ link' = link /\ pair' = pair
        /\ \A v \in Workers \ {w} : pc'[v] = pc[v]
    BY <1>0, <1>6, OneMoves DEF RevokePairs, Steps
  <2>2. UNCHANGED <<pairOf, sent, broken, given>> /\ revoked' \subseteq revoked \cup Live(link[w])
    BY <1>6 DEF RevokePairs
  <2>3. \A p \in Pairs : p \in revoked' \ revoked => link[w] = pairOf[p]
    BY <2>2 DEF Live
  <2> QED
    BY <2>1, <2>2, <2>3, LastAlone
<1>7. ASSUME NEW w \in Workers, InsertPair(w) PROVE LastInv'
  <2>1. /\ pc'[w] \in {"idle", "link"} /\ pc[w] = "insert"
        /\ \A v \in Workers \ {w} : pc'[v] = pc[v] /\ link'[v] = link[v] /\ pair'[v] = pair[v]
        /\ pairOf'[drawn + 1] = link[w]
        /\ \A p \in Pairs \ {drawn + 1} : pairOf'[p] = pairOf[p]
        /\ \/ broken' = broken \cup {link[w]}
           \/ drawn + 1 \in sent'
           \/ pc'[w] = "link" /\ pair'[w] = drawn + 1 /\ link'[w] = link[w]
        /\ sent \subseteq sent' /\ link[w] \in Links /\ drawn + 1 \in Pairs
    BY <1>7, Inserted DEF InsertPair
  <2>2. /\ UNCHANGED <<revoked, given>>
        /\ broken' = broken \cup {link[w]} \/ broken' = broken \ {link[w]}
    BY <1>7 DEF InsertPair
  <2>3. drawn \in Nat /\ drawn + 1 \notin revoked
    BY <1>0 DEF PairsTyped
  <2>4. \A p \in Pairs : pairOf[p] # None => p <= drawn
    BY <1>0, <2>3 DEF PairsTyped, Pairs
  <2>5. ASSUME NEW p \in Pairs, Latest(p)', p # drawn + 1
        PROVE  Latest(p) /\ pairOf'[p] = pairOf[p] /\ pairOf[p] # link[w]
    <3>1. pairOf'[p] = pairOf[p] /\ pairOf[p] # None
      BY <2>1, <2>5 DEF Latest
    <3>2. pairOf[p] # link[w]
      <4>1. p <= drawn /\ p \in Nat
        BY <2>4, <3>1 DEF Pairs
      <4>2. pairOf'[drawn + 1] = pairOf'[p] => drawn + 1 <= p
        BY <2>1, <2>5 DEF Latest
      <4> QED
        BY <2>1, <2>3, <3>1, <4>1, <4>2
    <3>3. pairOf[p] \notin broken
      BY <2>2, <2>5, <3>1, <3>2 DEF Latest
    <3>4. \A q \in Pairs : pairOf[q] = pairOf[p] => q <= p
      <4>1. \A q \in Pairs : q # drawn + 1 => (pairOf[q] = pairOf[p] => q <= p)
        BY <2>1, <2>5, <3>1 DEF Latest
      <4>2. pairOf[drawn + 1] = None
        BY <1>0, <2>1, <2>3 DEF PairsTyped
      <4> QED
        BY <3>1, <4>1, <4>2
    <3> QED
      BY <2>2, <2>5, <3>1, <3>2, <3>3, <3>4 DEF Latest
  <2>6. ASSUME NEW p \in Pairs, Latest(p)', p \in revoked'
        PROVE  \E v \in Workers : pc'[v] \in {"revoke", "insert"} /\ link'[v] = pairOf'[p]
    <3>1. p # drawn + 1
      BY <2>2, <2>3, <2>6
    <3>2. PICK v \in Workers : pc[v] \in {"revoke", "insert"} /\ link[v] = pairOf[p]
      BY <2>2, <2>5, <2>6, <3>1 DEF LastInv
    <3>3. v # w
      BY <2>5, <2>6, <3>1, <3>2
    <3> QED
      BY <2>1, <2>5, <2>6, <3>1, <3>2, <3>3
  <2>7. ASSUME NEW p \in Pairs, Latest(p)', p \notin sent'
        PROVE  \E v \in Workers : pc'[v] = "link" /\ link'[v] = pairOf'[p] /\ pair'[v] = p
    <3>1. CASE p = drawn + 1
      <4>1. link[w] \notin broken'
        BY <2>1, <2>7, <3>1 DEF Latest
      <4>2. pc'[w] = "link" /\ pair'[w] = drawn + 1 /\ link'[w] = link[w]
        BY <2>1, <2>7, <3>1, <4>1
      <4> QED
        BY <2>1, <3>1, <4>2
    <3>2. CASE p # drawn + 1
      <4>1. PICK v \in Workers : pc[v] = "link" /\ link[v] = pairOf[p] /\ pair[v] = p
        BY <2>1, <2>5, <2>7, <3>2 DEF LastInv
      <4>2. v # w
        BY <2>1, <4>1
      <4> QED
        BY <2>1, <2>5, <2>7, <3>2, <4>1, <4>2
    <3> QED
      BY <3>1, <3>2
  <2>8. ASSUME NEW v \in Workers, pc'[v] = "end" PROVE pairOf'[pair'[v]] \in {link'[v], None}
    <3>1. v # w /\ pc[v] = "end"
      BY <2>1, <2>8
    <3>2. pair[v] \in Pairs /\ pair[v] # drawn + 1
      BY <1>0, <2>3, <3>1 DEF WorkersTyped, PairsTyped, Pairs
    <3> QED
      BY <2>1, <3>1, <3>2 DEF LastInv
  <2> QED
    BY <2>6, <2>7, <2>8 DEF LastInv
<1>8. ASSUME NEW w \in Workers, pc[w] # "idle", Finish(w), broken' = broken \cup {link[w]},
             UNCHANGED <<pairOf, revoked, sent, given>>
      PROVE  LastInv'
  <2>1. /\ pc'[w] = "idle"
        /\ \A v \in Workers \ {w} : pc'[v] = pc[v] /\ link'[v] = link[v] /\ pair'[v] = pair[v]
    BY <1>0, <1>8, OneMoves
  <2> QED
    BY <1>8, <2>1, LastAlone
<1>9. ASSUME NEW w \in Workers, InsertFails(w) PROVE LastInv'
  BY <1>8, <1>9 DEF InsertFails, pairVars
<1>10. ASSUME NEW w \in Workers, Crash(w) PROVE LastInv'
  BY <1>8, <1>10 DEF Crash, pairVars
<1>11. ASSUME NEW w \in Workers, LinkAccount(w) PROVE LastInv'
  <2>1. /\ pc[w] = "link" /\ pc'[w] = "idle"
        /\ \A v \in Workers \ {w} : pc'[v] = pc[v] /\ link'[v] = link[v] /\ pair'[v] = pair[v]
    BY <1>0, <1>11, OneMoves DEF LinkAccount
  <2>2. UNCHANGED <<pairOf, revoked, broken, given>> /\ sent' = sent \cup {pair[w]}
    BY <1>11 DEF LinkAccount
  <2> QED
    BY <2>1, <2>2, LastAlone
<1>12. ASSUME NEW w \in Workers, Unlink(w) PROVE LastInv'
  <2>1. /\ pc[w] = "unlink" /\ pc'[w] = "idle"
        /\ \A v \in Workers \ {w} : pc'[v] = pc[v] /\ link'[v] = link[v] /\ pair'[v] = pair[v]
    BY <1>0, <1>12, OneMoves DEF Unlink
  <2> QED
    BY <1>12, <2>1, LastAlone DEF Unlink, pairVars
<1>13. ASSUME NEW l \in Links, Authorize(l) PROVE LastInv'
  BY <1>13, <1>s DEF Authorize, CreateAuthCode, pairVars, history
<1>14. ASSUME NEW p \in Pairs, RevokeByToken(p) PROVE LastInv'
  <2>1. /\ UNCHANGED <<workerVars, pairOf, sent, broken>>
        /\ revoked' = revoked \cup {p} /\ given' = given \cup {p}
    BY <1>14 DEF RevokeByToken
  <2> QED
    BY <2>1 DEF LastInv, Latest, workerVars
<1>15. ASSUME NEW u \in Users, DeleteUser(u) PROVE LastInv'
  <2>1. /\ UNCHANGED <<workerVars, revoked, sent, broken, given>>
        /\ \A p \in Pairs : pairOf'[p] = IF pairOf[p] \in {u} \X Clients THEN None ELSE pairOf[p]
    BY <1>15 DEF DeleteUser, history
  <2>2. \A p \in Pairs : Latest(p)' => Latest(p) /\ pairOf'[p] = pairOf[p]
    BY <2>1 DEF Latest
  <2>3. \A w \in Workers : pc[w] = "end" => pair[w] \in Pairs
    BY <1>0 DEF WorkersTyped, PairsTyped, Pairs
  <2> QED
    BY <2>1, <2>2, <2>3 DEF LastInv, workerVars
<1>16. CASE UNCHANGED vars
  BY <1>16, <1>s DEF vars, pairVars, history
<1> QED
  BY <1>1, <1>2, <1>3, <1>4, <1>5, <1>6, <1>7, <1>9, <1>10, <1>11, <1>12, <1>13, <1>14,
     <1>15, <1>16 DEF Next

\* Once nothing goes on for a link, its newest pair is in the client's hands and good,
\* unless a request failed halfway or the client has revoked it.
THEOREM NewestPairWorks == Spec => []LastPairWorks
<1>1. Init => LastInv
  BY LinkAssumptions DEF Init, LastInv, Latest
<1>2. LastInv => LastPairWorks
  <2> SUFFICES ASSUME LastInv, NEW p \in Pairs, Latest(p), At(pairOf[p], Steps \ {"unlink"}) = {}
               PROVE  p \in sent \ revoked
    BY DEF LastPairWorks, Latest
  <2>1. \A w \in Workers : pc[w] \in {"revoke", "insert", "link"} => link[w] # pairOf[p]
    BY DEF At, Steps
  <2> QED
    BY <2>1 DEF LastInv
<1> QED
  BY <1>1, <1>2, InitTyped, TypedNext, LastNext, PTL DEF Spec

-----------------------------------------------------------------------------

\* What a deleted user leaves behind is kept away by the foreign keys.
LEMMA DeletedNext == Typed /\ DeletedIsGone /\ [Next]_vars => DeletedIsGone'
<1> SUFFICES ASSUME Typed, DeletedIsGone, [Next]_vars PROVE DeletedIsGone'
  OBVIOUS
<1> USE LinkAssumptions
<1>0. WorkersTyped /\ CodesTyped /\ PairsTyped
  BY DEF Typed
<1>1. ASSUME UNCHANGED <<users, codeOf, pairOf>>, \A l \in linked' : l \in linked \/ l[1] \in users
      PROVE  DeletedIsGone'
  BY <1>1 DEF DeletedIsGone
<1>2. ASSUME NEW w \in Workers, LinkAccount(w) PROVE DeletedIsGone'
  BY <1>1, <1>2 DEF LinkAccount, Upsert, codeVars
<1>3. ASSUME NEW w \in Workers, Unlink(w) PROVE DeletedIsGone'
  BY <1>1, <1>3 DEF Unlink, Upsert, codeVars, pairVars
<1>4. ASSUME NEW w \in Workers, InsertPair(w) PROVE DeletedIsGone'
  <2>1. /\ pairOf'[drawn + 1] = link[w] /\ \A p \in Pairs \ {drawn + 1} : pairOf'[p] = pairOf[p]
        /\ link[w][1] \in users /\ UNCHANGED <<users, codeOf, linked>>
    BY <1>4, Inserted DEF InsertPair, codeVars
  <2> QED
    BY <2>1 DEF DeletedIsGone
<1>5. ASSUME NEW l \in Links, Authorize(l) PROVE DeletedIsGone'
  BY <1>0, <1>5 DEF Authorize, CreateAuthCode, DeletedIsGone, CodesTyped, pairVars
<1>6. ASSUME NEW u \in Users, DeleteUser(u) PROVE DeletedIsGone'
  <2>1. \A l \in Links : l \notin {u} \X Clients => l[1] # u
    BY DEF Links
  <2>2. /\ users' = users \ {u} /\ linked' = linked \ ({u} \X Clients)
        /\ \A p \in Pairs : pairOf'[p] = IF pairOf[p] \in {u} \X Clients THEN None ELSE pairOf[p]
        /\ \A k \in Codes : codeOf'[k] = IF codeOf[k] \in {u} \X Clients THEN None ELSE codeOf[k]
    BY <1>6 DEF DeleteUser
  <2>3. \A l \in linked' : l[1] \in users'
    BY <1>0, <2>1, <2>2 DEF DeletedIsGone, CodesTyped
  <2>4. \A p \in Pairs : pairOf'[p] # None => pairOf'[p][1] \in users'
    BY <1>0, <2>1, <2>2 DEF DeletedIsGone, PairsTyped
  <2>5. \A k \in Codes : codeOf'[k] # None => codeOf'[k][1] \in users'
    BY <1>0, <2>1, <2>2 DEF DeletedIsGone, CodesTyped
  <2> QED
    BY <2>3, <2>4, <2>5 DEF DeletedIsGone
<1>7. ASSUME NEW w \in Workers,
             \/ \E k \in Codes : ExchangeAuthCode(w, k)
             \/ \E p \in Pairs : RotateRefreshToken(w, p) \/ Disconnect(w, p)
             \/ MarkCode(w) \/ EndPair(w) \/ RevokePairs(w) \/ InsertFails(w) \/ Crash(w)
      PROVE  DeletedIsGone'
  BY <1>1, <1>7 DEF ExchangeAuthCode, RotateRefreshToken, Disconnect, MarkCode, EndPair,
     RevokePairs, InsertFails, Crash, codeVars, pairVars
<1>8. ASSUME NEW p \in Pairs, RevokeByToken(p) PROVE DeletedIsGone'
  BY <1>1, <1>8 DEF RevokeByToken, codeVars
<1>9. CASE UNCHANGED vars
  BY <1>1, <1>9 DEF vars, codeVars, pairVars
<1> QED
  BY <1>2, <1>3, <1>4, <1>5, <1>6, <1>7, <1>8, <1>9 DEF Next

\* Nothing that a user has granted outlives the account.
THEOREM GrantsEndWithAccount == Spec => []DeletedIsGone
<1>1. Init => DeletedIsGone
  BY DEF Init, DeletedIsGone
<1> QED
  BY <1>1, InitTyped, TypedNext, DeletedNext, PTL DEF Spec

-----------------------------------------------------------------------------
(* VoiceMapping: the way there and back.                                    *)

\* A quotient is where its multiples place it.
LEMMA DivIs ==
  ASSUME NEW a \in Nat, NEW b \in Nat \ {0}, NEW c \in Nat, a >= b * c, a < b * c + b
  PROVE  a \div b = c
  OBVIOUS

\* The remainder.
LEMMA ModIs ==
  ASSUME NEW a \in Nat, NEW b \in Nat \ {0}, NEW c \in Nat, a >= b * c, a < b * c + b
  PROVE  a % b = a - b * c
<1>1. a \div b = c
  BY DivIs
<1>2. a % b = a - b * (a \div b)
  OBVIOUS
<1>. QED
  BY <1>1, <1>2

\* Rounded is exact where the division is.
LEMMA RoundedExact ==
  ASSUME NEW k \in Nat, NEW q \in Nat \ {0}
  PROVE  Rounded(q * k, q) = k
<1>1. 2 * (q * k) + q \in Nat /\ 2 * q \in Nat \ {0}
  OBVIOUS
<1>2. 2 * (q * k) + q >= (2 * q) * k /\ 2 * (q * k) + q < (2 * q) * k + 2 * q
  OBVIOUS
<1>. QED
  BY <1>1, <1>2, DivIs DEF Rounded

\* The three levels of a colour, where its hue is in the sixth k of the circle.
Placed(k, high, mid, low) ==
  IF k = 0 THEN <<high, mid, low>>
  ELSE IF k = 1 THEN <<mid, high, low>>
  ELSE IF k = 2 THEN <<low, high, mid>>
  ELSE IF k = 3 THEN <<low, mid, high>>
  ELSE IF k = 4 THEN <<mid, low, high>>
  ELSE <<high, low, mid>>

\* The middle level, which goes up and down in turn.
Level(top, delta, h, k) ==
  IF k \in {0, 2, 4} THEN top - delta + (h - delta * k) ELSE top - (h - delta * k)

\* HSBToRGB of a hue in the sixth k of the circle: the levels of that sixth.
LEMMA Sextant ==
  ASSUME NEW top \in Nat, NEW delta \in Nat, 0 < delta, delta <= top,
         NEW h \in Nat, NEW k \in 0..5, h >= delta * k, h < delta * k + delta
  PROVE  HSBToRGB([hue |-> <<h, delta>>, saturation |-> <<delta, top>>, brightness |-> top]) =
           Placed(k, top, Level(top, delta, h, k), top - delta)
<1>. DEFINE low  == top - delta
            turn == h % (2 * delta)
            fold == IF turn >= delta THEN turn - delta ELSE delta - turn
            q == top * delta
            c == top * delta * delta
            x == top * delta * (delta - fold)
            m == top * (top - delta) * delta
            out(n) == Rounded(n + m, top * delta)
<1>1. h \div delta = k
  BY DivIs
<1>2. turn = IF k \in {0, 2, 4} THEN h - delta * k ELSE h - delta * k + delta
  <2>1. CASE k \in {0, 1}
    BY <2>1, ModIs
  <2>2. CASE k \in {2, 3}
    BY <2>2, ModIs
  <2>3. CASE k \in {4, 5}
    BY <2>3, ModIs
  <2>. QED
    BY <2>1, <2>2, <2>3
<1>3. fold = IF k \in {0, 2, 4} THEN delta - (h - delta * k) ELSE h - delta * k
  BY <1>2
<1>4. fold \in 0..delta
  BY <1>3
<1>5. q \in Nat \ {0} /\ low \in Nat /\ top - fold \in Nat
  BY <1>4
<1>. HIDE DEF fold
<1>6. c + m = q * top /\ x + m = q * (top - fold) /\ 0 + m = q * low
  BY <1>4
<1>7. out(c) = top /\ out(x) = top - fold /\ out(0) = low
  BY <1>5, <1>6, RoundedExact
<1>8. top - fold = Level(top, delta, h, k)
  BY <1>3 DEF Level
<1>9. HSBToRGB([hue |-> <<h, delta>>, saturation |-> <<delta, top>>, brightness |-> top]) =
       IF h \div delta < 1 THEN <<out(c), out(x), out(0)>>
      ELSE IF h \div delta < 2 THEN <<out(x), out(c), out(0)>>
      ELSE IF h \div delta < 3 THEN <<out(0), out(c), out(x)>>
      ELSE IF h \div delta < 4 THEN <<out(0), out(x), out(c)>>
      ELSE IF h \div delta < 5 THEN <<out(x), out(0), out(c)>>
      ELSE <<out(c), out(0), out(x)>>
  BY DEF HSBToRGB, fold
<1>. HIDE DEF out, c, x, m, q, low
<1>. DEFINE rgb == HSBToRGB([hue |-> <<h, delta>>, saturation |-> <<delta, top>>, brightness |-> top])
<1>10. rgb = Placed(k, out(c), out(x), out(0))
  <2>. HIDE DEF rgb
  <2>1. rgb = IF k < 1 THEN <<out(c), out(x), out(0)>>
              ELSE IF k < 2 THEN <<out(x), out(c), out(0)>>
              ELSE IF k < 3 THEN <<out(0), out(c), out(x)>>
              ELSE IF k < 4 THEN <<out(0), out(x), out(c)>>
              ELSE IF k < 5 THEN <<out(x), out(0), out(c)>>
              ELSE <<out(c), out(0), out(x)>>
    BY <1>1, <1>9 DEF rgb
  <2>. QED
    BY <2>1 DEF Placed
<1>. QED
  BY <1>7, <1>8, <1>10 DEF low

\* HSBToRGB of a colour without a hue: its brightness three times.
LEMMA Grey ==
  ASSUME NEW v \in Nat, NEW sd \in Nat \ {0}
  PROVE  HSBToRGB([hue |-> <<0, 1>>, saturation |-> <<0, sd>>, brightness |-> v]) = <<v, v, v>>
<1>. DEFINE turn == 0 % (2 * 1)
            fold == IF turn >= 1 THEN turn - 1 ELSE 1 - turn
            c == v * 0 * 1
            x == v * 0 * (1 - fold)
            m == v * (sd - 0) * 1
            out(n) == Rounded(n + m, sd * 1)
<1>1. turn = 0 /\ fold = 1
  OBVIOUS
<1>2. c + m = sd * v /\ x + m = sd * v /\ 0 + m = sd * v /\ sd * 1 = sd
  BY <1>1
<1>3. out(c) = v /\ out(x) = v /\ out(0) = v
  BY <1>2, RoundedExact
<1>4. 0 \div 1 = 0
  OBVIOUS
<1>. HIDE DEF out, c, x
<1>. QED
  BY <1>3, <1>4 DEF HSBToRGB, out, c, x, m, fold, turn

\* RGBToHSB and HSBToRGB lose nothing of any colour of 24 bits: whatever colour a lamp
\* reports, an assistant that sends it back means the same.
THEOREM ColourComesBack ==
  ASSUME NEW r \in Channels, NEW g \in Channels, NEW b \in Channels
  PROVE  HSBToRGB(RGBToHSB(<<r, g, b>>)) = <<r, g, b>>
<1>. DEFINE top == CHOOSE x \in {r, g, b} : \A y \in {r, g, b} : y <= x
            low == CHOOSE x \in {r, g, b} : \A y \in {r, g, b} : x <= y
            delta == top - low
            hue == IF delta = 0 THEN 0
                   ELSE IF top = r THEN g - b
                   ELSE IF top = g THEN b - r + 2 * delta
                   ELSE r - g + 4 * delta
            h == IF hue < 0 THEN hue + 6 * delta ELSE hue
<1>0. r \in Nat /\ g \in Nat /\ b \in Nat
  BY DEF Channels
<1>1. RGBToHSB(<<r, g, b>>) =
        [hue |-> IF delta = 0 THEN <<0, 1>> ELSE <<h, delta>>,
         saturation |-> IF top = 0 THEN <<0, 1>> ELSE <<delta, top>>,
         brightness |-> top]
  BY DEF RGBToHSB
<1>2. top \in {r, g, b} /\ r <= top /\ g <= top /\ b <= top
  <2>1. \E x \in {r, g, b} : \A y \in {r, g, b} : y <= x
    BY <1>0
  <2>. QED
    BY <2>1
<1>3. low \in {r, g, b} /\ low <= r /\ low <= g /\ low <= b
  <2>1. \E x \in {r, g, b} : \A y \in {r, g, b} : x <= y
    BY <1>0
  <2>. QED
    BY <2>1
<1>. HIDE DEF top, low
<1>4. CASE delta = 0
  <2>1. r = top /\ g = top /\ b = top
    BY <1>0, <1>2, <1>3, <1>4
  <2>2. CASE top = 0
    BY <1>0, <1>1, <1>4, <2>1, <2>2, Grey
  <2>3. CASE top # 0
    BY <1>0, <1>1, <1>4, <2>1, <2>3, Grey
  <2>. QED
    BY <2>2, <2>3
<1>5. CASE delta # 0
  <2>1. top \in Nat /\ delta \in Nat /\ 0 < delta /\ delta <= top /\ top # 0
    BY <1>0, <1>2, <1>3, <1>5
  <2>2. RGBToHSB(<<r, g, b>>) =
          [hue |-> <<h, delta>>, saturation |-> <<delta, top>>, brightness |-> top]
    BY <1>1, <1>5, <2>1
  <2>. HIDE DEF h, delta
  <2>3. ASSUME NEW k \in 0..5, h \in Nat, h >= delta * k, h < delta * k + delta
        PROVE  HSBToRGB(RGBToHSB(<<r, g, b>>)) = Placed(k, top, Level(top, delta, h, k), top - delta)
    BY <2>1, <2>2, <2>3, Sextant
  <2>4. CASE top = r /\ g >= b
    <3>1. top - delta = b /\ h = g - b
      BY <1>0, <1>2, <1>3, <1>5, <2>4 DEF h, delta
    <3>2. CASE g < r
      <4>1. h \in Nat /\ h >= delta * 0 /\ h < delta * 0 + delta
        BY <1>0, <1>2, <2>1, <2>4, <3>1, <3>2
      <4>2. Level(top, delta, h, 0) = g
        BY <1>0, <1>2, <2>1, <2>4, <3>1, <3>2 DEF Level
      <4>3. HSBToRGB(RGBToHSB(<<r, g, b>>)) = Placed(0, top, g, top - delta)
        BY <2>3, <4>1, <4>2
      <4>. QED
        BY <2>4, <3>1, <3>2, <4>3 DEF Placed
    <3>3. CASE g = r
      <4>1. h \in Nat /\ h >= delta * 1 /\ h < delta * 1 + delta
        BY <1>0, <1>2, <2>1, <2>4, <3>1, <3>3
      <4>2. Level(top, delta, h, 1) = g
        BY <1>0, <1>2, <2>1, <2>4, <3>1, <3>3 DEF Level
      <4>3. HSBToRGB(RGBToHSB(<<r, g, b>>)) = Placed(1, top, g, top - delta)
        BY <2>3, <4>1, <4>2
      <4>. QED
        BY <2>4, <3>1, <3>3, <4>3 DEF Placed
    <3>. QED
      BY <1>0, <1>2, <2>4, <3>2, <3>3
  <2>5. CASE top = r /\ g < b
    <3>1. top - delta = g /\ h = g - b + 6 * delta
      BY <1>0, <1>2, <1>3, <1>5, <2>5 DEF h, delta
    <3>2. h \in Nat /\ h >= delta * 5 /\ h < delta * 5 + delta
      BY <1>0, <1>2, <2>1, <2>5, <3>1
    <3>3. Level(top, delta, h, 5) = b
      BY <1>0, <1>2, <2>1, <2>5, <3>1 DEF Level
    <3>4. HSBToRGB(RGBToHSB(<<r, g, b>>)) = Placed(5, top, b, top - delta)
      BY <2>3, <3>2, <3>3
    <3>. QED
      BY <2>5, <3>1, <3>4 DEF Placed
  <2>6. CASE top = g /\ top # r /\ b < r
    <3>1. top - delta = b /\ h = b - r + 2 * delta
      BY <1>0, <1>2, <1>3, <1>5, <2>6 DEF h, delta
    <3>2. h \in Nat /\ h >= delta * 1 /\ h < delta * 1 + delta
      BY <1>0, <1>2, <2>1, <2>6, <3>1
    <3>3. Level(top, delta, h, 1) = r
      BY <1>0, <1>2, <2>1, <2>6, <3>1 DEF Level
    <3>4. HSBToRGB(RGBToHSB(<<r, g, b>>)) = Placed(1, top, r, top - delta)
      BY <2>3, <3>2, <3>3
    <3>. QED
      BY <2>6, <3>1, <3>4 DEF Placed
  <2>7. CASE top = g /\ top # r /\ b >= r
    <3>1. top - delta = r /\ h = b - r + 2 * delta
      BY <1>0, <1>2, <1>3, <1>5, <2>7 DEF h, delta
    <3>2. CASE b < g
      <4>1. h \in Nat /\ h >= delta * 2 /\ h < delta * 2 + delta
        BY <1>0, <1>2, <2>1, <2>7, <3>1, <3>2
      <4>2. Level(top, delta, h, 2) = b
        BY <1>0, <1>2, <2>1, <2>7, <3>1, <3>2 DEF Level
      <4>3. HSBToRGB(RGBToHSB(<<r, g, b>>)) = Placed(2, top, b, top - delta)
        BY <2>3, <4>1, <4>2
      <4>. QED
        BY <2>7, <3>1, <3>2, <4>3 DEF Placed
    <3>3. CASE b = g
      <4>1. h \in Nat /\ h >= delta * 3 /\ h < delta * 3 + delta
        BY <1>0, <1>2, <2>1, <2>7, <3>1, <3>3
      <4>2. Level(top, delta, h, 3) = b
        BY <1>0, <1>2, <2>1, <2>7, <3>1, <3>3 DEF Level
      <4>3. HSBToRGB(RGBToHSB(<<r, g, b>>)) = Placed(3, top, b, top - delta)
        BY <2>3, <4>1, <4>2
      <4>. QED
        BY <2>7, <3>1, <3>3, <4>3 DEF Placed
    <3>. QED
      BY <1>0, <1>2, <2>7, <3>2, <3>3
  <2>8. CASE top # r /\ top # g /\ r < g
    <3>1. top = b /\ top - delta = r /\ h = r - g + 4 * delta
      BY <1>0, <1>2, <1>3, <1>5, <2>8 DEF h, delta
    <3>2. h \in Nat /\ h >= delta * 3 /\ h < delta * 3 + delta
      BY <1>0, <1>2, <2>1, <2>8, <3>1
    <3>3. Level(top, delta, h, 3) = g
      BY <1>0, <1>2, <2>1, <2>8, <3>1 DEF Level
    <3>4. HSBToRGB(RGBToHSB(<<r, g, b>>)) = Placed(3, top, g, top - delta)
      BY <2>3, <3>2, <3>3
    <3>. QED
      BY <2>8, <3>1, <3>4 DEF Placed
  <2>9. CASE top # r /\ top # g /\ r >= g
    <3>1. top = b /\ top - delta = g /\ h = r - g + 4 * delta
      BY <1>0, <1>2, <1>3, <1>5, <2>9 DEF h, delta
    <3>2. h \in Nat /\ h >= delta * 4 /\ h < delta * 4 + delta
      BY <1>0, <1>2, <2>1, <2>9, <3>1
    <3>3. Level(top, delta, h, 4) = r
      BY <1>0, <1>2, <2>1, <2>9, <3>1 DEF Level
    <3>4. HSBToRGB(RGBToHSB(<<r, g, b>>)) = Placed(4, top, r, top - delta)
      BY <2>3, <3>2, <3>3
    <3>. QED
      BY <2>9, <3>1, <3>4 DEF Placed
  <2>. QED
    BY <1>0, <2>4, <2>5, <2>6, <2>7, <2>8, <2>9
<1>. QED
  BY <1>4, <1>5

\* ColorTempToKelvin and KelvinToColorTemp lose nothing of any whole per cent, for all
\* that the quotient falls short of some halves.
THEOREM KelvinComesBack ==
  ASSUME NEW v \in 0..100
  PROVE  KelvinToColorTemp(ColorTempToKelvin(v)) = v
<1>. DEFINE k == 2700 + 38 * v
<1>1. Rounded(k - 2700, 38) = v
  <2>1. k - 2700 = 38 * v
    OBVIOUS
  <2>. QED
    BY <2>1, RoundedExact
<1>2. {k} \cap ShortHalves = {}
  BY DEF ShortHalves
<1>3. k >= 2700 /\ k <= 6500
  OBVIOUS
<1>. HIDE DEF k
<1>4. Cardinality({k} \cap ShortHalves) = 0
  BY <1>2, FS_EmptySet
<1>. QED
  BY <1>1, <1>3, <1>4 DEF KelvinToColorTemp, ColorTempToKelvin, k

\* What DPSToProperties tells Alexa of a data point, DirectiveToDPS turns back into its
\* value, for every kind, every value and every product.
THEOREM AlexaComesBack ==
  ASSUME NEW caps, NEW kind \in DOMAIN Values, NEW v \in Values[kind],
         NEW p \in AlexaProperties(kind, v), NEW wish \in Again("alexa", p[1], p[2])
  PROVE  DirectiveToDPS(wish, caps) = Set(kind, caps, v)
<1>1. CASE kind = "power"
  <2>1. v \in BOOLEAN
    BY <1>1 DEF Values
  <2>2. p = <<"powerState", IF v THEN "ON" ELSE "OFF">>
    BY <1>1 DEF AlexaProperties
  <2>3. wish = [interface |-> "PowerController", name |-> IF v THEN "TurnOn" ELSE "TurnOff"]
    <3>1. CASE v = TRUE
      BY <2>2, <3>1 DEF Again
    <3>2. CASE v = FALSE
      BY <2>2, <3>2 DEF Again
    <3>. QED
      BY <2>1, <3>1, <3>2
  <2>4. DirectiveToDPS(wish, caps) = Set("power", caps, wish.name = "TurnOn")
    BY <2>3 DEF DirectiveToDPS, AlexaTarget
  <2>5. (wish.name = "TurnOn") = v
    <3>1. CASE v = TRUE
      BY <2>3, <3>1
    <3>2. CASE v = FALSE
      BY <2>3, <3>2
    <3>. QED
      BY <2>1, <3>1, <3>2
  <2>. QED
    BY <1>1, <2>4, <2>5
<1>2. CASE kind = "lock"
  <2>1. v \in BOOLEAN
    BY <1>2 DEF Values
  <2>2. p = <<"lockState", IF v THEN "LOCKED" ELSE "UNLOCKED">>
    BY <1>2 DEF AlexaProperties
  <2>3. wish = [interface |-> "LockController", name |-> IF v THEN "Lock" ELSE "Unlock"]
    <3>1. CASE v = TRUE
      BY <2>2, <3>1 DEF Again
    <3>2. CASE v = FALSE
      BY <2>2, <3>2 DEF Again
    <3>. QED
      BY <2>1, <3>1, <3>2
  <2>4. DirectiveToDPS(wish, caps) = Set("lock", caps, wish.name = "Lock")
    BY <2>3 DEF DirectiveToDPS, AlexaTarget
  <2>5. (wish.name = "Lock") = v
    <3>1. CASE v = TRUE
      BY <2>3, <3>1
    <3>2. CASE v = FALSE
      BY <2>3, <3>2
    <3>. QED
      BY <2>1, <3>1, <3>2
  <2>. QED
    BY <1>2, <2>4, <2>5
<1>3. CASE kind = "brightness"
  <2>1. p = <<"brightness", v>>
    BY <1>3 DEF AlexaProperties
  <2>2. wish = [interface |-> "BrightnessController", name |-> "SetBrightness", value |-> v]
    BY <2>1 DEF Again
  <2>. QED
    BY <1>3, <2>2 DEF DirectiveToDPS, AlexaTarget, Valueless
<1>4. CASE kind = "fan_speed"
  <2>1. p = <<"rangeValue", v>>
    BY <1>4 DEF AlexaProperties
  <2>2. wish = [interface |-> "RangeController", name |-> "SetRangeValue", value |-> v]
    BY <2>1 DEF Again
  <2>. QED
    BY <1>4, <2>2 DEF DirectiveToDPS, AlexaTarget, Valueless
<1>5. CASE kind = "target_temp"
  <2>1. p = <<"targetSetpoint", v>> \/ p = <<"temperature", v>>
    BY <1>5 DEF AlexaProperties
  <2>2. wish = [interface |-> "ThermostatController", name |-> "SetTargetTemperature",
                value |-> <<"CELSIUS", v>>]
    <3>1. CASE p = <<"targetSetpoint", v>>
      BY <3>1 DEF Again
    <3>2. CASE p = <<"temperature", v>>
      BY <3>2 DEF Again
    <3>. QED
      BY <2>1, <3>1, <3>2
  <2>3. DirectiveToDPS(wish, caps) = Set("target_temp", caps, Celsius(wish.value))
    BY <2>2 DEF DirectiveToDPS, AlexaTarget, Valueless
  <2>. QED
    BY <1>5, <2>2, <2>3 DEF Celsius
<1>6. CASE kind = "thermo_mode"
  BY <1>6 DEF AlexaProperties
<1>7. CASE kind = "color"
  <2>1. p = <<"color", RGBToHSB(v)>>
    BY <1>7 DEF AlexaProperties
  <2>2. wish = [interface |-> "ColorController", name |-> "SetColor", value |-> RGBToHSB(v)]
    BY <2>1 DEF Again
  <2>3. DirectiveToDPS(wish, caps) = Set("color", caps, HSBToRGB(RGBToHSB(v)))
    BY <2>2 DEF DirectiveToDPS, AlexaTarget
  <2>4. PICK r \in Channels, g \in Channels, b \in Channels : v = <<r, g, b>>
    BY <1>7 DEF Values
  <2>. QED
    BY <1>7, <2>3, <2>4, ColourComesBack
<1>8. CASE kind = "color_temp"
  <2>1. p = <<"colorTemperatureInKelvin", ColorTempToKelvin(v)>>
    BY <1>8 DEF AlexaProperties
  <2>2. wish = [interface |-> "ColorTemperatureController", name |-> "SetColorTemperature",
                value |-> ColorTempToKelvin(v)]
    BY <2>1 DEF Again
  <2>3. DirectiveToDPS(wish, caps) = Set("color_temp", caps, KelvinToColorTemp(ColorTempToKelvin(v)))
    BY <2>2 DEF DirectiveToDPS, AlexaTarget, Valueless
  <2>4. v \in 0..100
    BY <1>8 DEF Values
  <2>. QED
    BY <1>8, <2>3, <2>4, KelvinComesBack
<1>. QED
  BY <1>1, <1>2, <1>3, <1>4, <1>5, <1>6, <1>7, <1>8 DEF Values

\* The three channels can be told apart in the 24 bits of spectrumRgb.
LEMMA BitsComeBack ==
  ASSUME NEW r \in Channels, NEW g \in Channels, NEW b \in Channels
  PROVE  LET n == 65536 * r + 256 * g + b
         IN  <<n \div 65536, (n \div 256) % 256, n % 256>> = <<r, g, b>>
  BY DEF Channels

\* What DPSToState tells Google of a data point, ExecuteCommandToDPS turns back into its
\* value, for every kind, every value and every product.
THEOREM GoogleComesBack ==
  ASSUME NEW caps, NEW kind \in DOMAIN Values, NEW v \in Values[kind],
         NEW name \in DOMAIN GoogleField(kind, v),
         NEW wish \in Again("google", name, GoogleField(kind, v)[name])
  PROVE  ExecuteCommandToDPS(wish, caps) = Set(kind, caps, v)
<1>1. CASE kind \in {"power", "brightness", "target_temp", "thermo_mode", "fan_speed", "lock"}
  <2>1. GoogleTarget(wish) = kind /\ wish.value = v
    <3>1. CASE kind = "power"
      BY <3>1 DEF GoogleField, Field, Again, GoogleTarget
    <3>2. CASE kind = "brightness"
      BY <3>2 DEF GoogleField, Field, Again, GoogleTarget
    <3>3. CASE kind = "target_temp"
      BY <3>3 DEF GoogleField, Field, Again, GoogleTarget
    <3>4. CASE kind = "thermo_mode"
      BY <3>4 DEF GoogleField, Field, Again, GoogleTarget
    <3>5. CASE kind = "fan_speed"
      BY <3>5 DEF GoogleField, Field, Again, GoogleTarget
    <3>6. CASE kind = "lock"
      BY <3>6 DEF GoogleField, Field, Again, GoogleTarget
    <3>. QED
      BY <1>1, <3>1, <3>2, <3>3, <3>4, <3>5, <3>6
  <2>. QED
    BY <1>1, <2>1 DEF ExecuteCommandToDPS
<1>2. CASE kind = "color"
  <2>1. PICK r \in Channels, g \in Channels, b \in Channels : v = <<r, g, b>>
    BY <1>2 DEF Values
  <2>. DEFINE n == 65536 * r + 256 * g + b
  <2>2. name = "color" /\ GoogleField(kind, v)[name] = <<"spectrumRgb", n>>
    BY <1>2, <2>1 DEF GoogleField, Field
  <2>. HIDE DEF n
  <2>3. wish = [name |-> "ColorAbsolute", value |-> <<"spectrumRGB", n>>]
    BY <2>2 DEF Again
  <2>4. ExecuteCommandToDPS(wish, caps) =
          Set("color", caps, <<n \div 65536, (n \div 256) % 256, n % 256>>)
    BY <2>3 DEF ExecuteCommandToDPS, GoogleTarget
  <2>5. <<n \div 65536, (n \div 256) % 256, n % 256>> = v
    BY <2>1, BitsComeBack DEF n
  <2>. QED
    BY <1>2, <2>4, <2>5
<1>3. CASE kind = "color_temp"
  <2>1. name = "color" /\ GoogleField(kind, v)[name] = <<"temperatureK", ColorTempToKelvin(v)>>
    BY <1>3 DEF GoogleField, Field
  <2>2. wish = [name |-> "ColorAbsolute", value |-> <<"temperature", ColorTempToKelvin(v)>>]
    BY <2>1 DEF Again
  <2>3. ExecuteCommandToDPS(wish, caps) =
          Set("color_temp", caps, KelvinToColorTemp(ColorTempToKelvin(v)))
    BY <2>2 DEF ExecuteCommandToDPS, GoogleTarget
  <2>4. v \in 0..100
    BY <1>3 DEF Values
  <2>. QED
    BY <1>3, <2>3, <2>4, KelvinComesBack
<1>. QED
  BY <1>1, <1>2, <1>3 DEF Values

-----------------------------------------------------------------------------
(* VoiceControl: no wish for what was discovered is refused, and what the   *)
(* assistants are told comes true.                                          *)

\* A set of positions in a list, unless it is empty, has a last one: the rows of what is
\* left from a position on are subsets of each other.
LEMMA LastPosition ==
  ASSUME NEW n \in Nat, NEW I \in SUBSET (1..n), I # {}
  PROVE  \E m \in I : \A j \in I : j <= m
<1>. DEFINE Rest(i) == i..n
            T == {Rest(i) : i \in I}
<1>1. IsFiniteSet(1..n) /\ FiniteSubsetsOf(1..n) = SUBSET (1..n)
  BY FS_Interval, FS_FiniteSubsetsOfFinite
<1>2. T \subseteq FiniteSubsetsOf(1..n) /\ T # {}
  <2>1. \A i \in I : i \in 1..n /\ i..n \subseteq 1..n
    OBVIOUS
  <2>2. T \subseteq SUBSET (1..n) /\ T # {}
    BY <2>1
  <2>. QED
    BY <1>1, <2>2
<1>3. PICK x \in T : \A y \in T : <<y, x>> \notin StrictSubsetOrdering(1..n)
  <2>. HIDE DEF T
  <2>. QED
    BY <1>2, WFMin, FS_StrictSubsetOrderingWellFounded, Zenon
<1>4. PICK m \in I : x = Rest(m)
  BY <1>3
<1>5. ASSUME NEW j \in I, j > m
      PROVE  FALSE
  <2>1. Rest(j) \in T /\ Rest(j) \subseteq 1..n /\ x \subseteq 1..n
    BY <1>4
  <2>2. Rest(j) \subseteq x /\ m \in x /\ m \notin Rest(j)
    BY <1>4, <1>5
  <2>3. <<Rest(j), x>> \in StrictSubsetOrdering(1..n)
    <3>. HIDE DEF Rest, T
    <3>. QED
      BY <2>1, <2>2 DEF StrictSubsetOrdering
  <2>. QED
    BY <1>3, <2>1, <2>3
<1>. QED
  BY <1>5

IsFunction(f) == f = [x \in DOMAIN f |-> f[x]]

\* Functions with the same values are equal.
LEMMA SameFunction ==
  ASSUME NEW f, NEW g, IsFunction(f), IsFunction(g), DOMAIN f = DOMAIN g,
         \A x \in DOMAIN f : f[x] = g[x]
  PROVE  f = g
  BY DEF IsFunction

\* What a list of changes sets.
Names(changes) == UNION {DOMAIN changes[i] : i \in DOMAIN changes}

\* The last of the changes that set x is the one at i.
LastAt(changes, x, i) ==
  /\ i \in DOMAIN changes /\ x \in DOMAIN changes[i]
  /\ \A j \in DOMAIN changes : x \in DOMAIN changes[j] => j <= i

\* The state s is f put over g: its domain and its values.
IsOver(s, f, g) ==
  /\ IsFunction(s) /\ DOMAIN s = DOMAIN f \cup DOMAIN g
  /\ \A x \in DOMAIN f : s[x] = f[x]
  /\ \A x \in DOMAIN g \ DOMAIN f : s[x] = g[x]

\* That is what Over does.
LEMMA OverIs == \A f, g : IsOver(Over(f, g), f, g)
  BY DEF Over, IsFunction, IsOver

\* Nothing changes nothing.
LEMMA OverNothing ==
  ASSUME NEW g, IsFunction(g)
  PROVE  Over(Nothing, g) = g
<1>1. DOMAIN Nothing = {}
  BY DEF Nothing
<1>. QED
  <2>1. IsOver(Over(Nothing, g), Nothing, g)
    BY OverIs
  <2>. HIDE DEF Nothing
  <2>2. /\ IsFunction(Over(Nothing, g)) /\ DOMAIN Over(Nothing, g) = DOMAIN g
        /\ \A x \in DOMAIN g : Over(Nothing, g)[x] = g[x]
    BY <1>1, <2>1 DEF IsOver
  <2>. QED
    BY <2>2, SameFunction

\* The state s is g with the changes merged: its domain and its values, of which the
\* last counts.
IsMerge(s, changes, g) ==
  /\ IsFunction(s) /\ DOMAIN s = DOMAIN g \cup Names(changes)
  /\ \A x \in DOMAIN g \ Names(changes) : s[x] = g[x]
  /\ \A x, i : LastAt(changes, x, i) => s[x] = changes[i][x]

\* That is what Merged does.
LEMMA MergedIs ==
  ASSUME NEW changes, NEW n \in Nat, DOMAIN changes = 1..n, NEW g
  PROVE  IsMerge(Merged(changes, g), changes, g)
<1>. DEFINE last(x) == {i \in DOMAIN changes :
                          /\ x \in DOMAIN changes[i]
                          /\ \A j \in DOMAIN changes : x \in DOMAIN changes[j] => j <= i}
            value(x) == IF last(x) = {} THEN g[x] ELSE changes[CHOOSE i \in last(x) : TRUE][x]
<1>1. Merged(changes, g) = [x \in DOMAIN g \cup Names(changes) |-> value(x)]
  BY DEF Merged, Names
<1>2. \A x : x \notin Names(changes) => last(x) = {}
  BY DEF Names
<1>3. ASSUME NEW x, NEW i, LastAt(changes, x, i)
      PROVE  x \in Names(changes) /\ value(x) = changes[i][x]
  <2>1. i \in last(x) /\ x \in Names(changes)
    BY <1>3 DEF LastAt, Names
  <2>2. \A j \in last(x) : j = i
    BY <1>3 DEF LastAt
  <2>3. (CHOOSE j \in last(x) : TRUE) = i
    <3>. HIDE DEF last
    <3>. QED
      BY <2>1, <2>2
  <2>. QED
    BY <2>1, <2>3
<1>. HIDE DEF value
<1>4. IsFunction(Merged(changes, g)) /\ DOMAIN Merged(changes, g) = DOMAIN g \cup Names(changes)
  BY <1>1 DEF IsFunction
<1>5. \A x \in DOMAIN g \ Names(changes) : Merged(changes, g)[x] = g[x]
  <2>1. \A x : x \notin Names(changes) => value(x) = g[x]
    BY <1>2 DEF value
  <2>. QED
    BY <1>1, <2>1
<1>6. \A x, i : LastAt(changes, x, i) => Merged(changes, g)[x] = changes[i][x]
  BY <1>1, <1>3
<1>. QED
  BY <1>4, <1>5, <1>6 DEF IsMerge

\* Of the changes that set x one is the last.
LEMMA HasLast ==
  ASSUME NEW changes, NEW n \in Nat, DOMAIN changes = 1..n, NEW x \in Names(changes)
  PROVE  \E i : LastAt(changes, x, i)
<1>. DEFINE I == {i \in 1..n : x \in DOMAIN changes[i]}
<1>1. I \in SUBSET (1..n) /\ I # {}
  BY DEF Names
<1>2. \E m \in I : \A j \in I : j <= m
  <2>. HIDE DEF I
  <2>. QED
    BY <1>1, LastPosition
<1>. QED
  BY <1>2 DEF LastAt

\* No changes.
LEMMA MergedNone ==
  ASSUME NEW changes, NEW n \in Nat, DOMAIN changes = 1..n, NEW g, IsFunction(g), Names(changes) = {}
  PROVE  Merged(changes, g) = g
<1>1. IsMerge(Merged(changes, g), changes, g)
  BY MergedIs
<1>. DEFINE s == Merged(changes, g)
<1>. HIDE DEF s
<1>2. IsFunction(s) /\ DOMAIN s = DOMAIN g /\ \A x \in DOMAIN g : s[x] = g[x]
  BY <1>1 DEF IsMerge, s
<1>3. s = g
  BY <1>2, SameFunction
<1>. QED
  BY <1>3 DEF s

\* One change more.
LEMMA MergedMore ==
  ASSUME NEW n \in Nat, NEW old, DOMAIN old = 1..n, NEW new, DOMAIN new = 1..(n + 1),
         \A i \in 1..n : new[i] = old[i], NEW g
  PROVE  Merged(new, g) = Over(new[n + 1], Merged(old, g))
<1>. DEFINE f == new[n + 1]  a == Merged(new, g)  b == Over(f, Merged(old, g))
<1>1. Names(new) = Names(old) \cup DOMAIN f
  <2>1. \A i \in 1..(n + 1) : i \in 1..n \/ i = n + 1
    OBVIOUS
  <2>2. 1..n \subseteq 1..(n + 1) /\ n + 1 \in 1..(n + 1)
    OBVIOUS
  <2>. QED
    BY <2>1, <2>2 DEF Names
<1>2. IsMerge(a, new, g)
  BY MergedIs
<1>3. IsMerge(Merged(old, g), old, g)
  BY MergedIs
<1>4. IsOver(b, f, Merged(old, g))
  BY OverIs
<1>. HIDE DEF a, b, f
<1>. USE DEF IsMerge, IsOver
<1>5. ASSUME NEW x \in DOMAIN a
      PROVE  a[x] = b[x]
  <2>1. CASE x \in DOMAIN f
    <3>1. LastAt(new, x, n + 1)
      BY <2>1 DEF LastAt, f
    <3>. QED
      BY <1>2, <1>4, <2>1, <3>1 DEF f
  <2>2. CASE x \notin DOMAIN f /\ x \in Names(old)
    <3>1. PICK i : LastAt(old, x, i)
      BY <2>2, HasLast
    <3>2. LastAt(new, x, i)
      BY <2>2, <3>1 DEF LastAt, f
    <3>3. new[i] = old[i]
      BY <3>1 DEF LastAt
    <3>. QED
      BY <1>2, <1>3, <1>4, <2>2, <3>1, <3>2, <3>3
  <2>3. CASE x \notin DOMAIN f /\ x \notin Names(old)
    BY <1>1, <1>2, <1>3, <1>4, <2>3
  <2>. QED
    BY <2>1, <2>2, <2>3
<1>6. DOMAIN a = DOMAIN b
  BY <1>1, <1>2, <1>3, <1>4
<1>7. a = b
  BY <1>2, <1>4, <1>5, <1>6, SameFunction
<1>. QED
  BY <1>7 DEF a, b, f

\* The first change carried out.
LEMMA MergedRest ==
  ASSUME NEW n \in Nat, NEW all, DOMAIN all = 1..(n + 1), NEW rest, DOMAIN rest = 1..n,
         \A i \in 1..n : rest[i] = all[i + 1], NEW g
  PROVE  Merged(rest, Over(all[1], g)) = Merged(all, g)
<1>. DEFINE f == all[1]  a == Merged(all, g)  b == Merged(rest, Over(f, g))
<1>1. Names(all) = Names(rest) \cup DOMAIN f
  <2>1. \A i \in 1..(n + 1) : i = 1 \/ (i - 1 \in 1..n /\ i = (i - 1) + 1)
    OBVIOUS
  <2>2. 1 \in 1..(n + 1) /\ \A i \in 1..n : i + 1 \in 1..(n + 1)
    OBVIOUS
  <2>3. Names(all) \subseteq Names(rest) \cup DOMAIN f
    <3>1. ASSUME NEW x, NEW i \in 1..(n + 1), x \in DOMAIN all[i], x \notin DOMAIN f
          PROVE  x \in Names(rest)
      <4>1. i - 1 \in 1..n /\ all[i] = rest[i - 1]
        BY <2>1, <3>1
      <4>. QED
        BY <3>1, <4>1 DEF Names
    <3>. QED
      BY <3>1 DEF Names
  <2>4. Names(rest) \cup DOMAIN f \subseteq Names(all)
    BY <2>2 DEF Names
  <2>. QED
    BY <2>3, <2>4
<1>2. IsMerge(a, all, g)
  BY MergedIs
<1>3. IsMerge(b, rest, Over(f, g))
  BY MergedIs
<1>4. IsOver(Over(f, g), f, g)
  BY OverIs
<1>. HIDE DEF a, b, f
<1>. USE DEF IsMerge, IsOver
<1>5. ASSUME NEW x \in DOMAIN a
      PROVE  a[x] = b[x]
  <2>1. CASE x \in Names(rest)
    <3>1. PICK i : LastAt(rest, x, i)
      BY <2>1, HasLast
    <3>2. LastAt(all, x, i + 1) /\ all[i + 1] = rest[i]
      <4>1. i \in 1..n /\ x \in DOMAIN all[i + 1] /\ all[i + 1] = rest[i]
        BY <3>1 DEF LastAt
      <4>2. ASSUME NEW j \in 1..(n + 1), x \in DOMAIN all[j]
            PROVE  j <= i + 1
        <5>1. CASE j = 1
          BY <4>1, <5>1
        <5>2. CASE j # 1
          <6>1. j - 1 \in 1..n /\ all[j] = rest[j - 1]
            BY <5>2
          <6>2. x \in DOMAIN rest[j - 1]
            BY <4>2, <6>1
          <6>3. j - 1 <= i
            BY <3>1, <6>1, <6>2 DEF LastAt
          <6>. QED
            BY <4>1, <6>1, <6>3
        <5>. QED
          BY <5>1, <5>2
      <4>. QED
        BY <4>1, <4>2 DEF LastAt
    <3>. QED
      BY <1>2, <1>3, <3>1, <3>2
  <2>2. CASE x \notin Names(rest) /\ x \in DOMAIN f
    <3>1. ASSUME NEW j \in 1..(n + 1), x \in DOMAIN all[j]
          PROVE  j = 1
      <4>1. CASE j # 1
        <5>1. j - 1 \in 1..n /\ all[j] = rest[j - 1]
          BY <4>1
        <5>. QED
          BY <2>2, <3>1, <5>1 DEF Names
      <4>. QED
        BY <4>1
    <3>2. LastAt(all, x, 1)
      BY <2>2, <3>1 DEF LastAt, f
    <3>. QED
      BY <1>2, <1>3, <1>4, <2>2, <3>2 DEF f
  <2>3. CASE x \notin Names(rest) /\ x \notin DOMAIN f
    BY <1>1, <1>2, <1>3, <1>4, <2>3
  <2>. QED
    BY <2>1, <2>2, <2>3
<1>6. DOMAIN a = DOMAIN b
  BY <1>1, <1>2, <1>3, <1>4
<1>7. a = b
  BY <1>2, <1>3, <1>5, <1>6, SameFunction
<1>. QED
  BY <1>7 DEF a, b, f

\* One change more after which the same changes would change nothing: nor would they and
\* the one.
LEMMA MergedAgain ==
  ASSUME NEW n \in Nat, NEW old, DOMAIN old = 1..n, NEW new, DOMAIN new = 1..(n + 1),
         \A i \in 1..n : new[i] = old[i], NEW g, IsFunction(g), Merged(old, g) = g
  PROVE  Merged(new, Over(new[n + 1], g)) = Over(new[n + 1], g)
<1>. DEFINE f == new[n + 1]  u == Over(f, g)  v == Merged(old, u)  w == Over(f, v)
<1>1. Merged(new, u) = w
  BY MergedMore
<1>2. Names(old) \subseteq DOMAIN g
  <2>1. IsMerge(Merged(old, g), old, g)
    BY MergedIs
  <2>. QED
    BY <2>1 DEF IsMerge
<1>3. IsOver(u, f, g)
  BY OverIs
<1>4. IsOver(w, f, v)
  BY OverIs
<1>5. IsMerge(v, old, u)
  BY MergedIs
<1>6. IsMerge(g, old, g)
  BY MergedIs
<1>. HIDE DEF u, v, w, f
<1>. USE DEF IsMerge, IsOver
<1>7. ASSUME NEW x \in DOMAIN w
      PROVE  w[x] = u[x]
  <2>1. CASE x \in DOMAIN f
    BY <1>3, <1>4, <2>1
  <2>2. CASE x \notin DOMAIN f /\ x \in Names(old)
    <3>1. PICK i : LastAt(old, x, i)
      BY <2>2, HasLast
    <3>2. v[x] = g[x]
      BY <1>5, <1>6, <3>1
    <3>. QED
      BY <1>2, <1>3, <1>4, <1>5, <2>2, <3>2
  <2>3. CASE x \notin DOMAIN f /\ x \notin Names(old)
    BY <1>3, <1>4, <1>5, <2>3
  <2>. QED
    BY <2>1, <2>2, <2>3
<1>8. DOMAIN w = DOMAIN u
  BY <1>2, <1>3, <1>4, <1>5
<1>9. w = u
  BY <1>3, <1>4, <1>7, <1>8, SameFunction
<1>. QED
  BY <1>1, <1>9 DEF u, f

\* Changes that would change nothing any more, and of which the ones to come are a part:
\* once those are carried out, the state is what these make of it.
LEMMA MergedAhead ==
  ASSUME NEW m \in Nat, NEW all, DOMAIN all = 1..m, NEW n \in Nat, NEW coming, DOMAIN coming = 1..n,
         Names(coming) \subseteq Names(all), NEW g, Merged(all, Merged(coming, g)) = Merged(coming, g)
  PROVE  Merged(all, g) = Merged(coming, g)
<1>. DEFINE a == Merged(all, g)  b == Merged(coming, g)
<1>1. IsMerge(a, all, g)
  BY MergedIs
<1>2. IsMerge(b, coming, g)
  BY MergedIs
<1>3. IsMerge(Merged(all, b), all, b)
  BY MergedIs
<1>4. Merged(all, b) = b
  OBVIOUS
<1>. HIDE DEF a, b
<1>. USE DEF IsMerge
<1>5. ASSUME NEW x \in DOMAIN a
      PROVE  a[x] = b[x]
  <2>1. CASE x \in Names(all)
    <3>1. PICK i : LastAt(all, x, i)
      BY <2>1, HasLast
    <3>. QED
      BY <1>1, <1>3, <1>4, <3>1
  <2>2. CASE x \notin Names(all)
    BY <1>1, <1>2, <2>2
  <2>. QED
    BY <2>1, <2>2
<1>6. DOMAIN a = DOMAIN b
  BY <1>1, <1>2, <1>3, <1>4
<1>7. a = b
  BY <1>1, <1>2, <1>5, <1>6, SameFunction
<1>. QED
  BY <1>7 DEF a, b

\* kindDP finds the data point of every kind that a product has, and one only.
LEMMA HasDP ==
  ASSUME NEW caps, IsList(caps), NEW kind \in Kinds(caps)
  PROVE  \E dp : KindDP(kind, caps) = {dp}
<1>. DEFINE I == {i \in DOMAIN caps : caps[i].kind = kind}
<1>1. DOMAIN caps = 1..Len(caps) /\ Len(caps) \in Nat
  BY DEF IsList
<1>2. I \in SUBSET (1..Len(caps)) /\ I # {}
  BY <1>1 DEF Kinds
<1>3. PICK m \in I : \A j \in I : j <= m
  <2>. HIDE DEF I
  <2>. QED
    BY <1>1, <1>2, LastPosition
<1>4. {i \in DOMAIN caps : caps[i].kind = kind /\ \A j \in DOMAIN caps : caps[j].kind = kind => j <= i} = {m}
  <2>1. I \subseteq Nat
    BY <1>1
  <2>2. \A i \in I : (\A j \in I : j <= i) => i = m
    <3>. HIDE DEF I
    <3>. QED
      BY <1>3, <2>1
  <2>. QED
    BY <1>3, <2>2
<1>5. KindDP(kind, caps) = {caps[i].dp : i \in {m}}
  BY <1>4 DEF KindDP
<1>. QED
  BY <1>5

\* What is set of a kind that a product has is not nothing.
LEMMA SetIsSomething ==
  ASSUME NEW caps, IsList(caps), NEW kind \in Kinds(caps), NEW value
  PROVE  Set(kind, caps, value) # Nothing
<1>1. PICK dp : KindDP(kind, caps) = {dp}
  BY HasDP
<1>2. Set(kind, caps, value) = [x \in {dp} |-> value]
  BY <1>1 DEF Set
<1>3. DOMAIN Nothing = {}
  BY DEF Nothing
<1>4. DOMAIN [x \in {dp} |-> value] = {dp}
  OBVIOUS
<1>5. DOMAIN Set(kind, caps, value) = {dp}
  BY <1>2, <1>4
<1>. QED
  BY <1>3, <1>5

\* ExecuteCommandToDPS sets something for every command that has a data point.
LEMMA GoogleMeans ==
  ASSUME NEW caps, IsList(caps), NEW cmd, GoogleTarget(cmd) \in Kinds(caps)
  PROVE  ExecuteCommandToDPS(cmd, caps) # Nothing
  BY SetIsSomething DEF ExecuteCommandToDPS

\* DirectiveToDPS sets something for every directive to an interface whose kind the
\* product has.
LEMMA AlexaMeans ==
  ASSUME NEW caps, IsList(caps), NEW dir, AlexaTarget(dir.interface) \in Kinds(caps),
         dir.interface \in Controllers
  PROVE  DirectiveToDPS(dir, caps) # Nothing
<1>. DEFINE kind == AlexaTarget(dir.interface)
            out == DirectiveToDPS(dir, caps)
<1>1. kind \in {"power", "lock", "color", "color_temp", "target_temp", "brightness", "fan_speed"}
  BY DEF AlexaTarget, Controllers
<1>. HIDE DEF kind
<1>2. \E value : out = Set(kind, caps, value)
  <2>1. CASE kind = "power"
    BY <2>1 DEF DirectiveToDPS, kind
  <2>2. CASE kind = "lock"
    BY <2>2 DEF DirectiveToDPS, kind
  <2>3. CASE kind = "color"
    BY <2>3 DEF DirectiveToDPS, kind
  <2>4. CASE kind = "color_temp"
    BY <2>4 DEF DirectiveToDPS, kind
  <2>5. CASE kind = "target_temp"
    BY <2>5 DEF DirectiveToDPS, kind
  <2>6. CASE kind \in {"brightness", "fan_speed"}
    BY <2>6 DEF DirectiveToDPS, kind
  <2>. QED
    BY <1>1, <2>1, <2>2, <2>3, <2>4, <2>5, <2>6
<1>. QED
  BY <1>2, SetIsSomething DEF kind

\* A discovered interface that takes directives is that of a kind of the product.
LEMMA Offered ==
  ASSUME NEW k \in DOMAIN Interfaces, NEW i \in Interfaces[k], i \in Controllers, k # "humidity"
  PROVE  AlexaTarget(i) = k
<1>1. k \in {"power", "brightness", "color", "color_temp", "target_temp", "thermo_mode",
             "fan_speed", "lock", "contact", "motion", "temperature", "none"}
  BY DEF Interfaces
<1>2. CASE k \in {"power", "brightness", "color", "color_temp"}
  BY <1>2 DEF Interfaces, AlexaTarget
<1>3. CASE k = "target_temp"
  BY <1>3 DEF Interfaces, AlexaTarget, Controllers
<1>4. CASE k \in {"fan_speed", "lock"}
  BY <1>4 DEF Interfaces, AlexaTarget
<1>5. CASE k \in {"thermo_mode", "contact", "motion", "temperature", "none"}
  BY <1>5 DEF Interfaces, Controllers
<1>. QED
  BY <1>1, <1>2, <1>3, <1>4, <1>5

-----------------------------------------------------------------------------

\* What is discovered is what is resolved: a list of known kinds, whatever the product and
\* whatever is released.
LEMMA StaticDescribed == \A pid : Described(CapsForPID(pid))
<1>. SUFFICES ASSUME NEW pid
              PROVE  Described(CapsForPID(pid))
  OBVIOUS
<1>. DEFINE Points == {Point(1, "power", {}, {}), Point(2, "brightness", {0}, {100}),
                       Point(3, "color_temp", {0}, {100}), Point(5, "color", {}, {}),
                       Point(2, "brightness", {10}, {100}), Point(2, "target_temp", {16}, {30})}
<1>1. ASSUME NEW p \in DOMAIN ProductProfiles
      PROVE  Described(ProductProfiles[p].caps)
  <2>. DEFINE caps == ProductProfiles[p].caps
  <2>1. caps \in Seq(Points)
    <3>1. DOMAIN ProductProfiles = {"light_rgbcw", "light1", "th1", "sp1", "gen1"}
      BY DEF ProductProfiles
    <3>2. ProductProfiles["light_rgbcw"].caps =
            <<Point(1, "power", {}, {}), Point(2, "brightness", {0}, {100}),
              Point(3, "color_temp", {0}, {100}), Point(5, "color", {}, {})>>
      BY DEF ProductProfiles
    <3>3. ProductProfiles["light1"].caps =
            <<Point(1, "power", {}, {}), Point(2, "brightness", {10}, {100})>>
      BY DEF ProductProfiles
    <3>4. ProductProfiles["th1"].caps =
            <<Point(1, "power", {}, {}), Point(2, "target_temp", {16}, {30})>>
      BY DEF ProductProfiles
    <3>5. /\ ProductProfiles["sp1"].caps = <<Point(1, "power", {}, {})>>
          /\ ProductProfiles["gen1"].caps = <<Point(1, "power", {}, {})>>
      BY DEF ProductProfiles
    <3>6. ASSUME NEW c1 \in Points PROVE <<c1>> \in Seq(Points)
      OBVIOUS
    <3>7. ASSUME NEW c1 \in Points, NEW c2 \in Points PROVE <<c1, c2>> \in Seq(Points)
      <4>. HIDE DEF Points
      <4>. QED
        OBVIOUS
    <3>8. ASSUME NEW c1 \in Points, NEW c2 \in Points, NEW c3 \in Points, NEW c4 \in Points
          PROVE  <<c1, c2, c3, c4>> \in Seq(Points)
      <4>. HIDE DEF Points
      <4>. QED
        OBVIOUS
    <3>9. /\ Point(1, "power", {}, {}) \in Points /\ Point(2, "brightness", {0}, {100}) \in Points
          /\ Point(3, "color_temp", {0}, {100}) \in Points /\ Point(5, "color", {}, {}) \in Points
          /\ Point(2, "brightness", {10}, {100}) \in Points
          /\ Point(2, "target_temp", {16}, {30}) \in Points
      OBVIOUS
    <3>. HIDE DEF Points
    <3>10. /\ ProductProfiles["light_rgbcw"].caps \in Seq(Points)
           /\ ProductProfiles["light1"].caps \in Seq(Points)
           /\ ProductProfiles["th1"].caps \in Seq(Points)
           /\ ProductProfiles["sp1"].caps \in Seq(Points)
           /\ ProductProfiles["gen1"].caps \in Seq(Points)
      BY <3>2, <3>3, <3>4, <3>5, <3>6, <3>7, <3>8, <3>9
    <3>. QED
      BY <3>1, <3>10
  <2>2. \A c \in Points : c.kind \in DOMAIN Interfaces
    BY DEF Point, Interfaces
  <2>. HIDE DEF Points, caps
  <2>3. IsList(caps)
    BY <2>1, LenProperties DEF IsList
  <2>4. \A i \in DOMAIN caps : caps[i] \in Points
    BY <2>1, LenProperties, ElementOfSeq
  <2>5. Described(caps)
    BY <2>2, <2>3, <2>4 DEF Described, Kinds
  <2>. QED
    BY <2>5 DEF caps
<1>2. "gen1" \in DOMAIN ProductProfiles
  BY DEF ProductProfiles
<1>. QED
  BY <1>1, <1>2 DEF CapsForPID, Static

\* The versions of the product.
RowsTyped ==
  /\ house \in VoiceSettings
  /\ \A v \in DOMAIN rows : rows[v] \in [art : house.arts, retired : BOOLEAN]

\* The capabilities resolved are a list, each of a kind that Alexa has interfaces for.
LEMMA CapsDescribed ==
  ASSUME RowsTyped
  PROVE  Described(Caps)
<1>1. \A art \in house.arts : Described(AppCapabilities(art))
  BY VoiceAssumptions DEF VoiceAssumptions, RowsTyped
<1>2. Newest(rows) \subseteq house.arts
  BY DEF Newest, RowsTyped
<1>3. CASE Newest(rows) # {}
  <2>1. (CHOOSE art \in Newest(rows) : TRUE) \in house.arts
    BY <1>2, <1>3
  <2>. QED
    BY <1>1, <1>3, <2>1 DEF Caps, CapsOf, Released, ResolveCapabilities
<1>4. CASE Newest(rows) = {}
  BY <1>4, StaticDescribed DEF Caps, CapsOf, Released, ResolveCapabilities
<1>. QED
  BY <1>3, <1>4

\* A product resolved again is the same.
LEMMA CapsSame ==
  ASSUME UNCHANGED <<house, rows>>
  PROVE  Caps' = Caps
BY DEF Caps, CapsOf, Released

\* A list, one shorter and one longer.
LEMMA ListRest ==
  ASSUME NEW s, IsList(s), s # <<>>
  PROVE  /\ IsList(Tail(s)) /\ DOMAIN s = 1..Len(s) /\ DOMAIN Tail(s) = 1..(Len(s) - 1)
         /\ Len(s) \in Nat \ {0} /\ Len(Tail(s)) = Len(s) - 1
         /\ \A i \in 1..(Len(s) - 1) : Tail(s)[i] = s[i + 1]
         /\ Head(s) = s[1]
<1>. DEFINE S == {s[i] : i \in 1..Len(s)}
<1>1. s \in Seq(S)
  <2>1. Len(s) \in Nat /\ s = [i \in 1..Len(s) |-> s[i]]
    BY DEF IsList
  <2>2. s \in [1..Len(s) -> S]
    BY <2>1
  <2>. QED
    BY <2>1, <2>2
<1>. HIDE DEF S
<1>2. /\ Tail(s) \in Seq(S) /\ DOMAIN s = 1..Len(s) /\ Len(s) \in Nat \ {0}
      /\ Len(Tail(s)) = Len(s) - 1 /\ \A i \in 1..Len(Tail(s)) : Tail(s)[i] = s[i + 1]
  BY <1>1, HeadTailProperties, LenProperties, EmptySeq
<1>3. Len(Tail(s)) \in Nat /\ Tail(s) \in [1..Len(Tail(s)) -> S]
  BY <1>2, LenProperties
<1>4. IsList(Tail(s))
  BY <1>3 DEF IsList
<1>5. Head(s) = s[1]
  BY <1>1, <1>2
<1>. QED
  BY <1>2, <1>3, <1>4, <1>5

\* An entry more for a list.
LEMMA ListMore ==
  ASSUME NEW s, IsList(s), NEW e
  PROVE  /\ IsList(Append(s, e)) /\ DOMAIN s = 1..Len(s) /\ DOMAIN Append(s, e) = 1..(Len(s) + 1)
         /\ Len(s) \in Nat
         /\ \A i \in 1..Len(s) : Append(s, e)[i] = s[i]
         /\ Append(s, e)[Len(s) + 1] = e
<1>. DEFINE S == {s[i] : i \in 1..Len(s)} \cup {e}
<1>1. s \in Seq(S)
  <2>1. Len(s) \in Nat /\ s = [i \in 1..Len(s) |-> s[i]]
    BY DEF IsList
  <2>2. s \in [1..Len(s) -> S]
    BY <2>1
  <2>. QED
    BY <2>1, <2>2
<1>2. e \in S
  OBVIOUS
<1>. HIDE DEF S
<1>3. /\ Append(s, e) \in Seq(S) /\ Len(Append(s, e)) = Len(s) + 1 /\ Len(s) \in Nat
      /\ \A i \in 1..Len(s) : Append(s, e)[i] = s[i]
      /\ Append(s, e)[Len(s) + 1] = e
  BY <1>1, <1>2, AppendProperties, LenProperties
<1>4. Append(s, e) \in [1..Len(Append(s, e)) -> S]
  BY <1>3, LenProperties
<1>5. IsList(Append(s, e))
  <2>. DEFINE t == Append(s, e)
  <2>1. Len(t) \in Nat /\ t \in [1..Len(t) -> S]
    BY <1>3, <1>4
  <2>. HIDE DEF t
  <2>2. IsList(t)
    BY <2>1 DEF IsList
  <2>. QED
    BY <2>2 DEF t
<1>6. DOMAIN s = 1..Len(s)
  BY <1>1, LenProperties
<1>. QED
  BY <1>3, <1>4, <1>5, <1>6

\* A list of wishes of an assistant's.
WishList(a, ws) ==
  IsList(ws) /\ (a = "alexa" => \A i \in DOMAIN ws : ws[i].interface \in Controllers)

\* The first of the wishes, and the others.
LEMMA FirstWish ==
  ASSUME NEW a, NEW ws, WishList(a, ws), ws # <<>>
  PROVE  /\ WishList(a, Tail(ws))
         /\ a = "alexa" => Head(ws).interface \in Controllers
<1>1. IsList(ws)
  BY DEF WishList
<1>. QED
  BY <1>1, ListRest DEF WishList

AtDevice == {"owner", "online", "resolve", "send", "report"}

ReqShaped ==
  /\ DOMAIN req = Requests /\ DOMAIN spoilt = Requests
  /\ \A h \in Requests : DOMAIN req[h] = DOMAIN Idle

\* A request at a device: whose wishes they are and where they go; once it has looked at the
\* owner, it has the product, and once it has resolved the product, it has the capabilities
\* as they are, or the device is spoilt.
ReqInv(h) ==
  /\ req[h].pc \in AtDevice =>
       /\ req[h].by \in Assistants
       /\ WishList(req[h].by, req[h].wants)
       /\ req[h].devs \in Seq(house.devices) /\ req[h].devs # <<>>
  /\ req[h].pc \in {"online", "resolve", "report"} =>
       /\ req[h].pid \in {house.pid, house.appPid}
       /\ Head(req[h].devs) \notin spoilt[h] => req[h].pid = house.pid
  /\ req[h].pc = "send" =>
       /\ WishList(req[h].by, req[h].left)
       /\ Head(req[h].devs) \notin spoilt[h] => req[h].caps = Caps

VoiceInv ==
  /\ RowsTyped /\ ReqShaped
  /\ \A h \in Requests : ReqInv(h)
  /\ refused = {}

\* A request that goes on to its next step.
LEMMA Advanced ==
  ASSUME ReqShaped, NEW h \in Requests, NEW step, Advance(h, step)
  PROVE  /\ DOMAIN req' = Requests /\ DOMAIN req'[h] = DOMAIN Idle
         /\ req'[h].pc = step
         /\ req'[h].by = req[h].by /\ req'[h].wants = req[h].wants
         /\ req'[h].devs = req[h].devs /\ req'[h].left = req[h].left /\ req'[h].caps = req[h].caps
         /\ req'[h].states = req[h].states /\ req'[h].last = req[h].last /\ req'[h].pid = req[h].pid
         /\ \A g \in Requests \ {h} : req'[g] = req[g]
  BY DEF ReqShaped, Advance, Idle

\* A request that has the product of its device.
LEMMA Owned ==
  ASSUME ReqShaped, NEW h \in Requests, NEW pid,
         req' = [req EXCEPT ![h].pc = "online", ![h].pid = pid]
  PROVE  /\ DOMAIN req' = Requests /\ DOMAIN req'[h] = DOMAIN Idle
         /\ req'[h].pc = "online"
         /\ req'[h].by = req[h].by /\ req'[h].wants = req[h].wants
         /\ req'[h].devs = req[h].devs /\ req'[h].left = req[h].left /\ req'[h].caps = req[h].caps
         /\ req'[h].states = req[h].states /\ req'[h].last = req[h].last /\ req'[h].pid = pid
         /\ \A g \in Requests \ {h} : req'[g] = req[g]
  BY DEF ReqShaped, Idle

\* What a statement that may fail spoils.
LEMMA Spoilt ==
  ASSUME ReqShaped, NEW h \in Requests, NEW fails, Spoil(h, fails)
  PROVE  /\ DOMAIN spoilt' = Requests
         /\ \A g \in Requests : spoilt[g] \subseteq spoilt'[g]
         /\ \A g \in Requests \ {h} : spoilt'[g] = spoilt[g]
         /\ spoilt'[h] = spoilt[h] \cup {d \in {Device(h)} : fails}
  BY DEF ReqShaped, Spoil

\* A request that goes on to its next device has one.
LEMMA Proceeded ==
  ASSUME ReqShaped, NEW h \in Requests, ReqInv(h), req[h].pc \in AtDevice, NEW states,
         Proceed(h, states)
  PROVE  /\ DOMAIN req' = Requests /\ DOMAIN req'[h] = DOMAIN Idle
         /\ req'[h].pc = IF Len(req[h].devs) = 1 THEN "respond" ELSE "owner"
         /\ req'[h].by = req[h].by /\ req'[h].wants = req[h].wants
         /\ req'[h].states = Over(states, req[h].states)
         /\ req'[h].last = IF states = Nothing THEN req[h].last ELSE {Device(h)}
         /\ req'[h].devs \in Seq(house.devices)
         /\ req'[h].pc = "owner" => req'[h].devs # <<>>
         /\ \A g \in Requests \ {h} : req'[g] = req[g]
<1>1. /\ DOMAIN req' = Requests /\ DOMAIN req'[h] = DOMAIN Idle
      /\ req'[h].pc = IF Len(req[h].devs) = 1 THEN "respond" ELSE "owner"
      /\ req'[h].by = req[h].by /\ req'[h].wants = req[h].wants
      /\ req'[h].states = Over(states, req[h].states)
      /\ req'[h].last = IF states = Nothing THEN req[h].last ELSE {Device(h)}
      /\ req'[h].devs = Tail(req[h].devs)
      /\ \A g \in Requests \ {h} : req'[g] = req[g]
  BY DEF ReqShaped, Proceed, Idle
<1>2. req[h].devs \in Seq(house.devices) /\ req[h].devs # <<>>
  BY DEF ReqInv
<1>3. Tail(req[h].devs) \in Seq(house.devices)
  BY <1>2, HeadTailProperties
<1>4. Len(req[h].devs) # 1 => Tail(req[h].devs) # <<>>
  <2>1. Len(Tail(req[h].devs)) = Len(req[h].devs) - 1 /\ Len(req[h].devs) \in Nat
    BY <1>2, HeadTailProperties, LenProperties
  <2>2. Tail(req[h].devs) = <<>> => Len(Tail(req[h].devs)) = 0
    BY EmptySeq
  <2>. QED
    BY <2>1, <2>2
<1>. QED
  BY <1>1, <1>3, <1>4

\* What is spoilt stays so.
LEMMA Disturbed ==
  ASSUME ReqShaped, NEW ds, NEW own, Disturb(ds, own)
  PROVE  /\ DOMAIN spoilt' = Requests
         /\ \A g \in Requests : spoilt[g] \subseteq spoilt'[g]
         /\ \A g \in Requests \ own : req[g].pc = "send" => ds \subseteq spoilt'[g]
  BY DEF Disturb, ReqShaped

\* A request that does nothing while the product stays what it is.
LEMMA Bystands ==
  ASSUME NEW g \in Requests, ReqInv(g), req'[g] = req[g], spoilt[g] \subseteq spoilt'[g],
         house' = house, rows' = rows
  PROVE  ReqInv(g)'
  BY CapsSame DEF ReqInv

\* A step of one request's, which is at a device afterwards or not.
LEMMA Others ==
  ASSUME VoiceInv, NEW h \in Requests, UNCHANGED <<house, rows>>,
         DOMAIN req' = Requests, DOMAIN req'[h] = DOMAIN Idle, DOMAIN spoilt' = Requests,
         \A g \in Requests \ {h} : req'[g] = req[g] /\ spoilt[g] \subseteq spoilt'[g],
         ReqInv(h)', refused' = {}
  PROVE  VoiceInv'
<1>1. RowsTyped'
  BY DEF VoiceInv, RowsTyped
<1>2. ReqShaped'
  BY DEF VoiceInv, ReqShaped
<1>3. \A g \in Requests : ReqInv(g)'
  BY Bystands DEF VoiceInv
<1>. QED
  BY <1>1, <1>2, <1>3 DEF VoiceInv

\* A step of none's.
LEMMA World ==
  ASSUME VoiceInv, UNCHANGED <<house, rows, req, refused>>, DOMAIN spoilt' = Requests,
         \A g \in Requests : spoilt[g] \subseteq spoilt'[g]
  PROVE  VoiceInv'
<1>1. RowsTyped'
  BY DEF VoiceInv, RowsTyped
<1>2. ReqShaped'
  BY DEF VoiceInv, ReqShaped
<1>3. \A g \in Requests : ReqInv(g)'
  BY Bystands DEF VoiceInv
<1>. QED
  BY <1>1, <1>2, <1>3 DEF VoiceInv

\* No request is under way at first.
LEMMA InitVoice == VoiceInit => VoiceInv
<1>. SUFFICES ASSUME VoiceInit
              PROVE  VoiceInv
  OBVIOUS
<1>1. RowsTyped
  BY VoiceAssumptions DEF VoiceAssumptions, VoiceInit, RowsTyped
<1>2. ReqShaped
  BY DEF VoiceInit, ReqShaped
<1>3. \A h \in Requests : ReqInv(h)
  BY DEF VoiceInit, ReqInv, Idle, AtDevice
<1>4. refused = {}
  BY DEF VoiceInit
<1>. QED
  BY <1>1, <1>2, <1>3, <1>4 DEF VoiceInv

\* A request that has the capabilities as they are translates every wish it promised to.
LEMMA WishMeans ==
  ASSUME VoiceInv, NEW h \in Requests, req[h].pc = "send", req[h].left # <<>>,
         Promised(h, Head(req[h].left))
  PROVE  Translate(req[h].by, Head(req[h].left), req[h].caps) # Nothing
<1>. DEFINE wish == Head(req[h].left)
<1>1. /\ req[h].by \in Assistants
      /\ WishList(req[h].by, req[h].left) /\ req[h].caps = Caps
  BY DEF VoiceInv, ReqInv, Promised, Device, AtDevice
<1>2. IsList(Caps) /\ Kinds(Caps) \subseteq DOMAIN Interfaces
  BY CapsDescribed DEF VoiceInv, Described
<1>3. PICK k \in Kinds(Caps) :
        IF req[h].by = "google" THEN k = GoogleTarget(wish)
        ELSE wish.interface \in Interfaces[k] /\ k # "humidity"
  BY DEF Promised
<1>4. CASE req[h].by = "google"
  BY <1>1, <1>2, <1>3, <1>4, GoogleMeans DEF Translate
<1>5. CASE req[h].by = "alexa"
  <2>1. wish.interface \in Controllers
    BY <1>1, <1>5, FirstWish
  <2>2. AlexaTarget(wish.interface) = k
    BY <1>2, <1>3, <1>5, <2>1, Offered
  <2>. QED
    BY <1>1, <1>2, <1>5, <2>1, <2>2, AlexaMeans DEF Translate
<1>. QED
  BY <1>1, <1>4, <1>5 DEF Assistants

\* A wish is passed over only where it was not promised.
LEMMA NothingRefused ==
  ASSUME VoiceInv, NEW h \in Requests, Skip(h)
  PROVE  refused' = {}
<1>1. ~ Promised(h, Head(req[h].left))
  BY WishMeans DEF Skip
<1>. QED
  BY <1>1 DEF Skip, VoiceInv

\* What the requests do.
LEMMA RequestVoice ==
  ASSUME VoiceInv, NEW h \in Requests,
         \/ Ask(h) \/ OwnsDevice(h) \/ IsOnline(h) \/ Resolve(h) \/ Skip(h) \/ SendCommand(h)
         \/ Answer(h) \/ ReportState(h) \/ Respond(h)
  PROVE  VoiceInv'
<1>. USE DEF AtDevice
<1>0. ReqShaped /\ ReqInv(h) /\ DOMAIN spoilt = Requests /\ house \in VoiceSettings /\ refused = {}
  BY DEF VoiceInv, ReqShaped, RowsTyped
<1>1. CASE Ask(h)
  <2>1. PICK plan \in house.plans :
          req' = [req EXCEPT ![h] = [Idle EXCEPT !.pc = "owner", !.by = plan.by,
                                                 !.wants = plan.wants, !.devs = plan.devs]]
    BY <1>1 DEF Ask
  <2>2. /\ DOMAIN req' = Requests /\ DOMAIN req'[h] = DOMAIN Idle
        /\ req'[h].pc = "owner" /\ req'[h].by = plan.by /\ req'[h].wants = plan.wants
        /\ req'[h].devs = plan.devs
        /\ \A g \in Requests \ {h} : req'[g] = req[g]
    BY <1>0, <2>1 DEF ReqShaped, Idle
  <2>3. plan.by \in Assistants /\ WishList(plan.by, plan.wants) /\ plan.devs \in Seq(house.devices) /\ plan.devs # <<>>
    BY <1>0, VoiceAssumptions DEF VoiceAssumptions, WishList
  <2>4. UNCHANGED <<house, rows, spoilt, refused>>
    BY <1>1 DEF Ask, worldVars, voiceHistory
  <2>5. ReqInv(h)'
    BY <2>2, <2>3, <2>4 DEF ReqInv
  <2>. QED
    BY <1>0, <2>2, <2>4, <2>5, Others
<1>2. ASSUME NEW states, Proceed(h, states), req[h].pc \in AtDevice
      PROVE  /\ DOMAIN req' = Requests /\ DOMAIN req'[h] = DOMAIN Idle
             /\ \A g \in Requests \ {h} : req'[g] = req[g]
             /\ house' = house => ReqInv(h)'
  BY <1>0, <1>2, Proceeded DEF ReqInv
<1>3. ASSUME NEW step \in {"report", "resolve"}, Advance(h, step), req[h].pc = "online",
             UNCHANGED <<house, spoilt>>
      PROVE  /\ DOMAIN req' = Requests /\ DOMAIN req'[h] = DOMAIN Idle
             /\ \A g \in Requests \ {h} : req'[g] = req[g]
             /\ ReqInv(h)'
  BY <1>0, <1>3, Advanced DEF ReqInv
<1>4. CASE OwnsDevice(h)
  <2>1. UNCHANGED <<house, rows, refused>> /\ req[h].pc \in AtDevice
    BY <1>4 DEF OwnsDevice, worldVars
  <2>2. CASE Proceed(h, Nothing) /\ UNCHANGED spoilt
    BY <1>0, <1>2, <2>1, <2>2, Others
  <2>3. ASSUME NEW fails \in Failures, NEW unsure \in Failures, NEW pid,
               pid = IF fails THEN house.appPid ELSE house.pid,
               IF Supported(pid, req[h].by, unsure)
               THEN req' = [req EXCEPT ![h].pc = "online", ![h].pid = pid]
               ELSE Proceed(h, Nothing),
               Spoil(h, fails)
        PROVE  VoiceInv'
    <3>1. /\ DOMAIN spoilt' = Requests /\ \A g \in Requests : spoilt[g] \subseteq spoilt'[g]
          /\ spoilt'[h] = spoilt[h] \cup {d \in {Device(h)} : fails}
      BY <1>0, <2>3, Spoilt
    <3>2. CASE Proceed(h, Nothing)
      BY <1>0, <1>2, <2>1, <3>1, <3>2, Others
    <3>3. CASE req' = [req EXCEPT ![h].pc = "online", ![h].pid = pid]
      <4>1. /\ DOMAIN req' = Requests /\ DOMAIN req'[h] = DOMAIN Idle
            /\ req'[h].pc = "online" /\ req'[h].pid = pid
            /\ req'[h].by = req[h].by /\ req'[h].wants = req[h].wants
            /\ req'[h].devs = req[h].devs
            /\ \A g \in Requests \ {h} : req'[g] = req[g]
        BY <1>0, <3>3, Owned
      <4>2. Head(req[h].devs) \notin spoilt'[h] => ~ fails
        BY <3>1 DEF Device
      <4>3. ReqInv(h)'
        BY <1>0, <2>1, <2>3, <4>1, <4>2 DEF ReqInv
      <4>. QED
        BY <1>0, <2>1, <3>1, <4>1, <4>3, Others
    <3>. QED
      BY <2>3, <3>2, <3>3
  <2>4. \/ Proceed(h, Nothing) /\ UNCHANGED spoilt
        \/ \E fails, unsure \in Failures :
             LET pid == IF fails THEN house.appPid ELSE house.pid
             IN  /\ IF Supported(pid, req[h].by, unsure)
                    THEN req' = [req EXCEPT ![h].pc = "online", ![h].pid = pid]
                    ELSE Proceed(h, Nothing)
                 /\ Spoil(h, fails)
    BY <1>4 DEF OwnsDevice
  <2>. QED
    BY <2>2, <2>3, <2>4
<1>5. CASE IsOnline(h)
  <2>1. UNCHANGED <<house, rows, spoilt, refused>> /\ req[h].pc = "online"
    BY <1>5 DEF IsOnline, worldVars, voiceHistory
  <2>2. Advance(h, "report") \/ Advance(h, "resolve") \/ Proceed(h, Nothing)
    BY <1>5 DEF IsOnline
  <2>. QED
    BY <1>0, <1>2, <1>3, <2>1, <2>2, Others
<1>6. CASE Resolve(h)
  <2>1. PICK fails \in Failures :
          /\ req' = [req EXCEPT ![h].pc = "send", ![h].caps = CapsOf(req[h].pid, fails),
                                ![h].left = req[h].wants]
          /\ Spoil(h, fails)
    BY <1>6 DEF Resolve
  <2>2. /\ DOMAIN req' = Requests /\ DOMAIN req'[h] = DOMAIN Idle
        /\ req'[h].pc = "send" /\ req'[h].by = req[h].by /\ req'[h].wants = req[h].wants
        /\ req'[h].devs = req[h].devs /\ req'[h].left = req[h].wants
        /\ req'[h].caps = CapsOf(req[h].pid, fails)
        /\ \A g \in Requests \ {h} : req'[g] = req[g]
    BY <1>0, <2>1 DEF ReqShaped, Idle
  <2>3. req[h].pc = "resolve" /\ UNCHANGED <<house, rows, refused>>
    BY <1>6 DEF Resolve, worldVars
  <2>4. /\ DOMAIN spoilt' = Requests /\ \A g \in Requests : spoilt[g] \subseteq spoilt'[g]
        /\ spoilt'[h] = spoilt[h] \cup {d \in {Device(h)} : fails}
    BY <1>0, <2>1, Spoilt
  <2>6. Head(req[h].devs) \notin spoilt'[h] => CapsOf(req[h].pid, fails) = Caps
    BY <1>0, <2>3, <2>4 DEF ReqInv, Device, Caps, CapsOf, ResolveCapabilities
  <2>7. Caps' = Caps
    BY <2>3, CapsSame
  <2>8. ReqInv(h)'
    BY <1>0, <2>2, <2>3, <2>6, <2>7 DEF ReqInv
  <2>. QED
    BY <1>0, <2>2, <2>3, <2>4, <2>8, Others
<1>7. ASSUME req[h].pc = "send", req[h].left # <<>>, req' = [req EXCEPT ![h].left = Tail(@)],
             UNCHANGED <<house, rows>>, spoilt[h] \subseteq spoilt'[h]
      PROVE  /\ DOMAIN req' = Requests /\ DOMAIN req'[h] = DOMAIN Idle
             /\ \A g \in Requests \ {h} : req'[g] = req[g]
             /\ ReqInv(h)'
  <2>1. /\ DOMAIN req' = Requests /\ DOMAIN req'[h] = DOMAIN Idle
        /\ req'[h].pc = "send" /\ req'[h].by = req[h].by /\ req'[h].wants = req[h].wants
        /\ req'[h].devs = req[h].devs /\ req'[h].caps = req[h].caps
        /\ req'[h].left = Tail(req[h].left)
        /\ \A g \in Requests \ {h} : req'[g] = req[g]
    BY <1>0, <1>7 DEF ReqShaped, Idle
  <2>2. Caps' = Caps
    BY <1>7, CapsSame
  <2>3. WishList(req[h].by, Tail(req[h].left))
    BY <1>0, <1>7, FirstWish DEF ReqInv
  <2>4. ReqInv(h)'
    BY <1>0, <1>7, <2>1, <2>2, <2>3 DEF ReqInv
  <2>. QED
    BY <2>1, <2>4
<1>8. CASE Skip(h)
  <2>1. /\ req[h].pc = "send" /\ req[h].left # <<>> /\ UNCHANGED <<house, rows, spoilt>>
        /\ Proceed(h, Nothing) \/ req' = [req EXCEPT ![h].left = Tail(@)]
    BY <1>8 DEF Skip, GiveUp, worldVars
  <2>2. refused' = {}
    BY <1>8, NothingRefused
  <2>. QED
    BY <1>0, <1>2, <1>7, <2>1, <2>2, Others
<1>9. CASE SendCommand(h)
  <2>1. /\ req[h].pc = "send" /\ req[h].left # <<>> /\ UNCHANGED <<house, rows, refused>>
        /\ Proceed(h, Nothing) \/ req' = [req EXCEPT ![h].left = Tail(@)]
    BY <1>9 DEF SendCommand, GiveUp
  <2>2. Disturb({Device(h)}, {h}) \/ Disturb({Device(h)}, {}) \/ Spoil(h, TRUE)
    BY <1>9 DEF SendCommand
  <2>3. DOMAIN spoilt' = Requests /\ \A g \in Requests : spoilt[g] \subseteq spoilt'[g]
    BY <1>0, <2>2, Disturbed, Spoilt
  <2>. QED
    BY <1>0, <1>2, <1>7, <2>1, <2>3, Others
<1>10. ASSUME NEW fails, Notice(h, fails)
       PROVE  DOMAIN spoilt' = Requests /\ \A g \in Requests : spoilt[g] \subseteq spoilt'[g]
  BY <1>0, <1>10, Spoilt DEF Notice
<1>11. CASE Answer(h) \/ ReportState(h)
  <2>1. /\ req[h].pc \in AtDevice /\ UNCHANGED <<house, rows, refused>>
        /\ \E fails : Notice(h, fails)
        /\ \E states : Proceed(h, states)
    BY <1>11 DEF Answer, ReportState, worldVars
  <2>. QED
    BY <1>0, <1>2, <1>10, <2>1, Others
<1>12. CASE Respond(h)
  <2>1. /\ UNCHANGED <<house, rows, refused>> /\ Advance(h, "done")
        /\ spoilt' = [spoilt EXCEPT ![h] = {}]
    BY <1>12 DEF Respond, worldVars
  <2>2. /\ DOMAIN req' = Requests /\ DOMAIN req'[h] = DOMAIN Idle
        /\ req'[h].pc = "done"
        /\ \A g \in Requests \ {h} : req'[g] = req[g]
    BY <1>0, <2>1, Advanced
  <2>3. DOMAIN spoilt' = Requests /\ \A g \in Requests \ {h} : spoilt[g] \subseteq spoilt'[g]
    BY <1>0, <2>1
  <2>4. ReqInv(h)'
    BY <2>2 DEF ReqInv
  <2>. QED
    BY <1>0, <2>1, <2>2, <2>3, <2>4, Others
<1>. QED
  BY <1>1, <1>4, <1>5, <1>6, <1>8, <1>9, <1>11, <1>12

\* Another version, or one retired: what was resolved before need not be the product's
\* any more, and every device is spoilt.
LEMMA ProductVoice ==
  ASSUME VoiceInv, Release \/ Retire
  PROVE  VoiceInv'
<1>1. UNCHANGED <<house, req, refused>> /\ Disturb(house.devices, {})
  BY DEF Release, Retire
<1>2. ReqShaped /\ refused = {} /\ RowsTyped
  BY DEF VoiceInv
<1>3. RowsTyped'
  <2>1. CASE Release
    <3>1. PICK v \in Versions, art \in house.arts : rows' = UpsertReleasedProduct(rows, v, art)
      BY <2>1 DEF Release
    <3>2. CASE rows' = rows
      BY <1>1, <1>2, <3>2 DEF RowsTyped
    <3>3. CASE rows' # rows
      <4>1. rows' = [w \in DOMAIN rows \cup {v} |->
                       IF w # v THEN rows[w]
                       ELSE [art |-> art, retired |-> v \in DOMAIN rows /\ rows[v].retired]]
        BY <3>1, <3>3 DEF UpsertReleasedProduct
      <4>2. v \in DOMAIN rows => rows[v].retired \in BOOLEAN
        BY <1>2 DEF RowsTyped
      <4>3. [art |-> art, retired |-> v \in DOMAIN rows /\ rows[v].retired]
              \in [art : house.arts, retired : BOOLEAN]
        BY <4>2
      <4>. QED
        BY <1>1, <1>2, <4>1, <4>3 DEF RowsTyped
    <3>. QED
      BY <3>2, <3>3
  <2>2. CASE Retire
    <3>1. PICK vs \in {DOMAIN rows} \cup {{v} : v \in Versions}, retired \in BOOLEAN :
            rows' = RetireReleasedProduct(rows, vs, retired)
      BY <2>2 DEF Retire
    <3>2. \A v \in DOMAIN rows :
            rows[v] \in [art : house.arts, retired : BOOLEAN] =>
              [rows[v] EXCEPT !.retired = retired] \in [art : house.arts, retired : BOOLEAN]
      OBVIOUS
    <3>. QED
      BY <1>1, <1>2, <3>1, <3>2 DEF RowsTyped, RetireReleasedProduct
  <2>. QED
    BY <2>1, <2>2
<1>4. ReqShaped'
  BY <1>1, <1>2, Disturbed DEF ReqShaped
<1>5. ASSUME NEW h \in Requests
      PROVE  ReqInv(h)'
  <2>1. ReqInv(h) /\ req'[h] = req[h] /\ house' = house
    BY <1>1 DEF VoiceInv
  <2>2. /\ spoilt[h] \subseteq spoilt'[h]
        /\ req[h].pc = "send" => Head(req[h].devs) \in spoilt'[h]
    <3>1. CASE req[h].pc = "send"
      <4>1. req[h].devs \in Seq(house.devices) /\ req[h].devs # <<>>
        BY <2>1, <3>1 DEF ReqInv, AtDevice
      <4>2. Head(req[h].devs) \in house.devices
        BY <4>1, HeadTailProperties
      <4>. QED
        BY <1>1, <1>2, <3>1, <4>2, Disturbed
    <3>2. spoilt[h] \subseteq spoilt'[h]
      BY <1>1, <1>2, Disturbed
    <3>. QED
      BY <3>1, <3>2
  <2>. QED
    BY <2>1, <2>2 DEF ReqInv
<1>. QED
  BY <1>1, <1>2, <1>3, <1>4, <1>5 DEF VoiceInv

\* Every step.
LEMMA NextVoice == VoiceInv /\ [VoiceNext]_voiceVars => VoiceInv'
<1>. SUFFICES ASSUME VoiceInv, [VoiceNext]_voiceVars
              PROVE  VoiceInv'
  OBVIOUS
<1>0. ReqShaped /\ DOMAIN spoilt = Requests
  BY DEF VoiceInv, ReqShaped
<1>1. CASE UNCHANGED voiceVars
  <2>1. UNCHANGED <<house, rows, req, spoilt, refused>>
    BY <1>1 DEF voiceVars, worldVars, voiceHistory
  <2>. QED
    BY <1>0, <2>1, World
<1>2. CASE \E h \in Requests :
             \/ Ask(h) \/ OwnsDevice(h) \/ IsOnline(h) \/ Resolve(h) \/ Skip(h)
             \/ SendCommand(h) \/ Answer(h) \/ ReportState(h) \/ Respond(h)
  BY <1>2, RequestVoice
<1>3. CASE \E a \in Assistants : Discover(a) \/ \E d \in house.devices : Push(a, d)
  <2>1. UNCHANGED <<house, rows, req, spoilt, refused>>
    BY <1>3 DEF Discover, Push, worldVars, voiceHistory
  <2>. QED
    BY <1>0, <2>1, World
<1>4. CASE \E d \in house.devices : Apply(d) \/ Power(d) \/ GiveAway(d)
  <2>1. UNCHANGED <<house, rows, req, spoilt, refused>>
    BY <1>4 DEF Apply, Power, GiveAway, voiceHistory
  <2>. QED
    BY <1>0, <2>1, World
<1>5. CASE \E d \in house.devices : Touch(d) \/ Lose(d)
  <2>1. UNCHANGED <<house, rows, req, refused>> /\ \E d \in house.devices : Disturb({d}, {})
    BY <1>5 DEF Touch, Lose
  <2>. QED
    BY <1>0, <2>1, Disturbed, World
<1>6. CASE Release \/ Retire
  BY <1>6, ProductVoice
<1>. QED
  BY <1>1, <1>2, <1>3, <1>4, <1>5, <1>6 DEF VoiceNext

\* For any products, requests, releases, changes at the devices and failures, no wish that what
\* was discovered offers, for something that the product of the device has, is refused or passed
\* over, unless the product changed since the request began or one of its SELECTs failed:
\* DirectiveToDPS and ExecuteCommandToDPS know a data point for each.
THEOREM DiscoveredIsCarriedOut == VoiceSpec => []DiscoveredWorks
<1>1. VoiceInv => DiscoveredWorks
  BY DEF VoiceInv, DiscoveredWorks
<1>. QED
  BY <1>1, InitVoice, NextVoice, PTL DEF VoiceSpec

-----------------------------------------------------------------------------

\* What the assistants are told, and what the devices hold.
WorldShaped ==
  /\ DOMAIN queue = house.devices /\ DOMAIN reported = house.devices
  /\ \A d \in house.devices : IsList(queue[d]) /\ IsFunction(reported[d])
  /\ DOMAIN shown = Assistants /\ trusted \subseteq Assistants \X house.devices

\* What a device has yet to carry out, and what its state will be then.
Coming(d) == [i \in DOMAIN queue[d] |-> queue[d][i].dps]
Final(d) == Merged(Coming(d), reported[d])

\* The commands of a request that the device has yet to carry out.
Own(h, d) == {queue[d][i] : i \in {j \in DOMAIN queue[d] : queue[d][j].of = h}}

\* What the wishes set that a request has been through, for the product as it is.
First(n, a, wishes, caps) == [i \in 1..n |-> Translate(a, wishes[i], caps)]
Sent(h) == First(Len(req[h].wants) - Len(req[h].left), req[h].by, req[h].wants, Caps)

\* The wishes that are left are the last ones.
LeftLast(h) ==
  /\ Len(req[h].left) <= Len(req[h].wants)
  /\ \A i \in 1..Len(req[h].left) :
       req[h].left[i] = req[h].wants[Len(req[h].wants) - Len(req[h].left) + i]

\* A request has nothing on its way before it begins, and afterwards only what it wishes
\* for.  It sends what it has not sent: having sent a part, the device's state to come is
\* one that the part would not change.
SendInv(h) ==
  /\ req[h].pc = "new" => \A d \in house.devices : Own(h, d) = {}
  /\ req[h].pc \in AtDevice =>
       \A d \in house.devices \ spoilt[h] : \A c \in Own(h, d) :
         DOMAIN c.dps \subseteq Names(Wished(req[h].by, req[h].wants, Caps))
  /\ req[h].pc = "report" => req[h].wants = <<>>
  /\ req[h].pc = "send" =>
       /\ LeftLast(h)
       /\ Head(req[h].devs) \notin spoilt[h] =>
            Merged(Sent(h), Final(Head(req[h].devs))) = Final(Head(req[h].devs))

\* What it will say of the devices it has been through, but for the one it is sending to,
\* is what it would say once they have carried out everything.
StateInv(h) ==
  /\ req[h].pc \in AtDevice /\ req[h].by = "alexa" => Len(req[h].devs) = 1 /\ DOMAIN req[h].states = {}
  /\ req[h].pc \in AtDevice \cup {"respond"} =>
       /\ req[h].by \in Assistants
       /\ DOMAIN req[h].states \subseteq house.devices
       /\ req[h].last \subseteq DOMAIN req[h].states
       /\ \A d, e \in req[h].last : d = e
       /\ \A d \in DOMAIN req[h].states \ spoilt[h] :
            \/ req[h].pc = "send" /\ d = Head(req[h].devs)
            \/ req[h].states[d] = Render(req[h].by, Caps, Final(d))

\* What an assistant shows of a device and may be trusted.
ShownInv ==
  \A a \in Assistants, d \in house.devices :
    <<a, d>> \in trusted => d \in DOMAIN shown[a] /\ shown[a][d] = Render(a, Caps, Final(d))

AnswerInv ==
  /\ WorldShaped /\ ShownInv
  /\ \A h \in Requests : SendInv(h) /\ StateInv(h)

\* No request has begun at first, and nothing is on its way.
LEMMA InitAnswer == VoiceInit => AnswerInv
<1>. SUFFICES ASSUME VoiceInit
              PROVE  AnswerInv
  OBVIOUS
<1>1. house \in VoiceSettings /\ IsFunction(house.start)
  BY VoiceAssumptions DEF VoiceAssumptions, VoiceInit, IsFunction
<1>2. IsList(<<>>)
  BY DEF IsList
<1>3. WorldShaped
  BY <1>1, <1>2 DEF VoiceInit, WorldShaped
<1>4. ShownInv
  BY DEF VoiceInit, ShownInv
<1>5. ASSUME NEW h \in Requests
      PROVE  SendInv(h) /\ StateInv(h)
  <2>1. req[h].pc = "new" /\ \A d \in house.devices : queue[d] = <<>>
    BY DEF VoiceInit, Idle
  <2>2. \A d \in house.devices : Own(h, d) = {}
    BY <2>1 DEF Own
  <2>. QED
    BY <2>1, <2>2 DEF SendInv, StateInv, AtDevice
<1>. QED
  BY <1>3, <1>4, <1>5 DEF AnswerInv

\* A request that is at a device is at one of the user's.
LEMMA AtOne ==
  ASSUME VoiceInv, NEW h \in Requests, req[h].pc \in AtDevice
  PROVE  /\ Head(req[h].devs) \in house.devices /\ Device(h) = Head(req[h].devs)
         /\ req[h].by \in Assistants /\ WishList(req[h].by, req[h].wants)
         /\ req[h].pc = "send" =>
              /\ WishList(req[h].by, req[h].left)
              /\ Device(h) \notin spoilt[h] => req[h].caps = Caps
<1>1. req[h].devs \in Seq(house.devices) /\ req[h].devs # <<>>
  BY DEF VoiceInv, ReqInv
<1>2. Head(req[h].devs) \in house.devices
  BY <1>1, HeadTailProperties
<1>. QED
  BY <1>2 DEF VoiceInv, ReqInv, Device

\* Where the world stays as it is.
SameWorld == UNCHANGED <<house, rows, reported, queue>>

\* What the devices are to carry out, and what for, is then the same.
LEMMA Stays ==
  ASSUME SameWorld
  PROVE  /\ Caps' = Caps
         /\ \A d : Coming(d)' = Coming(d) /\ Final(d)' = Final(d)
         /\ \A h, d : Own(h, d)' = Own(h, d)
  BY CapsSame DEF SameWorld, Coming, Final, Own

\* A request that does nothing, and of whose devices those that change are spoilt.
Untouched(g) ==
  /\ req'[g] = req[g] /\ spoilt[g] \subseteq spoilt'[g] /\ house' = house
  /\ \A d \in house.devices : Own(g, d)' \subseteq Own(g, d)
  /\ req[g].pc \in AtDevice \cup {"respond"} =>
       \A d \in house.devices \ spoilt'[g] : Caps' = Caps /\ Final(d)' = Final(d)

\* Such a request keeps what holds of it.
LEMMA UntouchedInv ==
  ASSUME VoiceInv, NEW g \in Requests, SendInv(g), StateInv(g), Untouched(g)
  PROVE  SendInv(g)' /\ StateInv(g)'
<1>1. req'[g] = req[g] /\ spoilt[g] \subseteq spoilt'[g] /\ house' = house
  BY DEF Untouched
<1>2. SendInv(g)'
  <2>1. req[g].pc = "new" => \A d \in house.devices : Own(g, d)' = {}
    BY DEF SendInv, Untouched
  <2>2. req[g].pc \in AtDevice =>
          \A d \in house.devices \ spoilt'[g] : \A c \in Own(g, d)' :
            DOMAIN c.dps \subseteq Names(Wished(req[g].by, req[g].wants, Caps'))
    BY <1>1 DEF SendInv, Untouched
  <2>3. ASSUME req[g].pc = "send", Head(req[g].devs) \notin spoilt'[g]
        PROVE  Merged(Sent(g)', Final(Head(req[g].devs))') = Final(Head(req[g].devs))'
    <3>1. Head(req[g].devs) \in house.devices \ spoilt'[g] /\ Head(req[g].devs) \notin spoilt[g]
      BY <1>1, <2>3, AtOne DEF AtDevice
    <3>2. Caps' = Caps /\ Final(Head(req[g].devs))' = Final(Head(req[g].devs))
      BY <2>3, <3>1 DEF Untouched, AtDevice
    <3>3. Sent(g)' = Sent(g)
      BY <1>1, <3>2 DEF Sent
    <3>. QED
      BY <2>3, <3>1, <3>2, <3>3 DEF SendInv
  <2>4. LeftLast(g)' <=> LeftLast(g)
    BY <1>1 DEF LeftLast
  <2>5. Wished(req[g].by, req[g].wants, Caps)' = Wished(req[g].by, req[g].wants, Caps')
    BY <1>1 DEF Wished
  <2>. QED
    BY <1>1, <2>1, <2>2, <2>3, <2>4, <2>5 DEF SendInv
<1>3. StateInv(g)'
  <2>1. \A d \in house.devices \ spoilt'[g] :
          req[g].pc \in AtDevice \cup {"respond"} =>
            Render(req[g].by, Caps', Final(d)') = Render(req[g].by, Caps, Final(d))
    BY DEF Untouched
  <2>. QED
    BY <1>1, <2>1 DEF StateInv
<1>. QED
  BY <1>2, <1>3

\* A step of one request's that leaves the world as it is.
LEMMA OneSpeaks ==
  ASSUME VoiceInv, AnswerInv, NEW h \in Requests, SameWorld, UNCHANGED <<shown, trusted>>,
         \A g \in Requests \ {h} : req'[g] = req[g] /\ spoilt[g] \subseteq spoilt'[g],
         SendInv(h)', StateInv(h)'
  PROVE  AnswerInv'
<1>1. /\ Caps' = Caps /\ \A d : Final(d)' = Final(d)
      /\ \A g, d : Own(g, d)' = Own(g, d)
  BY Stays
<1>2. \A g \in Requests \ {h} : SendInv(g)' /\ StateInv(g)'
  <2>1. ASSUME NEW g \in Requests \ {h}
        PROVE  SendInv(g)' /\ StateInv(g)'
    <3>1. Untouched(g)
      BY <1>1 DEF Untouched, SameWorld
    <3>. QED
      BY <3>1, UntouchedInv DEF AnswerInv
  <2>. QED
    BY <2>1
<1>3. WorldShaped' /\ ShownInv'
  <2>1. WorldShaped'
    BY DEF AnswerInv, WorldShaped, SameWorld
  <2>2. ShownInv'
    BY <1>1 DEF AnswerInv, ShownInv, SameWorld
  <2>. QED
    BY <2>1, <2>2
<1>. QED
  BY <1>2, <1>3 DEF AnswerInv

\* A request begins.
LEMMA AskAnswer ==
  ASSUME VoiceInv, AnswerInv, NEW h \in Requests, Ask(h)
  PROVE  AnswerInv'
<1>1. SameWorld /\ UNCHANGED <<shown, trusted, spoilt>> /\ req[h].pc = "new"
  BY DEF Ask, SameWorld, worldVars, voiceHistory
<1>2. PICK plan \in house.plans :
        req' = [req EXCEPT ![h] = [Idle EXCEPT !.pc = "owner", !.by = plan.by,
                                               !.wants = plan.wants, !.devs = plan.devs]]
  BY DEF Ask
<1>3. /\ req'[h].pc = "owner" /\ req'[h].by = plan.by /\ req'[h].wants = plan.wants
      /\ req'[h].devs = plan.devs /\ req'[h].states = Nothing /\ req'[h].last = {}
      /\ \A g \in Requests \ {h} : req'[g] = req[g]
  BY <1>2 DEF VoiceInv, ReqShaped, Idle
<1>4. plan.by \in Assistants /\ (plan.by = "alexa" => Len(plan.devs) = 1)
  BY VoiceAssumptions DEF VoiceAssumptions, VoiceInv, RowsTyped
<1>5. SendInv(h)'
  <2>1. \A d \in house.devices : Own(h, d)' = {}
    BY <1>1, Stays DEF AnswerInv, SendInv
  <2>. QED
    BY <1>1, <1>3, <2>1 DEF SendInv, SameWorld
<1>6. StateInv(h)'
  <2>1. DOMAIN Nothing = {}
    BY DEF Nothing
  <2>. QED
    BY <1>3, <1>4, <2>1 DEF StateInv
<1>. QED
  BY <1>1, <1>3, <1>5, <1>6, OneSpeaks

\* A request goes on to its next step at a device.
LEMMA AdvanceAnswer ==
  ASSUME VoiceInv, AnswerInv, NEW h \in Requests, SameWorld, UNCHANGED <<shown, trusted>>,
         \A g \in Requests : spoilt[g] \subseteq spoilt'[g],
         req[h].pc \in {"owner", "online"},
         req'[h].pc \in {"online", "resolve", "report"},
         req'[h].pc = "report" => req[h].wants = <<>>,
         req'[h].by = req[h].by, req'[h].wants = req[h].wants, req'[h].devs = req[h].devs,
         req'[h].states = req[h].states, req'[h].last = req[h].last,
         \A g \in Requests \ {h} : req'[g] = req[g]
  PROVE  AnswerInv'
<1>1. /\ Caps' = Caps /\ \A d : Final(d)' = Final(d)
      /\ \A g, d : Own(g, d)' = Own(g, d)
  BY Stays
<1>2. SendInv(h) /\ StateInv(h) /\ house' = house
  BY DEF AnswerInv, SameWorld
<1>3. SendInv(h)'
  <2>1. Wished(req[h].by, req[h].wants, Caps)' = Wished(req[h].by, req[h].wants, Caps)
    BY <1>1 DEF Wished
  <2>. QED
    BY <1>1, <1>2, <2>1 DEF SendInv, AtDevice
<1>4. StateInv(h)'
  BY <1>1, <1>2 DEF StateInv, AtDevice
<1>. QED
  BY <1>3, <1>4, OneSpeaks

\* A request goes on to its next device without an answer.
LEMMA PassAnswer ==
  ASSUME VoiceInv, AnswerInv, NEW h \in Requests, SameWorld, UNCHANGED <<shown, trusted>>,
         \A g \in Requests : spoilt[g] \subseteq spoilt'[g],
         req[h].pc \in AtDevice, req[h].pc = "send" => req[h].by = "alexa", Proceed(h, Nothing)
  PROVE  AnswerInv'
<1>1. ReqShaped /\ ReqInv(h)
  BY DEF VoiceInv
<1>2. /\ req'[h].pc = IF Len(req[h].devs) = 1 THEN "respond" ELSE "owner"
      /\ req'[h].by = req[h].by /\ req'[h].wants = req[h].wants
      /\ req'[h].states = Over(Nothing, req[h].states) /\ req'[h].last = req[h].last
      /\ \A g \in Requests \ {h} : req'[g] = req[g]
  BY <1>1, Proceeded
<1>3. /\ Caps' = Caps /\ \A d : Final(d)' = Final(d)
      /\ \A g, d : Own(g, d)' = Own(g, d)
  BY Stays
<1>4. SendInv(h) /\ StateInv(h) /\ house' = house
  BY DEF AnswerInv, SameWorld
<1>5. /\ DOMAIN req'[h].states = DOMAIN req[h].states
      /\ \A d \in DOMAIN req[h].states : req'[h].states[d] = req[h].states[d]
  <2>1. IsOver(req'[h].states, Nothing, req[h].states) /\ DOMAIN Nothing = {}
    BY <1>2, OverIs DEF Nothing
  <2>. QED
    BY <2>1 DEF IsOver
<1>6. SendInv(h)'
  <2>1. Wished(req[h].by, req[h].wants, Caps)' = Wished(req[h].by, req[h].wants, Caps)
    BY <1>2, <1>3 DEF Wished
  <2>. QED
    BY <1>2, <1>3, <1>4, <2>1 DEF SendInv, AtDevice
<1>7. StateInv(h)'
  <2>1. req'[h].pc \in AtDevice => req'[h].by # "alexa"
    BY <1>2, <1>4 DEF StateInv, AtDevice
  <2>2. ASSUME NEW d \in DOMAIN req[h].states \ spoilt'[h]
        PROVE  req[h].states[d] = Render(req[h].by, Caps, Final(d))
    <3>1. req[h].pc # "send"
      BY <1>4, <2>2 DEF StateInv
    <3>. QED
      BY <1>4, <2>2, <3>1 DEF StateInv
  <2>. QED
    BY <1>2, <1>3, <1>4, <1>5, <2>1, <2>2 DEF StateInv
<1>. QED
  BY <1>2, <1>6, <1>7, OneSpeaks

\* What is coming to a device is a list, and its state to come what it makes of the state.
LEMMA FinalIs ==
  ASSUME WorldShaped, NEW d \in house.devices
  PROVE  /\ Len(queue[d]) \in Nat /\ DOMAIN queue[d] = 1..Len(queue[d])
         /\ DOMAIN Coming(d) = 1..Len(queue[d])
         /\ IsMerge(Final(d), Coming(d), reported[d])
<1>1. Len(queue[d]) \in Nat /\ DOMAIN queue[d] = 1..Len(queue[d])
  BY DEF WorldShaped, IsList
<1>2. DOMAIN Coming(d) = 1..Len(queue[d])
  BY <1>1 DEF Coming
<1>. QED
  BY <1>1, <1>2, MergedIs DEF Final

\* The capabilities are resolved, and nothing has been sent.
LEMMA ResolveAnswer ==
  ASSUME VoiceInv, AnswerInv, NEW h \in Requests, Resolve(h)
  PROVE  AnswerInv'
<1>0. PICK fails \in Failures :
       /\ req' = [req EXCEPT ![h].pc = "send", ![h].caps = CapsOf(req[h].pid, fails),
                             ![h].left = req[h].wants]
       /\ Spoil(h, fails)
  BY DEF Resolve
<1>1. /\ req[h].pc = "resolve" /\ SameWorld /\ UNCHANGED <<shown, trusted>>
      /\ \A g \in Requests : spoilt[g] \subseteq spoilt'[g]
  BY <1>0, Spoilt DEF Resolve, SameWorld, worldVars, VoiceInv
<1>2. /\ req'[h].pc = "send" /\ req'[h].by = req[h].by /\ req'[h].wants = req[h].wants
      /\ req'[h].devs = req[h].devs /\ req'[h].left = req[h].wants
      /\ req'[h].states = req[h].states /\ req'[h].last = req[h].last
      /\ \A g \in Requests \ {h} : req'[g] = req[g]
  BY <1>0 DEF VoiceInv, ReqShaped, Idle
<1>3. /\ Caps' = Caps /\ \A d : Final(d)' = Final(d)
      /\ \A g, d : Own(g, d)' = Own(g, d)
  BY <1>1, Stays
<1>4. SendInv(h) /\ StateInv(h) /\ house' = house
  BY <1>1 DEF AnswerInv, SameWorld
<1>5. SendInv(h)'
  <2>1. Wished(req[h].by, req[h].wants, Caps)' = Wished(req[h].by, req[h].wants, Caps)
    BY <1>2, <1>3 DEF Wished
  <2>2. Len(req[h].wants) \in Nat
    BY <1>1, AtOne DEF AtDevice, WishList, IsList
  <2>3. LeftLast(h)'
    <3>1. \A i \in 1..Len(req[h].wants) : Len(req[h].wants) - Len(req[h].wants) + i = i
      BY <2>2
    <3>. QED
      BY <1>2, <2>2, <3>1 DEF LeftLast
  <2>4. Merged(Sent(h)', Final(Head(req[h].devs))) = Final(Head(req[h].devs))
    <3>1. DOMAIN Sent(h)' = 1..0 /\ Names(Sent(h)') = {}
      <4>1. DOMAIN Sent(h)' = 1..(Len(req[h].wants) - Len(req[h].wants))
        BY <1>2 DEF Sent, First
      <4>2. DOMAIN Sent(h)' = 1..0
        BY <2>2, <4>1
      <4>. QED
        BY <4>2 DEF Names
    <3>2. IsFunction(Final(Head(req[h].devs)))
      <4>1. Head(req[h].devs) \in house.devices
        BY <1>1, AtOne DEF AtDevice
      <4>. QED
        BY <4>1, FinalIs DEF AnswerInv, IsMerge
    <3>. QED
      BY <3>1, <3>2, MergedNone
  <2>. QED
    BY <1>1, <1>2, <1>3, <1>4, <2>1, <2>3, <2>4 DEF SendInv, AtDevice
<1>6. StateInv(h)'
  BY <1>1, <1>2, <1>3, <1>4 DEF StateInv, AtDevice
<1>. QED
  BY <1>1, <1>2, <1>5, <1>6, OneSpeaks

\* What a request has been through grows by the first of the wishes that are left.
LEMMA OneSent ==
  ASSUME NEW wants, NEW rest, IsList(wants), IsList(rest), rest # <<>>,
         Len(rest) <= Len(wants),
         \A i \in 1..Len(rest) : rest[i] = wants[Len(wants) - Len(rest) + i]
  PROVE  /\ Len(wants) - Len(rest) \in Nat
         /\ Len(wants) - Len(Tail(rest)) = (Len(wants) - Len(rest)) + 1
         /\ Head(rest) = wants[(Len(wants) - Len(rest)) + 1]
         /\ (Len(wants) - Len(rest)) + 1 \in DOMAIN wants
         /\ Len(Tail(rest)) <= Len(wants)
         /\ \A i \in 1..Len(Tail(rest)) : Tail(rest)[i] = wants[Len(wants) - Len(Tail(rest)) + i]
<1>1. /\ Len(rest) \in Nat \ {0} /\ Len(Tail(rest)) = Len(rest) - 1
      /\ \A i \in 1..(Len(rest) - 1) : Tail(rest)[i] = rest[i + 1]
      /\ Head(rest) = rest[1]
  BY ListRest
<1>2. Len(wants) \in Nat /\ DOMAIN wants = 1..Len(wants)
  BY DEF IsList
<1>. DEFINE k == Len(rest)  n == Len(wants)
<1>3. k \in Nat \ {0} /\ n \in Nat /\ k <= n
  BY <1>1, <1>2
<1>. HIDE DEF k, n
<1>4. n - k \in Nat /\ n - (k - 1) = (n - k) + 1 /\ (n - k) + 1 \in 1..n /\ k - 1 <= n
  BY <1>3
<1>5. rest[1] = wants[(n - k) + 1]
  BY <1>3 DEF k, n
<1>6. ASSUME NEW i \in 1..(k - 1)
      PROVE  Tail(rest)[i] = wants[n - (k - 1) + i]
  <2>1. i + 1 \in 1..k /\ (n - k) + (i + 1) = n - (k - 1) + i
    BY <1>3
  <2>2. Tail(rest)[i] = rest[i + 1]
    BY <1>1 DEF k
  <2>3. rest[i + 1] = wants[(n - k) + (i + 1)]
    BY <2>1 DEF k, n
  <2>. QED
    BY <2>1, <2>2, <2>3
<1>. QED
  BY <1>1, <1>2, <1>4, <1>5, <1>6 DEF k, n

\* The wishes that a request has been through, one more.
LEMMA SentMore ==
  ASSUME VoiceInv, NEW h \in Requests, req[h].pc = "send", req[h].left # <<>>, LeftLast(h),
         req'[h].by = req[h].by, req'[h].wants = req[h].wants, req'[h].left = Tail(req[h].left),
         Caps' = Caps
  PROVE  /\ LeftLast(h)'
         /\ \E n \in Nat : /\ DOMAIN Sent(h) = 1..n /\ DOMAIN Sent(h)' = 1..(n + 1)
                           /\ \A i \in 1..n : Sent(h)'[i] = Sent(h)[i]
                           /\ Sent(h)'[n + 1] = Translate(req[h].by, Head(req[h].left), Caps)
                           /\ n + 1 \in DOMAIN req[h].wants
                           /\ req[h].wants[n + 1] = Head(req[h].left)
<1>. DEFINE wants == req[h].wants  rest == req[h].left  n == Len(wants) - Len(rest)
<1>1. IsList(wants) /\ IsList(rest) /\ rest # <<>>
  BY AtOne DEF AtDevice, WishList
<1>2. Len(rest) <= Len(wants) /\ \A i \in 1..Len(rest) : rest[i] = wants[Len(wants) - Len(rest) + i]
  BY DEF LeftLast
<1>3. /\ n \in Nat /\ Len(wants) - Len(Tail(rest)) = n + 1
      /\ Head(rest) = wants[n + 1] /\ n + 1 \in DOMAIN wants
      /\ Len(Tail(rest)) <= Len(wants)
      /\ \A i \in 1..Len(Tail(rest)) : Tail(rest)[i] = wants[Len(wants) - Len(Tail(rest)) + i]
  <2>. HIDE DEF wants, rest
  <2>. QED
    BY <1>1, <1>2, OneSent
<1>4. LeftLast(h)'
  BY <1>3 DEF LeftLast
<1>5. Sent(h) = First(n, req[h].by, wants, Caps)
  BY DEF Sent
<1>6. Sent(h)' = First(n + 1, req[h].by, wants, Caps)
  <2>1. Sent(h)' = First(Len(req'[h].wants) - Len(req'[h].left), req'[h].by, req'[h].wants, Caps')
    BY DEF Sent
  <2>2. Len(req'[h].wants) - Len(req'[h].left) = n + 1
    BY <1>3
  <2>3. /\ req'[h].by = req[h].by /\ req'[h].wants = wants /\ Caps' = Caps
    OBVIOUS
  <2>. QED
    BY <2>1, <2>2, <2>3
<1>7. 1..n \subseteq 1..(n + 1) /\ n + 1 \in 1..(n + 1)
  <2>1. n \in Nat
    BY <1>3
  <2>. HIDE DEF n
  <2>. QED
    BY ONLY <2>1
<1>8. /\ DOMAIN Sent(h) = 1..n /\ DOMAIN Sent(h)' = 1..(n + 1)
      /\ \A i \in 1..n : Sent(h)'[i] = Sent(h)[i]
      /\ Sent(h)'[n + 1] = Translate(req[h].by, Head(rest), Caps)
  <2>. HIDE DEF n
  <2>. QED
    BY <1>3, <1>5, <1>6, <1>7 DEF First
<1>. QED
  BY <1>3, <1>4, <1>8

\* A wish is passed over, or has been sent.
LEMMA LeftTail ==
  ASSUME ReqShaped, NEW h \in Requests, req' = [req EXCEPT ![h].left = Tail(@)]
  PROVE  /\ req'[h].pc = req[h].pc /\ req'[h].by = req[h].by /\ req'[h].wants = req[h].wants
         /\ req'[h].devs = req[h].devs /\ req'[h].left = Tail(req[h].left)
         /\ req'[h].states = req[h].states /\ req'[h].last = req[h].last
         /\ \A g \in Requests \ {h} : req'[g] = req[g]
  BY DEF ReqShaped, Idle

\* A wish that sets nothing, or one that was not sent to a device that changes.
LEMMA LeftAnswer ==
  ASSUME VoiceInv, AnswerInv, NEW h \in Requests, SameWorld, UNCHANGED <<shown, trusted>>,
         \A g \in Requests : spoilt[g] \subseteq spoilt'[g],
         req[h].pc = "send", req[h].left # <<>>, req' = [req EXCEPT ![h].left = Tail(@)],
         Device(h) \notin spoilt'[h] =>
           Translate(req[h].by, Head(req[h].left), req[h].caps) = Nothing
  PROVE  AnswerInv'
<1>1. /\ req'[h].pc = "send" /\ req'[h].by = req[h].by /\ req'[h].wants = req[h].wants
      /\ req'[h].devs = req[h].devs /\ req'[h].left = Tail(req[h].left)
      /\ req'[h].states = req[h].states /\ req'[h].last = req[h].last
      /\ \A g \in Requests \ {h} : req'[g] = req[g]
  BY LeftTail DEF VoiceInv
<1>2. /\ Caps' = Caps /\ \A d : Final(d)' = Final(d)
      /\ \A g, d : Own(g, d)' = Own(g, d)
  BY Stays
<1>3. SendInv(h) /\ StateInv(h) /\ house' = house /\ WorldShaped
  BY DEF AnswerInv, SameWorld
<1>4. LeftLast(h)
  BY <1>3 DEF SendInv
<1>5. LeftLast(h)'
  BY <1>1, <1>2, <1>4, SentMore
<1>6. ASSUME Head(req[h].devs) \notin spoilt'[h]
      PROVE  Merged(Sent(h)', Final(Head(req[h].devs))) = Final(Head(req[h].devs))
  <2>. DEFINE d == Head(req[h].devs)  S == Sent(h)'
  <2>1. /\ d \in house.devices /\ Device(h) = d /\ d \notin spoilt[h] /\ req[h].caps = Caps
    BY <1>6, AtOne DEF AtDevice
  <2>2. PICK n \in Nat : /\ DOMAIN Sent(h) = 1..n /\ DOMAIN S = 1..(n + 1)
                         /\ \A i \in 1..n : S[i] = Sent(h)[i]
                         /\ S[n + 1] = Translate(req[h].by, Head(req[h].left), Caps)
    BY <1>1, <1>2, <1>4, SentMore
  <2>3. S[n + 1] = Nothing
    BY <1>6, <2>1, <2>2
  <2>4. IsFunction(Final(d))
    BY <1>3, <2>1, FinalIs DEF IsMerge
  <2>5. Merged(Sent(h), Final(d)) = Final(d)
    BY <1>3, <2>1 DEF SendInv
  <2>. HIDE DEF d, S
  <2>6. Merged(S, Final(d)) = Over(S[n + 1], Merged(Sent(h), Final(d)))
    BY <2>2, MergedMore
  <2>7. Merged(S, Final(d)) = Final(d)
    BY <2>3, <2>4, <2>5, <2>6, OverNothing
  <2>. QED
    BY <2>7 DEF d, S
<1>7. SendInv(h)'
  <2>1. Wished(req[h].by, req[h].wants, Caps)' = Wished(req[h].by, req[h].wants, Caps)
    BY <1>1, <1>2 DEF Wished
  <2>2. \A d \in house.devices \ spoilt'[h] : \A c \in Own(h, d) :
          DOMAIN c.dps \subseteq Names(Wished(req[h].by, req[h].wants, Caps))
    BY <1>3 DEF SendInv, AtDevice
  <2>. QED
    BY <1>1, <1>2, <1>3, <1>5, <1>6, <2>1, <2>2 DEF SendInv, AtDevice
<1>8. StateInv(h)'
  BY <1>1, <1>2, <1>3 DEF StateInv, AtDevice
<1>. QED
  BY <1>1, <1>7, <1>8, OneSpeaks

\* A wish that means nothing for the product changes nothing.
LEMMA SkipAnswer ==
  ASSUME VoiceInv, AnswerInv, NEW h \in Requests, Skip(h)
  PROVE  AnswerInv'
<1>1. /\ req[h].pc = "send" /\ req[h].left # <<>>
      /\ SameWorld /\ UNCHANGED <<shown, trusted, spoilt>>
      /\ Translate(req[h].by, Head(req[h].left), req[h].caps) = Nothing
  BY DEF Skip, SameWorld, worldVars
<1>2. CASE req[h].by = "alexa"
  <2>1. Proceed(h, Nothing)
    BY <1>2 DEF Skip, GiveUp
  <2>. QED
    BY <1>1, <1>2, <2>1, PassAnswer DEF AtDevice
<1>3. CASE req[h].by # "alexa"
  <2>1. req' = [req EXCEPT ![h].left = Tail(@)]
    BY <1>3 DEF Skip, GiveUp
  <2>. QED
    BY <1>1, <2>1, LeftAnswer
<1>. QED
  BY <1>2, <1>3

\* A command more for a device: its state to come has that over it.
LEMMA QueueMore ==
  ASSUME WorldShaped, NEW d \in house.devices, NEW cmd, house' = house,
         reported' = reported, DOMAIN queue' = house.devices,
         queue'[d] = Append(queue[d], cmd),
         \A e \in house.devices \ {d} : queue'[e] = queue[e]
  PROVE  /\ \A e \in house.devices : IsList(queue'[e])
         /\ Final(d)' = Over(cmd.dps, Final(d))
         /\ \A e \in house.devices \ {d} : Final(e)' = Final(e)
         /\ \A g : \A e \in house.devices : g # cmd.of \/ e # d => Own(g, e)' \subseteq Own(g, e)
         /\ Own(cmd.of, d)' \subseteq Own(cmd.of, d) \cup {cmd}
<1>. DEFINE q == queue[d]  k == Len(q)
<1>1. IsList(q)
  BY DEF WorldShaped
<1>2. /\ IsList(Append(q, cmd)) /\ DOMAIN q = 1..k /\ DOMAIN Append(q, cmd) = 1..(k + 1)
      /\ k \in Nat /\ \A i \in 1..k : Append(q, cmd)[i] = q[i]
      /\ Append(q, cmd)[k + 1] = cmd
  <2>. HIDE DEF q
  <2>. QED
    BY <1>1, ListMore
<1>3. /\ DOMAIN queue' = house.devices /\ queue'[d] = Append(q, cmd)
      /\ \A e \in house.devices \ {d} : queue'[e] = queue[e]
  BY DEF WorldShaped
<1>. HIDE DEF k
<1>4. \A i \in 1..(k + 1) : i \in 1..k \/ i = k + 1
  BY <1>2
<1>5. Final(d)' = Over(cmd.dps, Final(d))
  <2>1. /\ DOMAIN Coming(d) = 1..k /\ \A i \in 1..k : Coming(d)[i] = q[i].dps
    BY <1>2 DEF Coming
  <2>2. /\ DOMAIN Coming(d)' = 1..(k + 1)
        /\ \A i \in 1..(k + 1) : Coming(d)'[i] = Append(q, cmd)[i].dps
    BY <1>2, <1>3 DEF Coming
  <2>3. k + 1 \in 1..(k + 1) /\ 1..k \subseteq 1..(k + 1)
    BY ONLY <1>2
  <2>4. Coming(d)'[k + 1] = cmd.dps /\ \A i \in 1..k : Coming(d)'[i] = Coming(d)[i]
    BY <1>2, <2>1, <2>2, <2>3
  <2>5. Merged(Coming(d)', reported[d]) = Over(Coming(d)'[k + 1], Merged(Coming(d), reported[d]))
    BY <1>2, <2>1, <2>2, <2>4, MergedMore
  <2>. QED
    BY <2>4, <2>5 DEF Final
<1>6. \A e \in house.devices \ {d} : Final(e)' = Final(e)
  BY <1>3 DEF Final, Coming
<1>7. \A g : \A e \in house.devices \ {d} : Own(g, e)' = Own(g, e)
  BY <1>3 DEF Own
<1>8. ASSUME NEW g, NEW c \in Own(g, d)'
      PROVE  c \in Own(g, d) \/ (g = cmd.of /\ c = cmd)
  <2>1. PICK i \in 1..(k + 1) : c = Append(q, cmd)[i] /\ Append(q, cmd)[i].of = g
    BY <1>2, <1>3, <1>8 DEF Own
  <2>2. CASE i \in 1..k
    BY <1>2, <2>1, <2>2 DEF Own
  <2>3. CASE i = k + 1
    <3>1. c = cmd /\ cmd.of = g
      BY <1>2, <2>1, <2>3
    <3>. QED
      BY <3>1
  <2>. QED
    BY <1>4, <2>2, <2>3
<1>. QED
  <2>1. \A e \in house.devices : IsList(queue'[e])
    BY <1>2, <1>3 DEF WorldShaped
  <2>2. \A g : g # cmd.of => Own(g, d)' \subseteq Own(g, d)
    BY <1>8
  <2>3. Own(cmd.of, d)' \subseteq Own(cmd.of, d) \cup {cmd}
    BY <1>8
  <2>. QED
    BY <1>3, <1>5, <1>6, <1>7, <2>1, <2>2, <2>3

\* The same of a request's command.
LEMMA QueuedMore ==
  ASSUME WorldShaped, NEW d \in house.devices, NEW h, NEW out, UNCHANGED <<house, reported>>,
         queue' = [queue EXCEPT ![d] = Append(@, [of |-> h, dps |-> out])]
  PROVE  /\ \A e \in house.devices : IsList(queue'[e])
         /\ Final(d)' = Over(out, Final(d))
         /\ \A e \in house.devices \ {d} : Final(e)' = Final(e)
         /\ \A g : \A e \in house.devices : g # h \/ e # d => Own(g, e)' \subseteq Own(g, e)
         /\ Own(h, d)' \subseteq Own(h, d) \cup {[of |-> h, dps |-> out]}
         /\ DOMAIN queue' = house.devices
<1>. DEFINE cmd == [of |-> h, dps |-> out]
<1>1. /\ DOMAIN queue' = house.devices /\ queue'[d] = Append(queue[d], cmd)
      /\ \A e \in house.devices \ {d} : queue'[e] = queue[e]
  BY DEF WorldShaped
<1>2. cmd.of = h /\ cmd.dps = out /\ house' = house /\ reported' = reported
  OBVIOUS
<1>. HIDE DEF cmd
<1>3. /\ \A e \in house.devices : IsList(queue'[e])
      /\ Final(d)' = Over(cmd.dps, Final(d))
      /\ \A e \in house.devices \ {d} : Final(e)' = Final(e)
      /\ \A g : \A e \in house.devices : g # cmd.of \/ e # d => Own(g, e)' \subseteq Own(g, e)
      /\ Own(cmd.of, d)' \subseteq Own(cmd.of, d) \cup {cmd}
  BY ONLY <1>1, <1>2, WorldShaped, d \in house.devices, QueueMore
<1>. QED
  BY <1>1, <1>2, <1>3 DEF cmd

\* A step of one request's or of none's, after which the world is as it should be.
LEMMA Together ==
  ASSUME VoiceInv, AnswerInv, NEW acting \in SUBSET Requests, WorldShaped', ShownInv',
         \A g \in Requests \ acting : Untouched(g),
         \A g \in acting : SendInv(g)' /\ StateInv(g)'
  PROVE  AnswerInv'
<1>1. ASSUME NEW g \in Requests \ acting
      PROVE  SendInv(g)' /\ StateInv(g)'
  BY <1>1, UntouchedInv DEF AnswerInv
<1>. QED
  BY <1>1 DEF AnswerInv

\* Devices change behind every request's back but one's.
LEMMA DisturbedMore ==
  ASSUME ReqShaped, NEW ds, NEW own, Disturb(ds, own)
  PROVE  /\ trusted' = trusted \ (Assistants \X ds)
         /\ \A g \in Requests : g \in own => spoilt'[g] = spoilt[g]
         /\ \A g \in Requests \ own :
              req[g].pc \in AtDevice \cup {"respond"} => spoilt'[g] = spoilt[g] \cup ds
  BY DEF Disturb, ReqShaped, AtDevice

\* The command is on its way: the device's state to come has it, and what the assistant
\* is going to be told of it.
LEMMA SentAnswer ==
  ASSUME VoiceInv, AnswerInv, NEW h \in Requests, NEW out,
         req[h].pc = "send", req[h].left # <<>>,
         out = Translate(req[h].by, Head(req[h].left), req[h].caps),
         UNCHANGED <<house, rows, reported, shown>>,
         queue' = [queue EXCEPT ![Device(h)] = Append(@, [of |-> h, dps |-> out])],
         Disturb({Device(h)}, {h}), req' = [req EXCEPT ![h].left = Tail(@)]
  PROVE  AnswerInv'
<1>. DEFINE cmd == [of |-> h, dps |-> out]
<1>1. PICK d \in house.devices : /\ d = Head(req[h].devs) /\ Device(h) = d
                                 /\ d \notin spoilt[h] => req[h].caps = Caps
  BY AtOne DEF AtDevice
<1>2. /\ req'[h].pc = "send" /\ req'[h].by = req[h].by /\ req'[h].wants = req[h].wants
      /\ req'[h].devs = req[h].devs /\ req'[h].left = Tail(req[h].left)
      /\ req'[h].states = req[h].states /\ req'[h].last = req[h].last
      /\ \A g \in Requests \ {h} : req'[g] = req[g]
  BY LeftTail DEF VoiceInv
<1>3. Caps' = Caps
  BY CapsSame
<1>4. SendInv(h) /\ StateInv(h) /\ WorldShaped /\ ShownInv /\ LeftLast(h) /\ ReqShaped
  BY DEF AnswerInv, SendInv, VoiceInv
<1>5. /\ \A e \in house.devices : IsList(queue'[e])
      /\ Final(d)' = Over(out, Final(d))
      /\ \A e \in house.devices \ {d} : Final(e)' = Final(e)
      /\ \A g : \A e \in house.devices : g # h \/ e # d => Own(g, e)' \subseteq Own(g, e)
      /\ Own(h, d)' \subseteq Own(h, d) \cup {cmd}
      /\ DOMAIN queue' = house.devices
  <2>1. queue' = [queue EXCEPT ![d] = Append(@, [of |-> h, dps |-> out])]
    BY <1>1
  <2>2. UNCHANGED <<house, reported>> /\ WorldShaped
    BY <1>4
  <2>. QED
    BY ONLY <1>1, <2>1, <2>2, QueuedMore
<1>6. /\ trusted' = trusted \ (Assistants \X {d}) /\ spoilt'[h] = spoilt[h]
      /\ \A g \in Requests : spoilt[g] \subseteq spoilt'[g]
      /\ \A g \in Requests \ {h} :
           req[g].pc \in AtDevice \cup {"respond"} => spoilt'[g] = spoilt[g] \cup {d}
  BY <1>1, <1>4, Disturbed, DisturbedMore
<1>7. LeftLast(h)'
  BY <1>2, <1>3, <1>4, SentMore
<1>8. PICK n \in Nat : /\ DOMAIN Sent(h) = 1..n /\ DOMAIN Sent(h)' = 1..(n + 1)
                       /\ \A i \in 1..n : Sent(h)'[i] = Sent(h)[i]
                       /\ Sent(h)'[n + 1] = Translate(req[h].by, Head(req[h].left), Caps)
                       /\ n + 1 \in DOMAIN req[h].wants
                       /\ req[h].wants[n + 1] = Head(req[h].left)
  BY <1>2, <1>3, <1>4, SentMore
<1>9. ASSUME d \notin spoilt[h]
      PROVE  /\ out = Translate(req[h].by, Head(req[h].left), Caps)
             /\ DOMAIN out \subseteq Names(Wished(req[h].by, req[h].wants, Caps))
             /\ Merged(Sent(h)', Final(d)') = Final(d)'
  <2>. DEFINE S == Sent(h)'  W == Wished(req[h].by, req[h].wants, Caps)
  <2>1. out = Translate(req[h].by, Head(req[h].left), Caps)
    BY <1>1, <1>9
  <2>2. n + 1 \in DOMAIN W /\ W[n + 1] = out
    BY <1>8, <2>1 DEF Wished
  <2>3. S[n + 1] = out /\ IsFunction(Final(d)) /\ Merged(Sent(h), Final(d)) = Final(d)
    BY <1>1, <1>4, <1>8, <1>9, <2>1, FinalIs DEF IsMerge, SendInv
  <2>4. DOMAIN S = 1..(n + 1) /\ \A i \in 1..n : S[i] = Sent(h)[i]
    BY <1>8
  <2>. HIDE DEF S, W
  <2>5. Merged(S, Over(S[n + 1], Final(d))) = Over(S[n + 1], Final(d))
    BY <1>8, <2>3, <2>4, MergedAgain
  <2>6. DOMAIN out \subseteq Names(W)
    BY <2>2 DEF Names
  <2>7. Merged(S, Final(d)') = Final(d)'
    BY <1>5, <2>3, <2>5
  <2>. QED
    BY <2>1, <2>6, <2>7 DEF S, W
<1>10. SendInv(h)'
  <2>1. Wished(req[h].by, req[h].wants, Caps)' = Wished(req[h].by, req[h].wants, Caps)
    BY <1>2, <1>3 DEF Wished
  <2>2. ASSUME NEW e \in house.devices \ spoilt[h], NEW c \in Own(h, e)'
        PROVE  DOMAIN c.dps \subseteq Names(Wished(req[h].by, req[h].wants, Caps))
    <3>1. CASE c \in Own(h, e)
      BY <1>4, <2>2, <3>1 DEF SendInv, AtDevice
    <3>2. CASE c \notin Own(h, e)
      <4>1. e = d /\ c = cmd
        BY <1>5, <2>2, <3>2
      <4>2. c.dps = out
        BY <4>1
      <4>. QED
        BY <1>9, <2>2, <4>1, <4>2
    <3>. QED
      BY <3>1, <3>2
  <2>3. d \notin spoilt[h] => Merged(Sent(h)', Final(d)') = Final(d)'
    BY <1>9
  <2>. QED
    BY <1>1, <1>2, <1>6, <1>7, <2>1, <2>2, <2>3 DEF SendInv, AtDevice
<1>11. StateInv(h)'
  BY <1>1, <1>2, <1>3, <1>4, <1>5, <1>6 DEF StateInv, AtDevice
<1>12. ASSUME NEW g \in Requests \ {h}
       PROVE  Untouched(g)
  <2>1. \A e \in house.devices : Own(g, e)' \subseteq Own(g, e)
    BY <1>5, <1>12
  <2>2. req[g].pc \in AtDevice \cup {"respond"} =>
          \A e \in house.devices \ spoilt'[g] : Caps' = Caps /\ Final(e)' = Final(e)
    BY <1>3, <1>5, <1>6, <1>12
  <2>. QED
    BY <1>2, <1>6, <2>1, <2>2 DEF Untouched
<1>13. WorldShaped'
  BY <1>1, <1>4, <1>5, <1>6 DEF WorldShaped
<1>14. ShownInv'
  BY <1>3, <1>4, <1>5, <1>6 DEF ShownInv
<1>15. {h} \in SUBSET Requests /\ \A g \in {h} : SendInv(g)' /\ StateInv(g)'
  BY <1>10, <1>11
<1>. QED
  BY <1>12, <1>13, <1>14, <1>15, Together

\* The command is on its way, though the request has an error for it: what it will say of the
\* device is not to be trusted.
LEMMA LostAnswer ==
  ASSUME VoiceInv, AnswerInv, NEW h \in Requests, NEW out,
         req[h].pc = "send", req[h].left # <<>>,
         UNCHANGED <<house, rows, reported, shown>>,
         queue' = [queue EXCEPT ![Device(h)] = Append(@, [of |-> h, dps |-> out])],
         Disturb({Device(h)}, {}), GiveUp(h)
  PROVE  AnswerInv'
<1>1. PICK d \in house.devices : d = Head(req[h].devs) /\ Device(h) = d
  BY AtOne DEF AtDevice
<1>2. Caps' = Caps
  BY CapsSame
<1>3. /\ SendInv(h) /\ StateInv(h) /\ WorldShaped /\ ShownInv /\ LeftLast(h)
      /\ ReqShaped /\ ReqInv(h)
  BY DEF AnswerInv, SendInv, VoiceInv
<1>4. /\ \A e \in house.devices : IsList(queue'[e])
      /\ \A e \in house.devices \ {d} : Final(e)' = Final(e)
      /\ \A g : \A e \in house.devices : g # h \/ e # d => Own(g, e)' \subseteq Own(g, e)
      /\ DOMAIN queue' = house.devices
  BY <1>1, <1>3, QueuedMore
<1>5. /\ trusted' = trusted \ (Assistants \X {d})
      /\ \A g \in Requests : spoilt[g] \subseteq spoilt'[g]
      /\ \A g \in Requests :
           req[g].pc \in AtDevice \cup {"respond"} => spoilt'[g] = spoilt[g] \cup {d}
  BY <1>1, <1>3, Disturbed, DisturbedMore
<1>6. /\ req'[h].by = req[h].by /\ req'[h].wants = req[h].wants /\ req'[h].last = req[h].last
      /\ DOMAIN req'[h].states = DOMAIN req[h].states
      /\ \A e \in DOMAIN req[h].states : req'[h].states[e] = req[h].states[e]
      /\ req'[h].pc \in {"send", "respond", "owner"}
      /\ req'[h].pc = "send" => LeftLast(h)' /\ req'[h].devs = req[h].devs
      /\ req'[h].pc \in AtDevice => req[h].by # "alexa"
      /\ \A g \in Requests \ {h} : req'[g] = req[g]
  <2>1. CASE req[h].by = "alexa"
    <3>1. Proceed(h, Nothing)
      BY <2>1 DEF GiveUp
    <3>2. Len(req[h].devs) = 1
      BY <1>3, <2>1 DEF StateInv, AtDevice
    <3>3. /\ req'[h].by = req[h].by /\ req'[h].wants = req[h].wants /\ req'[h].last = req[h].last
          /\ req'[h].pc = "respond"
          /\ req'[h].states = Over(Nothing, req[h].states)
          /\ \A g \in Requests \ {h} : req'[g] = req[g]
      BY <1>3, <3>1, <3>2, Proceeded DEF AtDevice
    <3>4. IsOver(req'[h].states, Nothing, req[h].states) /\ DOMAIN Nothing = {}
      BY <3>3, OverIs DEF Nothing
    <3>. QED
      BY <3>3, <3>4 DEF IsOver, AtDevice
  <2>2. CASE req[h].by # "alexa"
    <3>1. req' = [req EXCEPT ![h].left = Tail(@)]
      BY <2>2 DEF GiveUp
    <3>2. /\ req'[h].pc = "send" /\ req'[h].by = req[h].by /\ req'[h].wants = req[h].wants
          /\ req'[h].devs = req[h].devs /\ req'[h].left = Tail(req[h].left)
          /\ req'[h].states = req[h].states /\ req'[h].last = req[h].last
          /\ \A g \in Requests \ {h} : req'[g] = req[g]
      BY <1>3, <3>1, LeftTail
    <3>3. LeftLast(h)'
      BY <1>2, <1>3, <3>2, SentMore
    <3>. QED
      BY <2>2, <3>2, <3>3
  <2>. QED
    BY <2>1, <2>2
<1>7. SendInv(h)'
  <2>1. Wished(req[h].by, req[h].wants, Caps)' = Wished(req[h].by, req[h].wants, Caps)
    BY <1>2, <1>6 DEF Wished
  <2>2. ASSUME NEW e \in house.devices \ spoilt'[h], NEW c \in Own(h, e)'
        PROVE  DOMAIN c.dps \subseteq Names(Wished(req[h].by, req[h].wants, Caps))
    BY <1>3, <1>4, <1>5, <2>2 DEF SendInv, AtDevice
  <2>3. d \in spoilt'[h]
    BY <1>5 DEF AtDevice
  <2>. QED
    BY <1>1, <1>6, <2>1, <2>2, <2>3 DEF SendInv, AtDevice
<1>8. StateInv(h)'
  <2>1. ASSUME NEW e \in DOMAIN req[h].states \ spoilt'[h]
        PROVE  req[h].states[e] = Render(req[h].by, Caps, Final(e)) /\ Final(e)' = Final(e)
    <3>1. e # d /\ e \notin spoilt[h] /\ e \in house.devices
      BY <1>3, <1>5, <2>1 DEF StateInv, AtDevice
    <3>. QED
      BY <1>1, <1>3, <1>4, <2>1, <3>1 DEF StateInv, AtDevice
  <2>2. /\ req[h].by \in Assistants /\ DOMAIN req[h].states \subseteq house.devices
        /\ req[h].last \subseteq DOMAIN req[h].states
        /\ \A e, f \in req[h].last : e = f
    BY <1>3 DEF StateInv, AtDevice
  <2>. QED
    BY <1>2, <1>6, <2>1, <2>2 DEF StateInv
<1>9. ASSUME NEW g \in Requests \ {h}
      PROVE  Untouched(g)
  <2>1. \A e \in house.devices : Own(g, e)' \subseteq Own(g, e)
    BY <1>4, <1>9
  <2>2. req[g].pc \in AtDevice \cup {"respond"} =>
          \A e \in house.devices \ spoilt'[g] : Caps' = Caps /\ Final(e)' = Final(e)
    BY <1>2, <1>4, <1>5, <1>9
  <2>. QED
    BY <1>5, <1>6, <2>1, <2>2 DEF Untouched
<1>10. WorldShaped'
  BY <1>3, <1>4, <1>5 DEF WorldShaped
<1>11. ShownInv'
  BY <1>2, <1>3, <1>4, <1>5 DEF ShownInv
<1>12. {h} \in SUBSET Requests /\ \A g \in {h} : SendInv(g)' /\ StateInv(g)'
  BY <1>7, <1>8
<1>. QED
  BY <1>9, <1>10, <1>11, <1>12, Together

\* A command is sent or is not.
LEMMA SendAnswer ==
  ASSUME VoiceInv, AnswerInv, NEW h \in Requests, SendCommand(h)
  PROVE  AnswerInv'
<1>. DEFINE d   == Device(h)
            out == Translate(req[h].by, Head(req[h].left), req[h].caps)
            on  == queue' = [queue EXCEPT ![d] = Append(@, [of |-> h, dps |-> out])]
            go  == req' = [req EXCEPT ![h].left = Tail(@)]
<1>1. /\ req[h].pc = "send" /\ req[h].left # <<>>
      /\ UNCHANGED <<house, rows, reported, shown>>
  BY DEF SendCommand
<1>2. \/ on /\ Disturb({d}, {h}) /\ go
      \/ on /\ Disturb({d}, {}) /\ GiveUp(h)
      \/ (GiveUp(h) \/ go) /\ Spoil(h, TRUE) /\ UNCHANGED <<queue, trusted>>
  BY DEF SendCommand
<1>3. CASE on /\ Disturb({d}, {h}) /\ go
  BY <1>1, <1>3, SentAnswer
<1>4. CASE on /\ Disturb({d}, {}) /\ GiveUp(h)
  BY <1>1, <1>4, LostAnswer
<1>5. CASE (GiveUp(h) \/ go) /\ Spoil(h, TRUE) /\ UNCHANGED <<queue, trusted>>
  <2>1. SameWorld /\ d \in spoilt'[h] /\ \A g \in Requests : spoilt[g] \subseteq spoilt'[g]
    BY <1>1, <1>5, Spoilt DEF SameWorld, VoiceInv
  <2>2. CASE req[h].by = "alexa" /\ Proceed(h, Nothing)
    BY <1>1, <1>5, <2>1, <2>2, PassAnswer DEF AtDevice
  <2>3. CASE go
    BY <1>1, <1>5, <2>1, <2>3, LeftAnswer
  <2>. QED
    BY <1>5, <2>2, <2>3 DEF GiveUp
<1>. QED
  BY <1>2, <1>3, <1>4, <1>5

\* A request has its answer for a device, and goes on to the next.
LEMMA SaidAnswer ==
  ASSUME VoiceInv, AnswerInv, NEW h \in Requests, NEW d, d = Device(h), NEW say,
         SameWorld, UNCHANGED <<shown, trusted>>, req[h].pc \in AtDevice,
         Proceed(h, [x \in {d} |-> say]), NEW fails, Notice(h, fails),
         d \notin spoilt'[h] => say = Render(req[h].by, Caps, Final(d))
  PROVE  AnswerInv'
<1>1. ReqShaped /\ ReqInv(h)
  BY DEF VoiceInv
<1>2. /\ d = Head(req[h].devs) /\ d \in house.devices
  BY AtOne
<1>. DEFINE states == [x \in {d} |-> say]
<1>3. DOMAIN states = {d} /\ states[d] = say /\ states # Nothing
  <2>1. DOMAIN states = {d} /\ states[d] = say
    OBVIOUS
  <2>2. DOMAIN Nothing = {}
    BY DEF Nothing
  <2>. QED
    BY <2>1, <2>2
<1>. HIDE DEF states
<1>4. Proceed(h, states)
  BY DEF states
<1>5. /\ req'[h].pc = IF Len(req[h].devs) = 1 THEN "respond" ELSE "owner"
      /\ req'[h].by = req[h].by /\ req'[h].wants = req[h].wants
      /\ req'[h].states = Over(states, req[h].states) /\ req'[h].last = {d}
      /\ \A g \in Requests \ {h} : req'[g] = req[g]
  BY <1>1, <1>3, <1>4, Proceeded
<1>6. /\ Caps' = Caps /\ \A e : Final(e)' = Final(e)
      /\ \A g, e : Own(g, e)' = Own(g, e)
  BY Stays
<1>7. SendInv(h) /\ StateInv(h) /\ house' = house
  BY DEF AnswerInv, SameWorld
<1>8. \A g \in Requests : spoilt[g] \subseteq spoilt'[g]
  BY <1>1, Spoilt DEF Notice
<1>9. /\ DOMAIN req'[h].states = {d} \cup DOMAIN req[h].states
      /\ req'[h].states[d] = say
      /\ \A e \in DOMAIN req[h].states \ {d} : req'[h].states[e] = req[h].states[e]
  <2>1. IsOver(req'[h].states, states, req[h].states)
    BY <1>5, OverIs
  <2>. QED
    BY <1>3, <2>1 DEF IsOver
<1>10. SendInv(h)'
  <2>1. Wished(req[h].by, req[h].wants, Caps)' = Wished(req[h].by, req[h].wants, Caps)
    BY <1>5, <1>6 DEF Wished
  <2>. QED
    BY <1>5, <1>6, <1>7, <1>8, <2>1 DEF SendInv, AtDevice
<1>11. StateInv(h)'
  <2>1. req'[h].pc \in AtDevice => req'[h].by # "alexa"
    BY <1>5, <1>7 DEF StateInv, AtDevice
  <2>2. ASSUME NEW e \in (DOMAIN req[h].states \ {d}) \ spoilt'[h]
        PROVE  req[h].states[e] = Render(req[h].by, Caps, Final(e))
    BY <1>2, <1>7, <1>8, <2>2 DEF StateInv
  <2>3. ASSUME NEW e \in DOMAIN req'[h].states \ spoilt'[h]
        PROVE  req'[h].states[e] = Render(req[h].by, Caps, Final(e))
    <3>1. CASE e = d
      BY <1>9, <2>3, <3>1
    <3>2. CASE e # d
      BY <1>9, <2>2, <2>3, <3>2
    <3>. QED
      BY <3>1, <3>2
  <2>4. DOMAIN req[h].states \subseteq house.devices /\ req[h].by \in Assistants
    BY <1>7 DEF StateInv
  <2>. QED
    BY <1>2, <1>5, <1>6, <1>7, <1>9, <2>1, <2>3, <2>4 DEF StateInv
<1>. QED
  BY <1>5, <1>8, <1>10, <1>11, OneSpeaks

\* Where nothing but a request's own wishes is on its way to a device.
LEMMA OnlyOwn ==
  ASSUME VoiceInv, AnswerInv, NEW h \in Requests, NEW d \in house.devices, d = Device(h),
         req[h].pc \in AtDevice, NEW fails, Notice(h, fails), d \notin spoilt'[h]
  PROVE  ~ fails /\ d \notin spoilt[h] /\ Names(Coming(d)) \subseteq Names(Wished(req[h].by, req[h].wants, Caps))
<1>1. spoilt'[h] = spoilt[h] \cup {e \in {d} : fails \/ \E c \in ToSet(queue[d]) : c.of # h}
  BY Spoilt DEF Notice, VoiceInv
<1>2. d \notin spoilt[h] /\ ~ fails /\ ~\E c \in ToSet(queue[d]) : c.of # h
  BY <1>1
<1>3. ASSUME NEW i \in DOMAIN queue[d]
      PROVE  DOMAIN queue[d][i].dps \subseteq Names(Wished(req[h].by, req[h].wants, Caps))
  <2>1. queue[d][i].of = h
    BY <1>2, <1>3 DEF ToSet
  <2>2. queue[d][i] \in Own(h, d)
    BY <1>3, <2>1 DEF Own
  <2>. QED
    BY <1>2, <2>2 DEF AnswerInv, SendInv
<1>4. DOMAIN Coming(d) = DOMAIN queue[d] /\ \A i \in DOMAIN queue[d] : Coming(d)[i] = queue[d][i].dps
  BY DEF Coming
<1>. QED
  BY <1>2, <1>3, <1>4 DEF Names

\* The optimistic answer is the device's state to come: all of what it wishes for is on
\* its way or carried out, and nothing else is.
LEMMA AnswerAnswer ==
  ASSUME VoiceInv, AnswerInv, NEW h \in Requests, Answer(h)
  PROVE  AnswerInv'
<1>1. PICK d \in house.devices : d = Device(h) /\ d = Head(req[h].devs)
  BY AtOne DEF Answer, AtDevice
<1>0. PICK read \in Readings(d) :
       LET dps == Merged(Wished(req[h].by, req[h].wants, req[h].caps), read)
       IN  /\ Proceed(h, [x \in {d} |-> Render(req[h].by, req[h].caps, dps)])
           /\ Notice(h, read # reported[d])
  BY <1>1 DEF Answer
<1>. DEFINE dps == Merged(Wished(req[h].by, req[h].wants, req[h].caps), read)
            say == Render(req[h].by, req[h].caps, dps)
<1>2. /\ SameWorld /\ UNCHANGED <<shown, trusted>> /\ req[h].pc = "send" /\ req[h].left = <<>>
      /\ Proceed(h, [x \in {d} |-> say]) /\ Notice(h, read # reported[d])
  BY <1>0 DEF Answer, SameWorld, worldVars
<1>3. ASSUME d \notin spoilt'[h]
      PROVE  say = Render(req[h].by, Caps, Final(d))
  <2>. DEFINE W == Wished(req[h].by, req[h].wants, Caps)  m == Len(req[h].wants)
  <2>1. read = reported[d] /\ d \notin spoilt[h] /\ Names(Coming(d)) \subseteq Names(W)
    BY <1>1, <1>2, <1>3, OnlyOwn DEF AtDevice
  <2>2. req[h].caps = Caps /\ IsList(req[h].wants)
    BY <1>1, <1>2, <2>1, AtOne DEF AtDevice, WishList
  <2>3. m \in Nat /\ DOMAIN req[h].wants = 1..m
    BY <2>2 DEF IsList
  <2>4. DOMAIN W = 1..m
    BY <2>3 DEF Wished
  <2>5. Sent(h) = W
    <3>1. Len(req[h].wants) - Len(req[h].left) = m
      <4>1. Len(<<>>) = 0
        OBVIOUS
      <4>. QED
        BY <1>2, <2>3, <4>1
    <3>. QED
      BY <2>3, <3>1 DEF Sent, First, Wished
  <2>6. Merged(W, Final(d)) = Final(d)
    BY <1>1, <1>2, <2>1, <2>5 DEF AnswerInv, SendInv
  <2>7. Len(queue[d]) \in Nat /\ DOMAIN Coming(d) = 1..Len(queue[d])
    BY FinalIs DEF AnswerInv
  <2>. HIDE DEF W, m
  <2>8. Merged(W, reported[d]) = Merged(Coming(d), reported[d])
    BY <2>1, <2>3, <2>4, <2>6, <2>7, MergedAhead DEF Final
  <2>. QED
    BY <2>1, <2>2, <2>8 DEF Final, W
<1>. HIDE DEF say
<1>. QED
  BY <1>1, <1>2, <1>3, SaidAnswer DEF AtDevice

\* A state report or QUERY tells of the state of a device to which nothing is on its way.
LEMMA ReportAnswer ==
  ASSUME VoiceInv, AnswerInv, NEW h \in Requests, ReportState(h)
  PROVE  AnswerInv'
<1>1. PICK d \in house.devices : d = Device(h) /\ d = Head(req[h].devs)
  BY AtOne DEF ReportState, AtDevice
<1>0. PICK read \in Readings(d), fails \in Failures :
       /\ Proceed(h, [x \in {d} |-> Render(req[h].by, CapsOf(req[h].pid, fails), read)])
       /\ Notice(h, fails \/ read # reported[d])
  BY <1>1 DEF ReportState
<1>. DEFINE say == Render(req[h].by, CapsOf(req[h].pid, fails), read)
<1>2. /\ SameWorld /\ UNCHANGED <<shown, trusted>> /\ req[h].pc = "report"
      /\ Proceed(h, [x \in {d} |-> say]) /\ Notice(h, fails \/ read # reported[d])
  BY <1>0 DEF ReportState, SameWorld, worldVars
<1>3. ASSUME d \notin spoilt'[h]
      PROVE  say = Render(req[h].by, Caps, Final(d))
  <2>1. /\ Names(Coming(d)) \subseteq Names(Wished(req[h].by, req[h].wants, Caps))
        /\ ~ fails /\ read = reported[d] /\ d \notin spoilt[h]
    BY <1>1, <1>2, <1>3, OnlyOwn DEF AtDevice
  <2>2. Names(Wished(req[h].by, req[h].wants, Caps)) = {}
    <3>1. req[h].wants = <<>>
      BY <1>2 DEF AnswerInv, SendInv
    <3>2. DOMAIN <<>> = {}
      OBVIOUS
    <3>. QED
      BY <3>1, <3>2 DEF Names, Wished
  <2>3. Len(queue[d]) \in Nat /\ DOMAIN Coming(d) = 1..Len(queue[d]) /\ IsFunction(reported[d])
    BY FinalIs DEF AnswerInv, WorldShaped
  <2>4. Final(d) = reported[d]
    BY <2>1, <2>2, <2>3, MergedNone DEF Final
  <2>5. CapsOf(req[h].pid, fails) = Caps
    <3>1. req[h].pid = house.pid
      BY <1>1, <1>2, <2>1 DEF VoiceInv, ReqInv
    <3>. QED
      BY <2>1, <3>1 DEF Caps, CapsOf, ResolveCapabilities
  <2>. QED
    BY <2>1, <2>4, <2>5
<1>. HIDE DEF say
<1>. QED
  BY <1>1, <1>2, <1>3, SaidAnswer DEF AtDevice

\* The response: what is trusted of it is what the devices' states will be.
LEMMA RespondAnswer ==
  ASSUME VoiceInv, AnswerInv, NEW h \in Requests, Respond(h)
  PROVE  AnswerInv'
<1>. DEFINE ds == DOMAIN req[h].states
            same == req[h].by = "google" /\ req[h].wants # <<>>
            told == [d \in ds |-> IF same THEN req[h].states[CHOOSE e \in req[h].last : TRUE]
                                          ELSE req[h].states[d]]
            sure == (IF same THEN req[h].last ELSE ds) \ spoilt[h]
<1>1. /\ req[h].pc = "respond" /\ SameWorld /\ Advance(h, "done")
      /\ spoilt' = [spoilt EXCEPT ![h] = {}]
  BY DEF Respond, SameWorld, worldVars
<1>2. /\ shown' = [shown EXCEPT ![req[h].by] = Over(told, @)]
      /\ trusted' = (trusted \ ({req[h].by} \X ds)) \cup ({req[h].by} \X sure)
  BY DEF Respond
<1>3. StateInv(h) /\ WorldShaped /\ ShownInv /\ ReqShaped
  BY DEF AnswerInv, VoiceInv
<1>4. PICK a \in Assistants : a = req[h].by
  BY <1>1, <1>3 DEF StateInv
<1>5. /\ ds \subseteq house.devices /\ sure \subseteq ds
      /\ \A d \in sure : told[d] = Render(a, Caps, Final(d))
  <2>1. /\ ds \subseteq house.devices /\ req[h].last \subseteq ds
        /\ \A d, e \in req[h].last : d = e
        /\ \A d \in ds \ spoilt[h] : req[h].states[d] = Render(a, Caps, Final(d))
    BY <1>1, <1>3, <1>4 DEF StateInv
  <2>2. ASSUME NEW d \in sure
        PROVE  told[d] = Render(a, Caps, Final(d))
    <3>1. CASE same
      <4>1. d \in req[h].last /\ d \in ds \ spoilt[h]
        BY <2>1, <2>2, <3>1
      <4>2. (CHOOSE e \in req[h].last : TRUE) = d
        BY <2>1, <4>1
      <4>3. told[d] = req[h].states[d]
        BY <3>1, <4>1, <4>2
      <4>. QED
        BY <2>1, <4>1, <4>3
    <3>2. CASE ~same
      BY <2>1, <2>2, <3>2
    <3>. QED
      BY <3>1, <3>2
  <2>. QED
    BY <2>1, <2>2
<1>6. DOMAIN told = ds
  OBVIOUS
<1>. HIDE DEF ds, told, sure, same
<1>7. /\ Caps' = Caps /\ \A d : Final(d)' = Final(d)
      /\ \A g, d : Own(g, d)' = Own(g, d)
  BY <1>1, Stays
<1>8. /\ DOMAIN shown' = Assistants /\ IsOver(shown'[a], told, shown[a])
      /\ \A b \in Assistants \ {a} : shown'[b] = shown[b]
  BY <1>2, <1>3, <1>4, OverIs DEF WorldShaped
<1>9. /\ trusted' = (trusted \ ({a} \X ds)) \cup ({a} \X sure) /\ house' = house
  BY <1>1, <1>2, <1>4 DEF SameWorld
<1>10. ShownInv'
  <2>1. ASSUME NEW b \in Assistants, NEW d \in house.devices, <<b, d>> \in trusted'
        PROVE  d \in DOMAIN shown'[b] /\ shown'[b][d] = Render(b, Caps, Final(d))
    <3>1. CASE b # a
      <4>1. <<b, d>> \in trusted
        BY <1>9, <2>1, <3>1
      <4>. QED
        BY <1>3, <1>8, <2>1, <3>1, <4>1 DEF ShownInv
    <3>2. CASE b = a /\ d \in sure
      <4>1. d \in ds /\ told[d] = Render(a, Caps, Final(d))
        BY <1>5, <3>2
      <4>. QED
        BY <1>6, <1>8, <3>2, <4>1 DEF IsOver
    <3>3. CASE b = a /\ d \notin sure
      <4>1. <<a, d>> \in trusted /\ d \notin ds
        BY <1>9, <2>1, <3>3
      <4>2. d \in DOMAIN shown[a] /\ shown[a][d] = Render(a, Caps, Final(d))
        BY <1>3, <4>1 DEF ShownInv
      <4>. QED
        BY <1>6, <1>8, <3>3, <4>1, <4>2 DEF IsOver
    <3>. QED
      BY <3>1, <3>2, <3>3
  <2>. QED
    BY <1>7, <1>9, <2>1 DEF ShownInv
<1>11. WorldShaped'
  <2>1. trusted' \subseteq Assistants \X house.devices
    BY <1>3, <1>5, <1>9 DEF WorldShaped
  <2>. QED
    BY <1>1, <1>3, <1>8, <2>1 DEF WorldShaped, SameWorld
<1>12. /\ req'[h].pc = "done" /\ \A g \in Requests \ {h} : req'[g] = req[g] /\ spoilt'[g] = spoilt[g]
  BY <1>1, <1>3, Advanced DEF ReqShaped
<1>13. SendInv(h)' /\ StateInv(h)'
  BY <1>12 DEF SendInv, StateInv, AtDevice
<1>14. ASSUME NEW g \in Requests \ {h}
       PROVE  Untouched(g)
  BY <1>7, <1>9, <1>12 DEF Untouched
<1>15. {h} \in SUBSET Requests /\ \A g \in {h} : SendInv(g)' /\ StateInv(g)'
  BY <1>13
<1>. QED
  BY <1>10, <1>11, <1>14, <1>15, Together

\* A step of none's.
LEMMA NoneActs ==
  ASSUME VoiceInv, AnswerInv, WorldShaped', ShownInv', \A g \in Requests : Untouched(g)
  PROVE  AnswerInv'
<1>1. {} \in SUBSET Requests /\ \A g \in Requests \ {} : Untouched(g)
  OBVIOUS
<1>2. \A g \in {} : SendInv(g)' /\ StateInv(g)'
  OBVIOUS
<1>. QED
  BY <1>1, <1>2, Together

\* What comes first has been taken from a device's queue.
LEMMA QueueLess ==
  ASSUME WorldShaped, NEW d \in house.devices, queue[d] # <<>>, house' = house,
         queue' = [queue EXCEPT ![d] = Tail(@)]
  PROVE  /\ DOMAIN queue' = house.devices /\ \A e \in house.devices : IsList(queue'[e])
         /\ \A e \in house.devices \ {d} : Coming(e)' = Coming(e)
         /\ \A g : \A e \in house.devices : Own(g, e)' \subseteq Own(g, e)
         /\ \E n \in Nat : /\ DOMAIN Coming(d) = 1..(n + 1) /\ DOMAIN Coming(d)' = 1..n
                           /\ \A i \in 1..n : Coming(d)'[i] = Coming(d)[i + 1]
                           /\ Coming(d)[1] = Head(queue[d]).dps
<1>. DEFINE q == queue[d]  n == Len(q) - 1
<1>1. IsList(q) /\ q # <<>>
  BY DEF WorldShaped
<1>2. /\ IsList(Tail(q)) /\ DOMAIN q = 1..Len(q) /\ DOMAIN Tail(q) = 1..n
      /\ Len(q) \in Nat \ {0} /\ \A i \in 1..n : Tail(q)[i] = q[i + 1]
      /\ Head(q) = q[1]
  <2>. HIDE DEF q
  <2>. QED
    BY <1>1, ListRest
<1>3. /\ DOMAIN queue' = house.devices /\ queue'[d] = Tail(q)
      /\ \A e \in house.devices \ {d} : queue'[e] = queue[e]
  BY DEF WorldShaped
<1>4. n \in Nat /\ Len(q) = n + 1
  BY <1>2
<1>. HIDE DEF n
<1>5. 1 \in 1..(n + 1) /\ \A i \in 1..n : i + 1 \in 1..(n + 1)
  BY ONLY <1>4
<1>6. \A g : \A e \in house.devices : Own(g, e)' \subseteq Own(g, e)
  <2>1. \A g : \A e \in house.devices \ {d} : Own(g, e)' = Own(g, e)
    BY <1>3 DEF Own
  <2>2. ASSUME NEW g, NEW c \in Own(g, d)'
        PROVE  c \in Own(g, d)
    <3>1. PICK i \in 1..n : c = Tail(q)[i] /\ Tail(q)[i].of = g
      BY <1>2, <1>3, <2>2 DEF Own
    <3>2. i + 1 \in DOMAIN q /\ c = q[i + 1] /\ q[i + 1].of = g
      BY <1>2, <1>4, <1>5, <3>1
    <3>. QED
      BY <3>2 DEF Own
  <2>. QED
    BY <2>1, <2>2
<1>7. \A e \in house.devices \ {d} : Coming(e)' = Coming(e)
  BY <1>3 DEF Coming
<1>8. /\ DOMAIN Coming(d) = 1..(n + 1) /\ DOMAIN Coming(d)' = 1..n
      /\ \A i \in 1..n : Coming(d)'[i] = Coming(d)[i + 1]
      /\ Coming(d)[1] = Head(q).dps
  <2>1. /\ DOMAIN Coming(d) = 1..(n + 1)
        /\ \A i \in 1..(n + 1) : Coming(d)[i] = q[i].dps
    BY <1>2, <1>4 DEF Coming
  <2>2. /\ DOMAIN Coming(d)' = 1..n /\ \A i \in 1..n : Coming(d)'[i] = Tail(q)[i].dps
    BY <1>2, <1>3 DEF Coming
  <2>. QED
    BY <1>2, <1>5, <2>1, <2>2
<1>9. \A e \in house.devices : IsList(queue'[e])
  BY <1>2, <1>3 DEF WorldShaped
<1>. QED
  BY <1>3, <1>4, <1>6, <1>7, <1>8, <1>9

\* A device that does what it was sent ends where it would.
LEMMA ApplyAnswer ==
  ASSUME VoiceInv, AnswerInv, NEW d \in house.devices, Apply(d)
  PROVE  AnswerInv'
<1>1. /\ queue[d] # <<>> /\ UNCHANGED <<house, rows, req, shown, trusted, spoilt>>
      /\ reported' = [reported EXCEPT ![d] = Over(Head(queue[d]).dps, @)]
      /\ queue' = [queue EXCEPT ![d] = Tail(@)]
  BY DEF Apply, voiceHistory
<1>2. WorldShaped /\ ShownInv
  BY DEF AnswerInv
<1>3. /\ DOMAIN queue' = house.devices /\ \A e \in house.devices : IsList(queue'[e])
      /\ \A e \in house.devices \ {d} : Coming(e)' = Coming(e)
      /\ \A g : \A e \in house.devices : Own(g, e)' \subseteq Own(g, e)
      /\ \E n \in Nat : /\ DOMAIN Coming(d) = 1..(n + 1) /\ DOMAIN Coming(d)' = 1..n
                        /\ \A i \in 1..n : Coming(d)'[i] = Coming(d)[i + 1]
                        /\ Coming(d)[1] = Head(queue[d]).dps
  BY <1>1, <1>2, QueueLess
<1>4. /\ DOMAIN reported' = house.devices
      /\ reported'[d] = Over(Head(queue[d]).dps, reported[d])
      /\ \A e \in house.devices \ {d} : reported'[e] = reported[e]
  BY <1>1, <1>2 DEF WorldShaped
<1>5. Caps' = Caps /\ house' = house
  BY <1>1, CapsSame
<1>6. Final(d)' = Final(d)
  <2>1. PICK n \in Nat : /\ DOMAIN Coming(d) = 1..(n + 1) /\ DOMAIN Coming(d)' = 1..n
                         /\ \A i \in 1..n : Coming(d)'[i] = Coming(d)[i + 1]
                         /\ Coming(d)[1] = Head(queue[d]).dps
    BY <1>3
  <2>2. Merged(Coming(d)', Over(Coming(d)[1], reported[d])) = Merged(Coming(d), reported[d])
    <3>. DEFINE all == Coming(d)  rest == Coming(d)'
    <3>1. /\ DOMAIN all = 1..(n + 1) /\ DOMAIN rest = 1..n
          /\ \A i \in 1..n : rest[i] = all[i + 1]
      BY <2>1
    <3>. HIDE DEF all, rest
    <3>2. \A g : Merged(rest, Over(all[1], g)) = Merged(all, g)
      BY ONLY <3>1, MergedRest
    <3>. QED
      BY <3>2 DEF all, rest
  <2>. QED
    BY <1>4, <2>1, <2>2 DEF Final
<1>7. \A e \in house.devices : Final(e)' = Final(e)
  <2>1. \A e \in house.devices \ {d} : Final(e)' = Final(e)
    BY <1>3, <1>4 DEF Final
  <2>. QED
    BY <1>6, <2>1
<1>8. WorldShaped'
  <2>1. IsFunction(reported'[d])
    BY <1>4, OverIs DEF IsOver
  <2>. QED
    BY <1>1, <1>2, <1>3, <1>4, <2>1 DEF WorldShaped
<1>9. ShownInv'
  BY <1>1, <1>2, <1>5, <1>7 DEF ShownInv
<1>10. \A g \in Requests : Untouched(g)
  BY <1>1, <1>3, <1>5, <1>7 DEF Untouched
<1>. QED
  BY <1>8, <1>9, <1>10, NoneActs

\* A change at a device, or a command lost, behind everyone's back.
LEMMA ChangeAnswer ==
  ASSUME VoiceInv, AnswerInv, NEW d \in house.devices, Touch(d) \/ Lose(d)
  PROVE  AnswerInv'
<1>1. UNCHANGED <<house, rows, req, shown>> /\ Disturb({d}, {})
  BY DEF Touch, Lose
<1>2. WorldShaped /\ ShownInv /\ ReqShaped
  BY DEF AnswerInv, VoiceInv
<1>3. /\ DOMAIN queue' = house.devices /\ \A e \in house.devices : IsList(queue'[e])
      /\ \A e \in house.devices \ {d} : Coming(e)' = Coming(e)
      /\ \A g : \A e \in house.devices : Own(g, e)' \subseteq Own(g, e)
      /\ DOMAIN reported' = house.devices /\ IsFunction(reported'[d])
      /\ \A e \in house.devices \ {d} : reported'[e] = reported[e]
  <2>1. CASE Touch(d)
    <3>1. /\ queue' = queue
          /\ \E x \in house.settable :
               reported' = [reported EXCEPT ![d] = Over([dp \in {x[1]} |-> x[2]], @)]
      BY <2>1 DEF Touch
    <3>2. PICK x \in house.settable :
            reported' = [reported EXCEPT ![d] = Over([dp \in {x[1]} |-> x[2]], @)]
      BY <3>1
    <3>3. /\ DOMAIN reported' = house.devices
          /\ reported'[d] = Over([dp \in {x[1]} |-> x[2]], reported[d])
          /\ \A e \in house.devices \ {d} : reported'[e] = reported[e]
      BY <1>2, <3>2 DEF WorldShaped
    <3>4. IsFunction(reported'[d])
      BY <3>3, OverIs DEF IsOver
    <3>5. /\ \A e : Coming(e)' = Coming(e)
          /\ \A g, e : Own(g, e)' = Own(g, e)
      BY <3>1 DEF Coming, Own
    <3>. QED
      BY <1>2, <3>1, <3>3, <3>4, <3>5 DEF WorldShaped
  <2>2. CASE Lose(d)
    <3>1. queue[d] # <<>> /\ queue' = [queue EXCEPT ![d] = Tail(@)] /\ reported' = reported
      BY <2>2 DEF Lose
    <3>2. house' = house
      BY <1>1
    <3>3. /\ DOMAIN queue' = house.devices /\ \A e \in house.devices : IsList(queue'[e])
          /\ \A e \in house.devices \ {d} : Coming(e)' = Coming(e)
          /\ \A g : \A e \in house.devices : Own(g, e)' \subseteq Own(g, e)
      BY <1>2, <3>1, <3>2, QueueLess
    <3>. QED
      BY <1>2, <3>1, <3>3 DEF WorldShaped
  <2>. QED
    BY <2>1, <2>2
<1>4. Caps' = Caps /\ house' = house /\ \A e \in house.devices \ {d} : Final(e)' = Final(e)
  BY <1>1, <1>3, CapsSame DEF Final
<1>5. /\ trusted' = trusted \ (Assistants \X {d})
      /\ \A g \in Requests : spoilt[g] \subseteq spoilt'[g]
      /\ \A g \in Requests : req[g].pc \in AtDevice \cup {"respond"} => spoilt'[g] = spoilt[g] \cup {d}
  BY <1>1, <1>2, Disturbed, DisturbedMore
<1>6. WorldShaped'
  BY <1>1, <1>2, <1>3, <1>5 DEF WorldShaped
<1>7. ShownInv'
  BY <1>1, <1>2, <1>4, <1>5 DEF ShownInv
<1>8. \A g \in Requests : Untouched(g)
  BY <1>1, <1>3, <1>4, <1>5 DEF Untouched
<1>. QED
  BY <1>6, <1>7, <1>8, NoneActs

\* Another version, or one retired: nothing that was said is to be trusted.
LEMMA ProductAnswer ==
  ASSUME VoiceInv, AnswerInv, Release \/ Retire
  PROVE  AnswerInv'
<1>1. UNCHANGED <<house, reported, queue, req, shown>> /\ Disturb(house.devices, {})
  BY DEF Release, Retire
<1>2. WorldShaped /\ ShownInv /\ ReqShaped
  BY DEF AnswerInv, VoiceInv
<1>3. /\ trusted' = trusted \ (Assistants \X house.devices)
      /\ \A g \in Requests : spoilt[g] \subseteq spoilt'[g]
      /\ \A g \in Requests :
           req[g].pc \in AtDevice \cup {"respond"} => spoilt'[g] = spoilt[g] \cup house.devices
  BY <1>1, <1>2, Disturbed, DisturbedMore
<1>4. trusted' = {}
  BY <1>2, <1>3 DEF WorldShaped
<1>5. \A g, e : Own(g, e)' = Own(g, e)
  BY <1>1 DEF Own
<1>6. WorldShaped' /\ ShownInv'
  BY <1>1, <1>2, <1>4 DEF WorldShaped, ShownInv
<1>7. \A g \in Requests : Untouched(g)
  BY <1>1, <1>3, <1>5 DEF Untouched
<1>. QED
  BY <1>6, <1>7, NoneActs

\* A push tells of the table with the capabilities of the static catalogue: where nothing
\* is on its way and nothing is released, that is what the assistant would be told.
LEMMA PushAnswer ==
  ASSUME VoiceInv, AnswerInv, NEW a \in Assistants, NEW d \in house.devices, Push(a, d)
  PROVE  AnswerInv'
<1>0. PICK read \in Readings(d), fails \in Failures, unsure \in Failures :
       LET pid  == IF fails THEN house.appPid ELSE house.pid
           show == Render(a, CapsForPID(pid), read)
       IN  /\ shown' = [shown EXCEPT ![a] = Over([x \in {d} |-> show], @)]
           /\ trusted' = IF queue[d] = <<>> /\ rows = Nothing /\ ~ fails /\ read = reported[d]
                         THEN trusted \cup {<<a, d>>} ELSE trusted \ {<<a, d>>}
  BY DEF Push
<1>. DEFINE pid  == IF fails THEN house.appPid ELSE house.pid
            say  == Render(a, CapsForPID(pid), read)
            sure == queue[d] = <<>> /\ rows = Nothing /\ ~ fails /\ read = reported[d]
<1>1. /\ SameWorld /\ UNCHANGED <<req, spoilt>>
      /\ shown' = [shown EXCEPT ![a] = Over([x \in {d} |-> say], @)]
      /\ trusted' = IF sure THEN trusted \cup {<<a, d>>} ELSE trusted \ {<<a, d>>}
  BY <1>0 DEF Push, SameWorld, worldVars
<1>2. WorldShaped /\ ShownInv
  BY DEF AnswerInv
<1>3. sure => say = Render(a, Caps, Final(d))
  <2>1. ASSUME sure
        PROVE  Final(d) = reported[d] /\ Caps = CapsForPID(house.pid)
    <3>1. DOMAIN Coming(d) = 1..0 /\ Names(Coming(d)) = {} /\ IsFunction(reported[d])
      BY <1>2, <2>1 DEF Coming, Names, WorldShaped
    <3>2. Final(d) = reported[d]
      BY <3>1, MergedNone DEF Final
    <3>3. Newest(rows) = {}
      BY <2>1 DEF Newest, Nothing
    <3>. QED
      BY <3>2, <3>3 DEF Caps, CapsOf, Released, ResolveCapabilities
  <2>. QED
    BY <2>1
<1>. DEFINE f == [x \in {d} |-> say]
<1>4. DOMAIN f = {d} /\ f[d] = say
  OBVIOUS
<1>. HIDE DEF f, say, sure
<1>5. /\ DOMAIN shown' = Assistants /\ IsOver(shown'[a], f, shown[a])
      /\ \A b \in Assistants \ {a} : shown'[b] = shown[b]
  BY <1>1, <1>2, OverIs DEF WorldShaped, f
<1>6. /\ Caps' = Caps /\ \A e : Final(e)' = Final(e)
      /\ \A g, e : Own(g, e)' = Own(g, e)
  BY <1>1, Stays
<1>7. ShownInv'
  <2>1. ASSUME NEW b \in Assistants, NEW e \in house.devices, <<b, e>> \in trusted'
        PROVE  e \in DOMAIN shown'[b] /\ shown'[b][e] = Render(b, Caps, Final(e))
    <3>1. CASE b # a
      <4>1. <<b, e>> \in trusted
        BY <1>1, <2>1, <3>1
      <4>. QED
        BY <1>2, <1>5, <3>1, <4>1 DEF ShownInv
    <3>2. CASE b = a /\ e = d
      <4>1. sure
        BY <1>1, <2>1, <3>2
      <4>. QED
        BY <1>3, <1>4, <1>5, <3>2, <4>1 DEF IsOver
    <3>3. CASE b = a /\ e # d
      <4>1. <<a, e>> \in trusted
        BY <1>1, <2>1, <3>3
      <4>2. e \in DOMAIN shown[a] /\ shown[a][e] = Render(a, Caps, Final(e))
        BY <1>2, <4>1 DEF ShownInv
      <4>. QED
        BY <1>4, <1>5, <3>3, <4>2 DEF IsOver
    <3>. QED
      BY <3>1, <3>2, <3>3
  <2>. QED
    BY <1>1, <1>6, <2>1 DEF ShownInv, SameWorld
<1>8. WorldShaped'
  BY <1>1, <1>2, <1>5 DEF WorldShaped, SameWorld
<1>9. \A g \in Requests : Untouched(g)
  BY <1>1, <1>6 DEF Untouched, SameWorld
<1>. QED
  BY <1>7, <1>8, <1>9, NoneActs

\* The steps of a request.
LEMMA RequestAnswer ==
  ASSUME VoiceInv, AnswerInv, NEW h \in Requests,
         \/ Ask(h) \/ OwnsDevice(h) \/ IsOnline(h) \/ Resolve(h) \/ Skip(h) \/ SendCommand(h)
         \/ Answer(h) \/ ReportState(h) \/ Respond(h)
  PROVE  AnswerInv'
<1>1. CASE OwnsDevice(h)
  <2>1. SameWorld /\ UNCHANGED <<shown, trusted>> /\ req[h].pc = "owner" /\ ReqShaped
    BY <1>1 DEF OwnsDevice, SameWorld, worldVars, VoiceInv
  <2>2. /\ UNCHANGED spoilt \/ \E fails : Spoil(h, fails)
        /\ Proceed(h, Nothing) \/ \E pid : req' = [req EXCEPT ![h].pc = "online", ![h].pid = pid]
    <3>1. CASE Proceed(h, Nothing) /\ UNCHANGED spoilt
      BY <3>1
    <3>2. CASE \E fails, unsure \in Failures :
             LET pid == IF fails THEN house.appPid ELSE house.pid
             IN  /\ IF Supported(pid, req[h].by, unsure)
                    THEN req' = [req EXCEPT ![h].pc = "online", ![h].pid = pid]
                    ELSE Proceed(h, Nothing)
                 /\ Spoil(h, fails)
      BY <3>2
    <3>. QED
      BY <1>1, <3>1, <3>2 DEF OwnsDevice
  <2>3. \A g \in Requests : spoilt[g] \subseteq spoilt'[g]
    BY <2>1, <2>2, Spoilt
  <2>4. ASSUME NEW pid, req' = [req EXCEPT ![h].pc = "online", ![h].pid = pid]
        PROVE  AnswerInv'
    BY <2>1, <2>3, <2>4, Owned, AdvanceAnswer
  <2>5. CASE Proceed(h, Nothing)
    BY <2>1, <2>3, <2>5, PassAnswer DEF AtDevice
  <2>. QED
    BY <2>2, <2>4, <2>5
<1>2. CASE IsOnline(h)
  <2>1. SameWorld /\ UNCHANGED <<shown, trusted, spoilt>> /\ req[h].pc = "online" /\ ReqShaped
    BY <1>2 DEF IsOnline, SameWorld, worldVars, voiceHistory, VoiceInv
  <2>2. \/ Proceed(h, Nothing) \/ Advance(h, "resolve")
        \/ Advance(h, "report") /\ req[h].wants = <<>>
    BY <1>2 DEF IsOnline
  <2>3. CASE Advance(h, "resolve")
    BY <2>1, <2>3, Advanced, AdvanceAnswer
  <2>4. CASE Advance(h, "report") /\ req[h].wants = <<>>
    BY <2>1, <2>4, Advanced, AdvanceAnswer
  <2>5. CASE Proceed(h, Nothing)
    BY <2>1, <2>5, PassAnswer DEF AtDevice
  <2>. QED
    BY <2>2, <2>3, <2>4, <2>5
<1>. QED
  BY <1>1, <1>2, AskAnswer, ResolveAnswer, SkipAnswer, SendAnswer, AnswerAnswer, ReportAnswer,
     RespondAnswer

\* What will be answered, and what is shown and trusted, stays what the devices will be.
LEMMA NextAnswer == VoiceInv /\ AnswerInv /\ [VoiceNext]_voiceVars => AnswerInv'
<1>. SUFFICES ASSUME VoiceInv, AnswerInv, [VoiceNext]_voiceVars
              PROVE  AnswerInv'
  OBVIOUS
<1>1. ASSUME SameWorld, UNCHANGED <<req, shown, trusted, spoilt>>
      PROVE  AnswerInv'
  <2>1. WorldShaped /\ ShownInv
    BY DEF AnswerInv
  <2>2. /\ Caps' = Caps /\ \A d : Final(d)' = Final(d)
        /\ \A g, d : Own(g, d)' = Own(g, d)
    BY <1>1, Stays
  <2>3. WorldShaped' /\ ShownInv'
    BY <1>1, <2>1, <2>2 DEF WorldShaped, ShownInv, SameWorld
  <2>4. \A g \in Requests : Untouched(g)
    BY <1>1, <2>2 DEF Untouched, SameWorld
  <2>. QED
    BY <2>3, <2>4, NoneActs
<1>2. CASE UNCHANGED voiceVars
  BY <1>1, <1>2 DEF voiceVars, worldVars, voiceHistory, SameWorld
<1>3. CASE \E h \in Requests :
             \/ Ask(h) \/ OwnsDevice(h) \/ IsOnline(h) \/ Resolve(h) \/ Skip(h)
             \/ SendCommand(h) \/ Answer(h) \/ ReportState(h) \/ Respond(h)
  BY <1>3, RequestAnswer
<1>4. CASE \E a \in Assistants : \E d \in house.devices : Push(a, d)
  BY <1>4, PushAnswer
<1>5. CASE \/ \E a \in Assistants : Discover(a)
           \/ \E d \in house.devices : Power(d) \/ GiveAway(d)
  BY <1>1, <1>5 DEF Discover, Power, GiveAway, worldVars, voiceHistory, SameWorld
<1>6. CASE \E d \in house.devices : Apply(d)
  BY <1>6, ApplyAnswer
<1>7. CASE \E d \in house.devices : Touch(d) \/ Lose(d)
  BY <1>7, ChangeAnswer
<1>8. CASE Release \/ Retire
  BY <1>8, ProductAnswer
<1>. QED
  BY <1>2, <1>3, <1>4, <1>5, <1>6, <1>7, <1>8 DEF VoiceNext

\* For any number of requests and devices, any products, directives and failures: what an
\* assistant was told of a device, by the optimistic answer to a directive, by a state report or
\* by a push, is what it would be told once the device has carried out what is on its way,
\* unless someone else changed the device since the request began, a command was lost, the
\* product changed, or a statement of the request failed.
THEOREM AnswersComeTrue == VoiceSpec => []AnswerComesTrue
<1>1. VoiceInv /\ AnswerInv => AnswerComesTrue
  <2>. SUFFICES ASSUME AnswerInv, NEW x \in trusted, queue[x[2]] = <<>>
                PROVE  shown[x[1]][x[2]] = Render(x[1], Caps, reported[x[2]])
    BY DEF AnswerComesTrue
  <2>1. WorldShaped /\ ShownInv
    BY DEF AnswerInv
  <2>2. PICK a \in Assistants, d \in house.devices : x = <<a, d>>
    BY <2>1 DEF WorldShaped
  <2>3. shown[a][d] = Render(a, Caps, Final(d))
    BY <2>1, <2>2 DEF ShownInv
  <2>4. queue[d] = <<>> /\ IsFunction(reported[d])
    BY <2>1, <2>2 DEF WorldShaped
  <2>5. DOMAIN Coming(d) = 1..0 /\ Names(Coming(d)) = {}
    BY <2>4 DEF Coming, Names
  <2>6. Final(d) = reported[d]
    BY <2>4, <2>5, MergedNone DEF Final
  <2>. QED
    BY <2>2, <2>3, <2>6
<1>. QED
  BY <1>1, InitVoice, NextVoice, InitAnswer, NextAnswer, PTL DEF VoiceSpec

-----------------------------------------------------------------------------
(* VoiceControl: what an assistant shows can be wished for, and that        *)
(* changes nothing.                                                        *)

\* A quotient rounded is below a bound that the quotient does not exceed.
LEMMA RoundedBelow ==
  ASSUME NEW n \in Nat, NEW q \in Nat \ {0}, n <= 255 * q
  PROVE  Rounded(n, q) \in Channels
<1>. DEFINE c == (2 * n + q) \div (2 * q)
<1>1. 2 * q \in Nat \ {0} /\ 2 * n + q \in Nat
  OBVIOUS
<1>2. c \in Nat /\ (2 * q) * c <= 2 * n + q
  BY <1>1
<1>3. 2 * n + q < 512 * q
  OBVIOUS
<1>. HIDE DEF c
<1>4. ASSUME c >= 256
      PROVE  FALSE
  <2>1. (2 * q) * c >= (2 * q) * 256
    BY <1>1, <1>2, <1>4
  <2>. QED
    BY <1>2, <1>3, <2>1
<1>. QED
  BY <1>2, <1>4 DEF c, Rounded, Channels

\* A part of a whole, times the rest.
LEMMA PartOf ==
  ASSUME NEW a \in Nat, NEW b \in Nat, NEW c \in Nat, b <= c
  PROVE  a * b \in Nat /\ a * b <= a * c
  OBVIOUS

\* HSBToRGB makes a colour.
LEMMA ColourTyped ==
  ASSUME NEW hsb, IsColour(hsb)
  PROVE  HSBToRGB(hsb) \in Channels \X Channels \X Channels
<1>. DEFINE h == hsb.hue[1]
            d == hsb.hue[2]
            sn == hsb.saturation[1]
            sd == hsb.saturation[2]
            v  == hsb.brightness
            turn == h % (2 * d)
            fold == IF turn >= d THEN turn - d ELSE d - turn
            c == v * sn * d
            x == v * sn * (d - fold)
            m == v * (sd - sn) * d
            out(n) == Rounded(n + m, sd * d)
<1>1. h \in Nat /\ d \in Nat \ {0} /\ sd \in Nat \ {0} /\ sn \in Nat /\ sn <= sd /\ v \in Nat /\ v <= 255
  BY DEF IsColour, Channels
<1>2. HSBToRGB(hsb) \in {<<out(c), out(x), out(0)>>, <<out(x), out(c), out(0)>>, <<out(0), out(c), out(x)>>,
                         <<out(0), out(x), out(c)>>, <<out(x), out(0), out(c)>>, <<out(c), out(0), out(x)>>}
  BY DEF HSBToRGB
<1>. HIDE DEF h, d, sn, sd, v
<1>3. fold \in Nat /\ d - fold \in Nat /\ d - fold <= d
  <2>1. 2 * d \in Nat \ {0}
    BY <1>1
  <2>2. turn \in 0..(2 * d - 1)
    BY <1>1, <2>1
  <2>. HIDE DEF turn
  <2>. QED
    BY <1>1, <2>2
<1>. HIDE DEF fold
<1>4. c \in Nat /\ x \in Nat /\ x <= c
  <2>1. v * sn \in Nat
    BY <1>1
  <2>. QED
    BY <1>1, <1>3, <2>1, PartOf
<1>5. m \in Nat /\ c + m = v * (sd * d) /\ sd * d \in Nat \ {0}
  <2>1. sd - sn \in Nat
    BY <1>1
  <2>2. v * (sd - sn) \in Nat /\ m \in Nat
    BY <1>1, <2>1
  <2>3. v * sn * d + v * (sd - sn) * d = v * (sd * d)
    BY <1>1
  <2>4. sd * d \in Nat \ {0}
    BY <1>1
  <2>. QED
    BY <2>2, <2>3, <2>4
<1>6. v * (sd * d) <= 255 * (sd * d)
  <2>. DEFINE q == sd * d
  <2>1. q \in Nat
    BY <1>5
  <2>. HIDE DEF q
  <2>2. v * q <= 255 * q
    BY <1>1, <2>1
  <2>. QED
    BY <2>2 DEF q
<1>7. ASSUME NEW n \in {c, x, 0}
      PROVE  out(n) \in Channels
  <2>. DEFINE q == sd * d
  <2>1. n \in Nat /\ n <= c
    BY <1>4
  <2>. HIDE DEF c, x, m, q
  <2>2. n + m \in Nat /\ n + m <= 255 * q /\ q \in Nat \ {0}
    BY <1>4, <1>5, <1>6, <2>1 DEF q
  <2>3. Rounded(n + m, q) \in Channels
    BY <2>2, RoundedBelow
  <2>. QED
    BY <2>3 DEF q
<1>8. out(c) \in Channels /\ out(x) \in Channels /\ out(0) \in Channels
  BY <1>7
<1>. HIDE DEF out
<1>. QED
  BY <1>2, <1>8

\* KelvinToColorTemp stays on the scale of capability.go.
LEMMA KelvinTyped ==
  ASSUME NEW k \in Int
  PROVE  KelvinToColorTemp(k) \in 0..100
<1>1. CASE k < 2700 \/ k > 6500
  BY <1>1 DEF KelvinToColorTemp
<1>2. CASE k \in 2700..6500
  <2>1. KelvinToColorTemp(k) = Rounded(k - 2700, 38) - Cardinality({k} \cap ShortHalves)
    BY <1>2 DEF KelvinToColorTemp
  <2>2. Rounded(k - 2700, 38) \in 0..100 /\ (k >= 2800 => Rounded(k - 2700, 38) >= 1)
    BY <1>2 DEF Rounded
  <2>3. CASE k \in ShortHalves
    <3>1. {k} \cap ShortHalves = {k}
      BY <2>3
    <3>3. k >= 2800
      BY <2>3 DEF ShortHalves
    <3>2. Cardinality({k} \cap ShortHalves) = 1
      BY <3>1, FS_Singleton
    <3>. QED
      BY <2>1, <2>2, <3>2, <3>3
  <2>4. CASE k \notin ShortHalves
    <3>1. {k} \cap ShortHalves = {}
      BY <2>4
    <3>2. Cardinality({k} \cap ShortHalves) = 0
      BY <3>1, FS_EmptySet
    <3>. QED
      BY <2>1, <2>2, <3>2
  <2>. QED
    BY <2>3, <2>4
<1>. QED
  BY <1>1, <1>2

\* A value of its kind, set for any description of the device, is one by every other.
LEMMA SetOfKind ==
  ASSUME NEW s \in VoiceSettings, NEW caps \in Descriptions(s), NEW kind, NEW v,
         kind \in DOMAIN Values => v \in Values[kind]
  PROVE  OfKind(s, Set(kind, caps, v))
<1>. DEFINE out == Set(kind, caps, v)
<1>1. \A dp \in DOMAIN out : out[dp] = v /\ \E i \in DOMAIN caps : caps[i].dp = dp /\ caps[i].kind = kind
  <2>1. DOMAIN Nothing = {}
    BY DEF Nothing
  <2>2. CASE KindDP(kind, caps) = {}
    <3>1. out = Nothing
      BY <2>2 DEF Set
    <3>. QED
      BY <2>1, <3>1
  <2>3. CASE KindDP(kind, caps) # {}
    <3>1. out = [dp \in KindDP(kind, caps) |-> v]
      BY <2>3 DEF Set
    <3>2. \A dp \in KindDP(kind, caps) : \E i \in DOMAIN caps : caps[i].dp = dp /\ caps[i].kind = kind
      BY DEF KindDP
    <3>. QED
      BY <3>1, <3>2
  <2>. QED
    BY <2>2, <2>3
<1>2. \A other \in Descriptions(s) : \A i \in DOMAIN caps, j \in DOMAIN other :
        caps[i].dp = other[j].dp => caps[i].kind = other[j].kind
  BY ValueAssumptions DEF ValueAssumptions
<1>. HIDE DEF out
<1>3. ASSUME NEW other \in Descriptions(s), NEW j \in DOMAIN other,
             other[j].dp \in DOMAIN out, other[j].kind \in DOMAIN Values
      PROVE  out[other[j].dp] \in Values[other[j].kind]
  BY <1>1, <1>2, <1>3
<1>4. OfKind(s, out)
  BY <1>3 DEF OfKind
<1>. QED
  BY <1>4 DEF out

\* What is put over values of their kinds.
LEMMA OverOfKind ==
  ASSUME NEW s, NEW f, NEW g, OfKind(s, f), OfKind(s, g)
  PROVE  OfKind(s, Over(f, g))
<1>. DEFINE o == Over(f, g)
<1>1. IsOver(o, f, g)
  BY OverIs
<1>. HIDE DEF o
<1>2. /\ DOMAIN o = DOMAIN f \cup DOMAIN g
      /\ \A x \in DOMAIN o : \/ x \in DOMAIN f /\ o[x] = f[x]
                             \/ x \in DOMAIN g /\ o[x] = g[x]
  BY <1>1 DEF IsOver
<1>3. ASSUME NEW caps \in Descriptions(s), NEW i \in DOMAIN caps,
             caps[i].dp \in DOMAIN o, caps[i].kind \in DOMAIN Values
      PROVE  o[caps[i].dp] \in Values[caps[i].kind]
  BY <1>2, <1>3 DEF OfKind
<1>4. OfKind(s, o)
  BY <1>3 DEF OfKind
<1>. QED
  BY <1>4 DEF o

\* What DirectiveToDPS makes of what is meant is of its kind.
LEMMA AlexaOfKind ==
  ASSUME NEW s \in VoiceSettings, NEW caps \in Descriptions(s), NEW wish, DirectiveMeant(wish)
  PROVE  OfKind(s, DirectiveToDPS(wish, caps))
<1>. DEFINE kind == AlexaTarget(wish.interface)
            carried == wish.name \notin Valueless
<1>1. /\ kind = "color" => IsColour(wish.value)
      /\ carried => /\ kind \in {"brightness", "fan_speed", "color_temp"} => wish.value \in Int
                    /\ kind = "target_temp" => wish.value[2] \in Int
  BY DEF DirectiveMeant
<1>. HIDE DEF kind, carried
<1>2. CASE kind = "power"
  <2>. DEFINE b == wish.name = "TurnOn"
  <2>1. DirectiveToDPS(wish, caps) = Set(kind, caps, b)
    BY <1>2 DEF DirectiveToDPS, kind
  <2>2. b \in Values[kind]
    BY <1>2 DEF Values
  <2>. HIDE DEF b
  <2>. QED
    BY <2>1, <2>2, SetOfKind
<1>3. CASE kind = "lock"
  <2>. DEFINE b == wish.name = "Lock"
  <2>1. DirectiveToDPS(wish, caps) = Set(kind, caps, b)
    BY <1>3 DEF DirectiveToDPS, kind
  <2>2. b \in Values[kind]
    BY <1>3 DEF Values
  <2>. HIDE DEF b
  <2>. QED
    BY <2>1, <2>2, SetOfKind
<1>4. CASE kind = "color"
  <2>1. DirectiveToDPS(wish, caps) = Set(kind, caps, HSBToRGB(wish.value))
    BY <1>4 DEF DirectiveToDPS, kind
  <2>2. HSBToRGB(wish.value) \in Values[kind]
    BY <1>1, <1>4, ColourTyped DEF Values
  <2>. QED
    BY <2>1, <2>2, SetOfKind
<1>5. CASE kind = "color_temp"
  <2>. DEFINE k == IF carried THEN wish.value ELSE 0
  <2>1. DirectiveToDPS(wish, caps) = Set(kind, caps, KelvinToColorTemp(k))
    BY <1>5 DEF DirectiveToDPS, kind, carried
  <2>2. k \in Int
    BY <1>1, <1>5
  <2>. HIDE DEF k
  <2>3. KelvinToColorTemp(k) \in Values[kind]
    BY <1>5, <2>2, KelvinTyped DEF Values
  <2>. QED
    BY <2>1, <2>3, SetOfKind
<1>6. CASE kind = "target_temp"
  <2>. DEFINE t == IF carried THEN Celsius(wish.value) ELSE 0
  <2>1. DirectiveToDPS(wish, caps) = Set(kind, caps, t)
    BY <1>6 DEF DirectiveToDPS, kind, carried
  <2>2. t \in Int
    BY <1>1, <1>6 DEF Celsius
  <2>. HIDE DEF t
  <2>3. t \in Values[kind]
    BY <1>6, <2>2 DEF Values
  <2>. QED
    BY <2>1, <2>3, SetOfKind
<1>7. CASE kind \in {"brightness", "fan_speed"}
  <2>. DEFINE n == IF carried THEN wish.value ELSE 0
  <2>1. DirectiveToDPS(wish, caps) = Set(kind, caps, n)
    BY <1>7 DEF DirectiveToDPS, kind, carried
  <2>2. n \in Int
    BY <1>1, <1>7
  <2>. HIDE DEF n
  <2>3. n \in Values[kind]
    BY <1>7, <2>2 DEF Values
  <2>. QED
    BY <2>1, <2>3, SetOfKind
<1>8. CASE kind = NoKind
  <2>1. DirectiveToDPS(wish, caps) = Nothing /\ DOMAIN Nothing = {}
    BY <1>8 DEF DirectiveToDPS, kind, NoKind, Nothing
  <2>. HIDE DEF Nothing
  <2>2. OfKind(s, Nothing)
    BY <2>1 DEF OfKind
  <2>. QED
    BY <2>1, <2>2
<1>9. kind \in {"power", "lock", "color", "color_temp", "target_temp", "brightness", "fan_speed", NoKind}
  BY DEF kind, AlexaTarget
<1>. QED
  BY <1>2, <1>3, <1>4, <1>5, <1>6, <1>7, <1>8, <1>9

\* What ExecuteCommandToDPS makes of what is meant is of its kind.
LEMMA GoogleOfKind ==
  ASSUME NEW s \in VoiceSettings, NEW caps \in Descriptions(s), NEW wish, CommandMeant(wish)
  PROVE  OfKind(s, ExecuteCommandToDPS(wish, caps))
<1>. DEFINE kind == GoogleTarget(wish)
<1>1. /\ kind = "color" => wish.value[2] \in Spectrum
      /\ kind = "color_temp" => wish.value[2] \in Int
      /\ kind \in DOMAIN Values \ {"color", "color_temp"} => wish.value \in Values[kind]
  BY DEF CommandMeant
<1>. HIDE DEF kind
<1>2. CASE kind = "color"
  <2>. DEFINE n == wish.value[2]
              rgb == <<n \div 65536, (n \div 256) % 256, n % 256>>
  <2>1. ExecuteCommandToDPS(wish, caps) = Set(kind, caps, rgb)
    BY <1>2 DEF ExecuteCommandToDPS, kind
  <2>2. n \in Spectrum
    BY <1>1, <1>2
  <2>. HIDE DEF n
  <2>3. n \div 65536 \in Channels /\ (n \div 256) % 256 \in Channels /\ n % 256 \in Channels
    BY <2>2 DEF Spectrum, Channels
  <2>4. rgb \in Values["color"]
    BY <2>3 DEF Values
  <2>. HIDE DEF rgb
  <2>5. rgb \in Values[kind]
    BY <1>2, <2>4
  <2>. QED
    BY <2>1, <2>5, SetOfKind
<1>3. CASE kind = "color_temp"
  <2>1. ExecuteCommandToDPS(wish, caps) = Set(kind, caps, KelvinToColorTemp(wish.value[2]))
    BY <1>3 DEF ExecuteCommandToDPS, kind
  <2>2. KelvinToColorTemp(wish.value[2]) \in Values[kind]
    BY <1>1, <1>3, KelvinTyped DEF Values
  <2>. QED
    BY <2>1, <2>2, SetOfKind
<1>4. CASE kind \notin {"color", "color_temp"}
  <2>1. ExecuteCommandToDPS(wish, caps) = Set(kind, caps, wish.value)
    BY <1>4 DEF ExecuteCommandToDPS, kind
  <2>2. kind \in DOMAIN Values => wish.value \in Values[kind]
    BY <1>1, <1>4
  <2>. QED
    BY <2>1, <2>2, SetOfKind
<1>. QED
  BY <1>2, <1>3, <1>4

\* So is what a wish sets, whoever's it is.
LEMMA WishOfKind ==
  ASSUME NEW s \in VoiceSettings, NEW caps \in Descriptions(s), NEW a \in Assistants,
         NEW wish, Meant(a, wish)
  PROVE  OfKind(s, Translate(a, wish, caps))
  BY AlexaOfKind, GoogleOfKind DEF Assistants, Translate, Meant

\* The capabilities resolved are of the descriptions.
LEMMA CapsAre ==
  ASSUME RowsTyped, NEW pid \in {house.pid, house.appPid}, NEW fails
  PROVE  CapsOf(pid, fails) \in Descriptions(house)
<1>. DEFINE R == Released(pid)
<1>1. Newest(R) \subseteq house.arts
  <2>1. DOMAIN Nothing = {}
    BY DEF Nothing
  <2>. QED
    BY <2>1 DEF Newest, RowsTyped, Released
<1>2. CapsOf(pid, fails) = ResolveCapabilities(pid, R, ~ fails)
  BY DEF CapsOf
<1>. HIDE DEF R
<1>3. CASE ~ fails /\ Newest(R) # {}
  <2>1. (CHOOSE art \in Newest(R) : TRUE) \in house.arts
    BY <1>1, <1>3
  <2>. QED
    BY <1>2, <1>3, <2>1 DEF ResolveCapabilities, Descriptions
<1>4. CASE ~ (~ fails /\ Newest(R) # {})
  BY <1>2, <1>4 DEF ResolveCapabilities, Descriptions
<1>. QED
  BY <1>3, <1>4

\* The devices hold, and are sent, values of their kinds.
DevicesOfKind ==
  \A d \in house.devices :
    /\ OfKind(house, reported[d])
    /\ \A i \in DOMAIN queue[d] : OfKind(house, queue[d][i].dps)

\* The wishes of a list are meant.
AllMeant(a, ws) == \A i \in DOMAIN ws : Meant(a, ws[i])

\* A request at a device: what it wishes for, and what it is about to send.
ReqMeant(h) ==
  /\ req[h].pc \in AtDevice => AllMeant(req[h].by, req[h].wants)
  /\ req[h].pc = "send" => AllMeant(req[h].by, req[h].left) /\ req[h].caps \in Descriptions(house)

ValueInv == DevicesOfKind /\ \A h \in Requests : ReqMeant(h)

\* So it is at first.
LEMMA InitValue == VoiceInit => ValueInv
<1>. SUFFICES ASSUME VoiceInit
              PROVE  ValueInv
  OBVIOUS
<1>1. house \in VoiceSettings
  BY DEF VoiceInit
<1>2. OfKind(house, house.start)
  BY <1>1, ValueAssumptions DEF ValueAssumptions
<1>3. \A d \in house.devices : reported[d] = house.start /\ DOMAIN queue[d] = {}
  BY DEF VoiceInit
<1>4. DevicesOfKind
  BY <1>2, <1>3 DEF DevicesOfKind
<1>5. \A h \in Requests : ReqMeant(h)
  BY DEF VoiceInit, Idle, AtDevice, ReqMeant
<1>. QED
  BY <1>4, <1>5 DEF ValueInv

\* A step of one request's that leaves the devices as they are, or not.
LEMMA OneMeans ==
  ASSUME ValueInv, NEW h \in Requests, house' = house, DevicesOfKind',
         \A g \in Requests \ {h} : req'[g] = req[g], ReqMeant(h)'
  PROVE  ValueInv'
<1>1. \A g \in Requests \ {h} : ReqMeant(g)'
  BY DEF ValueInv, ReqMeant
<1>. QED
  BY <1>1 DEF ValueInv

\* A step of none's.
LEMMA NoneMeans ==
  ASSUME ValueInv, UNCHANGED <<house, req>>, DevicesOfKind'
  PROVE  ValueInv'
<1>1. \A g \in Requests : ReqMeant(g)'
  BY DEF ValueInv, ReqMeant
<1>. QED
  BY <1>1 DEF ValueInv

\* The devices stay as they are.
LEMMA SameDevices ==
  ASSUME ValueInv, UNCHANGED <<house, reported, queue>>
  PROVE  DevicesOfKind'
  BY DEF ValueInv, DevicesOfKind

\* A request goes on to its next device, or to its response.
LEMMA ProceedMeans ==
  ASSUME VoiceInv, ValueInv, NEW h \in Requests, req[h].pc \in AtDevice, NEW states,
         Proceed(h, states)
  PROVE  ReqMeant(h)' /\ \A g \in Requests \ {h} : req'[g] = req[g]
<1>1. ReqShaped /\ ReqInv(h) /\ ReqMeant(h)
  BY DEF VoiceInv, ValueInv
<1>2. /\ req'[h].pc = IF Len(req[h].devs) = 1 THEN "respond" ELSE "owner"
      /\ req'[h].by = req[h].by /\ req'[h].wants = req[h].wants
      /\ \A g \in Requests \ {h} : req'[g] = req[g]
  BY <1>1, Proceeded
<1>. QED
  BY <1>1, <1>2 DEF ReqMeant

\* A request goes on to its next step.
LEMMA AdvanceMeans ==
  ASSUME VoiceInv, ValueInv, NEW h \in Requests, NEW step, Advance(h, step),
         step = "done" \/ (req[h].pc \in AtDevice /\ step # "send")
  PROVE  ReqMeant(h)' /\ \A g \in Requests \ {h} : req'[g] = req[g]
<1>1. ReqShaped /\ ReqMeant(h)
  BY DEF VoiceInv, ValueInv
<1>2. /\ req'[h].pc = step
      /\ req'[h].by = req[h].by /\ req'[h].wants = req[h].wants
      /\ \A g \in Requests \ {h} : req'[g] = req[g]
  BY <1>1, Advanced
<1>. QED
  BY <1>1, <1>2 DEF ReqMeant, AtDevice

\* A request has sent, or passed over, the first of what is left.
LEMMA LeftMeans ==
  ASSUME VoiceInv, ValueInv, NEW h \in Requests, req[h].pc = "send", req[h].left # <<>>,
         req' = [req EXCEPT ![h].left = Tail(@)], house' = house
  PROVE  ReqMeant(h)' /\ \A g \in Requests \ {h} : req'[g] = req[g]
<1>1. ReqShaped /\ ReqInv(h) /\ ReqMeant(h)
  BY DEF VoiceInv, ValueInv
<1>2. /\ req'[h].pc = "send" /\ req'[h].by = req[h].by /\ req'[h].wants = req[h].wants
      /\ req'[h].caps = req[h].caps /\ req'[h].left = Tail(req[h].left)
      /\ \A g \in Requests \ {h} : req'[g] = req[g]
  BY <1>1 DEF ReqShaped, Idle
<1>3. IsList(req[h].left)
  BY <1>1 DEF ReqInv, WishList
<1>4. AllMeant(req[h].by, Tail(req[h].left))
  <2>1. AllMeant(req[h].by, req[h].left)
    BY <1>1 DEF ReqMeant
  <2>2. \A i \in DOMAIN Tail(req[h].left) :
          \E j \in DOMAIN req[h].left : Tail(req[h].left)[i] = req[h].left[j]
    <3>1. /\ DOMAIN req[h].left = 1..Len(req[h].left)
          /\ DOMAIN Tail(req[h].left) = 1..(Len(req[h].left) - 1)
          /\ Len(req[h].left) \in Nat \ {0}
          /\ \A i \in 1..(Len(req[h].left) - 1) : Tail(req[h].left)[i] = req[h].left[i + 1]
      BY <1>3, ListRest
    <3>2. \A i \in 1..(Len(req[h].left) - 1) : i + 1 \in 1..Len(req[h].left)
      BY <3>1
    <3>. QED
      BY <3>1, <3>2
  <2>. QED
    BY <2>1, <2>2 DEF AllMeant
<1>. QED
  BY <1>1, <1>2, <1>4 DEF ReqMeant, AtDevice

\* What is sent, in front of which there may be others, is of its kind.
LEMMA SendMeans ==
  ASSUME VoiceInv, ValueInv, AnswerInv, NEW h \in Requests, SendCommand(h)
  PROVE  ValueInv'
<1>. DEFINE d == Device(h)
            out == Translate(req[h].by, Head(req[h].left), req[h].caps)
<1>1. req[h].pc = "send" /\ req[h].left # <<>> /\ UNCHANGED <<house, reported>>
  BY DEF SendCommand
<1>2. \/ /\ queue' = [queue EXCEPT ![d] = Append(@, [of |-> h, dps |-> out])]
         /\ Proceed(h, Nothing) \/ req' = [req EXCEPT ![h].left = Tail(@)]
      \/ /\ Proceed(h, Nothing) \/ req' = [req EXCEPT ![h].left = Tail(@)]
         /\ queue' = queue
  BY DEF SendCommand, GiveUp
<1>3. ReqMeant(h)' /\ \A g \in Requests \ {h} : req'[g] = req[g]
  BY <1>1, <1>2, LeftMeans, ProceedMeans DEF AtDevice
<1>4. CASE queue' = queue
  BY <1>1, <1>3, <1>4, SameDevices, OneMeans
<1>5. CASE queue' = [queue EXCEPT ![d] = Append(@, [of |-> h, dps |-> out])]
  <2>1. OfKind(house, out)
    <3>1. ReqMeant(h) /\ ReqInv(h) /\ house \in VoiceSettings
      BY DEF VoiceInv, ValueInv, RowsTyped
    <3>2. req[h].caps \in Descriptions(house) /\ req[h].by \in Assistants
      BY <1>1, <3>1 DEF ReqMeant, ReqInv, AtDevice
    <3>3. Meant(req[h].by, Head(req[h].left))
      <4>1. IsList(req[h].left) /\ AllMeant(req[h].by, req[h].left)
        BY <1>1, <3>1 DEF ReqMeant, ReqInv, WishList
      <4>2. Head(req[h].left) = req[h].left[1] /\ 1 \in DOMAIN req[h].left
        BY <1>1, <4>1, ListRest
      <4>. QED
        BY <4>1, <4>2 DEF AllMeant
    <3>. QED
      BY <3>1, <3>2, <3>3, WishOfKind
  <2>. DEFINE e == [of |-> h, dps |-> out]
  <2>2. e.dps = out
    OBVIOUS
  <2>. HIDE DEF out, e
  <2>3. DOMAIN queue = house.devices /\ \A x \in house.devices : IsList(queue[x])
    BY DEF AnswerInv, WorldShaped
  <2>4. queue' = [queue EXCEPT ![d] = Append(@, e)]
    BY <1>5 DEF e
  <2>. HIDE DEF d
  <2>5. ASSUME NEW x \in house.devices, NEW i \in DOMAIN queue'[x]
        PROVE  OfKind(house, queue'[x][i].dps)
    <3>1. \A j \in DOMAIN queue[x] : OfKind(house, queue[x][j].dps)
      BY DEF ValueInv, DevicesOfKind
    <3>2. CASE x # d
      <4>1. queue'[x] = queue[x]
        BY <2>3, <2>4, <3>2
      <4>. QED
        BY <2>5, <3>1, <4>1
    <3>3. CASE x = d
      <4>1. queue'[x] = Append(queue[x], e)
        BY <2>3, <2>4, <3>3
      <4>2. /\ DOMAIN queue[x] = 1..Len(queue[x])
            /\ DOMAIN Append(queue[x], e) = 1..(Len(queue[x]) + 1) /\ Len(queue[x]) \in Nat
            /\ \A j \in 1..Len(queue[x]) : Append(queue[x], e)[j] = queue[x][j]
            /\ Append(queue[x], e)[Len(queue[x]) + 1] = e
        BY <2>3, ListMore
      <4>3. i \in 1..Len(queue[x]) \/ i = Len(queue[x]) + 1
        BY <2>5, <4>1, <4>2
      <4>. QED
        BY <2>1, <2>2, <3>1, <4>1, <4>2, <4>3
    <3>. QED
      BY <3>2, <3>3
  <2>6. DevicesOfKind'
    <3>1. \A x \in house.devices : OfKind(house, reported[x])
      BY DEF ValueInv, DevicesOfKind
    <3>. QED
      BY <1>1, <2>5, <3>1 DEF DevicesOfKind
  <2>. QED
    BY <1>1, <1>3, <2>6, OneMeans
<1>. QED
  BY <1>2, <1>4, <1>5

\* What the requests do.
LEMMA RequestMeans ==
  ASSUME VoiceInv, ValueInv, AnswerInv, NEW h \in Requests,
         \/ Ask(h) \/ OwnsDevice(h) \/ IsOnline(h) \/ Resolve(h) \/ Skip(h) \/ SendCommand(h)
         \/ Answer(h) \/ ReportState(h) \/ Respond(h)
  PROVE  ValueInv'
<1>0. ReqShaped /\ ReqMeant(h) /\ house \in VoiceSettings /\ RowsTyped
  BY DEF VoiceInv, ValueInv, RowsTyped
<1>. SUFFICES ASSUME ~ SendCommand(h)
              PROVE  ReqMeant(h)' /\ \A g \in Requests \ {h} : req'[g] = req[g]
  <2>1. ~ SendCommand(h) => UNCHANGED <<house, reported, queue>>
    BY DEF Ask, OwnsDevice, IsOnline, Resolve, Skip, Answer, ReportState, Respond, worldVars
  <2>. QED
    BY <2>1, SendMeans, SameDevices, OneMeans
<1>1. CASE Ask(h)
  <2>1. PICK plan \in house.plans :
          req' = [req EXCEPT ![h] = [Idle EXCEPT !.pc = "owner", !.by = plan.by,
                                                 !.wants = plan.wants, !.devs = plan.devs]]
    BY <1>1 DEF Ask
  <2>2. /\ req'[h].pc = "owner" /\ req'[h].by = plan.by /\ req'[h].wants = plan.wants
        /\ \A g \in Requests \ {h} : req'[g] = req[g]
    BY <1>0, <2>1 DEF ReqShaped, Idle
  <2>3. AllMeant(plan.by, plan.wants)
    BY <1>0, ValueAssumptions DEF ValueAssumptions, AllMeant
  <2>. QED
    BY <2>2, <2>3 DEF ReqMeant
<1>2. CASE OwnsDevice(h)
  <2>1. /\ req[h].pc \in AtDevice
        /\ Proceed(h, Nothing) \/ \E pid : req' = [req EXCEPT ![h].pc = "online", ![h].pid = pid]
    <3>1. CASE Proceed(h, Nothing)
      BY <1>2, <3>1 DEF OwnsDevice, AtDevice
    <3>2. CASE ~ Proceed(h, Nothing)
      BY <1>2, <3>2 DEF OwnsDevice, AtDevice
    <3>. QED
      BY <3>1, <3>2
  <2>2. ASSUME NEW pid, req' = [req EXCEPT ![h].pc = "online", ![h].pid = pid]
        PROVE  ReqMeant(h)' /\ \A g \in Requests \ {h} : req'[g] = req[g]
    <3>1. /\ req'[h].pc = "online" /\ req'[h].by = req[h].by /\ req'[h].wants = req[h].wants
          /\ \A g \in Requests \ {h} : req'[g] = req[g]
      BY <1>0, <2>2, Owned
    <3>. QED
      BY <1>0, <2>1, <3>1 DEF ReqMeant
  <2>. QED
    BY <2>1, <2>2, ProceedMeans
<1>3. CASE IsOnline(h)
  <2>1. req[h].pc \in AtDevice /\ (Advance(h, "report") \/ Advance(h, "resolve") \/ Proceed(h, Nothing))
    BY <1>3 DEF IsOnline, AtDevice
  <2>. QED
    BY <2>1, AdvanceMeans, ProceedMeans
<1>4. CASE Resolve(h)
  <2>1. /\ req[h].pc \in AtDevice /\ house' = house
        /\ req[h].pid \in {house.pid, house.appPid}
    BY <1>4 DEF Resolve, AtDevice, VoiceInv, ReqInv
  <2>2. PICK fails \in Failures :
          req' = [req EXCEPT ![h].pc = "send", ![h].caps = CapsOf(req[h].pid, fails),
                             ![h].left = req[h].wants]
    BY <1>4 DEF Resolve
  <2>3. /\ req'[h].pc = "send" /\ req'[h].by = req[h].by /\ req'[h].wants = req[h].wants
        /\ req'[h].caps = CapsOf(req[h].pid, fails) /\ req'[h].left = req[h].wants
        /\ \A g \in Requests \ {h} : req'[g] = req[g]
    BY <1>0, <2>2 DEF ReqShaped, Idle
  <2>4. req'[h].caps \in Descriptions(house')
    BY <1>0, <2>1, <2>3, CapsAre
  <2>. QED
    BY <1>0, <2>1, <2>3, <2>4 DEF ReqMeant
<1>5. CASE Skip(h)
  <2>1. /\ req[h].pc = "send" /\ req[h].left # <<>> /\ house' = house
        /\ Proceed(h, Nothing) \/ req' = [req EXCEPT ![h].left = Tail(@)]
    BY <1>5 DEF Skip, GiveUp
  <2>. QED
    BY <2>1, LeftMeans, ProceedMeans DEF AtDevice
<1>6. CASE Answer(h) \/ ReportState(h)
  <2>1. req[h].pc \in AtDevice /\ \E states : Proceed(h, states)
    BY <1>6 DEF Answer, ReportState, AtDevice
  <2>. QED
    BY <2>1, ProceedMeans
<1>7. CASE Respond(h)
  <2>1. Advance(h, "done")
    BY <1>7 DEF Respond
  <2>. QED
    BY <2>1, AdvanceMeans
<1>. QED
  BY <1>1, <1>2, <1>3, <1>4, <1>5, <1>6, <1>7

\* What the devices do, and what happens to them.
LEMMA DeviceMeans ==
  ASSUME VoiceInv, ValueInv, AnswerInv, NEW d \in house.devices, Apply(d) \/ Touch(d) \/ Lose(d)
  PROVE  ValueInv'
<1>0. /\ UNCHANGED <<house, req>> /\ house \in VoiceSettings
      /\ DOMAIN queue = house.devices /\ DOMAIN reported = house.devices
      /\ \A x \in house.devices : IsList(queue[x])
      /\ \A x \in house.devices :
           OfKind(house, reported[x]) /\ \A i \in DOMAIN queue[x] : OfKind(house, queue[x][i].dps)
  BY DEF Apply, Touch, Lose, VoiceInv, RowsTyped, AnswerInv, WorldShaped, ValueInv, DevicesOfKind
<1>1. ASSUME queue[d] # <<>>, queue' = [queue EXCEPT ![d] = Tail(@)]
      PROVE  \A x \in house.devices : \A i \in DOMAIN queue'[x] : OfKind(house, queue'[x][i].dps)
  <2>. SUFFICES ASSUME NEW x \in house.devices, NEW i \in DOMAIN queue'[x]
                PROVE  OfKind(house, queue'[x][i].dps)
    OBVIOUS
  <2>1. CASE x # d
    <3>1. queue'[x] = queue[x]
      BY <1>0, <1>1, <2>1
    <3>. QED
      BY <1>0, <3>1
  <2>2. CASE x = d
    <3>1. queue'[x] = Tail(queue[x])
      BY <1>0, <1>1, <2>2
    <3>2. /\ DOMAIN queue[x] = 1..Len(queue[x]) /\ DOMAIN Tail(queue[x]) = 1..(Len(queue[x]) - 1)
          /\ Len(queue[x]) \in Nat \ {0}
          /\ \A j \in 1..(Len(queue[x]) - 1) : Tail(queue[x])[j] = queue[x][j + 1]
      BY <1>0, <1>1, <2>2, ListRest
    <3>3. i \in 1..(Len(queue[x]) - 1) /\ i + 1 \in 1..Len(queue[x])
      BY <3>1, <3>2
    <3>. QED
      BY <1>0, <3>1, <3>2, <3>3
  <2>. QED
    BY <2>1, <2>2
<1>2. ASSUME NEW f, OfKind(house, f), reported' = [reported EXCEPT ![d] = Over(f, @)]
      PROVE  \A x \in house.devices : OfKind(house, reported'[x])
  BY <1>0, <1>2, OverOfKind
<1>3. CASE Apply(d)
  <2>1. /\ queue[d] # <<>> /\ queue' = [queue EXCEPT ![d] = Tail(@)]
        /\ reported' = [reported EXCEPT ![d] = Over(Head(queue[d]).dps, @)]
    BY <1>3 DEF Apply
  <2>2. Head(queue[d]) = queue[d][1] /\ 1 \in DOMAIN queue[d]
    BY <1>0, <2>1, ListRest
  <2>3. OfKind(house, Head(queue[d]).dps)
    BY <1>0, <2>2
  <2>4. DevicesOfKind'
    BY <1>0, <1>1, <1>2, <2>1, <2>3 DEF DevicesOfKind
  <2>. QED
    BY <1>0, <2>4, NoneMeans
<1>4. CASE Touch(d)
  <2>1. queue' = queue
    BY <1>4 DEF Touch
  <2>2. PICK x \in house.settable : reported' = [reported EXCEPT ![d] = Over([dp \in {x[1]} |-> x[2]], @)]
    BY <1>4 DEF Touch
  <2>3. OfKind(house, [dp \in {x[1]} |-> x[2]])
    BY <1>0, ValueAssumptions DEF ValueAssumptions
  <2>4. DevicesOfKind'
    BY <1>0, <1>2, <2>1, <2>2, <2>3 DEF DevicesOfKind
  <2>. QED
    BY <1>0, <2>4, NoneMeans
<1>5. CASE Lose(d)
  <2>1. queue[d] # <<>> /\ queue' = [queue EXCEPT ![d] = Tail(@)] /\ reported' = reported
    BY <1>5 DEF Lose
  <2>2. DevicesOfKind'
    BY <1>0, <1>1, <2>1 DEF DevicesOfKind
  <2>. QED
    BY <1>0, <2>2, NoneMeans
<1>. QED
  BY <1>3, <1>4, <1>5

\* Every step.
LEMMA NextValue == VoiceInv /\ AnswerInv /\ ValueInv /\ [VoiceNext]_voiceVars => ValueInv'
<1>. SUFFICES ASSUME VoiceInv, AnswerInv, ValueInv, [VoiceNext]_voiceVars
              PROVE  ValueInv'
  OBVIOUS
<1>1. CASE UNCHANGED <<house, reported, queue, req>>
  BY <1>1, SameDevices, NoneMeans
<1>2. ASSUME NEW h \in Requests,
             \/ Ask(h) \/ OwnsDevice(h) \/ IsOnline(h) \/ Resolve(h) \/ Skip(h) \/ SendCommand(h)
             \/ Answer(h) \/ ReportState(h) \/ Respond(h)
      PROVE  ValueInv'
  BY <1>2, RequestMeans
<1>3. ASSUME NEW d \in house.devices, Apply(d) \/ Touch(d) \/ Lose(d)
      PROVE  ValueInv'
  BY <1>3, DeviceMeans
<1>4. CASE UNCHANGED voiceVars
  BY <1>1, <1>4 DEF voiceVars, worldVars
<1>5. ASSUME NEW a \in Assistants, NEW d \in house.devices, Discover(a) \/ Push(a, d)
      PROVE  ValueInv'
  BY <1>1, <1>5 DEF Discover, Push, worldVars
<1>6. ASSUME NEW a \in Assistants, Discover(a)
      PROVE  ValueInv'
  BY <1>1, <1>6 DEF Discover, worldVars
<1>7. ASSUME NEW d \in house.devices, Power(d) \/ GiveAway(d)
      PROVE  ValueInv'
  BY <1>1, <1>7 DEF Power, GiveAway
<1>8. CASE Release \/ Retire
  BY <1>1, <1>8 DEF Release, Retire
<1>. QED
  BY <1>2, <1>3, <1>4, <1>5, <1>6, <1>7, <1>8 DEF VoiceNext

\* Where a product has one data point of a kind, kindDP finds that of every capability.
LEMMA OnlyDP ==
  ASSUME NEW caps, IsList(caps), Cardinality(Kinds(caps)) = Len(caps), NEW i \in DOMAIN caps
  PROVE  KindDP(caps[i].kind, caps) = {caps[i].dp}
<1>. DEFINE n == Len(caps)
            f == [j \in 1..n |-> caps[j].kind]
<1>1. DOMAIN caps = 1..n /\ n \in Nat
  BY DEF IsList
<1>. HIDE DEF n
<1>2. IsFiniteSet(1..n) /\ Cardinality(1..n) = n
  BY <1>1, FS_Interval
<1>3. f \in Surjection(1..n, Kinds(caps))
  <2>1. f \in [1..n -> Kinds(caps)]
    BY <1>1 DEF Kinds
  <2>2. \A k \in Kinds(caps) : \E j \in 1..n : f[j] = k
    BY <1>1 DEF Kinds
  <2>. HIDE DEF f
  <2>. QED
    BY <2>1, <2>2 DEF Surjection
<1>4. f \in Injection(1..n, Kinds(caps))
  <2>1. Cardinality(1..n) = Cardinality(Kinds(caps))
    BY <1>2 DEF n
  <2>. HIDE DEF f
  <2>. QED
    BY <1>2, <1>3, <2>1, FS_SurjSameCardinalityImpliesInj
<1>5. \A j \in DOMAIN caps : caps[j].kind = caps[i].kind => j = i
  <2>1. \A j \in 1..n : f[j] = f[i] => j = i
    <3>. HIDE DEF f
    <3>. QED
      BY <1>1, <1>4 DEF Injection, IsInjective
  <2>. QED
    BY <1>1, <2>1
<1>6. {j \in DOMAIN caps : caps[j].kind = caps[i].kind /\
         \A l \in DOMAIN caps : caps[l].kind = caps[i].kind => l <= j} = {i}
  <2>1. i \in Nat
    BY <1>1
  <2>. QED
    BY <1>5, <2>1
<1>. QED
  BY <1>6 DEF KindDP

\* Of the other kinds nothing is shown that could be wished for.
LEMMA NothingMore ==
  ASSUME NEW kind, kind \notin DOMAIN Values, NEW v
  PROVE  /\ \A p \in AlexaProperties(kind, v) : Again("alexa", p[1], p[2]) = {}
         /\ \A name \in DOMAIN GoogleField(kind, v) : Again("google", name, GoogleField(kind, v)[name]) = {}
<1>1. kind \notin {"power", "lock", "brightness", "fan_speed", "target_temp", "thermo_mode", "color", "color_temp"}
  BY DEF Values
<1>2. AlexaProperties(kind, v) = {}
  BY <1>1 DEF AlexaProperties
<1>6. \A x : /\ Again("google", "humidityAmbientPercent", x) = {}
             /\ Again("google", "temperatureAmbientCelsius", x) = {}
  BY DEF Again
<1>3. CASE kind = "humidity"
  <2>1. DOMAIN GoogleField(kind, v) = {"humidityAmbientPercent"}
    BY <1>3 DEF GoogleField, Field
  <2>. QED
    BY <1>2, <1>6, <2>1
<1>4. CASE kind = "temperature"
  <2>1. DOMAIN GoogleField(kind, v) = {"temperatureAmbientCelsius"}
    BY <1>4 DEF GoogleField, Field
  <2>. QED
    BY <1>2, <1>6, <2>1
<1>5. CASE kind \notin {"humidity", "temperature"}
  <2>1. GoogleField(kind, v) = Nothing /\ DOMAIN Nothing = {}
    BY <1>1, <1>5 DEF GoogleField, Nothing
  <2>. HIDE DEF Nothing
  <2>. QED
    BY <1>2, <2>1
<1>. QED
  BY <1>2, <1>3, <1>4, <1>5

\* What is set of a capability that the device has reported, to what it has reported.
LEMMA SetAgain ==
  ASSUME NEW caps, IsList(caps), Cardinality(Kinds(caps)) = Len(caps), NEW dps,
         NEW i \in Reported(caps, dps), NEW out,
         out = Set(caps[i].kind, caps, dps[caps[i].dp]), NEW dp \in DOMAIN out
  PROVE  dp \in DOMAIN dps /\ out[dp] = dps[dp]
<1>1. i \in DOMAIN caps /\ caps[i].dp \in DOMAIN dps
  BY DEF Reported
<1>2. KindDP(caps[i].kind, caps) = {caps[i].dp}
  BY <1>1, OnlyDP
<1>3. out = [x \in {caps[i].dp} |-> dps[caps[i].dp]]
  BY <1>2 DEF Set
<1>. QED
  BY <1>1, <1>3

\* A field of Google's state is one that a capability of what the device reported sets.
LEMMA FieldFrom ==
  ASSUME NEW caps, IsList(caps), NEW dps, NEW name \in DOMAIN DPSToState(caps, dps)
  PROVE  \E i \in Reported(caps, dps) :
           LET field == GoogleField(caps[i].kind, dps[caps[i].dp])
           IN  name \in DOMAIN field /\ DPSToState(caps, dps)[name] = field[name]
<1>. DEFINE field(i) == GoogleField(caps[i].kind, dps[caps[i].dp])
            changes == [i \in DOMAIN caps |-> IF i \in Reported(caps, dps) THEN field(i) ELSE Nothing]
            n == Len(caps)
<1>1. DOMAIN caps = 1..n /\ n \in Nat /\ DOMAIN Nothing = {}
  BY DEF IsList, Nothing
<1>2. DPSToState(caps, dps) = Merged(changes, Nothing)
  BY DEF DPSToState
<1>3. /\ DOMAIN changes = 1..n
      /\ \A i \in 1..n : i \in Reported(caps, dps) => changes[i] = field(i)
      /\ \A i \in 1..n : i \notin Reported(caps, dps) => changes[i] = Nothing
  BY <1>1
<1>. HIDE DEF changes, n, Nothing
<1>4. IsMerge(Merged(changes, Nothing), changes, Nothing)
  BY <1>1, <1>3, MergedIs
<1>5. name \in Names(changes)
  BY <1>1, <1>2, <1>4 DEF IsMerge
<1>6. PICK i : LastAt(changes, name, i)
  BY <1>1, <1>3, <1>5, HasLast
<1>7. i \in 1..n /\ name \in DOMAIN changes[i] /\ DPSToState(caps, dps)[name] = changes[i][name]
  BY <1>2, <1>3, <1>4, <1>6 DEF IsMerge, LastAt
<1>8. i \in Reported(caps, dps) /\ changes[i] = field(i)
  BY <1>1, <1>3, <1>7
<1>. QED
  BY <1>7, <1>8

\* What is shown of values of their kinds can be wished for.
LEMMA ShownFrom ==
  ASSUME RowsTyped, ValueInv
  PROVE  ShownIsSettable
<1>. SUFFICES ASSUME NEW d \in house.devices, Cardinality(Kinds(Caps)) = Len(Caps)
              PROVE  /\ \A p \in DPSToProperties(Caps, reported[d]) :
                          \A wish \in Again("alexa", p[1], p[2]) :
                            \A dp \in DOMAIN DirectiveToDPS(wish, Caps) :
                              /\ dp \in DOMAIN reported[d]
                              /\ DirectiveToDPS(wish, Caps)[dp] = reported[d][dp]
                     /\ \A name \in DOMAIN DPSToState(Caps, reported[d]) :
                          \A wish \in Again("google", name, DPSToState(Caps, reported[d])[name]) :
                            \A dp \in DOMAIN ExecuteCommandToDPS(wish, Caps) :
                              /\ dp \in DOMAIN reported[d]
                              /\ ExecuteCommandToDPS(wish, Caps)[dp] = reported[d][dp]
  BY DEF ShownIsSettable
<1>1. PICK caps : caps = Caps
  OBVIOUS
<1>2. PICK dps : dps = reported[d]
  OBVIOUS
<1>3. IsList(caps) /\ caps \in Descriptions(house) /\ Cardinality(Kinds(caps)) = Len(caps)
  BY <1>1, CapsDescribed, CapsAre DEF Described, Caps
<1>4. OfKind(house, dps)
  BY <1>2 DEF ValueInv, DevicesOfKind
<1>5. ASSUME NEW i \in Reported(caps, dps), caps[i].kind \in DOMAIN Values
      PROVE  dps[caps[i].dp] \in Values[caps[i].kind]
  BY <1>3, <1>4, <1>5 DEF OfKind, Reported
<1>6. ASSUME NEW p \in DPSToProperties(caps, dps), NEW wish \in Again("alexa", p[1], p[2]),
             NEW dp \in DOMAIN DirectiveToDPS(wish, caps)
      PROVE  dp \in DOMAIN dps /\ DirectiveToDPS(wish, caps)[dp] = dps[dp]
  <2>1. PICK i \in Reported(caps, dps) : p \in AlexaProperties(caps[i].kind, dps[caps[i].dp])
    BY DEF DPSToProperties
  <2>2. caps[i].kind \in DOMAIN Values
    BY <1>6, <2>1, NothingMore
  <2>3. DirectiveToDPS(wish, caps) = Set(caps[i].kind, caps, dps[caps[i].dp])
    BY <1>5, <2>1, <2>2, AlexaComesBack
  <2>. QED
    BY <1>3, <2>3, SetAgain
<1>7. ASSUME NEW name \in DOMAIN DPSToState(caps, dps),
             NEW wish \in Again("google", name, DPSToState(caps, dps)[name]),
             NEW dp \in DOMAIN ExecuteCommandToDPS(wish, caps)
      PROVE  dp \in DOMAIN dps /\ ExecuteCommandToDPS(wish, caps)[dp] = dps[dp]
  <2>1. PICK i \in Reported(caps, dps) :
          /\ name \in DOMAIN GoogleField(caps[i].kind, dps[caps[i].dp])
          /\ DPSToState(caps, dps)[name] = GoogleField(caps[i].kind, dps[caps[i].dp])[name]
    BY <1>3, FieldFrom
  <2>2. wish \in Again("google", name, GoogleField(caps[i].kind, dps[caps[i].dp])[name])
    BY <2>1
  <2>3. caps[i].kind \in DOMAIN Values
    BY <2>1, <2>2, NothingMore
  <2>4. ExecuteCommandToDPS(wish, caps) = Set(caps[i].kind, caps, dps[caps[i].dp])
    BY <1>5, <2>1, <2>2, <2>3, GoogleComesBack
  <2>. QED
    BY <1>3, <2>4, SetAgain
<1>. QED
  BY <1>1, <1>2, <1>6, <1>7

\* Wishing for what an assistant shows changes nothing, for every product that has one data
\* point of a kind: the devices hold values of their kinds (ValueInv), and of those the
\* mappers lose nothing (ColourComesBack, KelvinComesBack).
THEOREM ShownAreSettable == VoiceSpec => []ShownIsSettable
<1>1. VoiceInit => VoiceInv /\ AnswerInv /\ ValueInv
  BY InitVoice, InitAnswer, InitValue
<1>2. VoiceInv /\ AnswerInv /\ ValueInv /\ [VoiceNext]_voiceVars => (VoiceInv /\ AnswerInv /\ ValueInv)'
  BY NextVoice, NextAnswer, NextValue
<1>3. VoiceInv /\ ValueInv => ShownIsSettable
  BY ShownFrom DEF VoiceInv
<1>. QED
  BY <1>1, <1>2, <1>3, PTL DEF VoiceSpec

================================================================================
