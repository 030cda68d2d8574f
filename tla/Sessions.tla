-------------------------------- MODULE Sessions --------------------------------
(***************************************************************************)
(* The sessions of one account: Login with its count of failures, Refresh  *)
(* with rotation and replay detection, Logout and DeleteAccount.  Each     *)
(* handler is a few statements on Postgres with nothing around them: it    *)
(* selects, decides, and updates whatever the row has become meanwhile.    *)
(*                                                                         *)
(* A token whose sixty days are over is refused without any change, so it  *)
(* is one that nobody presents any more.  Access tokens and the wording of *)
(* answers are not here; Accounts adds the registration.                   *)
(***************************************************************************)
EXTENDS Naturals, FiniteSets

CONSTANTS
  Workers,      \* goroutines serving requests
  Tokens,       \* refresh tokens; a family is named by its first one
  None,         \* no token
  MaxFailures,  \* wrong passwords that lock the account, 5 in the code
  MaxCodes,     \* bound on the deletion codes sent
  Settings      \* what goes on, see Setting

Jobs == {"login", "guess", "refresh", "logout", "delete", "register"}

\* jobs: requests that arrive, "guess" being a login with a wrong password and
\* "register" those of Accounts.  mails: the codes they get, at most.
\* faulty: statements may fail, their effect may be there all the same, and a
\* server may die.
Setting == [jobs : SUBSET Jobs, mails : Nat, faulty : BOOLEAN]

ASSUME SessionAssumptions ==
  /\ None \notin Tokens
  /\ MaxFailures \in Nat \ {0} /\ MaxCodes \in Nat
  /\ Settings \subseteq Setting

VARIABLES
  setting,
  account,  \* there is a row in app_users
  failed,   \* failed_login_attempts; beyond MaxFailures it makes no difference
  locked,   \* locked_until is in the future
  family,   \* refresh_tokens: the family of each row, None where there is none
  used,     \* used_at IS NOT NULL
  revoked,  \* revoked_at IS NOT NULL
  sent,     \* tokens given to the client
  issued,   \* deletion codes sent
  codes,    \* those not consumed
  pc,       \* the next statement of each goroutine
  tok,      \* the token it was given
  seen,     \* the failures it has read
  code,     \* the code it has checked
  parent,   \* the token each row replaces (history)
  loose,    \* tokens read twice before they were marked, or never marked (history)
  closed,   \* families ended while none of their refreshes was going on (history)
  wrong,    \* wrong passwords since the last right one (history)
  waited,   \* a lock has run out since the last wrong one (history)
  mixed     \* logins have overlapped or gone uncounted meanwhile (history)

lockVars    == <<failed, locked>>
tokenVars   == <<family, used, revoked, sent>>
codeVars    == <<issued, codes>>
workerVars  == <<pc, tok, seen, code>>
spentVars   == <<parent, loose>>
strikeVars  == <<wrong, waited, mixed>>
vars == <<setting, account, lockVars, tokenVars, codeVars, workerVars, spentVars, closed,
          strikeVars>>

Steps == {"idle", "count", "reset", "mint", "close", "use", "replace",
          "consume", "revoke", "delete"}
Rows  == {t \in Tokens : family[t] # None}

TypeOK ==
  /\ setting \in Settings
  /\ account \in BOOLEAN
  /\ failed \in 0..MaxFailures /\ locked \in BOOLEAN
  /\ family \in [Tokens -> Tokens \cup {None}]
  /\ used \subseteq Rows /\ revoked \subseteq Rows /\ sent \subseteq Rows
  /\ issued \in 0..MaxCodes /\ codes \subseteq 1..issued
  /\ pc \in [Workers -> Steps]
  /\ tok \in [Workers -> Tokens \cup {None}]
  /\ seen \in [Workers -> 0..MaxFailures]
  /\ code \in [Workers -> 0..MaxCodes]
  /\ parent \in [Tokens -> Tokens \cup {None}]
  /\ loose \subseteq Tokens /\ closed \subseteq Tokens
  /\ wrong \in 0..MaxFailures /\ waited \in BOOLEAN /\ mixed \in BOOLEAN

Init ==
  /\ setting \in Settings
  /\ account = ("register" \notin setting.jobs) /\ failed = 0 /\ locked = FALSE
  /\ family = [t \in Tokens |-> None]
  /\ used = {} /\ revoked = {} /\ sent = {}
  /\ issued = 0 /\ codes = {}
  /\ pc = [w \in Workers |-> "idle"]
  /\ tok = [w \in Workers |-> None]
  /\ seen = [w \in Workers |-> 0]
  /\ code = [w \in Workers |-> 0]
  /\ parent = [t \in Tokens |-> None]
  /\ loose = {} /\ closed = {}
  /\ wrong = 0 /\ waited = FALSE /\ mixed = FALSE

Capped(n) == IF n < MaxFailures THEN n ELSE MaxFailures

At(steps) == {w \in Workers : pc[w] \in steps}

Idle(w, job) == pc[w] = "idle" /\ job \in setting.jobs

\* Bound: a request that may store a token finds one left.
Room == Cardinality(Tokens \ Rows) > Cardinality(At({"reset", "mint", "use", "replace"}))

Goto(w, step) ==
  /\ pc' = [pc EXCEPT ![w] = step]
  /\ UNCHANGED <<tok, seen, code>>

Finish(w) ==
  /\ pc' = [pc EXCEPT ![w] = "idle"]
  /\ tok' = [tok EXCEPT ![w] = None]
  /\ seen' = [seen EXCEPT ![w] = 0]
  /\ code' = [code EXCEPT ![w] = 0]

\* The client goes away or the server dies between two statements.
Crash(w) ==
  /\ setting.faulty /\ pc[w] # "idle"
  /\ Finish(w)
  /\ mixed' = (mixed \/ pc[w] \in {"count", "reset"})
  /\ UNCHANGED <<setting, account, lockVars, tokenVars, codeVars, spentVars, closed, wrong,
                 waited>>

-----------------------------------------------------------------------------
(* Refresh tokens.                                                         *)

\* storeRefreshToken: a row for a new token in the family, in place of old.  The
\* client gets the token unless the statement reports an error.
StoreRefreshToken(w, t, fam, old) ==
  /\ t \in Tokens \ Rows
  /\ \/ /\ family' = [family EXCEPT ![t] = fam]
        /\ parent' = [parent EXCEPT ![t] = old]
        /\ \/ sent' = sent \cup {t}
           \/ setting.faulty /\ UNCHANGED sent
     \/ setting.faulty /\ UNCHANGED <<family, parent, sent>>
  /\ Finish(w)
  /\ UNCHANGED <<setting, account, lockVars, used, revoked, codeVars, loose, closed, strikeVars>>

\* No refresh of the family is past its SELECT.
Quiet(f) == \A w \in At({"use", "replace"}) : family[tok[w]] # f

\* UPDATE ... SET revoked_at, for the rows of these families.
Revoke(fams) ==
  /\ revoked' = revoked \cup {t \in Tokens : family[t] \in fams}
  /\ closed' = closed \cup {f \in fams : Quiet(f)}

\* Refresh reads the row of the token: revoked, it is refused; used, it is a
\* replay; otherwise it will be replaced.
Refresh(w, t) ==
  /\ Idle(w, "refresh") /\ t \in sent /\ t \notin revoked
  /\ \/ t \in used /\ pc' = [pc EXCEPT ![w] = "close"] /\ UNCHANGED loose
     \/ /\ t \notin used /\ Room
        /\ pc' = [pc EXCEPT ![w] = "use"]
        /\ loose' = loose \cup {t : v \in {v \in At({"use"}) : tok[v] = t}}
  /\ tok' = [tok EXCEPT ![w] = t]
  /\ UNCHANGED <<setting, account, lockVars, tokenVars, codeVars, seen, code, parent, closed,
                 strikeVars>>

CloseFamily(w) ==
  /\ pc[w] = "close"
  /\ \/ Revoke({family[tok[w]]})
     \/ setting.faulty /\ UNCHANGED <<revoked, closed>>
  /\ Finish(w)
  /\ UNCHANGED <<setting, account, lockVars, family, used, sent, codeVars, spentVars, strikeVars>>

\* Fault: the token is not marked.
MarkNot(w) ==
  /\ pc[w] = "use"
  /\ Goto(w, "replace")
  /\ UNCHANGED <<setting, account, lockVars, tokenVars, codeVars, spentVars, closed, strikeVars>>

\* The error of this UPDATE is not looked at.
MarkUsed(w) ==
  /\ pc[w] = "use"
  /\ \/ used' = used \cup {tok[w]} /\ UNCHANGED loose
     \/ setting.faulty /\ loose' = loose \cup {tok[w]} /\ UNCHANGED used
  /\ Goto(w, "replace")
  /\ UNCHANGED <<setting, account, lockVars, family, revoked, sent, codeVars, parent, closed,
                 strikeVars>>

Replace(w) ==
  /\ pc[w] = "replace"
  /\ \E t \in Tokens : StoreRefreshToken(w, t, family[tok[w]], tok[w])

\* Fault: only the presented token is revoked.
LogoutOne(t) ==
  /\ "logout" \in setting.jobs /\ t \in sent
  /\ t \notin used \cup revoked
  /\ revoked' = revoked \cup {t}
  /\ closed' = closed \cup {f \in {family[t]} : Quiet(f)}
  /\ UNCHANGED <<setting, account, lockVars, family, used, sent, codeVars, workerVars, spentVars,
                 strikeVars>>

\* One statement; it does nothing for a token that is used or revoked.
Logout(t) ==
  /\ "logout" \in setting.jobs /\ t \in sent
  /\ t \notin used \cup revoked
  /\ Revoke({family[t]})
  /\ UNCHANGED <<setting, account, lockVars, family, used, sent, codeVars, workerVars, spentVars,
                 strikeVars>>

-----------------------------------------------------------------------------
(* Login.                                                                  *)

\* It reads the row and compares the password.
Login(w) ==
  /\ account /\ ~ locked
  /\ \/ Idle(w, "login") /\ Room /\ pc' = [pc EXCEPT ![w] = "reset"]
     \/ Idle(w, "guess") /\ pc' = [pc EXCEPT ![w] = "count"]
  /\ seen' = [seen EXCEPT ![w] = failed]
  /\ mixed' = (mixed \/ At({"count", "reset"}) # {})
  /\ UNCHANGED <<setting, account, lockVars, tokenVars, codeVars, tok, code, spentVars, closed,
                 wrong, waited>>

\* Fault: the lock is set by the failure after the last allowed one.
CountFailureLate(w) ==
  /\ pc[w] = "count"
  /\ failed' = IF account THEN Capped(seen[w] + 1) ELSE failed
  /\ locked' = (locked \/ (account /\ seen[w] >= MaxFailures))
  /\ wrong' = Capped(wrong + 1)
  /\ waited' = FALSE
  /\ Finish(w)
  /\ UNCHANGED <<setting, account, tokenVars, codeVars, spentVars, closed, mixed>>

\* The count that was read, plus one, is written; the last one locks.
CountFailure(w) ==
  /\ pc[w] = "count"
  /\ \/ /\ failed' = IF account THEN Capped(seen[w] + 1) ELSE failed
        /\ locked' = (locked \/ (account /\ seen[w] + 1 >= MaxFailures))
        /\ UNCHANGED mixed
     \/ setting.faulty /\ mixed' = TRUE /\ UNCHANGED lockVars
  /\ wrong' = Capped(wrong + 1)
  /\ waited' = FALSE
  /\ Finish(w)
  /\ UNCHANGED <<setting, account, tokenVars, codeVars, spentVars, closed>>

\* The right password clears count and lock.
ResetFailures(w) ==
  /\ pc[w] = "reset"
  /\ \/ /\ failed' = IF account THEN 0 ELSE failed
        /\ locked' = (locked /\ ~ account)
        /\ mixed' = (At({"count", "reset"}) # {w})
     \/ setting.faulty /\ mixed' = TRUE /\ UNCHANGED lockVars
  /\ wrong' = 0
  /\ waited' = FALSE
  /\ Goto(w, "mint")
  /\ UNCHANGED <<setting, account, tokenVars, codeVars, spentVars, closed>>

\* mintSession: the first token of a new family.
MintSession(w) ==
  /\ pc[w] = "mint"
  /\ \E t \in Tokens : StoreRefreshToken(w, t, t, None)

\* The five minutes are over.
Unlock ==
  /\ locked
  /\ locked' = FALSE
  /\ waited' = TRUE
  /\ UNCHANGED <<setting, account, failed, tokenVars, codeVars, workerVars, spentVars, closed,
                 wrong, mixed>>

-----------------------------------------------------------------------------
(* Deleting the account.                                                   *)

\* A code is stored unless one was in the last half minute.
RequestDeleteOTP ==
  /\ "delete" \in setting.jobs /\ account /\ issued < MaxCodes
  /\ issued' = issued + 1
  /\ codes' = codes \cup {issued + 1}
  /\ UNCHANGED <<setting, account, lockVars, tokenVars, workerVars, spentVars, closed,
                 strikeVars>>

\* The newest code not consumed is the right one.
DeleteAccount(w) ==
  /\ Idle(w, "delete") /\ account
  /\ \E c \in codes : (\A d \in codes : d <= c) /\ code' = [code EXCEPT ![w] = c]
  /\ pc' = [pc EXCEPT ![w] = "consume"]
  /\ UNCHANGED <<setting, account, lockVars, tokenVars, codeVars, tok, seen, spentVars, closed,
                 strikeVars>>

Consume(w) ==
  /\ pc[w] = "consume"
  /\ \/ codes' = codes \ {code[w]}
     \/ setting.faulty /\ UNCHANGED codes
  /\ Goto(w, "revoke")
  /\ UNCHANGED <<setting, account, lockVars, tokenVars, issued, spentVars, closed, strikeVars>>

\* The error of this UPDATE is not looked at either.
RevokeAll(w) ==
  /\ pc[w] = "revoke"
  /\ \/ Revoke({family[t] : t \in Rows})
     \/ setting.faulty /\ UNCHANGED <<revoked, closed>>
  /\ Goto(w, "delete")
  /\ UNCHANGED <<setting, account, lockVars, family, used, sent, codeVars, spentVars, strikeVars>>

\* No foreign key leads from refresh_tokens to app_users.
DeleteRow(w) ==
  /\ pc[w] = "delete"
  /\ \/ account' = FALSE
     \/ setting.faulty /\ UNCHANGED account
  /\ Finish(w)
  /\ UNCHANGED <<setting, lockVars, tokenVars, codeVars, spentVars, closed, strikeVars>>

-----------------------------------------------------------------------------

Next ==
  \/ \E w \in Workers :
       \/ \E t \in Tokens : Refresh(w, t)
       \/ CloseFamily(w) \/ MarkUsed(w) \/ Replace(w)
       \/ Login(w) \/ CountFailure(w) \/ ResetFailures(w) \/ MintSession(w)
       \/ DeleteAccount(w) \/ Consume(w) \/ RevokeAll(w) \/ DeleteRow(w)
       \/ Crash(w)
  \/ \E t \in Tokens : Logout(t)
  \/ Unlock \/ RequestDeleteOTP

Spec == Init /\ [][Next]_vars

-----------------------------------------------------------------------------

\* A session that was ended by a logout, a replayed token or the deletion of the
\* account has no token that is good for anything, then or later, unless one of
\* its refreshes was under way: Logout revokes the family "so no further rotations
\* can occur".
ClosedIsClosed == \A t \in Tokens : family[t] \in closed => t \in revoked

\* A refresh token is replaced at most once, however often it is presented, unless
\* two requests read it before either marked it or the mark was never written.
SpentOnce ==
  \A t, u \in Tokens :
    parent[t] = parent[u] /\ parent[t] \notin loose \cup {None} => t = u

\* The last allowed wrong password locks the account, and each one after the lock
\* has run out locks it again, as long as logins came one at a time.
StrikesLock ==
  /\ account /\ ~ mixed /\ At({"count", "reset"}) = {}
  /\ wrong = MaxFailures /\ ~ waited
  => locked

================================================================================
