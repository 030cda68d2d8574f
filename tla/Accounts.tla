-------------------------------- MODULE Accounts --------------------------------
(***************************************************************************)
(* Registration, and the sessions of the account that comes of it: codes   *)
(* sent to an address, their verification, the verification tokens that    *)
(* are given for them, and Register, which ends in Sessions' MintSession.  *)
(*                                                                         *)
(* As in Sessions every handler is a few statements with nothing around    *)
(* them.  A code or a verification token past its time is refused without  *)
(* any change, and a code's older ones are past theirs before it: it is    *)
(* one that nobody presents any more.                                      *)
(***************************************************************************)
EXTENDS Sessions

CONSTANTS
  Visitors,     \* goroutines serving the requests of someone without an account
  MaxAttempts,  \* verifications of a code, 5 in the code
  MaxMails,     \* bound on the codes sent
  MaxProofs     \* bound on the verification tokens

Mails  == 1..MaxMails
Proofs == 1..MaxProofs

\* An address that is registered again is another account.
ASSUME AccountAssumptions ==
  /\ IsFiniteSet(Visitors)
  /\ MaxAttempts \in Nat \ {0} /\ MaxMails \in Nat /\ MaxProofs \in Nat
  /\ \A s \in Settings : s.mails <= MaxMails /\ ~ {"register", "delete"} \subseteq s.jobs

VARIABLES
  mailed,    \* otp_codes: how many there are
  attempts,  \* of each
  consumed,  \* consumed_at IS NOT NULL
  proofs,    \* verification_tokens: how many there are
  spent,     \* consumed_at IS NOT NULL
  visit,     \* each visitor: see Outside
  tried,     \* answers compared with each code, up to where it makes a difference (history)
  uncounted  \* codes whose count was not written (history)

otpVars      == <<mailed, attempts, consumed>>
proofVars    == <<proofs, spent>>
registerVars == <<otpVars, proofVars, visit, tried, uncounted>>
accountVars  == <<vars, registerVars>>

\* at: the next statement.  mail: the code it is about, right: whether it was answered
\* rightly.  proof: the verification token it is about.
Outside == [at |-> "idle", mail |-> 0, right |-> FALSE, proof |-> 0]

Places == {"idle", "store", "count", "consume", "prove", "spend", "look", "create"}

AccountTypeOK ==
  /\ TypeOK
  /\ mailed \in 0..MaxMails
  /\ attempts \in [Mails -> Nat] /\ consumed \subseteq Mails
  /\ proofs \in 0..MaxProofs /\ spent \subseteq Proofs
  /\ visit \in [Visitors -> [at : Places, mail : 0..MaxMails, right : BOOLEAN, proof : 0..MaxProofs]]
  /\ tried \in [Mails -> Nat] /\ uncounted \subseteq Mails

AccountInit ==
  /\ Init
  /\ mailed = 0 /\ attempts = [c \in Mails |-> 0] /\ consumed = {}
  /\ proofs = 0 /\ spent = {}
  /\ visit = [v \in Visitors |-> Outside]
  /\ tried = [c \in Mails |-> 0] /\ uncounted = {}

\* As many answers as may be compared at all, and one more.
Limit == MaxAttempts + Cardinality(Visitors) - 1

Onward(v, r) == visit' = [visit EXCEPT ![v] = r]

Enter(v, r) == visit[v].at = "idle" /\ "register" \in setting.jobs /\ Onward(v, r)

Leave(v) == Onward(v, Outside)

-----------------------------------------------------------------------------
(* The code.                                                               *)

\* RequestOTP: the address is not registered, and had no code in the last half minute ...
RequestOTP(v) ==
  /\ ~ account /\ mailed < setting.mails
  /\ Enter(v, [Outside EXCEPT !.at = "store"])
  /\ UNCHANGED <<vars, otpVars, proofVars, tried, uncounted>>

\* ... and one is stored, if the INSERT succeeds; it is sent in any case.
StoreCode(v) ==
  /\ visit[v].at = "store"
  /\ \/ mailed < setting.mails /\ mailed' = mailed + 1
     \/ (setting.faulty \/ mailed = setting.mails) /\ UNCHANGED mailed
  /\ Leave(v)
  /\ UNCHANGED <<vars, attempts, consumed, proofVars, tried, uncounted>>

\* Fault: one attempt too many.
VerifyOneMore(v) ==
  /\ \E c \in 1..mailed \ consumed, right \in BOOLEAN :
       /\ \A d \in 1..mailed \ consumed : d <= c
       /\ attempts[c] <= MaxAttempts
       /\ Enter(v, [Outside EXCEPT !.at = "count", !.mail = c, !.right = right])
  /\ UNCHANGED <<vars, otpVars, proofVars, tried, uncounted>>

\* VerifyOTP reads the newest code that is not consumed, and has attempts left.
VerifyOTP(v) ==
  /\ \E c \in 1..mailed \ consumed, right \in BOOLEAN :
       /\ \A d \in 1..mailed \ consumed : d <= c
       /\ attempts[c] < MaxAttempts
       /\ Enter(v, [Outside EXCEPT !.at = "count", !.mail = c, !.right = right])
  /\ UNCHANGED <<vars, otpVars, proofVars, tried, uncounted>>

\* attempts=attempts+1, and then the comparison; the error is not looked at.
CountAttempt(v) ==
  /\ visit[v].at = "count"
  /\ LET c == visit[v].mail
     IN  /\ \/ attempts' = [attempts EXCEPT ![c] = @ + 1] /\ UNCHANGED uncounted
            \/ setting.faulty /\ uncounted' = uncounted \cup {c} /\ UNCHANGED attempts
         /\ tried' = [tried EXCEPT ![c] = IF @ > Limit THEN @ ELSE @ + 1]
         /\ IF visit[v].right THEN Onward(v, [Outside EXCEPT !.at = "consume", !.mail = c])
            ELSE Leave(v)
  /\ UNCHANGED <<vars, mailed, consumed, proofVars>>

\* Nor is this one's, which does not ask whether consumed_at is set.
ConsumeCode(v) ==
  /\ visit[v].at = "consume"
  /\ \/ consumed' = consumed \cup {visit[v].mail}
     \/ setting.faulty /\ UNCHANGED consumed
  /\ Onward(v, [Outside EXCEPT !.at = "prove"])
  /\ UNCHANGED <<vars, mailed, attempts, proofVars, tried, uncounted>>

\* The verification token.  If the INSERT fails, the code is gone.
Prove(v) ==
  /\ visit[v].at = "prove"
  /\ \/ proofs < MaxProofs /\ proofs' = proofs + 1
     \/ setting.faulty /\ UNCHANGED proofs
  /\ Leave(v)
  /\ UNCHANGED <<vars, otpVars, spent, tried, uncounted>>

-----------------------------------------------------------------------------
(* The account.                                                            *)

\* Register reads the verification token and finds it not consumed.
Register(v) ==
  /\ \E p \in 1..proofs \ spent : Enter(v, [Outside EXCEPT !.at = "spend", !.proof = p])
  /\ UNCHANGED <<vars, otpVars, proofVars, tried, uncounted>>

\* Consumed, whatever becomes of the registration, and whoever has consumed it already.
SpendProof(v) ==
  /\ visit[v].at = "spend"
  /\ \/ spent' = spent \cup {visit[v].proof}
     \/ setting.faulty /\ UNCHANGED spent
  /\ Onward(v, [Outside EXCEPT !.at = "look"])
  /\ UNCHANGED <<vars, otpVars, proofs, tried, uncounted>>

\* Is the address registered?  If not, the password is hashed.
LookForAccount(v) ==
  /\ visit[v].at = "look"
  /\ IF account THEN Leave(v) ELSE Onward(v, [Outside EXCEPT !.at = "create"])
  /\ UNCHANGED <<vars, otpVars, proofVars, tried, uncounted>>

\* The INSERT, which fails if there is an account by now.  The goroutine goes on as one
\* of Sessions' workers.
CreateAccount(v) ==
  /\ visit[v].at = "create"
  /\ \/ \E w \in Workers :
          /\ ~ account /\ pc[w] = "idle" /\ Room
          /\ account' = TRUE
          /\ Goto(w, "mint")
     \/ (account \/ setting.faulty) /\ UNCHANGED <<account, workerVars>>
  /\ Leave(v)
  /\ UNCHANGED <<setting, lockVars, tokenVars, codeVars, spentVars, closed, strikeVars,
                 otpVars, proofVars, tried, uncounted>>

\* The client goes away or the server dies between two statements.
GoAway(v) ==
  /\ setting.faulty /\ visit[v].at # "idle"
  /\ Leave(v)
  /\ UNCHANGED <<vars, otpVars, proofVars, tried, uncounted>>

-----------------------------------------------------------------------------

AccountNext ==
  \/ Next /\ UNCHANGED registerVars
  \/ \E v \in Visitors :
       \/ RequestOTP(v) \/ StoreCode(v)
       \/ VerifyOTP(v) \/ CountAttempt(v) \/ ConsumeCode(v) \/ Prove(v)
       \/ Register(v) \/ SpendProof(v) \/ LookForAccount(v) \/ CreateAccount(v)
       \/ GoAway(v)

AccountSpec == AccountInit /\ [][AccountNext]_accountVars

-----------------------------------------------------------------------------

\* However many requests verify a code at a time, it is compared with no more answers than
\* its attempts, and one for each other request that had read the count before it was up:
\* attempts are added in the database, before the comparison.
GuessesLimited == \A c \in Mails \ uncounted : tried[c] <= Limit

================================================================================
