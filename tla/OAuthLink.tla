-------------------------------- MODULE OAuthLink --------------------------------
(***************************************************************************)
(* Account linking: authorization codes, the token pairs they are          *)
(* exchanged for, the rotation and revocation of pairs, and the row that   *)
(* says that a user has linked a platform.  A link is a user at a client.  *)
(*                                                                         *)
(* No handler has a transaction: each selects a row, decides, and issues   *)
(* its UPDATEs one after the other without looking at their errors; only   *)
(* the INSERT of a pair is checked.  A code or a token past its time is    *)
(* refused without any change, so it is one that nobody presents any more; *)
(* so are a wrong client, secret or redirect URI.                          *)
(***************************************************************************)
EXTENDS Naturals, FiniteSets

CONSTANTS
  Workers,   \* goroutines serving requests
  Users,     \* of app_users
  Clients,   \* of oauth_clients, one per platform
  None,      \* no link
  MaxCodes,  \* bound on the authorization codes
  MaxPairs,  \* bound on the token pairs
  Settings   \* what goes on, see Setting

Links == Users \X Clients
Codes == 1..MaxCodes
Pairs == 1..MaxPairs
Jobs  == {"rotate", "revoke", "disconnect", "delete"}

\* jobs: requests that arrive besides authorizations and exchanges.
\* links: who authorizes whom.  codes, pairs: how many are drawn, at most.
\* faulty: statements may fail, answers may get lost, a server may die.
Setting == [jobs : SUBSET Jobs, links : SUBSET Links, codes : 0..MaxCodes,
            pairs : 0..MaxPairs, faulty : BOOLEAN]

ASSUME LinkAssumptions ==
  /\ None \notin Links
  /\ MaxCodes \in Nat /\ MaxPairs \in Nat
  /\ Settings \subseteq Setting

VARIABLES
  setting,
  users,     \* the rows of app_users
  issued,    \* the number of codes drawn
  codeOf,    \* oauth_auth_codes: whose each is, None where there is no row
  used,      \* used_at IS NOT NULL
  pairOf,    \* oauth_tokens, in the order they are inserted
  revoked,   \* revoked_at IS NOT NULL
  sent,      \* the pairs the client has been given
  linked,    \* linked_accounts with unlinked_at IS NULL
  pc,        \* the next statement of each goroutine
  link,      \* whom it serves
  code,      \* the code it was given, or 0
  pair,      \* the pair whose token it was given or that it has inserted, or 0
  drawn,     \* the number of pairs inserted (history)
  from,      \* the code each pair was exchanged for, or 0 (history)
  loose,     \* codes read twice before they were marked, or never marked (history)
  doubled,   \* links whose issues have overlapped or missed a revocation (history)
  broken,    \* links for which a request ended halfway since the last pair (history)
  given,     \* pairs revoked by request (history)
  ended,     \* links whose last pair was revoked by request with nothing under way (history)
  left       \* links disconnected by their platform since they were linked (history)

codeVars   == <<issued, codeOf, used>>
pairVars   == <<pairOf, revoked, sent>>
workerVars == <<pc, link, code, pair>>
history    == <<drawn, from, loose, doubled, broken, given, ended, left>>
vars == <<setting, users, codeVars, pairVars, linked, workerVars, history>>

Steps   == {"idle", "mark", "end", "revoke", "insert", "link", "unlink"}
Issuing == {"mark", "end", "revoke", "insert"}

TypeOK ==
  /\ setting \in Settings
  /\ users \subseteq Users
  /\ issued \in 0..MaxCodes
  /\ codeOf \in [Codes -> Links \cup {None}]
  /\ used \subseteq Codes
  /\ pairOf \in [Pairs -> Links \cup {None}]
  /\ revoked \subseteq Pairs /\ sent \subseteq Pairs
  /\ linked \subseteq Links
  /\ pc \in [Workers -> Steps]
  /\ link \in [Workers -> Links \cup {None}]
  /\ code \in [Workers -> 0..MaxCodes]
  /\ pair \in [Workers -> 0..MaxPairs]
  /\ drawn \in 0..MaxPairs
  /\ from \in [Pairs -> 0..MaxCodes]
  /\ loose \subseteq Codes
  /\ doubled \subseteq Links /\ broken \subseteq Links
  /\ given \subseteq Pairs
  /\ ended \subseteq Links /\ left \subseteq Links

Init ==
  /\ setting \in Settings
  /\ users = Users
  /\ issued = 0 /\ codeOf = [k \in Codes |-> None] /\ used = {}
  /\ pairOf = [p \in Pairs |-> None] /\ revoked = {} /\ sent = {}
  /\ linked = {}
  /\ pc = [w \in Workers |-> "idle"]
  /\ link = [w \in Workers |-> None]
  /\ code = [w \in Workers |-> 0]
  /\ pair = [w \in Workers |-> 0]
  /\ drawn = 0 /\ from = [p \in Pairs |-> 0]
  /\ loose = {} /\ doubled = {} /\ broken = {} /\ given = {} /\ ended = {} /\ left = {}

Live(l)      == {p \in Pairs : pairOf[p] = l /\ p \notin revoked}
At(l, steps) == {w \in Workers : pc[w] \in steps /\ link[w] = l}

Goto(w, step) ==
  /\ pc' = [pc EXCEPT ![w] = step]
  /\ UNCHANGED <<link, code, pair>>

Begin(w, step, l, k, p) ==
  /\ pc[w] = "idle"
  /\ pc' = [pc EXCEPT ![w] = step]
  /\ link' = [link EXCEPT ![w] = l]
  /\ code' = [code EXCEPT ![w] = k]
  /\ pair' = [pair EXCEPT ![w] = p]

Finish(w) ==
  /\ pc' = [pc EXCEPT ![w] = "idle"]
  /\ link' = [link EXCEPT ![w] = None]
  /\ code' = [code EXCEPT ![w] = 0]
  /\ pair' = [pair EXCEPT ![w] = 0]

\* The client goes away or the server dies between two statements.
Crash(w) ==
  /\ setting.faulty /\ pc[w] # "idle"
  /\ Finish(w)
  /\ broken' = broken \cup {link[w]}
  /\ UNCHANGED <<setting, users, codeVars, pairVars, linked, drawn, from, loose, doubled, given,
                 ended, left>>

-----------------------------------------------------------------------------
(* The authorization code.                                                 *)

\* CreateAuthCode: the foreign key wants a user.
CreateAuthCode(l) ==
  /\ l[1] \in users /\ issued < setting.codes
  /\ issued' = issued + 1
  /\ codeOf' = [codeOf EXCEPT ![issued + 1] = l]

\* The login form, or the cookie of a login that is not five minutes old, which is
\* believed without a look at the user.
Authorize(l) ==
  /\ l \in setting.links
  /\ CreateAuthCode(l)
  /\ UNCHANGED <<setting, users, used, pairVars, linked, workerVars, history>>

\* Fault: a code is good until it expires.
ExchangeAgain(w, k) ==
  /\ codeOf[k] # None
  /\ Begin(w, "mark", codeOf[k], k, 0)
  /\ loose' = loose \cup {k : v \in {v \in Workers : pc[v] = "mark" /\ code[v] = k}}
  /\ ended' = ended \ {codeOf[k]}
  /\ UNCHANGED <<setting, users, codeVars, pairVars, linked, drawn, from, doubled, broken, given,
                 left>>

\* ExchangeAuthCode reads the row and finds it unused.
ExchangeAuthCode(w, k) ==
  /\ codeOf[k] # None /\ k \notin used
  /\ Begin(w, "mark", codeOf[k], k, 0)
  /\ loose' = loose \cup {k : v \in {v \in Workers : pc[v] = "mark" /\ code[v] = k}}
  /\ ended' = ended \ {codeOf[k]}
  /\ UNCHANGED <<setting, users, codeVars, pairVars, linked, drawn, from, doubled, broken, given,
                 left>>

\* The error of this UPDATE is not looked at; nor does it ask whether used_at is set.
MarkCode(w) ==
  /\ pc[w] = "mark"
  /\ \/ used' = used \cup {code[w]} /\ UNCHANGED loose
     \/ setting.faulty /\ loose' = loose \cup {code[w]} /\ UNCHANGED used
  /\ Goto(w, "revoke")
  /\ UNCHANGED <<setting, users, issued, codeOf, pairVars, linked, drawn, from, doubled, broken,
                 given, ended, left>>

-----------------------------------------------------------------------------
(* Pairs.                                                                  *)

\* Fault: a revoked pair can be rotated.
RotateRevoked(w, p) ==
  /\ "rotate" \in setting.jobs
  /\ p \in sent /\ pairOf[p] # None
  /\ Begin(w, "end", pairOf[p], 0, p)
  /\ UNCHANGED <<setting, users, codeVars, pairVars, linked, history>>

\* RotateRefreshToken reads the row and finds it not revoked.
RotateRefreshToken(w, p) ==
  /\ "rotate" \in setting.jobs
  /\ p \in sent /\ pairOf[p] # None /\ p \notin revoked
  /\ Begin(w, "end", pairOf[p], 0, p)
  /\ UNCHANGED <<setting, users, codeVars, pairVars, linked, history>>

EndPair(w) ==
  /\ pc[w] = "end"
  /\ \/ revoked' = revoked \cup {pair[w]}
     \/ setting.faulty /\ UNCHANGED revoked
  /\ Goto(w, "revoke")
  /\ UNCHANGED <<setting, users, codeVars, pairOf, sent, linked, history>>

\* Fault: IssueTokenPair leaves the pairs that codes were exchanged for.
RevokeRotated(w) ==
  /\ pc[w] = "revoke"
  /\ revoked' = revoked \cup {p \in Live(link[w]) : from[p] = 0}
  /\ doubled' = IF At(link[w], {"insert"}) = {} THEN doubled \ {link[w]} ELSE doubled
  /\ Goto(w, "insert")
  /\ UNCHANGED <<setting, users, codeVars, pairOf, sent, linked, drawn, from, loose, broken, given,
                 ended, left>>

\* IssueTokenPair: the pairs of this user and client are revoked ...
RevokePairs(w) ==
  /\ pc[w] = "revoke"
  /\ \/ /\ revoked' = revoked \cup Live(link[w])
        /\ doubled' = IF At(link[w], {"insert"}) = {} THEN doubled \ {link[w]} ELSE doubled
     \/ setting.faulty /\ doubled' = doubled \cup {link[w]} /\ UNCHANGED revoked
  /\ Goto(w, "insert")
  /\ UNCHANGED <<setting, users, codeVars, pairOf, sent, linked, drawn, from, loose, broken, given,
                 ended, left>>

\* A rotation is answered with its pair, an exchange goes on with it.
Hand(w, p) ==
  IF code[w] = 0 THEN sent' = sent \cup {p} /\ Finish(w)
  ELSE /\ pc' = [pc EXCEPT ![w] = "link"]
       /\ pair' = [pair EXCEPT ![w] = p]
       /\ UNCHANGED <<link, code, sent>>

\* Fault: the new pair is inserted first and revoked with the others.
InsertRevoked(w) ==
  /\ pc[w] = "insert" /\ drawn < setting.pairs
  /\ link[w][1] \in users
  /\ drawn' = drawn + 1
  /\ pairOf' = [pairOf EXCEPT ![drawn + 1] = link[w]]
  /\ revoked' = revoked \cup {drawn + 1}
  /\ from' = [from EXCEPT ![drawn + 1] = code[w]]
  /\ doubled' = IF At(link[w], {"insert"}) = {w} THEN doubled ELSE doubled \cup {link[w]}
  /\ broken' = broken \ {link[w]}
  /\ Hand(w, drawn + 1)
  /\ UNCHANGED <<setting, users, codeVars, linked, loose, given, ended, left>>

\* ... and a new one is inserted, which the foreign key allows while there is a user.
InsertPair(w) ==
  /\ pc[w] = "insert" /\ drawn < setting.pairs
  /\ link[w][1] \in users
  /\ drawn' = drawn + 1
  /\ pairOf' = [pairOf EXCEPT ![drawn + 1] = link[w]]
  /\ from' = [from EXCEPT ![drawn + 1] = code[w]]
  /\ doubled' = IF At(link[w], {"insert"}) = {w} THEN doubled ELSE doubled \cup {link[w]}
  /\ \/ /\ broken' = broken \ {link[w]}
        /\ Hand(w, drawn + 1)
     \/ setting.faulty /\ broken' = broken \cup {link[w]} /\ Finish(w) /\ UNCHANGED sent
  /\ UNCHANGED <<setting, users, codeVars, revoked, linked, loose, given, ended, left>>

\* The INSERT fails: the code is used up and the pairs before it are revoked.
InsertFails(w) ==
  /\ pc[w] = "insert"
  /\ setting.faulty \/ link[w][1] \notin users
  /\ broken' = broken \cup {link[w]}
  /\ Finish(w)
  /\ UNCHANGED <<setting, users, codeVars, pairVars, linked, drawn, from, loose, doubled, given,
                 ended, left>>

\* UpsertLinkedAccount: linked, whatever was before.
Upsert(l, failing) ==
  \/ l[1] \in users /\ linked' = linked \cup {l}
  \/ (failing \/ l[1] \notin users) /\ UNCHANGED linked

\* The end of an exchange.
LinkAccount(w) ==
  /\ pc[w] = "link"
  /\ Upsert(link[w], setting.faulty)
  /\ sent' = sent \cup {pair[w]}
  /\ left' = left \ {link[w]}
  /\ Finish(w)
  /\ UNCHANGED <<setting, users, codeVars, pairOf, revoked, drawn, from, loose, doubled, broken,
                 given, ended>>

\* RevokeByToken: one statement on one row; the answer is OK in any case.
RevokeByToken(p) ==
  /\ "revoke" \in setting.jobs
  /\ p \in sent /\ pairOf[p] # None
  /\ revoked' = revoked \cup {p}
  /\ given' = given \cup {p}
  /\ ended' = IF Live(pairOf[p]) \subseteq {p} /\ At(pairOf[p], Steps) = {}
              THEN ended \cup {pairOf[p]} ELSE ended
  /\ UNCHANGED <<setting, users, codeVars, pairOf, sent, linked, workerVars, drawn, from, loose,
                 doubled, broken, left>>

-----------------------------------------------------------------------------
(* The end of a link.                                                      *)

\* DISCONNECT: LookupAccessToken finds the pair good ...
Disconnect(w, p) ==
  /\ "disconnect" \in setting.jobs
  /\ p \in sent /\ pairOf[p] # None /\ p \notin revoked
  /\ Begin(w, "unlink", pairOf[p], 0, p)
  /\ UNCHANGED <<setting, users, codeVars, pairVars, linked, history>>

\* ... and the linked account is upserted.
Unlink(w) ==
  /\ pc[w] = "unlink"
  /\ Upsert(link[w], setting.faulty)
  /\ left' = left \cup {link[w]}
  /\ Finish(w)
  /\ UNCHANGED <<setting, users, codeVars, pairVars, drawn, from, loose, doubled, broken, given,
                 ended>>

\* DeleteAccount deletes the user, ON DELETE CASCADE the rest.
DeleteUser(u) ==
  /\ "delete" \in setting.jobs /\ u \in users
  /\ users' = users \ {u}
  /\ codeOf' = [k \in Codes |-> IF codeOf[k] \in {u} \X Clients THEN None ELSE codeOf[k]]
  /\ pairOf' = [p \in Pairs |-> IF pairOf[p] \in {u} \X Clients THEN None ELSE pairOf[p]]
  /\ linked' = linked \ ({u} \X Clients)
  /\ UNCHANGED <<setting, issued, used, revoked, sent, workerVars, history>>

-----------------------------------------------------------------------------

Next ==
  \/ \E w \in Workers :
       \/ \E k \in Codes : ExchangeAuthCode(w, k)
       \/ \E p \in Pairs : RotateRefreshToken(w, p) \/ Disconnect(w, p)
       \/ MarkCode(w) \/ EndPair(w) \/ RevokePairs(w) \/ InsertPair(w) \/ InsertFails(w)
       \/ LinkAccount(w) \/ Unlink(w) \/ Crash(w)
  \/ \E l \in Links : Authorize(l)
  \/ \E p \in Pairs : RevokeByToken(p)
  \/ \E u \in Users : DeleteUser(u)

Spec == Init /\ [][Next]_vars

-----------------------------------------------------------------------------

\* A code is worth one pair of tokens, however often it is presented, unless two
\* exchanges read it before either marked it or the mark was never written.
CodeSpentOnce ==
  \A p, q \in Pairs : from[p] = from[q] /\ from[p] \notin loose \cup {0} => p = q

\* "So only one pair is active": no user and client have two live pairs unless two
\* issues for them overlapped or one could not revoke; the next issue mends it.
OneLivePair ==
  \A l \in Links : l \notin doubled => \A p, q \in Live(l) : p = q

\* Once nothing goes on for a link, the newest pair is in the client's hands and is
\* good, unless a request failed halfway or the client has revoked it: an exchange
\* or a rotation that overtakes another never leaves both without tokens.
LastPairWorks ==
  \A p \in Pairs :
    /\ pairOf[p] # None /\ p \notin given /\ pairOf[p] \notin broken
    /\ \A q \in Pairs : pairOf[q] = pairOf[p] => q <= p
    /\ At(pairOf[p], Steps \ {"unlink"}) = {}
    => p \in sent \ revoked

\* When the client has revoked its only pair with no request of the link under way,
\* the link has no live pair again before another code is exchanged.
RevokedEnds == \A l \in ended : Live(l) = {}

\* Nothing that a user has granted outlives the account, whatever was under way when
\* it was deleted (as it can in refresh_tokens, which have no foreign key).
DeletedIsGone ==
  /\ \A p \in Pairs : pairOf[p] # None => pairOf[p][1] \in users
  /\ \A k \in Codes : codeOf[k] # None => codeOf[k][1] \in users
  /\ \A l \in linked : l[1] \in users

\* A platform that has disconnected is linked no more, until it is linked again:
\* "action.devices.DISCONNECT: account unlinked" (SETU_CLOUD_API.md).
DisconnectUnlinks == linked \cap left = {}

================================================================================
