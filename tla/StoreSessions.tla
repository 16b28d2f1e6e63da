--------------------------- MODULE StoreSessions ---------------------------
(* Wallet sessions of the Store (store/sessions): a challenge is issued to *)
(* an address, signed once, and becomes a session anchored to that address *)
(* and to an account; an account may hold several addresses and revoke     *)
(* them. Requests interleave between their store calls.                    *)
EXTENDS Integers, FiniteSets

CONSTANTS
  Addresses, Requesters,
  Nonces, SessionIds, Accounts,   \* sets of numbers: random ids are taken in order
  NoAccount,
  Logins,               \* verify requests in flight
  MaxPerAddress, MaxPerRequester, ChallengeTtl, SessionTtl, MaxSessionTime

VARIABLES
  sessionTime,
  challenges,    \* nonce -> challenge record
  sessions,      \* session id -> session record
  anchors,       \* address -> its row of store_account_address
  verifies,      \* verify request -> where it is
  refresh,       \* the session record a resolve read and will write back
  severed        \* sessions whose address was revoked while they existed

sessionVars == << sessionTime, challenges, sessions, anchors, verifies, refresh, severed >>

None == [ status |-> "none" ]

Unused(table, i) == table[i] = None /\ \A j \in DOMAIN table : table[j] = None => i <= j

Init ==
  /\ sessionTime = 0
  /\ challenges = [ n \in Nonces |-> None ]
  /\ sessions = [ s \in SessionIds |-> None ]
  /\ anchors = [ a \in Addresses |-> None ]
  /\ verifies = [ q \in Logins |-> [ at |-> "idle" ] ]
  /\ refresh = None
  /\ severed = {}

-----------------------------------------------------------------------------
findActiveAccountAddress(a) ==
  IF anchors[a].status = "active" THEN anchors[a].account ELSE NoAccount

(* Fault: any account's active anchor keeps the session alive.             *)
AnchoredSomewhere(s) == findActiveAccountAddress(sessions[s].address) # NoAccount

AnchoredToAccount(s) == findActiveAccountAddress(sessions[s].address) = sessions[s].account

(* resolveSessionFromToken answers with the session.                       *)
Resolves(s) ==
  /\ sessions[s].status = "open"
  /\ sessions[s].expires >= sessionTime
  /\ AnchoredToAccount(s)

Live(n) == challenges[n].status = "issued" /\ challenges[n].expires >= sessionTime

(* The count and the insert are one store operation.                       *)
putChallengeWithinAddressQuota(a, r) ==
  /\ Cardinality({ n \in Nonces : Live(n) /\ challenges[n].address = a }) < MaxPerAddress
  /\ Cardinality({ n \in Nonces : Live(n) /\ challenges[n].requester = r }) < MaxPerRequester

deleteExpiredChallenges ==
  [ n \in Nonces |-> IF challenges[n].status # "none" /\ challenges[n].expires < sessionTime
                       THEN [ challenges[n] EXCEPT !.status = "deleted" ] ELSE challenges[n] ]

(* A login, or the wish of a session's account to hold one more address.   *)
CreateChallenge(n, a, r, account) ==
  /\ Unused(challenges, n)
  /\ account # NoAccount => \E s \in SessionIds : Resolves(s) /\ sessions[s].account = account
  /\ putChallengeWithinAddressQuota(a, r)
  /\ challenges' = [ deleteExpiredChallenges EXCEPT ![n] =
       [ status |-> "issued", address |-> a, requester |-> r, account |-> account,
         expires |-> sessionTime + ChallengeTtl ] ]
  /\ UNCHANGED << sessionTime, sessions, anchors, verifies, refresh, severed >>

-----------------------------------------------------------------------------
(* verify: read the challenge, consume it, check the signature and the     *)
(* account, store the session, anchor the address.                         *)
VerifyReads(q, n) ==
  /\ verifies[q].at = "idle"
  /\ challenges[n].status = "issued" /\ challenges[n].expires >= sessionTime
  /\ verifies' = [ verifies EXCEPT ![q] = [ at |-> "read", nonce |-> n ] ]
  /\ UNCHANGED << sessionTime, challenges, sessions, anchors, refresh, severed >>

consumeChallenge(n) == challenges[n].status = "issued"

(* An anchoring is completed by a session of the account that asked.       *)
CallerOfAccount(account, caller) == account # NoAccount => caller = account

(* The caller's session, if any, and whether the owner of the address      *)
(* signed are the request's.                                               *)
VerifyChecks(q, caller, signed) ==
  /\ verifies[q].at = "read"
  /\ caller # NoAccount => \E s \in SessionIds : Resolves(s) /\ sessions[s].account = caller
  /\ LET n        == verifies[q].nonce
         c        == challenges[n]
         existing == findActiveAccountAddress(c.address)
         free     == Accounts \ ({ sessions[s].account : s \in { x \in SessionIds : sessions[x] # None } }
                                 \cup { verifies[x].account : x \in { y \in Logins : verifies[y].at \in { "store", "anchor" } } })
         fresh    == { x \in free : \A y \in free : x <= y }
     IN /\ challenges' = IF consumeChallenge(n) THEN [ challenges EXCEPT ![n].status = "consumed" ] ELSE challenges
        /\ IF /\ consumeChallenge(n) /\ signed
              /\ CallerOfAccount(c.account, caller)
              /\ (c.account # NoAccount /\ existing # NoAccount) => existing = c.account
           THEN \E account \in IF c.account # NoAccount THEN { c.account }
                               ELSE IF existing # NoAccount THEN { existing } ELSE fresh :
                  verifies' = [ verifies EXCEPT ![q] =
                    [ at |-> "store", nonce |-> n, address |-> c.address, account |-> account,
                      asked |-> c.account, caller |-> caller, known |-> existing # NoAccount ] ]
           ELSE verifies' = [ verifies EXCEPT ![q] = [ at |-> "idle" ] ]
  /\ UNCHANGED << sessionTime, sessions, anchors, refresh, severed >>

VerifyStores(q, s) ==
  /\ verifies[q].at = "store"
  /\ Unused(sessions, s)
  /\ sessions' = [ sessions EXCEPT ![s] =
       [ status |-> "open", address |-> verifies[q].address, account |-> verifies[q].account,
         nonce |-> verifies[q].nonce, expires |-> sessionTime + SessionTtl ] ]
  /\ verifies' = [ verifies EXCEPT ![q] =
       IF verifies[q].known THEN [ at |-> "idle" ] ELSE [ verifies[q] EXCEPT !.at = "anchor" ] ]
  /\ UNCHANGED << sessionTime, challenges, anchors, refresh, severed >>

(* putAccountAddress replaces the row of the address.                      *)
VerifyAnchors(q) ==
  /\ verifies[q].at = "anchor"
  /\ anchors' = [ anchors EXCEPT ![verifies[q].address] =
       [ status |-> "active", account |-> verifies[q].account,
         asked |-> verifies[q].asked, caller |-> verifies[q].caller ] ]
  /\ verifies' = [ verifies EXCEPT ![q] = [ at |-> "idle" ] ]
  /\ severed' = IF verifies[q].asked # NoAccount
                  THEN { s \in severed : ~(sessions[s].address = verifies[q].address
                                           /\ sessions[s].account = verifies[q].account) }
                  ELSE severed
  /\ UNCHANGED << sessionTime, challenges, sessions, refresh >>

-----------------------------------------------------------------------------
(* resolveSessionFromToken reads the record, then writes it back with a    *)
(* new lastSeenAt, or revoked when its address is no longer the account's. *)
ResolveReads(s) ==
  /\ refresh = None
  /\ sessions[s].status = "open" /\ sessions[s].expires >= sessionTime
  /\ refresh' = [ status |-> IF AnchoredToAccount(s) THEN "open" ELSE "revoked", session |-> s ]
  /\ UNCHANGED << sessionTime, challenges, sessions, anchors, verifies, severed >>

ResolveWrites ==
  /\ refresh # None
  /\ sessions' = [ sessions EXCEPT ![refresh.session].status = refresh.status ]
  /\ refresh' = None
  /\ UNCHANGED << sessionTime, challenges, anchors, verifies, severed >>

logout(s) ==
  /\ sessions[s].status = "open"
  /\ sessions' = [ sessions EXCEPT ![s].status = "revoked" ]
  /\ UNCHANGED << sessionTime, challenges, anchors, verifies, refresh, severed >>

(* A session of the account revokes another address of it.                 *)
revokeAccountAddress(s, a) ==
  /\ Resolves(s)
  /\ findActiveAccountAddress(a) = sessions[s].account
  /\ sessions[s].address # a
  /\ anchors' = [ anchors EXCEPT ![a].status = "revoked" ]
  /\ severed' = severed \cup { x \in SessionIds :
       sessions[x] # None /\ sessions[x].address = a /\ sessions[x].account = anchors[a].account }
  /\ UNCHANGED << sessionTime, challenges, sessions, verifies, refresh >>

SessionTimePasses ==
  /\ sessionTime < MaxSessionTime
  /\ sessionTime' = sessionTime + 1
  /\ UNCHANGED << challenges, sessions, anchors, verifies, refresh, severed >>

Next ==
  \/ \E n \in Nonces, a \in Addresses, r \in Requesters, account \in Accounts \cup {NoAccount} :
       CreateChallenge(n, a, r, account)
  \/ \E q \in Logins :
       \/ \E n \in Nonces : VerifyReads(q, n)
       \/ \E caller \in Accounts \cup {NoAccount}, signed \in BOOLEAN : VerifyChecks(q, caller, signed)
       \/ \E s \in SessionIds : VerifyStores(q, s)
       \/ VerifyAnchors(q)
  \/ \E s \in SessionIds : ResolveReads(s) \/ logout(s)
  \/ ResolveWrites
  \/ \E s \in SessionIds, a \in Addresses : revokeAccountAddress(s, a)
  \/ SessionTimePasses

Spec == Init /\ [][Next]_sessionVars

-----------------------------------------------------------------------------
(* A challenge becomes one session: a signature replayed by a concurrent   *)
(* verify loses the conditional update of consumeChallenge.                *)
ChallengeSpentOnce ==
  \A s, t \in SessionIds :
    (sessions[s] # None /\ sessions[t] # None /\ sessions[s].nonce = sessions[t].nonce) => s = t

(* The unauthenticated entry keeps a bounded number of live challenges, by *)
(* address and by requester: a requester who fills its own share cannot    *)
(* fill more of the store.                                                 *)
ChallengeQuota ==
  /\ \A a \in Addresses : Cardinality({ n \in Nonces : Live(n) /\ challenges[n].address = a }) <= MaxPerAddress
  /\ \A r \in Requesters : Cardinality({ n \in Nonces : Live(n) /\ challenges[n].requester = r }) <= MaxPerRequester

(* An address joins an existing account only when a session of that        *)
(* account asked for it and a session of that account completed it.        *)
AnchoredByBoth ==
  \A a \in Addresses :
    (anchors[a] # None /\ anchors[a].asked # NoAccount) =>
      anchors[a].asked = anchors[a].account /\ anchors[a].caller = anchors[a].account

(* Revoking an address ends its sessions for good: logging in again with   *)
(* the address opens a new account and does not bring the old sessions and *)
(* the capabilities of their account back.                                 *)
RevokedSessionsStayOut == \A s \in severed : ~Resolves(s)

(* Logging in, anchoring and revoking keep their promises against          *)
(* concurrent requests.                                                    *)
SessionsSound == ChallengeSpentOnce /\ ChallengeQuota /\ AnchoredByBoth /\ RevokedSessionsStayOut

-----------------------------------------------------------------------------
(* The invariant behind SessionsSound.                                     *)
Holder == Accounts \cup {NoAccount}
Spent == { "consumed", "deleted" }

Challenge == [ status : {"issued"} \cup Spent, address : Addresses, requester : Requesters,
               account : Holder, expires : Nat ]
Session == [ status : { "open", "revoked" }, address : Addresses, account : Accounts, nonce : Nonces,
             expires : Nat ]
Anchor == [ status : { "active", "revoked" }, account : Accounts, asked : Holder, caller : Holder ]
Login == [ at : { "store", "anchor" }, nonce : Nonces, address : Addresses, account : Accounts,
           asked : Holder, caller : Holder, known : BOOLEAN ]

SessionTypes ==
  /\ sessionTime \in Nat
  /\ challenges \in [ Nonces -> {None} \cup Challenge ]
  /\ sessions \in [ SessionIds -> {None} \cup Session ]
  /\ anchors \in [ Addresses -> {None} \cup Anchor ]
  /\ verifies \in [ Logins -> [ at : {"idle"} ] \cup [ at : {"read"}, nonce : Nonces ] \cup Login ]
  /\ refresh \in {None} \cup [ status : { "open", "revoked" }, session : SessionIds ]
  /\ severed \subseteq SessionIds

(* Some session is or was of the account: sessions are never deleted.      *)
Known(account) == \E s \in SessionIds : sessions[s] # None /\ sessions[s].account = account

ChallengeInv(n) == challenges[n] # None => challenges[n].account = NoAccount \/ Known(challenges[n].account)

SessionInv(s) == sessions[s] # None => challenges[sessions[s].nonce].status \in Spent

AnchorInv(a) == anchors[a] # None => Known(anchors[a].account)

SeveredInv(s) == sessions[s] # None /\ findActiveAccountAddress(sessions[s].address) # sessions[s].account

Verifying(q) == verifies[q].at \in { "store", "anchor" }

(* The account of a first login is nobody else's until it is anchored.     *)
OwnAccount(q) ==
  /\ \A a \in Addresses : anchors[a] # None => anchors[a].account # verifies[q].account
  /\ \A n \in Nonces : challenges[n] # None => challenges[n].account # verifies[q].account
  /\ \A s \in severed : sessions[s].account # verifies[q].account
  /\ \A p \in Logins : (p # q /\ Verifying(p)) => verifies[p].account # verifies[q].account

VerifyInv(q) ==
  /\ verifies[q].at = "read" => challenges[verifies[q].nonce] # None
  /\ Verifying(q) =>
       /\ challenges[verifies[q].nonce].status \in Spent
       /\ verifies[q].asked # NoAccount =>
            verifies[q].account = verifies[q].asked /\ verifies[q].caller = verifies[q].asked /\ Known(verifies[q].asked)
       /\ (verifies[q].asked = NoAccount /\ ~verifies[q].known) => OwnAccount(q)
  /\ verifies[q].at = "anchor" => ~verifies[q].known /\ Known(verifies[q].account)
  /\ verifies[q].at = "store" =>
       /\ \A s \in SessionIds : sessions[s] # None => sessions[s].nonce # verifies[q].nonce
       /\ \A p \in Logins : (p # q /\ verifies[p].at = "store") => verifies[p].nonce # verifies[q].nonce

IndInv ==
  /\ SessionTypes /\ ChallengeSpentOnce /\ ChallengeQuota /\ AnchoredByBoth
  /\ \A n \in Nonces : ChallengeInv(n)
  /\ \A s \in SessionIds : SessionInv(s)
  /\ \A a \in Addresses : AnchorInv(a)
  /\ \A s \in severed : SeveredInv(s)
  /\ \A q \in Logins : VerifyInv(q)
  /\ refresh # None => sessions[refresh.session] # None
=============================================================================
