------------------------------- MODULE Sessions -------------------------------
(***************************************************************************)
(* Wallet login and everything that lives in the cache because of it: the  *)
(* challenge, the sessions, the index of a user's sessions, the refresh    *)
(* record and the blacklist (SessionService, AuthTokenService,             *)
(* AuthChallengeService, SessionGuard, JwtStrategy and the controllers of  *)
(* verify, refresh, logout and sessions), for one wallet.                  *)
(*                                                                         *)
(* The cache offers get, set and delete, each awaited: one action.  A      *)
(* guarded request runs in two threads, its handler and the touchSession   *)
(* that SessionGuard starts and does not wait for.  Sessions, token        *)
(* families and refresh tokens are named after the call that made them.    *)
(***************************************************************************)
EXTENDS Naturals, FiniteSets

CONSTANTS
  Calls,        \* requests of one user
  MaxNonces,    \* bound on challenges issued
  MaxTime,      \* bound on the clock
  Ttl,          \* sessionTtlSeconds
  Idle,         \* sessionIdleTimeoutSeconds
  Persistence   \* sessionPersistenceEnabled

ASSUME SessionsAssumption ==
  /\ MaxNonces \in Nat /\ MaxTime \in Nat
  /\ Ttl \in Nat \ {0} /\ Idle \in Nat
  /\ Persistence \in BOOLEAN

VARIABLES
  challenge,    \* auth:challenge:<wallet>, 0 when there is none
  issued,       \* challenges issued so far
  session,      \* session:<sid>
  index,        \* user_sessions:<user>
  refresh,      \* refresh record of the wallet: at most one [token, family]
  blacklist,    \* revoked:<sid>
  clock,
  kind,         \* what each call asks for
  pc,           \* the next step of each thread
  on,           \* the session, or the family, each thread is about
  copy,         \* the session record a touch has read
  listed,       \* the index a thread has read
  nonce,        \* the challenge of each login
  ended,        \* history: sessions revoked by a request
  revivable,    \* history: sessions deleted behind a touch that had read them
  lossy,        \* history: the index has expired, or two threads wrote it at once
  contested,    \* history: challenges read by a second login before the delete
  out           \* history: signed out, and nobody was minting tokens

cacheVars == <<challenge, session, index, refresh, blacklist>>
threadVars == <<kind, pc, on, copy, listed, nonce>>
sessionHistory == <<ended, revivable, lossy, contested, out>>
sessionsVars == <<cacheVars, issued, clock, threadVars, sessionHistory>>

Handler(c) == <<c, "handler">>
Touch(c)   == <<c, "touch">>
Threads    == Calls \X {"handler", "touch"}

Record(at) == [expiresAt |-> at + Ttl, lastSeenAt |-> at]

SessionsInit ==
  /\ challenge = 0 /\ issued = 0 /\ clock = 0
  /\ session = << >> /\ index = {} /\ refresh = {} /\ blacklist = {}
  /\ kind = [c \in Calls |-> "none"]
  /\ pc = [t \in Threads |-> "idle"]
  /\ on = [t \in Threads |-> t[1]]
  /\ copy = [t \in Threads |-> Record(0)]
  /\ listed = [t \in Threads |-> {}]
  /\ nonce = [c \in Calls |-> 0]
  /\ ended = {} /\ revivable = {} /\ lossy = FALSE /\ contested = {} /\ out = FALSE

Go(t, step) == pc' = [pc EXCEPT ![t] = step]

Live(s) == s \in DOMAIN session

WriteSession(s, record) ==
  session' = [r \in DOMAIN session \cup {s} |-> IF r = s THEN record ELSE session[r]]

\* getSession answers with a session that has neither expired nor been idle.
Valid(s) ==
  /\ Live(s)
  /\ clock <= session[s].expiresAt
  /\ Idle > 0 => clock - session[s].lastSeenAt <= Idle

-----------------------------------------------------------------------------
\* issueChallenge, and refreshChallenge when it does not return the old one.
IssueChallenge ==
  /\ issued < MaxNonces
  /\ issued' = issued + 1
  /\ challenge' = issued + 1
  /\ UNCHANGED <<session, index, refresh, blacklist, clock, threadVars, sessionHistory>>

ExpireChallenge ==
  /\ challenge # 0
  /\ challenge' = 0
  /\ UNCHANGED <<session, index, refresh, blacklist, issued, clock, threadVars, sessionHistory>>

\* verify: the signature is right, and consumeChallenge reads the challenge.
Login(c, n) ==
  /\ kind[c] = "none" /\ n \in 1 .. issued
  /\ kind' = [kind EXCEPT ![c] = "login"]
  /\ nonce' = [nonce EXCEPT ![c] = n]
  /\ Go(Handler(c), IF challenge = n THEN "consume" ELSE "done")
  /\ contested' = contested \cup
       {m \in {n} : \E d \in Calls : nonce[d] = m /\ pc[Handler(d)] = "consume"}
  /\ UNCHANGED <<cacheVars, issued, clock, on, copy, listed, ended, revivable, lossy, out>>

\* Mutant: the challenge stays until it expires.
ConsumeChallengeLater(c) ==
  /\ pc[Handler(c)] = "consume"
  /\ Go(Handler(c), "create")
  /\ UNCHANGED <<cacheVars, issued, clock, kind, on, copy, listed, nonce, sessionHistory>>

\* The key is deleted whatever challenge it holds by now.
ConsumeChallenge(c) ==
  /\ pc[Handler(c)] = "consume"
  /\ challenge' = 0
  /\ Go(Handler(c), "create")
  /\ UNCHANGED <<session, index, refresh, blacklist, issued, clock, kind, on, copy, listed,
                 nonce, sessionHistory>>

CreateSession(c) ==
  /\ pc[Handler(c)] = "create"
  /\ WriteSession(c, Record(clock))
  /\ Go(Handler(c), "addRead")
  /\ UNCHANGED <<challenge, index, refresh, blacklist, issued, clock, kind, on, copy, listed,
                 nonce, sessionHistory>>

\* issueTokenPair deletes the old record before it reads the settings.
RevokeOldToken(c) ==
  /\ pc[Handler(c)] = "issue"
  /\ refresh' = {}
  /\ Go(Handler(c), "mint")
  /\ UNCHANGED <<challenge, session, index, blacklist, issued, clock, kind, on, copy, listed,
                 nonce, sessionHistory>>

\* The last step of a login and of a rotation.
Mint(c) ==
  /\ pc[Handler(c)] = "mint"
  /\ refresh' = {[token |-> c, family |-> on[Handler(c)]]}
  /\ out' = FALSE
  /\ Go(Handler(c), "minted")
  /\ UNCHANGED <<challenge, session, index, blacklist, issued, clock, kind, on, copy, listed,
                 nonce, ended, revivable, lossy, contested>>

-----------------------------------------------------------------------------
\* validateAndRotate: whoever holds a refresh token presents it.
Minted(c) == pc[Handler(c)] = "minted"

RefreshTokens(c, t) ==
  /\ kind[c] = "none" /\ Minted(t)
  /\ kind' = [kind EXCEPT ![c] = "refresh"]
  /\ on' = [on EXCEPT ![Handler(c)] = on[Handler(t)]]
  /\ Go(Handler(c), IF \E r \in refresh : r.token = t THEN "rotate"
                    ELSE IF \E r \in refresh : r.family = on[Handler(t)] THEN "reuse"
                    ELSE "done")
  /\ UNCHANGED <<cacheVars, issued, clock, copy, listed, nonce, sessionHistory>>

RotateDelete(c) ==
  /\ pc[Handler(c)] = "rotate"
  /\ refresh' = {}
  /\ Go(Handler(c), "mint")
  /\ UNCHANGED <<challenge, session, index, blacklist, issued, clock, kind, on, copy, listed,
                 nonce, sessionHistory>>

\* A rotated-out token of the current family: the family is revoked.
DetectReuse(c) ==
  /\ pc[Handler(c)] = "reuse"
  /\ refresh' = {}
  /\ Go(Handler(c), "done")
  /\ UNCHANGED <<challenge, session, index, blacklist, issued, clock, kind, on, copy, listed,
                 nonce, sessionHistory>>

-----------------------------------------------------------------------------
\* SessionGuard: a request with the access token of session s.  An access token
\* minted by a rotation names no session and is refused.
Guard(c, s, k, target) ==
  /\ kind[c] = "none" /\ kind[s] = "login" /\ Minted(s)
  /\ kind' = [kind EXCEPT ![c] = IF Valid(s) THEN k ELSE "refused"]
  /\ IF Valid(s)
     THEN /\ pc' = [pc EXCEPT ![Touch(c)] = "touch",
                              ![Handler(c)] = CASE k = "logout" -> "blacklist"
                                                [] k = "revoke" -> "lookup"
                                                [] k = "revokeAll" -> "list"
                                                [] k = "plain" -> "done"]
          /\ on' = [on EXCEPT ![Touch(c)] = s, ![Handler(c)] = target]
     ELSE /\ Go(Handler(c), IF Live(s) THEN "delete" ELSE "done")
          /\ on' = [on EXCEPT ![Handler(c)] = s]
  /\ UNCHANGED <<cacheVars, issued, clock, copy, listed, nonce, sessionHistory>>

\* Mutant: touchSession takes the record the guard has read.
TouchReadUnchecked(c) ==
  /\ pc[Touch(c)] = "touch"
  /\ copy' = [copy EXCEPT ![Touch(c)] = Record(clock)]
  /\ Go(Touch(c), "write")
  /\ UNCHANGED <<cacheVars, issued, clock, kind, on, listed, nonce, sessionHistory>>

\* touchSession reads the session again, revoking it if it has just expired.
TouchRead(c) ==
  LET s == on[Touch(c)]
  IN  /\ pc[Touch(c)] = "touch"
      /\ copy' = [copy EXCEPT ![Touch(c)] = IF Live(s) THEN session[s] ELSE @]
      /\ Go(Touch(c), IF Valid(s) THEN "write" ELSE IF Live(s) THEN "delete" ELSE "done")
      /\ UNCHANGED <<cacheVars, issued, clock, kind, on, listed, nonce, sessionHistory>>

\* After two awaited settings, the session is written whether or not it exists.
TouchWrite(c) ==
  /\ pc[Touch(c)] = "write"
  /\ WriteSession(on[Touch(c)],
                  [expiresAt |-> IF Persistence THEN clock + Ttl
                                 ELSE copy[Touch(c)].expiresAt,
                   lastSeenAt |-> clock])
  /\ Go(Touch(c), "done")
  /\ UNCHANGED <<challenge, index, refresh, blacklist, issued, clock, kind, on, copy, listed,
                 nonce, sessionHistory>>

-----------------------------------------------------------------------------
\* DELETE /auth/sessions/:sessionId looks the session up first.
Lookup(c) ==
  LET s == on[Handler(c)]
  IN  /\ pc[Handler(c)] = "lookup"
      /\ Go(Handler(c), IF Live(s) THEN "delete" ELSE "done")
      /\ UNCHANGED <<cacheVars, issued, clock, kind, on, copy, listed, nonce, sessionHistory>>

Blacklist(c) ==
  /\ pc[Handler(c)] = "blacklist"
  /\ blacklist' = blacklist \cup {on[Handler(c)]}
  /\ Go(Handler(c), "delete")
  /\ UNCHANGED <<challenge, session, index, refresh, issued, clock, kind, on, copy, listed,
                 nonce, sessionHistory>>

\* Sessions whose record a touch has read and not yet written back.
Held == {on[Touch(c)] : c \in {d \in Calls : pc[Touch(d)] = "write"}}

DeleteSessions(gone) ==
  /\ session' = [s \in DOMAIN session \ gone |-> session[s]]
  /\ ended' = ended \cup gone
  /\ revivable' = revivable \cup (gone \cap Held)

\* revokeSession: the record, then the index.
Revoke(t) ==
  /\ pc[t] = "delete"
  /\ DeleteSessions({on[t]})
  /\ Go(t, "dropRead")
  /\ UNCHANGED <<challenge, index, refresh, blacklist, issued, clock, kind, on, copy, listed,
                 nonce, lossy, contested, out>>

\* The index is written without a TTL of its own (this.sessionTtlMs is undefined)
\* and has the minute that redis.module.ts gives to all keys.
ExpireIndex ==
  /\ index # {}
  /\ index' = {} /\ lossy' = TRUE
  /\ UNCHANGED <<challenge, session, refresh, blacklist, issued, clock, threadVars, ended,
                 revivable, contested, out>>

\* addToUserIndex and removeFromUserIndex read the list of a user's sessions ...
Indexing(t) == pc[t] \in {"addWrite", "dropWrite"}

ReadIndex(t) ==
  /\ pc[t] \in {"addRead", "dropRead"}
  /\ listed' = [listed EXCEPT ![t] = index]
  /\ lossy' = (lossy \/ \E u \in Threads : Indexing(u))
  /\ Go(t, IF pc[t] = "addRead" THEN "addWrite" ELSE "dropWrite")
  /\ UNCHANGED <<cacheVars, issued, clock, kind, on, copy, nonce, ended, revivable, contested,
                 out>>

\* Mutant: the index is written without what it held.
AddToIndexAlone(t) ==
  /\ pc[t] = "addWrite"
  /\ index' = {on[t]}
  /\ Go(t, "issue")
  /\ UNCHANGED <<challenge, session, refresh, blacklist, issued, clock, kind, on, copy, listed,
                 nonce, sessionHistory>>

\* ... and write it.
AddToIndex(t) ==
  /\ pc[t] = "addWrite"
  /\ index' = listed[t] \cup {on[t]}
  /\ Go(t, "issue")
  /\ UNCHANGED <<challenge, session, refresh, blacklist, issued, clock, kind, on, copy, listed,
                 nonce, sessionHistory>>

RemoveFromIndex(t) ==
  /\ pc[t] = "dropWrite"
  /\ index' = listed[t] \ {on[t]}
  /\ Go(t, IF t = Handler(t[1]) /\ kind[t[1]] = "logout" THEN "unrefresh" ELSE "done")
  /\ UNCHANGED <<challenge, session, refresh, blacklist, issued, clock, kind, on, copy, listed,
                 nonce, sessionHistory>>

\* logout ends with revokeRefreshToken.
Minting == \E c \in Calls : pc[Handler(c)] \in {"rotate", "issue", "mint"}

RevokeRefreshToken(c) ==
  /\ pc[Handler(c)] = "unrefresh"
  /\ refresh' = {}
  /\ out' = ~Minting
  /\ Go(Handler(c), "done")
  /\ UNCHANGED <<challenge, session, index, blacklist, issued, clock, kind, on, copy, listed,
                 nonce, ended, revivable, lossy, contested>>

\* revokeAllSessions: the index, the sessions it lists, the index again.
ListAll(c) ==
  /\ pc[Handler(c)] = "list"
  /\ listed' = [listed EXCEPT ![Handler(c)] = index]
  /\ Go(Handler(c), "deleteAll")
  /\ UNCHANGED <<cacheVars, issued, clock, kind, on, copy, nonce, sessionHistory>>

DeleteAll(c) ==
  /\ pc[Handler(c)] = "deleteAll"
  /\ DeleteSessions(listed[Handler(c)])
  /\ Go(Handler(c), "deleteIndex")
  /\ UNCHANGED <<challenge, index, refresh, blacklist, issued, clock, kind, on, copy, listed,
                 nonce, lossy, contested, out>>

DeleteIndex(c) ==
  /\ pc[Handler(c)] = "deleteIndex"
  /\ index' = {}
  /\ lossy' = (lossy \/ index # listed[Handler(c)] \/ \E u \in Threads : Indexing(u))
  /\ Go(Handler(c), "done")
  /\ UNCHANGED <<challenge, session, refresh, blacklist, issued, clock, kind, on, copy, listed,
                 nonce, ended, revivable, contested, out>>

-----------------------------------------------------------------------------
Tick ==
  /\ clock < MaxTime
  /\ clock' = clock + 1
  /\ UNCHANGED <<cacheVars, issued, threadVars, sessionHistory>>

Threaded(t) == ReadIndex(t) \/ AddToIndex(t) \/ RemoveFromIndex(t) \/ Revoke(t)

SessionsNext ==
  \/ IssueChallenge \/ ExpireChallenge \/ ExpireIndex \/ Tick
  \/ \E t \in Threads : Threaded(t)
  \/ \E c \in Calls :
       \/ \E n \in 1 .. MaxNonces : Login(c, n)
       \/ ConsumeChallenge(c) \/ CreateSession(c) \/ RevokeOldToken(c) \/ Mint(c)
       \/ RotateDelete(c) \/ DetectReuse(c)
       \/ TouchRead(c) \/ TouchWrite(c)
       \/ Lookup(c) \/ Blacklist(c) \/ RevokeRefreshToken(c)
       \/ ListAll(c) \/ DeleteAll(c) \/ DeleteIndex(c)
       \/ \E d \in Calls :
            \/ RefreshTokens(c, d)
            \/ \E k \in {"logout", "revokeAll", "plain"} : Guard(c, d, k, d)
            \/ \E s \in Calls : Guard(c, d, "revoke", s)

SessionsSpec == SessionsInit /\ [][SessionsNext]_sessionsVars

-----------------------------------------------------------------------------
SessionsTypeOK ==
  /\ challenge \in 0 .. issued /\ issued \in 0 .. MaxNonces /\ clock \in 0 .. MaxTime
  /\ DOMAIN session \subseteq Calls
  /\ \A s \in DOMAIN session : session[s] \in [expiresAt : Nat, lastSeenAt : 0 .. MaxTime]
  /\ index \subseteq Calls /\ blacklist \subseteq Calls
  /\ refresh \subseteq [token : Calls, family : Calls] /\ Cardinality(refresh) <= 1
  /\ on \in [Threads -> Calls]
  /\ listed \in [Threads -> SUBSET Calls]

\* A session that a request has revoked does not come back, but by a
\* touchSession that had read it before; and once the last step of a logout has
\* returned, no refresh token is left unless one was being minted meanwhile.
\* SessionGuard starts such a touch for every logout, of the same session.
LogoutHolds ==
  /\ ended \cap DOMAIN session \subseteq revivable
  /\ out => refresh = {}

\* Every session whose login has finished is in the index by which "sign out
\* everywhere" finds it, as long as no two threads were between reading and
\* writing the index, the index has not expired, and the session was not revived
\* behind its revocation.
IndexCoversSessions ==
  ~lossy =>
    \A s \in DOMAIN session \ revivable :
      kind[s] = "login" /\ pc[Handler(s)] \in {"issue", "mint", "minted"} => s \in index

\* A challenge lets two logins through only when the second had read it before
\* the first one's delete.
OneLoginPerChallenge ==
  LET LetThrough(c) == kind[c] = "login" /\ pc[Handler(c)] \notin {"consume", "done"}
  IN \A c, d \in Calls :
       c # d /\ LetThrough(c) /\ LetThrough(d) /\ nonce[c] = nonce[d]
         => nonce[c] \in contested

=============================================================================
