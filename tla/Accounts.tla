------------------------------ MODULE Accounts ------------------------------
(* Accounts, passwords, sessions, single-use tokens, passkeys and erasure.   *)
(* Every database transaction is one step. A request that reads something,   *)
(* waits (for its body, for the password hash, for the mail provider) and    *)
(* writes afterwards is in flight between its steps.                         *)
EXTENDS Integers, FiniteSets

CONSTANTS
  Users,          \* ids of table pouzivatelia; an id is never given twice
  Mails,          \* addresses
  Mail,           \* the address a user registers with; an erased one gets none
  Words,          \* passwords a customer may choose
  Requests,       \* requests the server works on at one time
  MaxSessions,    \* bound: rows of sessions_v2
  MaxTokens,      \* bound: tokens, challenges, setup sessions and reset jobs
  MaxWrites,      \* bound: credentials written
  None

Sessions == 1..MaxSessions
Ids      == 1..MaxTokens

ASSUME AccountsAssumption ==
  /\ MaxSessions \in Nat /\ MaxTokens \in Nat /\ MaxWrites \in Nat
  /\ Mail \in [Users -> Mails]
  /\ None \notin Users \cup Mails \cup Words \cup Int

VARIABLES
  routes,       \* the routes this deployment serves
  account,      \* account[u]: not yet there, open, or anonymised
  credential,   \* table auth_credentials: credential[u], or None
  written,      \* credentials written so far; changed_at is the number
  session,      \* table sessions_v2: session[i], None when revoked or gone
  issued,       \* sessions issued so far
  token,        \* every single-use capability by its random id, or None
  minted,       \* ids drawn so far
  spent,        \* ids whose token was used
  belated,      \* history: erased accounts given a passkey challenge afterwards
  claimed,      \* table auth_legacy_setup_claims
  passkey,      \* users with a row in auth_passkeys
  reserved,     \* table magic_token_reservations: who delivers to an address
  blocked,      \* users with an open consumer request or a running renewal
  flight        \* flight[c]: what the request c has read

identity == <<account, credential, written, claimed>>
doors    == <<session, issued, passkey>>
tokens   == <<token, minted, spent, belated>>
accountVars == <<routes, identity, doors, tokens, reserved, blocked, flight>>

----------------------------------------------------------------------------
(* Rows                                                                      *)

(* changed_at identifies a password hash: every write of either writes both. *)
Credential == [word : Words, changed : Nat]
(* A session remembers the word by which, or under which, it was made.       *)
Session == [user : Users, word : Words \cup {None}]

LinkKinds      == {"confirm", "reset", "setup"}
PasswordLinks  == {"reset", "setup"}
MailKinds      == LinkKinds \cup {"magic"}
UserKinds      == {"entry", "enrol", "reauth", "proof"}
(* "entry" is a setup session; "enrol", "login" and "reauth" are passkey     *)
(* challenges; "proof" is the token that allows an erasure. "changed" is     *)
(* the credential a link was made for, 0 for an account without password.    *)
Token == [kind : MailKinds \cup UserKinds \cup {"login"},
          of : Mails \cup Users \cup {None},
          changed : Nat \cup {None}, word : Words \cup {None}]
NewToken(kind, of) == [kind |-> kind, of |-> of, changed |-> None, word |-> None]

SessionRoutes == {"change", "set", "revoke", "options", "enrol", "drop",
                  "reauth_word", "reauth_key", "erase"}
RouteNames == SessionRoutes
                \cup {"register", "link", "login", "setup", "magic", "deliver", "answered",
                       "key", "logout", "forgot"}
Flight == [route : RouteNames \cup {None}, user : Users \cup {None},
           session : Sessions \cup {None}, mail : Mails \cup {None},
           changed : Nat \cup {None}, word : Words \cup {None},
           token : Ids \cup {None}]
NoFlight == [route |-> None, user |-> None, session |-> None, mail |-> None,
             changed |-> None, word |-> None, token |-> None]

(* A cell without a row is told from every row.                              *)
ASSUME NoneAssumption == None \notin Credential \cup Session \cup Token \cup RouteNames

Open(u) == account[u] = "open"
At(m)   == {u \in Users : Open(u) /\ Mail[u] = m}
(* An erased account has an address drawn at random, which no mail reaches.  *)
Address(u) == IF Open(u) THEN Mail[u] ELSE None
Changed(u) == IF credential[u] = None THEN 0 ELSE credential[u].changed
Word(u)    == IF credential[u] = None THEN None ELSE credential[u].word
Has(i, kind) == i \in Ids /\ token[i] # None /\ token[i].kind = kind
Links(m, kinds) == {i \in Ids : token[i] # None /\ token[i].kind \in kinds /\ token[i].of = m}
Owned(u, kinds) == {i \in Ids : token[i] # None /\ token[i].kind \in kinds /\ token[i].of = u}

Idle(c)  == flight[c] = NoFlight
Goes(c)  == flight' = [flight EXCEPT ![c] = NoFlight]
Reads(c, f) == flight' = [flight EXCEPT ![c] = f]
Refused(c)  == Goes(c) /\ UNCHANGED <<routes, identity, doors, tokens, reserved, blocked>>

(* secrets.token_urlsafe: an id nobody has seen.                             *)
Without(ids) == [i \in Ids |-> IF i \in ids THEN None ELSE token[i]]
Mints(t, gone) ==
  /\ minted < MaxTokens
  /\ minted' = minted + 1
  /\ token' = [Without(gone) EXCEPT ![minted + 1] = t]
  /\ belated' = IF t.kind = "enrol" /\ ~Open(t.of) THEN belated \cup {t.of} ELSE belated
  /\ UNCHANGED spent
Uses(i, gone) ==
  /\ token' = Without(gone \cup {i})
  /\ spent' = spent \cup {i}
  /\ UNCHANGED <<minted, belated>>
Drops(gone) == token' = Without(gone) /\ UNCHANGED <<minted, spent, belated>>

(* A password is written with a changed_at of its own.                       *)
Writes(u, w) ==
  /\ written < MaxWrites
  /\ written' = written + 1
  /\ credential' = [credential EXCEPT ![u] = [word |-> w, changed |-> written + 1]]

(* create_session and revoke_other_sessions.                                 *)
SessionsOf(u) == {i \in Sessions : session[i] # None /\ session[i].user = u}
Enters(u, w, revoked) ==
  /\ issued < MaxSessions
  /\ issued' = issued + 1
  /\ session' = [i \in Sessions |->
       IF i = issued + 1 THEN [user |-> u, word |-> w]
       ELSE IF i \in revoked THEN None ELSE session[i]]

----------------------------------------------------------------------------
(* Registration and the links it sends                                       *)

(* What the address has decides what is sent: read first, written after the  *)
(* read, in two transactions.                                                *)
AskRegister(c, m, w) ==
  /\ Idle(c)
  /\ \/ At(m) = {} /\ Reads(c, [NoFlight EXCEPT !.route = "register", !.mail = m, !.word = w])
     \/ \E u \in At(m) :
          Reads(c, [NoFlight EXCEPT !.route = "register", !.mail = m, !.user = u,
                                    !.changed = Changed(u)])
  /\ UNCHANGED <<routes, identity, doors, tokens, reserved, blocked>>

LinkFor(f) ==
  [kind |-> IF f.user = None THEN "confirm" ELSE IF f.changed = 0 THEN "setup" ELSE "reset",
   of |-> f.mail, changed |-> f.changed, word |-> f.word]

SendLink(c) ==
  /\ flight[c].route = "register"
  /\ Mints(LinkFor(flight[c]), {})
  /\ Goes(c)
  /\ UNCHANGED <<routes, identity, doors, reserved, blocked>>

(* auth_confirm: one transaction. An address that has an account by now      *)
(* loses the link and nothing else.                                          *)
Confirm(i) ==
  /\ Has(i, "confirm")
  /\ LET m == token[i].of IN
     \/ /\ At(m) # {}
        /\ Uses(i, {})
        /\ UNCHANGED <<identity, doors>>
     \/ /\ At(m) = {}
        /\ \E u \in Users :
             /\ account[u] = "none" /\ Mail[u] = m
             /\ account' = [account EXCEPT ![u] = "open"]
             /\ Writes(u, token[i].word)
             /\ Enters(u, token[i].word, {})
        /\ Uses(i, {})
        /\ UNCHANGED <<claimed, passkey>>
  /\ UNCHANGED <<routes, reserved, blocked, flight>>

(* consume_action_token: a reset link works for the credential it was made   *)
(* for, a setup link while the address has none.                             *)
Usable(i) ==
  LET u == At(token[i].of) IN
  IF token[i].kind = "reset"
  THEN \E v \in u : credential[v] # None /\ credential[v].changed = token[i].changed
  ELSE \A v \in u : credential[v] = None

(* auth_password_reset: one transaction. The new session is the only one.    *)
UseLink(i, w) ==
  /\ Has(i, "reset") \/ Has(i, "setup")
  /\ Usable(i)
  /\ LET m == token[i].of
         setup == token[i].kind = "setup"
     IN
     \/ /\ At(m) = {}
        /\ Uses(i, Links(m, PasswordLinks))
        /\ UNCHANGED <<identity, doors>>
     \/ \E u \in At(m) :
        /\ Writes(u, w)
        /\ Enters(u, w, SessionsOf(u))
        /\ claimed' = IF setup THEN claimed \cup {u} ELSE claimed
        /\ Uses(i, Links(m, PasswordLinks \cup (IF setup THEN {"magic"} ELSE {}))
                     \cup Owned(u, {"entry"}))
        /\ UNCHANGED <<account, passkey>>
  /\ UNCHANGED <<routes, reserved, blocked, flight>>

----------------------------------------------------------------------------
(* Signing in, and what a signed-in customer does                            *)

(* The hash is read and verified outside the transaction that signs in. The  *)
(* address of an erased account is known to nobody who is not in it.         *)
Login(c, u) ==
  /\ Idle(c) /\ (Open(u) \/ u \in belated) /\ credential[u] # None
  /\ Reads(c, [NoFlight EXCEPT !.route = "login", !.user = u, !.changed = Changed(u),
                               !.word = Word(u)])
  /\ UNCHANGED <<routes, identity, doors, tokens, reserved, blocked>>

\* Mutant of SameHash: a credential is there, whichever.
SameHashAny(f) == credential[f.user] # None

SameHash(f) == credential[f.user] # None /\ credential[f.user].changed = f.changed

(* A hash of old parameters is replaced by one of the same password.         *)
LoginCommit(c) ==
  LET f == flight[c] IN
  /\ f.route = "login"
  /\ IF SameHash(f)
     THEN /\ Enters(f.user, f.word, {})
          /\ \/ UNCHANGED identity
             \/ Writes(f.user, f.word) /\ UNCHANGED <<account, claimed>>
          /\ Goes(c)
          /\ UNCHANGED <<routes, passkey, tokens, reserved, blocked>>
     ELSE Refused(c)

(* require_user: the session is live when the request is authenticated; the  *)
(* account may be anything. What the request brings comes in its body, later.*)
Present(c, i, route) ==
  /\ Idle(c) /\ route \in SessionRoutes /\ session[i] # None
  /\ LET u == session[i].user IN
     Reads(c, [NoFlight EXCEPT !.route = route, !.user = u, !.session = i, !.mail = Address(u)])
  /\ UNCHANGED <<routes, identity, doors, tokens, reserved, blocked>>

(* authenticate_password_async: the current password, by the address the     *)
(* account had then.                                                         *)
Verify(c) ==
  LET f == flight[c] IN
  /\ f.route \in {"change", "reauth_word"} /\ f.changed = None
  /\ IF f.mail = Address(f.user) /\ credential[f.user] # None
     THEN Reads(c, [f EXCEPT !.changed = Changed(f.user)])
     ELSE Goes(c)
  /\ UNCHANGED <<routes, identity, doors, tokens, reserved, blocked>>

(* update_authenticated_password. The request's own session stays.           *)
Keeps(f, w) ==
  session' = [i \in Sessions |->
    IF i = f.session /\ session[i] # None THEN [session[i] EXCEPT !.word = w]
    ELSE IF i \in SessionsOf(f.user) THEN None ELSE session[i]]

ChangePassword(c, w) ==
  LET f == flight[c] IN
  /\ f.route = "change" /\ f.changed # None
  /\ IF f.session \in SessionsOf(f.user) /\ SameHash(f)
     THEN /\ Writes(f.user, w)
          /\ Keeps(f, w)
          /\ Drops(Links(f.mail, PasswordLinks) \cup Owned(f.user, {"entry"}))
          /\ Goes(c)
          /\ UNCHANGED <<routes, account, claimed, issued, passkey, reserved, blocked>>
     ELSE Refused(c)

(* auth_password_set of a signed-in account without a password: only the     *)
(* credential is looked at again, not the session and not the account.       *)
SetPassword(c, w) ==
  LET f == flight[c] IN
  /\ f.route = "set"
  /\ IF credential[f.user] = None
     THEN /\ Writes(f.user, w)
          /\ Keeps(f, w)
          /\ claimed' = claimed \cup {f.user}
          /\ Drops(Links(f.mail, PasswordLinks \cup {"magic"}) \cup Owned(f.user, {"entry"}))
          /\ Goes(c)
          /\ UNCHANGED <<routes, account, issued, passkey, reserved, blocked>>
     ELSE Refused(c)

(* Sessions are revoked by id, or all but the request's own.                 *)
Revoke(c) ==
  LET f == flight[c] IN
  /\ f.route = "revoke"
  /\ \E gone \in {SessionsOf(f.user) \ {f.session}} \cup {{i} : i \in SessionsOf(f.user)} :
       session' = [i \in Sessions |-> IF i \in gone THEN None ELSE session[i]]
  /\ Goes(c)
  /\ UNCHANGED <<routes, identity, issued, passkey, tokens, reserved, blocked>>

(* auth_logout deletes the rows of both cookies.                             *)
Logout(i) ==
  /\ session[i] # None
  /\ session' = [session EXCEPT ![i] = None]
  /\ \E gone \in {{}} \cup {{t} : t \in Owned(session[i].user, {"entry"})} : Drops(gone)
  /\ UNCHANGED <<routes, identity, issued, passkey, reserved, blocked, flight>>

----------------------------------------------------------------------------
(* The bridge for accounts that never had a password                         *)

(* Eligible accounts have neither a password nor a claim. The eligibility is *)
(* read before the reservation is written.                                   *)
AskMagic(c, m) ==
  /\ Idle(c)
  /\ \E u \in At(m) : credential[u] = None /\ u \notin claimed
  /\ Reads(c, [NoFlight EXCEPT !.route = "magic", !.mail = m])
  /\ UNCHANGED <<routes, identity, doors, tokens, reserved, blocked>>

(* One delivery to an address at a time, and none within the cooldown of the *)
(* last one. A stale reservation is dropped.                                 *)
Reserve(c) ==
  LET m == flight[c].mail IN
  /\ flight[c].route = "magic"
  /\ \/ /\ reserved[m] = None
        /\ reserved' = [reserved EXCEPT ![m] = c]
        /\ Reads(c, [flight[c] EXCEPT !.route = "deliver"])
        /\ UNCHANGED <<routes, identity, doors, tokens, blocked>>
     \/ Refused(c)
ReservationExpires(m) ==
  /\ reserved[m] # None
  /\ reserved' = [reserved EXCEPT ![m] = None]
  /\ UNCHANGED <<routes, identity, doors, tokens, blocked, flight>>

(* promote_magic_token when the provider accepted and the reservation is     *)
(* still this request's, cancel_magic_token_reservation otherwise.           *)
Promote(c) ==
  LET m == flight[c].mail IN
  /\ flight[c].route = "deliver"
  /\ IF reserved[m] = c
     THEN /\ Mints(NewToken("magic", m), Links(m, {"magic"})) \/ UNCHANGED tokens
          /\ reserved' = [reserved EXCEPT ![m] = None]
     ELSE UNCHANGED <<tokens, reserved>>
  /\ Goes(c)
  /\ UNCHANGED <<routes, identity, doors, blocked>>

(* consume_magic_token turns a link into a setup session, if the account has *)
(* no password yet; the link is used up either way.                          *)
Cross(i) ==
  /\ Has(i, "magic")
  /\ LET m == token[i].of
         eligible == {u \in At(m) : credential[u] = None}
         gone == Links(m, {"magic"})
     IN IF eligible = {} THEN Uses(i, gone)
        ELSE \E u \in eligible :
             /\ minted < MaxTokens /\ minted' = minted + 1
             /\ token' = [Without(gone) EXCEPT ![minted + 1] = NewToken("entry", u)]
             /\ spent' = spent \cup {i} /\ UNCHANGED belated
  /\ UNCHANGED <<routes, identity, doors, reserved, blocked, flight>>

(* user_for_setup_session, before the new password is hashed ...             *)
EnterSetup(c, i) ==
  /\ Idle(c) /\ Has(i, "entry")
  /\ credential[token[i].of] = None
  /\ Reads(c, [NoFlight EXCEPT !.route = "setup", !.user = token[i].of, !.token = i])
  /\ UNCHANGED <<routes, identity, doors, tokens, reserved, blocked>>

(* ... and complete_restricted_setup_password, in one transaction.           *)
CompleteSetup(c, w) ==
  LET f == flight[c] IN
  /\ f.route = "setup"
  /\ IF Has(f.token, "entry") /\ credential[f.user] = None
     THEN /\ Writes(f.user, w)
          /\ Enters(f.user, w, SessionsOf(f.user))
          /\ claimed' = claimed \cup {f.user}
          /\ Uses(f.token, Links(Mail[f.user], PasswordLinks \cup {"magic"})
                             \cup Owned(f.user, {"entry"}))
          /\ Goes(c)
          /\ UNCHANGED <<routes, account, passkey, reserved, blocked>>
     ELSE Refused(c)

----------------------------------------------------------------------------
(* Passkeys                                                                  *)

(* The options of a ceremony store its challenge, whatever became of the     *)
(* account since the request was authenticated.                              *)
Options(c) ==
  LET f == flight[c] IN
  /\ f.route = "options"
  /\ \/ Mints(NewToken("enrol", f.user), {})
     \/ f.user \in passkey /\ Mints(NewToken("reauth", f.user), {})
     \/ UNCHANGED tokens
  /\ Goes(c)
  /\ UNCHANGED <<routes, identity, doors, reserved, blocked>>
LoginOptions ==
  /\ Mints(NewToken("login", None), {})
  /\ UNCHANGED <<routes, identity, doors, reserved, blocked, flight>>

(* The challenge is the one in the body. It and the new credential are one   *)
(* transaction; a response that does not verify costs the challenge.         *)
Enrol(c) ==
  LET f == flight[c] IN
  /\ f.route = "enrol"
  /\ \/ /\ \E t \in Owned(f.user, {"enrol"}) : Uses(t, {})
        /\ passkey' = passkey \cup {f.user} \/ UNCHANGED passkey
        /\ Goes(c)
        /\ UNCHANGED <<routes, identity, session, issued, reserved, blocked>>
     \/ Refused(c)
DropPasskey(c) ==
  /\ flight[c].route = "drop"
  /\ passkey' = passkey \ {flight[c].user}
  /\ Goes(c)
  /\ UNCHANGED <<routes, identity, session, issued, tokens, reserved, blocked>>

PasskeyLogin(i, u) ==
  /\ Has(i, "login")
  /\ Uses(i, {})
  /\ \/ u \in passkey /\ Enters(u, Word(u), {}) /\ UNCHANGED passkey
     \/ UNCHANGED doors
  /\ UNCHANGED <<routes, identity, reserved, blocked, flight>>

----------------------------------------------------------------------------
(* Erasure                                                                   *)

(* The proof is created without another look at the account.                 *)
ReauthPassword(c) ==
  /\ flight[c].route = "reauth_word" /\ flight[c].changed # None
  /\ Mints(NewToken("proof", flight[c].user), {})
  /\ Goes(c)
  /\ UNCHANGED <<routes, identity, doors, reserved, blocked>>

(* The challenge is used up in a transaction of its own; the request goes on *)
(* with the proof still to be given.                                         *)
AnswerReauth(c) ==
  LET f == flight[c] IN
  /\ f.route = "reauth_key"
  /\ \/ /\ \E t \in Owned(f.user, {"reauth"}) : Uses(t, {})
        /\ Reads(c, [f EXCEPT !.route = "answered"])
        /\ UNCHANGED <<routes, identity, doors, reserved, blocked>>
     \/ Refused(c)
ReauthPasskey(c) ==
  LET f == flight[c] IN
  /\ f.route = "answered"
  /\ \/ /\ f.user \in passkey
        /\ Mints(NewToken("proof", f.user), {})
        /\ Goes(c)
        /\ UNCHANGED <<routes, identity, doors, reserved, blocked>>
     \/ Refused(c)

\* Mutant of ErasedKinds: setup sessions and challenges are left behind.
ErasedKindsLess == {"proof"}

(* delete_user_account: the proof, the check and every table in one          *)
(* transaction. An account that is erased already loses the proof and nothing*)
(* else; a blocked erasure keeps it.                                         *)
ErasedKinds == UserKinds
Forgotten(u) ==
  /\ account' = [account EXCEPT ![u] = "erased"]
  /\ credential' = [credential EXCEPT ![u] = None]
  /\ session' = [i \in Sessions |-> IF i \in SessionsOf(u) THEN None ELSE session[i]]
  /\ claimed' = claimed \ {u} /\ passkey' = passkey \ {u}
  /\ reserved' = [reserved EXCEPT ![Mail[u]] = None]
Erase(c) ==
  LET f == flight[c] IN
  /\ f.route = "erase"
  /\ \/ \E t \in Owned(f.user, {"proof"}) :
        /\ Goes(c)
        /\ \/ /\ Open(f.user) /\ f.user \notin blocked
              /\ Forgotten(f.user)
              /\ Uses(t, Links(Mail[f.user], MailKinds) \cup Owned(f.user, ErasedKinds))
              /\ UNCHANGED <<routes, written, issued, blocked>>
           \/ /\ ~Open(f.user)
              /\ Uses(t, {})
              /\ UNCHANGED <<routes, identity, doors, reserved, blocked>>
     \/ Refused(c)

(* Requests for a refund and renewals come and go.                           *)
Block(u) ==
  /\ Open(u)
  /\ blocked' = IF u \in blocked THEN blocked \ {u} ELSE blocked \cup {u}
  /\ UNCHANGED <<routes, identity, doors, tokens, reserved, flight>>

(* Whatever has a time to live is useless after it, deleted or not.          *)
Expire ==
  /\ \/ /\ \E i \in Ids : token[i] # None /\ Drops({i})
        /\ UNCHANGED session
     \/ /\ \E i \in Sessions : /\ session[i] # None
                               /\ session' = [session EXCEPT ![i] = None]
        /\ UNCHANGED tokens
  /\ UNCHANGED <<routes, identity, issued, passkey, reserved, blocked, flight>>

----------------------------------------------------------------------------
(* Some accounts are there already: with a password, or from the time before *)
(* passwords, and one of them is signed in.                                  *)
First(w) == [word |-> w, changed |-> 1]
AccountsInit ==
  /\ routes \in SUBSET RouteNames
  /\ account \in [Users -> {"none", "open"}]
  /\ \A m \in Mails : \A u, v \in At(m) : u = v
  /\ credential \in [Users -> {First(w) : w \in Words} \cup {None}]
  /\ \A u \in Users : credential[u] # None => Open(u)
  /\ written = 1
  /\ \E signed \in SUBSET {u \in Users : Open(u)} :
       /\ Cardinality(signed) <= 1
       /\ session \in [Sessions -> {[user |-> u, word |-> Word(u)] : u \in signed} \cup {None}]
       /\ \A i \in Sessions : session[i] # None => i = 1
  /\ issued = IF MaxSessions = 0 THEN 0 ELSE 1
  /\ token = [i \in Ids |-> None] /\ minted = 0 /\ spent = {} /\ belated = {}
  /\ claimed = {} /\ passkey = {}
  /\ reserved = [m \in Mails |-> None]
  /\ blocked = {}
  /\ flight = [c \in Requests |-> NoFlight]

Serves(route) == route \in routes

PasswordStep ==
  \/ \E c \in Requests, m \in Mails, w \in Words : Serves("register") /\ AskRegister(c, m, w)
  \/ \E c \in Requests : SendLink(c)
  \/ \E i \in Ids : Serves("link") /\ Confirm(i)
  \/ \E i \in Ids, w \in Words : Serves("link") /\ UseLink(i, w)
  \/ \E c \in Requests, u \in Users : Serves("login") /\ Login(c, u)
  \/ \E c \in Requests : LoginCommit(c) \/ Verify(c)
  \/ \E c \in Requests, w \in Words : ChangePassword(c, w) \/ SetPassword(c, w)

SessionStep ==
  \/ \E c \in Requests, i \in Sessions, route \in SessionRoutes :
       Serves(route) /\ Present(c, i, route)
  \/ \E c \in Requests : Revoke(c)
  \/ \E i \in Sessions : Serves("logout") /\ Logout(i)

MagicStep ==
  \/ \E c \in Requests, m \in Mails : Serves("magic") /\ AskMagic(c, m)
  \/ \E c \in Requests : Reserve(c) \/ Promote(c)
  \/ \E m \in Mails : ReservationExpires(m)
  \/ \E i \in Ids : Serves("magic") /\ Cross(i)
  \/ \E c \in Requests, i \in Ids : Serves("setup") /\ EnterSetup(c, i)
  \/ \E c \in Requests, w \in Words : CompleteSetup(c, w)

PasskeyStep ==
  \/ \E c \in Requests : Options(c) \/ Enrol(c) \/ DropPasskey(c)
  \/ Serves("key") /\ LoginOptions
  \/ \E i \in Ids, u \in Users : Serves("key") /\ PasskeyLogin(i, u)

ErasureStep ==
  \/ \E c \in Requests : ReauthPassword(c) \/ AnswerReauth(c) \/ ReauthPasskey(c) \/ Erase(c)
  \/ \E u \in Users : Serves("erase") /\ Block(u)

AccountsNext == PasswordStep \/ SessionStep \/ MagicStep \/ PasskeyStep \/ ErasureStep \/ Expire

AccountsSpec == AccountsInit /\ [][AccountsNext]_accountVars

----------------------------------------------------------------------------
(* Type invariant.                                                           *)
AccountsTypeOK ==
  /\ routes \subseteq RouteNames
  /\ account \in [Users -> {"none", "open", "erased"}]
  /\ credential \in [Users -> Credential \cup {None}] /\ written \in Nat
  /\ session \in [Sessions -> Session \cup {None}] /\ issued \in 0..MaxSessions
  /\ token \in [Ids -> Token \cup {None}] /\ minted \in 0..MaxTokens /\ spent \subseteq Ids
  /\ claimed \subseteq Users /\ passkey \subseteq Users /\ blocked \subseteq Users /\ belated \subseteq Users
  /\ reserved \in [Mails -> Requests \cup {None}]
  /\ flight \in [Requests -> Flight]

(* A new password ends every session but the one that set it, however the    *)
(* password changes and whatever was in flight: a live session was made by,  *)
(* or stayed under, the password its account has now.                        *)
OnlyCurrent ==
  \A i \in Sessions : session[i] # None => session[i].word = Word(session[i].user)

(* Nothing that was given out or in flight when an account was erased gives  *)
(* it a session or a way to one: no session, setup session or passkey of an  *)
(* account that is not open can be used, but for one way the code has. A     *)
(* request for passkey options that was authenticated before stores its      *)
(* challenge after the erasure, and another of those requests answers it.    *)
NoLeftoverEnters ==
  LET here(u) == Open(u) \/ u \in belated IN
  /\ \A i \in Sessions : session[i] # None => here(session[i].user)
  /\ \A i \in Ids : Has(i, "entry") => Open(token[i].of)
  /\ \A u \in passkey : here(u)

(* A token that was used is never a row again, whoever mints it: the outbox  *)
(* derives the token of a reset mail from its job and mints it again.        *)
SpentStaysSpent == \A i \in spent : token[i] = None
=============================================================================
