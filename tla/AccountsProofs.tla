--------------------------- MODULE AccountsProofs ---------------------------
(* Theorems about Accounts and ResetOutbox, for every set of users,          *)
(* addresses and words, any number of requests, sessions and tokens.         *)
EXTENDS ResetOutbox, TLAPS

(* Identity: a password's changed_at has been given out.                     *)
CredentialsOK ==
  /\ account \in [Users -> {"none", "open", "erased"}]
  /\ credential \in [Users -> Credential \cup {None}] /\ written \in Nat
  /\ claimed \subseteq Users
  /\ \A u \in Users : credential[u] # None => credential[u].changed <= written

(* An id belongs to what was minted; what an account owns names an account,  *)
(* and a link that creates one brings its password.                          *)
TokenOK(t) ==
  /\ t.kind \in UserKinds => t.of \in Users
  /\ t.kind = "confirm" => t.word \in Words
TokensOK ==
  /\ token \in [Ids -> Token \cup {None}] /\ minted \in 0..MaxTokens /\ spent \subseteq Ids
  /\ \A i \in Ids : token[i] # None => i <= minted /\ TokenOK(token[i])

SessionsOK ==
  /\ session \in [Sessions -> Session \cup {None}] /\ issued \in 0..MaxSessions
  /\ \A i \in Sessions : session[i] # None => i <= issued

(* A challenge to enrol a passkey is an open account's, or was given out     *)
(* after the erasure, which is final.                                        *)
Stays(u) == Open(u) \/ u \in belated
BelatedOK ==
  /\ belated \subseteq Users /\ \A u \in belated : account[u] = "erased"
  /\ \A i \in Ids : Has(i, "enrol") => Stays(token[i].of)

OthersOK ==
  /\ routes \subseteq RouteNames
  /\ passkey \subseteq Users /\ blocked \subseteq Users
  /\ reserved \in [Mails -> Requests \cup {None}]

(* What a request has read was true once, and is told from what is there now *)
(* by the ids: a session, a token or a changed_at is never given twice.      *)
Here(f)     == f.user \in Users /\ account[f.user] # "none" /\ f.session \in 1..issued
                 /\ (session[f.session] # None => session[f.session].user = f.user)
Registers(f) == f.user = None => f.word \in Words
SignsIn(f)  == f.user \in Users /\ f.changed \in 0..written
                 /\ (SameHash(f) => Stays(f.user) /\ f.word = Word(f.user))
SetsUp(f)   == f.user \in Users /\ f.token \in 1..minted
                 /\ (Has(f.token, "entry") => token[f.token].of = f.user)
FlightOK(f) ==
  /\ f.route \in SessionRoutes \cup {"answered"} => Here(f)
  /\ f.route = "register" => Registers(f)
  /\ f.route = "login" => SignsIn(f)
  /\ f.route = "setup" => SetsUp(f)
FlightsOK == flight \in [Requests -> Flight] /\ \A c \in Requests : FlightOK(flight[c])

IInv == /\ CredentialsOK /\ TokensOK /\ SessionsOK /\ BelatedOK /\ OthersOK /\ FlightsOK
        /\ OnlyCurrent /\ NoLeftoverEnters

LEMMA Routes ==
  /\ NoFlight \in Flight /\ FlightOK(NoFlight)
  /\ None \notin Int /\ None \notin Users /\ None \notin Words /\ None \notin Mails
<1>1. None \notin Int /\ None \notin Users /\ None \notin Words /\ None \notin Mails
  BY AccountsAssumption
<1>2. NoFlight \in Flight
  BY DEF NoFlight, Flight
<1>3. NoFlight.route = None
  BY DEF NoFlight
<1>4. None \notin SessionRoutes \cup {"register", "login", "setup", "answered"}
  <2>1. None \notin RouteNames
    BY NoneAssumption
  <2>2. SessionRoutes \cup {"register", "login", "setup", "answered"} \subseteq RouteNames
    BY DEF RouteNames
  <2>3. QED
    BY <2>1, <2>2
<1>5. QED
  BY <1>1, <1>2, <1>3, <1>4 DEF FlightOK

-----------------------------------------------------------------------------
(* How the tables move                                                       *)

(* A token that lets somebody in is gone, the same, or new.                  *)
TokensMove ==
  /\ TokensOK' /\ minted' >= minted /\ belated \subseteq belated'
  /\ \A i \in 1..minted : Has(i, "entry")' => token'[i] = token[i]

(* So is a session, which may have another word.                             *)
SessionsMove ==
  /\ issued' \in 0..MaxSessions /\ issued' >= issued
  /\ \A i \in 1..issued : session'[i] # None =>
                            session[i] # None /\ session'[i].user = session[i].user

(* A password that was written is new; an account that goes takes its        *)
(* password along, and stays away.                                           *)
CredentialsMove ==
  /\ CredentialsOK' /\ written' >= written
  /\ \A u \in Users : \/ credential'[u] = None
                      \/ credential'[u] = credential[u]
                      \/ credential'[u].changed > written
  /\ \A u \in Users :
       /\ Open(u) => Open(u)' \/ (account'[u] = "erased" /\ credential'[u] = None)
       /\ account[u] = "erased" => account'[u] = "erased"

LEMMA FlightStays ==
  ASSUME IInv, TokensMove, SessionsMove, CredentialsMove, NEW f \in Flight, FlightOK(f)
  PROVE  FlightOK(f)'
<1>1. ASSUME f.route \in SessionRoutes \cup {"answered"} PROVE Here(f)'
  <2>1. Here(f)
    BY <1>1 DEF FlightOK
  <2>2. account'[f.user] # "none"
    BY <2>1 DEF Here, CredentialsMove, CredentialsOK, IInv, Open
  <2>3. QED
    BY <2>1, <2>2 DEF Here, SessionsMove, IInv, SessionsOK
<1>2. ASSUME f.route = "register" PROVE Registers(f)'
  BY <1>2 DEF FlightOK, Registers
<1>3. ASSUME f.route = "login" PROVE SignsIn(f)'
  <2>1. SignsIn(f)
    BY <1>3 DEF FlightOK
  <2>2. f.changed \in 0..written'
    BY <2>1 DEF SignsIn, CredentialsMove, CredentialsOK, IInv
  <2>3. ASSUME SameHash(f)' PROVE credential'[f.user] = credential[f.user] /\ SameHash(f)
    BY <2>1, <2>3 DEF SameHash, SignsIn, CredentialsMove, CredentialsOK, IInv
  <2>4. ASSUME SameHash(f)' PROVE Stays(f.user)' /\ f.word = Word(f.user)'
    BY <2>1, <2>3, <2>4 DEF SignsIn, CredentialsMove, TokensMove, Stays, Word, SameHash
  <2>5. QED
    BY <2>1, <2>2, <2>4 DEF SignsIn
<1>4. ASSUME f.route = "setup" PROVE SetsUp(f)'
  <2>1. SetsUp(f)
    BY <1>4 DEF FlightOK
  <2>2. f.token \in 1..minted'
    BY <2>1 DEF SetsUp, TokensMove, TokensOK, IInv
  <2>3. ASSUME Has(f.token, "entry")' PROVE token'[f.token].of = f.user
    BY <2>1, <2>3 DEF SetsUp, TokensMove, Has
  <2>4. QED
    BY <2>1, <2>2, <2>3 DEF SetsUp
<1>5. QED
  BY <1>1, <1>2, <1>3, <1>4 DEF FlightOK

(* A request reads something that is true now, or ends.                      *)
FlightMoves ==
  \/ flight' = flight
  \/ \E c \in Requests : \E f \in Flight : FlightOK(f)' /\ Reads(c, f)

LEMMA FlightsStay ==
  ASSUME IInv, TokensMove, SessionsMove, CredentialsMove, FlightMoves
  PROVE  FlightsOK'
<1>1. flight \in [Requests -> Flight] /\ \A c \in Requests : FlightOK(flight[c])
  BY DEF IInv, FlightsOK
<1>2. \A c \in Requests : FlightOK(flight[c])'  \/ ~(flight'[c] = flight[c])
  <2>1. SUFFICES ASSUME NEW c \in Requests, flight'[c] = flight[c] PROVE FlightOK(flight[c])'
    OBVIOUS
  <2>2. \A f \in Flight : FlightOK(f) => FlightOK(f)'
    BY FlightStays
  <2>3. \A f \in Flight : f = flight[c] => FlightOK(f)'
    BY <1>1, <2>2
  <2>4. \A f \in Flight : f = flight'[c] => FlightOK(f)'
    BY <2>1, <2>3
  <2>5. QED
    BY <1>1, <2>1, <2>4
<1>3. CASE flight' = flight
  BY <1>1, <1>2, <1>3 DEF FlightsOK
<1>4. CASE \E c \in Requests : \E f \in Flight : FlightOK(f)' /\ Reads(c, f)
  <2>1. PICK c \in Requests : \E f \in Flight : FlightOK(f)' /\ Reads(c, f)
    BY <1>4
  <2>2. PICK f \in Flight : FlightOK(f)' /\ Reads(c, f)
    BY <2>1
  <2>3. flight' = [flight EXCEPT ![c] = f]
    BY <2>2 DEF Reads
  <2>4. flight' \in [Requests -> Flight]
    BY <1>1, <2>3
  <2>5. \A d \in Requests : FlightOK(flight[d])'
    <3>1. TAKE d \in Requests
    <3>2. CASE d = c
      <4>1. flight'[d] = f
        BY <1>1, <2>3, <3>2
      <4>2. QED
        BY <2>2, <4>1
    <3>3. CASE d # c
      <4>1. flight'[d] = flight[d]
        BY <1>1, <2>3, <3>3
      <4>2. QED
        BY <1>2, <4>1
    <3>4. QED
      BY <3>2, <3>3
  <2>6. QED
    BY <2>4, <2>5 DEF FlightsOK
<1>5. QED
  BY <1>3, <1>4 DEF FlightMoves

(* No token lets anybody in that did not before, or gives a passkey.         *)
NoNewEntry ==
  /\ belated' = belated
  /\ \A i \in Ids : \A k \in {"entry", "enrol"} : Has(i, k)' => token'[i] = token[i]

LEMMA TokensShrink ==
  ASSUME IInv, NEW gone,
         token' = Without(gone), minted' = minted, spent' \subseteq Ids, belated' = belated
  PROVE  TokensMove /\ NoNewEntry
<1>1. TokensOK
  BY DEF IInv
<1>2. \A i \in Ids : token'[i] = IF i \in gone THEN None ELSE token[i]
  BY DEF Without
<1>3. token' \in [Ids -> Token \cup {None}]
  BY <1>1, <1>2 DEF Without, TokensOK
<1>4. TokensOK'
  BY <1>1, <1>2, <1>3 DEF TokensOK, TokenOK
<1>5. \A i \in Ids : token'[i] # None => token'[i] = token[i]
  BY <1>2
<1>6. QED
  BY <1>1, <1>4, <1>5 DEF TokensMove, NoNewEntry, Has, TokensOK

LEMMA TokensUsed ==
  ASSUME IInv, NEW i \in Ids, NEW gone, Uses(i, gone)
  PROVE  TokensMove /\ NoNewEntry
<1>1. spent' \subseteq Ids
  BY DEF Uses, IInv, TokensOK
<1>2. QED
  BY <1>1, TokensShrink DEF Uses

LEMMA TokensDropped ==
  ASSUME IInv, NEW gone, Drops(gone)
  PROVE  TokensMove /\ NoNewEntry
  BY TokensShrink DEF Drops, IInv, TokensOK

LEMMA TokensKept ==
  ASSUME IInv, UNCHANGED tokens
  PROVE  TokensMove /\ NoNewEntry
  BY DEF tokens, IInv, TokensOK, TokensMove, NoNewEntry, TokenOK

LEMMA TokensMinted ==
  ASSUME IInv, NEW t \in Token, TokenOK(t), NEW gone, minted < MaxTokens, minted' = minted + 1,
         token' = [Without(gone) EXCEPT ![minted + 1] = t], spent' \subseteq Ids,
         belated \subseteq belated'
  PROVE  /\ TokensMove
         /\ t.kind \notin {"entry", "enrol"} /\ belated' = belated => NoNewEntry
         /\ \A i \in Ids : i # minted + 1 /\ token'[i] # None => token'[i] = token[i]
         /\ minted + 1 \in Ids /\ token'[minted + 1] = t
<1>1. TokensOK /\ MaxTokens \in Nat
  BY AccountsAssumption DEF IInv
<1>2. minted + 1 \in Ids /\ minted' \in 0..MaxTokens
  BY <1>1 DEF TokensOK, Ids
<1>3. \A i \in Ids : token'[i] = IF i = minted + 1 THEN t ELSE IF i \in gone THEN None ELSE token[i]
  BY <1>2 DEF Without
<1>4. token' \in [Ids -> Token \cup {None}]
  BY <1>1, <1>3 DEF Without, TokensOK
<1>5. \A i \in Ids : token'[i] # None => i <= minted' /\ TokenOK(token'[i])
  BY <1>1, <1>2, <1>3 DEF TokensOK, Ids
<1>6. TokensOK'
  BY <1>2, <1>4, <1>5 DEF TokensOK, TokenOK
<1>7. \A i \in Ids : i # minted + 1 /\ token'[i] # None => token'[i] = token[i]
  BY <1>3
<1>8. TokensMove
  BY <1>1, <1>6, <1>7 DEF TokensMove, TokensOK, Has, Ids
<1>9. ASSUME t.kind \notin {"entry", "enrol"}, belated' = belated PROVE NoNewEntry
  BY <1>2, <1>3, <1>7, <1>9 DEF NoNewEntry, Has
<1>10. QED
  BY <1>2, <1>3, <1>7, <1>8, <1>9

-----------------------------------------------------------------------------
(* The invariant, put together                                               *)

LEMMA Together ==
  ASSUME IInv, TokensMove, SessionsMove, SessionsOK', CredentialsMove, OthersOK', FlightMoves,
         BelatedOK', OnlyCurrent', NoLeftoverEnters'
  PROVE  IInv'
  BY FlightsStay DEF IInv, TokensMove, CredentialsMove

(* Nobody comes in, no password changes.                                     *)
LEMMA DoorsKept ==
  ASSUME IInv, UNCHANGED <<identity, doors>>
  PROVE  SessionsMove /\ SessionsOK' /\ CredentialsMove /\ OnlyCurrent'
<1>1. UNCHANGED <<account, credential, written, claimed, session, issued, passkey>>
  BY DEF identity, doors
<1>2. SessionsOK /\ CredentialsOK /\ OnlyCurrent
  BY DEF IInv
<1>3. SessionsOK' /\ CredentialsOK' /\ OnlyCurrent'
  BY <1>1, <1>2 DEF SessionsOK, CredentialsOK, OnlyCurrent, Word
<1>4. SessionsMove
  BY <1>1, <1>2 DEF SessionsMove, SessionsOK
<1>5. CredentialsMove
  BY <1>1, <1>2, <1>3 DEF CredentialsMove, CredentialsOK, Open
<1>6. QED
  BY <1>2, <1>3, <1>4, <1>5

(* Whoever may come in by what there is, is here after the step too.         *)
AccountsStay == \A u \in Users : /\ Open(u) => Open(u)'
                                 /\ account[u] = "erased" => account'[u] = "erased"

LEMMA StillHere ==
  ASSUME IInv, NoNewEntry, AccountsStay,
         \A i \in Sessions : session'[i] # None => Stays(session[i].user)',
         \A u \in passkey' : Stays(u)'
  PROVE  NoLeftoverEnters' /\ BelatedOK'
<1>1. ASSUME NEW i \in Ids, NEW k \in {"entry", "enrol"}, Has(i, k)'
      PROVE  token'[i] = token[i] /\ Has(i, k) /\ token[i].of \in Users
  <2>1. token'[i] = token[i] /\ Has(i, k)
    BY <1>1 DEF NoNewEntry, Has
  <2>2. QED
    BY <2>1 DEF IInv, TokensOK, TokenOK, Has, UserKinds
<1>2. \A u \in Users : Stays(u) => Stays(u)'
  BY DEF AccountsStay, NoNewEntry, Stays, Open
<1>3. \A i \in Ids : Has(i, "entry")' => Open(token[i].of)'
  BY <1>1 DEF IInv, NoLeftoverEnters, AccountsStay, Open
<1>4. \A i \in Ids : Has(i, "enrol")' => Stays(token[i].of)'
  <2>1. ASSUME NEW i \in Ids, Has(i, "enrol")' PROVE Stays(token[i].of)'
    <3>1. token'[i] = token[i] /\ token[i].of \in Users /\ Stays(token[i].of)
      BY <1>1, <2>1 DEF IInv, BelatedOK
    <3>2. QED
      BY <1>2, <3>1 DEF Stays, Open
  <2>2. QED
    BY <2>1
<1>5. belated' \subseteq Users /\ \A u \in belated' : account'[u] = "erased"
  BY DEF NoNewEntry, IInv, BelatedOK, AccountsStay
<1>6. QED
  BY <1>3, <1>4, <1>5 DEF NoLeftoverEnters, BelatedOK, Stays

LEMMA NobodyEnters ==
  ASSUME IInv, UNCHANGED <<identity, doors>>, TokensMove, NoNewEntry, FlightMoves, OthersOK'
  PROVE  IInv'
<1>1. UNCHANGED <<account, session, passkey>>
  BY DEF identity, doors
<1>2. AccountsStay
  BY <1>1 DEF AccountsStay, Open
<1>3. /\ \A i \in Sessions : session'[i] # None => Stays(session[i].user)'
      /\ \A u \in passkey' : Stays(u)'
  BY <1>1 DEF IInv, NoLeftoverEnters, NoNewEntry, Stays, Open
<1>4. QED
  BY <1>2, <1>3, StillHere, DoorsKept, Together

LEMMA OthersKept ==
  ASSUME IInv, UNCHANGED <<routes, passkey, reserved, blocked>>
  PROVE  OthersOK'
  BY DEF IInv, OthersOK

LEMMA EndsAccess ==
  ASSUME IInv, TokensMove, SessionsMove, CredentialsMove, NEW c \in Requests, Goes(c)
  PROVE  FlightMoves
  BY FlightStays, Routes DEF Goes, FlightMoves, Reads

-----------------------------------------------------------------------------
(* Steps by which nobody enters                                              *)

LEMMA InFlight ==
  ASSUME IInv, NEW c \in Requests
  PROVE  flight[c] \in Flight /\ FlightOK(flight[c])
  BY DEF IInv, FlightsOK

LEMMA RowTypes ==
  ASSUME IInv
  PROVE  /\ \A u \in Users : Changed(u) \in Nat /\ Word(u) \in Words \cup {None} /\ Mail[u] \in Mails
         /\ \A u \in Users : credential[u] # None => Changed(u) <= written /\ Word(u) \in Words
  BY AccountsAssumption DEF IInv, CredentialsOK, Credential, Changed, Word

(* A request that changes nothing but what it has read.                      *)
LEMMA Quiet ==
  ASSUME IInv, NEW c \in Requests, NEW f \in Flight, FlightOK(f), Reads(c, f),
         UNCHANGED <<routes, identity, doors, tokens, reserved, blocked>>
  PROVE  IInv'
<1>1. TokensMove /\ NoNewEntry
  BY TokensKept
<1>2. SessionsMove /\ CredentialsMove
  BY DoorsKept
<1>3. FlightMoves
  BY <1>1, <1>2, FlightStays DEF FlightMoves
<1>4. OthersOK'
  BY OthersKept DEF doors
<1>5. QED
  BY <1>1, <1>3, <1>4, NobodyEnters

LEMMA RefusedStep == ASSUME IInv, NEW c \in Requests, Refused(c) PROVE IInv'
  BY Quiet, Routes DEF Refused, Goes, Reads

LEMMA AskRegisterStep ==
  ASSUME IInv, NEW c \in Requests, NEW m \in Mails, NEW w \in Words, AskRegister(c, m, w)
  PROVE  IInv'
<1> DEFINE f == [NoFlight EXCEPT !.route = "register", !.mail = m, !.word = w]
<1>1. CASE Reads(c, f)
  <2>1. f \in Flight
    BY DEF NoFlight, Flight, RouteNames
  <2>2. FlightOK(f)
    BY DEF FlightOK, NoFlight, Registers, SessionRoutes
  <2>3. QED
    BY <1>1, <2>1, <2>2, Quiet DEF AskRegister
<1>2. CASE \E u \in At(m) : Reads(c, [NoFlight EXCEPT !.route = "register", !.mail = m, !.user = u,
                                                      !.changed = Changed(u)])
  <2>1. PICK u \in At(m) : Reads(c, [NoFlight EXCEPT !.route = "register", !.mail = m, !.user = u,
                                                     !.changed = Changed(u)])
    BY <1>2
  <2> DEFINE g == [NoFlight EXCEPT !.route = "register", !.mail = m, !.user = u, !.changed = Changed(u)]
  <2>2. u \in Users /\ u # None /\ Changed(u) \in Nat
    BY RowTypes, Routes DEF At
  <2>3. g \in Flight
    BY <2>2 DEF NoFlight, Flight, RouteNames
  <2>4. FlightOK(g)
    BY <2>2 DEF FlightOK, NoFlight, Registers, SessionRoutes
  <2>5. QED
    BY <2>1, <2>3, <2>4, Quiet DEF AskRegister
<1>3. QED
  BY <1>1, <1>2 DEF AskRegister

LEMMA LoginStep ==
  ASSUME IInv, NEW c \in Requests, NEW u \in Users, Login(c, u)
  PROVE  IInv'
<1> DEFINE f == [NoFlight EXCEPT !.route = "login", !.user = u, !.changed = Changed(u), !.word = Word(u)]
<1>1. credential[u] # None /\ Stays(u)
  BY DEF Login, Stays
<1>2. Changed(u) \in Nat /\ Changed(u) \in 0..written /\ Word(u) \in Words
  BY <1>1, RowTypes DEF IInv, CredentialsOK
<1>3. f \in Flight
  BY <1>2 DEF NoFlight, Flight, RouteNames
<1>4. FlightOK(f)
  BY <1>1, <1>2 DEF FlightOK, NoFlight, SignsIn, SessionRoutes
<1>5. QED
  BY <1>3, <1>4, Quiet DEF Login

LEMMA PresentStep ==
  ASSUME IInv, NEW c \in Requests, NEW i \in Sessions, NEW route \in SessionRoutes, Present(c, i, route)
  PROVE  IInv'
<1> DEFINE u == session[i].user
           f == [NoFlight EXCEPT !.route = route, !.user = u, !.session = i, !.mail = Address(u)]
<1>1. session[i] # None /\ u \in Users /\ i \in 1..issued /\ Stays(u)
  BY DEF Present, IInv, SessionsOK, Session, Sessions, NoLeftoverEnters, Stays
<1>2. account[u] # "none"
  BY <1>1 DEF Stays, Open, IInv, BelatedOK
<1>3. Address(u) \in Mails \cup {None}
  BY <1>1, RowTypes DEF Address
<1>4. f \in Flight
  BY <1>1, <1>3 DEF NoFlight, Flight, RouteNames
<1>5. /\ f.route = route /\ f.user = u /\ f.session = i
  BY DEF NoFlight
<1>6. Here(f)
  BY <1>1, <1>2, <1>5 DEF Here
<1>7. route \notin {"register", "login", "setup"}
  BY DEF SessionRoutes
<1>8. FlightOK(f)
  BY <1>5, <1>6, <1>7 DEF FlightOK
<1>9. QED
  BY <1>4, <1>8, Quiet DEF Present

LEMMA VerifyStep == ASSUME IInv, NEW c \in Requests, Verify(c) PROVE IInv'
<1> DEFINE f == flight[c]
<1>1. f \in Flight /\ FlightOK(f) /\ f.route \in {"change", "reauth_word"}
  BY InFlight DEF Verify
<1>2. CASE Reads(c, [f EXCEPT !.changed = Changed(f.user)])
  <2>1. Here(f)
    BY <1>1 DEF FlightOK, SessionRoutes
  <2>2. Changed(f.user) \in Nat
    BY <2>1, RowTypes DEF Here
  <2> DEFINE g == [f EXCEPT !.changed = Changed(f.user)]
  <2>3. g \in Flight /\ g.route = f.route /\ g.user = f.user /\ g.session = f.session
    BY <1>1, <2>2 DEF Flight
  <2>4. FlightOK(g)
    BY <1>1, <2>1, <2>3 DEF FlightOK, Here
  <2>5. QED
    BY <1>2, <2>3, <2>4, Quiet DEF Verify
<1>3. CASE Goes(c)
  BY <1>3, RefusedStep DEF Verify, Refused
<1>4. QED
  BY <1>2, <1>3 DEF Verify

LEMMA AskMagicStep ==
  ASSUME IInv, NEW c \in Requests, NEW m \in Mails, AskMagic(c, m)
  PROVE  IInv'
<1> DEFINE f == [NoFlight EXCEPT !.route = "magic", !.mail = m]
<1>1. f \in Flight /\ FlightOK(f)
  BY DEF NoFlight, Flight, RouteNames, FlightOK, SessionRoutes
<1>2. QED
  BY <1>1, Quiet DEF AskMagic

LEMMA EnterSetupStep ==
  ASSUME IInv, NEW c \in Requests, NEW i \in Ids, EnterSetup(c, i)
  PROVE  IInv'
<1> DEFINE f == [NoFlight EXCEPT !.route = "setup", !.user = token[i].of, !.token = i]
<1>1. i \in 1..minted /\ token[i].of \in Users
  BY DEF EnterSetup, Has, IInv, TokensOK, TokenOK, Ids, UserKinds
<1>2. f \in Flight
  BY <1>1 DEF NoFlight, Flight, RouteNames
<1>3. FlightOK(f)
  BY <1>1 DEF FlightOK, NoFlight, SetsUp, SessionRoutes
<1>4. QED
  BY <1>2, <1>3, Quiet DEF EnterSetup

LEMMA ReserveStep == ASSUME IInv, NEW c \in Requests, Reserve(c) PROVE IInv'
<1> DEFINE f == [flight[c] EXCEPT !.route = "deliver"]
<1>1. CASE Refused(c)
  BY <1>1, RefusedStep
<1>2. CASE Reads(c, f) /\ UNCHANGED <<routes, identity, doors, tokens, blocked>>
           /\ reserved' = [reserved EXCEPT ![flight[c].mail] = c]
  <2>1. f \in Flight /\ f.route = "deliver"
    BY InFlight DEF Flight, RouteNames
  <2>2. FlightOK(f)
    BY <2>1 DEF FlightOK, SessionRoutes
  <2>3. TokensMove /\ NoNewEntry
    BY <1>2, TokensKept
  <2>4. SessionsMove /\ CredentialsMove
    BY <1>2, DoorsKept
  <2>5. FlightMoves
    BY <1>2, <2>1, <2>2, <2>3, <2>4, FlightStays DEF FlightMoves
  <2>6. OthersOK'
    BY <1>2 DEF IInv, OthersOK, doors
  <2>7. QED
    BY <1>2, <2>3, <2>5, <2>6, NobodyEnters
<1>3. QED
  BY <1>1, <1>2 DEF Reserve

(* A request mints a token that lets nobody in by itself, and ends.          *)
LEMMA MintingStep ==
  ASSUME IInv, NEW c \in Requests, NEW t \in Token, TokenOK(t), t.kind \notin {"entry", "enrol"}, NEW gone,
         Mints(t, gone), Goes(c), UNCHANGED <<routes, identity, doors, blocked>>, OthersOK'
  PROVE  IInv'
<1>1. TokensMove /\ NoNewEntry
  BY TokensMinted DEF Mints, IInv, TokensOK
<1>2. FlightMoves
  BY <1>1, DoorsKept, EndsAccess
<1>3. QED
  BY <1>1, <1>2, NobodyEnters

LEMMA SendLinkStep == ASSUME IInv, NEW c \in Requests, SendLink(c) PROVE IInv'
<1> DEFINE f == flight[c]
           t == LinkFor(f)
<1>1. f \in Flight /\ Registers(f)
  BY InFlight DEF SendLink, FlightOK
<1>2. /\ t.kind \in LinkKinds /\ t.of \in Mails \cup {None}
      /\ t.changed \in Nat \cup {None} /\ t.word \in Words \cup {None}
  BY <1>1 DEF LinkFor, LinkKinds, Flight
<1>3. t = [kind |-> t.kind, of |-> t.of, changed |-> t.changed, word |-> t.word]
  BY DEF LinkFor
<1>4. t \in Token
  BY <1>2, <1>3 DEF Token, MailKinds
<1>5. TokenOK(t) /\ t.kind \notin {"entry", "enrol"}
  BY <1>1 DEF LinkFor, TokenOK, Registers, UserKinds
<1>6. OthersOK'
  BY OthersKept DEF SendLink, doors
<1>7. QED
  BY <1>4, <1>5, <1>6, MintingStep DEF SendLink

LEMMA NewTokens ==
  /\ \A u \in Users : \A kind \in UserKinds :
       NewToken(kind, u) \in Token /\ TokenOK(NewToken(kind, u)) /\ NewToken(kind, u).kind = kind
  /\ \A m \in Mails \cup {None} : \A kind \in {"magic", "login"} :
       NewToken(kind, m) \in Token /\ TokenOK(NewToken(kind, m)) /\ NewToken(kind, m).kind = kind
<1>1. \A u \in Users : \A kind \in UserKinds : NewToken(kind, u) \in Token
  BY DEF NewToken, Token
<1>2. \A m \in Mails \cup {None} : \A kind \in {"magic", "login"} : NewToken(kind, m) \in Token
  BY DEF NewToken, Token, MailKinds
<1>3. QED
  BY <1>1, <1>2 DEF NewToken, TokenOK, UserKinds

LEMMA PromoteStep == ASSUME IInv, NEW c \in Requests, Promote(c) PROVE IInv'
<1> DEFINE m == flight[c].mail
<1>1. OthersOK'
  BY DEF Promote, IInv, OthersOK, doors
<1>2. CASE UNCHANGED tokens
  <2>1. TokensMove /\ NoNewEntry
    BY <1>2, TokensKept
  <2>2. QED
    BY <1>1, <2>1, DoorsKept, EndsAccess, NobodyEnters DEF Promote
<1>3. CASE Mints(NewToken("magic", m), Links(m, {"magic"}))
  <2>1. m \in Mails \cup {None}
    BY InFlight DEF Flight
  <2>2. QED
    BY <1>1, <1>3, <2>1, NewTokens, MintingStep DEF Promote
<1>4. QED
  BY <1>2, <1>3 DEF Promote

(* A challenge minted for an account that is erased by now is written down.  *)
LEMMA EnrolMinted ==
  ASSUME IInv, NEW c \in Requests, Mints(NewToken("enrol", flight[c].user), {}), Goes(c),
         flight[c].route = "options", UNCHANGED <<routes, identity, doors, blocked>>, OthersOK'
  PROVE  IInv'
<1> DEFINE u == flight[c].user
           t == NewToken("enrol", u)
<1>1. u \in Users /\ account[u] \in {"open", "erased"}
  BY InFlight DEF FlightOK, Here, SessionRoutes, IInv, CredentialsOK
<1>2. t \in Token /\ TokenOK(t) /\ t.kind = "enrol" /\ t.of = u
  BY <1>1, NewTokens DEF UserKinds, NewToken
<1>3. belated' = IF Open(u) THEN belated ELSE belated \cup {u}
  BY <1>2 DEF Mints
<1>4. /\ TokensMove
      /\ \A i \in Ids : i # minted + 1 /\ token'[i] # None => token'[i] = token[i]
      /\ minted + 1 \in Ids /\ token'[minted + 1] = t
  BY <1>2, <1>3, TokensMinted DEF Mints, IInv, TokensOK
<1>5. SessionsMove /\ SessionsOK' /\ CredentialsMove /\ OnlyCurrent'
  BY DoorsKept
<1>6. UNCHANGED <<account, session, passkey>>
  BY DEF identity, doors
<1>7. \A v \in Users : Stays(v) => Stays(v)'
  BY <1>3, <1>6 DEF Stays, Open
<1>8. ASSUME NEW i \in Ids, NEW k \in {"entry", "enrol"}, Has(i, k)'
      PROVE  IF i = minted + 1 THEN token'[i] = t ELSE token'[i] = token[i] /\ Has(i, k)
  BY <1>4, <1>8 DEF Has
<1>9. BelatedOK'
  <2>1. ASSUME NEW i \in Ids, Has(i, "enrol")' PROVE Stays(token[i].of)'
    <3>1. CASE i = minted + 1
      BY <1>2, <1>3, <1>4, <1>6, <3>1 DEF Stays, Open
    <3>2. CASE i # minted + 1
      BY <1>3, <1>6, <1>8, <2>1, <3>2 DEF IInv, BelatedOK, Stays, Open
    <3>3. QED
      BY <3>1, <3>2
  <2>2. QED
    BY <1>1, <1>3, <1>6, <2>1 DEF IInv, BelatedOK, Open
<1>10. NoLeftoverEnters'
  <2>1. \A i \in Ids : Has(i, "entry")' => Open(token[i].of)'
    BY <1>2, <1>6, <1>8 DEF IInv, NoLeftoverEnters, Open, Has
  <2>2. QED
    BY <1>3, <1>6, <2>1 DEF IInv, NoLeftoverEnters, Open
<1>11. FlightMoves
  BY <1>4, <1>5, EndsAccess
<1>12. QED
  BY <1>4, <1>5, <1>9, <1>10, <1>11, Together

LEMMA OptionsStep == ASSUME IInv, NEW c \in Requests, Options(c) PROVE IInv'
<1>1. OthersOK'
  BY OthersKept DEF Options, doors
<1>2. flight[c].user \in Users
  BY InFlight DEF Options, FlightOK, Here, SessionRoutes
<1>3. CASE Mints(NewToken("enrol", flight[c].user), {})
  BY <1>1, <1>3, EnrolMinted DEF Options
<1>4. CASE Mints(NewToken("reauth", flight[c].user), {})
  BY <1>1, <1>2, <1>4, NewTokens, MintingStep DEF Options, UserKinds
<1>5. CASE UNCHANGED tokens
  BY <1>1, <1>5, TokensKept, DoorsKept, EndsAccess, NobodyEnters DEF Options
<1>6. QED
  BY <1>3, <1>4, <1>5 DEF Options

LEMMA ProofStep ==
  ASSUME IInv, NEW c \in Requests, flight[c].route \in SessionRoutes \cup {"answered"},
         Mints(NewToken("proof", flight[c].user), {}), Goes(c),
         UNCHANGED <<routes, identity, doors, reserved, blocked>>
  PROVE  IInv'
<1>1. OthersOK'
  BY OthersKept DEF doors
<1>2. flight[c].user \in Users
  BY InFlight DEF FlightOK, Here
<1>3. QED
  BY <1>1, <1>2, NewTokens, MintingStep DEF UserKinds

LEMMA ReauthStep ==
  ASSUME IInv, NEW c \in Requests, ReauthPassword(c) \/ AnswerReauth(c) \/ ReauthPasskey(c)
  PROVE  IInv'
<1>1. CASE Refused(c)
  BY <1>1, RefusedStep
<1>2. CASE ReauthPassword(c)
  BY <1>2, ProofStep DEF ReauthPassword, SessionRoutes
<1>3. CASE ReauthPasskey(c)
  BY <1>1, <1>3, ProofStep DEF ReauthPasskey
<1>4. CASE AnswerReauth(c) /\ ~Refused(c)
  <2>1. PICK f \in Flight : f = flight[c] /\ FlightOK(f)
    BY InFlight
  <2> DEFINE g == [f EXCEPT !.route = "answered"]
  <2>2. /\ f.route = "reauth_key" /\ Reads(c, g)
        /\ \E t \in Owned(f.user, {"reauth"}) : Uses(t, {})
        /\ UNCHANGED <<routes, identity, doors, reserved, blocked>>
    BY <1>4, <2>1 DEF AnswerReauth
  <2>3. TokensMove /\ NoNewEntry
    BY <2>2, TokensUsed DEF Owned
  <2>4. SessionsMove /\ CredentialsMove
    BY <2>2, DoorsKept
  <2>5. Here(f)
    BY <2>1, <2>2 DEF FlightOK, SessionRoutes
  <2>6. g \in Flight /\ g.route = "answered" /\ g.user = f.user /\ g.session = f.session
    BY <2>1 DEF Flight, RouteNames
  <2>7. FlightOK(g)
    BY <2>5, <2>6 DEF FlightOK, Here
  <2>8. FlightMoves
    BY <2>2, <2>3, <2>4, <2>6, <2>7, FlightStays DEF FlightMoves
  <2>9. OthersOK'
    BY <2>2, OthersKept DEF doors
  <2>10. QED
    BY <2>2, <2>3, <2>8, <2>9, NobodyEnters
<1>5. QED
  BY <1>1, <1>2, <1>3, <1>4

LEMMA AsideStep ==
  ASSUME IInv, (\E m \in Mails : ReservationExpires(m)) \/ LoginOptions \/ (\E u \in Users : Block(u))
  PROVE  IInv'
<1>1. OthersOK'
  BY DEF ReservationExpires, LoginOptions, Block, IInv, OthersOK, doors
<1>2. FlightMoves
  BY DEF ReservationExpires, LoginOptions, Block, FlightMoves
<1>3. UNCHANGED <<identity, doors>>
  BY DEF ReservationExpires, LoginOptions, Block
<1>4. TokensMove /\ NoNewEntry
  <2>1. CASE UNCHANGED tokens
    BY <2>1, TokensKept
  <2>2. CASE LoginOptions
    BY <2>2, NewTokens, TokensMinted DEF LoginOptions, Mints, IInv, TokensOK
  <2>3. QED
    BY <2>1, <2>2 DEF ReservationExpires, Block
<1>5. QED
  BY <1>1, <1>2, <1>3, <1>4, NobodyEnters

-----------------------------------------------------------------------------
(* Steps by which somebody comes in, or a password changes                   *)

LEMMA Entered ==
  ASSUME IInv, NEW u \in Users, NEW w \in Words \cup {None}, NEW revoked, Enters(u, w, revoked)
  PROVE  /\ SessionsMove /\ SessionsOK'
         /\ \A i \in Sessions : session'[i] # None =>
              \/ session'[i].user = u /\ session'[i].word = w
              \/ session'[i] = session[i] /\ i \notin revoked
<1>1. SessionsOK /\ MaxSessions \in Nat
  BY AccountsAssumption DEF IInv
<1>2. \A i \in Sessions : session'[i] = IF i = issued + 1 THEN [user |-> u, word |-> w]
                                        ELSE IF i \in revoked THEN None ELSE session[i]
  BY DEF Enters
<1>3. [user |-> u, word |-> w] \in Session
  BY DEF Session
<1>4. session' \in [Sessions -> Session \cup {None}]
  BY <1>1, <1>2, <1>3 DEF Enters, SessionsOK
<1>5. issued' = issued + 1 /\ issued' \in 0..MaxSessions /\ issued \in 0..MaxSessions
  BY <1>1 DEF Enters, SessionsOK
<1>6. \A i \in Sessions : session'[i] # None => i <= issued'
  BY <1>1, <1>2, <1>5 DEF SessionsOK, Sessions
<1>7. SessionsMove
  BY <1>1, <1>2, <1>5 DEF SessionsMove, Sessions
<1>8. QED
  BY <1>2, <1>4, <1>5, <1>6, <1>7 DEF SessionsOK

(* Sessions are only taken back.                                             *)
LEMMA SessionsTaken ==
  ASSUME IInv, session' \in [Sessions -> Session \cup {None}], issued' = issued,
         \A i \in Sessions : session'[i] # None =>
           session[i] # None /\ session'[i].user = session[i].user
  PROVE  SessionsMove /\ SessionsOK'
  BY AccountsAssumption DEF IInv, SessionsMove, SessionsOK, Sessions

LEMMA Written ==
  ASSUME IInv, NEW u \in Users, NEW w \in Words, Writes(u, w),
         account' \in [Users -> {"none", "open", "erased"}], claimed' \subseteq Users,
         AccountsStay
  PROVE  /\ CredentialsMove
         /\ Word(u)' = w /\ \A v \in Users \ {u} : Word(v)' = Word(v)
<1>1. CredentialsOK
  BY DEF IInv
<1>2. \A v \in Users : credential'[v] = IF v = u THEN [word |-> w, changed |-> written + 1]
                                        ELSE credential[v]
  BY <1>1 DEF CredentialsOK, Writes
<1>3. written \in Nat /\ written' = written + 1
  BY <1>1 DEF CredentialsOK, Writes
<1>4. [word |-> w, changed |-> written + 1] \in Credential
  BY <1>3 DEF Credential
<1>5. credential' \in [Users -> Credential \cup {None}]
  BY <1>1, <1>4 DEF CredentialsOK, Writes
<1>6. \A v \in Users : credential'[v] # None => credential'[v].changed <= written'
  <2>1. TAKE v \in Users
  <2>2. CASE v = u
    BY <1>2, <1>3, <2>2
  <2>3. CASE v # u
    <3>1. credential'[v] = credential[v] /\ credential[v] \in Credential \cup {None}
      BY <1>1, <1>2, <2>3 DEF CredentialsOK
    <3>2. credential[v] # None => credential[v].changed \in Nat /\ credential[v].changed <= written
      BY <1>1, <3>1 DEF CredentialsOK, Credential
    <3>3. QED
      BY <1>3, <3>1, <3>2
  <2>4. QED
    BY <2>2, <2>3
<1>7. CredentialsOK'
  BY <1>3, <1>5, <1>6 DEF CredentialsOK
<1>8. CredentialsMove
  BY <1>2, <1>3, <1>7 DEF CredentialsMove, AccountsStay
<1>9. [word |-> w, changed |-> written + 1] # None
  BY <1>4, NoneAssumption
<1>10. QED
  BY <1>2, <1>8, <1>9 DEF Word

(* A sign-in under the password the account has is current, and so is the    *)
(* only session of an account whose password was just written.               *)
LEMMA EntersCurrent ==
  ASSUME IInv, NEW u \in Users, NEW w \in Words \cup {None}, NEW revoked, Enters(u, w, revoked),
         Word(u)' = w, \A v \in Users \ {u} : Word(v)' = Word(v),
         Word(u)' = Word(u) \/ SessionsOf(u) \subseteq revoked
  PROVE  OnlyCurrent'
<1>1. SUFFICES ASSUME NEW i \in Sessions, session'[i] # None
               PROVE  session'[i].word = Word(session[i].user)'
  BY DEF OnlyCurrent
<1>2. CASE session'[i].user = u /\ session'[i].word = w
  BY <1>2
<1>3. CASE session'[i] = session[i] /\ i \notin revoked
  <2>1. session[i] \in Session /\ session[i].word = Word(session[i].user)
    BY <1>1, <1>3 DEF IInv, SessionsOK, OnlyCurrent
  <2>2. session[i].user \in Users
    BY <2>1 DEF Session
  <2>3. CASE session[i].user # u
    BY <1>3, <2>1, <2>2, <2>3
  <2>4. CASE session[i].user = u /\ Word(u)' = Word(u)
    BY <1>3, <2>1, <2>4
  <2>5. CASE session[i].user = u /\ SessionsOf(u) \subseteq revoked
    BY <1>1, <1>3, <2>5 DEF SessionsOf
  <2>6. QED
    BY <2>3, <2>4, <2>5
<1>4. QED
  BY <1>1, <1>2, <1>3, Entered

(* A request or a link that signs somebody in.                               *)
LEMMA SignIn ==
  ASSUME IInv, NEW u \in Users, NEW w \in Words \cup {None}, NEW revoked, Enters(u, w, revoked),
         TokensMove, NoNewEntry, CredentialsMove, FlightMoves, OthersOK', passkey' = passkey,
         Stays(u)', AccountsStay,
         Word(u)' = w, \A v \in Users \ {u} : Word(v)' = Word(v),
         Word(u)' = Word(u) \/ SessionsOf(u) \subseteq revoked
  PROVE  IInv'
<1>1. SessionsMove /\ SessionsOK'
  BY Entered
<1>2. OnlyCurrent'
  BY EntersCurrent
<1>3. \A v \in Users : Stays(v) => Stays(v)'
  BY DEF AccountsStay, NoNewEntry, Stays, Open
<1>4. \A i \in Sessions : session'[i] # None => Stays(session[i].user)'
  <2>1. TAKE i \in Sessions
  <2>2. HAVE session'[i] # None
  <2>3. CASE session'[i].user = u
    BY <2>3 DEF Stays, Open
  <2>4. CASE session'[i] = session[i]
    <3>1. session[i] \in Session /\ Stays(session[i].user)
      BY <2>2, <2>4 DEF IInv, SessionsOK, NoLeftoverEnters, Stays
    <3>2. session[i].user \in Users
      BY <3>1 DEF Session
    <3>3. QED
      BY <1>3, <2>4, <3>1, <3>2 DEF Stays, Open
  <2>5. QED
    BY <2>2, <2>3, <2>4, Entered
<1>5. \A v \in passkey' : Stays(v)'
  BY <1>3 DEF IInv, NoLeftoverEnters, OthersOK, Stays
<1>6. QED
  BY <1>1, <1>2, <1>4, <1>5, StillHere, Together

LEMMA ConfirmStep == ASSUME IInv, NEW i \in Ids, Confirm(i) PROVE IInv'
<1> DEFINE m == token[i].of
           w == token[i].word
<1>1. OthersOK' /\ FlightMoves
  BY DEF Confirm, IInv, OthersOK, doors, FlightMoves
<1>2. Uses(i, {}) /\ Has(i, "confirm")
  BY DEF Confirm
<1>3. TokensMove /\ NoNewEntry /\ w \in Words
  BY <1>2, TokensUsed DEF IInv, TokensOK, TokenOK, Has
<1>4. CASE UNCHANGED <<identity, doors>>
  BY <1>1, <1>3, <1>4, NobodyEnters
<1>5. ASSUME NEW u \in Users, account[u] = "none", account' = [account EXCEPT ![u] = "open"],
             Writes(u, w), Enters(u, w, {}), UNCHANGED <<claimed, passkey>>
      PROVE  IInv'
  <2>1. account \in [Users -> {"none", "open", "erased"}] /\ claimed \subseteq Users
    BY DEF IInv, CredentialsOK
  <2>2. account' \in [Users -> {"none", "open", "erased"}] /\ Stays(u)' /\ AccountsStay
    BY <1>5, <2>1 DEF Open, Stays, AccountsStay
  <2>3. CredentialsMove /\ Word(u)' = w /\ \A v \in Users \ {u} : Word(v)' = Word(v)
    BY <1>3, <1>5, <2>1, <2>2, Written
  <2>4. SessionsOf(u) \subseteq {}
    BY <1>5 DEF SessionsOf, IInv, NoLeftoverEnters, BelatedOK, Open
  <2>5. QED
    BY <1>1, <1>3, <1>5, <2>2, <2>3, <2>4, SignIn
<1>6. QED
  BY <1>4, <1>5 DEF Confirm

LEMMA UseLinkStep == ASSUME IInv, NEW i \in Ids, NEW w \in Words, UseLink(i, w) PROVE IInv'
<1> DEFINE m == token[i].of
<1>1. OthersOK' /\ FlightMoves
  BY DEF UseLink, IInv, OthersOK, doors, FlightMoves
<1>2. TokensMove /\ NoNewEntry
  BY TokensUsed DEF UseLink
<1>3. CASE UNCHANGED <<identity, doors>>
  BY <1>1, <1>2, <1>3, NobodyEnters
<1>4. ASSUME NEW u \in At(m), Writes(u, w), Enters(u, w, SessionsOf(u)),
             claimed' \in {claimed, claimed \cup {u}}, UNCHANGED <<account, passkey>>
      PROVE  IInv'
  <2>1. u \in Users /\ Stays(u)' /\ AccountsStay
    BY <1>4 DEF At, Open, Stays, AccountsStay
  <2>2. account' \in [Users -> {"none", "open", "erased"}] /\ claimed' \subseteq Users
    BY <1>4, <2>1 DEF IInv, CredentialsOK
  <2>3. CredentialsMove /\ Word(u)' = w /\ \A v \in Users \ {u} : Word(v)' = Word(v)
    BY <1>4, <2>1, <2>2, Written
  <2>4. QED
    BY <1>1, <1>2, <1>4, <2>1, <2>3, SignIn
<1>5. QED
  BY <1>3, <1>4 DEF UseLink

LEMMA LoginEnters ==
  ASSUME IInv, NEW c \in Requests, NEW f \in Flight, f.route = "login", FlightOK(f),
         SameHash(f), Enters(f.user, f.word, {}), Goes(c),
         UNCHANGED <<routes, passkey, tokens, reserved, blocked>>,
         UNCHANGED identity \/ (Writes(f.user, f.word) /\ UNCHANGED <<account, claimed>>)
  PROVE  IInv'
<1> DEFINE u == f.user
           w == f.word
<1>1. u \in Users /\ Stays(u) /\ w = Word(u) /\ w \in Words
  BY RowTypes DEF FlightOK, SignsIn, SameHash
<1>2. TokensMove /\ NoNewEntry /\ OthersOK'
  BY TokensKept, OthersKept
<1>3. account' = account /\ claimed' = claimed
  BY DEF identity
<1>4. Stays(u)' /\ AccountsStay
  BY <1>1, <1>2, <1>3 DEF Open, Stays, AccountsStay, NoNewEntry
<1>5. CredentialsMove /\ Word(u)' = w /\ \A v \in Users \ {u} : Word(v)' = Word(v)
  <2>1. CASE UNCHANGED identity
    <3>1. CredentialsMove
      BY <2>1 DEF identity, IInv, CredentialsOK, CredentialsMove, Open
    <3>2. QED
      BY <1>1, <2>1, <3>1 DEF identity, Word
  <2>2. CASE Writes(u, w) /\ UNCHANGED <<account, claimed>>
    BY <1>1, <1>3, <1>4, <2>2, Written DEF IInv, CredentialsOK
  <2>3. QED
    BY <2>1, <2>2
<1>6. SessionsMove
  BY <1>1, Entered
<1>7. FlightMoves
  BY <1>2, <1>5, <1>6, EndsAccess
<1>8. QED
  BY <1>1, <1>2, <1>4, <1>5, <1>7, SignIn

LEMMA LoginCommitStep == ASSUME IInv, NEW c \in Requests, LoginCommit(c) PROVE IInv'
<1>1. CASE Refused(c)
  BY <1>1, RefusedStep
<1>2. CASE ~Refused(c)
  <2>1. PICK f \in Flight : f = flight[c] /\ FlightOK(f)
    BY InFlight
  <2>2. /\ f.route = "login" /\ SameHash(f) /\ Enters(f.user, f.word, {}) /\ Goes(c)
        /\ UNCHANGED <<routes, passkey, tokens, reserved, blocked>>
        /\ UNCHANGED identity \/ (Writes(f.user, f.word) /\ UNCHANGED <<account, claimed>>)
    BY <1>2, <2>1 DEF LoginCommit
  <2>3. QED
    BY <2>1, <2>2, LoginEnters
<1>3. QED
  BY <1>1, <1>2

(* A signed-in customer writes a password: the request's session stays, the  *)
(* others of the account go.                                                 *)
LEMMA KeepsOwn ==
  ASSUME IInv, NEW f \in Flight, Here(f), NEW w \in Words, Keeps(f, w), issued' = issued,
         Word(f.user)' = w, \A v \in Users \ {f.user} : Word(v)' = Word(v)
  PROVE  /\ SessionsMove /\ SessionsOK' /\ OnlyCurrent'
         /\ \A i \in Sessions : session'[i] # None =>
              session[i] # None /\ session'[i].user = session[i].user
<1>1. \A i \in Sessions :
        session'[i] = IF i = f.session /\ session[i] # None THEN [session[i] EXCEPT !.word = w]
                      ELSE IF i \in SessionsOf(f.user) THEN None ELSE session[i]
  BY DEF Keeps
<1>2. \A i \in Sessions : session[i] \in Session \cup {None}
  BY DEF IInv, SessionsOK
<1>3. \A i \in Sessions : session[i] # None =>
        /\ [session[i] EXCEPT !.word = w] \in Session
        /\ [session[i] EXCEPT !.word = w].user = session[i].user
        /\ [session[i] EXCEPT !.word = w].word = w
        /\ session[i].user \in Users
  BY <1>2 DEF Session
<1>4. session' \in [Sessions -> Session \cup {None}]
  BY <1>1, <1>2, <1>3 DEF Keeps
<1>5. \A i \in Sessions : session'[i] # None =>
        session[i] # None /\ session'[i].user = session[i].user
  BY <1>1, <1>3
<1>6. ASSUME NEW i \in Sessions, session'[i] # None
      PROVE  session'[i].word = Word(session[i].user)'
  <2>1. session[i] # None /\ session[i].user \in Users /\ session'[i].user = session[i].user
    BY <1>3, <1>5, <1>6
  <2>2. CASE i = f.session
    BY <1>1, <1>3, <2>1, <2>2 DEF Here
  <2>3. CASE i # f.session
    <3>1. session'[i] = session[i] /\ session[i].user # f.user
      BY <1>1, <1>6, <2>1, <2>3 DEF SessionsOf
    <3>2. session[i].word = Word(session[i].user)
      BY <2>1 DEF IInv, OnlyCurrent
    <3>3. QED
      BY <2>1, <3>1, <3>2
  <2>4. QED
    BY <2>2, <2>3
<1>7. QED
  BY <1>4, <1>5, <1>6, SessionsTaken DEF OnlyCurrent

(* Sessions are taken back, nobody comes in.                                 *)
LEMMA NobodyComes ==
  ASSUME IInv, SessionsMove, SessionsOK', CredentialsMove, OnlyCurrent', TokensMove, NoNewEntry,
         FlightMoves, OthersOK', account' = account, passkey' \subseteq passkey,
         \A i \in Sessions : session'[i] # None =>
           session[i] # None /\ session'[i].user = session[i].user
  PROVE  IInv'
<1>1. AccountsStay
  BY DEF AccountsStay, Open
<1>2. \A i \in Sessions : session'[i] # None => Stays(session[i].user)'
  BY DEF IInv, NoLeftoverEnters, NoNewEntry, Stays, Open
<1>3. \A u \in passkey' : Stays(u)'
  BY DEF IInv, NoLeftoverEnters, NoNewEntry, Stays, Open
<1>4. QED
  BY <1>1, <1>2, <1>3, StillHere, Together

LEMMA WritesOwn ==
  ASSUME IInv, NEW c \in Requests, NEW f \in Flight, Here(f), NEW w \in Words, NEW gone,
         Writes(f.user, w), Keeps(f, w), Drops(gone), Goes(c),
         claimed' = claimed \/ claimed' = claimed \cup {f.user},
         UNCHANGED <<routes, account, issued, passkey, reserved, blocked>>
  PROVE  IInv'
<1>1. f.user \in Users
  BY DEF Here
<1>2. account' \in [Users -> {"none", "open", "erased"}] /\ claimed' \subseteq Users
  BY <1>1 DEF IInv, CredentialsOK
<1>3. AccountsStay
  BY DEF AccountsStay, Open
<1>4. CredentialsMove /\ Word(f.user)' = w /\ \A v \in Users \ {f.user} : Word(v)' = Word(v)
  BY <1>1, <1>2, <1>3, Written
<1>5. /\ SessionsMove /\ SessionsOK' /\ OnlyCurrent'
      /\ \A i \in Sessions : session'[i] # None =>
           session[i] # None /\ session'[i].user = session[i].user
  BY <1>4, KeepsOwn
<1>6. TokensMove /\ NoNewEntry /\ OthersOK'
  BY TokensDropped, OthersKept
<1>7. FlightMoves
  BY <1>4, <1>5, <1>6, EndsAccess
<1>8. QED
  BY <1>4, <1>5, <1>6, <1>7, NobodyComes

LEMMA ChangePasswordStep ==
  ASSUME IInv, NEW c \in Requests, NEW w \in Words, ChangePassword(c, w) PROVE IInv'
<1>1. CASE Refused(c)
  BY <1>1, RefusedStep
<1>2. CASE ~Refused(c)
  <2>1. PICK f \in Flight : f = flight[c] /\ FlightOK(f)
    BY InFlight
  <2>2. /\ f.route = "change" /\ Writes(f.user, w) /\ Keeps(f, w) /\ Goes(c)
        /\ Drops(Links(f.mail, PasswordLinks) \cup Owned(f.user, {"entry"}))
        /\ UNCHANGED <<routes, account, claimed, issued, passkey, reserved, blocked>>
    BY <1>2, <2>1 DEF ChangePassword
  <2>3. Here(f)
    BY <2>1, <2>2 DEF FlightOK, SessionRoutes
  <2>4. QED
    BY <2>2, <2>3, WritesOwn
<1>3. QED
  BY <1>1, <1>2

LEMMA SetPasswordStep ==
  ASSUME IInv, NEW c \in Requests, NEW w \in Words, SetPassword(c, w) PROVE IInv'
<1>1. CASE Refused(c)
  BY <1>1, RefusedStep
<1>2. CASE ~Refused(c)
  <2>1. PICK f \in Flight : f = flight[c] /\ FlightOK(f)
    BY InFlight
  <2>2. /\ f.route = "set" /\ Writes(f.user, w) /\ Keeps(f, w) /\ Goes(c)
        /\ claimed' = claimed \cup {f.user}
        /\ Drops(Links(f.mail, PasswordLinks \cup {"magic"}) \cup Owned(f.user, {"entry"}))
        /\ UNCHANGED <<routes, account, issued, passkey, reserved, blocked>>
    BY <1>2, <2>1 DEF SetPassword
  <2>3. Here(f)
    BY <2>1, <2>2 DEF FlightOK, SessionRoutes
  <2>4. QED
    BY <2>2, <2>3, WritesOwn
<1>3. QED
  BY <1>1, <1>2

(* Sessions go by themselves: revoked, logged out or past their time.        *)
LEMMA SessionsGo ==
  ASSUME IInv, TokensMove, NoNewEntry, OthersOK', FlightMoves,
         session' \in [Sessions -> Session \cup {None}],
         \A i \in Sessions : session'[i] = None \/ session'[i] = session[i],
         UNCHANGED <<identity, issued, passkey>>
  PROVE  IInv'
<1>1. CredentialsMove /\ CredentialsOK'
  BY DEF identity, IInv, CredentialsOK, CredentialsMove, Open
<1>2. SessionsMove /\ SessionsOK'
  BY SessionsTaken
<1>3. OnlyCurrent'
  BY DEF identity, IInv, OnlyCurrent, Word
<1>4. account' = account
  BY DEF identity
<1>5. QED
  BY <1>1, <1>2, <1>3, <1>4, NobodyComes

LEMMA RevokeStep == ASSUME IInv, NEW c \in Requests, Revoke(c) PROVE IInv'
<1>1. PICK gone : session' = [i \in Sessions |-> IF i \in gone THEN None ELSE session[i]]
  BY DEF Revoke
<1>2. session' \in [Sessions -> Session \cup {None}]
      /\ \A i \in Sessions : session'[i] = None \/ session'[i] = session[i]
  BY <1>1 DEF IInv, SessionsOK
<1>3. TokensMove /\ NoNewEntry /\ OthersOK'
  BY TokensKept, OthersKept DEF Revoke
<1>4. SessionsMove
  BY <1>2, SessionsTaken DEF Revoke
<1>5. CredentialsMove
  BY DEF Revoke, identity, IInv, CredentialsOK, CredentialsMove, Open
<1>6. FlightMoves
  BY <1>3, <1>4, <1>5, EndsAccess DEF Revoke
<1>7. QED
  BY <1>2, <1>3, <1>6, SessionsGo DEF Revoke

LEMMA LogoutStep == ASSUME IInv, NEW i \in Sessions, Logout(i) PROVE IInv'
<1>1. session' \in [Sessions -> Session \cup {None}]
      /\ \A k \in Sessions : session'[k] = None \/ session'[k] = session[k]
  BY DEF Logout, IInv, SessionsOK
<1>2. PICK gone : Drops(gone)
  BY DEF Logout
<1>3. TokensMove /\ NoNewEntry /\ OthersOK' /\ FlightMoves
  BY <1>2, TokensDropped, OthersKept DEF Logout, FlightMoves
<1>4. QED
  BY <1>1, <1>3, SessionsGo DEF Logout

LEMMA ExpireStep == ASSUME IInv, Expire PROVE IInv'
<1>1. session' \in [Sessions -> Session \cup {None}]
      /\ \A k \in Sessions : session'[k] = None \/ session'[k] = session[k]
  BY DEF Expire, IInv, SessionsOK
<1>2. TokensMove /\ NoNewEntry
  <2>1. CASE UNCHANGED tokens
    BY <2>1, TokensKept
  <2>2. CASE \E gone : Drops(gone)
    BY <2>2, TokensDropped
  <2>3. QED
    BY <2>1, <2>2 DEF Expire
<1>3. OthersOK' /\ FlightMoves
  BY OthersKept DEF Expire, FlightMoves
<1>4. QED
  BY <1>1, <1>2, <1>3, SessionsGo DEF Expire

LEMMA CrossStep == ASSUME IInv, NEW i \in Ids, Cross(i) PROVE IInv'
<1> DEFINE gone == Links(token[i].of, {"magic"})
<1>1. OthersOK' /\ FlightMoves
  BY OthersKept DEF Cross, doors, FlightMoves
<1>2. CASE Uses(i, gone)
  BY <1>1, <1>2, TokensUsed, NobodyEnters DEF Cross
<1>3. ASSUME NEW u \in Users, Open(u), minted < MaxTokens, minted' = minted + 1,
             token' = [Without(gone) EXCEPT ![minted + 1] = NewToken("entry", u)],
             spent' = spent \cup {i}, belated' = belated
      PROVE  IInv'
  <2> DEFINE t == NewToken("entry", u)
  <2>1. t \in Token /\ TokenOK(t) /\ t.kind = "entry" /\ t.of = u
    BY NewTokens DEF UserKinds, NewToken
  <2>2. TokensMove
    BY <1>3, <2>1, TokensMinted DEF IInv, TokensOK
  <2>3. UNCHANGED <<account, session, passkey>>
    BY DEF Cross, identity, doors
  <2>4. SessionsMove /\ SessionsOK' /\ CredentialsMove /\ OnlyCurrent'
    BY DoorsKept DEF Cross
  <2>5. minted + 1 \in Ids
    BY <1>3, AccountsAssumption DEF IInv, TokensOK, Ids
  <2>6. \A k \in Ids : token'[k] = IF k = minted + 1 THEN t ELSE IF k \in gone THEN None ELSE token[k]
    BY <1>3, <2>5 DEF Without
  <2>7. ASSUME NEW k \in Ids, Has(k, "entry")' PROVE token'[k].of \in Users /\ Open(token'[k].of)
    <3>2. token'[k] = IF k = minted + 1 THEN t ELSE IF k \in gone THEN None ELSE token[k]
      BY <2>6
    <3>3. CASE k = minted + 1
      BY <1>3, <2>1, <3>2, <3>3
    <3>4. CASE k # minted + 1
      <4>1. token'[k] = token[k] /\ Has(k, "entry")
        BY <2>7, <3>2, <3>4 DEF Has
      <4>2. QED
        BY <4>1 DEF IInv, NoLeftoverEnters, TokensOK, TokenOK, Has, UserKinds
    <3>5. QED
      BY <3>3, <3>4
  <2>8. NoLeftoverEnters'
    BY <1>3, <2>3, <2>7 DEF IInv, NoLeftoverEnters, Open
  <2>9. ASSUME NEW k \in Ids, Has(k, "enrol")' PROVE token'[k] = token[k] /\ Has(k, "enrol")
    BY <2>1, <2>6, <2>9 DEF Has
  <2>10. BelatedOK'
    BY <1>3, <2>3, <2>9 DEF IInv, BelatedOK, Stays, Open
  <2>11. QED
    BY <1>1, <2>2, <2>4, <2>8, <2>10, Together
<1>4. CASE ~Uses(i, gone)
  <2>1. PICK u \in At(token[i].of) : /\ minted < MaxTokens /\ minted' = minted + 1
             /\ token' = [Without(gone) EXCEPT ![minted + 1] = NewToken("entry", u)]
             /\ spent' = spent \cup {i} /\ belated' = belated
    BY <1>4 DEF Cross
  <2>2. u \in Users /\ Open(u)
    BY DEF At
  <2>3. QED
    BY <1>3, <2>1, <2>2
<1>5. QED
  BY <1>2, <1>4

LEMMA CompleteSetupStep ==
  ASSUME IInv, NEW c \in Requests, NEW w \in Words, CompleteSetup(c, w) PROVE IInv'
<1>1. CASE Refused(c)
  BY <1>1, RefusedStep
<1>2. CASE ~Refused(c)
  <2>1. PICK f \in Flight : f = flight[c] /\ FlightOK(f)
    BY InFlight
  <2>2. /\ f.route = "setup" /\ Has(f.token, "entry") /\ Writes(f.user, w)
        /\ Enters(f.user, w, SessionsOf(f.user)) /\ claimed' = claimed \cup {f.user}
        /\ Uses(f.token, Links(Mail[f.user], PasswordLinks \cup {"magic"})
                           \cup Owned(f.user, {"entry"}))
        /\ Goes(c) /\ UNCHANGED <<routes, account, passkey, reserved, blocked>>
    BY <1>2, <2>1 DEF CompleteSetup
  <2>3. f.user \in Users /\ Open(f.user)
    BY <2>1, <2>2 DEF FlightOK, SetsUp, IInv, NoLeftoverEnters, Has
  <2>4. Stays(f.user)' /\ AccountsStay
    BY <2>2, <2>3 DEF Open, Stays, AccountsStay
  <2>5. account' \in [Users -> {"none", "open", "erased"}] /\ claimed' \subseteq Users
    BY <2>2, <2>3 DEF IInv, CredentialsOK
  <2>6. CredentialsMove /\ Word(f.user)' = w /\ \A v \in Users \ {f.user} : Word(v)' = Word(v)
    BY <2>2, <2>3, <2>4, <2>5, Written
  <2>7. TokensMove /\ NoNewEntry /\ OthersOK'
    BY <2>2, TokensUsed, OthersKept DEF Has
  <2>8. SessionsMove
    BY <2>2, <2>3, Entered
  <2>9. FlightMoves
    BY <2>2, <2>6, <2>7, <2>8, EndsAccess
  <2>10. QED
    BY <2>2, <2>3, <2>4, <2>6, <2>7, <2>9, SignIn
<1>3. QED
  BY <1>1, <1>2

LEMMA PasskeysChange ==
  ASSUME IInv, NEW c \in Requests, TokensMove, NoNewEntry, Goes(c),
         UNCHANGED <<routes, identity, session, issued, reserved, blocked>>,
         passkey' \subseteq Users, \A u \in passkey' : Stays(u)
  PROVE  IInv'
<1>1. CredentialsMove
  BY DEF identity, IInv, CredentialsOK, CredentialsMove, Open
<1>2. SessionsMove /\ SessionsOK'
  BY SessionsTaken DEF IInv, SessionsOK
<1>3. FlightMoves /\ OthersOK'
  BY <1>1, <1>2, EndsAccess DEF IInv, OthersOK
<1>4. OnlyCurrent'
  BY DEF identity, IInv, OnlyCurrent, Word
<1>5. account' = account
  BY DEF identity
<1>6. /\ AccountsStay
      /\ \A i \in Sessions : session'[i] # None => Stays(session[i].user)'
      /\ \A u \in passkey' : Stays(u)'
  BY <1>5 DEF AccountsStay, IInv, NoLeftoverEnters, NoNewEntry, Stays, Open
<1>7. QED
  BY <1>1, <1>2, <1>3, <1>4, <1>6, StillHere, Together

LEMMA EnrolStep == ASSUME IInv, NEW c \in Requests, Enrol(c) PROVE IInv'
<1>1. CASE Refused(c)
  BY <1>1, RefusedStep
<1>2. CASE ~Refused(c)
  <2>1. PICK f \in Flight : f = flight[c] /\ FlightOK(f)
    BY InFlight
  <2>2. PICK k \in Owned(f.user, {"enrol"}) :
          /\ f.route = "enrol" /\ Uses(k, {}) /\ Goes(c)
          /\ passkey' = passkey \cup {f.user} \/ passkey' = passkey
          /\ UNCHANGED <<routes, identity, session, issued, reserved, blocked>>
    BY <1>2, <2>1 DEF Enrol
  <2>3. f.user \in Users
    BY <2>1, <2>2 DEF FlightOK, Here, SessionRoutes
  <2>4. k \in Ids /\ Stays(f.user)
    BY <2>2 DEF Owned, Has, IInv, BelatedOK
  <2>5. passkey' \subseteq Users /\ \A u \in passkey' : Stays(u)
    BY <2>2, <2>3, <2>4 DEF IInv, OthersOK, NoLeftoverEnters, Stays
  <2>6. TokensMove /\ NoNewEntry
    BY <2>2, <2>4, TokensUsed
  <2>7. QED
    BY <2>2, <2>5, <2>6, PasskeysChange
<1>3. QED
  BY <1>1, <1>2

LEMMA DropPasskeyStep == ASSUME IInv, NEW c \in Requests, DropPasskey(c) PROVE IInv'
<1>1. passkey' \subseteq Users /\ \A u \in passkey' : Stays(u)
  BY DEF DropPasskey, IInv, OthersOK, NoLeftoverEnters, Stays
<1>2. QED
  BY <1>1, TokensKept, PasskeysChange DEF DropPasskey

LEMMA PasskeyLoginStep ==
  ASSUME IInv, NEW i \in Ids, NEW u \in Users, PasskeyLogin(i, u) PROVE IInv'
<1>1. TokensMove /\ NoNewEntry /\ OthersOK' /\ FlightMoves
  BY TokensUsed DEF PasskeyLogin, IInv, OthersOK, doors, FlightMoves
<1>2. CASE UNCHANGED doors
  BY <1>1, <1>2, NobodyEnters DEF PasskeyLogin
<1>3. ASSUME NEW w \in Words \cup {None}, w = Word(u), u \in passkey, Enters(u, w, {}),
             UNCHANGED passkey
      PROVE  IInv'
  <2>1. account' = account /\ Stays(u)
    BY <1>3 DEF PasskeyLogin, identity, IInv, NoLeftoverEnters, Stays
  <2>2. Stays(u)' /\ AccountsStay
    BY <1>1, <2>1 DEF Open, Stays, AccountsStay, NoNewEntry
  <2>3. CredentialsMove /\ \A v \in Users : Word(v)' = Word(v)
    BY DEF PasskeyLogin, identity, IInv, CredentialsOK, CredentialsMove, Open, Word
  <2>4. QED
    BY <1>1, <1>3, <2>2, <2>3, SignIn
<1>4. QED
  BY <1>2, <1>3, RowTypes DEF PasskeyLogin

LEMMA EraseStep == ASSUME IInv, NEW c \in Requests, Erase(c) PROVE IInv'
<1>1. PICK f \in Flight : f = flight[c] /\ FlightOK(f)
  BY InFlight
<1> DEFINE u == f.user
           gone == Links(Mail[u], MailKinds) \cup Owned(u, ErasedKinds)
<1>2. f.route = "erase" /\ u \in Users
  BY <1>1 DEF Erase, FlightOK, Here, SessionRoutes
<1>3. CASE Refused(c)
  BY <1>3, RefusedStep
<1>4. ASSUME NEW t \in Ids, Uses(t, {}), Goes(c),
             UNCHANGED <<routes, identity, doors, reserved, blocked>>
      PROVE  IInv'
  <2>1. TokensMove /\ NoNewEntry /\ OthersOK'
    BY <1>4, TokensUsed, OthersKept DEF doors
  <2>2. QED
    BY <1>4, <2>1, DoorsKept, EndsAccess, NobodyEnters
<1>5. ASSUME NEW t \in Ids, Forgotten(u), Uses(t, gone), Goes(c),
             UNCHANGED <<routes, written, issued, blocked>>
      PROVE  IInv'
  <2>1. /\ account' = [account EXCEPT ![u] = "erased"]
        /\ credential' = [credential EXCEPT ![u] = None]
        /\ session' = [i \in Sessions |-> IF i \in SessionsOf(u) THEN None ELSE session[i]]
        /\ claimed' = claimed \ {u} /\ passkey' = passkey \ {u}
        /\ reserved' = [reserved EXCEPT ![Mail[u]] = None]
    BY <1>5 DEF Forgotten
  <2>2. TokensMove /\ NoNewEntry
    BY <1>5, TokensUsed
  <2>3. OthersOK'
    BY <1>5, <2>1 DEF IInv, OthersOK
  <2>4. \A v \in Users : /\ account'[v] = IF v = u THEN "erased" ELSE account[v]
                         /\ credential'[v] = IF v = u THEN None ELSE credential[v]
    BY <1>2, <2>1 DEF IInv, CredentialsOK
  <2>5. \A i \in Ids : token'[i] # None /\ token'[i].kind \in UserKinds => token'[i].of # u
    BY <1>5 DEF Uses, Without, Owned, ErasedKinds
  <2>6. CredentialsMove
    <3>1. CredentialsOK'
      BY <1>5, <2>1, <2>4 DEF IInv, CredentialsOK
    <3>2. \A v \in Users :
            /\ Open(v) => Open(v)' \/ (account'[v] = "erased" /\ credential'[v] = None)
            /\ account[v] = "erased" => account'[v] = "erased"
      BY <2>4 DEF Open
    <3>3. QED
      BY <1>5, <2>4, <3>1, <3>2 DEF CredentialsMove, IInv, CredentialsOK
  <2>7. session' \in [Sessions -> Session \cup {None}]
        /\ \A i \in Sessions : session'[i] # None => session'[i] = session[i] /\ session[i].user # u
    BY <2>1 DEF IInv, SessionsOK, SessionsOf
  <2>8. SessionsMove /\ SessionsOK'
    BY <1>5, <2>7, SessionsTaken
  <2>9. \A i \in Sessions : session'[i] # None =>
          session[i] # None /\ session[i].user \in Users \ {u}
    BY <2>7 DEF IInv, SessionsOK, Session
  <2>10. OnlyCurrent'
    <3>1. \A i \in Sessions : session'[i] # None => session'[i].word = Word(session[i].user)'
      BY <2>4, <2>7, <2>9 DEF IInv, OnlyCurrent, Word
    <3>2. QED
      BY <2>7, <3>1 DEF OnlyCurrent, Word
  <2>11. \A v \in Users \ {u} : Stays(v) => Stays(v)'
    BY <2>2, <2>4 DEF Stays, Open, NoNewEntry
  <2>12. ASSUME NEW i \in Ids, NEW k \in {"entry", "enrol"}, Has(i, k)'
         PROVE  token'[i] = token[i] /\ Has(i, k) /\ token[i].of \in Users \ {u}
    <3>1. token'[i] = token[i] /\ Has(i, k)
      BY <2>2, <2>12 DEF NoNewEntry, Has
    <3>2. token[i].of \in Users
      BY <3>1 DEF IInv, TokensOK, TokenOK, Has, UserKinds
    <3>3. token[i].of # u
      BY <2>5, <2>12, <3>1 DEF Has, UserKinds
    <3>4. QED
      BY <3>1, <3>2, <3>3
  <2>13. NoLeftoverEnters'
    <3>1. \A i \in Sessions : session'[i] # None => Stays(session[i].user)'
      BY <2>7, <2>9, <2>11 DEF IInv, NoLeftoverEnters, Stays, Open
    <3>2. \A i \in Ids : Has(i, "entry")' => Open(token[i].of)'
      BY <2>4, <2>12 DEF IInv, NoLeftoverEnters, Open
    <3>3. \A v \in passkey' : Stays(v)'
      BY <2>1, <2>11 DEF IInv, OthersOK, NoLeftoverEnters, Stays
    <3>4. QED
      BY <3>1, <3>2, <3>3 DEF NoLeftoverEnters, Stays
  <2>14. BelatedOK'
    <3>1. \A i \in Ids : Has(i, "enrol")' => Stays(token[i].of)'
      BY <2>11, <2>12 DEF IInv, BelatedOK, Stays, Open
    <3>2. QED
      BY <2>2, <2>4, <3>1 DEF IInv, BelatedOK, NoNewEntry
  <2>15. FlightMoves
    BY <1>5, <2>2, <2>6, <2>8, EndsAccess
  <2>16. QED
    BY <2>2, <2>3, <2>6, <2>8, <2>10, <2>15, <2>13, <2>14, Together
<1>6. QED
  <2>1. CASE ~Refused(c)
    <3>1. PICK t \in Owned(u, {"proof"}) :
            /\ Goes(c)
            /\ \/ Forgotten(u) /\ Uses(t, gone) /\ UNCHANGED <<routes, written, issued, blocked>>
               \/ Uses(t, {}) /\ UNCHANGED <<routes, identity, doors, reserved, blocked>>
      BY <1>1, <2>1 DEF Erase
    <3>2. t \in Ids
      BY DEF Owned
    <3>3. QED
      BY <1>4, <1>5, <3>1, <3>2
  <2>2. QED
    BY <1>3, <2>1

-----------------------------------------------------------------------------
(* The theorems about the accounts by themselves                             *)

LEMMA AccountsStarts == ASSUME AccountsInit PROVE IInv
<1>1. CredentialsOK
  <2>1. \A w \in Words : First(w) \in Credential /\ First(w).changed = 1
    BY DEF First, Credential
  <2>2. credential \in [Users -> Credential \cup {None}]
    BY <2>1 DEF AccountsInit
  <2>3. \A u \in Users : credential[u] # None => credential[u].changed = 1
    BY <2>1 DEF AccountsInit
  <2>4. QED
    BY <2>2, <2>3 DEF AccountsInit, CredentialsOK
<1>2. TokensOK
  BY AccountsAssumption DEF AccountsInit, TokensOK
<1>3. PICK signed \in SUBSET {u \in Users : Open(u)} :
        /\ session \in [Sessions -> {[user |-> u, word |-> Word(u)] : u \in signed} \cup {None}]
        /\ \A i \in Sessions : session[i] # None => i = 1
  BY DEF AccountsInit
<1>4. \A u \in signed : [user |-> u, word |-> Word(u)] \in Session
  BY <1>1 DEF Session, CredentialsOK, Credential, Word
<1>5. session \in [Sessions -> Session \cup {None}]
  BY <1>3, <1>4
<1>6. \A i \in Sessions : session[i] # None =>
        Open(session[i].user) /\ session[i].word = Word(session[i].user)
  <2>1. TAKE i \in Sessions
  <2>2. HAVE session[i] # None
  <2>3. PICK u \in signed : session[i] = [user |-> u, word |-> Word(u)]
    BY <1>3, <2>2
  <2>4. QED
    BY <2>3
<1>7. SessionsOK
  BY <1>3, <1>5, AccountsAssumption DEF AccountsInit, SessionsOK, Sessions
<1>8. OnlyCurrent /\ NoLeftoverEnters
  BY <1>6 DEF AccountsInit, OnlyCurrent, NoLeftoverEnters, Has
<1>9. OthersOK /\ FlightsOK
  BY Routes DEF AccountsInit, OthersOK, FlightsOK
<1>10. BelatedOK
  BY DEF AccountsInit, BelatedOK, Has
<1>11. QED
  BY <1>1, <1>2, <1>7, <1>8, <1>9, <1>10 DEF IInv

LEMMA AccountsKeeps == ASSUME IInv, AccountsNext PROVE IInv'
<1>1. CASE PasswordStep
  BY <1>1, AskRegisterStep, SendLinkStep, ConfirmStep, UseLinkStep, LoginStep, LoginCommitStep,
     VerifyStep, ChangePasswordStep, SetPasswordStep DEF PasswordStep
<1>2. CASE SessionStep
  BY <1>2, PresentStep, RevokeStep, LogoutStep DEF SessionStep
<1>3. CASE MagicStep
  BY <1>3, AskMagicStep, ReserveStep, PromoteStep, AsideStep, CrossStep, EnterSetupStep,
     CompleteSetupStep DEF MagicStep
<1>4. CASE PasskeyStep
  BY <1>4, OptionsStep, EnrolStep, DropPasskeyStep, AsideStep, PasskeyLoginStep DEF PasskeyStep
<1>5. CASE ErasureStep
  BY <1>5, ReauthStep, EraseStep, AsideStep DEF ErasureStep
<1>6. CASE Expire
  BY <1>6, ExpireStep
<1>7. QED
  BY <1>1, <1>2, <1>3, <1>4, <1>5, <1>6 DEF AccountsNext

LEMMA AccountsRest == ASSUME IInv, UNCHANGED accountVars PROVE IInv'
  BY DEF accountVars, identity, doors, tokens, IInv, CredentialsOK, TokensOK, TokenOK, SessionsOK,
         BelatedOK, Stays, OthersOK, FlightsOK, FlightOK, Here, Registers, SignsIn, SetsUp,
         SameHash, Has,
         Open, Word, OnlyCurrent, NoLeftoverEnters

LEMMA AccountsTypes == IInv => AccountsTypeOK
  BY DEF IInv, CredentialsOK, TokensOK, SessionsOK, BelatedOK, OthersOK, FlightsOK, AccountsTypeOK

(* The accounts by themselves, where no password reset is asked for: their   *)
(* types, OnlyCurrent and NoLeftoverEnters.                                 *)
THEOREM AccountsHold == AccountsSpec => [](AccountsTypeOK /\ OnlyCurrent /\ NoLeftoverEnters)
<1>1. AccountsInit => IInv
  BY AccountsStarts
<1>2. IInv /\ [AccountsNext]_accountVars => IInv'
  BY AccountsKeeps, AccountsRest
<1>3. IInv => AccountsTypeOK /\ OnlyCurrent /\ NoLeftoverEnters
  BY AccountsTypes DEF IInv
<1>4. QED
  BY <1>1, <1>2, <1>3, PTL DEF AccountsSpec

-----------------------------------------------------------------------------
(* The outbox beside the accounts                                            *)

JobOK(j) ==
  /\ j <= minted
  /\ job[j].changed # None => job[j].changed <= written
  /\ job[j].state = "running" => job[j].attempts # 0
  /\ token[j] # None => token[j] = ResetToken(j)
OutboxOK ==
  /\ job \in [Ids -> Job \cup {None}] /\ task \in Task
  /\ wake \in Nat \cup {None} /\ apiKey \in Keys \cup {None} /\ faults \in 0..MaxFaults
  /\ \A j \in Ids : job[j] # None => JobOK(j)
OneEach == \A u, v \in Users : Open(u) /\ Open(v) /\ Mail[u] = Mail[v] => u = v
(* The job of a token that was used is for no credential any more.           *)
SpentOK ==
  /\ SpentStaysSpent
  /\ \A i \in spent : i <= minted /\ (job[i] # None => ~StillFor(i))
ResetInv == IInv /\ OutboxOK /\ OneEach /\ SpentOK

(* How the accounts move the tables the outbox looks at.                     *)
IdentityMoves ==
  /\ written' >= written
  /\ \A u \in Users : \/ credential'[u] = None
                      \/ credential'[u] = credential[u]
                      \/ credential'[u].changed > written
  /\ \/ \A u \in Users : Open(u)' => Open(u)
     \/ \E u \in Users : /\ At(Mail[u]) = {} /\ credential'[u].changed > written
                         /\ \A v \in Users \ {u} : Open(v)' => Open(v)
(* Whoever an address belongs to has a password from this step, or none.     *)
Renewed(m) == \A u \in Users : Open(u)' /\ Mail[u] = m /\ credential'[u] # None =>
                                 credential'[u].changed > written
Spends(i) == /\ token[i] # None /\ token'[i] = None /\ spent' = spent \cup {i}
             /\ token[i].kind = "reset" => Renewed(token[i].of)
TokensTurn ==
  /\ minted' >= minted
  /\ \A i \in Ids : token'[i] = None \/ token'[i] = token[i] \/ i > minted
  /\ spent' = spent \/ \E i \in Ids : Spends(i)

LEMMA IdentityStill == ASSUME IInv, UNCHANGED identity PROVE IdentityMoves
  BY DEF IInv, CredentialsOK, IdentityMoves, identity, Open

LEMMA IdentityWrites ==
  ASSUME IInv, NEW u \in Users, NEW w, Writes(u, w), account' = account
  PROVE  IdentityMoves
  BY DEF IInv, CredentialsOK, IdentityMoves, Writes, Open

LEMMA TokensTurnOver ==
  ASSUME IInv, NEW gone, \/ UNCHANGED tokens \/ Drops(gone) \/ \E t \in Token : Mints(t, gone)
  PROVE  TokensTurn
<1>1. TokensOK
  BY DEF IInv
<1>2. CASE UNCHANGED tokens
  BY <1>1, <1>2 DEF tokens, TokensOK, TokensTurn
<1>3. CASE Drops(gone)
  BY <1>1, <1>3 DEF TokensOK, Drops, Without, TokensTurn
<1>4. CASE \E t : Mints(t, gone)
  BY <1>1, <1>4 DEF TokensOK, Mints, Without, TokensTurn
<1>5. QED
  BY <1>2, <1>3, <1>4

LEMMA TokensSpend ==
  ASSUME IInv, NEW i \in Ids, NEW gone, Uses(i, gone), token[i] # None,
         token[i].kind = "reset" => Renewed(token[i].of)
  PROVE  TokensTurn
  BY DEF IInv, TokensOK, Uses, Without, TokensTurn, Spends

Turn == IdentityMoves /\ TokensTurn

LEMMA QuietTurn == ASSUME IInv, UNCHANGED <<identity, tokens>> PROVE Turn
  BY IdentityStill, TokensTurnOver DEF Turn

LEMMA RefusedTurn == ASSUME IInv, NEW c \in Requests, Refused(c) PROVE Turn
  BY QuietTurn DEF Refused

(* Who was at an address keeps it, so a link renews the one it was for.      *)
LEMMA AtOne == ASSUME OneEach, NEW m, NEW u \in At(m) PROVE \A v \in At(m) : v = u
  BY DEF At, OneEach

LEMMA PasswordTurn == ASSUME ResetInv, PasswordStep PROVE Turn
<1> USE DEF ResetInv
<1>1. ASSUME NEW c \in Requests, NEW m \in Mails, NEW w \in Words, AskRegister(c, m, w) PROVE Turn
  BY <1>1, QuietTurn DEF AskRegister
<1>2. ASSUME NEW c \in Requests, SendLink(c) PROVE Turn
  <2>1. PICK f \in Flight : f = flight[c] /\ FlightOK(f)
    BY InFlight
  <2>2. Mints(LinkFor(f), {}) /\ Registers(f) /\ UNCHANGED identity
    BY <1>2, <2>1 DEF SendLink, FlightOK
  <2>3. LinkFor(f) \in Token
    <3>1. /\ LinkFor(f).kind \in LinkKinds /\ LinkFor(f).of \in Mails \cup {None}
          /\ LinkFor(f).changed \in Nat \cup {None} /\ LinkFor(f).word \in Words \cup {None}
      BY <2>2 DEF LinkFor, LinkKinds, Flight
    <3>2. QED
      BY <3>1 DEF LinkFor, Token, MailKinds
  <2>4. QED
    BY <2>2, <2>3, IdentityStill, TokensTurnOver DEF Turn
<1>3. ASSUME NEW i \in Ids, Confirm(i) PROVE Turn
  <2>1. TokensTurn
    BY <1>3, TokensSpend DEF Confirm, Has
  <2>2. CASE UNCHANGED identity
    BY <2>1, <2>2, IdentityStill DEF Turn
  <2>3. CASE ~UNCHANGED identity
    <3>1. PICK u \in Users : /\ account[u] = "none" /\ At(Mail[u]) = {}
                             /\ account' = [account EXCEPT ![u] = "open"]
                             /\ Writes(u, token[i].word)
      BY <1>3, <2>3 DEF Confirm
    <3>2. \A v \in Users \ {u} : Open(v)' => Open(v)
      BY <3>1 DEF IInv, CredentialsOK, Open
    <3>3. credential'[u].changed > written /\ written' >= written
      BY <3>1 DEF IInv, CredentialsOK, Writes
    <3>4. \A v \in Users : \/ credential'[v] = credential[v]
                           \/ credential'[v].changed > written
      BY <3>1 DEF IInv, CredentialsOK, Writes
    <3>5. QED
      BY <2>1, <3>1, <3>2, <3>3, <3>4 DEF Turn, IdentityMoves
  <2>4. QED
    BY <2>2, <2>3
<1>4. ASSUME NEW i \in Ids, NEW w \in Words, UseLink(i, w) PROVE Turn
  <2> DEFINE m == token[i].of
             gone == Links(m, PasswordLinks \cup (IF token[i].kind = "setup" THEN {"magic"} ELSE {}))
  <2>1. token[i] # None /\ token[i].kind \in {"reset", "setup"} /\ Usable(i)
    BY <1>4 DEF UseLink, Has
  <2>2. CASE At(m) = {} /\ Uses(i, Links(m, PasswordLinks)) /\ UNCHANGED <<identity, doors>>
    <3>1. token[i].kind # "reset"
      BY <2>1, <2>2 DEF Usable
    <3>2. QED
      BY <2>1, <2>2, <3>1, IdentityStill, TokensSpend DEF Turn
  <2>3. ASSUME NEW u \in At(m), Writes(u, w), account' = account,
               Uses(i, gone \cup Owned(u, {"entry"}))
        PROVE  Turn
    <3>1. IdentityMoves
      BY <2>3, IdentityWrites DEF At
    <3>2. \A v \in Users : Open(v)' /\ Mail[v] = m => v = u
      BY <2>3, AtOne DEF At, Open
    <3>3. credential'[u].changed > written
      BY <2>3 DEF At, IInv, CredentialsOK, Writes
    <3>4. Renewed(m)
      BY <3>2, <3>3 DEF Renewed
    <3>5. QED
      BY <2>1, <2>3, <3>1, <3>4, TokensSpend DEF Turn
  <2>4. CASE ~(At(m) = {} /\ Uses(i, Links(m, PasswordLinks)) /\ UNCHANGED <<identity, doors>>)
    <3>1. PICK u \in At(m) : /\ Writes(u, w) /\ account' = account
                             /\ Uses(i, gone \cup Owned(u, {"entry"}))
      BY <1>4, <2>4 DEF UseLink
    <3>2. QED
      BY <2>3, <3>1
  <2>5. QED
    BY <2>2, <2>4
<1>5. ASSUME NEW c \in Requests, NEW u \in Users, Login(c, u) PROVE Turn
  BY <1>5, QuietTurn DEF Login
<1>6. ASSUME NEW c \in Requests, LoginCommit(c) PROVE Turn
  <2>1. CASE UNCHANGED <<identity, tokens>>
    BY <2>1, QuietTurn
  <2>2. CASE ~UNCHANGED <<identity, tokens>>
    <3>1. PICK f \in Flight : f = flight[c] /\ FlightOK(f)
      BY InFlight
    <3>2. f.route = "login" /\ Writes(f.user, f.word) /\ account' = account /\ UNCHANGED tokens
      BY <1>6, <2>2, <3>1 DEF LoginCommit, Refused
    <3>3. f.user \in Users
      BY <3>1, <3>2 DEF FlightOK, SignsIn
    <3>4. QED
      BY <3>2, <3>3, IdentityWrites, TokensTurnOver DEF Turn
  <2>3. QED
    BY <2>1, <2>2
<1>7. ASSUME NEW c \in Requests, Verify(c) PROVE Turn
  BY <1>7, QuietTurn DEF Verify
<1>8. ASSUME NEW c \in Requests, NEW w \in Words, ChangePassword(c, w) \/ SetPassword(c, w)
      PROVE  Turn
  <2>1. CASE Refused(c)
    BY <2>1, RefusedTurn
  <2>2. CASE ~Refused(c)
    <3>1. PICK f \in Flight : f = flight[c] /\ FlightOK(f)
      BY InFlight
    <3>2. /\ f.route \in SessionRoutes /\ Writes(f.user, w) /\ account' = account
          /\ \E gone : Drops(gone)
      BY <1>8, <2>2, <3>1 DEF ChangePassword, SetPassword, SessionRoutes
    <3>3. f.user \in Users
      BY <3>1, <3>2 DEF FlightOK, Here
    <3>4. QED
      BY <3>2, <3>3, IdentityWrites, TokensTurnOver DEF Turn
  <2>3. QED
    BY <2>1, <2>2
<1>9. QED
  BY <1>1, <1>2, <1>3, <1>4, <1>5, <1>6, <1>7, <1>8 DEF PasswordStep

LEMMA SpendsOther ==
  ASSUME IInv, NEW i, NEW kind, Has(i, kind), kind # "reset", NEW gone, Uses(i, gone)
  PROVE  TokensTurn
  BY TokensSpend DEF Has

LEMMA SpendsOwned ==
  ASSUME IInv, NEW u, NEW kind, kind # "reset", NEW i \in Owned(u, {kind}), NEW gone, Uses(i, gone)
  PROVE  TokensTurn
  BY TokensSpend DEF Owned

LEMMA SessionTurn == ASSUME ResetInv, SessionStep \/ Expire PROVE Turn
<1> USE DEF ResetInv
<1>1. UNCHANGED identity
  BY DEF SessionStep, Expire, Present, Revoke, Logout
<1>2. UNCHANGED tokens \/ \E gone : Drops(gone)
  BY DEF SessionStep, Expire, Present, Revoke, Logout
<1>3. QED
  BY <1>1, <1>2, IdentityStill, TokensTurnOver DEF Turn

LEMMA MagicTurn == ASSUME ResetInv, MagicStep PROVE Turn
<1> USE DEF ResetInv
<1>1. ASSUME NEW c \in Requests, NEW m \in Mails, AskMagic(c, m) PROVE Turn
  BY <1>1, QuietTurn DEF AskMagic
<1>2. ASSUME NEW c \in Requests, Reserve(c) PROVE Turn
  BY <1>2, QuietTurn DEF Reserve, Refused
<1>3. ASSUME NEW c \in Requests, Promote(c) PROVE Turn
  <2>1. flight[c].mail \in Mails \cup {None}
    BY InFlight DEF Flight
  <2>2. UNCHANGED tokens \/ \E gone : \E t \in Token : Mints(t, gone)
    BY <1>3, <2>1, NewTokens DEF Promote
  <2>3. QED
    BY <1>3, <2>2, IdentityStill, TokensTurnOver DEF Promote, Turn
<1>4. ASSUME NEW m \in Mails, ReservationExpires(m) PROVE Turn
  BY <1>4, QuietTurn DEF ReservationExpires
<1>5. ASSUME NEW i \in Ids, Cross(i) PROVE Turn
  <2> DEFINE gone == Links(token[i].of, {"magic"})
  <2>1. Has(i, "magic") /\ UNCHANGED identity
    BY <1>5 DEF Cross
  <2>2. CASE Uses(i, gone)
    BY <2>1, <2>2, IdentityStill, SpendsOther DEF Turn
  <2>3. CASE ~Uses(i, gone)
    <3>1. PICK u : /\ minted < MaxTokens /\ minted' = minted + 1
                   /\ token' = [Without(gone) EXCEPT ![minted + 1] = NewToken("entry", u)]
                   /\ spent' = spent \cup {i}
      BY <1>5, <2>3 DEF Cross
    <3>2. \A k \in Ids : k # minted + 1 => token'[k] = IF k \in gone THEN None ELSE token[k]
      BY <3>1 DEF Without
    <3>3. token[i] # None /\ token[i].kind = "magic" /\ i \in gone /\ i <= minted
      BY <2>1 DEF Has, Links, IInv, TokensOK
    <3>4. Spends(i)
      BY <3>1, <3>2, <3>3 DEF Spends, IInv, TokensOK, Ids
    <3>5. TokensTurn
      BY <3>1, <3>2, <3>4 DEF TokensTurn, IInv, TokensOK
    <3>6. QED
      BY <2>1, <3>5, IdentityStill DEF Turn
  <2>4. QED
    BY <2>2, <2>3
<1>6. ASSUME NEW c \in Requests, NEW i \in Ids, EnterSetup(c, i) PROVE Turn
  BY <1>6, QuietTurn DEF EnterSetup
<1>7. ASSUME NEW c \in Requests, NEW w \in Words, CompleteSetup(c, w) PROVE Turn
  <2>1. CASE Refused(c)
    BY <2>1, RefusedTurn
  <2>2. CASE ~Refused(c)
    <3>1. PICK f \in Flight : f = flight[c] /\ FlightOK(f)
      BY InFlight
    <3>2. /\ f.route = "setup" /\ Has(f.token, "entry") /\ Writes(f.user, w) /\ account' = account
          /\ \E gone : Uses(f.token, gone)
      BY <1>7, <2>2, <3>1 DEF CompleteSetup
    <3>3. f.user \in Users
      BY <3>1, <3>2 DEF FlightOK, SetsUp
    <3>4. QED
      BY <3>2, <3>3, IdentityWrites, SpendsOther DEF Turn
  <2>3. QED
    BY <2>1, <2>2
<1>8. QED
  BY <1>1, <1>2, <1>3, <1>4, <1>5, <1>6, <1>7 DEF MagicStep

LEMMA PasskeyTurn == ASSUME ResetInv, PasskeyStep PROVE Turn
<1> USE DEF ResetInv
<1>1. ASSUME NEW c \in Requests, Options(c) PROVE Turn
  <2>1. flight[c].user \in Users
    BY <1>1, InFlight DEF Options, FlightOK, Here, SessionRoutes
  <2>2. UNCHANGED tokens \/ \E gone : \E t \in Token : Mints(t, gone)
    BY <1>1, <2>1, NewTokens DEF Options, UserKinds
  <2>3. QED
    BY <1>1, <2>2, IdentityStill, TokensTurnOver DEF Options, Turn
<1>2. ASSUME LoginOptions PROVE Turn
  BY <1>2, NewTokens, IdentityStill, TokensTurnOver DEF LoginOptions, Turn
<1>3. ASSUME NEW c \in Requests, Enrol(c) PROVE Turn
  <2>1. CASE Refused(c)
    BY <2>1, RefusedTurn
  <2>2. CASE ~Refused(c)
    <3>1. UNCHANGED identity /\ \E t \in Owned(flight[c].user, {"enrol"}) : Uses(t, {})
      BY <1>3, <2>2 DEF Enrol
    <3>2. QED
      BY <3>1, IdentityStill, SpendsOwned DEF Turn
  <2>3. QED
    BY <2>1, <2>2
<1>4. ASSUME NEW c \in Requests, DropPasskey(c) PROVE Turn
  BY <1>4, QuietTurn DEF DropPasskey
<1>5. ASSUME NEW i \in Ids, NEW u \in Users, PasskeyLogin(i, u) PROVE Turn
  BY <1>5, IdentityStill, SpendsOther DEF PasskeyLogin, Turn
<1>6. QED
  BY <1>1, <1>2, <1>3, <1>4, <1>5 DEF PasskeyStep

LEMMA ErasureTurn == ASSUME ResetInv, ErasureStep PROVE Turn
<1> USE DEF ResetInv
<1>1. ASSUME NEW c \in Requests, ReauthPassword(c) \/ AnswerReauth(c) \/ ReauthPasskey(c) PROVE Turn
  <2>1. CASE Refused(c)
    BY <2>1, RefusedTurn
  <2>2. CASE ~Refused(c)
    <3>1. flight[c].user \in Users /\ UNCHANGED identity
      BY <1>1, <2>2, InFlight
         DEF ReauthPassword, AnswerReauth, ReauthPasskey, FlightOK, Here, SessionRoutes
    <3>2. \/ Mints(NewToken("proof", flight[c].user), {})
          \/ \E t \in Owned(flight[c].user, {"reauth"}) : Uses(t, {})
      BY <1>1, <2>2 DEF ReauthPassword, AnswerReauth, ReauthPasskey
    <3>3. TokensTurn
      BY <3>1, <3>2, NewTokens, TokensTurnOver, SpendsOwned DEF UserKinds
    <3>4. QED
      BY <3>1, <3>3, IdentityStill DEF Turn
  <2>3. QED
    BY <2>1, <2>2
<1>2. ASSUME NEW c \in Requests, Erase(c) PROVE Turn
  <2>1. CASE Refused(c)
    BY <2>1, RefusedTurn
  <2>2. CASE ~Refused(c)
    <3>1. PICK f \in Flight : f = flight[c] /\ FlightOK(f)
      BY InFlight
    <3>2. TokensTurn
      <4>1. \E t \in Owned(f.user, {"proof"}) : \E gone : Uses(t, gone)
        BY <1>2, <2>2, <3>1 DEF Erase
      <4>2. QED
        BY <4>1, SpendsOwned
    <3>3. CASE UNCHANGED identity
      BY <3>2, <3>3, IdentityStill DEF Turn
    <3>4. CASE ~UNCHANGED identity
      <4>1. /\ account' = [account EXCEPT ![f.user] = "erased"]
            /\ credential' = [credential EXCEPT ![f.user] = None] /\ written' = written
        BY <1>2, <2>2, <3>1, <3>4 DEF Erase, Forgotten
      <4>2. IdentityMoves
        BY <4>1 DEF IdentityMoves, IInv, CredentialsOK, Open
      <4>3. QED
        BY <3>2, <4>2 DEF Turn
    <3>5. QED
      BY <3>3, <3>4
  <2>3. QED
    BY <2>1, <2>2
<1>3. ASSUME NEW u \in Users, Block(u) PROVE Turn
  BY <1>3, QuietTurn DEF Block
<1>4. QED
  BY <1>1, <1>2, <1>3 DEF ErasureStep

LEMMA AccountsTurn == ASSUME ResetInv, AccountsNext PROVE Turn
  BY PasswordTurn, SessionTurn, MagicTurn, PasskeyTurn, ErasureTurn DEF AccountsNext

(* The outbox stays right while the accounts move: a token that was used     *)
(* renewed the password its job was for.                                     *)
LEMMA AccountsBeside ==
  ASSUME ResetInv, AccountsNext, job' = Forgets, UNCHANGED <<task, wake, apiKey, faults>>
  PROVE  ResetInv'
<1>1. IInv' /\ Turn
  BY AccountsKeeps, AccountsTurn DEF ResetInv
<1>2. \A j \in Ids : job'[j] # None => job'[j] = job[j] /\ job[j] # None
  BY DEF Forgets
<1>3. minted \in Nat /\ minted' \in Nat /\ minted' >= minted /\ written \in Nat
      /\ written' \in Nat /\ written' >= written
  BY <1>1 DEF ResetInv, IInv, TokensOK, CredentialsOK, Turn, IdentityMoves, TokensTurn
<1>4. \A j \in Ids : job[j] # None => JobOK(j) /\ job[j] \in Job
  BY DEF ResetInv, OutboxOK
<1>5. OutboxOK'
  <2>1. job' \in [Ids -> Job \cup {None}]
    BY DEF Forgets, ResetInv, OutboxOK
  <2>2. ASSUME NEW j \in Ids, job'[j] # None PROVE JobOK(j)'
    <3>1. job'[j] = job[j] /\ JobOK(j) /\ job[j] \in Job
      BY <1>2, <1>4, <2>2
    <3>2. j <= minted'
      BY <1>3, <3>1 DEF JobOK, Ids
    <3>3. job[j].changed # None => job[j].changed <= written'
      BY <1>3, <3>1 DEF JobOK, Job
    <3>4. token'[j] # None => token'[j] = token[j]
      BY <1>1, <1>3, <3>1 DEF JobOK, Turn, TokensTurn, Ids
    <3>5. QED
      BY <3>1, <3>2, <3>3, <3>4 DEF JobOK, ResetToken
  <2>3. QED
    BY <2>1, <2>2 DEF OutboxOK, ResetInv
<1>6. OneEach'
  <2>1. SUFFICES ASSUME NEW u \in Users, NEW v \in Users, Open(u)', Open(v)', Mail[u] = Mail[v]
                 PROVE  u = v
    BY DEF OneEach
  <2>2. CASE \A x \in Users : Open(x)' => Open(x)
    BY <2>1, <2>2 DEF ResetInv, OneEach
  <2>3. ASSUME NEW x \in Users, At(Mail[x]) = {}, \A y \in Users \ {x} : Open(y)' => Open(y)
        PROVE  u = v
    BY <2>1, <2>3 DEF ResetInv, OneEach, At
  <2>4. QED
    BY <1>1, <2>2, <2>3 DEF Turn, IdentityMoves
<1>7. SpentOK'
  <2>1. ASSUME NEW i \in spent'
        PROVE  token'[i] = None /\ i <= minted' /\ i \in Ids
    <3>1. CASE i \in spent
      BY <1>1, <1>3, <3>1
         DEF ResetInv, IInv, TokensOK, SpentOK, SpentStaysSpent, Turn, TokensTurn, Ids
    <3>2. CASE i \in Ids /\ Spends(i)
      BY <1>3, <3>2 DEF Spends, ResetInv, IInv, TokensOK, Ids
    <3>3. QED
      BY <1>1, <2>1, <3>1, <3>2 DEF Turn, TokensTurn, Spends
  <2>2. ASSUME NEW i \in Ids, NEW u \in Users, i \in spent', job'[i] # None, job[i].changed # None,
               Open(u)', Mail[u] = job[i].mail, credential'[u] # None,
               credential'[u].changed = job[i].changed
        PROVE  FALSE
    <3>1. job[i] # None /\ JobOK(i) /\ job[i] \in Job
      BY <1>2, <1>4, <2>2
    <3>2. job[i].changed <= written /\ job[i].changed \in Nat
      BY <2>2, <3>1 DEF JobOK, Job
    <3>3. ~(credential'[u].changed > written)
      BY <1>3, <2>2, <3>2
    <3>4. credential'[u] = credential[u]
      BY <1>1, <2>2, <3>3 DEF Turn, IdentityMoves
    <3>5. Open(u)
      BY <1>1, <2>2, <3>3 DEF Turn, IdentityMoves
    <3>6. StillFor(i)
      BY <2>2, <3>4, <3>5 DEF StillFor, At
    <3>7. CASE i \in spent
      BY <3>1, <3>6, <3>7 DEF ResetInv, SpentOK
    <3>8. CASE Spends(i)
      <4>1. token[i] = ResetToken(i)
        BY <3>1, <3>8 DEF Spends, JobOK
      <4>2. Renewed(job[i].mail)
        BY <3>8, <4>1 DEF Spends, ResetToken
      <4>3. QED
        BY <2>2, <3>3, <4>2 DEF Renewed
    <3>9. QED
      BY <1>1, <2>2, <3>7, <3>8 DEF Turn, TokensTurn, Spends
  <2>3. ASSUME NEW i \in spent', job'[i] # None PROVE ~StillFor(i)'
    <3>1. i \in Ids /\ job'[i] = job[i]
      BY <1>2, <2>1, <2>3
    <3>2. ASSUME StillFor(i)' PROVE FALSE
      <4>1. job[i].changed # None /\ \E u \in Users : /\ Open(u)' /\ Mail[u] = job[i].mail
              /\ credential'[u] # None /\ credential'[u].changed = job[i].changed
        BY <3>1, <3>2 DEF StillFor, At, Open
      <4>2. QED
        BY <2>2, <2>3, <3>1, <4>1
    <3>3. QED
      BY <3>2
  <2>4. QED
    BY <2>1, <2>3 DEF SpentOK, SpentStaysSpent
<1>8. QED
  BY <1>1, <1>5, <1>6, <1>7 DEF ResetInv

(* A step of the outbox: a job keeps its address and credential, or is new;  *)
(* a token is taken back, or made from a job that is still for a credential. *)
JobsMove ==
  /\ job' \in [Ids -> Job \cup {None}]
  /\ \A j \in Ids : job'[j] # None =>
       \/ /\ job[j] # None /\ job'[j].mail = job[j].mail /\ job'[j].changed = job[j].changed
          /\ job'[j].state = "running" => job'[j].attempts # 0
       \/ /\ j = minted + 1 /\ minted' = minted + 1 /\ job'[j].state = "queued"
          /\ job'[j].changed # None => job'[j].changed <= written
TokensRemade ==
  \A i \in Ids : \/ token'[i] = None
                 \/ token'[i] = token[i]
                 \/ job[i] # None /\ StillFor(i) /\ token'[i] = ResetToken(i)

LEMMA OutboxTokens ==
  ASSUME ResetInv, TokensRemade, token' \in [Ids -> Token \cup {None}], spent' = spent,
         minted' \in 0..MaxTokens, minted' >= minted, belated' = belated
  PROVE  TokensMove /\ NoNewEntry
<1>1. TokensOK /\ MaxTokens \in Nat
  BY AccountsAssumption DEF ResetInv, IInv
<1>2. ASSUME NEW i \in Ids, token'[i] # None, token'[i] # token[i]
      PROVE  i <= minted /\ token'[i].kind = "reset"
    BY <1>2 DEF TokensRemade, ResetToken, ResetInv, OutboxOK, JobOK
<1>3. ASSUME NEW i \in Ids, token'[i] # None PROVE i <= minted' /\ TokenOK(token'[i])
  <2>1. CASE token'[i] = token[i]
    BY <1>1, <1>3, <2>1 DEF TokensOK, TokenOK, Ids
  <2>2. CASE token'[i] # token[i]
    BY <1>1, <1>2, <1>3, <2>2 DEF TokensOK, TokenOK, UserKinds, Ids
  <2>3. QED
    BY <2>1, <2>2
<1>4. TokensOK'
  BY <1>1, <1>3 DEF TokensOK, TokenOK
<1>5. QED
  BY <1>2, <1>4 DEF TokensMove, NoNewEntry, Has

LEMMA OutboxMoves ==
  ASSUME ResetInv, JobsMove, TokensRemade, token' \in [Ids -> Token \cup {None}],
         minted' \in 0..MaxTokens, minted' >= minted,
         UNCHANGED <<routes, identity, doors, spent, belated, reserved, blocked, flight>>,
         task' \in Task, wake' \in Nat \cup {None}, apiKey' \in Keys \cup {None},
         faults' \in 0..MaxFaults
  PROVE  ResetInv'
<1>1. TokensMove /\ NoNewEntry
  BY OutboxTokens
<1>2. IInv'
  BY <1>1, NobodyEnters, OthersKept DEF ResetInv, FlightMoves, doors
<1>3. minted \in Nat /\ minted' \in Nat /\ written \in Nat
  BY <1>2 DEF ResetInv, IInv, TokensOK, CredentialsOK
<1>4. UNCHANGED <<account, credential, written, spent>>
  BY DEF identity
<1>5. ASSUME NEW j \in Ids, job'[j] # None PROVE JobOK(j)'
  <2>1. CASE job[j] # None /\ job'[j].mail = job[j].mail /\ job'[j].changed = job[j].changed
             /\ (job'[j].state = "running" => job'[j].attempts # 0)
    <3>1. JobOK(j)
      BY <2>1 DEF ResetInv, OutboxOK
    <3>2. token'[j] # None => token'[j] = ResetToken(j)
      BY <3>1 DEF TokensRemade, JobOK
    <3>3. token'[j] # None => token'[j] = ResetToken(j)'
      BY <2>1, <3>2 DEF ResetToken
    <3>4. QED
      BY <1>3, <1>4, <2>1, <3>1, <3>3 DEF JobOK, Ids
  <2>2. CASE j = minted + 1 /\ minted' = minted + 1 /\ job'[j].state = "queued"
             /\ (job'[j].changed # None => job'[j].changed <= written)
    <3>1. token'[j] = None
      BY <1>3, <2>2 DEF TokensRemade, ResetInv, IInv, TokensOK, OutboxOK, JobOK
    <3>2. QED
      BY <1>3, <1>4, <2>2, <3>1 DEF JobOK
  <2>3. QED
    BY <1>5, <2>1, <2>2 DEF JobsMove
<1>6. OutboxOK'
  BY <1>5 DEF OutboxOK, JobsMove
<1>7. OneEach'
  BY <1>4 DEF ResetInv, OneEach, Open
<1>8. SpentOK'
  <2>1. ASSUME NEW i \in spent'
        PROVE  i \in Ids /\ token'[i] = None /\ i <= minted' /\ (job'[i] # None => ~StillFor(i)')
    <3>1. i \in spent /\ i \in Ids /\ token[i] = None /\ i <= minted /\ i <= minted'
          /\ (job[i] # None => ~StillFor(i))
      BY <1>3, <1>4, <2>1 DEF ResetInv, SpentOK, SpentStaysSpent, IInv, TokensOK, Ids
    <3>2. token'[i] = None
      BY <3>1 DEF TokensRemade
    <3>3. ASSUME job'[i] # None PROVE ~StillFor(i)'
      <4>1. job[i] # None /\ job'[i].mail = job[i].mail /\ job'[i].changed = job[i].changed
        BY <1>3, <3>1, <3>3 DEF JobsMove, Ids
      <4>2. QED
        BY <1>4, <3>1, <4>1 DEF StillFor, At, Open
    <3>4. QED
      BY <3>1, <3>2, <3>3
  <2>2. QED
    BY <2>1 DEF SpentOK, SpentStaysSpent
<1>9. QED
  BY <1>2, <1>6, <1>7, <1>8 DEF ResetInv

LEMMA JobsStill == ASSUME ResetInv, job' = job PROVE JobsMove
  BY DEF ResetInv, OutboxOK, JobOK, JobsMove

LEMMA TokensStill ==
  ASSUME ResetInv, token' = token, minted' = minted
  PROVE  /\ TokensRemade /\ token' \in [Ids -> Token \cup {None}]
         /\ minted' \in 0..MaxTokens /\ minted' >= minted
  BY DEF TokensRemade, ResetInv, IInv, TokensOK

LEMMA TaskTypes ==
  ASSUME ResetInv
  PROVE  /\ Started \in Task /\ Rest \in Task
         /\ \A place \in {"idle", "lost", "claim", "after", "down"} :
              [Rest EXCEPT !.at = place] \in Task
  BY DEF ResetInv, OutboxOK, Started, Rest, Task

LEMMA EnqueueStep == ASSUME ResetInv, NEW m \in Mails, Enqueue(m) PROVE ResetInv'
<1>1. PICK v \in IF \E u \in At(m) : credential[u] # None
                 THEN {credential[u].changed : u \in At(m)} ELSE {None} :
        job' = [job EXCEPT ![minted + 1] =
                  [mail |-> m, changed |-> v, state |-> "queued", attempts |-> 0, due |-> 0,
                   lease |-> 0, made |-> None]]
  BY DEF Enqueue
<1> DEFINE new == [mail |-> m, changed |-> v, state |-> "queued", attempts |-> 0, due |-> 0,
                   lease |-> 0, made |-> None]
<1>2. v = None \/ (v \in Nat /\ v <= written)
  <2>1. CASE v # None
    <3>1. PICK u \in At(m) : credential[u] # None
      BY <1>1, <2>1
    <3>2. \A x \in At(m) : x = u
      BY AtOne DEF ResetInv
    <3>3. v = credential[u].changed /\ u \in Users
      BY <1>1, <2>1, <3>1, <3>2 DEF At
    <3>4. QED
      BY <3>1, <3>3 DEF ResetInv, IInv, CredentialsOK, Credential
  <2>2. QED
    BY <2>1
<1>3. minted' = minted + 1 /\ minted + 1 \in Ids /\ minted' \in 0..MaxTokens /\ minted' >= minted
  BY AccountsAssumption DEF Enqueue, ResetInv, IInv, TokensOK, Ids
<1>4. new \in Job
  BY <1>2, ResetAssumption DEF Job
<1>5. \A j \in Ids : job'[j] = IF j = minted + 1 THEN new ELSE job[j]
  BY <1>1, <1>3 DEF ResetInv, OutboxOK
<1>6. job' \in [Ids -> Job \cup {None}]
  BY <1>1, <1>3, <1>4 DEF ResetInv, OutboxOK
<1>7. JobsMove
  <2>1. SUFFICES ASSUME NEW j \in Ids, job'[j] # None
                 PROVE  \/ /\ job[j] # None /\ job'[j].mail = job[j].mail
                           /\ job'[j].changed = job[j].changed
                           /\ job'[j].state = "running" => job'[j].attempts # 0
                        \/ /\ j = minted + 1 /\ minted' = minted + 1 /\ job'[j].state = "queued"
                           /\ job'[j].changed # None => job'[j].changed <= written
    BY <1>6 DEF JobsMove
  <2>2. CASE j = minted + 1
    BY <1>2, <1>3, <1>5, <2>2
  <2>3. CASE j # minted + 1
    BY <1>5, <2>1, <2>3 DEF ResetInv, OutboxOK, JobOK
  <2>4. QED
    BY <2>2, <2>3
<1>8. TokensRemade /\ token' \in [Ids -> Token \cup {None}]
  BY DEF Enqueue, TokensRemade, ResetInv, IInv, TokensOK
<1>9. QED
  BY <1>3, <1>7, <1>8, TaskTypes, OutboxMoves DEF Enqueue, ResetInv, OutboxOK

(* What a lease that expired makes of its job.                               *)
LEMMA Recovers ==
  ASSUME ResetInv
  PROVE  /\ Recover \in [Ids -> Job \cup {None}]
         /\ \A j \in Ids : Recover[j] # None =>
              /\ job[j] # None /\ Recover[j].mail = job[j].mail
              /\ Recover[j].changed = job[j].changed
              /\ Recover[j].state = "running" => Recover[j].attempts # 0
<1>1. ASSUME NEW j \in Ids, job[j] # None
      PROVE  /\ Recovered(j) \in Job /\ Recovered(j).mail = job[j].mail
             /\ Recovered(j).changed = job[j].changed
             /\ Recovered(j).state = "running" => Recovered(j).attempts # 0
  <2>1. job[j] \in Job /\ JobOK(j)
    BY <1>1 DEF ResetInv, OutboxOK
  <2>2. CASE ~Over(j)
    BY <2>1, <2>2 DEF Recovered, JobOK
  <2>3. CASE Over(j) /\ job[j].attempts < MaxAttempts
    BY <2>1, <2>3 DEF Recovered, Job
  <2>4. CASE Over(j) /\ ~(job[j].attempts < MaxAttempts)
    BY <2>1, <2>4 DEF Recovered, Job
  <2>5. QED
    BY <2>2, <2>3, <2>4
<1>2. \A j \in Ids : job[j] = None => Recovered(j) = None
  BY DEF Recovered, Over
<1>3. QED
  BY <1>1, <1>2 DEF Recover, ResetInv, OutboxOK

LEMMA ClaimStep == ASSUME ResetInv, Claim PROVE ResetInv'
<1> DEFINE back == {j \in Ids : LastOver(j) /\ job[j].made # None}
           kept == [i \in Ids |-> IF i \in back THEN None ELSE token[i]]
<1>1. \A i \in Ids : kept[i] = None \/ kept[i] = token[i]
  OBVIOUS
<1>2. kept \in [Ids -> Token \cup {None}]
  BY DEF ResetInv, IInv, TokensOK
<1>3. minted' = minted /\ minted' \in 0..MaxTokens /\ minted' >= minted
      /\ apiKey' \in Keys \cup {None}
  <2>1. UNCHANGED <<minted, apiKey>>
    BY Zenon DEF Claim
  <2>2. QED
    BY <2>1 DEF ResetInv, OutboxOK, IInv, TokensOK
<1>4. CASE job' = Recover /\ token' = kept /\ task' = [Rest EXCEPT !.at = "after", !.keyless = apiKey = None]
  <2>1. JobsMove
    BY <1>4, Recovers DEF JobsMove
  <2>2. TokensRemade /\ token' \in [Ids -> Token \cup {None}]
    BY <1>1, <1>2, <1>4 DEF TokensRemade
  <2>3. task' \in Task
    BY <1>4 DEF Rest, Task
  <2>4. QED
    BY <1>3, <2>1, <2>2, <2>3, OutboxMoves DEF Claim, ResetInv, OutboxOK
<1>5. ASSUME NEW j \in Ids, apiKey # None, Due(j), NEW taken,
             taken = [Recover[j] EXCEPT !.attempts = @ + 1]
      PROVE  /\ taken \in Job /\ taken.mail = job[j].mail /\ taken.changed = job[j].changed
             /\ taken.attempts # 0 /\ job[j] # None /\ Recover[j] \in Job
  <2>1. Recover[j] \in Job /\ Recover[j].attempts < MaxAttempts /\ job[j] # None
        /\ Recover[j].mail = job[j].mail /\ Recover[j].changed = job[j].changed
    BY <1>5, Recovers DEF Due
  <2>2. taken.attempts = Recover[j].attempts + 1 /\ taken.attempts \in 0..MaxAttempts
    BY <1>5, <2>1, ResetAssumption DEF Job
  <2>3. QED
    BY <1>5, <2>1, <2>2 DEF Job
<1>6. ASSUME NEW j \in Ids, apiKey # None, Due(j), NEW row \in Job, NEW taken,
             taken = [Recover[j] EXCEPT !.attempts = @ + 1],
             row.mail = taken.mail, row.changed = taken.changed, row.attempts = taken.attempts,
             job' = [Recover EXCEPT ![j] = row]
      PROVE  JobsMove
  <2>1. job' \in [Ids -> Job \cup {None}]
    BY <1>6, Recovers
  <2>2. \A k \in Ids : job'[k] = IF k = j THEN row ELSE Recover[k]
    BY <1>6, Recovers
  <2>3. \A k \in Ids : job'[k] # None =>
          /\ job[k] # None /\ job'[k].mail = job[k].mail /\ job'[k].changed = job[k].changed
          /\ job'[k].state = "running" => job'[k].attempts # 0
    <3>1. TAKE k \in Ids
    <3>2. HAVE job'[k] # None
    <3>3. CASE k = j
      <4>1. job[j] # None /\ taken.mail = job[j].mail /\ taken.changed = job[j].changed
            /\ taken.attempts # 0
        BY <1>5, <1>6
      <4>2. QED
        BY <1>6, <2>2, <3>3, <4>1
    <3>4. CASE k # j
      BY <2>2, <3>2, <3>4, Recovers
    <3>5. QED
      BY <3>3, <3>4
  <2>4. QED
    BY <2>1, <2>3 DEF JobsMove
<1>7. ASSUME NEW j \in Ids, apiKey # None, Due(j), NEW taken,
             taken = [Recover[j] EXCEPT !.attempts = @ + 1],
             job' = [Recover EXCEPT ![j] = [taken EXCEPT
                       !.state = IF StillFor(j) THEN "failed" ELSE "skipped", !.lease = 0]],
             token' = kept, TaskAt("after")
      PROVE  ResetInv'
  <2> DEFINE row == [taken EXCEPT !.state = IF StillFor(j) THEN "failed" ELSE "skipped", !.lease = 0]
  <2>1. taken \in Job
    BY <1>5, <1>7
  <2>2. row \in Job /\ row.mail = taken.mail /\ row.changed = taken.changed
        /\ row.attempts = taken.attempts
    BY <2>1 DEF Job
  <2>3. JobsMove
    BY <1>6, <1>7, <2>2
  <2>4. TokensRemade /\ token' \in [Ids -> Token \cup {None}]
    BY <1>1, <1>2, <1>7 DEF TokensRemade
  <2>5. task' \in Task
    BY <1>7, TaskTypes DEF TaskAt
  <2>6. QED
    BY <1>3, <2>3, <2>4, <2>5, OutboxMoves DEF Claim, ResetInv, OutboxOK
<1>8. ASSUME NEW j \in Ids, apiKey # None, Due(j), StillFor(j), NEW taken,
             taken = [Recover[j] EXCEPT !.attempts = @ + 1],
             job' = [Recover EXCEPT ![j] =
                       [taken EXCEPT !.state = "running", !.lease = Lease, !.made = apiKey]],
             token' = IF token[j] = None THEN [kept EXCEPT ![j] = ResetToken(j)] ELSE kept,
             task' = [Rest EXCEPT !.at = "send", !.job = j]
      PROVE  ResetInv'
  <2> DEFINE row == [taken EXCEPT !.state = "running", !.lease = Lease, !.made = apiKey]
  <2>1. taken \in Job /\ job[j] # None
    BY <1>5, <1>8
  <2>2. apiKey \in Keys /\ Lease \in Nat
    BY <1>8, ResetAssumption DEF ResetInv, OutboxOK
  <2>3. row \in Job /\ row.mail = taken.mail /\ row.changed = taken.changed
        /\ row.attempts = taken.attempts
    BY <2>1, <2>2 DEF Job
  <2>4. JobsMove
    BY <1>6, <1>8, <2>3
  <2>5. ResetToken(j) \in Token
    BY <2>1 DEF ResetInv, OutboxOK, Job, ResetToken, Token, MailKinds, LinkKinds
  <2>6. token' \in [Ids -> Token \cup {None}]
    BY <1>2, <1>8, <2>5
  <2>7. TokensRemade
    BY <1>1, <1>8, <2>1 DEF TokensRemade
  <2>8. task' \in Task
    BY <1>8 DEF Rest, Task
  <2>9. QED
    BY <1>3, <2>4, <2>6, <2>7, <2>8, OutboxMoves DEF Claim, ResetInv, OutboxOK
<1>9. CASE ~(job' = Recover /\ token' = kept
             /\ task' = [Rest EXCEPT !.at = "after", !.keyless = apiKey = None])
  <2>1. PICK j \in Ids : apiKey # None /\ Oldest(j) /\
          LET taken == [Recover[j] EXCEPT !.attempts = @ + 1]
              other == taken.made \notin {None, apiKey}
          IN IF ~StillFor(j) \/ other
             THEN /\ job' = [Recover EXCEPT ![j] = [taken EXCEPT
                      !.state = IF StillFor(j) THEN "failed" ELSE "skipped", !.lease = 0]]
                  /\ token' = kept
                  /\ TaskAt("after")
             ELSE /\ job' = [Recover EXCEPT ![j] =
                      [taken EXCEPT !.state = "running", !.lease = Lease, !.made = apiKey]]
                  /\ token' = IF token[j] = None THEN [kept EXCEPT ![j] = ResetToken(j)]
                              ELSE kept
                  /\ task' = [Rest EXCEPT !.at = "send", !.job = j]
    BY <1>9 DEF Claim
  <2>2. Due(j)
    BY <2>1 DEF Oldest
  <2>3. QED
    BY <1>7, <1>8, <2>1, <2>2
<1>10. QED
  BY <1>4, <1>9

(* A delivery that was refused waits a natural number of seconds.            *)
LEMMA RetryNat == ASSUME NEW n \in 1..MaxAttempts PROVE RetryIn(n) \in Nat
<1> DEFINE k == n - 1
<1>1. k \in 0..MaxAttempts
  BY ResetAssumption
<1>2. 2 ^ k \in Nat
  BY <1>1, PowersAssumption
<1>3. \A p \in Nat : RetryBase * p \in Nat
  BY ResetAssumption
<1>4. RetryBase * 2 ^ k \in Nat
  BY <1>2, <1>3
<1>5. QED
  BY <1>4, ResetAssumption DEF RetryIn

LEMMA FinishStep == ASSUME ResetInv, Finish PROVE ResetInv'
<1> DEFINE j == task.job
<1>1. UNCHANGED <<routes, identity, doors, minted, spent, belated, reserved, blocked, flight,
                  wake, apiKey, faults>> /\ TaskAt("after")
  BY Zenon DEF Finish
<1>2. /\ minted' \in 0..MaxTokens /\ minted' >= minted /\ apiKey' \in Keys \cup {None}
      /\ wake' \in Nat \cup {None} /\ faults' \in 0..MaxFaults /\ task' \in Task
  BY <1>1, TaskTypes DEF TaskAt, ResetInv, OutboxOK, IInv, TokensOK
<1>3. ASSUME NEW row \in Job, j \in Ids, job[j] # None, row.mail = job[j].mail,
             row.changed = job[j].changed, row.state # "running", job' = [job EXCEPT ![j] = row]
      PROVE  JobsMove
  <2>1. job' \in [Ids -> Job \cup {None}]
    BY <1>3 DEF ResetInv, OutboxOK
  <2>2. \A k \in Ids : job'[k] = IF k = j THEN row ELSE job[k]
    BY <1>3 DEF ResetInv, OutboxOK
  <2>3. QED
    BY <1>3, <2>1, <2>2 DEF JobsMove, ResetInv, OutboxOK, JobOK
<1>4. CASE job' = job /\ token' = token
  BY <1>1, <1>2, <1>4, JobsStill, TokensStill, OutboxMoves
<1>5. CASE ~(job' = job /\ token' = token)
  <2>1. job[j] # None /\ job[j].state = "running"
        /\ \/ job' = [job EXCEPT ![j].state = "sent", ![j].lease = 0] /\ token' = token
           \/ /\ job[j].attempts < MaxAttempts /\ token' = token
              /\ job' = [job EXCEPT ![j].state = "queued", ![j].lease = 0,
                                    ![j].due = RetryIn(job[j].attempts)]
           \/ /\ job' = [job EXCEPT ![j].state = "failed", ![j].lease = 0, ![j].made = None]
              /\ token' = [token EXCEPT ![j] = None]
    BY <1>5 DEF Finish
  <2>2. CASE j \in Ids
    <3>1. job[j] \in Job /\ job[j].attempts \in 1..MaxAttempts
      BY <2>1, <2>2, ResetAssumption DEF ResetInv, OutboxOK, JobOK, Job
    <3>2. RetryIn(job[j].attempts) \in Nat
      BY <3>1, RetryNat
    <3>3. JobsMove
      <4>1. CASE job' = [job EXCEPT ![j].state = "sent", ![j].lease = 0]
        <5> DEFINE row == [job[j] EXCEPT !.state = "sent", !.lease = 0]
        <5>1. row \in Job /\ row.mail = job[j].mail /\ row.changed = job[j].changed
              /\ row.state = "sent"
          BY <3>1 DEF Job
        <5>2. job' = [job EXCEPT ![j] = row]
          BY <2>2, <4>1 DEF ResetInv, OutboxOK
        <5>3. QED
          BY <1>3, <2>1, <2>2, <5>1, <5>2
      <4>2. CASE job' = [job EXCEPT ![j].state = "queued", ![j].lease = 0,
                                    ![j].due = RetryIn(job[j].attempts)]
        <5> DEFINE row == [job[j] EXCEPT !.state = "queued", !.lease = 0,
                                         !.due = RetryIn(job[j].attempts)]
        <5>1. row \in Job /\ row.mail = job[j].mail /\ row.changed = job[j].changed
              /\ row.state = "queued"
          BY <3>1, <3>2 DEF Job
        <5>2. job' = [job EXCEPT ![j] = row]
          BY <2>2, <4>2 DEF ResetInv, OutboxOK
        <5>3. QED
          BY <1>3, <2>1, <2>2, <5>1, <5>2
      <4>3. CASE job' = [job EXCEPT ![j].state = "failed", ![j].lease = 0, ![j].made = None]
        <5> DEFINE row == [job[j] EXCEPT !.state = "failed", !.lease = 0, !.made = None]
        <5>1. row \in Job /\ row.mail = job[j].mail /\ row.changed = job[j].changed
              /\ row.state = "failed"
          BY <3>1 DEF Job
        <5>2. job' = [job EXCEPT ![j] = row]
          BY <2>2, <4>3 DEF ResetInv, OutboxOK
        <5>3. QED
          BY <1>3, <2>1, <2>2, <5>1, <5>2
      <4>4. QED
        BY <2>1, <4>1, <4>2, <4>3
    <3>4. TokensRemade /\ token' \in [Ids -> Token \cup {None}]
      <4>1. token \in [Ids -> Token \cup {None}]
        BY DEF ResetInv, IInv, TokensOK
      <4>2. token' = token \/ token' = [token EXCEPT ![j] = None]
        BY <2>1
      <4>3. QED
        BY <2>2, <4>1, <4>2 DEF TokensRemade
    <3>5. QED
      BY <1>1, <1>2, <3>3, <3>4, OutboxMoves
  <2>3. CASE j \notin Ids
    <3>1. job \in [Ids -> Job \cup {None}] /\ token \in [Ids -> Token \cup {None}]
      BY DEF ResetInv, OutboxOK, IInv, TokensOK
    <3>2. job' = job /\ token' = token
      BY <2>1, <2>3, <3>1
    <3>3. QED
      BY <1>5, <3>2
  <2>4. QED
    BY <2>2, <2>3
<1>6. QED
  BY <1>4, <1>5

(* The task goes on, or a fault: the tables stay.                            *)
LEMMA TaskMoves ==
  ASSUME ResetInv, UNCHANGED <<accountVars, job>>, task' \in Task, wake' \in Nat \cup {None},
         apiKey' \in Keys \cup {None}, faults' \in 0..MaxFaults
  PROVE  ResetInv'
  BY JobsStill, TokensStill, OutboxMoves DEF accountVars, tokens

LEMMA OutboxTypes ==
  ASSUME ResetInv
  PROVE  /\ task \in Task /\ wake \in Nat \cup {None} /\ apiKey \in Keys \cup {None}
         /\ faults \in 0..MaxFaults /\ job \in [Ids -> Job \cup {None}]
         /\ \A t \in WakeTimes : t \in Nat
  BY DEF ResetInv, OutboxOK, WakeTimes, Jobs, Job

LEMMA TaskSteps ==
  ASSUME ResetInv, SendMail \/ After \/ Fires \/ Fails \/ NewKey
  PROVE  ResetInv'
<1>1. CASE SendMail
  <2>1. task' \in Task
    BY <1>1, OutboxTypes DEF SendMail, Task
  <2>2. QED
    BY <1>1, <2>1, OutboxTypes, TaskMoves DEF SendMail
<1>2. CASE After
  <2>1. task' \in Task
    BY <1>2, TaskTypes DEF After, TaskAt
  <2>2. wake' \in Nat \cup {None}
    <3>1. CASE wake' = wake
      BY <3>1, OutboxTypes
    <3>2. CASE \E t \in WakeTimes \cup {ProviderRetry} : Sets(t)
      BY <3>2, OutboxTypes, ResetAssumption DEF Sets
    <3>3. QED
      BY <1>2, <3>1, <3>2 DEF After
  <2>3. QED
    BY <1>2, <2>1, <2>2, OutboxTypes, TaskMoves DEF After
<1>3. CASE Fires
  BY <1>3, TaskTypes, OutboxTypes, TaskMoves DEF Fires
<1>4. CASE Fails
  <2>1. task' \in Task /\ faults' \in 0..MaxFaults
    BY <1>4, TaskTypes, OutboxTypes, ResetAssumption DEF Fails, Faults, TaskAt
  <2>2. QED
    BY <1>4, <2>1, OutboxTypes, TaskMoves DEF Fails
<1>5. CASE NewKey
  <2>1. faults' \in 0..MaxFaults /\ apiKey' \in Keys \cup {None}
    BY <1>5, OutboxTypes, ResetAssumption DEF NewKey, Faults
  <2>2. QED
    BY <1>5, <2>1, OutboxTypes, TaskMoves DEF NewKey
<1>6. QED
  BY <1>1, <1>2, <1>3, <1>4, <1>5

(* A restart forgets who was in flight and nothing else.                     *)
LEMMA StopsStep == ASSUME ResetInv, Stops PROVE ResetInv'
<1>1. UNCHANGED <<routes, identity, doors, tokens, reserved, blocked, job, apiKey>>
      /\ flight' = [c \in Requests |-> NoFlight]
  BY DEF Stops, Faults
<1>2. UNCHANGED <<routes, account, credential, written, claimed, session, issued, passkey, token,
                  minted, spent, belated, reserved, blocked, job, apiKey>>
  BY <1>1 DEF identity, doors, tokens
<1>3. FlightsOK'
  <2>1. NoFlight.route = None /\ NoFlight \in Flight
    BY Routes DEF NoFlight
  <2>2. None \notin SessionRoutes \cup {"register", "login", "setup", "answered"}
    <3>1. None \notin RouteNames
      BY NoneAssumption
    <3>2. SessionRoutes \cup {"register", "login", "setup", "answered"} \subseteq RouteNames
      BY DEF RouteNames, SessionRoutes
    <3>3. QED
      BY <3>1, <3>2
  <2>3. FlightOK(NoFlight)'
    BY <2>1, <2>2 DEF FlightOK
  <2>4. QED
    BY <1>1, <2>1, <2>3 DEF FlightsOK
<1>4. IInv'
  BY <1>2, <1>3 DEF ResetInv, IInv, CredentialsOK, TokensOK, TokenOK, SessionsOK, OthersOK,
                    BelatedOK, Stays, OnlyCurrent, NoLeftoverEnters, Word, Open, Has
<1>5. OutboxOK'
  <2>1. task' \in Task /\ wake' = None /\ faults' \in 0..MaxFaults
    BY TaskTypes, OutboxTypes, ResetAssumption DEF Stops, Faults, TaskAt
  <2>2. QED
    BY <1>2, <2>1 DEF ResetInv, OutboxOK, JobOK, ResetToken
<1>6. OneEach' /\ SpentOK'
  BY <1>2 DEF ResetInv, OneEach, SpentOK, SpentStaysSpent, StillFor, At, Open
<1>7. QED
  BY <1>4, <1>5, <1>6 DEF ResetInv

LEMMA StartsStep == ASSUME ResetInv, Starts PROVE ResetInv'
<1>1. PICK gone : job' = [j \in Ids |-> IF j \in gone THEN None ELSE job[j]]
  BY DEF Starts
<1>2. UNCHANGED <<accountVars, wake, apiKey, faults>> /\ TaskAt("claim")
  BY DEF Starts
<1>3. job' \in [Ids -> Job \cup {None}]
      /\ \A j \in Ids : job'[j] # None => job[j] # None /\ job'[j] = job[j]
  BY <1>1, OutboxTypes
<1>4. JobsMove
  BY <1>3 DEF JobsMove, ResetInv, OutboxOK, JobOK
<1>5. QED
  BY <1>2, <1>4, TaskTypes, OutboxTypes, TokensStill, OutboxMoves DEF TaskAt, accountVars, tokens

LEMMA TickStep == ASSUME ResetInv, Tick PROVE ResetInv'
<1>1. \A t \in Nat : Less(t) \in Nat
  BY DEF Less
<1>2. UNCHANGED <<accountVars, task, apiKey, faults>>
      /\ wake' = (IF wake = None THEN None ELSE Less(wake))
      /\ job' = [j \in Ids |-> IF job[j] = None THEN None
                               ELSE [job[j] EXCEPT !.due = Less(@), !.lease = Less(@)]]
  BY DEF Tick
<1>3. ASSUME NEW j \in Ids, job[j] # None
      PROVE  /\ [job[j] EXCEPT !.due = Less(@), !.lease = Less(@)] \in Job
             /\ job'[j].mail = job[j].mail /\ job'[j].changed = job[j].changed
             /\ job'[j].state = job[j].state /\ job'[j].attempts = job[j].attempts
  <2>1. job[j] \in Job
    BY <1>3, OutboxTypes
  <2>2. Less(job[j].due) \in Nat /\ Less(job[j].lease) \in Nat
    BY <1>1, <2>1 DEF Job
  <2>3. QED
    BY <1>2, <1>3, <2>1, <2>2 DEF Job
<1>4. JobsMove
  <2>1. job' \in [Ids -> Job \cup {None}]
    BY <1>2, <1>3
  <2>2. \A j \in Ids : job'[j] # None => job[j] # None
    BY <1>2
  <2>3. QED
    BY <1>3, <2>1, <2>2 DEF JobsMove, ResetInv, OutboxOK, JobOK
<1>5. wake' \in Nat \cup {None}
  BY <1>1, <1>2, OutboxTypes
<1>6. QED
  BY <1>2, <1>4, <1>5, OutboxTypes, TokensStill, OutboxMoves DEF accountVars, tokens

LEMMA ResetStarts == ASSUME ResetInit PROVE ResetInv
<1>1. IInv
  BY AccountsStarts DEF ResetInit
<1>2. OutboxOK
  <2>1. Rest \in Task
    BY DEF Rest, Task
  <2>2. QED
    BY <2>1, ResetAssumption DEF ResetInit, OutboxOK
<1>3. OneEach
  <2>1. \A m \in Mails : \A u, v \in At(m) : u = v
    BY DEF ResetInit, AccountsInit
  <2>2. QED
    BY <2>1, RowTypes, <1>1 DEF OneEach, At
<1>4. SpentOK
  BY DEF ResetInit, AccountsInit, SpentOK, SpentStaysSpent
<1>5. QED
  BY <1>1, <1>2, <1>3, <1>4 DEF ResetInv

LEMMA ResetKeeps == ASSUME ResetInv, [ResetNext]_resetVars PROVE ResetInv'
<1>1. CASE OutboxStep
  BY <1>1, EnqueueStep, ClaimStep, FinishStep, TaskSteps, StopsStep, StartsStep, TickStep
     DEF OutboxStep
<1>2. CASE AccountsNext /\ job' = Forgets /\ UNCHANGED <<task, wake, apiKey, faults>>
  BY <1>2, AccountsBeside
<1>3. CASE UNCHANGED resetVars
  BY <1>3, OutboxTypes, TaskMoves DEF resetVars, outbox
<1>4. QED
  BY <1>1, <1>2, <1>3 DEF ResetNext

LEMMA ResetInvariant == ResetSpec => []ResetInv
<1>1. ResetInit => ResetInv
  BY ResetStarts
<1>2. ResetInv /\ [ResetNext]_resetVars => ResetInv'
  BY ResetKeeps
<1>3. QED
  BY <1>1, <1>2, PTL DEF ResetSpec

(* Types: every table of the accounts and of the outbox holds rows of its    *)
(* own kind, whatever is asked for and whatever fails.                       *)
THEOREM TypeCorrect == ResetSpec => []ResetTypeOK
<1>1. ResetInv => ResetTypeOK
  BY AccountsTypes DEF ResetInv, OutboxOK, ResetTypeOK
<1>2. QED
  BY <1>1, ResetInvariant, PTL

(* A live session was made by, or stayed under, the password its account has *)
(* now: registration, login, change, reset, setup and erasure may interleave *)
(* as they like (user_data.update_authenticated_password and its siblings).  *)
THEOREM OnlyCurrentHolds == ResetSpec => []OnlyCurrent
<1>1. ResetInv => OnlyCurrent
  BY DEF ResetInv, IInv
<1>2. QED
  BY <1>1, ResetInvariant, PTL

(* Nothing that was given out or in flight when delete_user_account ran gives*)
(* the account a session, a setup session or a passkey again, unless a       *)
(* passkey challenge was given to it after that: register/options            *)
(* authenticates first and mints later, without a look at the account.       *)
THEOREM NoLeftoverEntersHolds == ResetSpec => []NoLeftoverEnters
<1>1. ResetInv => NoLeftoverEnters
  BY DEF ResetInv, IInv
<1>2. QED
  BY <1>1, ResetInvariant, PTL

(* A token that was used is never a row again, although                      *)
(* claim_password_reset_job stores the token of a job once more when it is   *)
(* gone: who used it renewed the password the job was for.                   *)
THEOREM SpentStaysSpentHolds == ResetSpec => []SpentStaysSpent
<1>1. ResetInv => SpentStaysSpent
  BY DEF ResetInv, SpentOK
<1>2. QED
  BY <1>1, ResetInvariant, PTL
=============================================================================
