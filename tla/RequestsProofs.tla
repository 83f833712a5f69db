--------------------------- MODULE RequestsProofs ---------------------------
(***************************************************************************)
(* Theorems about Requests, for every set of purchases, routes and kinds   *)
(* and for every bound.                                                    *)
(***************************************************************************)
EXTENDS Requests, TLAPS

(* A thread that is sending, or has an answer, works for an attempt that   *)
(* was counted. Only such a thread holds a lease, and only an answer says  *)
(* that the mail was received.                                             *)
Delivering(t) == thread[t].at \in {"send", "finish"}
ThreadsOK ==
  \A t \in Threads :
    /\ Delivering(t) => /\ thread[t].request \in Filed
                        /\ thread[t].attempt \in 1..rows[thread[t].request].attempts
    /\ ~Delivering(t) => thread[t].lease = 0 /\ ~thread[t].sent
    /\ thread[t].sent => mailbox[thread[t].request] = 1

(* Two threads never work for the same attempt of a request.               *)
Fenced ==
  \A t, u \in Threads :
    /\ t # u /\ Delivering(t) /\ Delivering(u)
    /\ thread[t].request = thread[u].request
    => thread[t].attempt # thread[u].attempt

(* A lease that has not expired is the one the row records.                *)
LeaseHeld ==
  \A t \in Threads : thread[t].lease > 0 =>
    LET row == rows[thread[t].request] IN
    /\ row.state = "sending"
    /\ row.attempts = thread[t].attempt
    /\ row.lease = thread[t].lease

(* One mail per key, none for a request that is not filed.                 *)
MailPerKey ==
  \A r \in Ids : /\ mailbox[r] = IF <<r, 0>> \in accepted THEN 1 ELSE 0
                 /\ r \notin Filed => mailbox[r] = 0

(* "sent" is recorded of what was received.                                *)
SentReceived == \A r \in Filed : rows[r].state = "sent" => mailbox[r] = 1

IInv ==
  /\ TypeOK /\ ThreadsOK /\ Fenced /\ LeaseHeld
  /\ MailPerKey /\ SentReceived /\ GivenUpLast

-----------------------------------------------------------------------------
(* Rows. *)

(* None is neither a number nor a row.                                     *)
LEMMA NoneFresh == None \notin Nat /\ None \notin Row /\ None \notin Ids
  BY NoneAssumption DEF Ids

(* A filed request has a row.                                              *)
LEMMA FiledRow == ASSUME TypeOK, NEW r \in Filed PROVE r \in Ids /\ rows[r] \in Row
  BY DEF TypeOK, Filed

(* The delay before the next attempt is a natural number.                  *)
LEMMA RetryDelayType == ASSUME NEW n \in 1..MaxAttempts PROVE RetryDelay(n) \in Nat
  <1> DEFINE power == 2 ^ (n - 1)
  <1>1. power \in Nat
    BY PowersAssumption, RequestsAssumption
  <1> HIDE DEF power
  <1>2. RetryBase * power \in Nat
    BY <1>1, RequestsAssumption
  <1>3. QED
    BY <1>2, RequestsAssumption DEF RetryDelay, power

(* Recovery changes nothing but a row whose lease has expired.             *)
LEMMA RecoveredType ==
  ASSUME NEW row \in Row
  PROVE  /\ Recovered(row) \in Row
         /\ Recovered(row).attempts = row.attempts
         /\ Recovered(row).lease = row.lease
         /\ Recovered(row).state # row.state =>
              /\ row.state = "sending" /\ row.lease = 0
              /\ IF row.attempts < MaxAttempts THEN Recovered(row).state = "pending"
                                               ELSE Recovered(row).state = "failed"
         /\ row.state = "sending" /\ row.lease = 0 => Recovered(row).state # row.state
  BY DEF Recovered, Row

(* Claiming takes a row that is due and has attempts left.                 *)
LEMMA LeasedType ==
  ASSUME NEW row \in Row, Due(row)
  PROVE  /\ Leased(row) \in Row
         /\ Leased(row).attempts = row.attempts + 1
         /\ Leased(row).lease = Lease
         /\ Leased(row).state = "sending"
  <1>1. row.attempts + 1 \in 0..MaxAttempts
    BY RequestsAssumption DEF Row, Due
  <1> DEFINE next == row.attempts + 1
  <1> HIDE DEF next
  <1>2. Leased(row) = [row EXCEPT !.state = "sending", !.attempts = next, !.lease = Lease]
    BY DEF Leased, next
  <1>3. next \in 0..MaxAttempts
    BY <1>1 DEF next
  <1>4. /\ Leased(row) \in Row
        /\ Leased(row).attempts = next
        /\ Leased(row).lease = Lease
        /\ Leased(row).state = "sending"
    BY <1>2, <1>3, RequestsAssumption DEF Row
  <1>5. QED
    BY <1>4 DEF next

(* Finishing settles the row or sets the time of the next attempt.         *)
LEMMA FinishedType ==
  ASSUME NEW row \in Row, NEW sent \in BOOLEAN, row.attempts \in 1..MaxAttempts
  PROVE  /\ Finished(row, sent) \in Row
         /\ Finished(row, sent).attempts = row.attempts
         /\ Finished(row, sent).lease = 0
         /\ sent => Finished(row, sent).state = "sent"
         /\ ~sent => Finished(row, sent).state =
                       IF row.attempts < MaxAttempts THEN "pending" ELSE "failed"
  BY RetryDelayType DEF Finished, Row

-----------------------------------------------------------------------------
(* Threads. *)

ThreadInv == ThreadsOK /\ Fenced /\ LeaseHeld

(* A thread that has no delivery keeps nobody from anything: the others go *)
(* on as before, whatever happened to rows they hold no lease of.          *)
LEMMA ThreadMoves ==
  ASSUME TypeOK, ThreadInv, NEW t \in Threads, NEW new \in Thread,
         new.at \in {"idle", "claim", "wake"}, new.lease = 0, ~new.sent,
         thread' = [thread EXCEPT ![t] = new],
         rows' \in [Ids -> Row \cup {None}], mailbox' = mailbox,
         \A r \in Filed : rows'[r] # None /\ rows'[r].attempts = rows[r].attempts,
         \A u \in Threads \ {t} : thread[u].lease > 0 =>
            /\ rows'[thread[u].request].state = rows[thread[u].request].state
            /\ rows'[thread[u].request].lease = rows[thread[u].request].lease
  PROVE  thread' \in [Threads -> Thread] /\ ThreadInv'
  <1>1. thread' \in [Threads -> Thread]
    BY DEF TypeOK
  <1>2. thread'[t] = new /\ \A u \in Threads : u # t => thread'[u] = thread[u]
    BY DEF TypeOK
  <1>3. Filed \subseteq Filed'
    BY DEF Filed
  <1>4. ThreadsOK'
    <2> SUFFICES ASSUME NEW u \in Threads
                 PROVE  /\ Delivering(u)' => /\ thread'[u].request \in Filed'
                                             /\ thread'[u].attempt \in 1..rows'[thread'[u].request].attempts
                        /\ ~Delivering(u)' => thread'[u].lease = 0 /\ ~thread'[u].sent
                        /\ thread'[u].sent => mailbox'[thread'[u].request] = 1
      BY DEF ThreadsOK
    <2>1. CASE u = t
      BY <2>1, <1>2 DEF Delivering
    <2>2. CASE u # t
      BY <2>2, <1>2, <1>3 DEF Delivering, ThreadInv, ThreadsOK
    <2>3. QED
      BY <2>1, <2>2
  <1>5. Fenced'
    BY <1>2 DEF Fenced, Delivering, ThreadInv
  <1>6. LeaseHeld'
    <2> SUFFICES ASSUME NEW u \in Threads, thread'[u].lease > 0
                 PROVE  /\ rows'[thread'[u].request].state = "sending"
                        /\ rows'[thread'[u].request].attempts = thread'[u].attempt
                        /\ rows'[thread'[u].request].lease = thread'[u].lease
      BY DEF LeaseHeld
    <2>1. u # t /\ thread'[u] = thread[u]
      BY <1>2
    <2>2. Delivering(u)
      BY <2>1 DEF ThreadInv, ThreadsOK, TypeOK, Thread
    <2>3. thread[u].request \in Filed
      BY <2>2 DEF ThreadInv, ThreadsOK
    <2>4. QED
      BY <2>1, <2>3 DEF ThreadInv, LeaseHeld
  <1>7. QED
    BY <1>1, <1>4, <1>5, <1>6 DEF ThreadInv

(* Where a thread goes that has no delivery. *)
LEMMA IdleType ==
  ASSUME NEW place \in {"idle", "claim", "wake"}, NEW r \in Ids \cup {None}
  PROVE  /\ [Idle EXCEPT !.at = place] \in Thread
         /\ [Idle EXCEPT !.at = place, !.request = r] \in Thread
         /\ [Idle EXCEPT !.at = place].at = place
         /\ [Idle EXCEPT !.at = place].lease = 0
         /\ ~[Idle EXCEPT !.at = place].sent
         /\ [Idle EXCEPT !.at = place, !.request = r].at = place
         /\ [Idle EXCEPT !.at = place, !.request = r].lease = 0
         /\ ~[Idle EXCEPT !.at = place, !.request = r].sent
  <1>1. 0 \in 0..MaxAttempts
    BY RequestsAssumption
  <1>2. Idle \in Thread /\ Idle.lease = 0 /\ ~Idle.sent
    BY <1>1 DEF Idle, Thread
  <1>3. [Idle EXCEPT !.at = place] \in Thread
    BY <1>2 DEF Thread
  <1>4. [Idle EXCEPT !.at = place, !.request = r] \in Thread
    BY <1>2 DEF Thread
  <1>5. QED
    BY <1>2, <1>3, <1>4 DEF Thread

(* Moving a thread without touching a row or the provider keeps the        *)
(* invariant.                                                              *)
LEMMA Moved ==
  ASSUME IInv, NEW t \in Threads, NEW place \in {"idle", "claim", "wake"}, Goes(t, place),
         UNCHANGED <<rows, provider>>, alarm' \in Nat \cup {None}, faults' \in 0..MaxFaults
  PROVE  IInv'
  <1> DEFINE new == [Idle EXCEPT !.at = place]
  <1>1. new \in Thread /\ new.at = place /\ new.lease = 0 /\ ~new.sent
    BY IdleType
  <1>2. thread' = [thread EXCEPT ![t] = new] /\ rows' = rows /\ mailbox' = mailbox
        /\ accepted' = accepted
    BY DEF Goes, provider
  <1> HIDE DEF new
  <1>3. rows' \in [Ids -> Row \cup {None}]
    BY <1>2 DEF IInv, TypeOK
  <1>4. \A r \in Filed : rows'[r] # None /\ rows'[r].attempts = rows[r].attempts
    BY <1>2 DEF Filed
  <1>5. thread' \in [Threads -> Thread] /\ ThreadInv'
    BY <1>1, <1>2, <1>3, <1>4, ThreadMoves DEF IInv, ThreadInv
  <1>6. TypeOK'
    BY <1>2, <1>3, <1>5 DEF IInv, TypeOK
  <1>7. MailPerKey' /\ SentReceived' /\ GivenUpLast'
    BY <1>2 DEF IInv, MailPerKey, SentReceived, GivenUpLast, Filed
  <1>8. QED
    BY <1>5, <1>6, <1>7 DEF IInv, ThreadInv

-----------------------------------------------------------------------------
(* Actions. *)

(* A change of rows that keeps what the outbox knows of each.              *)
LEMMA OutboxUntouched ==
  ASSUME IInv, rows' \in [Ids -> Row \cup {None}],
         \A r \in Ids : rows[r] = None <=> rows'[r] = None,
         \A r \in Filed : /\ rows'[r].state = rows[r].state
                          /\ rows'[r].attempts = rows[r].attempts
                          /\ rows'[r].lease = rows[r].lease,
         UNCHANGED <<thread, alarm, provider, faults>>
  PROVE  IInv'
  <1>1. Filed' = Filed
    BY DEF Filed
  <1>2. TypeOK' /\ MailPerKey'
    BY <1>1 DEF IInv, TypeOK, MailPerKey, provider
  <1>3. SentReceived' /\ GivenUpLast'
    BY <1>1 DEF IInv, SentReceived, GivenUpLast, provider
  <1>4. ThreadsOK' /\ Fenced'
    BY <1>1 DEF IInv, ThreadsOK, Fenced, Delivering, provider
  <1>5. LeaseHeld'
    BY <1>1 DEF IInv, LeaseHeld, ThreadsOK, Delivering, TypeOK, Thread
  <1>6. QED
    BY <1>2, <1>3, <1>4, <1>5 DEF IInv

LEMMA MarkProcessingInv ==
  ASSUME IInv, NEW r \in Filed, MarkProcessing(r) PROVE IInv'
  <1>1. r \in Ids /\ rows[r] \in Row
    BY FiledRow DEF IInv
  <1> DEFINE new == [rows[r] EXCEPT !.status = "processing"]
  <1>2. new \in Row /\ new.state = rows[r].state /\ new.attempts = rows[r].attempts
        /\ new.lease = rows[r].lease
    BY <1>1 DEF Row, Statuses, OpenStatuses
  <1>3. rows' = [rows EXCEPT ![r] = new]
    BY DEF MarkProcessing
  <1> HIDE DEF new
  <1>4. rows' \in [Ids -> Row \cup {None}]
    BY <1>1, <1>2, <1>3 DEF IInv, TypeOK
  <1>5. \A q \in Ids : rows[q] = None <=> rows'[q] = None
    BY <1>1, <1>2, <1>3, NoneFresh DEF IInv, TypeOK
  <1>6. \A q \in Filed : /\ rows'[q].state = rows[q].state
                         /\ rows'[q].attempts = rows[q].attempts
                         /\ rows'[q].lease = rows[q].lease
    BY <1>1, <1>2, <1>3 DEF IInv, TypeOK, Filed
  <1>7. QED
    BY <1>4, <1>5, <1>6, OutboxUntouched DEF MarkProcessing

LEMMA CloseForRefundInv ==
  ASSUME IInv, NEW o, CloseForRefund(o) PROVE IInv'
  <1> DEFINE new(r) == [rows[r] EXCEPT !.status = "refunded"]
  <1>1. \A r \in Filed : /\ new(r) \in Row /\ new(r).state = rows[r].state
                         /\ new(r).attempts = rows[r].attempts
                         /\ new(r).lease = rows[r].lease
    <2> SUFFICES ASSUME NEW r \in Filed
                 PROVE  /\ new(r) \in Row /\ new(r).state = rows[r].state
                        /\ new(r).attempts = rows[r].attempts
                        /\ new(r).lease = rows[r].lease
      OBVIOUS
    <2>1. rows[r] \in Row
      BY FiledRow DEF IInv
    <2>2. QED
      BY <2>1 DEF Row, Statuses
  <1>2. \A r \in Ids : rows'[r] = rows[r] \/ (r \in Filed /\ rows'[r] = new(r))
    BY DEF CloseForRefund
  <1>3. DOMAIN rows' = Ids /\ rows' = [r \in Ids |-> rows'[r]]
    BY DEF CloseForRefund
  <1> HIDE DEF new
  <1>4. rows' \in [Ids -> Row \cup {None}]
    BY <1>1, <1>2, <1>3 DEF IInv, TypeOK
  <1>5. \A q \in Ids : rows[q] = None <=> rows'[q] = None
    BY <1>1, <1>2, NoneFresh DEF IInv, TypeOK, Filed
  <1>6. \A q \in Filed : /\ rows'[q].state = rows[q].state
                         /\ rows'[q].attempts = rows[q].attempts
                         /\ rows'[q].lease = rows[q].lease
    BY <1>1, <1>2 DEF Filed
  <1>7. QED
    BY <1>4, <1>5, <1>6, OutboxUntouched DEF CloseForRefund

(* A route that goes to send a confirmation, its row filed or found.       *)
LEMMA FileInv ==
  ASSUME IInv, NEW t \in Routes, NEW p \in Purchases, NEW k \in Kinds, File(t, p, k)
  PROVE  IInv'
  <1>1. UNCHANGED <<alarm, accepted, mailbox, faults>> /\ t \in Threads
    BY DEF File, provider, Threads
  <1>2. CASE Repeat(t, p, k)
    <2>1. PICK r \in Ids : thread' = [thread EXCEPT ![t] = [Idle EXCEPT !.at = "claim", !.request = r]]
      BY <1>2 DEF Repeat, Confirm
    <2> DEFINE new == [Idle EXCEPT !.at = "claim", !.request = r]
    <2>2. new \in Thread /\ new.at = "claim" /\ new.lease = 0 /\ ~new.sent
      BY IdleType
    <2>3. thread' = [thread EXCEPT ![t] = new] /\ rows' = rows
      BY <1>2, <2>1 DEF Repeat
    <2> HIDE DEF new
    <2>4. rows' \in [Ids -> Row \cup {None}]
      BY <2>3 DEF IInv, TypeOK
    <2>5. \A q \in Filed : rows'[q] # None /\ rows'[q].attempts = rows[q].attempts
      BY <2>3 DEF Filed
    <2>6. thread' \in [Threads -> Thread] /\ ThreadInv'
      BY <1>1, <2>2, <2>3, <2>4, <2>5, ThreadMoves DEF IInv, ThreadInv
    <2>7. MailPerKey' /\ SentReceived' /\ GivenUpLast'
      BY <1>1, <2>3 DEF IInv, MailPerKey, SentReceived, GivenUpLast, Filed
    <2>8. QED
      BY <1>1, <2>4, <2>6, <2>7 DEF IInv, ThreadInv, TypeOK
  <1>3. CASE Insert(t, p, k)
    <2>1. PICK r \in Ids, status \in FirstStatuses(p, k) :
            /\ Earliest(Ids \ Filed, r)
            /\ rows' = [rows EXCEPT ![r] = NewRow(p, k, status)]
            /\ Confirm(t, r)
      BY <1>3 DEF Insert
    <2> DEFINE row == NewRow(p, k, status)
    <2>2. row \in Row /\ row.state = "pending" /\ row.attempts = 0 /\ row.lease = 0
      <3>1. status \in Statuses
        BY DEF FirstStatuses, Statuses, OpenStatuses
      <3>2. 0 \in 0..MaxAttempts
        BY RequestsAssumption
      <3>3. QED
        BY <3>1, <3>2 DEF NewRow, Row
    <2>3. rows' = [rows EXCEPT ![r] = row] /\ r \notin Filed
      BY <2>1 DEF Earliest
    <2> DEFINE new == [Idle EXCEPT !.at = "claim", !.request = r]
    <2>4. new \in Thread /\ new.at = "claim" /\ new.lease = 0 /\ ~new.sent
      BY IdleType
    <2>5. thread' = [thread EXCEPT ![t] = new]
      BY <2>1 DEF Confirm
    <2> HIDE DEF new, row
    <2>6. rows' \in [Ids -> Row \cup {None}]
      BY <2>2, <2>3 DEF IInv, TypeOK
    <2>7. rows'[r] = row /\ \A q \in Ids : q # r => rows'[q] = rows[q]
      BY <2>3 DEF IInv, TypeOK
    <2>8. Filed' = Filed \cup {r}
      BY <2>2, <2>7, NoneFresh DEF Filed
    <2>9. \A q \in Filed : rows'[q] # None /\ rows'[q] = rows[q]
      BY <2>3, <2>7 DEF Filed
    <2>10. \A u \in Threads : thread[u].lease > 0 => thread[u].request \in Filed
      BY DEF IInv, ThreadsOK, TypeOK, Thread, Delivering
    <2>11. thread' \in [Threads -> Thread] /\ ThreadInv'
      BY <1>1, <2>4, <2>5, <2>6, <2>9, <2>10, ThreadMoves DEF IInv, ThreadInv
    <2>12. MailPerKey'
      BY <1>1, <2>8 DEF IInv, MailPerKey
    <2>13. SentReceived' /\ GivenUpLast'
      BY <1>1, <2>2, <2>7, <2>8, <2>9 DEF IInv, SentReceived, GivenUpLast
    <2>14. QED
      BY <1>1, <2>6, <2>11, <2>12, <2>13 DEF IInv, ThreadInv, TypeOK
  <1>4. QED
    BY <1>2, <1>3 DEF File

(* Sending records nothing but what the provider did.                      *)
LEMMA SendInv ==
  ASSUME IInv, NEW t \in Threads, Send(t) PROVE IInv'
  <1> DEFINE req == thread[t].request
             att == thread[t].attempt
  <1>1. /\ thread[t] \in Thread /\ Delivering(t) /\ req \in Filed /\ req \in Ids
    BY FiledRow DEF Send, Delivering, IInv, ThreadsOK, TypeOK
  <1>2. UNCHANGED <<rows, alarm, faults>> /\ Filed' = Filed
    BY DEF Send, Filed
  <1>3. PICK sent \in BOOLEAN :
          /\ thread' = [thread EXCEPT ![t].at = "finish", ![t].sent = sent]
          /\ \/ Deliver(req, Key(req, att))
             \/ ~sent /\ UNCHANGED provider
    BY DEF Send, Answered
  <1>4. /\ thread' \in [Threads -> Thread]
        /\ \A u \in Threads : /\ thread'[u].request = thread[u].request
                              /\ thread'[u].attempt = thread[u].attempt
                              /\ thread'[u].lease = thread[u].lease
                              /\ thread'[u].at \in {"send", "finish"}
                                   <=> thread[u].at \in {"send", "finish"}
    BY <1>1, <1>3 DEF IInv, TypeOK, Thread, Delivering
  <1>5. \A u \in Threads : thread'[u].sent => IF u = t THEN sent ELSE thread[u].sent
    BY <1>1, <1>3 DEF IInv, TypeOK, Thread
  <1>6. /\ accepted' \subseteq Keys /\ mailbox' \in [Ids -> Nat]
        /\ \A r \in Ids : mailbox[r] = 1 => mailbox'[r] = 1
        /\ sent => mailbox'[req] = 1
        /\ MailPerKey'
    <2>1. CASE Deliver(req, Key(req, att))
      <3>1. <<req, 0>> \in Keys
        BY <1>1, RequestsAssumption DEF Keys
      <3>2. accepted' = accepted \cup {<<req, 0>>}
            /\ mailbox' = IF <<req, 0>> \in accepted THEN mailbox
                          ELSE [mailbox EXCEPT ![req] = @ + 1]
        BY <2>1 DEF Deliver, Key
      <3>3. accepted' \subseteq Keys /\ mailbox' \in [Ids -> Nat]
        BY <1>1, <3>1, <3>2 DEF IInv, TypeOK
      <3>4. mailbox'[req] = 1 /\ \A r \in Ids : r # req => mailbox'[r] = mailbox[r]
        BY <1>1, <3>2 DEF IInv, TypeOK, MailPerKey
      <3>5. \A r \in Ids : r # req => (<<r, 0>> \in accepted' <=> <<r, 0>> \in accepted)
        BY <3>2
      <3>6. MailPerKey'
        BY <1>1, <1>2, <3>2, <3>4, <3>5 DEF IInv, MailPerKey
      <3>7. QED
        BY <3>3, <3>4, <3>6
    <2>2. CASE ~sent /\ UNCHANGED provider
      BY <1>2, <2>2 DEF IInv, TypeOK, MailPerKey, provider
    <2>3. QED
      BY <1>3, <2>1, <2>2
  <1>7. TypeOK'
    BY <1>2, <1>4, <1>6 DEF IInv, TypeOK
  <1>8. ThreadsOK'
    <2> SUFFICES ASSUME NEW u \in Threads
                 PROVE  /\ Delivering(u)' => /\ thread'[u].request \in Filed'
                                             /\ thread'[u].attempt \in 1..rows'[thread'[u].request].attempts
                        /\ ~Delivering(u)' => thread'[u].lease = 0 /\ ~thread'[u].sent
                        /\ thread'[u].sent => mailbox'[thread'[u].request] = 1
      BY DEF ThreadsOK
    <2>1. Delivering(u) => thread[u].request \in Ids
      BY DEF IInv, ThreadsOK, Filed
    <2>2. thread[u].sent => Delivering(u) /\ mailbox[thread[u].request] = 1
      BY DEF IInv, ThreadsOK, TypeOK, Thread
    <2>3. thread'[u].sent => Delivering(u) /\ mailbox'[thread'[u].request] = 1
      BY <1>1, <1>4, <1>5, <1>6, <2>1, <2>2
    <2>4. QED
      BY <1>1, <1>2, <1>4, <2>3 DEF IInv, ThreadsOK, Delivering
  <1>9. Fenced'
    BY <1>4 DEF IInv, Fenced, Delivering
  <1>10. LeaseHeld'
    BY <1>2, <1>4 DEF IInv, LeaseHeld
  <1>11. SentReceived' /\ GivenUpLast'
    BY <1>2, <1>6 DEF IInv, SentReceived, GivenUpLast, Filed
  <1>12. QED
    BY <1>6, <1>7, <1>8, <1>9, <1>10, <1>11 DEF IInv

(* Recovery keeps the attempts of every row and all of a row whose lease   *)
(* still runs.                                                             *)
LEMMA RecoverType ==
  ASSUME TypeOK
  PROVE  /\ Recover \in [Ids -> Row \cup {None}]
         /\ \A r \in Ids : Recover[r] = None <=> rows[r] = None
         /\ \A r \in Filed :
              /\ Recover[r] \in Row
              /\ Recover[r].attempts = rows[r].attempts
              /\ Recover[r].lease = rows[r].lease
              /\ rows[r].lease > 0 => Recover[r].state = rows[r].state
              /\ Recover[r].state = "sent" => rows[r].state = "sent"
              /\ Recover[r].state = "failed" =>
                   rows[r].state = "failed" \/ rows[r].attempts = MaxAttempts
  <1>1. \A r \in Filed : /\ rows[r] \in Row
                         /\ Recover[r] = Recovered(rows[r])
    BY FiledRow DEF Recover, Filed
  <1>2. \A r \in Filed :
              /\ Recover[r] \in Row
              /\ Recover[r].attempts = rows[r].attempts
              /\ Recover[r].lease = rows[r].lease
              /\ rows[r].lease > 0 => Recover[r].state = rows[r].state
              /\ Recover[r].state = "sent" => rows[r].state = "sent"
              /\ Recover[r].state = "failed" =>
                   rows[r].state = "failed" \/ rows[r].attempts = MaxAttempts
    <2> SUFFICES ASSUME NEW r \in Filed
                 PROVE  /\ Recover[r] \in Row
                        /\ Recover[r].attempts = rows[r].attempts
                        /\ Recover[r].lease = rows[r].lease
                        /\ rows[r].lease > 0 => Recover[r].state = rows[r].state
                        /\ Recover[r].state = "sent" => rows[r].state = "sent"
                        /\ Recover[r].state = "failed" =>
                             rows[r].state = "failed" \/ rows[r].attempts = MaxAttempts
      OBVIOUS
    <2>1. rows[r].attempts \in 0..MaxAttempts /\ MaxAttempts \in Nat
      BY <1>1, RequestsAssumption DEF Row
    <2>2. QED
      BY <1>1, <2>1, RecoveredType
  <1>3. \A r \in Ids : r \notin Filed => Recover[r] = None /\ rows[r] = None
    BY DEF Recover, Filed
  <1>4. DOMAIN Recover = Ids /\ Recover = [r \in Ids |-> Recover[r]]
    BY DEF Recover
  <1>5. \A r \in Filed : r \in Ids /\ rows[r] # None
    BY DEF Filed
  <1>6. QED
    BY <1>2, <1>3, <1>4, <1>5, NoneFresh

(* No lease that still runs is recovered, so its thread is left alone.     *)
LEMMA HoldersKept ==
  ASSUME IInv, NEW u \in Threads, thread[u].lease > 0
  PROVE  /\ thread[u].request \in Filed
         /\ Recover[thread[u].request].state = "sending"
         /\ Recover[thread[u].request].lease = thread[u].lease
         /\ rows[thread[u].request].state = "sending"
         /\ rows[thread[u].request].lease = thread[u].lease
         /\ rows[thread[u].request].attempts = thread[u].attempt
  <1>1. thread[u].request \in Filed
    BY DEF IInv, ThreadsOK, TypeOK, Thread, Delivering
  <1>2. rows[thread[u].request].lease > 0
    BY DEF IInv, LeaseHeld
  <1>3. QED
    BY <1>1, <1>2, RecoverType DEF IInv, LeaseHeld

(* A claim that finds nothing due still recovers.                          *)
LEMMA ClaimNothingInv ==
  ASSUME IInv, NEW t \in Threads, Claim(t), Claimable(t) = {} PROVE IInv'
  <1>1. UNCHANGED <<alarm, accepted, mailbox, faults>> /\ rows' = Recover /\ Goes(t, "wake")
    BY DEF Claim, provider
  <1> DEFINE new == [Idle EXCEPT !.at = "wake"]
  <1>2. new \in Thread /\ new.at = "wake" /\ new.lease = 0 /\ ~new.sent
    BY IdleType
  <1>3. thread' = [thread EXCEPT ![t] = new]
    BY <1>1 DEF Goes
  <1> HIDE DEF new
  <1>4. rows' \in [Ids -> Row \cup {None}] /\ Filed' = Filed
    BY <1>1, RecoverType DEF IInv, Filed
  <1>5. \A r \in Filed : rows'[r] # None /\ rows'[r].attempts = rows[r].attempts
    BY <1>1, RecoverType DEF IInv, Filed
  <1>6. \A u \in Threads : thread[u].lease > 0 =>
          /\ rows'[thread[u].request].state = rows[thread[u].request].state
          /\ rows'[thread[u].request].lease = rows[thread[u].request].lease
    BY <1>1, HoldersKept
  <1>7. thread' \in [Threads -> Thread] /\ ThreadInv'
    BY <1>1, <1>2, <1>3, <1>4, <1>5, <1>6, ThreadMoves DEF IInv, ThreadInv
  <1>8. MailPerKey'
    BY <1>1, <1>4 DEF IInv, MailPerKey
  <1>9. SentReceived' /\ GivenUpLast'
    BY <1>1, <1>4, <1>5, RecoverType DEF IInv, SentReceived, GivenUpLast
  <1>10. QED
    BY <1>1, <1>4, <1>7, <1>8, <1>9 DEF IInv, ThreadInv, TypeOK

(* A claim leases a row that nobody holds, for an attempt that is new.     *)
LEMMA ClaimInv ==
  ASSUME IInv, NEW t \in Threads, Claim(t) PROVE IInv'
  <1>1. CASE Claimable(t) = {}
    BY <1>1, ClaimNothingInv
  <1>2. CASE Claimable(t) # {}
    <2>1. UNCHANGED <<alarm, accepted, mailbox, faults>>
      BY DEF Claim, provider
    <2>2. PICK r \in Ids :
            /\ Earliest(Claimable(t), r)
            /\ rows' = [Recover EXCEPT ![r] = Leased(Recover[r])]
            /\ thread' = [thread EXCEPT ![t] =
                 [at |-> "send", request |-> r, attempt |-> rows[r].attempts + 1,
                  lease |-> Lease, sent |-> FALSE]]
      BY <1>2 DEF Claim
    <2>3. r \in Filed /\ Recover[r] \in Row /\ Due(Recover[r])
      BY <2>2, RecoverType DEF IInv, Earliest, Claimable
    <2> DEFINE row == Leased(Recover[r])
               att == rows[r].attempts + 1
               new == [at |-> "send", request |-> r, attempt |-> att,
                       lease |-> Lease, sent |-> FALSE]
    <2>4. /\ row \in Row /\ row.attempts = att /\ row.lease = Lease
          /\ row.state = "sending"
      BY <2>3, LeasedType, RecoverType DEF IInv
    <2>5. rows[r].attempts \in Nat /\ att \in 1..MaxAttempts /\ MaxAttempts \in Nat
      <3>1. Recover[r].attempts = rows[r].attempts
        BY <2>3, RecoverType DEF IInv
      <3>2. rows[r].attempts \in 0..MaxAttempts
        BY <2>3, FiledRow DEF IInv, Row
      <3>3. rows[r].attempts < MaxAttempts
        BY <2>3, <3>1 DEF Due
      <3>4. QED
        BY <3>2, <3>3, RequestsAssumption
    <2>6. rows' = [Recover EXCEPT ![r] = row] /\ thread' = [thread EXCEPT ![t] = new]
      BY <2>2
    <2> HIDE DEF row, att
    <2>7. /\ new \in Thread /\ new.at = "send" /\ new.request = r
          /\ new.attempt = att /\ new.lease = Lease /\ ~new.sent
      BY <2>5, RequestsAssumption DEF Thread
    <2> HIDE DEF new
    <2>8. /\ rows' \in [Ids -> Row \cup {None}]
          /\ rows'[r] = row /\ \A q \in Ids : q # r => rows'[q] = Recover[q]
      BY <2>4, <2>6, RecoverType DEF IInv
    <2>9. Filed' = Filed
      BY <2>3, <2>4, <2>8, RecoverType, NoneFresh DEF IInv, Filed
    <2>10. thread' \in [Threads -> Thread]
           /\ thread'[t] = new /\ \A u \in Threads : u # t => thread'[u] = thread[u]
      BY <2>6, <2>7 DEF IInv, TypeOK
    <2>11. \A q \in Filed : /\ rows'[q].attempts \in Nat
                            /\ rows[q].attempts \in Nat
                            /\ rows'[q].attempts >= rows[q].attempts
      <3> SUFFICES ASSUME NEW q \in Filed
                   PROVE  /\ rows'[q].attempts \in Nat
                          /\ rows[q].attempts \in Nat
                          /\ rows'[q].attempts >= rows[q].attempts
        OBVIOUS
      <3>1. rows[q].attempts \in Nat
        BY FiledRow DEF IInv, Row
      <3>2. CASE q = r
        BY <2>4, <2>5, <2>8, <3>1, <3>2 DEF att
      <3>3. CASE q # r
        BY <2>8, <3>1, <3>3, RecoverType DEF IInv, Filed
      <3>4. QED
        BY <3>2, <3>3
    <2>12. \A u \in Threads : u # t /\ Delivering(u) /\ thread[u].request = r
              => thread[u].attempt # att
      BY <2>5 DEF IInv, ThreadsOK, att
    <2>13. \A u \in Threads : thread[u].lease > 0 => thread[u].request # r
      BY <2>3, HoldersKept DEF Due
    <2>14. ThreadsOK'
      <3> SUFFICES ASSUME NEW u \in Threads
                   PROVE  /\ Delivering(u)' => /\ thread'[u].request \in Filed'
                                               /\ thread'[u].attempt \in 1..rows'[thread'[u].request].attempts
                          /\ ~Delivering(u)' => thread'[u].lease = 0 /\ ~thread'[u].sent
                          /\ thread'[u].sent => mailbox'[thread'[u].request] = 1
        BY DEF ThreadsOK
      <3>1. CASE u = t
        BY <2>3, <2>4, <2>5, <2>7, <2>8, <2>9, <2>10, <3>1 DEF Delivering
      <3>2. CASE u # t
        BY <2>1, <2>9, <2>10, <2>11, <3>2 DEF IInv, ThreadsOK, Delivering
      <3>3. QED
        BY <3>1, <3>2
    <2>15. Fenced'
      BY <2>7, <2>10, <2>12 DEF IInv, Fenced, Delivering
    <2>16. LeaseHeld'
      <3> SUFFICES ASSUME NEW u \in Threads, thread'[u].lease > 0
                   PROVE  /\ rows'[thread'[u].request].state = "sending"
                          /\ rows'[thread'[u].request].attempts = thread'[u].attempt
                          /\ rows'[thread'[u].request].lease = thread'[u].lease
        BY DEF LeaseHeld
      <3>1. CASE u = t
        BY <2>4, <2>7, <2>8, <2>10, <3>1
      <3>2. CASE u # t
        <4>1. thread[u].lease > 0 /\ thread'[u] = thread[u]
          BY <2>10, <3>2
        <4>2. /\ thread[u].request \in Filed /\ thread[u].request # r
              /\ rows'[thread[u].request] = Recover[thread[u].request]
          BY <2>8, <2>13, <4>1, HoldersKept DEF Filed
        <4>3. QED
          BY <4>1, <4>2, HoldersKept, RecoverType DEF IInv
      <3>3. QED
        BY <3>1, <3>2
    <2>17. MailPerKey'
      BY <2>1, <2>9 DEF IInv, MailPerKey
    <2>18. SentReceived' /\ GivenUpLast'
      <3> SUFFICES ASSUME NEW q \in Filed
                   PROVE  /\ rows'[q].state = "sent" => mailbox[q] = 1
                          /\ rows'[q].state = "failed" => rows'[q].attempts = MaxAttempts
        BY <2>1, <2>9 DEF SentReceived, GivenUpLast
      <3>1. CASE q = r
        BY <2>4, <2>8, <3>1
      <3>2. CASE q # r
        BY <2>8, <3>2, RecoverType DEF IInv, SentReceived, GivenUpLast, Filed
      <3>3. QED
        BY <3>1, <3>2
    <2>19. QED
      BY <2>1, <2>8, <2>10, <2>14, <2>15, <2>16, <2>17, <2>18 DEF IInv, TypeOK
  <1>3. QED
    BY <1>1, <1>2

(* The alarm is a time.                                                    *)
LEMMA SetAlarmType ==
  ASSUME TypeOK, NEW w \in Nat, SetAlarm(w) PROVE alarm' \in Nat \cup {None}
  BY DEF TypeOK, SetAlarm

(* The attempt that owns a row finishes it; any other changes nothing.     *)
LEMMA FinishInv ==
  ASSUME IInv, NEW t \in Threads, Finish(t) PROVE IInv'
  <1> DEFINE req == thread[t].request
  <1>1. UNCHANGED <<alarm, accepted, mailbox, faults>> /\ Goes(t, "wake")
    BY DEF Finish, provider
  <1>2. CASE ~CanFinish(t)
    <2>1. rows' = rows
      BY <1>2 DEF Finish
    <2>2. QED
      BY <1>1, <2>1, Moved DEF IInv, TypeOK, provider
  <1>3. CASE CanFinish(t)
    <2>1. /\ thread[t] \in Thread /\ Delivering(t) /\ req \in Filed /\ req \in Ids
          /\ rows[req] \in Row
      BY FiledRow DEF Finish, Delivering, IInv, ThreadsOK, TypeOK
    <2>2. thread[t].sent \in BOOLEAN /\ rows[req].attempts \in 1..MaxAttempts
      BY <2>1, RequestsAssumption DEF Thread, Row, IInv, ThreadsOK
    <2> DEFINE row == Finished(rows[req], thread[t].sent)
    <2>3. rows' = [rows EXCEPT ![req] = row]
      BY <1>3 DEF Finish
    <2>4. /\ row \in Row /\ row.attempts = rows[req].attempts /\ row.lease = 0
          /\ row.state = "sent" => mailbox[req] = 1
          /\ row.state = "failed" => row.attempts = MaxAttempts
      <3>1. thread[t].sent => mailbox[req] = 1
        BY DEF IInv, ThreadsOK
      <3> DEFINE sent == thread[t].sent
      <3>2. sent \in BOOLEAN /\ (sent => mailbox[req] = 1)
        BY <2>2, <3>1
      <3> HIDE DEF sent
      <3>3. row = Finished(rows[req], sent)
        BY DEF sent
      <3> HIDE DEF row
      <3>4. CASE sent
        BY <2>1, <2>2, <3>2, <3>3, <3>4, FinishedType
      <3>5. CASE ~sent
        BY <2>1, <2>2, <3>2, <3>3, <3>5, FinishedType, RequestsAssumption
      <3>6. QED
        BY <3>4, <3>5
    <2> HIDE DEF row
    <2> DEFINE new == [Idle EXCEPT !.at = "wake"]
    <2>5. new \in Thread /\ new.at = "wake" /\ new.lease = 0 /\ ~new.sent
      BY IdleType
    <2>6. thread' = [thread EXCEPT ![t] = new]
      BY <1>1 DEF Goes
    <2> HIDE DEF new
    <2>7. /\ rows' \in [Ids -> Row \cup {None}]
          /\ rows'[req] = row /\ \A q \in Ids : q # req => rows'[q] = rows[q]
      BY <2>1, <2>3, <2>4 DEF IInv, TypeOK
    <2>8. Filed' = Filed
      BY <2>1, <2>4, <2>7, NoneFresh DEF Filed
    <2>9. \A q \in Filed : rows'[q] # None /\ rows'[q].attempts = rows[q].attempts
      BY <2>4, <2>7, <2>8 DEF Filed
    <2>10. \A u \in Threads \ {t} : thread[u].lease > 0 => thread[u].request # req
      <3> SUFFICES ASSUME NEW u \in Threads \ {t}, thread[u].lease > 0, thread[u].request = req
                   PROVE  FALSE
        OBVIOUS
      <3>1. thread[u].attempt = rows[req].attempts
        BY HoldersKept
      <3>2. thread[t].attempt = rows[req].attempts
        BY <1>3 DEF CanFinish
      <3>3. Delivering(u)
        BY DEF IInv, ThreadsOK, TypeOK, Thread
      <3>4. QED
        BY <2>1, <3>1, <3>2, <3>3 DEF IInv, Fenced
    <2>11. \A u \in Threads \ {t} : thread[u].lease > 0 =>
             /\ rows'[thread[u].request].state = rows[thread[u].request].state
             /\ rows'[thread[u].request].lease = rows[thread[u].request].lease
      BY <2>7, <2>10, HoldersKept DEF Filed
    <2>12. thread' \in [Threads -> Thread] /\ ThreadInv'
      BY <1>1, <2>5, <2>6, <2>7, <2>9, <2>11, ThreadMoves DEF IInv, ThreadInv
    <2>13. MailPerKey'
      BY <1>1, <2>8 DEF IInv, MailPerKey
    <2>14. SentReceived' /\ GivenUpLast'
      BY <1>1, <2>4, <2>7, <2>8 DEF IInv, SentReceived, GivenUpLast, Filed
    <2>15. QED
      BY <1>1, <2>7, <2>12, <2>13, <2>14 DEF IInv, ThreadInv, TypeOK
  <1>4. QED
    BY <1>2, <1>3

(* Times to wake are times.                                                *)
LEMMA WakeTimesType == ASSUME TypeOK PROVE WakeTimes \subseteq Nat
  <1>1. \A r \in Filed : rows[r].due \in Nat /\ rows[r].lease \in Nat
    BY FiledRow DEF Row
  <1>2. QED
    BY <1>1 DEF WakeTimes

(* Arranging for what is left changes the thread and the alarm.            *)
LEMMA ArrangeInv ==
  ASSUME IInv, NEW t \in Threads, Arrange(t) PROVE IInv'
  <1>1. UNCHANGED <<rows, provider>> /\ faults' \in 0..MaxFaults
    BY DEF Arrange, IInv, TypeOK
  <1>2. alarm' \in Nat \cup {None}
    BY WakeTimesType, SetAlarmType DEF Arrange, IInv, TypeOK
  <1>3. Goes(t, "idle") \/ Goes(t, "claim")
    BY DEF Arrange
  <1>4. QED
    BY <1>1, <1>2, <1>3, Moved

(* A database fault changes the thread and the alarm.                      *)
LEMMA FaultInv ==
  ASSUME IInv, NEW t \in Threads, Fault(t) PROVE IInv'
  <1>1. UNCHANGED <<rows, provider>> /\ faults' \in 0..MaxFaults
    BY RequestsAssumption DEF Fault, IInv, TypeOK
  <1>2. FallbackTimes(t) \subseteq Nat
    BY RequestsAssumption DEF FallbackTimes
  <1>3. alarm' \in Nat \cup {None}
    BY <1>2, SetAlarmType DEF Fault, IInv
  <1>4. QED
    BY <1>1, <1>3, Moved DEF Fault

(* The alarm may start the worker.                                         *)
LEMMA WakeInv == ASSUME IInv, Wake PROVE IInv'
  <1>1. UNCHANGED <<rows, provider, faults>> /\ alarm' = None /\ Worker \in Threads
    BY DEF Wake, Threads
  <1>2. CASE thread[Worker].at = "idle"
    <2>1. Goes(Worker, "claim")
      BY <1>2 DEF Wake, Goes
    <2>2. QED
      BY <1>1, <2>1, Moved DEF IInv, TypeOK
  <1>3. CASE thread[Worker].at # "idle"
    <2>1. thread' = thread
      BY <1>3 DEF Wake
    <2>2. Filed' = Filed
      BY <1>1 DEF Filed
    <2>3. QED
      BY <1>1, <2>1, <2>2 DEF IInv, TypeOK, ThreadsOK, Delivering, Fenced, LeaseHeld,
           MailPerKey, SentReceived, GivenUpLast, provider
  <1>4. QED
    BY <1>2, <1>3

(* After a restart nobody has a delivery.                                  *)
LEMMA RestartInv == ASSUME IInv, Restart PROVE IInv'
  <1>1. UNCHANGED <<rows, provider>> /\ alarm' = None /\ faults' \in 0..MaxFaults
    BY RequestsAssumption DEF Restart, IInv, TypeOK
  <1>2. Filed' = Filed
    BY <1>1 DEF Filed
  <1>3. /\ thread' \in [Threads -> Thread]
        /\ \A t \in Threads : /\ thread'[t].at \in {"idle", "claim", "down"}
                              /\ thread'[t].lease = 0 /\ ~thread'[t].sent
    <2>1. Idle \in Thread /\ Idle.at = "idle" /\ Idle.lease = 0 /\ ~Idle.sent
      <3>1. 0 \in 0..MaxAttempts
        BY RequestsAssumption
      <3>2. QED
        BY <3>1 DEF Idle, Thread
    <2> DEFINE new(place) == [Idle EXCEPT !.at = place]
    <2>2. \A place \in {"claim", "down"} :
            new(place) \in Thread /\ new(place).at = place /\ new(place).lease = 0 /\ ~new(place).sent
      BY <2>1 DEF Thread
    <2>3. \/ thread' = [t \in Threads |-> IF t = Worker THEN new("claim") ELSE Idle]
          \/ thread' = [t \in Threads |-> new("down")]
      BY DEF Restart, Started
    <2> HIDE DEF new
    <2>4. QED
      BY <2>1, <2>2, <2>3
  <1>4. ThreadsOK' /\ Fenced' /\ LeaseHeld'
    BY <1>3 DEF ThreadsOK, Fenced, LeaseHeld, Delivering
  <1>5. MailPerKey' /\ SentReceived' /\ GivenUpLast'
    BY <1>1, <1>2 DEF IInv, MailPerKey, SentReceived, GivenUpLast, provider
  <1>6. QED
    BY <1>1, <1>3, <1>4, <1>5 DEF IInv, TypeOK, provider

(* Time changes nothing of a row but its two times.                        *)
LEMMA TickRows ==
  ASSUME TypeOK, Tick
  PROVE  /\ \A r \in Filed : /\ rows'[r] \in Row
                             /\ rows'[r].purchase = rows[r].purchase
                             /\ rows'[r].kind = rows[r].kind
                             /\ rows'[r].status = rows[r].status
                             /\ rows'[r].state = rows[r].state
                             /\ rows'[r].attempts = rows[r].attempts
                             /\ rows'[r].lease = Less(rows[r].lease)
         /\ rows' \in [Ids -> Row \cup {None}]
         /\ Filed' = Filed
  <1>1. \A r \in Filed : /\ rows'[r] \in Row
                         /\ rows'[r].purchase = rows[r].purchase
                         /\ rows'[r].kind = rows[r].kind
                         /\ rows'[r].status = rows[r].status
                         /\ rows'[r].state = rows[r].state
                         /\ rows'[r].attempts = rows[r].attempts
                         /\ rows'[r].lease = Less(rows[r].lease)
    <2> SUFFICES ASSUME NEW r \in Filed
                 PROVE  /\ rows'[r] \in Row
                        /\ rows'[r].purchase = rows[r].purchase
                        /\ rows'[r].kind = rows[r].kind
                        /\ rows'[r].status = rows[r].status
                        /\ rows'[r].state = rows[r].state
                        /\ rows'[r].attempts = rows[r].attempts
                        /\ rows'[r].lease = Less(rows[r].lease)
      OBVIOUS
    <2>1. r \in Ids /\ rows[r] # None /\ rows[r] \in Row
      BY FiledRow DEF Filed
    <2> DEFINE d == Less(rows[r].due)
               l == Less(rows[r].lease)
    <2>2. rows'[r] = [rows[r] EXCEPT !.due = d, !.lease = l]
      BY <2>1 DEF Tick
    <2>3. d \in Nat /\ l \in Nat
      BY <2>1 DEF Row, Less
    <2> HIDE DEF d
    <2>4. l = Less(rows[r].lease)
      OBVIOUS
    <2> HIDE DEF l
    <2>5. QED
      BY <2>1, <2>2, <2>3, <2>4 DEF Row
  <1>2. \A r \in Ids : r \notin Filed => rows'[r] = None
    BY DEF Tick, Filed
  <1>3. DOMAIN rows' = Ids /\ rows' = [r \in Ids |-> rows'[r]]
    BY DEF Tick
  <1>4. Filed \subseteq Ids
    BY DEF Filed
  <1>5. QED
    BY <1>1, <1>2, <1>3, <1>4, NoneFresh DEF Filed

(* Time passes for rows, leases and the alarm alike.                       *)
LEMMA TickInv == ASSUME IInv, Tick PROVE IInv'
  <1>1. UNCHANGED <<accepted, mailbox, faults>>
    BY DEF Tick, provider
  <1>2. \A n \in Nat : Less(n) \in Nat /\ (Less(n) > 0 => n > 0)
    BY DEF Less
  <1>3. \A r \in Filed : /\ rows'[r] \in Row
                         /\ rows'[r].purchase = rows[r].purchase
                         /\ rows'[r].kind = rows[r].kind
                         /\ rows'[r].status = rows[r].status
                         /\ rows'[r].state = rows[r].state
                         /\ rows'[r].attempts = rows[r].attempts
                         /\ rows'[r].lease = Less(rows[r].lease)
    BY TickRows DEF IInv
  <1>4. rows' \in [Ids -> Row \cup {None}] /\ Filed' = Filed
    BY TickRows DEF IInv
  <1>5. /\ thread' \in [Threads -> Thread]
        /\ \A t \in Threads : /\ thread'[t].at = thread[t].at
                              /\ thread'[t].request = thread[t].request
                              /\ thread'[t].attempt = thread[t].attempt
                              /\ thread'[t].lease = Less(thread[t].lease)
                              /\ thread'[t].sent <=> thread[t].sent
    <2> DEFINE new(t) == [thread[t] EXCEPT !.lease = Less(@)]
    <2>1. \A t \in Threads : /\ new(t) \in Thread
                             /\ new(t).at = thread[t].at
                             /\ new(t).request = thread[t].request
                             /\ new(t).attempt = thread[t].attempt
                             /\ new(t).lease = Less(thread[t].lease)
                             /\ new(t).sent <=> thread[t].sent
      <3> SUFFICES ASSUME NEW t \in Threads
                   PROVE  /\ new(t) \in Thread
                          /\ new(t).at = thread[t].at
                          /\ new(t).request = thread[t].request
                          /\ new(t).attempt = thread[t].attempt
                          /\ new(t).lease = Less(thread[t].lease)
                          /\ new(t).sent <=> thread[t].sent
        OBVIOUS
      <3>1. thread[t] \in Thread
        BY DEF IInv, TypeOK
      <3> DEFINE l == Less(thread[t].lease)
      <3>2. new(t) = [thread[t] EXCEPT !.lease = l]
        OBVIOUS
      <3>3. l \in Nat
        BY <1>2, <3>1 DEF Thread
      <3>4. l = Less(thread[t].lease)
        OBVIOUS
      <3> HIDE DEF l, new
      <3>5. QED
        BY <3>1, <3>2, <3>3, <3>4 DEF Thread
    <2>2. thread' = [t \in Threads |-> new(t)]
      BY DEF Tick
    <2> HIDE DEF new
    <2>3. QED
      BY <2>1, <2>2
  <1>6. alarm' \in Nat \cup {None}
    BY <1>2 DEF Tick, IInv, TypeOK
  <1>7. ThreadsOK'
    <2> SUFFICES ASSUME NEW t \in Threads
                 PROVE  /\ Delivering(t)' => /\ thread'[t].request \in Filed'
                                             /\ thread'[t].attempt \in 1..rows'[thread'[t].request].attempts
                        /\ ~Delivering(t)' => thread'[t].lease = 0 /\ ~thread'[t].sent
                        /\ thread'[t].sent => mailbox'[thread'[t].request] = 1
      BY DEF ThreadsOK
    <2>1. Delivering(t)' <=> Delivering(t)
      BY <1>5 DEF Delivering
    <2>2. Less(0) = 0
      BY DEF Less
    <2>3. CASE Delivering(t)
      BY <1>1, <1>3, <1>4, <1>5, <2>1, <2>3 DEF IInv, ThreadsOK
    <2>4. CASE ~Delivering(t)
      BY <1>5, <2>1, <2>2, <2>4 DEF IInv, ThreadsOK
    <2>5. QED
      BY <2>3, <2>4
  <1>8. Fenced'
    BY <1>5 DEF IInv, Fenced, Delivering
  <1>9. LeaseHeld'
    <2> SUFFICES ASSUME NEW u \in Threads, thread'[u].lease > 0
                 PROVE  /\ rows'[thread'[u].request].state = "sending"
                        /\ rows'[thread'[u].request].attempts = thread'[u].attempt
                        /\ rows'[thread'[u].request].lease = thread'[u].lease
      BY DEF LeaseHeld
    <2>1. thread[u].lease \in Nat
      BY DEF IInv, TypeOK, Thread
    <2>2. thread[u].lease > 0
      BY <1>2, <1>5, <2>1
    <2>3. QED
      BY <1>3, <1>5, <2>2, HoldersKept
  <1>10. MailPerKey'
    BY <1>1, <1>4 DEF IInv, MailPerKey
  <1>11. SentReceived' /\ GivenUpLast'
    BY <1>1, <1>3, <1>4 DEF IInv, SentReceived, GivenUpLast
  <1>12. QED
    BY <1>1, <1>4, <1>5, <1>6, <1>7, <1>8, <1>9, <1>10, <1>11 DEF IInv, TypeOK

-----------------------------------------------------------------------------
(* The invariant. *)

(* The server starts with no request and no delivery.                      *)
LEMMA InitInv == Init => IInv
  <1> SUFFICES ASSUME Init PROVE IInv
    OBVIOUS
  <1>1. Filed = {}
    BY DEF Init, Filed
  <1>2. 0 \in 0..MaxAttempts /\ 0 \in 0..MaxFaults
    BY RequestsAssumption
  <1>3. Idle \in Thread /\ Idle.at = "idle" /\ Idle.lease = 0 /\ ~Idle.sent
    BY <1>2 DEF Idle, Thread
  <1> DEFINE new == [Idle EXCEPT !.at = "claim"]
  <1>4. new \in Thread /\ new.at = "claim" /\ new.lease = 0 /\ ~new.sent
    BY IdleType
  <1>5. thread = [t \in Threads |-> IF t = Worker THEN new ELSE Idle]
    BY DEF Init, Started
  <1> HIDE DEF new
  <1>6. /\ thread \in [Threads -> Thread]
        /\ \A t \in Threads : ~Delivering(t) /\ thread[t].lease = 0 /\ ~thread[t].sent
    BY <1>3, <1>4, <1>5 DEF Delivering
  <1>7. TypeOK
    BY <1>2, <1>6 DEF Init, TypeOK
  <1>8. ThreadsOK /\ Fenced /\ LeaseHeld
    BY <1>6 DEF ThreadsOK, Fenced, LeaseHeld
  <1>9. MailPerKey /\ SentReceived /\ GivenUpLast
    BY <1>1 DEF Init, MailPerKey, SentReceived, GivenUpLast
  <1>10. QED
    BY <1>7, <1>8, <1>9 DEF IInv

(* Every step keeps the invariant.                                         *)
LEMMA StepInv == IInv /\ [Next]_vars => IInv'
  <1> SUFFICES ASSUME IInv, [Next]_vars PROVE IInv'
    OBVIOUS
  <1>1. CASE Next
    <2>1. CASE \E t \in Routes, p \in Purchases, k \in Kinds : File(t, p, k)
      BY <2>1, FileInv
    <2>2. CASE \E t \in Threads : Step(t) \/ Fault(t)
      BY <2>2, ClaimInv, SendInv, FinishInv, ArrangeInv, FaultInv DEF Step
    <2>3. CASE \E r \in Filed : MarkProcessing(r)
      BY <2>3, MarkProcessingInv
    <2>4. CASE \E p \in Purchases : CloseForRefund(OrderOf[p])
      BY <2>4, CloseForRefundInv
    <2>5. CASE Wake \/ Restart \/ Tick
      BY <2>5, WakeInv, RestartInv, TickInv
    <2>6. QED
      BY <1>1, <2>1, <2>2, <2>3, <2>4, <2>5 DEF Next
  <1>2. CASE UNCHANGED vars
    <2>1. rows' = rows /\ UNCHANGED <<thread, alarm, provider, faults>>
      BY <1>2 DEF vars
    <2>2. rows' \in [Ids -> Row \cup {None}]
      BY <2>1 DEF IInv, TypeOK
    <2>3. QED
      BY <2>1, <2>2, OutboxUntouched
  <1>3. QED
    BY <1>1, <1>2

(* The inductive invariant holds.                                          *)
LEMMA Invariant == Spec => []IInv
  BY InitInv, StepInv, PTL DEF Spec

(* The tables, the threads, the alarm and the provider's records keep      *)
(* their types.                                                            *)
THEOREM TypeCorrect == Spec => []TypeOK
  <1>1. IInv => TypeOK
    BY DEF IInv
  <1>2. QED
    BY <1>1, Invariant, PTL

(* claim_confirmation_delivery: "at most one worker can own it", for every *)
(* number of routes and any length of a lease.                             *)
THEOREM OneOwnerHolds == Spec => []OneOwner
  <1>1. IInv => OneOwner
    <2> SUFFICES ASSUME IInv, NEW r \in Ids, NEW t \in Threads, NEW u \in Threads,
                        Holds(t, r), Holds(u, r), t # u
                 PROVE  FALSE
      BY DEF OneOwner
    <2>1. thread[t].attempt = thread[u].attempt
      BY DEF IInv, LeaseHeld, Holds
    <2>2. Delivering(t) /\ Delivering(u)
      BY DEF IInv, ThreadsOK, TypeOK, Thread, Holds
    <2>3. QED
      BY <2>1, <2>2 DEF IInv, Fenced, Holds
  <1>2. QED
    BY <1>1, Invariant, PTL

(* A confirmation is given up only after every attempt.                    *)
THEOREM GivenUpLastHolds == Spec => []GivenUpLast
  <1>1. IInv => GivenUpLast
    BY DEF IInv
  <1>2. QED
    BY <1>1, Invariant, PTL

-----------------------------------------------------------------------------
(* The outbox implements what the customer is promised. *)

(* A step that settles nothing and mails nothing is a stutter.             *)
LEMMA SameStage ==
  ASSUME \A r \in Ids : rows[r] = None <=> rows'[r] = None,
         \A r \in Filed : rows'[r].state = rows[r].state
  PROVE  [r \in Ids |-> Stage(r)]' = [r \in Ids |-> Stage(r)]
  BY DEF Stage, Filed

(* The step in which a request is filed. *)
LEMMA FileImplements ==
  ASSUME IInv, NEW t \in Routes, NEW p \in Purchases, NEW k \in Kinds, File(t, p, k)
  PROVE  [Kept!Next]_Kept!vars
  <1>1. mailbox' = mailbox
    BY DEF File, provider
  <1>2. CASE Repeat(t, p, k)
    <2>1. rows' = rows
      BY <1>2 DEF Repeat
    <2>2. QED
      BY <1>1, <2>1, SameStage DEF Kept!vars
  <1>3. CASE Insert(t, p, k)
    <2>1. PICK r \in Ids, status \in FirstStatuses(p, k) :
            r \notin Filed /\ rows' = [rows EXCEPT ![r] = NewRow(p, k, status)]
      BY <1>3 DEF Insert, Earliest
    <2>2. rows[r] = None /\ rows'[r] # None /\ rows'[r].state = "pending"
      <3>1. status \in Statuses
        BY DEF FirstStatuses, Statuses, OpenStatuses
      <3>2. 0 \in 0..MaxAttempts
        BY RequestsAssumption
      <3>3. NewRow(p, k, status) \in Row /\ NewRow(p, k, status).state = "pending"
        BY <3>1, <3>2 DEF NewRow, Row
      <3>4. rows'[r] = NewRow(p, k, status)
        BY <2>1 DEF IInv, TypeOK
      <3>5. QED
        BY <2>1, <3>3, <3>4, NoneFresh DEF Filed
    <2>3. \A q \in Ids : q # r => rows'[q] = rows[q]
      BY <2>1 DEF IInv, TypeOK
    <2>4. Kept!File(r)
      BY <1>1, <2>2, <2>3 DEF Kept!File, Stage
    <2>5. QED
      BY <2>4 DEF Kept!Next
  <1>4. QED
    BY <1>2, <1>3 DEF File

(* Recovery gives up requests whose last lease has expired; claiming one   *)
(* of the others leaves it owed.                                           *)
LEMMA ClaimImplements ==
  ASSUME IInv, NEW t \in Threads, Claim(t)
  PROVE  [Kept!Next]_Kept!vars
  <1>1. mailbox' = mailbox
    BY DEF Claim, provider
  <1> DEFINE S == {r \in Filed : rows[r].state = "sending" /\ Recover[r].state = "failed"}
  <1>2. \A r \in Filed : /\ rows[r] # None /\ Recover[r] # None
                         /\ Recover[r].state # rows[r].state =>
                              /\ rows[r].state = "sending"
                              /\ Recover[r].state \in {"pending", "failed"}
    <2> SUFFICES ASSUME NEW r \in Filed
                 PROVE  /\ rows[r] # None /\ Recover[r] # None
                        /\ Recover[r].state # rows[r].state =>
                             /\ rows[r].state = "sending"
                             /\ Recover[r].state \in {"pending", "failed"}
      OBVIOUS
    <2>1. r \in Ids /\ rows[r] # None /\ rows[r] \in Row /\ Recover[r] = Recovered(rows[r])
      BY FiledRow DEF IInv, Filed, Recover
    <2>2. QED
      BY <2>1, RecoveredType, NoneFresh
  <1>3. \A r \in Ids : r \notin Filed => rows[r] = None /\ Recover[r] = None
    BY DEF Filed, Recover
  <1>4. \A r \in Ids :
          \/ rows'[r] = Recover[r]
          \/ /\ r \in Filed /\ Recover[r].state = "pending"
             /\ rows'[r] # None /\ rows'[r].state = "sending"
    <2>1. CASE Claimable(t) = {}
      BY <2>1 DEF Claim
    <2>2. CASE Claimable(t) # {}
      <3>1. PICK r \in Ids : /\ Earliest(Claimable(t), r)
                             /\ rows' = [Recover EXCEPT ![r] = Leased(Recover[r])]
        BY <2>2 DEF Claim
      <3>2. r \in Filed /\ Recover[r] \in Row /\ Due(Recover[r])
        BY <3>1, RecoverType DEF IInv, Earliest, Claimable
      <3>3. Leased(Recover[r]) # None /\ Leased(Recover[r]).state = "sending"
        BY <3>2, LeasedType, NoneFresh
      <3>4. rows'[r] = Leased(Recover[r]) /\ \A q \in Ids : q # r => rows'[q] = Recover[q]
        BY <3>1 DEF Recover
      <3>5. QED
        BY <3>2, <3>3, <3>4 DEF Due
    <2>3. QED
      BY <2>1, <2>2
  <1>5. S \in SUBSET Ids /\ \A r \in S : Stage(r) = "owed"
    BY <1>2 DEF Filed, Stage
  <1> HIDE DEF S
  <1>6. \A r \in Ids : Stage(r)' = IF r \in S THEN "broken" ELSE Stage(r)
    <2> SUFFICES ASSUME NEW r \in Ids
                 PROVE  Stage(r)' = IF r \in S THEN "broken" ELSE Stage(r)
      OBVIOUS
    <2>1. CASE r \notin Filed
      <3>1. rows'[r] = None /\ rows[r] = None /\ r \notin S
        BY <1>3, <1>4, <2>1 DEF S
      <3>2. QED
        BY <3>1 DEF Stage
    <2>2. CASE r \in Filed
      <3>1. rows[r] # None /\ rows'[r] # None
        BY <1>2, <1>4, <2>2
      <3>2. QED
        BY <1>2, <1>4, <2>2, <3>1 DEF Stage, S
    <2>3. QED
      BY <2>1, <2>2
  <1>7. Kept!GiveUp(S)
    BY <1>1, <1>5, <1>6 DEF Kept!GiveUp
  <1>8. QED
    BY <1>5, <1>7 DEF Kept!Next

(* A mail that is accepted for the first time is the one mail promised.    *)
LEMMA SendImplements ==
  ASSUME IInv, NEW t \in Threads, Send(t)
  PROVE  [Kept!Next]_Kept!vars
  <1> DEFINE req == thread[t].request
  <1>1. rows' = rows /\ req \in Filed /\ req \in Ids
    BY FiledRow DEF Send, IInv, ThreadsOK, Delivering
  <1>2. [r \in Ids |-> Stage(r)]' = [r \in Ids |-> Stage(r)]
    BY <1>1, SameStage
  <1>3. CASE mailbox' = mailbox
    BY <1>2, <1>3 DEF Kept!vars
  <1>4. CASE mailbox' # mailbox
    <2>1. /\ <<req, 0>> \notin accepted
          /\ mailbox' = [mailbox EXCEPT ![req] = @ + 1]
      BY <1>4 DEF Send, Deliver, Key, provider
    <2>2. mailbox[req] = 0
      BY <1>1, <2>1 DEF IInv, MailPerKey
    <2>3. mailbox' = [mailbox EXCEPT ![req] = 1]
      BY <1>1, <2>1, <2>2 DEF IInv, TypeOK
    <2>4. Stage(req) \in {"owed", "broken"}
      BY <1>1, <2>2 DEF IInv, SentReceived, Stage, Filed
    <2>5. Kept!Mail(req)
      BY <1>1, <1>2, <2>2, <2>3, <2>4 DEF Kept!Mail
    <2>6. QED
      BY <1>1, <2>5 DEF Kept!Next
  <1>5. QED
    BY <1>3, <1>4

(* An answer settles the request once, or leaves it owed.                  *)
LEMMA FinishImplements ==
  ASSUME IInv, NEW t \in Threads, Finish(t)
  PROVE  [Kept!Next]_Kept!vars
  <1> DEFINE req == thread[t].request
  <1>1. mailbox' = mailbox
    BY DEF Finish, provider
  <1>2. CASE ~CanFinish(t)
    <2>1. rows' = rows
      BY <1>2 DEF Finish
    <2>2. QED
      BY <1>1, <2>1, SameStage DEF Kept!vars
  <1>3. CASE CanFinish(t)
    <2>1. /\ thread[t] \in Thread /\ Delivering(t) /\ req \in Filed /\ req \in Ids
          /\ rows[req] \in Row
      BY FiledRow DEF Finish, Delivering, IInv, ThreadsOK, TypeOK
    <2>2. thread[t].sent \in BOOLEAN /\ rows[req].attempts \in 1..MaxAttempts
      BY <2>1, RequestsAssumption DEF Thread, Row, IInv, ThreadsOK
    <2> DEFINE row == Finished(rows[req], thread[t].sent)
    <2>3. rows' = [rows EXCEPT ![req] = row]
      BY <1>3 DEF Finish
    <2>4. /\ row \in Row
          /\ row.state \in {"pending", "sent", "failed"}
          /\ row.state = "sent" => mailbox[req] = 1
      <3>1. thread[t].sent => mailbox[req] = 1
        BY DEF IInv, ThreadsOK
      <3> DEFINE sent == thread[t].sent
      <3>2. sent \in BOOLEAN /\ (sent => mailbox[req] = 1)
        BY <2>2, <3>1
      <3> HIDE DEF sent
      <3>3. row = Finished(rows[req], sent)
        BY DEF sent
      <3> HIDE DEF row
      <3>4. QED
        BY <2>1, <2>2, <3>2, <3>3, FinishedType
    <2> HIDE DEF row
    <2>5. rows[req] # None /\ rows[req].state = "sending"
      BY <1>3, <2>1 DEF CanFinish, Filed
    <2>6. /\ rows'[req] = row /\ rows'[req] # None
          /\ \A q \in Ids : q # req => rows'[q] = rows[q]
      BY <2>1, <2>3, <2>4, NoneFresh DEF IInv, TypeOK
    <2>7. PICK q \in Ids : q = req
      BY <2>1
    <2>8. Stage(q) = "owed" /\ \A r \in Ids : r # q => Stage(r)' = Stage(r)
      BY <2>5, <2>6, <2>7 DEF Stage
    <2>9. mailbox[q] = 1 \/ row.state # "sent"
      BY <2>4, <2>7
    <2>10. rows'[q] = row /\ rows'[q] # None
      BY <2>6, <2>7
    <2>11. CASE row.state = "pending"
      <3>1. Stage(q)' = "owed"
        BY <2>10, <2>11 DEF Stage
      <3>2. [r \in Ids |-> Stage(r)]' = [r \in Ids |-> Stage(r)]
        BY <2>8, <3>1
      <3>3. QED
        BY <1>1, <3>2 DEF Kept!vars
    <2>12. CASE row.state = "sent"
      <3>1. Stage(q)' = "kept"
        BY <2>10, <2>12 DEF Stage
      <3>2. Kept!Keep(q)
        BY <1>1, <2>8, <2>9, <2>12, <3>1 DEF Kept!Keep
      <3>3. QED
        BY <3>2 DEF Kept!Next
    <2>13. CASE row.state = "failed"
      <3>1. Stage(q)' = "broken"
        BY <2>10, <2>13 DEF Stage
      <3>2. Kept!GiveUp({q})
        BY <1>1, <2>8, <3>1 DEF Kept!GiveUp
      <3>3. QED
        BY <3>2 DEF Kept!Next
    <2>14. QED
      BY <2>4, <2>11, <2>12, <2>13
  <1>4. QED
    BY <1>2, <1>3

(* The other steps settle and mail nothing.                                *)
LEMMA OthersStutter ==
  ASSUME IInv,
         \/ \E t \in Threads : Arrange(t) \/ Fault(t)
         \/ \E r \in Filed : MarkProcessing(r)
         \/ \E o : CloseForRefund(o)
         \/ Wake \/ Restart \/ Tick \/ UNCHANGED vars
  PROVE  UNCHANGED Kept!vars
  <1>1. mailbox' = mailbox
    BY DEF Arrange, Fault, MarkProcessing, CloseForRefund, Wake, Restart, Tick, vars, provider
  <1>2. CASE rows' = rows
    BY <1>1, <1>2, SameStage DEF Kept!vars
  <1>3. \A r \in Filed : r \in Ids /\ rows[r] # None /\ rows[r] \in Row
    BY FiledRow DEF IInv, Filed
  <1>4. CASE \E r \in Filed : MarkProcessing(r)
    <2>1. PICK r \in Filed : rows' = [rows EXCEPT ![r].status = "processing"]
      BY <1>4 DEF MarkProcessing
    <2> DEFINE new == [rows[r] EXCEPT !.status = "processing"]
    <2>2. new \in Row /\ new.state = rows[r].state
      BY <1>3 DEF Row, Statuses, OpenStatuses
    <2>3. rows' = [rows EXCEPT ![r] = new]
      BY <2>1
    <2> HIDE DEF new
    <2>4. rows'[r] = new /\ \A q \in Ids : q # r => rows'[q] = rows[q]
      BY <1>3, <2>3 DEF IInv, TypeOK
    <2>5. QED
      BY <1>1, <1>3, <2>2, <2>4, SameStage, NoneFresh DEF Kept!vars, Filed
  <1>5. CASE \E o : CloseForRefund(o)
    <2>1. \A r \in Ids : \/ rows'[r] = rows[r]
                         \/ r \in Filed /\ rows'[r] = [rows[r] EXCEPT !.status = "refunded"]
      BY <1>5 DEF CloseForRefund
    <2>2. \A r \in Filed : /\ [rows[r] EXCEPT !.status = "refunded"] \in Row
                           /\ [rows[r] EXCEPT !.status = "refunded"].state = rows[r].state
      BY <1>3 DEF Row, Statuses
    <2>3. \A r \in Filed : rows'[r] # None /\ rows'[r].state = rows[r].state
      BY <1>3, <2>1, <2>2, NoneFresh
    <2>4. \A r \in Ids : r \notin Filed => rows'[r] = None
      BY <2>1 DEF Filed
    <2>5. QED
      BY <1>1, <2>3, <2>4, SameStage DEF Kept!vars, Filed
  <1>6. CASE Tick
    <2>1. Filed' = Filed /\ \A r \in Filed : rows'[r].state = rows[r].state
      BY <1>6, TickRows DEF IInv
    <2>2. QED
      BY <1>1, <2>1, SameStage DEF Kept!vars, Filed
  <1>7. QED
    BY <1>2, <1>4, <1>5, <1>6 DEF Arrange, Fault, Wake, Restart, vars

(* The outbox implements Promise: one mail per request however often it is *)
(* tried, and an outcome that is settled once.                             *)
THEOREM OutboxImplements == Spec => Implements
  <1>1. Init => Kept!Init
    <2> SUFFICES ASSUME Init PROVE Kept!Init
      OBVIOUS
    <2>1. \A r \in Ids : Stage(r) = "unfiled"
      BY DEF Init, Stage
    <2>2. QED
      BY <2>1 DEF Init, Kept!Init
  <1>2. IInv /\ [Next]_vars => [Kept!Next]_Kept!vars
    <2> SUFFICES ASSUME IInv, [Next]_vars PROVE [Kept!Next]_Kept!vars
      OBVIOUS
    <2>1. CASE \E t \in Routes, p \in Purchases, k \in Kinds : File(t, p, k)
      BY <2>1, FileImplements
    <2>2. CASE \E t \in Threads : Step(t)
      BY <2>2, ClaimImplements, SendImplements, FinishImplements, OthersStutter DEF Step
    <2>3. CASE \/ \E t \in Threads : Fault(t)
               \/ \E r \in Filed : MarkProcessing(r)
               \/ \E p \in Purchases : CloseForRefund(OrderOf[p])
               \/ Wake \/ Restart \/ Tick \/ UNCHANGED vars
      BY <2>3, OthersStutter
    <2>4. QED
      BY <2>1, <2>2, <2>3 DEF Next
  <1>3. QED
    BY <1>1, <1>2, Invariant, PTL DEF Spec, Implements, Kept!Spec

-----------------------------------------------------------------------------
(* One request each. *)

(* Requests keep what they are about, and none is opened again.            *)
LEMMA SameRequests ==
  ASSUME OneRequestEach, Filed' = Filed,
         \A r \in Filed : /\ rows'[r].purchase = rows[r].purchase
                          /\ rows'[r].kind = rows[r].kind
                          /\ Open(r)' => Open(r)
  PROVE  OneRequestEach'
  BY DEF OneRequestEach

(* What the outbox does to a row is about its confirmation only.           *)
LEMMA ClaimedRow ==
  ASSUME NEW row \in Row
  PROVE  /\ Recovered(row).purchase = row.purchase
         /\ Recovered(row).kind = row.kind
         /\ Recovered(row).status = row.status
         /\ Leased(row).purchase = row.purchase
         /\ Leased(row).kind = row.kind
         /\ Leased(row).status = row.status
  <1>1. /\ Recovered(row).purchase = row.purchase
        /\ Recovered(row).kind = row.kind
        /\ Recovered(row).status = row.status
    BY DEF Recovered, Row
  <1> DEFINE next == row.attempts + 1
  <1>2. Leased(row) = [row EXCEPT !.state = "sending", !.attempts = next, !.lease = Lease]
    BY DEF Leased
  <1> HIDE DEF next
  <1>3. QED
    BY <1>1, <1>2 DEF Row

LEMMA FinishedRow ==
  ASSUME NEW row \in Row, NEW sent \in BOOLEAN
  PROVE  /\ Finished(row, sent).purchase = row.purchase
         /\ Finished(row, sent).kind = row.kind
         /\ Finished(row, sent).status = row.status
  <1> DEFINE delay == RetryDelay(row.attempts)
  <1>1. Finished(row, sent) =
          IF sent THEN [row EXCEPT !.state = "sent", !.due = 0, !.lease = 0]
          ELSE IF row.attempts < MaxAttempts
          THEN [row EXCEPT !.state = "pending", !.due = delay, !.lease = 0]
          ELSE [row EXCEPT !.state = "failed", !.due = 0, !.lease = 0]
    BY DEF Finished
  <1> HIDE DEF delay
  <1>2. QED
    BY <1>1 DEF Row

(* A claim changes no request, only the state of its confirmation.         *)
LEMMA ClaimKeepsRequests ==
  ASSUME IInv, OneRequestEach, NEW t \in Threads, Claim(t)
  PROVE  OneRequestEach'
  <1>1. \A r \in Filed : /\ r \in Ids /\ rows[r] \in Row
                         /\ Recover[r] = Recovered(rows[r])
                         /\ Recover[r] \in Row
    BY FiledRow, RecoverType DEF IInv, Recover, Filed
  <1>2. \A r \in Ids : \/ rows'[r] = Recover[r]
                       \/ r \in Filed /\ Due(Recover[r]) /\ rows'[r] = Leased(Recover[r])
    <2>1. CASE Claimable(t) = {}
      BY <2>1 DEF Claim
    <2>2. CASE Claimable(t) # {}
      <3>1. PICK r \in Ids : /\ Earliest(Claimable(t), r)
                             /\ rows' = [Recover EXCEPT ![r] = Leased(Recover[r])]
        BY <2>2 DEF Claim
      <3>2. rows'[r] = Leased(Recover[r]) /\ \A q \in Ids : q # r => rows'[q] = Recover[q]
        BY <3>1 DEF Recover
      <3>3. QED
        BY <3>1, <3>2 DEF Earliest, Claimable
    <2>3. QED
      BY <2>1, <2>2
  <1>3. \A r \in Filed : /\ rows'[r] \in Row
                         /\ rows'[r].purchase = rows[r].purchase
                         /\ rows'[r].kind = rows[r].kind
                         /\ rows'[r].status = rows[r].status
    <2> SUFFICES ASSUME NEW r \in Filed
                 PROVE  /\ rows'[r] \in Row
                        /\ rows'[r].purchase = rows[r].purchase
                        /\ rows'[r].kind = rows[r].kind
                        /\ rows'[r].status = rows[r].status
      OBVIOUS
    <2>1. CASE rows'[r] = Recover[r]
      BY <1>1, <2>1, ClaimedRow
    <2>2. CASE Due(Recover[r]) /\ rows'[r] = Leased(Recover[r])
      BY <1>1, <2>2, ClaimedRow, LeasedType
    <2>3. QED
      BY <1>1, <1>2, <2>1, <2>2
  <1>4. \A r \in Ids : r \notin Filed => rows'[r] = None
    BY <1>2 DEF Recover, Filed
  <1>5. Filed' = Filed
    BY <1>1, <1>3, <1>4, NoneFresh DEF Filed
  <1>6. QED
    BY <1>3, <1>5, SameRequests DEF Open

(* Finishing changes no request either.                                    *)
LEMMA FinishKeepsRequests ==
  ASSUME IInv, OneRequestEach, NEW t \in Threads, Finish(t)
  PROVE  OneRequestEach'
  <1> DEFINE req == thread[t].request
  <1>1. CASE rows' = rows
    BY <1>1, SameRequests DEF Filed, Open
  <1>2. CASE rows' # rows
    <2>1. /\ thread[t] \in Thread /\ req \in Filed /\ req \in Ids /\ rows[req] \in Row
          /\ rows[req].attempts \in 1..MaxAttempts
      BY FiledRow, RequestsAssumption DEF Finish, Delivering, IInv, ThreadsOK, TypeOK, Row
    <2>2. thread[t].sent \in BOOLEAN
      BY <2>1 DEF Thread
    <2> DEFINE row == Finished(rows[req], thread[t].sent)
    <2>3. rows' = [rows EXCEPT ![req] = row]
      BY <1>2 DEF Finish
    <2>4. /\ row \in Row /\ row.purchase = rows[req].purchase
          /\ row.kind = rows[req].kind /\ row.status = rows[req].status
      <3> DEFINE sent == thread[t].sent
      <3>1. sent \in BOOLEAN
        BY <2>2
      <3> HIDE DEF sent
      <3>2. row = Finished(rows[req], sent)
        BY DEF sent
      <3> HIDE DEF row
      <3>3. QED
        BY <2>1, <3>1, <3>2, FinishedType, FinishedRow
    <2> HIDE DEF row
    <2>5. rows'[req] = row /\ \A q \in Ids : q # req => rows'[q] = rows[q]
      BY <2>1, <2>3 DEF IInv, TypeOK
    <2>6. Filed' = Filed
      BY <2>1, <2>4, <2>5, NoneFresh DEF Filed
    <2>7. \A q \in Filed : /\ rows'[q].purchase = rows[q].purchase
                           /\ rows'[q].kind = rows[q].kind
                           /\ rows'[q].status = rows[q].status
      BY <2>4, <2>5 DEF Filed
    <2>8. QED
      BY <2>6, <2>7, SameRequests DEF Open
  <1>3. QED
    BY <1>1, <1>2

(* A new request repeats none that is open, and none that may not be       *)
(* repeated.                                                               *)
LEMMA FileKeepsRequests ==
  ASSUME IInv, OneRequestEach,
         NEW t \in Routes, NEW p \in Purchases, NEW k \in Kinds, File(t, p, k)
  PROVE  OneRequestEach'
  <1>1. CASE rows' = rows
    BY <1>1, SameRequests DEF Filed, Open
  <1>2. CASE Insert(t, p, k)
    <2>1. PICK r \in Ids, status \in FirstStatuses(p, k) :
            r \notin Filed /\ rows' = [rows EXCEPT ![r] = NewRow(p, k, status)]
      BY <1>2 DEF Insert, Earliest
    <2>2. rows'[r].purchase = p /\ rows'[r].kind = k
          /\ \A q \in Ids : q # r => rows'[q] = rows[q]
      BY <2>1 DEF IInv, TypeOK, NewRow
    <2>3. \A q \in Filed' : q \in Ids /\ (q = r \/ q \in Filed)
      BY <2>2 DEF Filed
    <2>4. \A q \in Filed : rows'[q] = rows[q]
      BY <2>1, <2>2 DEF Filed
    <2>5. \A q \in Filed : rows[q].purchase = p =>
            IF p \in Annual THEN rows[q].kind # k
            ELSE Type(rows[q].kind) = Type(k) =>
                   k # Withdrawal /\ rows[q].kind # Withdrawal /\ ~Open(q)
      BY <1>2 DEF Insert, Existing, Type
    <2>6. SUFFICES ASSUME NEW a \in Filed', NEW b \in Filed', a # b,
                          rows'[a].purchase = rows'[b].purchase
                   PROVE  IF rows'[a].purchase \in Annual THEN rows'[a].kind # rows'[b].kind
                          ELSE Type(rows'[a].kind) = Type(rows'[b].kind) =>
                                 rows'[a].kind # Withdrawal /\ ~(Open(a)' /\ Open(b)')
      BY DEF OneRequestEach
    <2>7. CASE a = r
      BY <2>2, <2>3, <2>4, <2>5, <2>6, <2>7 DEF Open, Type
    <2>8. CASE b = r
      BY <2>2, <2>3, <2>4, <2>5, <2>6, <2>8 DEF Open, Type
    <2>9. CASE a # r /\ b # r
      <3>1. a \in Filed /\ b \in Filed /\ rows'[a] = rows[a] /\ rows'[b] = rows[b]
        BY <2>3, <2>4, <2>9
      <3>2. QED
        BY <2>6, <3>1 DEF OneRequestEach, Open
    <2>10. QED
      BY <2>7, <2>8, <2>9
  <1>3. QED
    BY <1>1, <1>2 DEF File, Repeat

(* A one-time purchase has one withdrawal ever and one open complaint, and *)
(* an annual invoice one request of a kind ever.                           *)
THEOREM OneRequestEachHolds == Spec => []OneRequestEach
  <1>1. Init => OneRequestEach
    BY DEF Init, OneRequestEach, Filed
  <1>2. IInv /\ OneRequestEach /\ [Next]_vars => OneRequestEach'
    <2> SUFFICES ASSUME IInv, OneRequestEach, [Next]_vars PROVE OneRequestEach'
      OBVIOUS
    <2>1. CASE \E t \in Routes, p \in Purchases, k \in Kinds : File(t, p, k)
      BY <2>1, FileKeepsRequests
    <2>2. CASE \E t \in Threads : Claim(t) \/ Finish(t)
      BY <2>2, ClaimKeepsRequests, FinishKeepsRequests
    <2>3. CASE rows' = rows
      BY <2>3, SameRequests DEF Filed, Open
    <2>4. CASE \E r \in Filed : MarkProcessing(r)
      <3>1. PICK r \in Filed : MarkProcessing(r)
        BY <2>4
      <3>2. r \in Ids /\ rows[r] \in Row
        BY FiledRow DEF IInv
      <3> DEFINE new == [rows[r] EXCEPT !.status = "processing"]
      <3>3. /\ new \in Row /\ new.purchase = rows[r].purchase
            /\ new.kind = rows[r].kind /\ Open(r)
        BY <3>1, <3>2 DEF MarkProcessing, Row, Statuses, Open, OpenStatuses
      <3>4. rows' = [rows EXCEPT ![r] = new]
        BY <3>1 DEF MarkProcessing
      <3> HIDE DEF new
      <3>5. rows'[r] = new /\ \A q \in Ids : q # r => rows'[q] = rows[q]
        BY <3>2, <3>4 DEF IInv, TypeOK
      <3>6. Filed' = Filed
        BY <3>2, <3>3, <3>5, NoneFresh DEF Filed
      <3>7. QED
        BY <3>3, <3>5, <3>6, SameRequests DEF Filed, Open
    <2>5. CASE \E p \in Purchases : CloseForRefund(OrderOf[p])
      <3> DEFINE new(r) == [rows[r] EXCEPT !.status = "refunded"]
      <3>1. \A r \in Ids : \/ rows'[r] = rows[r]
                           \/ r \in Filed /\ Open(r) /\ rows'[r] = new(r)
        BY <2>5 DEF CloseForRefund
      <3>2. \A r \in Filed : /\ r \in Ids /\ new(r) \in Row
                             /\ new(r).purchase = rows[r].purchase
                             /\ new(r).kind = rows[r].kind
        BY FiledRow DEF IInv, Row, Statuses
      <3> HIDE DEF new
      <3>3. Filed' = Filed
        BY <3>1, <3>2, NoneFresh DEF Filed
      <3>4. \A r \in Filed : /\ rows'[r].purchase = rows[r].purchase
                             /\ rows'[r].kind = rows[r].kind
                             /\ Open(r)' => Open(r)
        BY <3>1, <3>2 DEF Open
      <3>5. QED
        BY <3>3, <3>4, SameRequests
    <2>6. CASE Tick
      BY <2>6, TickRows, SameRequests DEF IInv, Open
    <2>7. QED
      BY <2>1, <2>2, <2>3, <2>4, <2>5, <2>6
         DEF Next, Step, Send, Arrange, Fault, Wake, Restart, vars
  <1>3. QED
    BY <1>1, <1>2, Invariant, PTL DEF Spec

=============================================================================
