------------------------------ MODULE Promise ------------------------------
(* What a customer who files a request is promised: one confirmation mail,   *)
(* and an outcome that is settled once. How requests are leased to senders,  *)
(* retried and recovered is Requests' business.                              *)
EXTENDS Integers

CONSTANT Ids                 \* requests that may be filed

VARIABLES stage,             \* stage[r]: what has become of request r
          mails              \* mails[r]: confirmations the customer received

vars == <<stage, mails>>

Stages == {"unfiled", "owed", "kept", "broken"}

Init ==
  /\ stage = [r \in Ids |-> "unfiled"]
  /\ mails = [r \in Ids |-> 0]

File(r) ==
  /\ stage[r] = "unfiled"
  /\ stage' = [stage EXCEPT ![r] = "owed"]
  /\ UNCHANGED mails

(* A sender that was given up may still get its mail through.                *)
Mail(r) ==
  /\ stage[r] \in {"owed", "broken"}
  /\ mails[r] = 0
  /\ mails' = [mails EXCEPT ![r] = 1]
  /\ UNCHANGED stage

(* Only a confirmation the customer has counts as sent.                      *)
Keep(r) ==
  /\ stage[r] = "owed"
  /\ mails[r] = 1
  /\ stage' = [stage EXCEPT ![r] = "kept"]
  /\ UNCHANGED mails

(* Recovery may give up several requests at once.                            *)
GiveUp(S) ==
  /\ \A r \in S : stage[r] = "owed"
  /\ stage' = [r \in Ids |-> IF r \in S THEN "broken" ELSE stage[r]]
  /\ UNCHANGED mails

Next ==
  \/ \E r \in Ids : File(r) \/ Mail(r) \/ Keep(r)
  \/ \E S \in SUBSET Ids : GiveUp(S)

Spec == Init /\ [][Next]_vars
=============================================================================
