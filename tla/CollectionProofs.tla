-------------------------- MODULE CollectionProofs --------------------------
(* Theorems about Collection, for every set of shops and leaflets and every  *)
(* number of runs, outages, kills and leases that run out.                   *)
EXTENDS Collection, FiniteSetTheorems, TLAPS

(* A row of proc, as far as the claims depend on it.                         *)
Fields   == {"at", "shop", "todo", "got", "bad", "lapsed", "shows", "plan"}
IsRow(r) == r = [f \in Fields |-> r[f]] /\ r.got \in [Shops -> 0..Versions]
RowsShaped  == proc = [p \in Processes |-> proc[p]] /\ \A p \in Processes : IsRow(proc[p])

IsClaim(c)   == c \in Claim \cup {Nobody}
ClaimsShaped == claim \in [Shops -> Claim \cup {Nobody}]

(* A paid read is of a version of a shop; who owns a claim that is over has  *)
(* been told so by its lease.                                                *)
Paying(p) ==
  LET r == proc[p] IN
  r.at = "read" =>
    /\ r.shop \in Shops /\ r.got[r.shop] # 0
    /\ Owns(p) \/ r.lapsed
    /\ Owns(p) /\ ~claim[r.shop].live => r.lapsed

ClaimInv ==
  /\ source \in [Shops -> Read] /\ RowsShaped /\ ClaimsShaped
  /\ \A p \in Processes : Paying(p)

-----------------------------------------------------------------------------
(* Steps of one process                                                      *)

(* Whoever does not own a claim leaves it alone, or takes what is over.      *)
SparesOthers(p) ==
  \A s \in Shops :
    \/ claim'[s] = claim[s]
    \/ claim[s] = Nobody
    \/ claim[s].owner = p
    \/ ~claim[s].live

LEMMA OthersPay ==
  ASSUME ClaimInv, NEW p \in Processes, NEW q \in Processes, p # q, SparesOthers(p), proc'[q] = proc[q]
  PROVE  Paying(q)'
<1>1. Paying(q)
  BY DEF ClaimInv
<1> SUFFICES ASSUME proc[q].at = "read"
             PROVE  /\ proc[q].shop \in Shops /\ proc[q].got[proc[q].shop] # 0
                    /\ Owns(q)' \/ proc[q].lapsed
                    /\ Owns(q)' /\ ~claim'[proc[q].shop].live => proc[q].lapsed
  BY DEF Paying
<1>2. CASE proc[q].lapsed
  BY <1>1, <1>2 DEF Paying
<1>3. CASE ~proc[q].lapsed
  <2>1. Owns(q) /\ claim[proc[q].shop].live /\ proc[q].shop \in Shops
    BY <1>1, <1>3 DEF Paying
  <2>2. claim[proc[q].shop] # Nobody /\ claim[proc[q].shop].owner = q
    BY <2>1 DEF Owns
  <2>3. claim'[proc[q].shop] = claim[proc[q].shop]
    BY <2>1, <2>2 DEF SparesOthers
  <2>4. Owns(q)'
    BY <2>1, <2>3 DEF Owns
  <2>5. QED
    BY <1>1, <2>1, <2>3, <2>4 DEF Paying
<1>4. QED
  BY <1>2, <1>3

(* A step of p that does not leave it at a paid read.                        *)
LEMMA StepAside ==
  ASSUME ClaimInv, NEW p \in Processes, NEW r, IsRow(r), r.at # "read", proc' = [proc EXCEPT ![p] = r],
         ClaimsShaped', SparesOthers(p), source' = source
  PROVE  ClaimInv'
<1>1. /\ proc' = [q \in Processes |-> proc'[q]] /\ proc'[p] = r
      /\ \A q \in Processes : q # p => proc'[q] = proc[q]
  BY DEF ClaimInv, RowsShaped
<1>2. RowsShaped'
  BY <1>1 DEF ClaimInv, RowsShaped
<1>3. ASSUME NEW q \in Processes PROVE Paying(q)'
  <2>1. CASE q = p
    BY <1>1, <2>1 DEF Paying
  <2>2. CASE q # p
    BY <1>1, <2>2, OthersPay
  <2>3. QED
    BY <2>1, <2>2
<1>4. QED
  BY <1>2, <1>3 DEF ClaimInv

LEMMA StepQuietly ==
  ASSUME ClaimInv, NEW p \in Processes, NEW r, IsRow(r), r.at # "read", proc' = [proc EXCEPT ![p] = r],
         claim' = claim, source' = source
  PROVE  ClaimInv'
<1>1. ClaimsShaped'
  BY DEF ClaimInv, ClaimsShaped
<1>2. SparesOthers(p)
  BY DEF SparesOthers
<1>3. QED
  BY <1>1, <1>2, StepAside

LEMMA Untouched == ASSUME ClaimInv, UNCHANGED <<source, proc, claim>> PROVE ClaimInv'
  BY DEF ClaimInv, RowsShaped, ClaimsShaped, Paying, Owns

-----------------------------------------------------------------------------
(* The rows the processes write                                              *)

LEMMA NoneRead == None \in [Shops -> 0..Versions] /\ 0 \in 0..Versions
  BY CollectionAssumption DEF None

LEMMA RowsMade ==
  ASSUME ClaimInv, NEW p \in Processes
  PROVE  /\ IsRow(proc[p]) /\ IsRow(Idling) /\ Idling.at = "idle"
         /\ IsRow(Done(p)) /\ Done(p).at = "visit"
         /\ IsRow(Nothing(p)) /\ Nothing(p).at = "visit"
         /\ \A k : IsRow(Blamed(p, k)) /\ Blamed(p, k).at = "visit"
         /\ IsRow(After(p)) /\ After(p).at \in {"idle", "ahead"}
<1>1. IsRow(proc[p])
  BY DEF ClaimInv, RowsShaped
<1>2. IsRow(Idling) /\ Idling.at = "idle"
  BY NoneRead DEF IsRow, Fields, Idling
<1>3. IsRow(Done(p)) /\ Done(p).at = "visit"
  BY <1>1 DEF IsRow, Fields, Done
<1>4. IsRow(Nothing(p)) /\ Nothing(p).at = "visit"
  <2>1. \A r, s : IsRow(r) => IsRow([r EXCEPT !.got[s] = 0]) /\ [r EXCEPT !.got[s] = 0].at = r.at
    BY NoneRead DEF IsRow, Fields
  <2>2. QED
    BY <1>3, <2>1 DEF Nothing
<1>5. \A k : IsRow(Blamed(p, k)) /\ Blamed(p, k).at = "visit"
  BY <1>4 DEF IsRow, Fields, Blamed
<1>6. IsRow(After(p)) /\ After(p).at \in {"idle", "ahead"}
  BY <1>2 DEF IsRow, Fields, After
<1>7. QED
  BY <1>1, <1>2, <1>3, <1>4, <1>5, <1>6

(* A row in which only these fields are replaced.                            *)
LEMMA RowShows ==
  ASSUME NEW r, IsRow(r), NEW a, NEW w
  PROVE  IsRow([r EXCEPT !.at = a, !.shows = w]) /\ [r EXCEPT !.at = a, !.shows = w].at = a
  BY DEF IsRow, Fields

LEMMA RowPlans ==
  ASSUME NEW r, IsRow(r), NEW a, NEW n
  PROVE  IsRow([r EXCEPT !.at = a, !.plan = n]) /\ [r EXCEPT !.at = a, !.plan = n].at = a
  BY DEF IsRow, Fields

LEMMA RowVisits ==
  ASSUME NEW r, IsRow(r), NEW b, NEW n
  PROVE  /\ IsRow([r EXCEPT !.at = "visit", !.todo = b, !.plan = n])
         /\ [r EXCEPT !.at = "visit", !.todo = b, !.plan = n].at = "visit"
  BY DEF IsRow, Fields

-----------------------------------------------------------------------------
(* The steps that leave the claims alone                                     *)

LEMMA Visiting == ASSUME ClaimInv, NEW p \in Processes, NEW s \in Shops, Visit(p, s) PROVE ClaimInv'
<1> DEFINE r == [proc[p] EXCEPT !.at = IF s \in Free THEN "free" ELSE "prepare", !.shop = s]
<1>1. IsRow(r) /\ r.at # "read"
  BY RowsMade DEF IsRow, Fields
<1>2. proc' = [proc EXCEPT ![p] = r] /\ claim' = claim /\ source' = source
  BY DEF Visit, Sets, supply
<1> HIDE DEF r
<1>3. QED
  BY <1>1, <1>2, StepQuietly

LEMMA Preparing ==
  ASSUME ClaimInv, NEW p \in Processes, VisitFree(p) \/ Unavailable(p) \/ Refused(p) \/ Decide(p)
  PROVE  ClaimInv'
<1>1. claim' = claim /\ source' = source
  BY DEF VisitFree, Unavailable, Refused, Decide, supply
<1>2. \/ \E k \in {"transient", "structural"} : proc' = [proc EXCEPT ![p] = Blamed(p, k)]
      \/ proc' = [proc EXCEPT ![p] = Done(p)] \/ proc' = [proc EXCEPT ![p] = Nothing(p)]
      \/ proc' = [proc EXCEPT ![p] = [proc[p] EXCEPT !.at = "prepare"]]
  BY DEF VisitFree, Unavailable, Refused, Decide, Sets, Moves
<1>3. IsRow([proc[p] EXCEPT !.at = "prepare"]) /\ [proc[p] EXCEPT !.at = "prepare"].at = "prepare"
  BY RowsMade DEF IsRow, Fields
<1>4. QED
  BY <1>1, <1>2, <1>3, RowsMade, StepQuietly

LEMMA PreparedShop == ASSUME ClaimInv, NEW p \in Processes, Prepared(p) PROVE ClaimInv'
<1> DEFINE s == proc[p].shop
           r == [proc[p] EXCEPT !.at = "decide", !.got[s] = source[s]]
<1>1. IsRow(r) /\ r.at # "read"
  <2>1. IsRow(proc[p])
    BY RowsMade
  <2>2. CASE s \in Shops
    <3>1. source[s] \in 0..Versions
      BY <2>2, CollectionAssumption DEF ClaimInv, Read
    <3>2. QED
      BY <2>1, <3>1 DEF IsRow, Fields
  <2>3. CASE s \notin Shops
    BY <2>1, <2>3 DEF IsRow, Fields
  <2>4. QED
    BY <2>2, <2>3
<1>2. proc' = [proc EXCEPT ![p] = r] /\ claim' = claim /\ source' = source
  BY DEF Prepared, Sets, supply
<1> HIDE DEF r
<1>3. QED
  BY <1>1, <1>2, StepQuietly

LEMMA Publishing ==
  ASSUME ClaimInv, NEW p \in Processes,
         Visited(p) \/ Ended(p) \/ View(p) \/ Promote(p) \/ Write(p) \/ WriteFails(p)
  PROVE  ClaimInv'
<1>1. claim' = claim /\ source' = source
  BY DEF Visited, Ended, View, Promote, Write, WriteFails, supply
<1> DEFINE rest == [proc[p] EXCEPT !.bad = {}, !.todo = {}, !.got = None, !.shop = Nobody]
<1>2. IsRow(proc[p]) /\ IsRow(rest)
  BY RowsMade, NoneRead DEF IsRow, Fields
<1> HIDE DEF rest
<1>3. \/ proc' = [proc EXCEPT ![p] = Idling] \/ proc' = [proc EXCEPT ![p] = After(p)]
      \/ \E a \in {"ended", "collect", "write"} : proc' = [proc EXCEPT ![p] = [proc[p] EXCEPT !.at = a]]
      \/ \E a \in {"check", "view", "ahead"} : proc' = [proc EXCEPT ![p] = [rest EXCEPT !.at = a]]
      \/ \E w : \E a \in {"write", "promote"} : proc' = [proc EXCEPT ![p] = [proc[p] EXCEPT !.at = a, !.shows = w]]
  BY DEF Visited, Ended, View, Promote, Write, WriteFails, Sets, Moves, Unfit, rest
<1>4. \A r, a : IsRow(r) => IsRow([r EXCEPT !.at = a]) /\ [r EXCEPT !.at = a].at = a
  BY DEF IsRow, Fields
<1>5. \A r : IsRow(r) /\ r.at # "read" /\ proc' = [proc EXCEPT ![p] = r] => ClaimInv'
  BY <1>1, StepQuietly
<1>6. CASE proc' = [proc EXCEPT ![p] = Idling] \/ proc' = [proc EXCEPT ![p] = After(p)]
  BY <1>5, <1>6, RowsMade
<1>7. CASE \E a \in {"ended", "collect", "write"} : proc' = [proc EXCEPT ![p] = [proc[p] EXCEPT !.at = a]]
  BY <1>2, <1>4, <1>5, <1>7
<1>8. CASE \E a \in {"check", "view", "ahead"} : proc' = [proc EXCEPT ![p] = [rest EXCEPT !.at = a]]
  BY <1>2, <1>4, <1>5, <1>8
<1>9. CASE \E w : \E a \in {"write", "promote"} : proc' = [proc EXCEPT ![p] = [proc[p] EXCEPT !.at = a, !.shows = w]]
  <2>1. PICK w : \E a \in {"write", "promote"} : proc' = [proc EXCEPT ![p] = [proc[p] EXCEPT !.at = a, !.shows = w]]
    BY <1>9
  <2>2. PICK a \in {"write", "promote"} : proc' = [proc EXCEPT ![p] = [proc[p] EXCEPT !.at = a, !.shows = w]]
    BY <2>1
  <2>3. QED
    BY <1>2, <1>5, <2>2, RowShows
<1>10. QED
  BY <1>3, <1>6, <1>7, <1>8, <1>9

LEMMA Watching ==
  ASSUME ClaimInv, Wakes \/ Look \/ Gate \/ Check \/ Daily \/ Prefetch
  PROVE  ClaimInv'
<1>1. claim' = claim /\ source' = source
  BY DEF Wakes, Look, Gate, Check, Daily, Prefetch, supply
<1>2. Watchdog \in Processes
  BY DEF Processes
<1>3. \A r : IsRow(r) /\ r.at # "read" /\ proc' = [proc EXCEPT ![Watchdog] = r] => ClaimInv'
  BY <1>1, <1>2, StepQuietly
<1>4. \A r, a : IsRow(r) => IsRow([r EXCEPT !.at = a]) /\ [r EXCEPT !.at = a].at = a
  BY DEF IsRow, Fields
<1>5. /\ IsRow(proc[Watchdog]) /\ IsRow(Idling) /\ Idling.at = "idle"
  BY <1>2, RowsMade
<1>6. CASE proc' = [proc EXCEPT ![Watchdog] = Idling]
  BY <1>3, <1>5, <1>6
<1>7. CASE \E a \in {"look", "gate"} : proc' = [proc EXCEPT ![Watchdog] = [proc[Watchdog] EXCEPT !.at = a]]
  BY <1>3, <1>4, <1>5, <1>7
<1>8. CASE \E a \in {"ahead", "daily"} : proc' = [proc EXCEPT ![Watchdog] = [Idling EXCEPT !.at = a]]
  BY <1>3, <1>4, <1>5, <1>8
<1>9. CASE \E n : \E a \in {"check", "view", "ahead"} :
              proc' = [proc EXCEPT ![Watchdog] = [Idling EXCEPT !.at = a, !.plan = n]]
  <2>1. PICK n : \E a \in {"check", "view", "ahead"} :
               proc' = [proc EXCEPT ![Watchdog] = [Idling EXCEPT !.at = a, !.plan = n]]
    BY <1>9
  <2>2. PICK a \in {"check", "view", "ahead"} :
               proc' = [proc EXCEPT ![Watchdog] = [Idling EXCEPT !.at = a, !.plan = n]]
    BY <2>1
  <2>3. QED
    BY <1>3, <1>5, <2>2, RowPlans
<1>10. CASE \E b, n : proc' = [proc EXCEPT ![Watchdog] = [Idling EXCEPT !.at = "visit", !.todo = b, !.plan = n]]
  <2>1. PICK b, n : proc' = [proc EXCEPT ![Watchdog] = [Idling EXCEPT !.at = "visit", !.todo = b, !.plan = n]]
    BY <1>10
  <2>2. QED
    BY <1>3, <1>5, <2>1, RowVisits
<1>11. QED
  BY <1>6, <1>7, <1>8, <1>9, <1>10 DEF Wakes, Look, Gate, Check, Daily, Prefetch, Sets, Moves

LEMMA Deploying == ASSUME ClaimInv, Deploys PROVE ClaimInv'
<1> DEFINE r1 == [Idling EXCEPT !.at = "view", !.plan = "active"]
           r2 == [Idling EXCEPT !.at = "visit", !.todo = Shops, !.plan = "staged"]
<1>1. Deploy \in Processes
  BY DEF Processes
<1>2. IsRow(r1) /\ r1.at # "read" /\ IsRow(r2) /\ r2.at # "read"
  BY <1>1, RowsMade DEF IsRow, Fields
<1>3. claim' = claim /\ source' = source
  BY DEF Deploys, supply
<1>4. proc' = [proc EXCEPT ![Deploy] = r1] \/ proc' = [proc EXCEPT ![Deploy] = r2]
  BY DEF Deploys, Sets
<1> HIDE DEF r1, r2
<1>5. QED
  BY <1>1, <1>2, <1>3, <1>4, StepQuietly

LEMMA Elsewhere == ASSUME ClaimInv, NewDay \/ (\E s \in Shops : NewLeaflet(s)) PROVE ClaimInv'
<1>1. UNCHANGED <<proc, claim>>
  BY DEF NewDay, NewLeaflet
<1>2. source' \in [Shops -> Read]
  <2>1. CASE NewDay
    BY <2>1 DEF NewDay, supply, ClaimInv
  <2>2. ASSUME NEW s \in Shops, NewLeaflet(s) PROVE source' \in [Shops -> Read]
    BY <2>2, CollectionAssumption DEF NewLeaflet, ClaimInv, Read
  <2>3. QED
    BY <2>1, <2>2
<1>3. QED
  BY <1>1, <1>2 DEF ClaimInv, RowsShaped, ClaimsShaped, Paying, Owns

-----------------------------------------------------------------------------
(* The steps that take, keep and leave a claim                               *)

(* The claim of a run is a row, never no claim.                              *)
LEMMA ClaimsNamed ==
  ASSUME NEW p \in Processes, NEW v \in Read
  PROVE  [owner |-> p, of |-> v, live |-> TRUE] # Nobody
<1>1. [owner |-> p, of |-> v, live |-> TRUE] \in [owner : Processes, of : Read, live : BOOLEAN]
  OBVIOUS
<1>2. Nobody \notin [owner : Processes, of : Read, live : BOOLEAN]
  BY CollectionAssumption
<1>3. QED
  BY <1>1, <1>2

(* A lease that is renewed, and one that ends.                               *)
LEMMA ClaimRenewed ==
  ASSUME NEW k \in Claim
  PROVE  /\ [k EXCEPT !.live = TRUE] = [owner |-> k.owner, of |-> k.of, live |-> TRUE]
         /\ [k EXCEPT !.live = FALSE] \in Claim
<1>1. PICK o \in Processes \cup {Nobody}, v \in Read, l \in BOOLEAN :
        k = [owner |-> o, of |-> v, live |-> l]
  BY DEF Claim
<1>2. ASSUME NEW x PROVE [k EXCEPT !.live = x] = [owner |-> o, of |-> v, live |-> x]
  BY <1>1
<1>3. k.owner = o /\ k.of = v
  BY <1>1
<1>4. QED
  BY <1>2, <1>3 DEF Claim

(* A step of p that leaves it at a paid read whose claim runs.               *)
LEMMA StepAtRead ==
  ASSUME ClaimInv, NEW p \in Processes, NEW r, IsRow(r), r.shop \in Shops, r.got[r.shop] # 0,
         proc' = [proc EXCEPT ![p] = r], ClaimsShaped', SparesOthers(p), source' = source,
         claim'[r.shop] = [owner |-> p, of |-> r.got[r.shop], live |-> TRUE]
  PROVE  ClaimInv'
<1>1. /\ proc' = [q \in Processes |-> proc'[q]] /\ proc'[p] = r
      /\ \A q \in Processes : q # p => proc'[q] = proc[q]
  BY DEF ClaimInv, RowsShaped
<1>2. RowsShaped'
  BY <1>1 DEF ClaimInv, RowsShaped
<1>3. r.got[r.shop] \in Read
  BY DEF IsRow, Read
<1>4. claim'[r.shop] # Nobody /\ claim'[r.shop].owner = p /\ claim'[r.shop].of = r.got[r.shop]
      /\ claim'[r.shop].live
  BY <1>3, ClaimsNamed
<1>5. Paying(p)'
  BY <1>1, <1>4 DEF Paying, Owns
<1>6. \A q \in Processes : Paying(q)'
  BY <1>1, <1>5, OthersPay
<1>7. QED
  BY <1>2, <1>6 DEF ClaimInv

(* One claim is written.                                                     *)
LEMMA ClaimWritten ==
  ASSUME ClaimInv, NEW p \in Processes, NEW s, NEW c, claim' = [claim EXCEPT ![s] = c], IsClaim(c),
         s \in Shops => claim[s] = Nobody \/ claim[s].owner = p \/ ~claim[s].live
  PROVE  /\ ClaimsShaped' /\ SparesOthers(p)
         /\ s \in Shops => claim'[s] = c
<1>1. /\ claim' = [x \in Shops |-> claim'[x]]
      /\ \A x \in Shops : claim'[x] = IF x = s THEN c ELSE claim[x]
  BY DEF ClaimInv, ClaimsShaped
<1>2. QED
  BY <1>1 DEF ClaimInv, ClaimsShaped, IsClaim, SparesOthers

LEMMA Claiming == ASSUME ClaimInv, NEW p \in Processes, NEW s \in Shops, ClaimShop(p, s) PROVE ClaimInv'
<1> DEFINE v == proc[p].got[s]
           c == [owner |-> p, of |-> v, live |-> TRUE]
           refused == [proc[p] EXCEPT !.got[s] = 0]
           known   == [proc[p] EXCEPT !.at = "release", !.shop = s]
           reads   == [proc[p] EXCEPT !.at = "read", !.shop = s, !.lapsed = FALSE]
<1>1. IsRow(proc[p]) /\ source' = source /\ proc[p].at = "collect" /\ v # 0
  BY RowsMade DEF ClaimShop, supply, At
<1>2. /\ IsRow(refused) /\ refused.at = "collect" /\ IsRow(known) /\ known.at = "release"
      /\ IsRow(reads) /\ reads.at = "read" /\ reads.shop = s /\ reads.got[s] = v
  BY <1>1, NoneRead DEF IsRow, Fields
<1>3. IsClaim(c)
  <2>1. v \in Read
    BY <1>1 DEF IsRow, Read
  <2>2. QED
    BY <2>1 DEF IsClaim, Claim
<1>4. CASE ~Claimable(p, s)
  <2>1. proc' = [proc EXCEPT ![p] = refused] /\ claim' = claim
    BY <1>4 DEF ClaimShop, Sets
  <2> HIDE DEF refused
  <2>2. QED
    BY <1>1, <1>2, <2>1, StepQuietly
<1>5. CASE Claimable(p, s)
  <2>1. claim' = [claim EXCEPT ![s] = c]
    BY <1>5 DEF ClaimShop
  <2>2. proc' = [proc EXCEPT ![p] = known] \/ proc' = [proc EXCEPT ![p] = reads]
    BY <1>5 DEF ClaimShop, Sets
  <2>3. claim[s] = Nobody \/ claim[s].owner = p \/ ~claim[s].live
    BY <1>5 DEF Claimable
  <2> HIDE DEF v, c, known, reads
  <2>4. ClaimsShaped' /\ SparesOthers(p) /\ claim'[s] = c
    BY <1>3, <2>1, <2>3, ClaimWritten
  <2>5. CASE proc' = [proc EXCEPT ![p] = known]
    BY <1>1, <1>2, <2>4, <2>5, StepAside
  <2>6. CASE proc' = [proc EXCEPT ![p] = reads]
    <3>1. claim'[reads.shop] = [owner |-> p, of |-> reads.got[reads.shop], live |-> TRUE]
      BY <1>2, <2>4 DEF c
    <3>2. QED
      BY <1>1, <1>2, <2>4, <2>6, <3>1, StepAtRead
  <2>7. QED
    BY <2>2, <2>5, <2>6
<1>6. QED
  BY <1>4, <1>5

LEMMA Renewing == ASSUME ClaimInv, NEW p \in Processes, Renew(p) PROVE ClaimInv'
<1> DEFINE s == proc[p].shop
           r == [proc[p] EXCEPT !.lapsed = FALSE]
           c == [owner |-> p, of |-> r.got[s], live |-> TRUE]
<1>1. /\ IsRow(proc[p]) /\ source' = source /\ proc[p].at = "read" /\ Paying(p) /\ Owns(p)
      /\ proc' = [proc EXCEPT ![p] = r]
  BY RowsMade DEF Renew, supply, At, Sets, ClaimInv
<1>2. IsRow(r) /\ r.shop = s /\ r.got = proc[p].got /\ s \in Shops /\ r.got[s] # 0
  BY <1>1 DEF IsRow, Fields, Paying
<1>3. claim[s] # Nobody /\ claim[s].owner = p /\ claim[s].of = r.got[s]
  BY <1>1, <1>2 DEF Owns
<1>4. [claim[s] EXCEPT !.live = TRUE] = c
  <2>1. claim[s] \in Claim
    BY <1>2, <1>3 DEF ClaimInv, ClaimsShaped
  <2>2. QED
    BY <1>3, <2>1, ClaimRenewed
<1>5. claim' = [claim EXCEPT ![s] = c]
  BY <1>4 DEF Renew
<1>6. IsClaim(c)
  <2>1. r.got[s] \in Read
    BY <1>2 DEF IsRow, Read
  <2>2. QED
    BY <2>1 DEF IsClaim, Claim
<1> HIDE DEF c, r
<1>7. ClaimsShaped' /\ SparesOthers(p) /\ claim'[s] = c
  BY <1>2, <1>3, <1>5, <1>6, ClaimWritten
<1>8. claim'[r.shop] = [owner |-> p, of |-> r.got[r.shop], live |-> TRUE]
  BY <1>2, <1>7 DEF c
<1>9. QED
  BY <1>1, <1>2, <1>7, <1>8, StepAtRead

LEMMA RowBlamed ==
  ASSUME NEW r, IsRow(r), NEW b
  PROVE  IsRow([r EXCEPT !.at = "release", !.bad = b]) /\ [r EXCEPT !.at = "release", !.bad = b].at = "release"
  BY DEF IsRow, Fields

LEMMA Reading == ASSUME ClaimInv, NEW p \in Processes, ReadShop(p) PROVE ClaimInv'
<1>1. claim' = claim /\ source' = source /\ IsRow(proc[p])
  BY RowsMade DEF ReadShop, supply
<1>2. PICK b : proc' = [proc EXCEPT ![p] = [proc[p] EXCEPT !.at = "release", !.bad = b]]
  BY DEF ReadShop, Sets
<1>3. QED
  BY <1>1, <1>2, RowBlamed, StepQuietly

(* What a run deletes is its own.                                            *)
LEMMA ClaimReleased ==
  ASSUME ClaimInv, NEW p \in Processes, NEW s, claim' = Released(p, s) \/ claim' = claim
  PROVE  ClaimsShaped' /\ SparesOthers(p)
<1>1. IsClaim(Nobody)
  BY DEF IsClaim
<1>2. CASE claim' = claim
  BY <1>2 DEF ClaimInv, ClaimsShaped, IsClaim, SparesOthers
<1>3. CASE claim' # claim
  <2>1. claim' = [claim EXCEPT ![s] = Nobody] /\ claim[s].owner = p
    BY <1>3 DEF Released
  <2>2. QED
    BY <1>1, <2>1, ClaimWritten
<1>4. QED
  BY <1>2, <1>3

LEMMA Releasing == ASSUME ClaimInv, NEW p \in Processes, Release(p) PROVE ClaimInv'
<1> DEFINE r == [proc[p] EXCEPT !.at = "collect", !.got[proc[p].shop] = 0, !.shop = Nobody, !.lapsed = FALSE]
<1>1. IsRow(proc[p]) /\ source' = source /\ claim' = Released(p, proc[p].shop) /\ proc' = [proc EXCEPT ![p] = r]
  BY RowsMade DEF Release, supply, Sets
<1>2. IsRow(r) /\ r.at = "collect"
  BY <1>1, NoneRead DEF IsRow, Fields
<1> HIDE DEF r
<1>3. ClaimsShaped' /\ SparesOthers(p)
  BY <1>1, ClaimReleased
<1>4. QED
  BY <1>1, <1>2, <1>3, StepAside

LEMMA GivingUp == ASSUME ClaimInv, NEW p \in Processes, GivesUp(p) PROVE ClaimInv'
<1>1. source' = source /\ (claim' = Released(p, proc[p].shop) \/ claim' = claim)
  BY DEF GivesUp, supply
<1>2. ClaimsShaped' /\ SparesOthers(p)
  BY <1>1, ClaimReleased
<1>3. \A a : IsRow([Idling EXCEPT !.at = a]) /\ [Idling EXCEPT !.at = a].at = a
  BY RowsMade DEF IsRow, Fields
<1>4. \A r : IsRow(r) /\ r.at # "read" /\ proc' = [proc EXCEPT ![p] = r] => ClaimInv'
  BY <1>1, <1>2, StepAside
<1>5. \/ proc' = [proc EXCEPT ![p] = Idling]
      \/ \E a \in {"ahead", "check"} : proc' = [proc EXCEPT ![p] = [Idling EXCEPT !.at = a]]
  BY DEF GivesUp, Sets
<1>6. QED
  BY <1>3, <1>4, <1>5, RowsMade

LEMMA Killing == ASSUME ClaimInv, NEW p \in Processes, Killed(p) PROVE ClaimInv'
<1>1. source' = source /\ proc' = [proc EXCEPT ![p] = Idling] /\ IsRow(Idling) /\ Idling.at # "read"
  BY RowsMade DEF Killed, supply, Sets
<1>2. /\ claim' = [s \in Shops |-> claim'[s]]
      /\ \A s \in Shops : claim'[s] = IF claim[s] # Nobody /\ claim[s].owner = p
                                      THEN [claim[s] EXCEPT !.owner = Nobody] ELSE claim[s]
  BY DEF Killed
<1>3. \A s \in Shops : IsClaim(claim'[s])
  BY <1>2 DEF ClaimInv, ClaimsShaped, IsClaim, Claim
<1>4. ClaimsShaped' /\ SparesOthers(p)
  BY <1>2, <1>3 DEF ClaimsShaped, IsClaim, SparesOthers
<1>5. QED
  BY <1>1, <1>4, StepAside

(* A lease that ends is told to its owner; nobody else's is touched.         *)
LEMMA LeaseEnding == ASSUME ClaimInv, NEW s \in Shops, LeaseEnds(s) PROVE ClaimInv'
<1> DEFINE o == claim[s].owner
<1>1. source' = source /\ claim[s] # Nobody /\ claim' = [claim EXCEPT ![s].live = FALSE]
  BY DEF LeaseEnds, supply
<1>2. claim[s] \in Claim
  BY <1>1 DEF ClaimInv, ClaimsShaped
<1>3. /\ claim' = [x \in Shops |-> claim'[x]] /\ claim'[s] = [claim[s] EXCEPT !.live = FALSE]
      /\ \A x \in Shops : x # s => claim'[x] = claim[x]
  BY <1>1 DEF ClaimInv, ClaimsShaped
<1>4. ClaimsShaped'
  <2>1. IsClaim(claim'[s])
    BY <1>2, <1>3, ClaimRenewed DEF IsClaim
  <2>2. QED
    BY <1>3, <2>1 DEF ClaimInv, ClaimsShaped, IsClaim
<1>5. proc' = proc \/ proc' = [proc EXCEPT ![o].lapsed = TRUE]
  BY DEF LeaseEnds
<1>6. o \in Processes => proc'[o].lapsed
  <2>1. ASSUME o \in Processes PROVE proc'[o].lapsed
    <3>1. proc' = [proc EXCEPT ![o].lapsed = TRUE]
      BY <2>1, CollectionAssumption DEF LeaseEnds
    <3>2. IsRow(proc[o]) /\ proc'[o] = [proc[o] EXCEPT !.lapsed = TRUE]
      BY <2>1, <3>1 DEF ClaimInv, RowsShaped
    <3>3. QED
      BY <3>2 DEF IsRow, Fields
  <2>2. QED
    BY <2>1
<1>7. ASSUME NEW q \in Processes
      PROVE  /\ IsRow(proc'[q]) /\ proc'[q].at = proc[q].at /\ proc'[q].shop = proc[q].shop
             /\ proc'[q].got = proc[q].got /\ (proc[q].lapsed => proc'[q].lapsed)
  <2>1. IsRow(proc[q]) /\ (proc'[q] = proc[q] \/ proc'[q] = [proc[q] EXCEPT !.lapsed = TRUE])
    BY <1>5 DEF ClaimInv, RowsShaped
  <2>2. QED
    BY <2>1 DEF IsRow, Fields
<1>8. RowsShaped'
  <2>1. proc' = [q \in Processes |-> proc'[q]]
    BY <1>5 DEF ClaimInv, RowsShaped
  <2>2. QED
    BY <1>7, <2>1 DEF RowsShaped
<1>9. ASSUME NEW q \in Processes PROVE Paying(q)'
  <2>1. Paying(q)
    BY DEF ClaimInv
  <2>2. CASE proc'[q].lapsed
    BY <1>7, <2>1, <2>2 DEF Paying
  <2>3. CASE ~proc'[q].lapsed /\ proc[q].at = "read"
    <3>1. Owns(q) /\ claim[proc[q].shop].live /\ proc[q].shop \in Shops
      BY <1>7, <2>1, <2>3 DEF Paying
    <3>2. o # q
      BY <1>6, <2>3
    <3>3. proc[q].shop # s
      BY <3>1, <3>2 DEF Owns
    <3>4. claim'[proc[q].shop] = claim[proc[q].shop]
      BY <1>3, <3>1, <3>3
    <3>5. QED
      BY <1>7, <2>1, <3>1, <3>4 DEF Paying, Owns
  <2>4. CASE proc[q].at # "read"
    BY <1>7, <2>4 DEF Paying
  <2>5. QED
    BY <2>2, <2>3, <2>4
<1>10. QED
  BY <1>1, <1>4, <1>8, <1>9 DEF ClaimInv

-----------------------------------------------------------------------------
(* The theorem on claims                                                     *)

LEMMA ClaimsAtFirst == CollectionInit => ClaimInv
<1> SUFFICES ASSUME CollectionInit PROVE ClaimInv
  OBVIOUS
<1>1. source \in [Shops -> Read]
  BY CollectionAssumption DEF CollectionInit, Read
<1>2. proc = [p \in Processes |-> proc[p]] /\ (\A p \in Processes : proc[p] = Idling)
  BY DEF CollectionInit
<1>3. IsRow(Idling) /\ Idling.at = "idle"
  BY NoneRead DEF IsRow, Fields, Idling
<1>4. ClaimsShaped
  BY DEF CollectionInit, ClaimsShaped, IsClaim
<1>5. QED
  BY <1>1, <1>2, <1>3, <1>4 DEF ClaimInv, RowsShaped, Paying

LEMMA ClaimsOn == ClaimInv /\ [CollectionNext]_collectionVars => ClaimInv'
<1> SUFFICES ASSUME ClaimInv, [CollectionNext]_collectionVars PROVE ClaimInv'
  OBVIOUS
<1>1. ASSUME NEW p \in Processes, Works(p) PROVE ClaimInv'
  <2>1. CASE \E s \in Shops : Visit(p, s) \/ ClaimShop(p, s)
    BY <2>1, Visiting, Claiming
  <2>2. CASE VisitFree(p) \/ Prepared(p) \/ Unavailable(p) \/ Refused(p) \/ Decide(p)
    BY <2>2, Preparing, PreparedShop
  <2>3. CASE Renew(p) \/ ReadShop(p) \/ Release(p) \/ GivesUp(p)
    BY <2>3, Renewing, Reading, Releasing, GivingUp
  <2>4. CASE Visited(p) \/ Ended(p) \/ View(p) \/ Promote(p) \/ Write(p) \/ WriteFails(p)
    BY <2>4, Publishing
  <2>5. QED
    BY <1>1, <2>1, <2>2, <2>3, <2>4 DEF Works
<1>2. CASE Wakes \/ Watches
  BY <1>2, Watching DEF Watches
<1>3. CASE Outside
  BY <1>3, Deploying, Elsewhere, Killing, LeaseEnding DEF Outside
<1>4. CASE UNCHANGED collectionVars
  BY <1>4, Untouched DEF collectionVars, supply
<1>5. QED
  BY <1>1, <1>2, <1>3, <1>4 DEF CollectionNext

LEMMA ClaimsPay == ClaimInv => PaidAlone
  BY DEF ClaimInv, Paying, PaidAlone, At

(* Whoever reads on for money holds the claim of the shop, or its lease ran  *)
(* out meanwhile: two runs that keep their leases never pay for one shop.    *)
THEOREM PaidAloneHolds == CollectionSpec => []PaidAlone
  BY ClaimsPay, ClaimsAtFirst, ClaimsOn, PTL DEF CollectionSpec

-----------------------------------------------------------------------------
(* Failures of a reading, and what remembers them                            *)

(* Only these versions of these shops are paid for and not read.             *)
CanFail(s, v) == s \in Shops \ Free /\ v \in Unreadable

(* A run that has decided to pay for a version and has not yet.              *)
Commits(r, s, v) == r.got[s] = v /\ ~(r.at \in {"decide", "release"} /\ r.shop = s)
Holders(s, v) == {p \in Processes : Commits(proc[p], s, v)}

(* A failure counts as two for each time it was forgotten: once forgotten,   *)
(* both processes may decide to pay again before one of them fails.          *)
Counted(s, v) ==
  /\ wasted[s][v] > 0 => CanFail(s, v)
  /\ CanFail(s, v) =>
       /\ wasted[s][v] + Cardinality(Holders(s, v)) <= 2 * (1 + forgot[s][v])
       /\ ~Remembered(s, v) => wasted[s][v] <= 2 * forgot[s][v]

(* What was decided to be read is not at hand: it is not taken for staged,   *)
(* and its failure not forgotten, by a shop that shows it again.             *)
AtHand(s, v) == Holds(s, v) \/ active[s] = v \/ (former[s] = v /\ source[s] = v)
Apart(s, v)  == CanFail(s, v) /\ (wasted[s][v] > 0 \/ Holders(s, v) # {}) => ~AtHand(s, v)

(* Rows of the stage and of the processes.                                   *)
StageFits(s, row) ==
  /\ row.failed = "structural" => row.tried # 0
  /\ row.ok => row.of \in 1..source[s]
GotFits(r) == \A s \in Shops : r.got[s] <= source[s] /\ (s \in Free => r.got[s] = 0)
ShopFits(r) ==
  /\ r.at = "free" => r.shop \in Free
  /\ r.at \in {"prepare", "decide", "read", "release"} => r.shop \in Shops
  /\ r.at \in {"decide", "read"} => r.got[r.shop] # 0

(* The watchdog has a try left whenever it may come to a failure it counts.  *)
Costly == {"visit", "free", "prepare", "decide", "collect", "read", "release", "ended",
           "view", "promote", "write"}
TryLeft(p, r) ==
  IF p = Watchdog THEN r.at \in Costly /\ r.plan # "daily" => fails < MaxTries
  ELSE r.plan # "check"

Rest ==
  /\ former \in [Shops -> 0..1] /\ active \in [Shops -> 0..Versions]
  /\ ahead \subseteq Shops \X (Read \ Unreadable) /\ tries \in [Shops -> [Read -> 0..MaxAhead]]
  /\ receipt = Nobody \/ receipt \in [Shops -> 0..Versions]
  /\ checked \in BOOLEAN /\ runs \in 0..MaxRuns /\ troubles \in 0..MaxTroubles
  /\ \A s \in Shops : active[s] <= source[s] /\ (former[s] = source[s] => active[s] = former[s])
Rows ==
  /\ proc \in [Processes -> Proc] /\ fails \in 0..MaxTries
  /\ \A p \in Processes : GotFits(proc[p]) /\ ShopFits(proc[p]) /\ TryLeft(p, proc[p])
Memory ==
  /\ staged \in [Shops -> Stage] /\ keyed \in BOOLEAN /\ stopped \in BOOLEAN
  /\ \A s \in Shops : StageFits(s, staged[s])
Tally ==
  /\ wasted \in [Shops -> [Read -> Nat]] /\ forgot \in [Shops -> [Read -> Nat]]
  /\ \A s \in Shops, v \in Read : Counted(s, v) /\ Apart(s, v)

ReadInv == ClaimInv /\ Rest /\ Rows /\ Memory /\ Tally

-----------------------------------------------------------------------------
(* Steps in parts: what a step does to one process's row, to the memory of   *)
(* the stage, and to the rest.                                               *)

(* The row gives up what it gives up, and commits to nothing new.            *)
Loses(p, r) == \A s \in Shops, v \in Read : Commits(r, s, v) => Commits(proc[p], s, v)
RowGoes(p, r)  == r \in Proc /\ GotFits(r) /\ ShopFits(r) /\ Loses(p, r)

(* No failure is forgotten without being counted as forgotten, and nothing   *)
(* is staged that was not at hand before.                                    *)
Recalls(s, v) ==
  /\ forgot'[s][v] >= forgot[s][v]
  /\ CanFail(s, v) =>
       /\ Remembered(s, v) =>
            Remembered(s, v)' \/ forgot'[s][v] >= forgot[s][v] + 1 \/ wasted[s][v] = 0
       /\ Holds(s, v)' => AtHand(s, v)
Remembers ==
  /\ Memory' /\ forgot' \in [Shops -> [Read -> Nat]]
  /\ \A s \in Shops, v \in Read : Recalls(s, v)

LEMMA TwoProcesses == IsFiniteSet(Processes) /\ Cardinality(Processes) = 2
<1>1. Processes = {Watchdog} \cup {Deploy} /\ Deploy \notin {Watchdog}
  BY CollectionAssumption DEF Processes
<1>2. IsFiniteSet({Watchdog}) /\ Cardinality({Watchdog}) = 1
  BY FS_Singleton
<1>3. QED
  BY <1>1, <1>2, FS_AddElement

LEMMA HoldersSmall ==
  \A s, v : /\ Holders(s, v) \subseteq Processes /\ IsFiniteSet(Holders(s, v))
            /\ Cardinality(Holders(s, v)) \in 0..2
<1>1. \A s, v : Holders(s, v) \subseteq Processes
  BY DEF Holders
<1>2. QED
  BY <1>1, TwoProcesses, FS_Subset, FS_CardinalityType

(* The arithmetic of one shop and version.                                   *)
LEMMA CountedOn ==
  ASSUME ReadInv, NEW s \in Shops, NEW v \in Read, Recalls(s, v), wasted'[s][v] = wasted[s][v],
         forgot' \in [Shops -> [Read -> Nat]],
         Holders(s, v)' \subseteq Holders(s, v) \/ ~Remembered(s, v)
  PROVE  Counted(s, v)'
<1> DEFINE C == Cardinality(Holders(s, v))
           D == Cardinality(Holders(s, v)')
<1>1. wasted[s][v] \in Nat /\ forgot[s][v] \in Nat /\ forgot'[s][v] \in Nat /\ Counted(s, v)
  BY DEF ReadInv, Tally
<1>2. IsFiniteSet(Holders(s, v)) /\ C \in 0..2
  BY HoldersSmall
<1>3. Holders(s, v)' \subseteq Processes /\ D \in 0..2
  <2>1. Holders(s, v)' \subseteq Processes
    BY DEF Holders
  <2>2. QED
    BY <2>1, TwoProcesses, FS_Subset, FS_CardinalityType
<1>4. Holders(s, v)' \subseteq Holders(s, v) => D <= C
  BY <1>2, FS_Subset
<1> HIDE DEF C, D
<1>5. D <= C \/ ~Remembered(s, v)
  BY <1>4
<1>6. wasted'[s][v] = wasted[s][v] /\ (CanFail(s, v)' <=> CanFail(s, v))
  BY DEF CanFail
<1>7. CASE CanFail(s, v)
  <2>1. /\ wasted[s][v] + C <= 2 * (1 + forgot[s][v])
        /\ ~Remembered(s, v) => wasted[s][v] <= 2 * forgot[s][v]
    BY <1>1, <1>7 DEF Counted, C
  <2>2. /\ forgot'[s][v] >= forgot[s][v]
        /\ Remembered(s, v) => Remembered(s, v)' \/ forgot'[s][v] >= forgot[s][v] + 1 \/ wasted[s][v] = 0
    BY <1>7 DEF Recalls
  <2>3. wasted[s][v] + D <= 2 * (1 + forgot'[s][v])
    BY <1>1, <1>2, <1>3, <1>5, <2>1, <2>2
  <2>4. ~Remembered(s, v)' => wasted[s][v] <= 2 * forgot'[s][v]
    BY <1>1, <1>2, <2>1, <2>2
  <2>5. QED
    BY <1>6, <1>7, <2>3, <2>4 DEF Counted, D
<1>8. CASE ~CanFail(s, v)
  BY <1>1, <1>6, <1>8 DEF Counted
<1>9. QED
  BY <1>7, <1>8

(* What is offered comes from what was staged.                               *)
Offers == \A s \in Shops : active'[s] = active[s] \/ Holds(s, active'[s])

LEMMA ApartOn ==
  ASSUME ReadInv, NEW s \in Shops, NEW v \in Read, Recalls(s, v), wasted'[s][v] = wasted[s][v], Offers,
         UNCHANGED <<source, former>>, Holders(s, v)' \subseteq Holders(s, v)
  PROVE  Apart(s, v)'
<1>1. Apart(s, v)
  BY DEF ReadInv, Tally
<1> SUFFICES ASSUME CanFail(s, v), wasted[s][v] > 0 \/ Holders(s, v) # {}
             PROVE  ~AtHand(s, v)'
  BY DEF Apart, CanFail
<1>2. ~AtHand(s, v)
  BY <1>1 DEF Apart
<1>3. ~Holds(s, v)'
  BY <1>2 DEF Recalls
<1>4. active'[s] # v /\ ~(former'[s] = v /\ source'[s] = v)
  BY <1>2 DEF AtHand, Offers
<1>5. QED
  BY <1>3, <1>4 DEF AtHand

LEMMA Replaced ==
  ASSUME Rows, NEW p \in Processes, NEW r \in Proc, Sets(p, r)
  PROVE  /\ proc' \in [Processes -> Proc] /\ proc'[p] = r
         /\ \A q \in Processes : q # p => proc'[q] = proc[q]
  BY DEF Rows, Sets

LEMMA HoldersLess ==
  ASSUME Rows, NEW p \in Processes, NEW r \in Proc, Sets(p, r), Loses(p, r)
  PROVE  \A s \in Shops, v \in Read : Holders(s, v)' \subseteq Holders(s, v)
<1> SUFFICES ASSUME NEW s \in Shops, NEW v \in Read, NEW q \in Processes, Commits(proc'[q], s, v)
             PROVE  Commits(proc[q], s, v)
  BY DEF Holders
<1>1. QED
  BY Replaced DEF Loses

(* The row of p leaves the watchdog a try where it needs one.                *)
Tries(p, r) ==
  IF p = Watchdog THEN /\ fails' \in 0..MaxTries
                       /\ r.at \in Costly /\ r.plan # "daily" => fails' < MaxTries
  ELSE fails' = fails /\ r.plan # "check"

LEMMA RowsOn ==
  ASSUME Rows, NEW p \in Processes, NEW r \in Proc, GotFits(r), ShopFits(r), Sets(p, r), Tries(p, r),
         source' = source
  PROVE  Rows'
<1>1. /\ proc' \in [Processes -> Proc] /\ proc'[p] = r
      /\ \A q \in Processes : q # p => proc'[q] = proc[q]
  BY Replaced
<1>2. fails' \in 0..MaxTries
  BY DEF Tries, Rows
<1>3. ASSUME NEW q \in Processes PROVE GotFits(proc'[q]) /\ ShopFits(proc'[q])
  BY <1>1 DEF Rows
<1>4. \A x : GotFits(x) => \A s \in Shops : x.got[s] <= source'[s] /\ (s \in Free => x.got[s] = 0)
  BY DEF GotFits
<1>5. ASSUME NEW q \in Processes PROVE TryLeft(q, proc[q])'
  <2>1. CASE q = p
    <3>1. proc'[q] = r
      BY <1>1, <2>1
    <3>2. QED
      BY <2>1, <3>1 DEF Tries, TryLeft
  <2>2. CASE q # p
    <3>1. proc'[q] = proc[q] /\ TryLeft(q, proc[q])
      BY <1>1, <2>2 DEF Rows
    <3>2. q = Watchdog => fails' = fails
      BY <2>2 DEF Tries, Processes
    <3>3. QED
      BY <3>1, <3>2 DEF TryLeft
  <2>3. QED
    BY <2>1, <2>2
<1>6. QED
  BY <1>1, <1>2, <1>3, <1>4, <1>5 DEF Rows, GotFits, ShopFits

LEMMA TallyOn ==
  ASSUME ReadInv, Remembers, Offers, wasted' = wasted, UNCHANGED <<source, former>>,
         \A s \in Shops, v \in Read : Holders(s, v)' \subseteq Holders(s, v)
  PROVE  Tally'
<1>1. wasted' \in [Shops -> [Read -> Nat]] /\ forgot' \in [Shops -> [Read -> Nat]]
  BY DEF ReadInv, Tally, Remembers
<1>2. ASSUME NEW s \in Shops, NEW v \in Read PROVE Counted(s, v)' /\ Apart(s, v)'
  <2>1. Recalls(s, v) /\ Holders(s, v)' \subseteq Holders(s, v)
    BY DEF Remembers
  <2>2. QED
    BY <1>1, <2>1, CountedOn, ApartOn
<1>3. QED
  BY <1>1, <1>2 DEF Tally

(* A step of one process that commits to nothing and wastes nothing.         *)
LEMMA Proceeds ==
  ASSUME ReadInv, ClaimInv', NEW p \in Processes, NEW r, Sets(p, r), RowGoes(p, r), Tries(p, r), Remembers,
         Rest', Offers, UNCHANGED <<source, former, wasted>>
  PROVE  ReadInv'
<1>1. Rows'
  BY RowsOn DEF ReadInv, RowGoes
<1>2. \A s \in Shops, v \in Read : Holders(s, v)' \subseteq Holders(s, v)
  BY HoldersLess DEF ReadInv, RowGoes
<1>3. Tally'
  BY <1>2, TallyOn
<1>4. QED
  BY <1>1, <1>3 DEF ReadInv, Remembers

-----------------------------------------------------------------------------
(* The rows the steps write                                                  *)

Stations == {"idle", "look", "gate", "visit", "free", "prepare", "decide", "collect", "read", "release",
           "ended", "check", "view", "promote", "write", "daily", "ahead"}
Shelf == [Shops -> 0..Versions]

LEMMA RowFields ==
  ASSUME NEW r \in Proc
  PROVE  /\ r.at \in Stations /\ r.shop \in Shops \cup {Nobody} /\ r.todo \subseteq Shops /\ r.got \in Shelf
         /\ r.bad \in SUBSET {"structural", "transient"} /\ r.lapsed \in BOOLEAN /\ r.shows \in Shelf
         /\ r.plan \in {"none", "check", "staged", "daily", "active"}
  BY DEF Proc, Stations, Shelf

(* A row in which only the place is another.                                 *)
LEMMA RowMoved ==
  ASSUME NEW r \in Proc, NEW a \in Stations
  PROVE  /\ [r EXCEPT !.at = a] \in Proc /\ [r EXCEPT !.at = a].at = a
         /\ [r EXCEPT !.at = a].shop = r.shop /\ [r EXCEPT !.at = a].got = r.got
         /\ [r EXCEPT !.at = a].plan = r.plan
  BY DEF Proc, Stations

LEMMA RowGot ==
  ASSUME NEW r \in Proc, NEW s \in Shops, NEW v \in 0..Versions
  PROVE  LET n == [r EXCEPT !.got[s] = v]
         IN /\ n \in Proc /\ n.at = r.at /\ n.shop = r.shop /\ n.plan = r.plan
            /\ n.got[s] = v /\ \A x \in Shops : x # s => n.got[x] = r.got[x]
  BY DEF Proc

LEMMA RowIdling ==
  /\ None \in Shelf /\ (\A s \in Shops : None[s] = 0)
  /\ Idling \in Proc /\ Idling.at = "idle" /\ Idling.got = None /\ Idling.plan = "none" /\ Idling.shop = Nobody
<1>1. None \in Shelf /\ (\A s \in Shops : None[s] = 0)
  BY CollectionAssumption DEF None, Shelf
<1>2. QED
  BY <1>1 DEF Idling, Proc, Shelf

LEMMA RowDone ==
  ASSUME Rows, NEW p \in Processes
  PROVE  /\ Done(p) \in Proc /\ Done(p).at = "visit" /\ Done(p).got = proc[p].got /\ Done(p).plan = proc[p].plan
<1>1. proc[p] \in Proc
  BY DEF Rows
<1>2. QED
  BY <1>1 DEF Done, Proc

LEMMA RowNothing ==
  ASSUME Rows, NEW p \in Processes, proc[p].shop \in Shops
  PROVE  /\ Nothing(p) \in Proc /\ Nothing(p).at = "visit" /\ Nothing(p).plan = proc[p].plan
         /\ \A s \in Shops : Nothing(p).got[s] = IF s = proc[p].shop THEN 0 ELSE proc[p].got[s]
         /\ \A k \in {"structural", "transient"} :
              Blamed(p, k) \in Proc /\ Blamed(p, k).at = "visit" /\ Blamed(p, k).plan = proc[p].plan
              /\ Blamed(p, k).got = Nothing(p).got
<1>1. Done(p) \in Proc /\ Done(p).at = "visit" /\ Done(p).got = proc[p].got /\ Done(p).plan = proc[p].plan
  BY RowDone
<1>2. /\ Nothing(p) \in Proc /\ Nothing(p).at = "visit" /\ Nothing(p).plan = proc[p].plan
      /\ \A s \in Shops : Nothing(p).got[s] = IF s = proc[p].shop THEN 0 ELSE proc[p].got[s]
  <2>1. 0 \in 0..Versions
    BY CollectionAssumption
  <2>2. QED
    BY <1>1, <2>1, RowGot DEF Nothing
<1>3. ASSUME NEW k \in {"structural", "transient"}
      PROVE  Blamed(p, k) \in Proc /\ Blamed(p, k).at = "visit" /\ Blamed(p, k).plan = proc[p].plan
              /\ Blamed(p, k).got = Nothing(p).got
  BY <1>2 DEF Blamed, Proc
<1>4. QED
  BY <1>2, <1>3

LEMMA RowAfter ==
  ASSUME NEW p
  PROVE  After(p) \in Proc /\ After(p).at \in {"idle", "ahead"} /\ After(p).got = None /\ After(p).plan = "none"
<1>1. None \in [Shops -> 0..Versions]
  BY RowIdling DEF Shelf
<1>2. QED
  BY <1>1 DEF After, Idling, Proc

(* What a row may hold after the step: nothing, what it held, or what it is  *)
(* about to decide.                                                          *)
LEMMA Keeping ==
  ASSUME Rows, NEW p \in Processes, NEW r \in Proc, ShopFits(r),
         \A s \in Shops :
           \/ r.got[s] = 0
           \/ r.got[s] = proc[p].got[s] /\ ~(proc[p].at \in {"decide", "release"} /\ proc[p].shop = s)
           \/ r.at \in {"decide", "release"} /\ r.shop = s /\ r.got[s] = proc[p].got[s]
           \/ r.at \in {"decide", "release"} /\ r.shop = s /\ r.got[s] <= source[s] /\ s \notin Free,
         source \in [Shops -> Read]
  PROVE  RowGoes(p, r)
<1>1. GotFits(proc[p])
  BY DEF Rows
<1>2. GotFits(r)
  <2> SUFFICES ASSUME NEW s \in Shops PROVE r.got[s] <= source[s] /\ (s \in Free => r.got[s] = 0)
    BY DEF GotFits
  <2>1. source[s] >= 0 /\ proc[p].got[s] <= source[s] /\ (s \in Free => proc[p].got[s] = 0)
    BY <1>1, CollectionAssumption DEF GotFits, Read
  <2>2. QED
    BY <2>1
<1>3. Loses(p, r)
  <2> SUFFICES ASSUME NEW s \in Shops, NEW v \in Read, Commits(r, s, v) PROVE Commits(proc[p], s, v)
    BY DEF Loses
  <2>1. r.got[s] = v /\ r.got[s] # 0 /\ ~(r.at \in {"decide", "release"} /\ r.shop = s)
    BY CollectionAssumption DEF Commits, Read
  <2>2. QED
    BY <2>1 DEF Commits
<1>4. QED
  BY <1>2, <1>3 DEF RowGoes

(* A process that starts over holds nothing.                                 *)
LEMMA Emptied ==
  ASSUME Rows, source \in [Shops -> Read], NEW p \in Processes, NEW r \in Proc, r.got = None,
         r.at \notin {"free", "prepare", "decide", "read", "release"}
  PROVE  RowGoes(p, r)
<1>1. \A s \in Shops : r.got[s] = 0
  BY RowIdling
<1>2. QED
  BY <1>1, Keeping DEF ShopFits

-----------------------------------------------------------------------------
(* What the steps do to the memory of the stage                              *)

LEMMA Quietly ==
  ASSUME ReadInv, UNCHANGED <<staged, forgot, source>>, keyed' \in BOOLEAN, stopped' \in BOOLEAN
  PROVE  Remembers
<1>1. Memory'
  BY DEF ReadInv, Memory, StageFits
<1>2. ASSUME NEW s \in Shops, NEW v \in Read PROVE Recalls(s, v)
  <2>1. forgot[s][v] \in Nat
    BY DEF ReadInv, Tally
  <2>2. QED
    BY <2>1 DEF Recalls, Remembered, Holds, AtHand
<1>3. QED
  BY <1>1, <1>2 DEF Remembers, ReadInv, Tally

(* The ghost only grows.                                                     *)
LEMMA Forgetting ==
  ASSUME ReadInv, NEW s \in Shops, NEW w, Forgets(s, w)
  PROVE  /\ forgot' \in [Shops -> [Read -> Nat]]
         /\ \A x \in Shops, v \in Read : forgot'[x][v] >= forgot[x][v]
         /\ \A v \in Read : Remembered(s, v) /\ v # w => forgot'[s][v] >= forgot[s][v] + 1
<1>1. forgot \in [Shops -> [Read -> Nat]] /\ staged[s] \in Stage /\ StageFits(s, staged[s])
  BY DEF ReadInv, Tally, Memory
<1>2. CASE staged[s].failed = "structural" /\ staged[s].tried # w
  <2> DEFINE t == staged[s].tried
  <2>1. t \in Read
    BY <1>1, <1>2, CollectionAssumption DEF Stage, StageFits, Read
  <2>2. forgot' = [forgot EXCEPT ![s][t] = @ + 1]
    BY <1>2 DEF Forgets
  <2>3. forgot'[s][t] = forgot[s][t] + 1 /\ forgot[s][t] \in Nat
    BY <1>1, <2>1, <2>2
  <2>4. \A x \in Shops, v \in Read : <<x, v>> # <<s, t>> => forgot'[x][v] = forgot[x][v] /\ forgot[x][v] \in Nat
    BY <1>1, <2>1, <2>2
  <2>5. forgot' \in [Shops -> [Read -> Nat]]
    BY <1>1, <2>1, <2>2
  <2>6. \A v \in Read : Remembered(s, v) => v = t
    BY DEF Remembered
  <2>7. QED
    BY <2>3, <2>4, <2>5, <2>6
<1>3. CASE ~(staged[s].failed = "structural" /\ staged[s].tried # w)
  <2>1. forgot' = forgot
    BY <1>3 DEF Forgets
  <2>2. \A v \in Read : ~(Remembered(s, v) /\ v # w)
    BY <1>3 DEF Remembered
  <2>3. \A x \in Shops, v \in Read : forgot[x][v] \in Nat
    BY <1>1
  <2>4. QED
    BY <1>1, <2>1, <2>2, <2>3
<1>4. QED
  BY <1>2, <1>3

(* What a row that is written must keep of the one before it.                *)
Succeeds(s, row) ==
  /\ row \in Stage /\ StageFits(s, row)
  /\ \A v \in Read : CanFail(s, v) /\ row.ok /\ row.of = v => AtHand(s, v)
Minds(s, row) ==
  \A v \in Read : CanFail(s, v) /\ Remembered(s, v) =>
    \/ row.failed = "structural" /\ row.tried = v
    \/ forgot'[s][v] >= forgot[s][v] + 1
    \/ wasted[s][v] = 0

LEMMA Writing ==
  ASSUME ReadInv, NEW s \in Shops, NEW row, Succeeds(s, row), Minds(s, row), Writes(s, row),
         source' = source, (\E w : Forgets(s, w)) \/ forgot' = forgot
  PROVE  Remembers
<1>1. /\ staged' \in [Shops -> Stage] /\ staged'[s] = row
      /\ \A x \in Shops : x # s => staged'[x] = staged[x]
  BY DEF ReadInv, Memory, Writes, Succeeds
<1>2. Memory'
  BY <1>1 DEF ReadInv, Memory, Writes, Succeeds, StageFits
<1>3. forgot' \in [Shops -> [Read -> Nat]] /\ \A x \in Shops, v \in Read : forgot'[x][v] >= forgot[x][v]
  <2>1. CASE \E w : Forgets(s, w)
    BY <2>1, Forgetting
  <2>2. CASE forgot' = forgot
    <3>1. forgot \in [Shops -> [Read -> Nat]]
      BY DEF ReadInv, Tally
    <3>2. \A x \in Shops, v \in Read : forgot[x][v] \in Nat
      BY <3>1
    <3>3. QED
      BY <2>2, <3>1, <3>2
  <2>3. QED
    BY <2>1, <2>2
<1>4. ASSUME NEW x \in Shops, NEW v \in Read PROVE Recalls(x, v)
  <2>1. CASE x = s
    <3>1. staged'[x] = row
      BY <1>1, <2>1
    <3>2. QED
      BY <1>3, <2>1, <3>1 DEF Recalls, Remembered, Holds, AtHand, Succeeds, Minds
  <2>2. CASE x # s
    <3>1. staged'[x] = staged[x]
      BY <1>1, <2>2
    <3>2. QED
      BY <1>3, <3>1 DEF Recalls, Remembered, Holds, AtHand
  <2>3. QED
    BY <2>1, <2>2
<1>5. QED
  BY <1>2, <1>3, <1>4 DEF Remembers

(* The free shops have nothing to remember.                                  *)
LEMMA WritingFree ==
  ASSUME ReadInv, NEW s \in Free, NEW row \in Stage, StageFits(s, row), Writes(s, row),
         UNCHANGED <<source, forgot>>
  PROVE  Remembers
<1>1. s \in Shops /\ \A v \in Read : ~CanFail(s, v)
  BY CollectionAssumption DEF CanFail
<1>2. Succeeds(s, row) /\ Minds(s, row)
  BY <1>1 DEF Succeeds, Minds
<1>3. QED
  BY <1>1, <1>2, Writing

LEMMA StageRows ==
  ASSUME ReadInv, NEW s \in Shops
  PROVE  /\ staged[s] \in Stage /\ StageFits(s, staged[s]) /\ source[s] \in Read
         /\ [staged[s] EXCEPT !.failed = "no", !.tried = 0] \in Stage
         /\ StageFits(s, [staged[s] EXCEPT !.failed = "no", !.tried = 0])
         /\ \A v \in 1..source[s] : Fresh(v) \in Stage /\ StageFits(s, Fresh(v))
         /\ \A v \in 1..source[s] : /\ [staged[s] EXCEPT !.of = v, !.ok = TRUE] \in Stage
                                    /\ StageFits(s, [staged[s] EXCEPT !.of = v, !.ok = TRUE])
         /\ \A v \in Read : Failed(s, "structural", v) \in Stage /\ StageFits(s, Failed(s, "structural", v))
         /\ \A v \in 0..Versions : Failed(s, "transient", v) \in Stage /\ StageFits(s, Failed(s, "transient", v))
<1>1. staged[s] \in Stage /\ StageFits(s, staged[s]) /\ source[s] \in Read
  BY DEF ReadInv, Memory, ClaimInv
<1>2. 1..source[s] \subseteq Read /\ Read \subseteq 0..Versions /\ 0 \notin Read /\ 0 \in 0..Versions
  BY <1>1, CollectionAssumption DEF Read
<1>3. /\ [staged[s] EXCEPT !.failed = "no", !.tried = 0] \in Stage
      /\ StageFits(s, [staged[s] EXCEPT !.failed = "no", !.tried = 0])
  BY <1>1, <1>2 DEF Stage, StageFits
<1>4. ASSUME NEW v \in 1..source[s] PROVE Fresh(v) \in Stage /\ StageFits(s, Fresh(v))
  BY <1>2 DEF Stage, StageFits, Fresh
<1>5. ASSUME NEW v \in 1..source[s]
      PROVE  /\ [staged[s] EXCEPT !.of = v, !.ok = TRUE] \in Stage
             /\ StageFits(s, [staged[s] EXCEPT !.of = v, !.ok = TRUE])
  BY <1>1, <1>2 DEF Stage, StageFits
<1>6. ASSUME NEW v \in Read PROVE Failed(s, "structural", v) \in Stage /\ StageFits(s, Failed(s, "structural", v))
  BY <1>1, <1>2 DEF Stage, StageFits, Failed
<1>7. ASSUME NEW v \in 0..Versions
      PROVE Failed(s, "transient", v) \in Stage /\ StageFits(s, Failed(s, "transient", v))
  BY <1>1, <1>2 DEF Stage, StageFits, Failed
<1>8. QED
  BY <1>1, <1>3, <1>4, <1>5, <1>6, <1>7

(* The failure is cleared of what is staged: it was of another version, or   *)
(* nothing was paid for it.                                                  *)
LEMMA Clearing ==
  ASSUME ReadInv, NEW s \in Shops, Clears(s), source' = source,
         \/ s \in Free /\ forgot' = forgot
         \/ (\E w : Forgets(s, w) /\ (w \in Read => ~Remembered(s, w) \/ wasted[s][w] = 0))
  PROVE  Remembers
<1>1. CASE staged[s].failed = "no"
  <2>1. UNCHANGED <<staged, keyed, stopped>>
    BY <1>1 DEF Clears, memory
  <2>2. forgot' = forgot
    BY <1>1 DEF Forgets
  <2>3. keyed' \in BOOLEAN /\ stopped' \in BOOLEAN
    BY <2>1 DEF ReadInv, Memory
  <2>4. QED
    BY <2>1, <2>2, <2>3, Quietly
<1>2. CASE staged[s].failed # "no"
  <2> DEFINE row == [staged[s] EXCEPT !.failed = "no", !.tried = 0]
  <2>1. row \in Stage /\ StageFits(s, row) /\ row.ok = staged[s].ok /\ row.of = staged[s].of /\ Writes(s, row)
    BY <1>2, StageRows DEF Clears, Stage
  <2> HIDE DEF row
  <2>2. Succeeds(s, row)
    BY <2>1 DEF Succeeds, AtHand, Holds
  <2>3. Minds(s, row)
    <3>1. CASE s \in Free
      BY <3>1 DEF Minds, CanFail
    <3>2. CASE \E w : Forgets(s, w) /\ (w \in Read => ~Remembered(s, w) \/ wasted[s][w] = 0)
      BY <3>2, Forgetting DEF Minds
    <3>3. QED
      BY <3>1, <3>2
  <2>4. QED
    BY <2>1, <2>2, <2>3, Writing
<1>3. QED
  BY <1>1, <1>2

(* What is at hand did not fail for money.                                   *)
LEMMA AtHandUnspent ==
  ASSUME ReadInv, NEW s \in Shops, NEW v \in Read, AtHand(s, v)
  PROVE  wasted[s][v] = 0
<1>1. Counted(s, v) /\ Apart(s, v) /\ wasted[s][v] \in Nat
  BY DEF ReadInv, Tally
<1>2. QED
  BY <1>1 DEF Counted, Apart

-----------------------------------------------------------------------------
(* The actions of the collector                                              *)

LEMMA RestOn ==
  ASSUME Rest, UNCHANGED <<supply, offered>>, checked' \in BOOLEAN, UNCHANGED limits \/ Trouble
  PROVE  Rest' /\ Offers
<1>1. runs' \in 0..MaxRuns /\ troubles' \in 0..MaxTroubles
  BY CollectionAssumption DEF Rest, limits, Trouble
<1>2. Offers
  BY DEF offered, Offers
<1>3. QED
  BY <1>1, <1>2 DEF Rest, supply, offered

(* A step that leaves the offers and the supply alone.                       *)
LEMMA StepsOn ==
  ASSUME ReadInv, ClaimInv', NEW p \in Processes, NEW r, Sets(p, r), RowGoes(p, r), Tries(p, r), Remembers,
         UNCHANGED <<supply, offered, wasted>>, checked' \in BOOLEAN, UNCHANGED limits \/ Trouble
  PROVE  ReadInv'
<1>1. Rest' /\ Offers
  BY RestOn DEF ReadInv
<1>2. UNCHANGED <<source, former, wasted>>
  BY DEF supply
<1>3. QED
  BY <1>1, <1>2, Proceeds

(* It goes on within the work it was about.                                  *)
LEMMA TriesOn ==
  ASSUME ReadInv, NEW p \in Processes, NEW r, fails' = fails, r.plan = proc[p].plan, proc[p].at \in Costly
  PROVE  Tries(p, r)
  BY DEF ReadInv, Rows, TryLeft, Tries

LEMMA Known ==
  ASSUME ReadInv, NEW p \in Processes
  PROVE  /\ proc[p] \in Proc /\ GotFits(proc[p]) /\ ShopFits(proc[p])
         /\ source \in [Shops -> Read] /\ fails \in 0..MaxTries /\ checked \in BOOLEAN
         /\ Rows /\ keyed \in BOOLEAN /\ stopped \in BOOLEAN
  BY DEF ReadInv, Rows, ClaimInv, Rest, Memory

LEMMA VisitKeeps == ASSUME ReadInv, ClaimInv', NEW p \in Processes, NEW s \in Shops, Visit(p, s) PROVE ReadInv'
<1> DEFINE r == [proc[p] EXCEPT !.at = IF s \in Free THEN "free" ELSE "prepare", !.shop = s]
<1>1. /\ proc[p].at = "visit" /\ Sets(p, r)
      /\ UNCHANGED <<memory, supply, offered, claim, days, limits, ghosts>>
  BY DEF Visit, At
<1>2. /\ r \in Proc /\ r.at = (IF s \in Free THEN "free" ELSE "prepare") /\ r.shop = s
      /\ r.got = proc[p].got /\ r.plan = proc[p].plan
  <2> DEFINE a == IF s \in Free THEN "free" ELSE "prepare"
             q == proc[p]
  <2>1. q \in Proc /\ a \in {"free", "prepare"}
    BY Known
  <2> HIDE DEF a, q
  <2>2. LET n == [q EXCEPT !.at = a, !.shop = s]
        IN n \in Proc /\ n.at = a /\ n.shop = s /\ n.got = q.got /\ n.plan = q.plan
    BY <2>1 DEF Proc
  <2>3. QED
    BY <2>2 DEF a, q
<1> HIDE DEF r
<1>3. RowGoes(p, r)
  BY <1>1, <1>2, Known, Keeping DEF ShopFits
<1>4. Tries(p, r)
  BY <1>1, <1>2, TriesOn DEF Costly, days
<1>5. Remembers
  BY <1>1, Quietly, Known DEF memory, ghosts, supply
<1>6. QED
  BY <1>1, <1>3, <1>4, <1>5, StepsOn, Known DEF days, ghosts

(* From a shop back to the visits, with the version it was about or without. *)
LEMMA GoesBack ==
  ASSUME ReadInv, NEW p \in Processes, proc[p].shop \in Shops, proc[p].at \in Costly, fails' = fails
  PROVE  /\ proc[p].at \notin {"decide", "release"} => RowGoes(p, Done(p))
         /\ RowGoes(p, Nothing(p))
         /\ \A k \in {"structural", "transient"} : RowGoes(p, Blamed(p, k)) /\ Tries(p, Blamed(p, k))
         /\ Tries(p, Done(p)) /\ Tries(p, Nothing(p))
<1>1. Rows /\ source \in [Shops -> Read]
  BY Known
<1>2. Done(p) \in Proc /\ Done(p).at = "visit" /\ Done(p).got = proc[p].got /\ Done(p).plan = proc[p].plan
  BY <1>1, RowDone
<1>3. /\ Nothing(p) \in Proc /\ Nothing(p).at = "visit" /\ Nothing(p).plan = proc[p].plan
      /\ \A s \in Shops : Nothing(p).got[s] = IF s = proc[p].shop THEN 0 ELSE proc[p].got[s]
  BY <1>1, RowNothing
<1>4. proc[p].at \notin {"decide", "release"} => RowGoes(p, Done(p))
  BY <1>1, <1>2, Keeping DEF ShopFits
<1>5. RowGoes(p, Nothing(p))
  BY <1>1, <1>3, Keeping DEF ShopFits
<1>6. ASSUME NEW k \in {"structural", "transient"} PROVE RowGoes(p, Blamed(p, k)) /\ Tries(p, Blamed(p, k))
  <2>1. Blamed(p, k) \in Proc /\ Blamed(p, k).at = "visit" /\ Blamed(p, k).plan = proc[p].plan
        /\ Blamed(p, k).got = Nothing(p).got
    BY <1>1, RowNothing
  <2>2. RowGoes(p, Blamed(p, k))
    BY <1>1, <1>3, <2>1, Keeping DEF ShopFits
  <2>3. QED
    BY <2>1, <2>2, TriesOn
<1>7. QED
  BY <1>2, <1>3, <1>4, <1>5, <1>6, TriesOn

LEMMA VisitingFree == ASSUME ReadInv, ClaimInv', NEW p \in Processes, VisitFree(p) PROVE ReadInv'
<1> DEFINE s == proc[p].shop
<1>1. /\ proc[p].at = "free" /\ s \in Free /\ s \in Shops
      /\ UNCHANGED <<supply, offered, claim, days, ghosts>>
  BY Known, CollectionAssumption DEF VisitFree, At, ShopFits
<1>2. fails' = fails /\ checked' = checked /\ checked \in BOOLEAN /\ proc[p].at \in Costly
      /\ source' = source /\ forgot' = forgot /\ wasted' = wasted
  BY <1>1, Known DEF days, supply, ghosts, Costly
<1>3. RowGoes(p, Done(p)) /\ Tries(p, Done(p))
  BY <1>1, <1>2, GoesBack
<1>4. Remembers
  <2>1. CASE Clears(s)
    BY <1>1, <1>2, <2>1, Clearing
  <2>2. CASE active[s] # 0 /\ Writes(s, [staged[s] EXCEPT !.of = active[s], !.ok = TRUE])
    <3>1. active[s] \in 1..source[s]
      BY <1>1, <2>2, Known DEF ReadInv, Rest, Read
    <3>2. [staged[s] EXCEPT !.of = active[s], !.ok = TRUE] \in Stage
          /\ StageFits(s, [staged[s] EXCEPT !.of = active[s], !.ok = TRUE])
      BY <1>1, <3>1, StageRows
    <3>3. QED
      BY <1>1, <1>2, <2>2, <3>2, WritingFree
  <2>3. CASE Writes(s, Fresh(source[s]))
    <3>1. source[s] \in 1..source[s]
      BY <1>1, Known, CollectionAssumption DEF Read
    <3>2. QED
      BY <1>1, <1>2, <2>3, <3>1, StageRows, WritingFree
  <2>4. CASE UNCHANGED memory
    BY <1>2, <2>4, Quietly, Known DEF memory
  <2>5. QED
    BY <2>1, <2>2, <2>3, <2>4 DEF VisitFree
<1>5. CASE Sets(p, Done(p)) /\ UNCHANGED limits
  BY <1>1, <1>2, <1>3, <1>4, <1>5, StepsOn
<1>6. CASE Moves(p, "prepare") /\ Trouble
  <2> DEFINE r == [proc[p] EXCEPT !.at = "prepare"]
  <2>1. r \in Proc /\ r.at = "prepare" /\ r.shop = s /\ r.got = proc[p].got /\ r.plan = proc[p].plan
    <3>1. proc[p] \in Proc /\ "prepare" \in Stations
      BY Known DEF Stations
    <3>2. QED
      BY <3>1, RowMoved
  <2>2. Sets(p, r)
    BY <1>6 DEF Moves, Sets
  <2> HIDE DEF r
  <2>3. RowGoes(p, r) /\ Tries(p, r)
    BY <1>1, <1>2, <2>1, Known, Keeping, TriesOn DEF ShopFits
  <2>4. QED
    BY <1>1, <1>2, <1>4, <1>6, <2>2, <2>3, StepsOn
<1>7. QED
  BY <1>5, <1>6 DEF VisitFree

LEMMA PreparedKeeps == ASSUME ReadInv, ClaimInv', NEW p \in Processes, Prepared(p) PROVE ReadInv'
<1> DEFINE s == proc[p].shop
           r == [proc[p] EXCEPT !.at = "decide", !.got[s] = source[s]]
<1>1. /\ proc[p].at = "prepare" /\ s \in Shops /\ s \notin Free /\ Sets(p, r)
      /\ UNCHANGED <<memory, supply, offered, claim, days, limits, ghosts>>
  BY Known DEF Prepared, At, ShopFits
<1>2. source[s] \in 1..Versions /\ proc[p] \in Proc
  BY <1>1, Known DEF Read
<1>3. /\ r \in Proc /\ r.at = "decide" /\ r.shop = s /\ r.plan = proc[p].plan /\ r.got[s] = source[s]
      /\ \A x \in Shops : x # s => r.got[x] = proc[p].got[x]
  <2> DEFINE m == [proc[p] EXCEPT !.got[s] = source[s]]
  <2>1. r = [m EXCEPT !.at = "decide"]
    BY <1>2 DEF Proc
  <2>2. source[s] \in 0..Versions
    BY <1>2
  <2>3. /\ m \in Proc /\ m.at = proc[p].at /\ m.shop = proc[p].shop /\ m.plan = proc[p].plan
        /\ m.got[s] = source[s] /\ \A x \in Shops : x # s => m.got[x] = proc[p].got[x]
    BY <1>1, <1>2, <2>2, RowGot
  <2> HIDE DEF m
  <2>4. r \in Proc /\ r.at = "decide" /\ r.shop = m.shop /\ r.plan = m.plan /\ r.got = m.got
    BY <2>1, <2>3 DEF Proc
  <2>5. QED
    BY <2>3, <2>4
<1> HIDE DEF r
<1>4. RowGoes(p, r)
  BY <1>1, <1>2, <1>3, Known, Keeping DEF ShopFits
<1>5. Tries(p, r)
  BY <1>1, <1>3, TriesOn DEF Costly, days
<1>6. Remembers
  BY <1>1, Quietly, Known DEF memory, ghosts, supply
<1>7. QED
  BY <1>1, <1>4, <1>5, <1>6, StepsOn, Known DEF days, ghosts

LEMMA Outage == ASSUME ReadInv, ClaimInv', NEW p \in Processes, Unavailable(p) PROVE ReadInv'
<1> DEFINE s == proc[p].shop
<1>1. /\ proc[p].at = "prepare" /\ s \in Shops /\ Trouble
      /\ UNCHANGED <<supply, offered, claim, days, wasted>>
  BY Known DEF Unavailable, At, ShopFits
<1>2. fails' = fails /\ checked' \in BOOLEAN /\ proc[p].at \in Costly /\ source' = source
  BY <1>1, Known DEF days, supply, Costly
<1>3. CASE former[s] # 0 /\ former[s] = source[s]
  <2> DEFINE row == [staged[s] EXCEPT !.of = former[s], !.ok = TRUE]
  <2>1. Writes(s, row) /\ Sets(p, Done(p)) /\ forgot' = forgot
    BY <1>3 DEF Unavailable
  <2>2. former[s] \in 1..source[s]
    BY <1>1, <1>3, Known, CollectionAssumption DEF Read
  <2>3. row \in Stage /\ StageFits(s, row) /\ row.of = former[s]
        /\ row.failed = staged[s].failed /\ row.tried = staged[s].tried
    BY <1>1, <2>2, StageRows DEF Stage
  <2> HIDE DEF row
  <2>4. Succeeds(s, row) /\ Minds(s, row)
    BY <1>3, <2>3 DEF Succeeds, Minds, Remembered, AtHand
  <2>5. Remembers
    BY <1>1, <1>2, <2>1, <2>4, Writing
  <2>6. QED
    BY <1>1, <1>2, <2>1, <2>5, GoesBack, StepsOn
<1>4. CASE ~(former[s] # 0 /\ former[s] = source[s])
  <2> DEFINE row == Failed(s, "transient", 0)
  <2>1. Writes(s, row) /\ Sets(p, Blamed(p, "transient")) /\ Forgets(s, 0)
    BY <1>4 DEF Unavailable
  <2>2. row \in Stage /\ StageFits(s, row) /\ row.of = staged[s].of /\ row.ok = staged[s].ok
    BY <1>1, CollectionAssumption, StageRows DEF Stage, Failed
  <2> HIDE DEF row
  <2>3. Succeeds(s, row)
    BY <2>2 DEF Succeeds, AtHand, Holds
  <2>4. Minds(s, row)
    BY <1>1, <2>1, Forgetting DEF Minds, Read
  <2>5. Remembers
    BY <1>1, <1>2, <2>1, <2>3, <2>4, Writing
  <2>6. QED
    BY <1>1, <1>2, <2>1, <2>5, GoesBack, StepsOn
<1>5. QED
  BY <1>3, <1>4

LEMMA Refusal == ASSUME ReadInv, ClaimInv', NEW p \in Processes, Refused(p) PROVE ReadInv'
<1> DEFINE s == proc[p].shop
           v == source[s]
           row == Failed(s, "structural", v)
<1>1. /\ proc[p].at = "prepare" /\ s \in Shops /\ Sets(p, Blamed(p, "structural"))
      /\ UNCHANGED <<supply, offered, claim, days, limits, wasted>>
  BY Known DEF Refused, At, ShopFits
<1>2. fails' = fails /\ checked' \in BOOLEAN /\ proc[p].at \in Costly /\ source' = source
  BY <1>1, Known DEF days, supply, Costly
<1>3. Remembers
  <2>1. CASE Remembered(s, v)
    <3>1. UNCHANGED <<memory, forgot>>
      BY <2>1 DEF Refused
    <3>2. QED
      BY <1>2, <3>1, Quietly, Known DEF memory
  <2>2. CASE ~Remembered(s, v)
    <3>1. Writes(s, row) /\ Forgets(s, v)
      BY <2>2 DEF Refused
    <3>2. row \in Stage /\ StageFits(s, row) /\ row.of = staged[s].of /\ row.ok = staged[s].ok
      <4>1. staged[s] \in Stage /\ v \in Read
        BY <1>1, StageRows
      <4>2. row \in Stage /\ StageFits(s, row)
        BY <1>1, <4>1, StageRows
      <4>3. row.of = staged[s].of /\ row.ok = staged[s].ok
        BY <4>1 DEF Stage, Failed
      <4>4. QED
        BY <4>2, <4>3
    <3> HIDE DEF row
    <3>3. Succeeds(s, row)
      BY <3>2 DEF Succeeds, AtHand, Holds
    <3>4. Minds(s, row)
      BY <1>1, <2>2, <3>1, Forgetting DEF Minds
    <3>5. QED
      BY <1>1, <1>2, <3>1, <3>3, <3>4, Writing
  <2>3. QED
    BY <2>1, <2>2
<1>4. QED
  BY <1>1, <1>2, <1>3, GoesBack, StepsOn

LEMMA VisitedKeeps == ASSUME ReadInv, ClaimInv', NEW p \in Processes, Visited(p) PROVE ReadInv'
<1>1. PICK a \in {"ended", "collect"} : Moves(p, a)
  BY DEF Visited
<1> DEFINE r == [proc[p] EXCEPT !.at = a]
<1>2. /\ proc[p].at = "visit" /\ Sets(p, r)
      /\ UNCHANGED <<memory, supply, offered, claim, days, limits, ghosts>>
  BY <1>1 DEF Visited, At, Moves, Sets
<1>3. r \in Proc /\ r.at = a /\ r.got = proc[p].got /\ r.plan = proc[p].plan
  <2>1. proc[p] \in Proc /\ a \in Stations
    BY Known DEF Stations
  <2>2. QED
    BY <2>1, RowMoved
<1> HIDE DEF r
<1>4. RowGoes(p, r)
  BY <1>2, <1>3, Known, Keeping DEF ShopFits
<1>5. Tries(p, r)
  BY <1>2, <1>3, TriesOn DEF Costly, days
<1>6. Remembers
  BY <1>2, Quietly, Known DEF memory, ghosts, supply
<1>7. QED
  BY <1>2, <1>4, <1>5, <1>6, StepsOn, Known DEF days, ghosts

(* What was decided on is a version the shop has shown.                      *)
LEMMA Decided ==
  ASSUME ReadInv, NEW p \in Processes, proc[p].at \in {"decide", "read"}
  PROVE  LET s == proc[p].shop IN
         s \in Shops /\ s \notin Free /\ proc[p].got[s] \in Read /\ proc[p].got[s] \in 1..source[s]
<1> DEFINE s == proc[p].shop
<1>1. s \in Shops /\ proc[p].got[s] # 0
  BY Known DEF ShopFits
<1>2. proc[p].got[s] \in 0..Versions /\ proc[p].got[s] <= source[s] /\ s \notin Free /\ source[s] \in Read
  BY <1>1, Known DEF Proc, GotFits
<1>3. QED
  BY <1>1, <1>2, CollectionAssumption DEF Read

(* A row renewed by what is at hand.                                         *)
LEMMA Staging ==
  ASSUME ReadInv, NEW s \in Shops, NEW v \in 1..source[s], Writes(s, Fresh(v)), source' = source,
         \/ Forgets(s, v) /\ (AtHand(s, v) \/ ~CanFail(s, v))
         \/ Forgets(s, 0) /\ ~CanFail(s, v)
  PROVE  Remembers
<1> DEFINE row == Fresh(v)
<1>1. row \in Stage /\ StageFits(s, row) /\ row.of = v
  BY StageRows DEF Fresh
<1>2. \A u \in Read : u # 0
  BY CollectionAssumption DEF Read
<1>3. v \in Read
  <2>1. source[s] \in 1..Versions
    BY StageRows DEF Read
  <2>2. QED
    BY <2>1, CollectionAssumption DEF Read
<1> HIDE DEF row
<1>4. Succeeds(s, row)
  BY <1>1 DEF Succeeds
<1>5. Minds(s, row)
  BY <1>2, <1>3, Forgetting, AtHandUnspent DEF Minds
<1>6. Writes(s, row)
  BY DEF row
<1>7. QED
  BY <1>4, <1>5, <1>6, Writing

(* The decision to pay: nobody remembers a failure of it.                    *)
LEMMA Commitment ==
  ASSUME ReadInv, ClaimInv', NEW p \in Processes, NEW s \in Shops, NEW v \in Read,
         proc[p].at = "decide", proc[p].shop = s, proc[p].got[s] = v,
         ~Holds(s, v), active[s] # v, ~Remembered(s, v), Sets(p, Done(p)), Remembers,
         Holds(s, v)' => Holds(s, v), UNCHANGED <<supply, offered, days, limits, wasted>>
  PROVE  ReadInv'
<1> DEFINE r == Done(p)
<1>2. r \in Proc /\ r.at = "visit" /\ r.got = proc[p].got /\ r.plan = proc[p].plan
  BY Known, RowDone
<1>3. UNCHANGED <<source, former, active, fails, checked>> /\ Rows /\ GotFits(proc[p])
  BY Known DEF supply, offered, days
<1>4. Rows'
  <2>1. GotFits(r) /\ ShopFits(r)
    BY <1>2, <1>3 DEF GotFits, ShopFits
  <2>2. Tries(p, r)
    BY <1>2, <1>3, TriesOn DEF Costly
  <2>3. QED
    BY <1>2, <1>3, <2>1, <2>2, RowsOn
<1>5. Rest' /\ Offers
  <2>1. Rest /\ checked' \in BOOLEAN
    BY <1>3, Known DEF ReadInv
  <2>2. QED
    BY <2>1, RestOn
<1>6. /\ proc'[p] = r /\ \A q \in Processes : q # p => proc'[q] = proc[q]
  BY <1>2, <1>3, Replaced
<1>7. ASSUME NEW x \in Shops, NEW u \in Read, <<x, u>> # <<s, v>>
      PROVE  Holders(x, u)' \subseteq Holders(x, u)
  <2> SUFFICES ASSUME NEW q \in Processes, Commits(proc'[q], x, u) PROVE Commits(proc[q], x, u)
    BY DEF Holders
  <2>1. CASE q = p
    <3>1. proc[p].got[x] = u
      BY <1>2, <1>6, <2>1 DEF Commits
    <3>2. x # s
      BY <1>7, <3>1
    <3>3. QED
      BY <2>1, <3>1, <3>2 DEF Commits
  <2>2. CASE q # p
    BY <1>6, <2>2
  <2>3. QED
    BY <2>1, <2>2
<1>8. ~AtHand(s, v)'
  <2>1. former[s] = source[s] => active[s] = former[s]
    BY DEF ReadInv, Rest
  <2>2. QED
    BY <1>3, <2>1 DEF AtHand
<1>9. /\ wasted' \in [Shops -> [Read -> Nat]] /\ forgot' \in [Shops -> [Read -> Nat]]
      /\ \A x \in Shops, u \in Read : Recalls(x, u)
  BY DEF ReadInv, Tally, Remembers
<1>10. ASSUME NEW x \in Shops, NEW u \in Read PROVE Counted(x, u)' /\ Apart(x, u)'
  <2>1. CASE <<x, u>> = <<s, v>>
    <3>1. x = s /\ u = v
      BY <2>1
    <3>2. Apart(x, u)'
      BY <1>8, <3>1 DEF Apart
    <3>3. QED
      BY <1>9, <3>1, <3>2, CountedOn
  <2>2. CASE <<x, u>> # <<s, v>>
    BY <1>3, <1>5, <1>7, <1>9, <2>2, CountedOn, ApartOn
  <2>3. QED
    BY <2>1, <2>2
<1>11. Tally'
  BY <1>9, <1>10 DEF Tally
<1>12. QED
  BY <1>4, <1>5, <1>11 DEF ReadInv, Remembers

LEMMA Deciding == ASSUME ReadInv, ClaimInv', NEW p \in Processes, Decide(p) PROVE ReadInv'
<1>0. PICK s \in Shops, v \in Read : s = proc[p].shop /\ v = proc[p].got[proc[p].shop]
  BY Decided DEF Decide, At
<1> DEFINE known == Holds(s, v) \/ active[s] = v
<1>1. /\ proc[p].at = "decide" /\ v \in 1..source[s] /\ s = proc[p].shop /\ v = proc[p].got[s]
      /\ UNCHANGED <<supply, offered, claim, days, limits, wasted>>
  BY <1>0, Decided DEF Decide, At
<1>2. fails' = fails /\ checked' \in BOOLEAN /\ proc[p].at \in Costly /\ source' = source
  BY <1>1, Known DEF days, supply, Costly
<1>3. ASSUME Remembers, Sets(p, Nothing(p)) \/ Sets(p, Blamed(p, "structural")) PROVE ReadInv'
  BY <1>1, <1>2, <1>3, GoesBack, StepsOn
<1>4. CASE known /\ Sets(p, Nothing(p)) /\ Forgets(s, v)
           /\ IF Holds(s, v) THEN Clears(s) ELSE Writes(s, Fresh(v))
  <2>1. AtHand(s, v)
    BY <1>4 DEF AtHand
  <2>2. CASE Holds(s, v)
    BY <1>1, <1>2, <1>3, <1>4, <2>1, <2>2, AtHandUnspent, Clearing
  <2>3. CASE ~Holds(s, v)
    BY <1>1, <1>2, <1>3, <1>4, <2>1, <2>3, Staging
  <2>4. QED
    BY <2>2, <2>3
<1>5. CASE <<s, v>> \in ahead /\ Writes(s, Fresh(v)) /\ Forgets(s, v) /\ Sets(p, Nothing(p))
  <2>1. ~CanFail(s, v)
    BY <1>5 DEF ReadInv, Rest, CanFail
  <2>2. QED
    BY <1>1, <1>2, <1>3, <1>5, <2>1, Staging
<1>6. CASE Sets(p, Blamed(p, "structural")) /\ UNCHANGED <<memory, forgot>>
  BY <1>2, <1>3, <1>6, Quietly, Known DEF memory
<1>7. CASE /\ ~known /\ ~Remembered(s, v) /\ Sets(p, Done(p)) /\ Forgets(s, v)
           /\ IF staged[s].failed = "structural" THEN Clears(s) ELSE UNCHANGED memory
  <2>1. CASE staged[s].failed = "structural"
    <3>1. Remembers
      BY <1>1, <1>2, <1>7, <2>1, Clearing
    <3>2. Holds(s, v)' => Holds(s, v)
      <4>1. Writes(s, [staged[s] EXCEPT !.failed = "no", !.tried = 0]) /\ staged[s] \in Stage
            /\ staged \in [Shops -> Stage]
        BY <1>1, <1>7, <2>1 DEF Clears, ReadInv, Memory
      <4>2. staged'[s].of = staged[s].of /\ staged'[s].ok = staged[s].ok
        BY <1>1, <4>1 DEF Writes, Stage
      <4>3. QED
        BY <4>2 DEF Holds
    <3>3. QED
      BY <1>1, <1>7, <3>1, <3>2, Commitment
  <2>2. CASE staged[s].failed # "structural"
    <3>1. UNCHANGED <<memory, forgot>>
      BY <1>7, <2>2 DEF Forgets
    <3>2. Remembers
      BY <1>2, <3>1, Quietly, Known DEF memory
    <3>3. Holds(s, v)' => Holds(s, v)
      BY <3>1 DEF memory, Holds
    <3>4. QED
      BY <1>1, <1>7, <3>2, <3>3, Commitment
  <2>3. QED
    BY <2>1, <2>2
<1>8. QED
  BY <1>0, <1>4, <1>5, <1>6, <1>7 DEF Decide

LEMMA ClaimKeeps == ASSUME ReadInv, ClaimInv', NEW p \in Processes, NEW s \in Shops, ClaimShop(p, s) PROVE ReadInv'
<1> DEFINE v == proc[p].got[s]
           q == proc[p]
<1>1. /\ proc[p].at = "collect" /\ v # 0 /\ UNCHANGED <<supply, offered, days, limits, wasted>>
  BY DEF ClaimShop, At
<1>2. /\ q \in Proc /\ GotFits(q) /\ source[s] \in Read /\ fails' = fails /\ checked' \in BOOLEAN
      /\ proc[p].at \in Costly /\ source' = source
  BY <1>1, Known DEF days, supply, Costly
<1>3. v \in Read
  BY <1>1, <1>2, CollectionAssumption DEF GotFits, Proc, Read
<1>4. ASSUME NEW r \in Proc, r.plan = q.plan, Sets(p, r), Remembers, RowGoes(p, r) PROVE ReadInv'
  BY <1>1, <1>2, <1>4, TriesOn, StepsOn
<1>5. CASE Sets(p, [q EXCEPT !.got[s] = 0]) /\ UNCHANGED <<memory, forgot>>
  <2> DEFINE r == [q EXCEPT !.got[s] = 0]
  <2>1. /\ r \in Proc /\ r.at = q.at /\ r.shop = q.shop /\ r.plan = q.plan
        /\ r.got[s] = 0 /\ \A x \in Shops : x # s => r.got[x] = q.got[x]
    BY <1>2, CollectionAssumption DEF Proc
  <2> HIDE DEF r
  <2>2. RowGoes(p, r)
    BY <1>1, <2>1, Known, Keeping DEF ShopFits
  <2>3. Remembers
    BY <1>2, <1>5, Quietly, Known DEF memory
  <2>4. Sets(p, r)
    BY <1>5 DEF r
  <2>5. QED
    BY <1>4, <2>1, <2>2, <2>3, <2>4
<1>6. CASE /\ Holds(s, v) /\ Clears(s) /\ Forgets(s, v)
           /\ Sets(p, [q EXCEPT !.at = "release", !.shop = s])
  <2> DEFINE r == [q EXCEPT !.at = "release", !.shop = s]
  <2>1. r \in Proc /\ r.at = "release" /\ r.shop = s /\ r.plan = q.plan /\ r.got = q.got
    BY <1>2 DEF Proc
  <2> HIDE DEF r
  <2>2. RowGoes(p, r)
    BY <1>1, <2>1, Known, Keeping DEF ShopFits
  <2>3. AtHand(s, v)
    BY <1>6 DEF AtHand
  <2>4. Remembers
    BY <1>2, <1>3, <1>6, <2>3, AtHandUnspent, Clearing
  <2>5. Sets(p, r)
    BY <1>6 DEF r
  <2>6. QED
    BY <1>4, <2>1, <2>2, <2>4, <2>5
<1>7. CASE /\ Sets(p, [q EXCEPT !.at = "read", !.shop = s, !.lapsed = FALSE])
           /\ UNCHANGED <<memory, forgot>>
  <2> DEFINE r == [q EXCEPT !.at = "read", !.shop = s, !.lapsed = FALSE]
  <2>1. r \in Proc /\ r.at = "read" /\ r.shop = s /\ r.plan = q.plan /\ r.got = q.got
    BY <1>2 DEF Proc
  <2> HIDE DEF r
  <2>2. RowGoes(p, r)
    BY <1>1, <2>1, Known, Keeping DEF ShopFits
  <2>3. Remembers
    BY <1>2, <1>7, Quietly, Known DEF memory
  <2>4. Sets(p, r)
    BY <1>7 DEF r
  <2>5. QED
    BY <1>4, <2>1, <2>2, <2>3, <2>4
<1>8. QED
  BY <1>5, <1>6, <1>7 DEF ClaimShop

LEMMA RenewKeeps == ASSUME ReadInv, ClaimInv', NEW p \in Processes, Renew(p) PROVE ReadInv'
<1> DEFINE r == [proc[p] EXCEPT !.lapsed = FALSE]
<1>1. /\ proc[p].at = "read" /\ Sets(p, r) /\ UNCHANGED <<memory, supply, offered, days, limits, ghosts>>
  BY DEF Renew, At
<1>2. r \in Proc /\ r.at = "read" /\ r.shop = proc[p].shop /\ r.plan = proc[p].plan /\ r.got = proc[p].got
  BY <1>1, Known DEF Proc
<1> HIDE DEF r
<1>3. RowGoes(p, r)
  BY <1>1, <1>2, Known, Keeping DEF ShopFits
<1>4. Tries(p, r)
  BY <1>1, <1>2, TriesOn DEF Costly, days
<1>5. Remembers
  BY <1>1, Quietly, Known DEF memory, ghosts, supply
<1>6. QED
  BY <1>1, <1>3, <1>4, <1>5, StepsOn, Known DEF days, ghosts

(* A paid read that fails for a reason of its own.                           *)
LEMMA Wasting ==
  ASSUME ReadInv, ClaimInv', NEW p \in Processes, NEW s \in Shops, NEW v \in Unreadable, NEW r,
         proc[p].at = "read", proc[p].got[s] = v, Sets(p, r), RowGoes(p, r), ~Commits(r, s, v), Tries(p, r),
         Remembers, staged'[s].of = staged[s].of, staged'[s].ok = staged[s].ok, Remembered(s, v)',
         wasted' = [wasted EXCEPT ![s][v] = @ + 1], UNCHANGED <<supply, offered, checked, limits>>
  PROVE  ReadInv'
<1>1. v \in Read /\ s \notin Free /\ CanFail(s, v)
  BY Known, CollectionAssumption DEF GotFits, CanFail, Read
<1>2. Rows' /\ Rest' /\ Offers /\ Rows
  <2>1. Rows /\ r \in Proc /\ source' = source /\ Rest /\ checked' \in BOOLEAN
    BY Known DEF RowGoes, ReadInv, supply
  <2>2. QED
    BY <2>1, RowsOn, RestOn DEF RowGoes
<1>3. \A x \in Shops, u \in Read : Holders(x, u)' \subseteq Holders(x, u)
  BY <1>2, HoldersLess DEF RowGoes
<1>4. /\ wasted \in [Shops -> [Read -> Nat]] /\ forgot \in [Shops -> [Read -> Nat]]
      /\ forgot' \in [Shops -> [Read -> Nat]] /\ \A x \in Shops, u \in Read : Recalls(x, u)
  BY DEF ReadInv, Tally, Remembers
<1>5. /\ wasted' \in [Shops -> [Read -> Nat]] /\ wasted'[s][v] = wasted[s][v] + 1
      /\ \A x \in Shops, u \in Read : <<x, u>> # <<s, v>> => wasted'[x][u] = wasted[x][u]
  BY <1>1, <1>4
<1>6. p \in Holders(s, v) /\ p \notin Holders(s, v)'
  <2>1. proc'[p] = r
    BY <1>2, Replaced DEF RowGoes
  <2>2. QED
    BY <2>1 DEF Holders, Commits
<1>7. Counted(s, v)'
  <2> DEFINE C == Cardinality(Holders(s, v))
             D == Cardinality(Holders(s, v)')
  <2>1. IsFiniteSet(Holders(s, v)) /\ C \in 0..2
    BY HoldersSmall
  <2>2. IsFiniteSet(Holders(s, v) \ {p}) /\ Cardinality(Holders(s, v) \ {p}) = C - 1
    BY <1>6, <2>1, FS_RemoveElement
  <2>3. Holders(s, v)' \subseteq Holders(s, v) \ {p}
    BY <1>1, <1>3, <1>6
  <2>4. D <= C - 1 /\ D \in Nat
    BY <2>2, <2>3, FS_Subset, FS_CardinalityType
  <2> HIDE DEF C, D
  <2>5. wasted[s][v] + C <= 2 * (1 + forgot[s][v])
    BY <1>1 DEF ReadInv, Tally, Counted, C
  <2>6. forgot'[s][v] >= forgot[s][v] /\ forgot[s][v] \in Nat /\ forgot'[s][v] \in Nat /\ wasted[s][v] \in Nat
    BY <1>1, <1>4 DEF Recalls
  <2>7. wasted'[s][v] + D <= 2 * (1 + forgot'[s][v])
    BY <1>5, <2>1, <2>4, <2>5, <2>6
  <2>8. CanFail(s, v)'
    BY <1>1 DEF CanFail
  <2>9. QED
    BY <2>7, <2>8 DEF Counted, D
<1>8. Apart(s, v)'
  <2>1. ~AtHand(s, v)
    BY <1>1, <1>6 DEF ReadInv, Tally, Apart
  <2>2. ~AtHand(s, v)'
    BY <2>1 DEF AtHand, Holds, supply, offered
  <2>3. QED
    BY <2>2 DEF Apart
<1>9. ASSUME NEW x \in Shops, NEW u \in Read PROVE Counted(x, u)' /\ Apart(x, u)'
  <2>1. CASE <<x, u>> = <<s, v>>
    BY <1>7, <1>8, <2>1
  <2>2. CASE <<x, u>> # <<s, v>>
    <3>1. wasted'[x][u] = wasted[x][u] /\ UNCHANGED <<source, former>>
      BY <1>5, <2>2 DEF supply
    <3>2. QED
      BY <1>2, <1>3, <1>4, <3>1, CountedOn, ApartOn
  <2>3. QED
    BY <2>1, <2>2
<1>10. Tally'
  BY <1>4, <1>5, <1>9 DEF Tally
<1>11. QED
  BY <1>2, <1>10 DEF ReadInv, Remembers

LEMMA ReadKeeps == ASSUME ReadInv, ClaimInv', NEW p \in Processes, ReadShop(p) PROVE ReadInv'
<1>1. PICK s \in Shops, v \in Read : s = proc[p].shop /\ v = proc[p].got[proc[p].shop]
  BY Decided DEF ReadShop, At
<1>2. /\ proc[p].at = "read" /\ v \in 1..source[s] /\ s = proc[p].shop /\ v = proc[p].got[s] /\ s \notin Free
      /\ UNCHANGED <<supply, offered, claim, days>>
  BY <1>1, Decided DEF ReadShop, At
<1>3. fails' = fails /\ checked' \in BOOLEAN /\ proc[p].at \in Costly /\ source' = source /\ checked' = checked
  BY <1>2, Known DEF days, supply, Costly
<1>4. ASSUME NEW k \in SUBSET {"structural", "transient"}
      PROVE  LET r == [proc[p] EXCEPT !.at = "release", !.bad = @ \cup k]
             IN RowGoes(p, r) /\ Tries(p, r) /\ ~Commits(r, s, v)
  <2> DEFINE q == proc[p]
             b == q.bad \cup k
             r == [q EXCEPT !.at = "release", !.bad = b]
  <2>1. q \in Proc /\ b \in SUBSET {"structural", "transient"}
    BY Known DEF Proc
  <2> HIDE DEF b
  <2>2. r \in Proc /\ r.at = "release" /\ r.shop = q.shop /\ r.got = q.got /\ r.plan = q.plan
    BY <2>1 DEF Proc
  <2> HIDE DEF r
  <2>3. RowGoes(p, r) /\ ~Commits(r, s, v)
    BY <1>2, <2>2, Known, Keeping DEF ShopFits, Commits
  <2>4. Tries(p, r)
    BY <1>3, <2>2, TriesOn
  <2>5. QED
    BY <2>3, <2>4 DEF r, b
<1> DEFINE over(k) == [proc[p] EXCEPT !.at = "release", !.bad = @ \cup k]
<1>5. ASSUME NEW k \in SUBSET {"structural", "transient"}, Sets(p, over(k)), Remembers, wasted' = wasted,
             UNCHANGED limits \/ Trouble
      PROVE  ReadInv'
  <2>1. RowGoes(p, over(k)) /\ Tries(p, over(k))
    BY <1>4
  <2> HIDE DEF over
  <2>2. QED
    BY <1>2, <1>3, <1>5, <2>1, StepsOn
<1>6. CASE Sets(p, over({"transient"})) /\ UNCHANGED <<memory, limits, ghosts>>
  <2>1. Remembers
    BY <1>3, <1>6, Quietly, Known DEF memory, ghosts
  <2>2. QED
    BY <1>5, <1>6, <2>1 DEF ghosts
<1>7. CASE /\ v \notin Unreadable /\ Writes(s, Fresh(v)) /\ Forgets(s, 0) /\ Sets(p, over({}))
           /\ UNCHANGED <<limits, wasted>>
  <2>1. ~CanFail(s, v)
    BY <1>7 DEF CanFail
  <2>2. Remembers
    BY <1>2, <1>3, <1>7, <2>1, Staging
  <2>3. RowGoes(p, over({})) /\ Tries(p, over({}))
    BY <1>4
  <2>4. Sets(p, over({})) /\ UNCHANGED <<supply, offered, wasted>>
    BY <1>2, <1>7
  <2> HIDE DEF over
  <2>5. QED
    BY <1>3, <1>7, <2>2, <2>3, <2>4, StepsOn
<1>8. CASE /\ v \in Unreadable /\ Writes(s, Failed(s, "structural", v)) /\ Sets(p, over({"structural"}))
           /\ wasted' = [wasted EXCEPT ![s][v] = @ + 1] /\ Forgets(s, v) /\ UNCHANGED limits
  <2> DEFINE row == Failed(s, "structural", v)
  <2>1. row \in Stage /\ StageFits(s, row) /\ staged[s] \in Stage
    BY StageRows
  <2>2. row.of = staged[s].of /\ row.ok = staged[s].ok /\ row.failed = "structural" /\ row.tried = v
    BY <2>1 DEF Stage, Failed
  <2> HIDE DEF row
  <2>3. Succeeds(s, row)
    BY <2>1, <2>2 DEF Succeeds, AtHand, Holds
  <2>4. Writes(s, row)
    BY <1>8 DEF row
  <2>5. Minds(s, row)
    BY <1>8, <2>2, Forgetting DEF Minds
  <2>6. Remembers
    BY <1>3, <1>8, <2>3, <2>4, <2>5, Writing
  <2>7. staged'[s] = row
    BY <2>4 DEF Writes, ReadInv, Memory
  <2>8. staged'[s].of = staged[s].of /\ staged'[s].ok = staged[s].ok /\ Remembered(s, v)'
    BY <2>2, <2>7 DEF Remembered
  <2>9. RowGoes(p, over({"structural"})) /\ Tries(p, over({"structural"})) /\ ~Commits(over({"structural"}), s, v)
    BY <1>4
  <2> HIDE DEF over
  <2>10. QED
    BY <1>2, <1>3, <1>8, <2>6, <2>8, <2>9, Wasting
<1>9. CASE /\ Trouble /\ Writes(s, Failed(s, "transient", v)) /\ Forgets(s, 0) /\ Sets(p, over({"transient"}))
           /\ UNCHANGED wasted
  <2> DEFINE row == Failed(s, "transient", v)
  <2>1. v \in 0..Versions /\ staged[s] \in Stage
    <3>1. v \in 0..Versions
      BY CollectionAssumption DEF Read
    <3>2. staged[s] \in Stage
      BY StageRows
    <3>3. QED
      BY <3>1, <3>2
  <2>2. row \in Stage /\ StageFits(s, row)
    BY <2>1, StageRows
  <2>3. row.of = staged[s].of /\ row.ok = staged[s].ok
    BY <2>1 DEF Stage, Failed
  <2> HIDE DEF row
  <2>4. Succeeds(s, row)
    BY <2>2, <2>3 DEF Succeeds, AtHand, Holds
  <2>5. Minds(s, row)
    BY <1>9, Forgetting DEF Minds, Read
  <2>6. Writes(s, row)
    BY <1>9 DEF row
  <2>7. Remembers
    BY <1>3, <1>9, <2>4, <2>5, <2>6, Writing
  <2>8. QED
    BY <1>5, <1>9, <2>7
<1>10. QED
  BY <1>1, <1>6, <1>7, <1>8, <1>9 DEF ReadShop

LEMMA ReleaseKeeps == ASSUME ReadInv, ClaimInv', NEW p \in Processes, Release(p) PROVE ReadInv'
<1> DEFINE s == proc[p].shop
           q == proc[p]
           r == [q EXCEPT !.at = "collect", !.got[s] = 0, !.shop = Nobody, !.lapsed = FALSE]
<1>1. /\ proc[p].at = "release" /\ s \in Shops /\ q \in Proc /\ Sets(p, r)
      /\ UNCHANGED <<memory, supply, offered, days, limits, ghosts>>
  BY Known DEF Release, At, ShopFits
<1>2. /\ r \in Proc /\ r.at = "collect" /\ r.plan = q.plan /\ r.got[s] = 0
      /\ \A x \in Shops : x # s => r.got[x] = q.got[x]
  <2> DEFINE m == [q EXCEPT !.got[s] = 0]
  <2>1. r = [m EXCEPT !.at = "collect", !.shop = Nobody, !.lapsed = FALSE]
    BY <1>1 DEF Proc
  <2>2. 0 \in 0..Versions
    BY CollectionAssumption
  <2>3. m \in Proc /\ m.plan = q.plan /\ m.got[s] = 0 /\ \A x \in Shops : x # s => m.got[x] = q.got[x]
    BY <1>1, <2>2, RowGot
  <2> HIDE DEF m
  <2>4. r \in Proc /\ r.at = "collect" /\ r.plan = m.plan /\ r.got = m.got
    BY <2>1, <2>3 DEF Proc
  <2>5. QED
    BY <2>3, <2>4
<1> HIDE DEF r
<1>3. RowGoes(p, r)
  BY <1>1, <1>2, Known, Keeping DEF ShopFits
<1>4. Tries(p, r)
  BY <1>1, <1>2, TriesOn DEF Costly, days
<1>5. Remembers
  BY <1>1, Quietly, Known DEF memory, ghosts, supply
<1>6. QED
  BY <1>1, <1>3, <1>4, <1>5, StepsOn, Known DEF days, ghosts

-----------------------------------------------------------------------------
(* The end of a run, the publisher                                           *)

(* A step that begins a process over, or leaves it without the work it did.  *)
LEMMA StartsOver ==
  ASSUME ReadInv, ClaimInv', NEW p \in Processes, NEW r \in Proc, r.got = None, Sets(p, r), Tries(p, r),
         r.at \notin {"free", "prepare", "decide", "read", "release"}, Remembers,
         UNCHANGED <<supply, offered, wasted>>, checked' \in BOOLEAN, UNCHANGED limits \/ Trouble
  PROVE  ReadInv'
<1>1. RowGoes(p, r)
  BY Known, Emptied
<1>2. QED
  BY <1>1, StepsOn

(* One more failure of the day, where the watchdog may count it.             *)
LEMMA Failing ==
  ASSUME ReadInv, NEW p \in Processes, proc[p].at \in Costly,
         fails' = fails \/ (proc[p].plan = "check" /\ fails' = fails + 1)
                        \/ (p = Watchdog /\ proc[p].plan # "daily" /\ fails' \in {0, fails + 1}),
         NEW r, r.at \notin Costly, r.plan # "check"
  PROVE  Tries(p, r)
<1>1. TryLeft(p, proc[p]) /\ fails \in 0..MaxTries /\ MaxTries \in Nat
  BY CollectionAssumption DEF ReadInv, Rows
<1>2. QED
  BY <1>1 DEF Tries, TryLeft

LEMMA Ending == ASSUME ReadInv, ClaimInv', NEW p \in Processes, Ended(p) PROVE ReadInv'
<1> DEFINE q == proc[p]
           rest == [q EXCEPT !.bad = {}, !.todo = {}, !.got = None, !.shop = Nobody]
           away(a) == [rest EXCEPT !.at = a]
<1>1. /\ q.at \in {"ended", "collect"} /\ q \in Proc
      /\ UNCHANGED <<staged, stopped, supply, offered, claim, checked, limits, ghosts>>
  BY Known DEF Ended, At
<1>2. ASSUME NEW a \in {"view", "ahead", "check"}
      PROVE  away(a) \in Proc /\ away(a).at = a /\ away(a).got = None /\ away(a).plan = q.plan
  <2>1. None \in [Shops -> 0..Versions]
    BY RowIdling DEF Shelf
  <2>2. QED
    BY <1>1, <2>1 DEF Proc
<1>3. checked' \in BOOLEAN /\ UNCHANGED <<source, forgot, wasted>> /\ stopped' \in BOOLEAN /\ q.at \in Costly
  BY <1>1, Known DEF supply, ghosts, Costly
<1>4. keyed' \in BOOLEAN
  BY Known DEF Ended, Named
<1>5. Remembers
  BY <1>1, <1>3, <1>4, Quietly
<1>6. ASSUME NEW r \in Proc, r.got = None, Sets(p, r), Tries(p, r), r.at \in {"idle", "view", "ahead", "check"}
      PROVE  ReadInv'
  BY <1>1, <1>3, <1>5, <1>6, StartsOver
<1>7. CASE q.plan = "check" /\ Sets(p, Idling) /\ fails' = IF Named THEN fails ELSE fails + 1
  <2>1. Tries(p, Idling)
    BY <1>3, <1>7, RowIdling, Failing DEF Costly
  <2>2. QED
    BY <1>6, <1>7, <2>1, RowIdling
<1>8. CASE q.plan = "check" /\ Sets(p, away("check")) /\ fails' = fails
  <2>1. /\ away("check") \in Proc /\ away("check").at = "check"
        /\ away("check").got = None /\ away("check").plan = q.plan
    BY <1>2
  <2>2. Sets(p, away("check"))
    BY <1>8
  <2> HIDE DEF away
  <2>3. Tries(p, away("check"))
    BY <1>3, <1>8, <2>1, TriesOn
  <2>4. QED
    BY <1>6, <2>1, <2>2, <2>3
<1>9. CASE fails' = fails /\ Sets(p, Idling)
  <2>1. Tries(p, Idling)
    BY <1>3, <1>9, RowIdling, Failing DEF Costly
  <2>2. QED
    BY <1>6, <1>9, <2>1, RowIdling
<1>10. ASSUME NEW a \in {"view", "ahead"}, Sets(p, away(a)), fails' = fails PROVE ReadInv'
  <2>1. away(a) \in Proc /\ away(a).at = a /\ away(a).got = None /\ away(a).plan = q.plan
    BY <1>2
  <2>2. Sets(p, away(a))
    BY <1>10
  <2> HIDE DEF away
  <2>3. Tries(p, away(a))
    BY <1>3, <1>10, <2>1, TriesOn
  <2>4. QED
    BY <1>6, <2>1, <2>2, <2>3
<1>11. CASE q.plan = "staged" /\ fails' = fails
            /\ Sets(p, IF q.bad = {} THEN away("view") ELSE Idling)
  BY <1>9, <1>10, <1>11
<1>12. CASE fails' = fails /\ Sets(p, [rest EXCEPT !.at = IF q.bad = {} THEN "view" ELSE "ahead"])
  <2>1. PICK a \in {"view", "ahead"} : a = IF q.bad = {} THEN "view" ELSE "ahead"
    OBVIOUS
  <2>2. Sets(p, away(a))
    BY <1>12, <2>1
  <2>3. QED
    BY <1>10, <1>12, <2>2
<1>13. QED
  BY <1>7, <1>8, <1>11, <1>12 DEF Ended

LEMMA Refusing == ASSUME ReadInv, ClaimInv', NEW p \in Processes, GivesUp(p) PROVE ReadInv'
<1>1. /\ proc[p].at \in Costly /\ Trouble /\ UNCHANGED <<memory, supply, offered, days, ghosts>>
  BY DEF GivesUp, Costly
<1>2. checked' \in BOOLEAN /\ UNCHANGED <<source, forgot, wasted, fails>>
  BY <1>1, Known DEF supply, ghosts, days
<1>3. Remembers
  BY <1>1, <1>2, Quietly, Known DEF memory
<1>4. \A a \in {"ahead", "check"} :
        [Idling EXCEPT !.at = a] \in Proc /\ [Idling EXCEPT !.at = a].at = a
        /\ [Idling EXCEPT !.at = a].got = None /\ [Idling EXCEPT !.at = a].plan = "none"
  <2>1. None \in [Shops -> 0..Versions]
    BY RowIdling DEF Shelf
  <2>2. QED
    BY <2>1 DEF Idling, Proc
<1>5. PICK r : /\ r = Idling \/ r = [Idling EXCEPT !.at = "ahead"] \/ r = [Idling EXCEPT !.at = "check"]
               /\ Sets(p, r)
  BY DEF GivesUp
<1>6. r \in Proc /\ r.at \in {"idle", "ahead", "check"} /\ r.got = None /\ r.plan = "none"
  BY <1>4, <1>5, RowIdling
<1>7. Tries(p, r)
  BY <1>1, <1>2, <1>6, Failing DEF Costly
<1>8. QED
  BY <1>1, <1>2, <1>3, <1>5, <1>6, <1>7, StartsOver

(* The publisher ends.                                                       *)
LEMMA Published ==
  ASSUME ReadInv, ClaimInv', NEW p \in Processes, proc[p].at \in Costly, Sets(p, After(p)),
         fails' = fails \/ (proc[p].plan = "check" /\ fails' = fails + 1)
                        \/ (p = Watchdog /\ proc[p].plan # "daily" /\ fails' \in {0, fails + 1}),
         UNCHANGED <<staged, keyed, supply, active, wasted, forgot, checked>>, stopped' \in BOOLEAN,
         receipt' = receipt \/ receipt' \in Shelf, UNCHANGED limits \/ Trouble
  PROVE  ReadInv'
<1>1. After(p) \in Proc /\ After(p).at \in {"idle", "ahead"} /\ After(p).got = None /\ After(p).plan = "none"
  BY RowAfter
<1>2. Tries(p, After(p))
  BY <1>1, Failing DEF Costly
<1>3. RowGoes(p, After(p))
  BY <1>1, Known, Emptied
<1>4. Remembers
  BY Quietly, Known DEF supply
<1>5. Rest' /\ Offers
  <2>1. runs' \in 0..MaxRuns /\ troubles' \in 0..MaxTroubles
    BY CollectionAssumption DEF ReadInv, Rest, limits, Trouble
  <2>2. QED
    BY <2>1 DEF ReadInv, Rest, supply, Offers, Shelf
<1>6. QED
  BY <1>2, <1>3, <1>4, <1>5, Proceeds DEF supply

LEMMA Unfitting ==
  ASSUME NEW p, Unfit(p), stopped \in BOOLEAN
  PROVE  /\ Sets(p, After(p)) /\ stopped' \in BOOLEAN
         /\ fails' = fails \/ (proc[p].plan = "check" /\ fails' = fails + 1)
  BY DEF Unfit, Named

LEMMA Viewing == ASSUME ReadInv, ClaimInv', NEW p \in Processes, View(p) PROVE ReadInv'
<1>1. /\ proc[p].at = "view" /\ proc[p].at \in Costly /\ stopped \in BOOLEAN
      /\ UNCHANGED <<staged, keyed, supply, offered, claim, checked, limits, ghosts>>
  BY Known DEF View, At, Costly
<1>2. UNCHANGED <<active, receipt, wasted, forgot, source>> /\ checked' \in BOOLEAN
  BY <1>1, Known DEF offered, ghosts, supply
<1>3. CASE Unfit(p)
  BY <1>1, <1>2, <1>3, Unfitting, Published
<1>4. CASE Sets(p, After(p)) /\ UNCHANGED <<stopped, fails>>
  BY <1>1, <1>2, <1>4, Published
<1>5. ASSUME NEW a \in {"write", "promote"}, NEW w \in Shelf, UNCHANGED <<stopped, fails>>,
             Sets(p, [proc[p] EXCEPT !.at = a, !.shows = w])
      PROVE  ReadInv'
  <2> DEFINE q == proc[p]
             r == [q EXCEPT !.at = a, !.shows = w]
  <2>1. r \in Proc /\ r.at = a /\ r.shop = q.shop /\ r.got = q.got /\ r.plan = q.plan
    BY <1>5, Known DEF Proc, Shelf
  <2>2. Sets(p, r)
    BY <1>5
  <2> HIDE DEF r
  <2>3. RowGoes(p, r)
    BY <1>1, <2>1, Known, Keeping DEF ShopFits
  <2>4. Tries(p, r)
    BY <1>1, <1>5, <2>1, TriesOn
  <2>5. Remembers
    BY <1>1, <1>2, <1>5, Quietly, Known
  <2>6. QED
    BY <1>1, <1>2, <2>2, <2>3, <2>4, <2>5, StepsOn
<1>6. active \in Shelf /\ [s \in Shops |-> staged[s].of] \in Shelf
  BY DEF ReadInv, Rest, Memory, Stage, Shelf
<1>7. \/ Unfit(p)
      \/ Sets(p, After(p)) /\ UNCHANGED <<stopped, fails>>
      \/ Sets(p, [proc[p] EXCEPT !.at = "write", !.shows = active]) /\ UNCHANGED <<stopped, fails>>
      \/ Sets(p, [proc[p] EXCEPT !.at = "promote", !.shows = [s \in Shops |-> staged[s].of]])
         /\ UNCHANGED <<stopped, fails>>
  BY DEF View
<1>8. QED
  BY <1>3, <1>4, <1>5, <1>6, <1>7

LEMMA Promoting == ASSUME ReadInv, ClaimInv', NEW p \in Processes, Promote(p) PROVE ReadInv'
<1>1. /\ proc[p].at = "promote" /\ proc[p].at \in Costly /\ stopped \in BOOLEAN
      /\ UNCHANGED <<staged, keyed, supply, receipt, claim, checked, limits, ghosts>>
  BY Known DEF Promote, At, Costly
<1>2. UNCHANGED <<wasted, forgot, source, former, receipt>> /\ checked' \in BOOLEAN
  BY <1>1, Known DEF ghosts, supply
<1>3. CASE Unfit(p) /\ UNCHANGED active
  BY <1>1, <1>2, <1>3, Unfitting, Published
<1>4. CASE /\ Ready /\ active' = [s \in Shops |-> staged[s].of] /\ Moves(p, "write")
           /\ UNCHANGED <<stopped, fails>>
  <2> DEFINE q == proc[p]
             r == [q EXCEPT !.at = "write"]
  <2>1. r \in Proc /\ r.at = "write" /\ r.shop = q.shop /\ r.got = q.got /\ r.plan = q.plan
    BY Known DEF Proc
  <2>2. Sets(p, r)
    BY <1>4 DEF Moves, Sets
  <2> HIDE DEF r
  <2>3. RowGoes(p, r)
    BY <1>1, <2>1, Known, Keeping DEF ShopFits
  <2>4. Tries(p, r)
    BY <1>1, <1>4, <2>1, TriesOn
  <2>5. Remembers
    BY <1>1, <1>2, <1>4, Quietly, Known
  <2>6. ASSUME NEW s \in Shops
        PROVE  active'[s] = staged[s].of /\ active'[s] \in 1..source[s] /\ Holds(s, active'[s])
    BY <1>4 DEF Ready, Holds, ReadInv, Memory, StageFits
  <2>7. Offers
    BY <2>6 DEF Offers
  <2>8. Rest'
    <3>1. active' \in [Shops -> 0..Versions]
      BY <1>4 DEF ReadInv, Memory, Stage
    <3>2. ASSUME NEW s \in Shops
          PROVE  active'[s] <= source'[s] /\ (former'[s] = source'[s] => active'[s] = former'[s])
      <4>1. source[s] \in 1..Versions /\ former[s] \in 0..1 /\ Versions \in Nat
        BY Known, CollectionAssumption DEF ReadInv, Rest, Read
      <4>2. QED
        BY <1>2, <2>6, <4>1
    <3>3. QED
      BY <1>1, <1>2, <3>1, <3>2 DEF ReadInv, Rest, supply, limits
  <2>9. QED
    BY <1>2, <2>2, <2>3, <2>4, <2>5, <2>7, <2>8, Proceeds
<1>5. QED
  BY <1>3, <1>4 DEF Promote

LEMMA WriteKeeps == ASSUME ReadInv, ClaimInv', NEW p \in Processes, Write(p) PROVE ReadInv'
<1>1. /\ proc[p].at = "write" /\ proc[p].at \in Costly /\ stopped \in BOOLEAN /\ receipt' = proc[p].shows
      /\ UNCHANGED <<memory, supply, active, claim, checked, limits, ghosts>> /\ Sets(p, After(p))
  BY Known DEF Write, At, Costly
<1>2. proc[p].shows \in Shelf
  BY Known, RowFields
<1>3. fails' = fails \/ (p = Watchdog /\ proc[p].plan # "daily" /\ fails' \in {0, fails + 1})
  BY DEF Write
<1>4. UNCHANGED <<staged, keyed, wasted, forgot>> /\ stopped' \in BOOLEAN
  BY <1>1 DEF memory, ghosts
<1>5. QED
  BY <1>1, <1>2, <1>3, <1>4, Published

LEMMA WritingFails == ASSUME ReadInv, ClaimInv', NEW p \in Processes, WriteFails(p) PROVE ReadInv'
<1>1. /\ proc[p].at \in Costly /\ stopped \in BOOLEAN /\ Trouble
      /\ UNCHANGED <<memory, supply, offered, claim, checked, ghosts>> /\ Sets(p, After(p))
  BY Known DEF WriteFails, Costly
<1>2. fails' = fails \/ (p = Watchdog /\ proc[p].plan # "daily" /\ fails' \in {0, fails + 1})
  BY DEF WriteFails
<1>3. UNCHANGED <<staged, keyed, wasted, forgot, active, receipt>> /\ stopped' \in BOOLEAN
  BY <1>1 DEF memory, ghosts, offered
<1>4. QED
  BY <1>1, <1>2, <1>3, Published

-----------------------------------------------------------------------------
(* The watchdog, and what goes on beside it                                  *)

LEMMA Waking == ASSUME ReadInv, ClaimInv', Wakes PROVE ReadInv'
<1> DEFINE r == [proc[Watchdog] EXCEPT !.at = "look"]
<1>1. Watchdog \in Processes /\ Sets(Watchdog, r) /\ proc[Watchdog].at = "idle"
      /\ UNCHANGED <<memory, supply, offered, claim, days, limits, ghosts>>
  BY DEF Wakes, Moves, Sets, Processes, At
<1>2. r \in Proc /\ r.at = "look" /\ r.got = proc[Watchdog].got
  BY <1>1, Known DEF Proc
<1> HIDE DEF r
<1>3. RowGoes(Watchdog, r)
  BY <1>1, <1>2, Known, Keeping DEF ShopFits
<1>4. Tries(Watchdog, r)
  BY <1>1, <1>2, Known DEF Tries, Costly, days
<1>5. Remembers
  BY <1>1, Quietly, Known DEF memory, ghosts, supply
<1>6. QED
  BY <1>1, <1>3, <1>4, <1>5, StepsOn, Known DEF days, ghosts

LEMMA Basics ==
  ASSUME ReadInv
  PROVE  /\ source \in [Shops -> Read] /\ fails \in 0..MaxTries /\ checked \in BOOLEAN /\ Rows
         /\ keyed \in BOOLEAN /\ stopped \in BOOLEAN /\ Watchdog \in Processes /\ Free \subseteq Shops
         /\ None \in [Shops -> 0..Versions] /\ (\A s \in Shops : source[s] \in 1..source[s])
<1>1. Watchdog \in Processes /\ Free \subseteq Shops /\ None \in [Shops -> 0..Versions]
  BY RowIdling, CollectionAssumption DEF Processes, Shelf
<1>2. source \in [Shops -> 1..Versions]
  BY DEF ReadInv, ClaimInv, Read
<1>3. \A s \in Shops : source[s] \in 1..source[s]
  BY <1>2, CollectionAssumption
<1>4. QED
  BY <1>1, <1>3 DEF ReadInv, ClaimInv, Rows, Rest, Memory

(* The watchdog turns to something else, with a try left if it may need one. *)
LEMMA WatchdogTurns ==
  ASSUME ReadInv, ClaimInv', NEW r \in Proc, r.got = None, Sets(Watchdog, r),
         r.at \in {"idle", "gate", "check", "visit", "view", "ahead", "daily"},
         fails' \in {0, fails}, r.at \in {"visit", "view"} => r.plan = "daily" \/ fails' < MaxTries,
         Remembers, UNCHANGED <<supply, offered, wasted, limits>>, checked' \in BOOLEAN
  PROVE  ReadInv'
<1>1. Watchdog \in Processes /\ fails \in 0..MaxTries /\ MaxTries \in Nat
  BY Basics, CollectionAssumption
<1>2. Tries(Watchdog, r)
  BY <1>1 DEF Tries, Costly
<1>3. QED
  BY <1>1, <1>2, StartsOver

LEMMA Looking == ASSUME ReadInv, ClaimInv', Look PROVE ReadInv'
<1>1. /\ proc[Watchdog].at = "look" /\ Watchdog \in Processes
      /\ UNCHANGED <<supply, offered, claim, days, ghosts>>
  BY DEF Look, At, Processes
<1>2. checked' \in BOOLEAN /\ UNCHANGED <<source, forgot, wasted, fails>> /\ fails \in 0..MaxTries
  BY <1>1, Basics DEF supply, ghosts, days
<1>3. ASSUME NEW s \in Free, Writes(s, Fresh(source[s])) PROVE Remembers
  <2>1. s \in Shops /\ source[s] \in 1..source[s]
    BY Basics
  <2>2. QED
    BY <1>2, <1>3, <2>1, StageRows, WritingFree
<1>4. ASSUME UNCHANGED memory PROVE Remembers
  BY <1>2, <1>4, Quietly, Basics DEF memory
<1>5. CASE Sets(Watchdog, [Idling EXCEPT !.at = "check", !.plan = "check"]) /\ UNCHANGED <<memory, limits>>
  <2> DEFINE r == [Idling EXCEPT !.at = "check", !.plan = "check"]
  <2>1. r \in Proc /\ r.at = "check" /\ r.got = None /\ r.plan = "check"
    BY Basics DEF Idling, Proc
  <2>2. Sets(Watchdog, r)
    BY <1>5
  <2> HIDE DEF r
  <2>3. QED
    BY <1>1, <1>2, <1>4, <1>5, <2>1, <2>2, WatchdogTurns
<1>6. ASSUME Moves(Watchdog, "gate"), Remembers, UNCHANGED limits \/ Trouble PROVE ReadInv'
  <2> DEFINE r == [proc[Watchdog] EXCEPT !.at = "gate"]
  <2>1. r \in Proc /\ r.at = "gate" /\ r.got = proc[Watchdog].got
    BY <1>1, Known DEF Proc
  <2>2. Sets(Watchdog, r)
    BY <1>6 DEF Moves, Sets
  <2> HIDE DEF r
  <2>3. RowGoes(Watchdog, r)
    BY <1>1, <2>1, Known, Keeping DEF ShopFits
  <2>4. Tries(Watchdog, r)
    BY <1>2, <2>1 DEF Tries, Costly
  <2>5. QED
    BY <1>1, <1>2, <1>6, <2>2, <2>3, <2>4, StepsOn
<1>7. QED
  BY <1>3, <1>4, <1>5, <1>6 DEF Look

LEMMA Gating == ASSUME ReadInv, ClaimInv', Gate PROVE ReadInv'
<1>1. UNCHANGED <<memory, supply, offered, claim, days, limits, ghosts>>
  BY DEF Gate
<1>2. checked' \in BOOLEAN /\ UNCHANGED <<source, forgot, wasted, fails>>
  BY <1>1, Basics DEF supply, ghosts, days
<1>3. Remembers
  BY <1>1, <1>2, Quietly, Basics DEF memory
<1>4. CASE Sets(Watchdog, [Idling EXCEPT !.at = "check", !.plan = "check"])
  <2> DEFINE r == [Idling EXCEPT !.at = "check", !.plan = "check"]
  <2>1. r \in Proc /\ r.at = "check" /\ r.got = None /\ r.plan = "check"
    BY Basics DEF Idling, Proc
  <2>2. Sets(Watchdog, r)
    BY <1>4
  <2> HIDE DEF r
  <2>3. QED
    BY <1>1, <1>2, <1>3, <2>1, <2>2, WatchdogTurns
<1>5. CASE Sets(Watchdog, Idling)
  <2>1. Tries(Watchdog, Idling) /\ Watchdog \in Processes
    BY <1>2, Basics, RowIdling DEF Tries, Costly, Processes
  <2>2. QED
    BY <1>1, <1>2, <1>3, <1>5, <2>1, RowIdling, StartsOver
<1>6. CASE fails < MaxTries /\ Sets(Watchdog, [Idling EXCEPT !.at = "visit", !.todo = Missing, !.plan = "check"])
  <2> DEFINE r == [Idling EXCEPT !.at = "visit", !.todo = Missing, !.plan = "check"]
  <2>1. Missing \in SUBSET Shops
    BY DEF Missing
  <2>2. r \in Proc /\ r.at = "visit" /\ r.got = None /\ r.plan = "check"
    BY <2>1, Basics DEF Idling, Proc
  <2>3. Sets(Watchdog, r)
    BY <1>6
  <2> HIDE DEF r
  <2>4. QED
    BY <1>1, <1>2, <1>3, <1>6, <2>2, <2>3, WatchdogTurns
<1>7. QED
  BY <1>4, <1>5, <1>6 DEF Gate

LEMMA Checking == ASSUME ReadInv, ClaimInv', Check PROVE ReadInv'
<1>1. UNCHANGED <<staged, keyed, supply, offered, claim, checked, limits, ghosts>>
  BY DEF Check
<1>2. checked' \in BOOLEAN /\ UNCHANGED <<source, forgot, wasted>> /\ stopped' \in BOOLEAN
  BY <1>1, Basics DEF supply, ghosts, Check
<1>3. Remembers
  BY <1>1, <1>2, Quietly, Basics
<1>4. CASE fails' = 0 /\ Sets(Watchdog, [Idling EXCEPT !.at = IF checked THEN "ahead" ELSE "daily"])
  <2>1. PICK a \in {"ahead", "daily"} : a = IF checked THEN "ahead" ELSE "daily"
    OBVIOUS
  <2> DEFINE r == [Idling EXCEPT !.at = a]
  <2>2. r \in Proc /\ r.at = a /\ r.got = None
    BY Basics DEF Idling, Proc
  <2>3. Sets(Watchdog, r)
    BY <1>4, <2>1
  <2> HIDE DEF r
  <2>4. QED
    BY <1>1, <1>2, <1>3, <1>4, <2>2, <2>3, WatchdogTurns
<1>5. CASE fails' = fails /\ Sets(Watchdog, Idling)
  <2>1. Tries(Watchdog, Idling) /\ Watchdog \in Processes
    BY <1>5, Basics, RowIdling DEF Tries, Costly, Processes
  <2>2. QED
    BY <1>1, <1>2, <1>3, <1>5, <2>1, RowIdling, StartsOver
<1>6. CASE /\ fails < MaxTries /\ fails' = fails
           /\ Sets(Watchdog, [Idling EXCEPT !.at = "view", !.plan = IF Complete THEN "active" ELSE "check"])
  <2>1. PICK n \in {"active", "check"} : n = IF Complete THEN "active" ELSE "check"
    OBVIOUS
  <2> DEFINE r == [Idling EXCEPT !.at = "view", !.plan = n]
  <2>2. r \in Proc /\ r.at = "view" /\ r.got = None
    BY Basics DEF Idling, Proc
  <2>3. Sets(Watchdog, r)
    BY <1>6, <2>1
  <2> HIDE DEF r
  <2>4. QED
    BY <1>1, <1>2, <1>3, <1>6, <2>2, <2>3, WatchdogTurns
<1>7. QED
  BY <1>4, <1>5, <1>6 DEF Check

LEMMA Refreshing == ASSUME ReadInv, ClaimInv', Daily PROVE ReadInv'
<1> DEFINE new(s) == source[s] # active[s]
<1>1. UNCHANGED <<supply, offered, claim, fails, limits, ghosts>> /\ checked' \in BOOLEAN
      /\ staged' = [s \in Shops |-> IF s \in Free /\ new(s) THEN Fresh(source[s]) ELSE staged[s]]
  BY DEF Daily
<1>2. UNCHANGED <<source, forgot, wasted>> /\ keyed' \in BOOLEAN /\ stopped' \in BOOLEAN
  BY <1>1, Basics DEF supply, ghosts, Daily
<1>3. ASSUME NEW s \in Shops
      PROVE  staged'[s] \in Stage /\ StageFits(s, staged'[s]) /\ (s \notin Free => staged'[s] = staged[s])
  <2>1. source[s] \in 1..source[s]
    BY Basics
  <2>2. Fresh(source[s]) \in Stage /\ StageFits(s, Fresh(source[s])) /\ staged[s] \in Stage /\ StageFits(s, staged[s])
    BY <2>1, StageRows
  <2>3. (staged'[s] = Fresh(source[s]) /\ s \in Free) \/ staged'[s] = staged[s]
    BY <1>1
  <2>4. QED
    BY <2>2, <2>3
<1>4. Memory'
  <2>1. staged' \in [Shops -> Stage]
    BY <1>1, <1>3
  <2>2. QED
    BY <1>2, <1>3, <2>1 DEF Memory, StageFits
<1>5. Remembers
  <2>1. ASSUME NEW s \in Shops, NEW v \in Read PROVE Recalls(s, v)
    <3>1. forgot[s][v] \in Nat
      BY DEF ReadInv, Tally
    <3>2. CanFail(s, v) => staged'[s] = staged[s]
      BY <1>3 DEF CanFail
    <3>3. QED
      BY <1>2, <3>1, <3>2 DEF Recalls, Remembered, Holds, AtHand
  <2>2. QED
    BY <1>2, <1>4, <2>1 DEF Remembers, ReadInv, Tally
<1>6. CASE Sets(Watchdog, [Idling EXCEPT !.at = "visit", !.todo = {s \in Shops \ Free : new(s)}, !.plan = "daily"])
  <2> DEFINE t == {s \in Shops \ Free : new(s)}
             r == [Idling EXCEPT !.at = "visit", !.todo = t, !.plan = "daily"]
  <2>1. t \in SUBSET Shops
    OBVIOUS
  <2>2. Sets(Watchdog, r)
    BY <1>6
  <2> HIDE DEF t
  <2>3. r \in Proc /\ r.at = "visit" /\ r.got = None /\ r.plan = "daily"
    BY <2>1, Basics DEF Idling, Proc
  <2> HIDE DEF r
  <2>4. QED
    BY <1>1, <1>2, <1>5, <2>2, <2>3, WatchdogTurns
<1>7. CASE Sets(Watchdog, [Idling EXCEPT !.at = IF \E s \in Free : new(s) THEN "view" ELSE "ahead", !.plan = "daily"])
  <2>1. PICK a \in {"view", "ahead"} : a = IF \E s \in Free : new(s) THEN "view" ELSE "ahead"
    OBVIOUS
  <2> DEFINE r == [Idling EXCEPT !.at = a, !.plan = "daily"]
  <2>2. r \in Proc /\ r.at = a /\ r.got = None /\ r.plan = "daily"
    BY Basics DEF Idling, Proc
  <2>3. Sets(Watchdog, r)
    BY <1>7, <2>1
  <2> HIDE DEF r
  <2>4. QED
    BY <1>1, <1>2, <1>5, <2>2, <2>3, WatchdogTurns
<1>8. QED
  BY <1>6, <1>7 DEF Daily

LEMMA Prefetching == ASSUME ReadInv, ClaimInv', Prefetch PROVE ReadInv'
<1>1. /\ Sets(Watchdog, Idling) /\ Watchdog \in Processes
      /\ UNCHANGED <<memory, source, former, offered, claim, days, limits, ghosts>>
  BY DEF Prefetch, Processes
<1>2. UNCHANGED <<source, former, forgot, wasted, fails, active, receipt, checked, runs, troubles>>
  BY <1>1 DEF ghosts, days, offered, limits
<1>3. Remembers
  BY <1>1, <1>2, Quietly, Basics DEF memory
<1>4. Tries(Watchdog, Idling) /\ RowGoes(Watchdog, Idling)
  <2>1. Tries(Watchdog, Idling)
    BY <1>2, Basics, RowIdling DEF Tries, Costly
  <2>2. QED
    BY <1>1, <2>1, Basics, RowIdling, Emptied
<1>5. ahead' \subseteq Shops \X (Read \ Unreadable) /\ tries' \in [Shops -> [Read -> 0..MaxAhead]]
  <2>1. ahead \subseteq Shops \X (Read \ Unreadable) /\ tries \in [Shops -> [Read -> 0..MaxAhead]]
    BY DEF ReadInv, Rest
  <2>2. CASE UNCHANGED <<ahead, tries>>
    BY <2>1, <2>2
  <2>3. ASSUME NEW s \in Shops \ Free, NEW v, v = source[s] + 1, v <= Versions, tries[s][v] < MaxAhead,
               tries' = [tries EXCEPT ![s][v] = @ + 1],
               ahead' \in {ahead, IF v \in Unreadable \cup Malformed THEN ahead ELSE ahead \cup {<<s, v>>}}
        PROVE  ahead' \subseteq Shops \X (Read \ Unreadable) /\ tries' \in [Shops -> [Read -> 0..MaxAhead]]
    <3>1. v \in Read
      BY <2>3, Basics, CollectionAssumption DEF Read
    <3>2. tries[s][v] + 1 \in 0..MaxAhead
      BY <2>1, <2>3, <3>1, CollectionAssumption
    <3>3. tries' \in [Shops -> [Read -> 0..MaxAhead]]
      BY <2>1, <2>3, <3>1, <3>2
    <3>4. ahead' \subseteq Shops \X (Read \ Unreadable)
      BY <2>1, <2>3, <3>1
    <3>5. QED
      BY <3>3, <3>4
  <2>4. QED
    BY <2>2, <2>3 DEF Prefetch
<1>6. Rest' /\ Offers
  BY <1>2, <1>5 DEF ReadInv, Rest, Offers
<1>7. QED
  BY <1>1, <1>2, <1>3, <1>4, <1>6, Proceeds

LEMMA DeployKeeps == ASSUME ReadInv, ClaimInv', Deploys PROVE ReadInv'
<1>1. /\ Deploy \in Processes /\ Deploy # Watchdog /\ keyed' \in BOOLEAN /\ stopped' \in BOOLEAN
      /\ runs < MaxRuns /\ runs' = runs + 1 /\ UNCHANGED troubles
      /\ UNCHANGED <<staged, supply, offered, claim, days, ghosts>>
  BY CollectionAssumption DEF Deploys, Processes
<1>2. UNCHANGED <<source, former, forgot, wasted, fails, checked>>
  BY <1>1 DEF ghosts, days, supply
<1>3. PICK r \in Proc : Sets(Deploy, r) /\ r.at \in {"view", "visit"} /\ r.got = None /\ r.plan \in {"active", "staged"}
  <2>1. None \in [Shops -> 0..Versions]
    BY RowIdling DEF Shelf
  <2> DEFINE a == [Idling EXCEPT !.at = "view", !.plan = "active"]
             b == [Idling EXCEPT !.at = "visit", !.todo = Shops, !.plan = "staged"]
  <2>2. a \in Proc /\ a.at = "view" /\ a.got = None /\ a.plan = "active"
    BY <2>1 DEF Idling, Proc
  <2>3. b \in Proc /\ b.at = "visit" /\ b.got = None /\ b.plan = "staged"
    BY <2>1 DEF Idling, Proc
  <2>4. Sets(Deploy, a) \/ Sets(Deploy, b)
    BY DEF Deploys
  <2> HIDE DEF a, b
  <2>5. QED
    BY <2>2, <2>3, <2>4
<1>4. RowGoes(Deploy, r) /\ Tries(Deploy, r)
  BY <1>1, <1>2, <1>3, Known, Emptied DEF Tries
<1>5. Remembers
  BY <1>1, <1>2, Quietly
<1>6. Rest' /\ Offers
  <2>1. runs' \in 0..MaxRuns
    BY <1>1, CollectionAssumption DEF ReadInv, Rest
  <2>2. QED
    BY <1>1, <1>2, <2>1 DEF ReadInv, Rest, supply, offered, Offers
<1>7. QED
  BY <1>1, <1>2, <1>3, <1>4, <1>5, <1>6, Proceeds

LEMMA KillKeeps == ASSUME ReadInv, ClaimInv', NEW p \in Processes, Killed(p) PROVE ReadInv'
<1>1. Trouble /\ Sets(p, Idling) /\ UNCHANGED <<memory, supply, offered, days, ghosts>>
  BY DEF Killed
<1>2. checked' \in BOOLEAN /\ UNCHANGED <<source, forgot, wasted, fails>>
  BY <1>1, Known DEF supply, ghosts, days
<1>3. Remembers
  BY <1>1, <1>2, Quietly, Known DEF memory
<1>4. Tries(p, Idling)
  BY <1>2, Known, RowIdling DEF Tries, Costly
<1>5. QED
  BY <1>1, <1>2, <1>3, <1>4, RowIdling, StartsOver

(* No process moves.                                                         *)
LEMMA Standing ==
  ASSUME ReadInv, ClaimInv', UNCHANGED <<proc, staged, supply, offered, ghosts, limits>>, fails' \in {0, fails},
         keyed' \in BOOLEAN, stopped' \in BOOLEAN, checked' \in BOOLEAN
  PROVE  ReadInv'
<1>1. UNCHANGED <<source, former, forgot, wasted>>
  BY DEF ghosts, supply
<1>2. Remembers
  BY <1>1, Quietly
<1>3. Rest' /\ Offers
  BY RestOn DEF ReadInv
<1>4. Rows'
  <2>1. fails \in 0..MaxTries /\ MaxTries \in Nat
    BY CollectionAssumption DEF ReadInv, Rows
  <2>2. fails' \in 0..MaxTries /\ (fails < MaxTries => fails' < MaxTries)
    BY <2>1
  <2>3. ASSUME NEW p \in Processes PROVE TryLeft(p, proc[p])' /\ GotFits(proc[p])' /\ ShopFits(proc[p])'
    BY <1>1, <2>2 DEF ReadInv, Rows, TryLeft, GotFits, ShopFits
  <2>4. QED
    BY <2>2, <2>3 DEF ReadInv, Rows
<1>5. \A s \in Shops, v \in Read : Holders(s, v)' \subseteq Holders(s, v)
  BY DEF Holders
<1>6. Tally'
  BY <1>1, <1>2, <1>3, <1>5, TallyOn
<1>7. QED
  BY <1>2, <1>3, <1>4, <1>6 DEF ReadInv, Remembers

LEMMA LeaseKeeps == ASSUME ReadInv, ClaimInv', NEW s \in Shops, LeaseEnds(s) PROVE ReadInv'
<1>1. UNCHANGED <<memory, supply, offered, days, ghosts>> /\ claim[s] # Nobody
  BY DEF LeaseEnds
<1>2. UNCHANGED <<source, forgot, wasted, fails, staged, keyed, stopped, checked>> /\ checked \in BOOLEAN
  BY <1>1, Basics DEF supply, ghosts, days, memory
<1>3. CASE UNCHANGED <<proc, limits>>
  BY <1>1, <1>2, <1>3, Basics, Standing
<1>4. CASE claim[s].owner # Nobody /\ Trouble /\ proc' = [proc EXCEPT ![claim[s].owner].lapsed = TRUE]
  <2>1. PICK o \in Processes : o = claim[s].owner
    BY <1>1, <1>4 DEF ReadInv, ClaimInv, ClaimsShaped, Claim
  <2> DEFINE r == [proc[o] EXCEPT !.lapsed = TRUE]
  <2>2. r \in Proc /\ r.at = proc[o].at /\ r.shop = proc[o].shop /\ r.plan = proc[o].plan /\ r.got = proc[o].got
    BY Known DEF Proc
  <2>3. Sets(o, r)
    BY <1>4, <2>1 DEF Sets
  <2> HIDE DEF r
  <2>4. RowGoes(o, r)
    BY <2>2, Known, Keeping DEF ShopFits
  <2>5. Tries(o, r)
    BY <1>2, <2>2 DEF Tries, TryLeft, ReadInv, Rows
  <2>6. Remembers
    BY <1>2, Quietly, Basics
  <2>7. QED
    BY <1>1, <1>2, <1>4, <2>3, <2>4, <2>5, <2>6, StepsOn
<1>5. QED
  BY <1>3, <1>4 DEF LeaseEnds

(* Last week's leaflet does not come again: a shop that shows another has    *)
(* left the first one for good.                                              *)
LEMMA Turning == ASSUME ReadInv, ClaimInv', NEW s \in Shops, NewLeaflet(s) PROVE ReadInv'
<1>1. /\ source' = [source EXCEPT ![s] = @ + 1]
      /\ UNCHANGED <<memory, former, offered, claim, ahead, tries, proc, days, limits, ghosts>>
  BY DEF NewLeaflet
<1>2. UNCHANGED <<staged, keyed, stopped, active, receipt, fails, checked, runs, troubles, wasted, forgot>>
  BY <1>1 DEF memory, offered, days, limits, ghosts
<1>3. ASSUME NEW x \in Shops
      PROVE  /\ source[x] \in Nat /\ source[x] >= 1 /\ source'[x] \in Nat /\ source'[x] >= source[x]
             /\ former[x] = source'[x] => former[x] = source[x]
  <2>1. source \in [Shops -> 1..Versions] /\ former[x] \in 0..1
    BY Basics DEF Read, ReadInv, Rest
  <2>2. source'[x] = source[x] \/ source'[x] = source[x] + 1
    BY <1>1, <2>1
  <2>3. QED
    BY <2>1, <2>2, CollectionAssumption
<1>4. Rest'
  <2>1. ASSUME NEW x \in Shops PROVE active[x] <= source'[x] /\ (former[x] = source'[x] => active[x] = former[x])
    <3>1. active[x] <= source[x] /\ active[x] \in 0..Versions /\ (former[x] = source[x] => active[x] = former[x])
      BY DEF ReadInv, Rest
    <3>2. QED
      BY <1>3, <3>1, CollectionAssumption
  <2>2. QED
    BY <1>1, <1>2, <2>1 DEF ReadInv, Rest
<1>5. Rows'
  <2>1. ASSUME NEW p \in Processes PROVE GotFits(proc[p])' /\ ShopFits(proc[p])' /\ TryLeft(p, proc[p])'
    <3>1. ASSUME NEW x \in Shops PROVE proc[p].got[x] <= source'[x] /\ (x \in Free => proc[p].got[x] = 0)
      <4>1. proc[p].got[x] \in 0..Versions /\ proc[p].got[x] <= source[x] /\ (x \in Free => proc[p].got[x] = 0)
        BY Known DEF GotFits, Proc
      <4>2. QED
        BY <1>3, <4>1, CollectionAssumption
    <3>2. QED
      BY <1>1, <1>2, <3>1 DEF ReadInv, Rows, GotFits, ShopFits, TryLeft
  <2>2. QED
    BY <1>1, <1>2, <2>1 DEF ReadInv, Rows
<1>6. Memory'
  <2>1. ASSUME NEW x \in Shops PROVE StageFits(x, staged[x])'
    <3>1. StageFits(x, staged[x]) /\ staged[x] \in Stage
      BY DEF ReadInv, Memory
    <3>2. staged[x].ok => staged[x].of \in 1..source'[x]
      <4>1. source'[x] \in Nat
        BY Known DEF ClaimInv, Read
      <4>2. QED
        BY <1>3, <3>1, <4>1 DEF StageFits
    <3>3. QED
      BY <1>2, <3>1, <3>2 DEF StageFits
  <2>2. QED
    BY <1>2, <2>1 DEF ReadInv, Memory
<1>7. ASSUME NEW x \in Shops, NEW v \in Read PROVE Counted(x, v)' /\ Apart(x, v)'
  <2>1. Counted(x, v) /\ Apart(x, v)
    BY DEF ReadInv, Tally
  <2>2. Holders(x, v)' = Holders(x, v)
    BY <1>1 DEF Holders
  <2>3. Counted(x, v)'
    BY <1>2, <2>1, <2>2 DEF Counted, CanFail, Remembered
  <2>4. AtHand(x, v)' => AtHand(x, v)
    BY <1>1, <1>2, <1>3 DEF AtHand, Holds
  <2>5. QED
    BY <1>2, <2>1, <2>2, <2>3, <2>4 DEF Apart, CanFail
<1>8. Tally'
  BY <1>2, <1>7 DEF ReadInv, Tally
<1>9. QED
  BY <1>4, <1>5, <1>6, <1>8 DEF ReadInv

-----------------------------------------------------------------------------
(* The theorems on failures                                                  *)

LEMMA ReadAtFirst == CollectionInit => ReadInv
<1> SUFFICES ASSUME CollectionInit PROVE ReadInv
  OBVIOUS
<1>1. /\ source = [s \in Shops |-> 1] /\ staged = [s \in Shops |-> Unstaged] /\ former \in [Shops -> 0..1]
      /\ active = former /\ ahead = {} /\ receipt = Nobody /\ proc = [p \in Processes |-> Idling]
      /\ fails = 0 /\ keyed = FALSE /\ stopped = FALSE /\ checked = FALSE /\ runs = 0 /\ troubles = 0
      /\ tries = [s \in Shops |-> [v \in Read |-> 0]]
      /\ wasted = [s \in Shops |-> [v \in Read |-> 0]] /\ forgot = wasted
  BY DEF CollectionInit
<1>2. /\ 0 \in 0..MaxTries /\ 0 \in 0..MaxAhead /\ 0 \in 0..MaxRuns /\ 0 \in 0..MaxTroubles
      /\ 0 \in 0..Versions /\ 1 \in 0..Versions /\ 0 \notin Read /\ Watchdog # Deploy
  BY CollectionAssumption DEF Read
<1>3. Rest
  <2>1. ASSUME NEW s \in Shops PROVE active[s] <= source[s] /\ active[s] \in 0..Versions
    BY <1>1, <1>2
  <2>2. active \in [Shops -> 0..Versions]
    BY <1>1, <2>1
  <2>3. QED
    BY <1>1, <1>2, <2>1, <2>2 DEF Rest
<1>4. Rows
  <2>1. /\ Idling \in Proc /\ Idling.at = "idle" /\ Idling.plan = "none" /\ \A s \in Shops : Idling.got[s] = 0
    BY RowIdling
  <2>2. ASSUME NEW p \in Processes PROVE GotFits(proc[p]) /\ ShopFits(proc[p]) /\ TryLeft(p, proc[p])
    BY <1>1, <2>1 DEF GotFits, ShopFits, TryLeft, Costly
  <2>3. QED
    BY <1>1, <1>2, <2>1, <2>2 DEF Rows
<1>5. Memory
  <2>1. Unstaged \in Stage
    BY <1>2 DEF Unstaged, Stage
  <2>2. QED
    BY <1>1, <2>1 DEF Memory, StageFits, Unstaged
<1>6. ASSUME NEW s \in Shops, NEW v \in Read PROVE Counted(s, v) /\ Apart(s, v)
  <2>1. wasted[s][v] = 0 /\ forgot[s][v] = 0
    BY <1>1
  <2>2. Holders(s, v) = {}
    BY <1>1, <1>2, RowIdling DEF Holders, Commits
  <2>3. Cardinality(Holders(s, v)) = 0
    BY <2>2, FS_EmptySet
  <2>4. QED
    BY <2>1, <2>2, <2>3 DEF Counted, Apart
<1>7. Tally
  BY <1>1, <1>6 DEF Tally
<1>8. QED
  BY <1>3, <1>4, <1>5, <1>7, ClaimsAtFirst DEF ReadInv

LEMMA ReadOn == ReadInv /\ [CollectionNext]_collectionVars => ReadInv'
<1> SUFFICES ASSUME ReadInv, [CollectionNext]_collectionVars PROVE ReadInv'
  OBVIOUS
<1>1. ClaimInv'
  BY ClaimsOn DEF ReadInv
<1>2. ASSUME NEW p \in Processes, Works(p) PROVE ReadInv'
  <2>1. CASE \E s \in Shops : Visit(p, s) \/ ClaimShop(p, s)
    BY <1>1, <2>1, VisitKeeps, ClaimKeeps
  <2>2. CASE VisitFree(p) \/ Prepared(p) \/ Unavailable(p) \/ Refused(p) \/ Decide(p) \/ Visited(p)
    BY <1>1, <2>2, VisitingFree, PreparedKeeps, Outage, Refusal, Deciding, VisitedKeeps
  <2>3. CASE Renew(p) \/ ReadShop(p) \/ Release(p) \/ Ended(p) \/ GivesUp(p)
    BY <1>1, <2>3, RenewKeeps, ReadKeeps, ReleaseKeeps, Ending, Refusing
  <2>4. CASE View(p) \/ Promote(p) \/ Write(p) \/ WriteFails(p)
    BY <1>1, <2>4, Viewing, Promoting, WriteKeeps, WritingFails
  <2>5. QED
    BY <1>2, <2>1, <2>2, <2>3, <2>4 DEF Works
<1>3. CASE Wakes \/ Watches
  BY <1>1, <1>3, Waking, Looking, Gating, Checking, Refreshing, Prefetching DEF Watches
<1>4. CASE Deploys \/ (\E p \in Processes : Killed(p)) \/ (\E s \in Shops : LeaseEnds(s) \/ NewLeaflet(s))
  BY <1>1, <1>4, DeployKeeps, KillKeeps, LeaseKeeps, Turning
<1>5. CASE NewDay
  <2>1. /\ UNCHANGED <<staged, supply, offered, claim, proc, limits, ghosts>> /\ fails' = 0
        /\ keyed' = FALSE /\ stopped' = FALSE /\ checked' = FALSE
    BY <1>5 DEF NewDay
  <2>2. QED
    BY <1>1, <2>1, Standing
<1>6. CASE UNCHANGED collectionVars
  <2>1. /\ UNCHANGED <<staged, supply, offered, claim, proc, limits, ghosts>>
        /\ UNCHANGED <<fails, keyed, stopped, checked>>
    BY <1>6 DEF collectionVars, memory, days
  <2>2. QED
    BY <1>1, <2>1, Basics, Standing
<1>7. QED
  BY <1>2, <1>3, <1>4, <1>5, <1>6 DEF CollectionNext, Outside

LEMMA ReadTypes == ReadInv => CollectionTypeOK
<1> SUFFICES ASSUME ReadInv PROVE CollectionTypeOK
  OBVIOUS
<1>1. ahead \subseteq Shops \X Read
  BY DEF ReadInv, Rest
<1>2. QED
  BY <1>1 DEF ReadInv, ClaimInv, ClaimsShaped, Rest, Rows, Memory, Tally, CollectionTypeOK

LEMMA FailuresFew == ReadInv => FailedOnce
<1> SUFFICES ASSUME ReadInv, NEW s \in Shops, NEW v \in Read
             PROVE  wasted[s][v] <= Cardinality(Processes) * (1 + forgot[s][v])
  BY DEF FailedOnce
<1>1. wasted[s][v] \in Nat /\ forgot[s][v] \in Nat /\ Counted(s, v)
  BY DEF ReadInv, Tally
<1>2. Cardinality(Holders(s, v)) \in 0..2
  BY HoldersSmall
<1>3. wasted[s][v] <= 2 * (1 + forgot[s][v])
  <2>1. CASE CanFail(s, v)
    BY <1>1, <1>2, <2>1 DEF Counted
  <2>2. CASE ~CanFail(s, v)
    BY <1>1, <2>2 DEF Counted
  <2>3. QED
    BY <2>1, <2>2
<1>4. QED
  BY <1>3, TwoProcesses

(* The variables keep their shape.                                           *)
THEOREM CollectionTypes == CollectionSpec => []CollectionTypeOK
  BY ReadTypes, ReadAtFirst, ReadOn, PTL DEF CollectionSpec

(* A leaflet that cannot be read is paid for at most twice, and twice more   *)
(* for each time its failure was forgotten.                                  *)
THEOREM FailedOnceHolds == CollectionSpec => []FailedOnce
  BY FailuresFew, ReadAtFirst, ReadOn, PTL DEF CollectionSpec
=============================================================================
