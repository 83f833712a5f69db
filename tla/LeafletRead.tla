----------------------------- MODULE LeafletRead -----------------------------
(* One leaflet on its way from its pages to its offers (zbierac_akcii.py):   *)
(* every page is downloaded and hashed before anything is paid, a scan of    *)
(* small pictures chooses the pages with food, a cheap model reads these in  *)
(* batches, and a dearer one reads what the cheap one cannot confirm. Any    *)
(* download or call may fail, for a reason of the leaflet's own (structural) *)
(* or for one that passes by itself (transient). A page stands for its       *)
(* offers.                                                                   *)
EXTENDS Integers, FiniteSets

CONSTANTS
  Pages,        \* of the leaflet
  Spared,       \* DENIED_PAGES_PER_ALLOWED: one page in so many may be missing
  Rounds,       \* pauses in DENIED_RETRY_DELAYS
  ScanSize, ReadSize,   \* SCAN_BATCH_SIZE, READ_BATCH_SIZE
  OneIn         \* 1 / SOURCE_PRICE_MAX_MISMATCH

ASSUME LeafletAssumption ==
  /\ Pages \subseteq Nat /\ IsFiniteSet(Pages) /\ Rounds \in Nat
  /\ {Spared, ScanSize, ReadSize} \subseteq Nat \ {0} /\ OneIn \in Nat \ {0, 1}

VARIABLES
  reading,      \* the step the reading is at
  pending,      \* pages the step has yet to go through
  denied, lost, \* pages the source refused; pages it failed to deliver
  round,        \* pauses made for the refused pages, repeated scans of a batch
  food,         \* pages the scan chose
  doubtful,     \* pages of the batch without an offer
  priced,       \* pages with a validated offer
  looks,        \* paid readings that showed a page
  kept          \* pages whose offers are staged

withheld    == <<denied, lost>>
learned     == <<food, doubtful, priced, looks>>
leafletVars == <<reading, pending, withheld, round, learned, kept>>

Refusals == {"structural", "transient", "credit"}
Steps    == {"download", "again", "scan", "read", "alone", "dear", "compare", "staged"} \cup Refusals

Turns(how) == reading' = how
GoesTo(step, pages) == reading' = step /\ pending' = pages
Foremost(n, pages) == {p \in pages : Cardinality({q \in pages : q < p}) < n}

----------------------------------------------------------------------------
(* The pages                                                                 *)

Share == Cardinality(Pages) \div Spared
Allowed == IF Share = 0 THEN 1 ELSE Share
TooMany(missing) == Cardinality(missing) > Allowed

(* A page that is refused is passed over for now, one that is not delivered  *)
(* after its own retries (_download_identity_page) for good.                 *)
Download ==
  /\ reading = "download" /\ pending # {}
  /\ \E p \in Foremost(1, pending) :
       \/ pending' = pending \ {p} /\ UNCHANGED <<reading, withheld>>
       \/ /\ denied' = denied \cup {p} /\ pending' = pending \ {p}
          /\ UNCHANGED <<reading, lost>>
       \/ /\ lost' = lost \cup {p} /\ UNCHANGED denied
          /\ IF TooMany(denied \cup lost') THEN Turns("transient") /\ UNCHANGED pending
             ELSE pending' = pending \ {p} /\ UNCHANGED reading
       \/ Turns("structural") /\ UNCHANGED <<pending, withheld>>
  /\ UNCHANGED <<round, learned, kept>>

Downloaded ==
  /\ reading = "download" /\ pending = {}
  /\ GoesTo("again", {}) /\ UNCHANGED <<withheld, round, learned, kept>>

(* While too much is missing, the refused pages are tried after each pause.  *)
TryDenied ==
  /\ reading = "again" /\ TooMany(denied \cup lost) /\ round < Rounds
  /\ denied' \in SUBSET denied /\ round' = round + 1
  /\ UNCHANGED <<reading, pending, lost, learned, kept>>

Spares == ~TooMany(denied \cup lost)
Identified ==
  /\ reading = "again" /\ (Spares \/ round = Rounds) /\ round' = 0
  /\ IF Spares THEN GoesTo("scan", Pages \ (denied \cup lost))
     ELSE Turns("transient") /\ UNCHANGED pending
  /\ UNCHANGED <<withheld, learned, kept>>

----------------------------------------------------------------------------
(* The scan                                                                  *)

(* A call may be answered by anything its step can take, or end it all.      *)
Stops == \E how \in Refusals : Turns(how) /\ UNCHANGED <<pending, round, learned>>

(* Pages the batch does not have: it is scanned once more, then taken whole. *)
Scan ==
  LET b == Foremost(ScanSize, pending) IN
  /\ reading = "scan" /\ b # {}
  /\ \/ /\ \E chosen \in SUBSET b : food' = food \cup chosen
        /\ pending' = pending \ b /\ round' = 0 /\ UNCHANGED <<reading, doubtful, priced, looks>>
     \/ round = 0 /\ round' = 1 /\ UNCHANGED <<reading, pending, learned>>
     \/ /\ round = 1 /\ round' = 0 /\ food' = food \cup b
        /\ pending' = pending \ b /\ UNCHANGED <<reading, doubtful, priced, looks>>
     \/ Stops
  /\ UNCHANGED <<withheld, kept>>

Scanned ==
  /\ reading = "scan" /\ pending = {}
  /\ IF food = {} THEN Turns("structural") /\ UNCHANGED pending ELSE GoesTo("read", food)
  /\ UNCHANGED <<withheld, round, learned, kept>>

----------------------------------------------------------------------------
(* The readings: each leaves offers for some of the pages it was shown, or   *)
(* nothing that can be used.                                                 *)

Batch == Foremost(ReadSize, pending)
Shows(pages) == looks' = [p \in Pages |-> IF p \in pages THEN looks[p] + 1 ELSE looks[p]]
NextBatch == GoesTo("read", pending \ Batch) /\ doubtful' = {}

\* Mutant of Unread: a batch that gave an offer is a batch that was read.
UnreadIfNone(pages, found) == IF found = {} THEN pages ELSE {}

(* _missing_offer_pages                                                      *)
Unread(pages, found) == pages \ found

Confirms(pages, step) ==
  \E found \in SUBSET pages :
    /\ priced' = priced \cup found
    /\ IF Unread(pages, found) = {} THEN NextBatch
       ELSE /\ reading' = step /\ doubtful' = Unread(pages, found)
            /\ UNCHANGED pending

\* Mutant of Unusable: the same model is asked once more.
UnusableAgain(step, pages) == UNCHANGED <<reading, doubtful, pending, priced>>

Unusable(step, pages) == reading' = step /\ doubtful' = pages /\ UNCHANGED <<pending, priced>>
Passes == \E how \in Refusals \ {"structural"} : Turns(how) /\ UNCHANGED <<pending, doubtful, priced>>

(* _read_offer_batch: the whole batch, then what gave nothing once more.     *)
ReadBatch ==
  /\ reading = "read" /\ pending # {} /\ Shows(Batch)
  /\ Confirms(Batch, "alone") \/ Unusable("dear", Batch) \/ Passes
  /\ UNCHANGED <<withheld, round, food, kept>>
ReadAlone ==
  /\ reading = "alone" /\ Shows(doubtful)
  /\ Confirms(doubtful, "dear") \/ Unusable("dear", doubtful) \/ Passes
  /\ UNCHANGED <<withheld, round, food, kept>>

(* The dearer model's word is the last: a page it finds nothing on is passed *)
(* over. If it fails, what the cheap one confirmed is enough.                *)
ReadDear ==
  /\ reading = "dear" /\ Shows(doubtful)
  /\ \/ (\E found \in SUBSET doubtful : priced' = priced \cup found) /\ NextBatch
     \/ /\ UNCHANGED priced
        /\ IF Batch \cap priced # {} THEN NextBatch
           ELSE Turns("structural") /\ UNCHANGED <<pending, doubtful>>
     \/ Passes
  /\ UNCHANGED <<withheld, round, food, kept>>

(* A picture that cannot be made of a page ends the reading.                 *)
BadPicture ==
  /\ reading = "read" /\ pending # {} /\ Turns("structural")
  /\ UNCHANGED <<pending, withheld, round, learned, kept>>

AllRead ==
  /\ reading = "read" /\ pending = {}
  /\ Turns(IF priced = {} THEN "structural" ELSE "compare")
  /\ UNCHANGED <<pending, withheld, round, learned, kept>>

(* _verify_prices_against_source: pages whose price is not in the shop's own *)
(* text are dropped, unless there are so many that the text must be wrong.   *)
Compare ==
  /\ reading = "compare" /\ Turns("staged")
  /\ \E told \in SUBSET priced : \E wrong \in SUBSET told :
       kept' = IF Cardinality(wrong) * OneIn > Cardinality(told) THEN priced ELSE priced \ wrong
  /\ UNCHANGED <<pending, withheld, round, learned>>

----------------------------------------------------------------------------

LeafletInit ==
  /\ reading = "download" /\ pending = Pages /\ denied = {} /\ lost = {} /\ round = 0
  /\ food = {} /\ doubtful = {} /\ priced = {} /\ looks = [p \in Pages |-> 0] /\ kept = {}

LeafletNext ==
  \/ Download \/ Downloaded \/ TryDenied \/ Identified \/ Scan \/ Scanned
  \/ ReadBatch \/ ReadAlone \/ ReadDear \/ BadPicture \/ AllRead \/ Compare

LeafletSpec == LeafletInit /\ [][LeafletNext]_leafletVars

----------------------------------------------------------------------------
(* No page is paid for in more than three readings.                          *)
LeafletTypeOK ==
  /\ reading \in Steps /\ round \in 0..(Rounds + 1)
  /\ {pending, denied, lost, food, doubtful, priced, kept} \subseteq SUBSET Pages
  /\ looks \in [Pages -> 0..3]

(* Offers that are staged are of a leaflet that was read in full: no more    *)
(* pages are missing than it may do without, a page the scan chose has an    *)
(* offer or was looked at twice, and comparing the prices leaves something.  *)
ReadInFull ==
  reading = "staged" =>
    /\ ~TooMany(denied \cup lost) /\ kept # {}
    /\ \A p \in food : p \in priced \/ looks[p] >= 2
=============================================================================
