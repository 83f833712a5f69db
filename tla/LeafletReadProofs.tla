-------------------------- MODULE LeafletReadProofs --------------------------
(* Theorems about LeafletRead, for every leaflet, every size of a batch,     *)
(* every number of pauses and every share of pages and prices.               *)
EXTENDS LeafletRead, FiniteSetTheorems, TLAPS

Early   == {"download", "again", "scan"}
Readers == {"read", "alone", "dear"}
Last    == {"compare", "staged"}

(* A page is done with: it has an offer, or was looked at twice.             *)
LookedAt(p) == p \in priced \/ looks[p] >= 2

(* Before it is paid for, too many missing pages end the reading.            *)
MissingFew == reading \in {"scan"} \cup Readers \cup Last => ~TooMany(denied \cup lost)

(* What has been read is settled.                                            *)
ReadSettled ==
  /\ reading \in Readers => \A p \in food \ pending : LookedAt(p)
  /\ reading \in Last    => \A p \in food : LookedAt(p)

(* Within a batch: what is not doubtful has an offer, the rest was shown.    *)
BatchKnown ==
  reading \in {"alone", "dear"} =>
    /\ doubtful \subseteq Batch
    /\ \A p \in Batch \ doubtful : p \in priced
    /\ \A p \in doubtful : looks[p] >= 1

(* How often a page may have been shown so far.                              *)
LooksLeft ==
  /\ reading \in Early   => \A p \in Pages : looks[p] = 0
  /\ reading \in Readers => \A p \in pending \ Batch : looks[p] = 0
  /\ reading = "read"    => \A p \in Batch : looks[p] = 0
  /\ reading = "alone"   => \A p \in Batch : looks[p] <= 1
  /\ reading = "dear"    => \A p \in Batch : looks[p] <= 2

(* Something is left to compare, and to stage.                               *)
SomeLeft ==
  /\ reading = "compare" => priced # {}
  /\ reading = "staged"  => kept # {}

LeafletInv == LeafletTypeOK /\ MissingFew /\ ReadSettled /\ BatchKnown /\ LooksLeft /\ SomeLeft

-----------------------------------------------------------------------------
(* A batch is made of what is pending.                                       *)
LEMMA BatchPending == Batch \subseteq pending /\ \A n : \A S : Foremost(n, S) \subseteq S
  BY DEF Batch, Foremost

(* A reading is one of three looks.                                          *)
LEMMA Shown ==
  ASSUME LeafletInv, NEW S \in SUBSET Pages, Shows(S), \A p \in S : looks[p] <= 2
  PROVE  /\ looks' \in [Pages -> 0..3]
         /\ \A p \in S : looks'[p] = looks[p] + 1
         /\ \A p \in Pages \ S : looks'[p] = looks[p]
         /\ \A p \in Pages : looks'[p] >= looks[p]
<1>1. looks \in [Pages -> 0..3]
  BY DEF LeafletInv, LeafletTypeOK
<1>2. \A p \in Pages : looks'[p] = IF p \in S THEN looks[p] + 1 ELSE looks[p]
  BY DEF Shows
<1>3. \A p \in Pages : looks'[p] \in 0..3
  BY <1>1, <1>2
<1>4. QED
  BY <1>1, <1>2, <1>3 DEF Shows

-----------------------------------------------------------------------------
(* The steps before anything is read                                         *)

LEMMA BeforeReading ==
  ASSUME LeafletInv, Download \/ Downloaded \/ TryDenied \/ Identified \/ Scan \/ Scanned
  PROVE  LeafletInv'
<1>1. UNCHANGED <<doubtful, priced, looks, kept>>
  BY DEF Download, Downloaded, TryDenied, Identified, Scan, Scanned, learned, Stops
<1>2. reading \in Early /\ reading' \in Early \cup Refusals \cup {"read"}
  BY DEF Download, Downloaded, TryDenied, Identified, Scan, Scanned, Early, Turns, GoesTo,
         Refusals, Stops
<1>3. LeafletTypeOK'
  <2>1. {doubtful, priced, kept} \subseteq SUBSET Pages /\ looks \in [Pages -> 0..3]
    BY DEF LeafletInv, LeafletTypeOK
  <2>2. reading' \in Steps
    BY <1>2 DEF Early, Steps, Refusals
  <2>3. denied' \subseteq Pages /\ lost' \subseteq Pages
    BY BatchPending DEF Download, Downloaded, TryDenied, Identified, Scan, Scanned, withheld, LeafletInv, LeafletTypeOK
  <2>4. round' \in 0..(Rounds + 1)
    BY LeafletAssumption DEF Download, Downloaded, TryDenied, Identified, Scan, Scanned, Stops, LeafletInv, LeafletTypeOK
  <2>5. food' \subseteq Pages
    BY BatchPending DEF Download, Downloaded, TryDenied, Identified, Scan, Scanned, Stops, learned, LeafletInv, LeafletTypeOK
  <2>6. pending' \subseteq Pages
    BY DEF Download, Downloaded, TryDenied, Identified, Scan, Scanned, Stops, GoesTo, LeafletInv, LeafletTypeOK
  <2>7. QED
    BY <1>1, <2>1, <2>2, <2>3, <2>4, <2>5, <2>6 DEF LeafletTypeOK
<1>4. MissingFew'
  BY <1>2 DEF Download, Downloaded, TryDenied, Identified, Scan, Scanned, Spares, withheld,
              Early, Readers, Last, Refusals, Turns, GoesTo, LeafletInv, MissingFew, TooMany, Allowed, Share
<1>5. reading' = "read" => food' = pending' /\ food' = food
  BY <1>2 DEF Download, Downloaded, TryDenied, Identified, Scan, Scanned, Early, Refusals, Turns,
              GoesTo, learned, Stops
<1>6. ReadSettled' /\ BatchKnown' /\ SomeLeft'
  BY <1>2, <1>5 DEF ReadSettled, BatchKnown, SomeLeft, Early, Refusals, Readers, Last
<1>7. LooksLeft'
  <2>1. \A p \in Pages : looks'[p] = 0
    BY <1>1, <1>2 DEF LeafletInv, LooksLeft
  <2>2. pending' \subseteq Pages /\ Batch' \subseteq pending'
    BY <1>3 DEF LeafletTypeOK, Batch, Foremost
  <2>3. QED
    BY <2>1, <2>2 DEF LooksLeft
<1>8. QED
  BY <1>3, <1>4, <1>6, <1>7 DEF LeafletInv

-----------------------------------------------------------------------------
(* The readings                                                              *)

(* A reading that ends for a reason of the leaflet, or in trouble.           *)
LEMMA ReadingEnds ==
  ASSUME LeafletInv, reading' \in Refusals, pending' = pending, doubtful' = doubtful, priced' = priced,
         UNCHANGED <<withheld, round, food, kept>>, looks' \in [Pages -> 0..3]
  PROVE  LeafletInv'
<1>1. LeafletTypeOK'
  BY DEF LeafletInv, LeafletTypeOK, Steps, withheld
<1>2. QED
  BY <1>1 DEF LeafletInv, MissingFew, ReadSettled, BatchKnown, LooksLeft, SomeLeft, Early, Readers, Last, Refusals

(* The batch is done with: each of its pages is settled.                     *)
LEMMA BatchEnds ==
  ASSUME LeafletInv, reading \in Readers, NextBatch, UNCHANGED <<withheld, round, food, kept>>,
         priced \subseteq priced', priced' \subseteq Pages, looks' \in [Pages -> 0..3],
         \A p \in Pages : looks'[p] >= looks[p],
         \A p \in Pages \ Batch : looks'[p] = looks[p],
         \A p \in Batch : LookedAt(p)'
  PROVE  LeafletInv'
<1>1. reading' = "read" /\ pending' = pending \ Batch /\ doubtful' = {}
  BY DEF NextBatch, GoesTo
<1>2. LeafletTypeOK'
  BY <1>1 DEF LeafletInv, LeafletTypeOK, Steps, withheld
<1>3. MissingFew'
  BY DEF LeafletInv, MissingFew, withheld, Readers, TooMany, Allowed, Share
<1>4. ReadSettled'
  <2>1. looks \in [Pages -> 0..3] /\ food \subseteq Pages
    BY DEF LeafletInv, LeafletTypeOK
  <2>2. ASSUME NEW p \in food \ pending PROVE LookedAt(p)'
    <3>1. LookedAt(p) /\ p \in Pages
      BY <2>1, <2>2 DEF LeafletInv, ReadSettled
    <3>2. looks[p] \in Int /\ looks'[p] \in Int /\ looks'[p] >= looks[p]
      BY <2>1, <3>1
    <3>3. QED
      BY <3>1, <3>2 DEF LookedAt
  <2>3. QED
    BY <1>1, <2>2 DEF ReadSettled, Last
<1>5. LooksLeft'
  <2>1. \A p \in pending' : looks'[p] = 0
    BY <1>1 DEF LeafletInv, LooksLeft, LeafletTypeOK
  <2>2. Batch' \subseteq pending'
    BY DEF Batch, Foremost
  <2>3. QED
    BY <1>1, <2>1, <2>2 DEF LooksLeft, Early
<1>6. BatchKnown' /\ SomeLeft'
  BY <1>1 DEF BatchKnown, SomeLeft
<1>7. QED
  BY <1>2, <1>3, <1>4, <1>5, <1>6 DEF LeafletInv

(* The same batch is read once more, what gave an offer left aside or not.   *)
LEMMA BatchGoesOn ==
  ASSUME LeafletInv, reading \in Readers, NEW step \in {"alone", "dear"}, reading' = step,
         UNCHANGED <<withheld, round, food, kept, pending>>,
         priced \subseteq priced', priced' \subseteq Pages, looks' \in [Pages -> 0..3],
         doubtful' \subseteq Batch,
         \A p \in Batch \ doubtful' : p \in priced',
         \A p \in doubtful' : looks'[p] >= 1,
         \A p \in Pages : looks'[p] >= looks[p],
         \A p \in Pages \ Batch : looks'[p] = looks[p],
         \A p \in Batch : looks'[p] <= (IF step = "alone" THEN 1 ELSE 2)
  PROVE  LeafletInv'
<1>1. Batch' = Batch /\ Batch \subseteq pending
  BY DEF Batch, Foremost
<1>2. LeafletTypeOK'
  BY <1>1 DEF LeafletInv, LeafletTypeOK, Steps, withheld
<1>3. MissingFew'
  BY DEF LeafletInv, MissingFew, withheld, Readers, TooMany, Allowed, Share
<1>4. ReadSettled'
  <2>1. looks \in [Pages -> 0..3] /\ food \subseteq Pages
    BY DEF LeafletInv, LeafletTypeOK
  <2>2. ASSUME NEW p \in food \ pending PROVE LookedAt(p)'
    <3>1. LookedAt(p) /\ p \in Pages
      BY <2>1, <2>2 DEF LeafletInv, ReadSettled
    <3>2. looks[p] \in Int /\ looks'[p] \in Int /\ looks'[p] >= looks[p]
      BY <2>1, <3>1
    <3>3. QED
      BY <3>1, <3>2 DEF LookedAt
  <2>3. QED
    BY <2>2 DEF ReadSettled, Last
<1>5. LooksLeft'
  <2>1. \A p \in pending \ Batch : p \in Pages /\ looks[p] = 0
    BY DEF LeafletInv, LooksLeft, LeafletTypeOK
  <2>2. QED
    BY <1>1, <2>1 DEF LooksLeft, Early
<1>6. BatchKnown' /\ SomeLeft'
  BY <1>1 DEF BatchKnown, SomeLeft
<1>7. QED
  BY <1>2, <1>3, <1>4, <1>5, <1>6 DEF LeafletInv

(* The whole batch by the cheap model.                                       *)
LEMMA BatchRead == ASSUME LeafletInv, ReadBatch PROVE LeafletInv'
<1>1. /\ reading = "read" /\ reading \in Readers /\ Shows(Batch)
      /\ UNCHANGED <<withheld, round, food, kept>>
  BY DEF ReadBatch, Readers
<1>2. Batch \subseteq Pages /\ (\A p \in Batch : looks[p] = 0) /\ priced \subseteq Pages
  BY <1>1, BatchPending DEF LeafletInv, LooksLeft, LeafletTypeOK
<1>3. /\ looks' \in [Pages -> 0..3] /\ \A p \in Batch : looks'[p] = 1
      /\ \A p \in Pages \ Batch : looks'[p] = looks[p]
      /\ \A p \in Pages : looks'[p] >= looks[p]
  BY <1>1, <1>2, Shown
<1>4. CASE Confirms(Batch, "alone")
  <2>1. PICK found \in SUBSET Batch :
          /\ priced' = priced \cup found
          /\ IF Unread(Batch, found) = {} THEN NextBatch
             ELSE /\ reading' = "alone" /\ doubtful' = Unread(Batch, found) /\ pending' = pending
    BY <1>4 DEF Confirms
  <2>2. CASE Unread(Batch, found) = {}
    <3>1. \A p \in Batch : LookedAt(p)'
      BY <2>1, <2>2 DEF Unread, LookedAt
    <3>2. QED
      BY <1>1, <1>2, <1>3, <2>1, <2>2, <3>1, BatchEnds
  <2>3. CASE Unread(Batch, found) # {}
    BY <1>1, <1>2, <1>3, <2>1, <2>3, BatchGoesOn DEF Unread
  <2>4. QED
    BY <2>2, <2>3
<1>5. CASE Unusable("dear", Batch)
  BY <1>1, <1>2, <1>3, <1>5, BatchGoesOn DEF Unusable
<1>6. CASE Passes
  BY <1>1, <1>3, <1>6, ReadingEnds DEF Passes, Turns
<1>7. QED
  BY <1>4, <1>5, <1>6 DEF ReadBatch

(* What gave nothing, once more.                                             *)
LEMMA AloneRead == ASSUME LeafletInv, ReadAlone PROVE LeafletInv'
<1>1. /\ reading = "alone" /\ reading \in Readers /\ Shows(doubtful)
      /\ UNCHANGED <<withheld, round, food, kept>>
  BY DEF ReadAlone, Readers
<1>2. /\ Batch \subseteq Pages /\ doubtful \subseteq Batch /\ doubtful \subseteq Pages
      /\ priced \subseteq Pages
      /\ \A p \in Batch \ doubtful : p \in priced
      /\ \A p \in Batch : looks[p] <= 1
      /\ \A p \in doubtful : looks[p] >= 1
  BY <1>1, BatchPending DEF LeafletInv, LooksLeft, BatchKnown, LeafletTypeOK
<1>3. /\ looks \in [Pages -> 0..3] /\ looks' \in [Pages -> 0..3]
      /\ \A p \in doubtful : looks'[p] = looks[p] + 1
      /\ \A p \in Pages \ doubtful : looks'[p] = looks[p]
      /\ \A p \in Pages : looks'[p] >= looks[p]
  <2>1. looks \in [Pages -> 0..3]
    BY DEF LeafletInv, LeafletTypeOK
  <2>2. \A p \in doubtful : looks[p] <= 2
    BY <1>2, <2>1
  <2>3. QED
    BY <1>1, <1>2, <2>1, <2>2, Shown
<1>4. /\ \A p \in Batch : looks'[p] <= 2
      /\ \A p \in doubtful : looks'[p] >= 1
      /\ \A p \in Pages \ Batch : looks'[p] = looks[p]
  BY <1>2, <1>3
<1>5. CASE Confirms(doubtful, "dear")
  <2>1. PICK found \in SUBSET doubtful :
          /\ priced' = priced \cup found
          /\ IF Unread(doubtful, found) = {} THEN NextBatch
             ELSE /\ reading' = "dear" /\ doubtful' = Unread(doubtful, found) /\ pending' = pending
    BY <1>5 DEF Confirms
  <2>2. CASE Unread(doubtful, found) = {}
    <3>1. \A p \in Batch : LookedAt(p)'
      BY <1>2, <2>1, <2>2 DEF Unread, LookedAt
    <3>2. QED
      BY <1>1, <1>2, <1>3, <1>4, <2>1, <2>2, <3>1, BatchEnds
  <2>3. CASE Unread(doubtful, found) # {}
    <3>1. /\ doubtful' \subseteq Batch /\ \A p \in Batch \ doubtful' : p \in priced'
          /\ \A p \in doubtful' : looks'[p] >= 1
      BY <1>2, <1>4, <2>1, <2>3 DEF Unread
    <3>2. QED
      BY <1>1, <1>2, <1>3, <1>4, <2>1, <2>3, <3>1, BatchGoesOn
  <2>4. QED
    BY <2>2, <2>3
<1>6. CASE Unusable("dear", doubtful)
  BY <1>1, <1>2, <1>3, <1>4, <1>6, BatchGoesOn DEF Unusable
<1>7. CASE Passes
  BY <1>1, <1>3, <1>7, ReadingEnds DEF Passes, Turns
<1>8. QED
  BY <1>5, <1>6, <1>7 DEF ReadAlone

(* The dearer model's word is the last.                                      *)
LEMMA DearRead == ASSUME LeafletInv, ReadDear PROVE LeafletInv'
<1>1. /\ reading = "dear" /\ reading \in Readers /\ Shows(doubtful)
      /\ UNCHANGED <<withheld, round, food, kept>>
  BY DEF ReadDear, Readers
<1>2. /\ Batch \subseteq Pages /\ doubtful \subseteq Batch /\ doubtful \subseteq Pages
      /\ priced \subseteq Pages
      /\ \A p \in Batch \ doubtful : p \in priced
      /\ \A p \in Batch : looks[p] <= 2
      /\ \A p \in doubtful : looks[p] >= 1
  BY <1>1, BatchPending DEF LeafletInv, LooksLeft, BatchKnown, LeafletTypeOK
<1>3. /\ looks \in [Pages -> 0..3] /\ looks' \in [Pages -> 0..3]
      /\ \A p \in doubtful : looks'[p] = looks[p] + 1
      /\ \A p \in Pages \ doubtful : looks'[p] = looks[p]
      /\ \A p \in Pages : looks'[p] >= looks[p]
  BY <1>1, <1>2, Shown DEF LeafletInv, LeafletTypeOK
<1>4. /\ \A p \in doubtful : looks'[p] >= 2
      /\ \A p \in Pages \ Batch : looks'[p] = looks[p]
  BY <1>2, <1>3
<1>5. CASE NextBatch /\ priced \subseteq priced' /\ priced' \subseteq Pages
  <2>1. \A p \in Batch : LookedAt(p)'
    BY <1>2, <1>4, <1>5 DEF LookedAt
  <2>2. QED
    BY <1>1, <1>3, <1>4, <1>5, <2>1, BatchEnds
<1>6. CASE /\ reading' \in Refusals
           /\ UNCHANGED <<pending, doubtful, priced>>
  BY <1>1, <1>3, <1>6, ReadingEnds
<1>7. QED
  BY <1>2, <1>5, <1>6 DEF ReadDear, Passes, Turns, Refusals

-----------------------------------------------------------------------------
(* After the readings                                                        *)

(* A picture that cannot be made of a page.                                  *)
LEMMA PictureBad == ASSUME LeafletInv, BadPicture PROVE LeafletInv'
<1>1. /\ reading' \in Refusals /\ UNCHANGED <<pending, doubtful, priced, looks>>
      /\ UNCHANGED <<withheld, round, food, kept>>
  BY DEF BadPicture, Turns, Refusals, learned
<1>2. looks' \in [Pages -> 0..3]
  BY <1>1 DEF LeafletInv, LeafletTypeOK
<1>3. QED
  BY <1>1, <1>2, ReadingEnds

(* Everything is read: what the scan chose is settled.                       *)
LEMMA ReadAll == ASSUME LeafletInv, AllRead PROVE LeafletInv'
<1>1. /\ reading = "read" /\ pending = {} /\ UNCHANGED <<pending, withheld, round, kept>>
      /\ UNCHANGED <<food, doubtful, priced, looks>>
      /\ reading' = IF priced = {} THEN "structural" ELSE "compare"
  BY DEF AllRead, Turns, learned
<1>2. looks' \in [Pages -> 0..3]
  BY <1>1 DEF LeafletInv, LeafletTypeOK
<1>3. CASE priced = {}
  BY <1>1, <1>2, <1>3, ReadingEnds DEF Refusals
<1>4. CASE priced # {}
  <2>1. LeafletTypeOK'
    BY <1>1, <1>4 DEF LeafletInv, LeafletTypeOK, Steps, withheld
  <2>2. MissingFew'
    BY <1>1, <1>4 DEF LeafletInv, MissingFew, withheld, Readers, TooMany, Allowed, Share
  <2>3. ReadSettled'
    BY <1>1, <1>4 DEF LeafletInv, ReadSettled, LookedAt, Readers
  <2>4. BatchKnown' /\ LooksLeft' /\ SomeLeft'
    BY <1>1, <1>4 DEF BatchKnown, LooksLeft, SomeLeft, Early, Readers
  <2>5. QED
    BY <2>1, <2>2, <2>3, <2>4 DEF LeafletInv
<1>5. QED
  BY <1>3, <1>4

(* Pages dropped for their prices are fewer than those that were compared,   *)
(* if there are any: OneIn of them would have to be wrong in one.            *)
LEMMA SomeKept ==
  ASSUME LeafletInv, priced # {}, NEW told \in SUBSET priced, NEW wrong \in SUBSET told,
         Cardinality(wrong) * OneIn <= Cardinality(told)
  PROVE  priced \ wrong # {}
<1>1. SUFFICES ASSUME priced \ wrong = {} PROVE FALSE
  OBVIOUS
<1>2. wrong = told /\ wrong = priced
  BY <1>1
<1>3. IsFiniteSet(wrong)
  BY <1>2, LeafletAssumption, FS_Subset DEF LeafletInv, LeafletTypeOK
<1>4. Cardinality(wrong) \in Nat /\ Cardinality(wrong) # 0
  BY <1>2, <1>3, FS_CardinalityType, FS_EmptySet
<1>5. OneIn \in Nat /\ OneIn >= 2
  BY LeafletAssumption
<1>6. \A m, n \in Nat : m # 0 /\ n >= 2 => m * n > m
  OBVIOUS
<1>7. Cardinality(wrong) * OneIn > Cardinality(wrong)
  BY <1>4, <1>5, <1>6
<1>8. QED
  BY <1>2, <1>4, <1>5, <1>7

(* The prices are compared, and the pages staged.                            *)
LEMMA Compared == ASSUME LeafletInv, Compare PROVE LeafletInv'
<1>1. /\ reading = "compare" /\ reading' = "staged"
      /\ UNCHANGED <<pending, withheld, round, food, doubtful, priced, looks>>
  BY DEF Compare, Turns, learned
<1>2. PICK told \in SUBSET priced : \E wrong \in SUBSET told :
        kept' = IF Cardinality(wrong) * OneIn > Cardinality(told) THEN priced ELSE priced \ wrong
  BY DEF Compare
<1>3. PICK wrong \in SUBSET told :
        kept' = IF Cardinality(wrong) * OneIn > Cardinality(told) THEN priced ELSE priced \ wrong
  BY <1>2
<1>4. priced # {} /\ priced \subseteq Pages
  BY <1>1 DEF LeafletInv, SomeLeft, LeafletTypeOK
<1>5. kept' # {} /\ kept' \subseteq Pages
  <2>1. IsFiniteSet(told) /\ IsFiniteSet(wrong)
    BY <1>4, LeafletAssumption, FS_Subset
  <2>2. /\ Cardinality(told) \in Nat /\ Cardinality(wrong) \in Nat /\ OneIn \in Nat
    BY <2>1, LeafletAssumption, FS_CardinalityType
  <2>3. \A m, n \in Nat : m * n \in Nat
    OBVIOUS
  <2>4. Cardinality(wrong) * OneIn \in Nat
    BY <2>2, <2>3
  <2>5. CASE Cardinality(wrong) * OneIn > Cardinality(told)
    BY <1>3, <1>4, <2>5
  <2>6. CASE Cardinality(wrong) * OneIn <= Cardinality(told)
    <3>1. priced \ wrong # {}
      BY <1>4, <2>6, SomeKept
    <3>2. kept' = priced \ wrong
      BY <1>3, <2>2, <2>4, <2>6
    <3>3. QED
      BY <1>4, <3>1, <3>2
  <2>7. QED
    BY <2>2, <2>4, <2>5, <2>6
<1>6. LeafletTypeOK'
  BY <1>1, <1>5 DEF LeafletInv, LeafletTypeOK, Steps, withheld
<1>7. MissingFew'
  BY <1>1 DEF LeafletInv, MissingFew, withheld, Last, TooMany, Allowed, Share
<1>8. ReadSettled'
  BY <1>1 DEF LeafletInv, ReadSettled, LookedAt, Readers, Last
<1>9. BatchKnown' /\ LooksLeft' /\ SomeLeft'
  BY <1>1, <1>5 DEF BatchKnown, LooksLeft, SomeLeft, Early, Readers
<1>10. QED
  BY <1>6, <1>7, <1>8, <1>9 DEF LeafletInv

-----------------------------------------------------------------------------
(* The theorems                                                              *)

LEMMA LeafletAtFirst == LeafletInit => LeafletInv
<1> SUFFICES ASSUME LeafletInit PROVE LeafletInv
  OBVIOUS
<1>1. LeafletTypeOK
  BY LeafletAssumption DEF LeafletInit, LeafletTypeOK, Steps
<1>2. \A p \in Pages : looks[p] = 0
  BY DEF LeafletInit
<1>3. QED
  BY <1>1, <1>2 DEF LeafletInit, LeafletInv, MissingFew, ReadSettled, BatchKnown, LooksLeft, SomeLeft,
                    Readers, Last

LEMMA LeafletOn == LeafletInv /\ [LeafletNext]_leafletVars => LeafletInv'
<1> SUFFICES ASSUME LeafletInv, [LeafletNext]_leafletVars PROVE LeafletInv'
  OBVIOUS
<1>1. CASE Download \/ Downloaded \/ TryDenied \/ Identified \/ Scan \/ Scanned
  BY <1>1, BeforeReading
<1>2. CASE ReadBatch \/ ReadAlone \/ ReadDear
  BY <1>2, BatchRead, AloneRead, DearRead
<1>3. CASE BadPicture \/ AllRead \/ Compare
  BY <1>3, PictureBad, ReadAll, Compared
<1>4. CASE UNCHANGED leafletVars
  <2>1. UNCHANGED <<reading, pending, denied, lost, round, food, doubtful, priced, looks, kept>>
    BY <1>4 DEF leafletVars, withheld, learned
  <2>2. LeafletTypeOK' /\ MissingFew'
    BY <2>1 DEF LeafletInv, LeafletTypeOK, MissingFew, TooMany, Allowed, Share
  <2>3. ReadSettled' /\ BatchKnown' /\ LooksLeft' /\ SomeLeft'
    BY <2>1 DEF LeafletInv, ReadSettled, BatchKnown, LooksLeft, SomeLeft, LookedAt, Batch, Foremost
  <2>4. QED
    BY <2>2, <2>3 DEF LeafletInv
<1>5. QED
  BY <1>1, <1>2, <1>3, <1>4 DEF LeafletNext

(* The reading of a leaflet keeps its types; no page is paid for in more     *)
(* than three readings.                                                      *)
THEOREM LeafletTypes == LeafletSpec => []LeafletTypeOK
<1>1. LeafletInv => LeafletTypeOK
  BY DEF LeafletInv
<1>2. QED
  BY <1>1, LeafletAtFirst, LeafletOn, PTL DEF LeafletSpec

LEMMA LeafletInFull == LeafletInv => ReadInFull
  BY DEF LeafletInv, ReadInFull, MissingFew, ReadSettled, SomeLeft, LookedAt, Last

(* What is staged was read in full: few enough pages are missing, each page  *)
(* the scan chose has an offer or was looked at twice, and something is left *)
(* after its prices were compared.                                           *)
THEOREM ReadInFullHolds == LeafletSpec => []ReadInFull
  BY LeafletInFull, LeafletAtFirst, LeafletOn, PTL DEF LeafletSpec
=============================================================================
