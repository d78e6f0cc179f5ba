----------------------------- MODULE CatalogProofs -----------------------------
(* What holds of Catalog for every set of growers, names, rows and requests.    *)
EXTENDS Catalog, TLAPS

RowTypes ==
    /\ crop \in [Crops -> CropRow]
    /\ variety \in [Varieties -> VarietyRow]
    /\ use \in [Uses -> UseRow]
    /\ order \in [Orders -> {"OPEN", "FULFILLED"}]
    /\ review \in [Reviews -> ReviewRow]

\* A row of a cycle, batch or listing names a crop, and all but cycles a variety.
Shape(row) ==
    /\ row.kind # "NEW" /\ row.crop # None
    /\ row.kind = "cycle" <=> row.variety = None
UsesShaped ==
    \A u \in Uses : IF use[u].kind = "NEW" THEN use[u].crop = None /\ use[u].variety = None
                    ELSE Shape(use[u])

RowsInv == UsesShaped /\ NoOrphan /\ RowsAgree /\ OneReview

\* A row about to be inserted agrees with the rows it names, unless they are deleted.
Fits(row) ==
    /\ Shape(row)
    /\ crop[row.crop].state # "NEW"
    /\ LiveCrop(row.crop) => crop[row.crop].owner = row.owner
    /\ row.variety # None =>
          /\ variety[row.variety].state # "NEW"
          /\ LiveVariety(row.variety) => variety[row.variety].crop = row.crop
    /\ row.of # None => /\ use[row.of].kind # "NEW"
                        /\ use[row.of].crop = row.crop /\ use[row.of].owner = row.owner
Sound(cont) == cont.pc = "insertUse" => Fits(cont.row)

\* What the constraints of the schema demand of the write that is next.
Accepted(row) ==
    /\ LiveCrop(row.crop)
    /\ row.variety # None => LiveVariety(row.variety)
    /\ row.kind = "listing" /\ row.of # None =>
          \A w \in Uses : use[w].kind = "listing" => use[w].of # row.of
Passes(cont) ==
    /\ cont.pc = "insertCrop" => ~CropTaken(cont.owner, cont.name, {})
    /\ cont.pc = "renameCrop" =>
          LiveCrop(cont.crop) /\ ~CropTaken(crop[cont.crop].owner, cont.name, {cont.crop})
    /\ cont.pc = "deleteCrop" => LiveCrop(cont.crop) /\ ~CropReferenced(cont.crop)
    /\ cont.pc = "insertVariety" =>
          LiveCrop(cont.crop) /\ ~VarietyTaken(cont.crop, cont.name, {})
    /\ cont.pc = "renameVariety" =>
          /\ LiveVariety(cont.variety)
          /\ ~VarietyTaken(variety[cont.variety].crop, cont.name, {cont.variety})
    /\ cont.pc = "deleteVariety" =>
          LiveVariety(cont.variety) /\ ~VarietyReferenced(cont.variety)
    /\ cont.pc = "insertUse" => Accepted(cont.row)

\* A request that nobody overtook will not be refused.
Fresh == \A r \in Requests : r \notin overtaken => Passes(req[r]) /\ ~At(r, "error")

Inv == TypeOK /\ RowsInv /\ Fresh /\ \A r \in Requests : Sound(req[r])

\* Ids are not used again, and what a row names does not change while it is there.
RowsGrow ==
    /\ \A c \in Crops : crop[c].state # "NEW" =>
          /\ crop'[c].state # "NEW"
          /\ LiveCrop(c)' => LiveCrop(c) /\ crop'[c].owner = crop[c].owner
    /\ \A v \in Varieties : variety[v].state # "NEW" =>
          /\ variety'[v].state # "NEW"
          /\ LiveVariety(v)' => LiveVariety(v) /\ variety'[v].crop = variety[v].crop
    /\ \A u \in Uses : use[u].kind # "NEW" => use'[u] = use[u]

RowsStep == RowTypes' /\ RowsInv' /\ RowsGrow

-------------------------------------------------------------------------------
(* Continuations *)

LEMMA ContinuationType ==
    ASSUME TypeOK, NEW r \in Requests
    PROVE  /\ req[r].pc = "insertCrop" => req[r].owner \in Growers
           /\ req[r].pc \in {"insertCrop", "renameCrop", "insertVariety", "renameVariety"} =>
                req[r].name \in Names
           /\ req[r].pc \in {"renameCrop", "deleteCrop", "insertVariety"} => req[r].crop \in Crops
           /\ req[r].pc \in {"renameVariety", "deleteVariety"} => req[r].variety \in Varieties
           /\ req[r].pc = "insertUse" => req[r].row \in UseRow
           /\ req[r].pc = "insertReview" => req[r].order \in Orders
           /\ req[r].pc \in {"hide", "unhide"} => req[r].review \in Reviews
<1>1. req[r] \in Continuations
  BY DEF TypeOK
<1> QED
  BY <1>1 DEF Continuations, Idle, Error

LEMMA ContinuationsContain ==
    /\ Idle \in Continuations /\ Error \in Continuations /\ Idle # Error
    /\ \A g \in Growers, n \in Names :
          [pc |-> "insertCrop", owner |-> g, name |-> n] \in Continuations
    /\ \A c \in Crops, n \in Names, pc \in {"renameCrop", "insertVariety"} :
          [pc |-> pc, crop |-> c, name |-> n] \in Continuations
    /\ \A c \in Crops : [pc |-> "deleteCrop", crop |-> c] \in Continuations
    /\ \A v \in Varieties, n \in Names :
          [pc |-> "renameVariety", variety |-> v, name |-> n] \in Continuations
    /\ \A v \in Varieties : [pc |-> "deleteVariety", variety |-> v] \in Continuations
    /\ \A row \in UseRow : [pc |-> "insertUse", row |-> row] \in Continuations
    /\ \A o \in Orders : [pc |-> "insertReview", order |-> o] \in Continuations
    /\ \A w \in Reviews, pc \in {"hide", "unhide"} :
          [pc |-> pc, review |-> w] \in Continuations
  BY DEF Continuations, Idle, Error

LEMMA BecomesType ==
    ASSUME TypeOK, NEW r \in Requests, NEW cont \in Continuations, Becomes(r, cont)
    PROVE  /\ req' \in [Requests -> Continuations]
           /\ req'[r] = cont
           /\ \A s \in Requests \ {r} : req'[s] = req[s]
  BY DEF TypeOK, Becomes

\* A row about to be inserted names rows of the tables.
LEMMA UseRowNames ==
    ASSUME NEW row \in UseRow
    PROVE  /\ row.crop # None => row.crop \in Crops
           /\ row.variety # None => row.variety \in Varieties
           /\ row.of # None => row.of \in Uses
  BY DEF UseRow

\* What a request relies on survives the steps of others.
LEMMA StaysSound ==
    ASSUME Inv, RowsStep, NEW r \in Requests, req'[r] = req[r]
    PROVE  Sound(req[r])'
<1>1. CASE req[r].pc # "insertUse"
  BY <1>1 DEF Sound
<1>2. CASE req[r].pc = "insertUse"
  <2>1. req[r].row \in UseRow /\ Fits(req[r].row)
    BY <1>2, ContinuationType DEF Inv, Sound
  <2>2. Fits(req[r].row)'
    BY <2>1, UseRowNames DEF Fits, Shape, RowsStep, RowsGrow
  <2> QED
    BY <2>2 DEF Sound
<1> QED
  BY <1>1, <1>2

\* A request of another that nobody overtook passes as before.
LEMMA StaysFresh ==
    ASSUME Inv, Observe, NEW r \in Requests, req'[r] = req[r], r \notin overtaken'
    PROVE  Passes(req[r])' /\ ~At(r, "error")'
<1>1. CASE req[r] = Idle
  BY <1>1 DEF Passes, Idle, At
<1>2. CASE req[r] # Idle
  <2>1. r \notin overtaken /\ rows' = rows
    BY <1>2 DEF Observe
  <2>2. Passes(req[r]) /\ ~At(r, "error")
    BY <2>1 DEF Inv, Fresh
  <2> QED
    BY <2>1, <2>2 DEF rows, Passes, At, Accepted, CropTaken, VarietyTaken, LiveCrop,
                      LiveVariety, CropReferenced, VarietyReferenced
<1> QED
  BY <1>1, <1>2

LEMMA MovesOn ==
    ASSUME Inv, RowsStep, Observe, NEW r \in Requests, NEW cont \in Continuations,
           Becomes(r, cont), Sound(cont)',
           r \notin overtaken' => Passes(cont)' /\ cont.pc # "error"
    PROVE  Inv'
<1>1. /\ req' \in [Requests -> Continuations]
      /\ req'[r] = cont
      /\ \A s \in Requests \ {r} : req'[s] = req[s]
  BY BecomesType DEF Inv
<1>2. ASSUME NEW s \in Requests PROVE Sound(req[s])'
  <2>1. CASE s = r
    BY <1>1, <2>1 DEF Sound, Fits, Shape, LiveCrop, LiveVariety
  <2>2. CASE s # r
    BY <1>1, <2>2, StaysSound
  <2> QED
    BY <2>1, <2>2
<1>3. ASSUME NEW s \in Requests, s \notin overtaken' PROVE Passes(req[s])' /\ ~At(s, "error")'
  <2>1. CASE s = r
    BY <1>1, <1>3, <2>1
       DEF Passes, At, Accepted, CropTaken, VarietyTaken, LiveCrop, LiveVariety,
           CropReferenced, VarietyReferenced
  <2>2. CASE s # r
    BY <1>1, <1>3, <2>2, StaysFresh
  <2> QED
    BY <2>1, <2>2
<1>4. TypeOK'
  BY <1>1 DEF TypeOK, RowsStep, RowTypes, Observe
<1> QED
  BY <1>2, <1>3, <1>4 DEF Inv, RowsStep, Fresh

-------------------------------------------------------------------------------
(* Steps by the table they write *)

LEMMA RowsQuiet ==
    ASSUME Inv, UNCHANGED <<crop, variety, use, review>>,
           order' \in [Orders -> {"OPEN", "FULFILLED"}]
    PROVE  RowsStep
<1>1. RowTypes'
  BY DEF RowTypes, Inv, TypeOK
<1>2. RowsInv'
  BY DEF Inv, RowsInv, UsesShaped, Shape, NoOrphan, RowsAgree, OneReview, LiveCrop,
         LiveVariety
<1>3. RowsGrow
  BY DEF RowsGrow, LiveCrop, LiveVariety
<1> QED
  BY <1>1, <1>2, <1>3 DEF RowsStep

LEMMA CropWritten ==
    ASSUME Inv, UNCHANGED <<variety, use, order, review>>, NEW c \in Crops, NEW row \in CropRow,
           crop' = [crop EXCEPT ![c] = row],
           row.state # "NEW",
           crop[c].state # "NEW" /\ row.state = "LIVE" =>
               LiveCrop(c) /\ row.owner = crop[c].owner,
           LiveCrop(c) /\ CropReferenced(c) => row.state = "LIVE"
    PROVE  RowsStep
<1>1. /\ crop' \in [Crops -> CropRow]
      /\ crop'[c] = row
      /\ \A d \in Crops \ {c} : crop'[d] = crop[d]
  BY DEF Inv, TypeOK
<1>2. RowTypes'
  BY <1>1 DEF RowTypes, Inv, TypeOK
<1>3. RowsGrow
  BY <1>1 DEF RowsGrow, LiveCrop, LiveVariety
<1>4. ASSUME NEW d \in Crops, LiveCrop(d), CropReferenced(d)
      PROVE  LiveCrop(d)' /\ crop'[d].owner = crop[d].owner
  BY <1>1, <1>4 DEF LiveCrop
<1>5. ASSUME NEW v \in Varieties, LiveVariety(v) PROVE LiveCrop(variety[v].crop)'
  <2>1. LiveCrop(variety[v].crop) /\ variety[v].crop \in Crops
    BY <1>5 DEF Inv, RowsInv, NoOrphan, TypeOK, VarietyRow, LiveVariety, Absent
  <2>2. CropReferenced(variety[v].crop)
    BY <1>5 DEF CropReferenced
  <2> QED
    BY <1>4, <2>1, <2>2
<1>6. ASSUME NEW u \in Uses, use[u].kind # "NEW"
      PROVE  LiveCrop(use[u].crop)' /\ crop'[use[u].crop].owner = crop[use[u].crop].owner
  <2>1. LiveCrop(use[u].crop) /\ use[u].crop \in Crops
    BY <1>6, UseRowNames DEF Inv, RowsInv, NoOrphan, UsesShaped, Shape, TypeOK
  <2>2. CropReferenced(use[u].crop)
    BY DEF CropReferenced
  <2> QED
    BY <1>4, <2>1, <2>2
<1>7. NoOrphan'
  BY <1>5, <1>6 DEF Inv, RowsInv, NoOrphan, LiveVariety, LiveCrop
<1>8. RowsAgree'
  BY <1>6 DEF Inv, RowsInv, RowsAgree
<1>9. UsesShaped' /\ OneReview'
  BY DEF Inv, RowsInv, UsesShaped, Shape, OneReview
<1> QED
  BY <1>2, <1>3, <1>7, <1>8, <1>9 DEF RowsStep, RowsInv

LEMMA VarietyWritten ==
    ASSUME Inv, UNCHANGED <<crop, use, order, review>>, NEW v \in Varieties,
           NEW row \in VarietyRow,
           variety' = [variety EXCEPT ![v] = row],
           row.state # "NEW",
           row.state = "LIVE" => LiveCrop(row.crop),
           variety[v].state # "NEW" /\ row.state = "LIVE" =>
               LiveVariety(v) /\ row.crop = variety[v].crop,
           LiveVariety(v) /\ VarietyReferenced(v) => row.state = "LIVE"
    PROVE  RowsStep
<1>1. /\ variety' \in [Varieties -> VarietyRow]
      /\ variety'[v] = row
      /\ \A w \in Varieties \ {v} : variety'[w] = variety[w]
  BY DEF Inv, TypeOK
<1>2. RowTypes'
  BY <1>1 DEF RowTypes, Inv, TypeOK
<1>3. RowsGrow
  BY <1>1 DEF RowsGrow, LiveCrop, LiveVariety
<1>4. ASSUME NEW u \in Uses, use[u].kind # "NEW", use[u].variety # None
      PROVE  /\ LiveVariety(use[u].variety)'
             /\ variety'[use[u].variety].crop = variety[use[u].variety].crop
  <2>1. LiveVariety(use[u].variety) /\ use[u].variety \in Varieties
    BY <1>4, UseRowNames DEF Inv, RowsInv, NoOrphan, UsesShaped, Shape, TypeOK
  <2>2. VarietyReferenced(use[u].variety)
    BY DEF VarietyReferenced
  <2> QED
    BY <1>1, <2>1, <2>2 DEF LiveVariety
<1>5. ASSUME NEW w \in Varieties, LiveVariety(w)' PROVE LiveCrop(variety'[w].crop)
  <2>1. CASE w = v
    BY <1>1, <1>5, <2>1 DEF LiveVariety
  <2>2. CASE w # v
    BY <1>1, <1>5, <2>2 DEF LiveVariety, Inv, RowsInv, NoOrphan
  <2> QED
    BY <2>1, <2>2
<1>6. ASSUME NEW u \in Uses, use[u].kind # "NEW"
      PROVE  LiveCrop(use[u].crop) /\ (use[u].kind # "cycle" => use[u].variety # None)
  BY <1>6 DEF Inv, RowsInv, NoOrphan, UsesShaped, Shape
<1>7. NoOrphan'
  BY <1>4, <1>5, <1>6 DEF NoOrphan, LiveCrop
<1>8. RowsAgree'
  BY <1>4 DEF Inv, RowsInv, RowsAgree
<1>9. UsesShaped' /\ OneReview'
  BY DEF Inv, RowsInv, UsesShaped, Shape, OneReview
<1> QED
  BY <1>2, <1>3, <1>7, <1>8, <1>9 DEF RowsStep, RowsInv

LEMMA UseInserted ==
    ASSUME Inv, UNCHANGED <<crop, variety, order, review>>, NEW u \in Uses, NEW row \in UseRow,
           use[u].kind = "NEW", use' = [use EXCEPT ![u] = row],
           Fits(row), Accepted(row)
    PROVE  RowsStep
<1>1. /\ use' \in [Uses -> UseRow]
      /\ use'[u] = row
      /\ \A w \in Uses \ {u} : use'[w] = use[w]
  BY DEF Inv, TypeOK
<1>2. RowTypes'
  BY <1>1 DEF RowTypes, Inv, TypeOK
<1>3. RowsGrow
  BY <1>1 DEF RowsGrow, LiveCrop, LiveVariety
<1>4. UsesShaped'
  BY <1>1 DEF Inv, RowsInv, UsesShaped, Fits, Shape
<1>5. NoOrphan'
  <2>1. \A v \in Varieties : LiveVariety(v) => LiveCrop(variety[v].crop)
    BY DEF Inv, RowsInv, NoOrphan
  <2>2. ASSUME NEW w \in Uses, use'[w].kind # "NEW"
        PROVE  /\ LiveCrop(use'[w].crop)
               /\ use'[w].kind # "cycle" => LiveVariety(use'[w].variety)
    <3>1. CASE w = u
      BY <1>1, <3>1 DEF Fits, Shape, Accepted, LiveCrop, LiveVariety
    <3>2. CASE w # u
      BY <1>1, <2>2, <3>2 DEF Inv, RowsInv, NoOrphan, LiveCrop, LiveVariety
    <3> QED
      BY <3>1, <3>2
  <2> QED
    BY <2>1, <2>2 DEF NoOrphan, LiveCrop, LiveVariety
<1>6. RowsAgree'
  <2>1. ASSUME NEW w \in Uses \ {u}, use[w].kind # "NEW", use[w].of # None
        PROVE  use[w].of \in Uses \ {u}
    <3>1. use[w].of \in Uses
      BY <2>1, UseRowNames DEF Inv, TypeOK
    <3>2. use[use[w].of].crop = use[w].crop
      BY <2>1 DEF Inv, RowsInv, RowsAgree
    <3>3. use[w].crop # None
      BY <2>1 DEF Inv, RowsInv, UsesShaped, Shape
    <3>4. use[u].crop = None
      BY DEF Inv, RowsInv, UsesShaped
    <3> QED
      BY <3>1, <3>2, <3>3, <3>4
  <2>2. row.of # None => row.of \in Uses \ {u}
    BY UseRowNames DEF Fits
  <2>3. /\ row.owner = crop[row.crop].owner
        /\ row.variety # None => variety[row.variety].crop = row.crop
        /\ row.of # None => use[row.of].crop = row.crop /\ use[row.of].owner = row.owner
    BY DEF Fits, Accepted
  <2>4. ASSUME NEW w \in Uses \ {u}, use[w].kind # "NEW"
        PROVE  /\ use[w].owner = crop[use[w].crop].owner
               /\ use[w].variety # None => variety[use[w].variety].crop = use[w].crop
               /\ use[w].of # None => /\ use[use[w].of].crop = use[w].crop
                                      /\ use[use[w].of].owner = use[w].owner
    BY <2>4 DEF Inv, RowsInv, RowsAgree
  <2>5. ASSUME NEW w \in Uses, use'[w].kind # "NEW"
        PROVE  /\ use'[w].owner = crop[use'[w].crop].owner
               /\ use'[w].variety # None => variety[use'[w].variety].crop = use'[w].crop
               /\ use'[w].of # None => /\ use'[use'[w].of].crop = use'[w].crop
                                       /\ use'[use'[w].of].owner = use'[w].owner
    <3>1. CASE w = u
      BY <1>1, <2>2, <2>3, <3>1
    <3>2. CASE w # u
      <4>1. use'[w] = use[w] /\ use[w].kind # "NEW"
        BY <1>1, <2>5, <3>2
      <4>2. use[w].of # None => use'[use[w].of] = use[use[w].of]
        BY <1>1, <2>1, <3>2, <4>1
      <4> QED
        BY <2>4, <3>2, <4>1, <4>2
    <3> QED
      BY <3>1, <3>2
  <2> QED
    BY <2>5 DEF RowsAgree
<1>7. OneReview'
  BY DEF Inv, RowsInv, OneReview
<1> QED
  BY <1>2, <1>3, <1>4, <1>5, <1>6, <1>7 DEF RowsStep, RowsInv

LEMMA ReviewWritten ==
    ASSUME Inv, UNCHANGED <<crop, variety, use, order>>, NEW w \in Reviews, NEW row \in ReviewRow,
           review' = [review EXCEPT ![w] = row],
           row.order # review[w].order => ~Reviewed(row.order)
    PROVE  RowsStep
<1>1. /\ review' \in [Reviews -> ReviewRow]
      /\ review'[w] = row
      /\ \A x \in Reviews \ {w} : review'[x] = review[x]
  BY DEF Inv, TypeOK
<1>2. RowTypes'
  BY <1>1 DEF RowTypes, Inv, TypeOK
<1>3. OneReview'
  BY <1>1 DEF Inv, RowsInv, OneReview, Reviewed
<1>4. UsesShaped' /\ NoOrphan' /\ RowsAgree' /\ RowsGrow
  BY DEF Inv, RowsInv, UsesShaped, Shape, NoOrphan, RowsAgree, RowsGrow, LiveCrop,
         LiveVariety
<1> QED
  BY <1>2, <1>3, <1>4 DEF RowsStep, RowsInv

-------------------------------------------------------------------------------
(* What ends a request *)

\* A request whose write was done, or that dies, is idle.
LEMMA Ends ==
    ASSUME Inv, RowsStep, Observe, NEW r \in Requests, Becomes(r, Idle)
    PROVE  Inv'
<1>1. Sound(Idle)' /\ Passes(Idle)' /\ Idle.pc # "error"
  BY DEF Sound, Passes, Idle
<1> QED
  BY <1>1, MovesOn, ContinuationsContain

\* The schema refuses only the write of a request that another one overtook.
LEMMA Refused ==
    ASSUME Inv, UNCHANGED rows, Observe, NEW r \in Requests, Becomes(r, Error),
           ~Passes(req[r])
    PROVE  Inv'
<1>1. RowsStep
  BY RowsQuiet DEF rows, Inv, TypeOK
<1>2. req'[r] = Error
  BY BecomesType, ContinuationsContain DEF Inv
<1>3. r \in overtaken'
  <2>1. r \in overtaken
    BY DEF Inv, Fresh
  <2> QED
    BY <1>2, <2>1, ContinuationsContain DEF Observe
<1>4. Sound(Error)'
  BY DEF Sound, Error
<1> QED
  BY <1>1, <1>3, <1>4, MovesOn, ContinuationsContain

\* A request that has checked goes on to its write, and no row changes.
LEMMA ChecksOn ==
    ASSUME Inv, UNCHANGED rows, Observe, NEW r \in Requests, NEW cont \in Continuations,
           Becomes(r, cont), Sound(cont), Passes(cont), cont.pc # "error"
    PROVE  Inv'
<1>1. RowsStep
  BY RowsQuiet DEF rows, Inv, TypeOK
<1>2. Sound(cont)' /\ Passes(cont)'
  BY DEF rows, Sound, Fits, Shape, Passes, Accepted, CropTaken, VarietyTaken, LiveCrop,
         LiveVariety, CropReferenced, VarietyReferenced
<1> QED
  BY <1>1, <1>2, MovesOn

-------------------------------------------------------------------------------
(* The writes *)

LEMMA InsertCropStep ==
    ASSUME Inv, Observe, NEW r \in Requests, NEW c \in Crops, InsertCrop(r, c)
    PROVE  Inv'
<1>1. PICK g \in Growers, n \in Names : g = req[r].owner /\ n = req[r].name
  BY ContinuationType DEF InsertCrop, At, Inv
<1>2. CASE ~CropTaken(g, n, {})
  <2>1. /\ crop' = [crop EXCEPT ![c] = [state |-> "LIVE", owner |-> g, name |-> n]]
        /\ Becomes(r, Idle) /\ crop[c].state = "NEW"
        /\ UNCHANGED <<variety, use, order, review>>
    BY <1>1, <1>2 DEF InsertCrop
  <2>2. [state |-> "LIVE", owner |-> g, name |-> n] \in CropRow
    BY DEF CropRow
  <2>3. RowsStep
    BY <2>1, <2>2, CropWritten DEF LiveCrop
  <2> QED
    BY <2>1, <2>3, Ends
<1>3. CASE CropTaken(g, n, {})
  <2>1. UNCHANGED rows /\ Becomes(r, Error) /\ ~Passes(req[r])
    BY <1>1, <1>3 DEF InsertCrop, At, Passes, rows
  <2> QED
    BY <2>1, Refused
<1> QED
  BY <1>2, <1>3

LEMMA RenameCropStep ==
    ASSUME Inv, Observe, NEW r \in Requests, RenameCropRow(r)
    PROVE  Inv'
<1>1. PICK c \in Crops, n \in Names : c = req[r].crop /\ n = req[r].name
  BY ContinuationType DEF RenameCropRow, At, Inv
<1>2. CASE LiveCrop(c) /\ ~CropTaken(crop[c].owner, n, {c})
  <2>1. /\ crop' = [crop EXCEPT ![c] = [crop[c] EXCEPT !.name = n]]
        /\ Becomes(r, Idle)
        /\ UNCHANGED <<variety, use, order, review>>
    BY <1>1, <1>2 DEF RenameCropRow
  <2>2. crop[c] \in [state : {"LIVE"}, owner : Growers, name : Names]
    BY <1>2 DEF LiveCrop, Inv, TypeOK, CropRow, Absent
  <2>3. /\ [crop[c] EXCEPT !.name = n] \in [state : {"LIVE"}, owner : Growers, name : Names]
        /\ [crop[c] EXCEPT !.name = n].state = "LIVE"
        /\ [crop[c] EXCEPT !.name = n].owner = crop[c].owner
    BY <2>2
  <2>4. [crop[c] EXCEPT !.name = n] \in CropRow
    BY <2>3 DEF CropRow
  <2>5. RowsStep
    BY <1>2, <2>1, <2>3, <2>4, CropWritten
  <2> QED
    BY <2>1, <2>5, Ends
<1>3. CASE ~(LiveCrop(c) /\ ~CropTaken(crop[c].owner, n, {c}))
  <2>1. UNCHANGED rows /\ Becomes(r, Error) /\ ~Passes(req[r])
    BY <1>1, <1>3 DEF RenameCropRow, At, Passes, rows
  <2> QED
    BY <2>1, Refused
<1> QED
  BY <1>2, <1>3

LEMMA DeleteCropStep ==
    ASSUME Inv, Observe, NEW r \in Requests, DeleteCropRow(r)
    PROVE  Inv'
<1>1. PICK c \in Crops : c = req[r].crop
  BY ContinuationType DEF DeleteCropRow, At, Inv
<1>2. CASE LiveCrop(c) /\ ~CropReferenced(c)
  <2>1. /\ crop' = [crop EXCEPT ![c] = [state |-> "DELETED", owner |-> None, name |-> None]]
        /\ Becomes(r, Idle)
        /\ UNCHANGED <<variety, use, order, review>>
    BY <1>1, <1>2 DEF DeleteCropRow
  <2>2. [state |-> "DELETED", owner |-> None, name |-> None] \in CropRow
    BY DEF CropRow, Absent
  <2>3. RowsStep
    BY <1>2, <2>1, <2>2, CropWritten
  <2> QED
    BY <2>1, <2>3, Ends
<1>3. CASE ~(LiveCrop(c) /\ ~CropReferenced(c))
  <2>1. UNCHANGED rows /\ Becomes(r, Error) /\ ~Passes(req[r])
    BY <1>1, <1>3 DEF DeleteCropRow, At, Passes, rows
  <2> QED
    BY <2>1, Refused
<1> QED
  BY <1>2, <1>3

LEMMA InsertVarietyStep ==
    ASSUME Inv, Observe, NEW r \in Requests, NEW v \in Varieties, InsertVariety(r, v)
    PROVE  Inv'
<1>1. PICK c \in Crops, n \in Names : c = req[r].crop /\ n = req[r].name
  BY ContinuationType DEF InsertVariety, At, Inv
<1>2. CASE LiveCrop(c) /\ ~VarietyTaken(c, n, {})
  <2>1. /\ variety' = [variety EXCEPT ![v] = [state |-> "LIVE", crop |-> c, name |-> n]]
        /\ Becomes(r, Idle) /\ variety[v].state = "NEW"
        /\ UNCHANGED <<crop, use, order, review>>
    BY <1>1, <1>2 DEF InsertVariety
  <2>2. [state |-> "LIVE", crop |-> c, name |-> n] \in VarietyRow
    BY DEF VarietyRow
  <2>3. RowsStep
    BY <1>2, <2>1, <2>2, VarietyWritten DEF LiveVariety
  <2> QED
    BY <2>1, <2>3, Ends
<1>3. CASE ~(LiveCrop(c) /\ ~VarietyTaken(c, n, {}))
  <2>1. UNCHANGED rows /\ Becomes(r, Error) /\ ~Passes(req[r])
    BY <1>1, <1>3 DEF InsertVariety, At, Passes, rows
  <2> QED
    BY <2>1, Refused
<1> QED
  BY <1>2, <1>3

LEMMA RenameVarietyStep ==
    ASSUME Inv, Observe, NEW r \in Requests, RenameVarietyRow(r)
    PROVE  Inv'
<1>1. PICK v \in Varieties, n \in Names : v = req[r].variety /\ n = req[r].name
  BY ContinuationType DEF RenameVarietyRow, At, Inv
<1>2. CASE LiveVariety(v) /\ ~VarietyTaken(variety[v].crop, n, {v})
  <2>1. /\ variety' = [variety EXCEPT ![v] = [variety[v] EXCEPT !.name = n]]
        /\ Becomes(r, Idle)
        /\ UNCHANGED <<crop, use, order, review>>
    BY <1>1, <1>2 DEF RenameVarietyRow
  <2>2. /\ variety[v] \in [state : {"LIVE"}, crop : Crops, name : Names]
        /\ LiveCrop(variety[v].crop)
    BY <1>2 DEF LiveVariety, Inv, TypeOK, VarietyRow, Absent, RowsInv, NoOrphan
  <2>3. /\ [variety[v] EXCEPT !.name = n] \in [state : {"LIVE"}, crop : Crops, name : Names]
        /\ [variety[v] EXCEPT !.name = n].state = "LIVE"
        /\ [variety[v] EXCEPT !.name = n].crop = variety[v].crop
    BY <2>2
  <2>4. [variety[v] EXCEPT !.name = n] \in VarietyRow
    BY <2>3 DEF VarietyRow
  <2>5. RowsStep
    BY <1>2, <2>1, <2>2, <2>3, <2>4, VarietyWritten
  <2> QED
    BY <2>1, <2>5, Ends
<1>3. CASE ~(LiveVariety(v) /\ ~VarietyTaken(variety[v].crop, n, {v}))
  <2>1. UNCHANGED rows /\ Becomes(r, Error) /\ ~Passes(req[r])
    BY <1>1, <1>3 DEF RenameVarietyRow, At, Passes, rows
  <2> QED
    BY <2>1, Refused
<1> QED
  BY <1>2, <1>3

LEMMA DeleteVarietyStep ==
    ASSUME Inv, Observe, NEW r \in Requests, DeleteVarietyRow(r)
    PROVE  Inv'
<1>1. PICK v \in Varieties : v = req[r].variety
  BY ContinuationType DEF DeleteVarietyRow, At, Inv
<1>2. CASE LiveVariety(v) /\ ~VarietyReferenced(v)
  <2>1. /\ variety' = [variety EXCEPT ![v] =
                          [state |-> "DELETED", crop |-> None, name |-> None]]
        /\ Becomes(r, Idle)
        /\ UNCHANGED <<crop, use, order, review>>
    BY <1>1, <1>2 DEF DeleteVarietyRow
  <2>2. [state |-> "DELETED", crop |-> None, name |-> None] \in VarietyRow
    BY DEF VarietyRow, Absent
  <2>3. RowsStep
    BY <1>2, <2>1, <2>2, VarietyWritten
  <2> QED
    BY <2>1, <2>3, Ends
<1>3. CASE ~(LiveVariety(v) /\ ~VarietyReferenced(v))
  <2>1. UNCHANGED rows /\ Becomes(r, Error) /\ ~Passes(req[r])
    BY <1>1, <1>3 DEF DeleteVarietyRow, At, Passes, rows
  <2> QED
    BY <2>1, Refused
<1> QED
  BY <1>2, <1>3

LEMMA InsertUseStep ==
    ASSUME Inv, Observe, NEW r \in Requests, NEW u \in Uses, InsertUse(r, u)
    PROVE  Inv'
<1>1. PICK row \in UseRow : row = req[r].row /\ Fits(row)
  BY ContinuationType DEF InsertUse, At, Inv, Sound
<1>2. CASE Accepted(row)
  <2>1. /\ use' = [use EXCEPT ![u] = row]
        /\ Becomes(r, Idle) /\ use[u].kind = "NEW"
        /\ UNCHANGED <<crop, variety, order, review>>
    BY <1>1, <1>2 DEF InsertUse, Accepted
  <2>2. RowsStep
    BY <1>1, <1>2, <2>1, UseInserted
  <2> QED
    BY <2>1, <2>2, Ends
<1>3. CASE ~Accepted(row)
  <2>1. UNCHANGED rows /\ Becomes(r, Error) /\ ~Passes(req[r])
    BY <1>1, <1>3 DEF InsertUse, At, Accepted, Passes, rows
  <2> QED
    BY <2>1, Refused
<1> QED
  BY <1>2, <1>3

LEMMA InsertReviewStep ==
    ASSUME Inv, Observe, NEW r \in Requests, NEW w \in Reviews, InsertReview(r, w)
    PROVE  Inv'
<1>1. PICK o \in Orders : o = req[r].order
  BY ContinuationType DEF InsertReview, At, Inv
<1>2. CASE ~Reviewed(o)
  <2>1. /\ review' = [review EXCEPT ![w] = [order |-> o, hidden |-> FALSE]]
        /\ Becomes(r, Idle)
        /\ UNCHANGED <<crop, variety, use, order>>
    BY <1>1, <1>2 DEF InsertReview, ReviewIndex
  <2>2. [order |-> o, hidden |-> FALSE] \in ReviewRow
    BY DEF ReviewRow
  <2>3. RowsStep
    BY <1>2, <2>1, <2>2, ReviewWritten
  <2> QED
    BY <2>1, <2>3, Ends
<1>3. CASE Reviewed(o)
  <2>1. UNCHANGED rows /\ Becomes(r, Idle)
    BY <1>1, <1>3 DEF InsertReview, ReviewIndex, Duplicate, rows
  <2>2. RowsStep
    BY <2>1, RowsQuiet DEF rows, Inv, TypeOK
  <2> QED
    BY <2>1, <2>2, Ends
<1> QED
  BY <1>2, <1>3

LEMMA WriteHiddenStep ==
    ASSUME Inv, Observe, NEW r \in Requests, WriteHidden(r)
    PROVE  Inv'
<1>1. PICK w \in Reviews, h \in BOOLEAN :
         review' = [review EXCEPT ![w] = [review[w] EXCEPT !.hidden = h]]
  <2>1. req[r].review \in Reviews
    BY ContinuationType DEF WriteHidden, At, Inv
  <2>2. At(r, "hide") \in BOOLEAN
    BY DEF At
  <2> QED
    BY <2>1, <2>2 DEF WriteHidden
<1>2. review[w] \in ReviewRow
  BY DEF Inv, TypeOK
<1>3. /\ [review[w] EXCEPT !.hidden = h] \in ReviewRow
      /\ [review[w] EXCEPT !.hidden = h].order = review[w].order
  BY <1>2 DEF ReviewRow
<1>4. RowsStep
  BY <1>1, <1>3, ReviewWritten DEF WriteHidden
<1> QED
  BY <1>4, Ends DEF WriteHidden

-------------------------------------------------------------------------------
(* The checks *)

\* The creations and renamings of crops and varieties, their deletions, and reviews: what
\* was checked is what the constraints will demand.
LEMMA CheckSteps ==
    ASSUME Inv, Observe, NEW r \in Requests
    PROVE  /\ \A g \in Growers, n \in Names : StartCreateCrop(r, g, n) => Inv'
           /\ \A c \in Crops, n \in Names :
                 StartRenameCrop(r, c, n) \/ StartCreateVariety(r, c, n) => Inv'
           /\ \A v \in Varieties, n \in Names : StartRenameVariety(r, v, n) => Inv'
           /\ \A c \in Crops : StartRemoveCrop(r, c) => Inv'
           /\ \A v \in Varieties : StartRemoveVariety(r, v) => Inv'
           /\ \A o \in Orders : StartReview(r, o) => Inv'
           /\ \A w \in Reviews : StartHide(r, w) \/ StartUnhide(r, w) => Inv'
<1>1. ASSUME NEW g \in Growers, NEW n \in Names, StartCreateCrop(r, g, n) PROVE Inv'
  <2> DEFINE cont == [pc |-> "insertCrop", owner |-> g, name |-> n]
  <2>1. cont \in Continuations /\ cont.pc # "error" /\ Sound(cont)
    BY ContinuationsContain DEF Sound
  <2>2. UNCHANGED rows /\ Becomes(r, cont) /\ Passes(cont)
    BY <1>1 DEF StartCreateCrop, Passes
  <2> QED
    BY <2>1, <2>2, ChecksOn
<1>2. ASSUME NEW c \in Crops, NEW n \in Names, StartRenameCrop(r, c, n) PROVE Inv'
  <2> DEFINE cont == [pc |-> "renameCrop", crop |-> c, name |-> n]
  <2>1. cont \in Continuations /\ cont.pc # "error" /\ Sound(cont)
    BY ContinuationsContain DEF Sound
  <2>2. UNCHANGED rows /\ Becomes(r, cont) /\ Passes(cont)
    BY <1>2 DEF StartRenameCrop, Passes
  <2> QED
    BY <2>1, <2>2, ChecksOn
<1>3. ASSUME NEW c \in Crops, NEW n \in Names, StartCreateVariety(r, c, n) PROVE Inv'
  <2> DEFINE cont == [pc |-> "insertVariety", crop |-> c, name |-> n]
  <2>1. cont \in Continuations /\ cont.pc # "error" /\ Sound(cont)
    BY ContinuationsContain DEF Sound
  <2>2. UNCHANGED rows /\ Becomes(r, cont) /\ Passes(cont)
    BY <1>3 DEF StartCreateVariety, Passes
  <2> QED
    BY <2>1, <2>2, ChecksOn
<1>4. ASSUME NEW v \in Varieties, NEW n \in Names, StartRenameVariety(r, v, n) PROVE Inv'
  <2> DEFINE cont == [pc |-> "renameVariety", variety |-> v, name |-> n]
  <2>1. cont \in Continuations /\ cont.pc # "error" /\ Sound(cont)
    BY ContinuationsContain DEF Sound
  <2>2. UNCHANGED rows /\ Becomes(r, cont) /\ Passes(cont)
    BY <1>4 DEF StartRenameVariety, Passes
  <2> QED
    BY <2>1, <2>2, ChecksOn
<1>5. ASSUME NEW c \in Crops, StartRemoveCrop(r, c) PROVE Inv'
  <2> DEFINE cont == [pc |-> "deleteCrop", crop |-> c]
  <2>1. cont \in Continuations /\ cont.pc # "error" /\ Sound(cont)
    BY ContinuationsContain DEF Sound
  <2>2. UNCHANGED rows /\ Becomes(r, cont) /\ Passes(cont)
    BY <1>5 DEF StartRemoveCrop, Passes, CropInUse, CropReferenced
  <2> QED
    BY <2>1, <2>2, ChecksOn
<1>6. ASSUME NEW v \in Varieties, StartRemoveVariety(r, v) PROVE Inv'
  <2> DEFINE cont == [pc |-> "deleteVariety", variety |-> v]
  <2>1. cont \in Continuations /\ cont.pc # "error" /\ Sound(cont)
    BY ContinuationsContain DEF Sound
  <2>2. ASSUME NEW u \in Uses, use[u].variety = v
        PROVE  use[u].kind \in {"batch", "listing"}
    <3>1. v # None /\ use[u].kind \in {"NEW", "cycle", "batch", "listing"}
      BY NoneAssumption DEF Inv, TypeOK, UseRow
    <3> QED
      BY <2>2, <3>1 DEF Inv, RowsInv, UsesShaped, Shape
  <2>3. ~VarietyReferenced(v)
    BY <1>6, <2>2 DEF StartRemoveVariety, VarietyInUse, VarietyReferenced
  <2>4. UNCHANGED rows /\ Becomes(r, cont) /\ Passes(cont)
    BY <1>6, <2>3 DEF StartRemoveVariety, Passes
  <2> QED
    BY <2>1, <2>4, ChecksOn
<1>7. ASSUME NEW o \in Orders, StartReview(r, o) PROVE Inv'
  <2> DEFINE cont == [pc |-> "insertReview", order |-> o]
  <2>1. cont \in Continuations /\ cont.pc # "error" /\ Sound(cont) /\ Passes(cont)
    BY ContinuationsContain DEF Sound, Passes
  <2> QED
    BY <1>7, <2>1, ChecksOn DEF StartReview
<1>8. ASSUME NEW w \in Reviews, NEW pc \in {"hide", "unhide"}, UNCHANGED rows,
             Becomes(r, [pc |-> pc, review |-> w])
      PROVE  Inv'
  <2> DEFINE cont == [pc |-> pc, review |-> w]
  <2>1. cont \in Continuations /\ cont.pc # "error" /\ Sound(cont) /\ Passes(cont)
    BY ContinuationsContain DEF Sound, Passes
  <2> QED
    BY <1>8, <2>1, ChecksOn
<1>9. ASSUME NEW w \in Reviews, StartHide(r, w) \/ StartUnhide(r, w) PROVE Inv'
  BY <1>8, <1>9 DEF StartHide, StartUnhide
<1> QED
  BY <1>1, <1>2, <1>3, <1>4, <1>5, <1>6, <1>7, <1>9

\* A row that agrees with the rows it names, which are there.
LEMMA UseChecked ==
    ASSUME Inv, Observe, NEW r \in Requests, NEW row \in UseRow, StartInsert(r, row),
           Fits(row), Accepted(row)
    PROVE  Inv'
<1>1. [pc |-> "insertUse", row |-> row] \in Continuations
  BY ContinuationsContain
<1>2. /\ Sound([pc |-> "insertUse", row |-> row])
      /\ Passes([pc |-> "insertUse", row |-> row])
  BY DEF Sound, Passes
<1> QED
  BY <1>1, <1>2, ChecksOn DEF StartInsert

LEMMA StartUseSteps ==
    ASSUME Inv, Observe, NEW r \in Requests
    PROVE  /\ \A c \in Crops : StartCycle(r, c) => Inv'
           /\ \A c \in Crops, v \in Varieties : StartListing(r, c, v) => Inv'
           /\ \A c \in Crops, v \in Varieties, y \in Uses : StartBatch(r, c, v, y) => Inv'
           /\ \A b \in Uses : StartDraft(r, b) => Inv'
<1>0. ASSUME NEW c \in Crops, LiveCrop(c) PROVE crop[c].owner \in Growers
  BY <1>0 DEF LiveCrop, Inv, TypeOK, CropRow, Absent
<1>1. ASSUME NEW c \in Crops, StartCycle(r, c) PROVE Inv'
  <2> DEFINE row == [kind |-> "cycle", owner |-> crop[c].owner, crop |-> c,
                     variety |-> None, of |-> None]
  <2>1. LiveCrop(c) /\ StartInsert(r, row)
    BY <1>1 DEF StartCycle
  <2>2. row \in UseRow
    BY <1>0, <2>1 DEF UseRow
  <2>3. Fits(row) /\ Accepted(row)
    BY <2>1, NoneAssumption DEF Fits, Shape, Accepted, LiveCrop
  <2> QED
    BY <2>1, <2>2, <2>3, UseChecked
<1>2. ASSUME NEW c \in Crops, NEW v \in Varieties, StartListing(r, c, v) PROVE Inv'
  <2> DEFINE row == [kind |-> "listing", owner |-> crop[c].owner, crop |-> c,
                     variety |-> v, of |-> None]
  <2>1. LiveCrop(c) /\ LiveVariety(v) /\ variety[v].crop = c /\ StartInsert(r, row)
    BY <1>2 DEF StartListing, VarietyFound
  <2>2. row \in UseRow
    BY <1>0, <2>1 DEF UseRow
  <2>3. Fits(row) /\ Accepted(row)
    BY <2>1, NoneAssumption DEF Fits, Shape, Accepted, LiveCrop, LiveVariety
  <2> QED
    BY <2>1, <2>2, <2>3, UseChecked
<1>3. ASSUME NEW c \in Crops, NEW v \in Varieties, NEW y \in Uses, StartBatch(r, c, v, y)
      PROVE  Inv'
  <2> DEFINE row == [kind |-> "batch", owner |-> crop[c].owner, crop |-> c,
                     variety |-> v, of |-> y]
  <2>1. /\ LiveCrop(c) /\ LiveVariety(v) /\ variety[v].crop = c /\ StartInsert(r, row)
        /\ use[y].kind = "cycle" /\ use[y].owner = crop[c].owner /\ use[y].crop = c
    BY <1>3 DEF StartBatch, VarietyFound, CycleFound
  <2>2. row \in UseRow
    BY <1>0, <2>1 DEF UseRow
  <2>3. Fits(row) /\ Accepted(row)
    BY <2>1, NoneAssumption DEF Fits, Shape, Accepted, LiveCrop, LiveVariety
  <2> QED
    BY <2>1, <2>2, <2>3, UseChecked
<1>4. ASSUME NEW b \in Uses, StartDraft(r, b) PROVE Inv'
  <2>1. PICK row \in UseRow :
           /\ row.kind = "listing" /\ row.of = b /\ row.owner = use[b].owner
           /\ row.crop = use[b].crop /\ row.variety = use[b].variety
           /\ StartInsert(r, row)
    <3>1. use[b] \in UseRow
      BY DEF Inv, TypeOK
    <3>2. [use[b] EXCEPT !.kind = "listing", !.of = b] \in UseRow
      BY <3>1 DEF UseRow
    <3>3. StartInsert(r, [use[b] EXCEPT !.kind = "listing", !.of = b])
      BY <1>4 DEF StartDraft
    <3> QED
      BY <3>1, <3>2, <3>3 DEF UseRow
  <2>2. /\ use[b].kind = "batch"
        /\ \A u \in Uses : use[u].kind = "listing" => use[u].of # b
    BY <1>4 DEF StartDraft
  <2>3. /\ Shape(use[b]) /\ LiveCrop(use[b].crop) /\ LiveVariety(use[b].variety)
        /\ use[b].owner = crop[use[b].crop].owner
        /\ use[b].variety # None => variety[use[b].variety].crop = use[b].crop
    BY <2>2 DEF Inv, RowsInv, UsesShaped, NoOrphan, RowsAgree
  <2>4. Fits(row)
    BY <2>1, <2>2, <2>3 DEF Fits, Shape, LiveCrop, LiveVariety
  <2>5. Accepted(row)
    BY <2>1, <2>2, <2>3 DEF Accepted
  <2> QED
    BY <2>1, <2>4, <2>5, UseChecked
<1> QED
  BY <1>1, <1>2, <1>3, <1>4

-------------------------------------------------------------------------------
(* The invariant *)

LEMMA InvInit == Init => Inv
<1> SUFFICES ASSUME Init PROVE Inv
  OBVIOUS
<1>1. TypeOK
  <2>1. /\ [state |-> "NEW", owner |-> None, name |-> None] \in CropRow
        /\ [state |-> "NEW", crop |-> None, name |-> None] \in VarietyRow
        /\ [kind |-> "NEW", owner |-> None, crop |-> None, variety |-> None, of |-> None]
              \in UseRow
        /\ [order |-> None, hidden |-> FALSE] \in ReviewRow
    BY DEF CropRow, VarietyRow, UseRow, ReviewRow, Absent
  <2> QED
    BY <2>1, ContinuationsContain DEF Init, TypeOK
<1>2. RowsInv
  BY DEF Init, RowsInv, UsesShaped, NoOrphan, RowsAgree, OneReview, LiveVariety
<1>3. Fresh
  BY DEF Init, Fresh, Passes, At, Idle
<1>4. \A r \in Requests : Sound(req[r])
  BY DEF Init, Sound, Idle
<1> QED
  BY <1>1, <1>2, <1>3, <1>4 DEF Inv

LEMMA HandleStep ==
    ASSUME Inv, Observe, NEW r \in Requests, Handle(r)
    PROVE  Inv'
<1>1. CASE Reply(r) \/ Abort(r)
  <2>1. RowsStep
    BY <1>1, RowsQuiet DEF Reply, Abort, rows, Inv, TypeOK
  <2> QED
    BY <1>1, <2>1, Ends DEF Reply, Abort
<1>2. CASE \/ \E c \in Crops : InsertCrop(r, c)
           \/ \E v \in Varieties : InsertVariety(r, v)
           \/ \E u \in Uses : InsertUse(r, u)
           \/ \E w \in Reviews : InsertReview(r, w)
           \/ RenameCropRow(r) \/ DeleteCropRow(r)
           \/ RenameVarietyRow(r) \/ DeleteVarietyRow(r) \/ WriteHidden(r)
  BY <1>2, InsertCropStep, InsertVarietyStep, InsertUseStep, InsertReviewStep,
     RenameCropStep, DeleteCropStep, RenameVarietyStep, DeleteVarietyStep, WriteHiddenStep
<1> QED
  BY <1>1, <1>2, CheckSteps, StartUseSteps DEF Handle

LEMMA InvStep == Inv /\ [Next]_vars => Inv'
<1> SUFFICES ASSUME Inv, [Next]_vars PROVE Inv'
  OBVIOUS
<1>1. ASSUME NEW r \in Requests, Handle(r), Observe PROVE Inv'
  BY <1>1, HandleStep
<1>2. ASSUME NEW o \in Orders, Advance(o) \/ Dispute(o), Observe PROVE Inv'
  <2>1. UNCHANGED <<crop, variety, use, review, req>>
    BY <1>2 DEF Advance, Dispute
  <2>2. order' \in [Orders -> {"OPEN", "FULFILLED"}]
    BY <1>2 DEF Advance, Dispute, Inv, TypeOK
  <2>3. RowsStep
    BY <2>1, <2>2, RowsQuiet
  <2>4. \A s \in Requests : Sound(req[s])'
    BY <2>1, <2>3, StaysSound
  <2>5. Fresh'
    BY <1>2, <2>1, StaysFresh DEF Fresh
  <2>6. TypeOK'
    BY <1>2, <2>1, <2>3 DEF RowsStep, RowTypes, TypeOK, Observe, Inv
  <2> QED
    BY <2>3, <2>4, <2>5, <2>6 DEF Inv, RowsStep
<1>3. CASE UNCHANGED vars
  <2>1. UNCHANGED rows /\ UNCHANGED req /\ UNCHANGED overtaken
    BY <1>3 DEF vars
  <2>2. RowsStep
    BY <2>1, RowsQuiet DEF rows, Inv, TypeOK
  <2>3. \A s \in Requests : Sound(req[s])'
    BY <2>1, <2>2, StaysSound
  <2>4. Fresh'
    BY <2>1 DEF Inv, Fresh, rows, Passes, At, Accepted, CropTaken, VarietyTaken, LiveCrop,
                LiveVariety, CropReferenced, VarietyReferenced
  <2>5. TypeOK'
    BY <2>1, <2>2 DEF RowsStep, RowTypes, TypeOK, Inv
  <2> QED
    BY <2>2, <2>3, <2>4, <2>5 DEF Inv, RowsStep
<1> QED
  BY <1>1, <1>2, <1>3 DEF Next

\* Every reachable state has the inductive invariant.
LEMMA InvHolds == Spec => []Inv
  BY InvInit, InvStep, PTL DEF Spec

-------------------------------------------------------------------------------
(* Theorems *)

\* The rows of the catalog and the continuations of its services keep their types.
THEOREM CatalogTypeCorrect == Spec => []TypeOK
  BY InvHolds, PTL DEF Inv

\* No row names a crop or a variety that is gone, whatever creations, renamings and
\* deletions of CropsService and VarietiesService overlap.
THEOREM NoOrphans == Spec => []NoOrphan
<1>1. Inv => NoOrphan
  BY DEF Inv, RowsInv
<1> QED
  BY <1>1, InvHolds, PTL

\* Crop, variety, owner, cycle and batch of a row agree, which only the lookups of the
\* create handlers ensure.
THEOREM RowsAgreeAlways == Spec => []RowsAgree
<1>1. Inv => RowsAgree
  BY DEF Inv, RowsInv
<1> QED
  BY <1>1, InvHolds, PTL

\* A request answered with a 500 was overtaken: the checks of the handlers cover every
\* constraint of the schema their writes meet.
THEOREM ChecksSuffice == Spec => []ErrorOnlyIfOvertaken
<1>1. Inv => ErrorOnlyIfOvertaken
  BY DEF Inv, Fresh, ErrorOnlyIfOvertaken
<1> QED
  BY <1>1, InvHolds, PTL

\* ReviewsService.create makes one review of an order at most.
THEOREM ReviewedOnce == Spec => []OneReview
<1>1. Inv => OneReview
  BY DEF Inv, RowsInv
<1> QED
  BY <1>1, InvHolds, PTL

===============================================================================
