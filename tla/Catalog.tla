-------------------------------- MODULE Catalog --------------------------------
(*****************************************************************************)
(* A grower's crops and varieties, the cycles, batches and listings that     *)
(* name them, and the reviews of orders: rows that requests create, rename,  *)
(* use and delete behind each other's back.                                  *)
(*                                                                           *)
(* Every handler looks first (does the name exist, is the crop mine, is it   *)
(* in use) and writes in a later statement.  A write that comes too late is  *)
(* refused by a unique index or a foreign key of schema.prisma; no handler   *)
(* but the one for reviews catches that, so it becomes a 500, the "error"    *)
(* below.  Milestones, harvest and the deletion of cycles are in Growing.    *)
(*****************************************************************************)
EXTENDS FiniteSets

CONSTANTS
    Growers, Crops, Varieties, Uses, Orders, Reviews,    \* ids of rows
    Names,        \* names of crops and varieties
    Requests,     \* slots for requests in flight
    None

ASSUME NoneAssumption == 
    None \notin Crops \cup Varieties \cup Uses \cup Growers \cup Names \cup Orders

VARIABLES
    crop,         \* the Crop rows
    variety,      \* the Variety rows
    use,          \* the Cycle, Batch and Listing rows
    order,        \* the status of each order, as far as a review depends on it
    review,       \* the Review rows
    req,          \* the continuation of each request in flight
    overtaken     \* history: requests in flight since whose check another one wrote

rows == <<crop, variety, use, order, review>>
vars == <<rows, req, overtaken>>

-------------------------------------------------------------------------------
(* Rows and continuations *)

Absent == {"NEW", "DELETED"}
CropRow ==
    [state : Absent, owner : {None}, name : {None}]
    \cup [state : {"LIVE"}, owner : Growers, name : Names]
VarietyRow ==
    [state : Absent, crop : {None}, name : {None}]
    \cup [state : {"LIVE"}, crop : Crops, name : Names]
UseRow == [kind : {"NEW", "cycle", "batch", "listing"}, owner : Growers \cup {None},
           crop : Crops \cup {None}, variety : Varieties \cup {None}, of : Uses \cup {None}]
ReviewRow == [order : Orders \cup {None}, hidden : BOOLEAN]

Idle == [pc |-> "idle"]
Error == [pc |-> "error"]      \* the write was refused and a 500 is on its way
Continuations ==
    {Idle, Error}
    \cup [pc : {"insertCrop"}, owner : Growers, name : Names]
    \cup [pc : {"renameCrop"}, crop : Crops, name : Names]
    \cup [pc : {"deleteCrop"}, crop : Crops]
    \cup [pc : {"insertVariety"}, crop : Crops, name : Names]
    \cup [pc : {"renameVariety"}, variety : Varieties, name : Names]
    \cup [pc : {"deleteVariety"}, variety : Varieties]
    \cup [pc : {"insertUse"}, row : UseRow]
    \cup [pc : {"insertReview"}, order : Orders]
    \cup [pc : {"hide", "unhide"}, review : Reviews]

At(r, pc) == req[r].pc = pc
Becomes(r, cont) == req' = [req EXCEPT ![r] = cont]

Init ==
    /\ crop = [c \in Crops |-> [state |-> "NEW", owner |-> None, name |-> None]]
    /\ variety = [v \in Varieties |-> [state |-> "NEW", crop |-> None, name |-> None]]
    /\ use = [u \in Uses |-> [kind |-> "NEW", owner |-> None, crop |-> None,
                              variety |-> None, of |-> None]]
    /\ order = [o \in Orders |-> "OPEN"]
    /\ review = [w \in Reviews |-> [order |-> None, hidden |-> FALSE]]
    /\ req = [r \in Requests |-> Idle]
    /\ overtaken = {}

-------------------------------------------------------------------------------
(* The conditions of the handlers, and the constraints of the schema.         *)
(* Variants named <definition>_<fault> are the definition with one plausible  *)
(* fault; no action uses them.                                                *)

LiveCrop(c) == crop[c].state = "LIVE"
LiveVariety(v) == variety[v].state = "LIVE"
\* Checked by the handlers, and behind them by the unique indexes on [ownerId, name] and
\* [cropId, name].
CropTaken(g, n, except) ==
    \E c \in Crops \ except : LiveCrop(c) /\ crop[c].owner = g /\ crop[c].name = n
VarietyTaken(c, n, except) ==
    \E v \in Varieties \ except : LiveVariety(v) /\ variety[v].crop = c /\ variety[v].name = n

\* The foreign keys that point at a crop, and at a variety.
CropReferenced_ByVarietyOnly(c) == \E v \in Varieties : LiveVariety(v) /\ variety[v].crop = c
CropReferenced(c) ==
    \/ \E v \in Varieties : LiveVariety(v) /\ variety[v].crop = c
    \/ \E u \in Uses : use[u].crop = c
VarietyReferenced(v) == \E u \in Uses : use[u].variety = v

\* What remove counts before it deletes a crop, and a variety.
CropInUse_ForgetsCycles(c) ==
    \/ \E v \in Varieties : LiveVariety(v) /\ variety[v].crop = c
    \/ \E u \in Uses : use[u].crop = c /\ use[u].kind # "cycle"
CropInUse(c) ==
    \/ \E v \in Varieties : LiveVariety(v) /\ variety[v].crop = c
    \/ \E u \in Uses : use[u].crop = c
VarietyInUse(v) == \E u \in Uses : use[u].variety = v /\ use[u].kind \in {"batch", "listing"}

\* The lookup { id, cropId } of a variety.
VarietyFound_AnyCrop(v, c) == LiveVariety(v)
VarietyFound(v, c) == LiveVariety(v) /\ variety[v].crop = c

-------------------------------------------------------------------------------
(* CropsService *)

StartCreateCrop(r, g, n) ==
    /\ req[r] = Idle /\ ~CropTaken(g, n, {})
    /\ Becomes(r, [pc |-> "insertCrop", owner |-> g, name |-> n])
    /\ UNCHANGED rows

InsertCrop(r, c) ==
    /\ At(r, "insertCrop") /\ crop[c].state = "NEW"
    /\ LET g == req[r].owner
           n == req[r].name
       IN IF ~CropTaken(g, n, {})
          THEN /\ crop' = [crop EXCEPT ![c] = [state |-> "LIVE", owner |-> g, name |-> n]]
               /\ Becomes(r, Idle)
          ELSE UNCHANGED crop /\ Becomes(r, Error)
    /\ UNCHANGED <<variety, use, order, review>>

StartRenameCrop(r, c, n) ==
    /\ req[r] = Idle /\ LiveCrop(c) /\ ~CropTaken(crop[c].owner, n, {c})
    /\ Becomes(r, [pc |-> "renameCrop", crop |-> c, name |-> n])
    /\ UNCHANGED rows

RenameCropRow(r) ==
    /\ At(r, "renameCrop")
    /\ LET c == req[r].crop
           n == req[r].name
       IN IF LiveCrop(c) /\ ~CropTaken(crop[c].owner, n, {c})
          THEN crop' = [crop EXCEPT ![c].name = n] /\ Becomes(r, Idle)
          ELSE UNCHANGED crop /\ Becomes(r, Error)
    /\ UNCHANGED <<variety, use, order, review>>

StartRemoveCrop(r, c) ==
    /\ req[r] = Idle /\ LiveCrop(c) /\ ~CropInUse(c)
    /\ Becomes(r, [pc |-> "deleteCrop", crop |-> c])
    /\ UNCHANGED rows

DeleteCropRow_KeepsName(r) ==
    /\ At(r, "deleteCrop")
    /\ LET c == req[r].crop IN
       IF LiveCrop(c) /\ ~CropReferenced(c)
       THEN /\ crop' = [crop EXCEPT ![c] = [@ EXCEPT !.state = "DELETED"]]
            /\ Becomes(r, Idle)
       ELSE UNCHANGED crop /\ Becomes(r, Error)
    /\ UNCHANGED <<variety, use, order, review>>
DeleteCropRow(r) ==
    /\ At(r, "deleteCrop")
    /\ LET c == req[r].crop IN
       IF LiveCrop(c) /\ ~CropReferenced(c)
       THEN /\ crop' = [crop EXCEPT ![c] = [state |-> "DELETED", owner |-> None, name |-> None]]
            /\ Becomes(r, Idle)
       ELSE UNCHANGED crop /\ Becomes(r, Error)
    /\ UNCHANGED <<variety, use, order, review>>

-------------------------------------------------------------------------------
(* VarietiesService *)

StartCreateVariety(r, c, n) ==
    /\ req[r] = Idle /\ LiveCrop(c) /\ ~VarietyTaken(c, n, {})
    /\ Becomes(r, [pc |-> "insertVariety", crop |-> c, name |-> n])
    /\ UNCHANGED rows

InsertVariety(r, v) ==
    /\ At(r, "insertVariety") /\ variety[v].state = "NEW"
    /\ LET c == req[r].crop
           n == req[r].name
       IN IF LiveCrop(c) /\ ~VarietyTaken(c, n, {})
          THEN /\ variety' = [variety EXCEPT ![v] = [state |-> "LIVE", crop |-> c, name |-> n]]
               /\ Becomes(r, Idle)
          ELSE UNCHANGED variety /\ Becomes(r, Error)
    /\ UNCHANGED <<crop, use, order, review>>

StartRenameVariety(r, v, n) ==
    /\ req[r] = Idle /\ LiveVariety(v) /\ ~VarietyTaken(variety[v].crop, n, {v})
    /\ Becomes(r, [pc |-> "renameVariety", variety |-> v, name |-> n])
    /\ UNCHANGED rows

RenameVarietyRow(r) ==
    /\ At(r, "renameVariety")
    /\ LET v == req[r].variety
           n == req[r].name
       IN IF LiveVariety(v) /\ ~VarietyTaken(variety[v].crop, n, {v})
          THEN variety' = [variety EXCEPT ![v].name = n] /\ Becomes(r, Idle)
          ELSE UNCHANGED variety /\ Becomes(r, Error)
    /\ UNCHANGED <<crop, use, order, review>>

StartRemoveVariety(r, v) ==
    /\ req[r] = Idle /\ LiveVariety(v) /\ ~VarietyInUse(v)
    /\ Becomes(r, [pc |-> "deleteVariety", variety |-> v])
    /\ UNCHANGED rows

DeleteVarietyRow(r) ==
    /\ At(r, "deleteVariety")
    /\ LET v == req[r].variety IN
       IF LiveVariety(v) /\ ~VarietyReferenced(v)
       THEN /\ variety' = [variety EXCEPT ![v] =
                              [state |-> "DELETED", crop |-> None, name |-> None]]
            /\ Becomes(r, Idle)
       ELSE UNCHANGED variety /\ Becomes(r, Error)
    /\ UNCHANGED <<crop, use, order, review>>

-------------------------------------------------------------------------------
(* The create handlers of cycles, batches and listings *)

StartInsert(r, row) ==
    /\ req[r] = Idle
    /\ Becomes(r, [pc |-> "insertUse", row |-> row])
    /\ UNCHANGED rows

StartCycle(r, c) ==
    /\ LiveCrop(c)
    /\ StartInsert(r, [kind |-> "cycle", owner |-> crop[c].owner, crop |-> c,
                       variety |-> None, of |-> None])

\* The cycle is looked up by owner and crop.
CycleFound(y, g, c) == use[y].kind = "cycle" /\ use[y].owner = g /\ use[y].crop = c

StartBatch(r, c, v, y) ==
    /\ LiveCrop(c) /\ VarietyFound(v, c) /\ CycleFound(y, crop[c].owner, c)
    /\ StartInsert(r, [kind |-> "batch", owner |-> crop[c].owner, crop |-> c,
                       variety |-> v, of |-> y])

StartListing(r, c, v) ==
    /\ LiveCrop(c) /\ VarietyFound(v, c)
    /\ StartInsert(r, [kind |-> "listing", owner |-> crop[c].owner, crop |-> c,
                       variety |-> v, of |-> None])

\* The draft of a batch takes over its crop and its variety.
StartDraft(r, b) ==
    /\ use[b].kind = "batch"
    /\ \A u \in Uses : use[u].kind = "listing" => use[u].of # b
    /\ StartInsert(r, [use[b] EXCEPT !.kind = "listing", !.of = b])

InsertUse(r, u) ==
    /\ At(r, "insertUse") /\ use[u].kind = "NEW"
    /\ LET row == req[r].row IN
       IF /\ LiveCrop(row.crop)
          /\ row.variety # None => LiveVariety(row.variety)
          /\ row.kind = "listing" /\ row.of # None =>
                \A w \in Uses : use[w].kind = "listing" => use[w].of # row.of
       THEN use' = [use EXCEPT ![u] = row] /\ Becomes(r, Idle)
       ELSE UNCHANGED use /\ Becomes(r, Error)
    /\ UNCHANGED <<crop, variety, order, review>>

-------------------------------------------------------------------------------
(* ReviewsService.  An order can be reviewed while it is FULFILLED (delivered  *)
(* or picked up).  A dispute cancels it; a stale advance (Orders) may make it   *)
(* FULFILLED once more.                                                        *)

Advance(o) ==
    /\ order[o] = "OPEN"
    /\ order' = [order EXCEPT ![o] = "FULFILLED"]
    /\ UNCHANGED <<crop, variety, use, review, req>>

Dispute(o) ==
    /\ order[o] = "FULFILLED"
    /\ order' = [order EXCEPT ![o] = "OPEN"]
    /\ UNCHANGED <<crop, variety, use, review, req>>

\* The unique index on orderId; its violation is caught and answered with a 409.
Reviewed(o) == \E w \in Reviews : review[w].order = o
ReviewIndex_Dropped(o) == TRUE
ReviewIndex(o) == ~Reviewed(o)
Duplicate(r) == Becomes(r, Idle)

StartReview(r, o) ==
    /\ req[r] = Idle
    /\ order[o] = "FULFILLED" /\ ~Reviewed(o)
    /\ Becomes(r, [pc |-> "insertReview", order |-> o])
    /\ UNCHANGED rows

InsertReview(r, w) ==
    /\ At(r, "insertReview") /\ review[w].order = None
    /\ LET o == req[r].order IN
       IF ReviewIndex(o)
       THEN /\ review' = [review EXCEPT ![w] = [order |-> o, hidden |-> FALSE]]
            /\ Becomes(r, Idle)
       ELSE UNCHANGED review /\ Duplicate(r)
    /\ UNCHANGED <<crop, variety, use, order>>

StartHide(r, w) ==
    /\ req[r] = Idle /\ review[w].order # None /\ ~review[w].hidden
    /\ Becomes(r, [pc |-> "hide", review |-> w])
    /\ UNCHANGED rows

StartUnhide(r, w) ==
    /\ req[r] = Idle /\ review[w].order # None /\ review[w].hidden
    /\ Becomes(r, [pc |-> "unhide", review |-> w])
    /\ UNCHANGED rows

\* By id alone: of two moderators the later one wins.
WriteHidden(r) ==
    /\ At(r, "hide") \/ At(r, "unhide")
    /\ review' = [review EXCEPT ![req[r].review].hidden = At(r, "hide")]
    /\ Becomes(r, Idle)
    /\ UNCHANGED <<crop, variety, use, order>>

-------------------------------------------------------------------------------
(* A request ends with its answer, or with the process; Observe writes the    *)
(* history.                                                                   *)

Reply(r) == At(r, "error") /\ Becomes(r, Idle) /\ UNCHANGED rows
Abort(r) == req[r] \notin {Idle, Error} /\ Becomes(r, Idle) /\ UNCHANGED rows

Handle(r) ==
    \/ \E g \in Growers, n \in Names : StartCreateCrop(r, g, n)
    \/ \E c \in Crops, n \in Names : StartRenameCrop(r, c, n) \/ StartCreateVariety(r, c, n)
    \/ \E c \in Crops : InsertCrop(r, c) \/ StartRemoveCrop(r, c) \/ StartCycle(r, c)
    \/ RenameCropRow(r) \/ DeleteCropRow(r) \/ RenameVarietyRow(r) \/ DeleteVarietyRow(r)
    \/ \E v \in Varieties, n \in Names : StartRenameVariety(r, v, n)
    \/ \E v \in Varieties : InsertVariety(r, v) \/ StartRemoveVariety(r, v)
    \/ \E c \in Crops, v \in Varieties :
          StartListing(r, c, v) \/ \E y \in Uses : StartBatch(r, c, v, y)
    \/ \E u \in Uses : StartDraft(r, u) \/ InsertUse(r, u)
    \/ \E o \in Orders : StartReview(r, o)
    \/ \E w \in Reviews : InsertReview(r, w) \/ StartHide(r, w) \/ StartUnhide(r, w)
    \/ WriteHidden(r) \/ Reply(r) \/ Abort(r)

\* History: a request in flight is overtaken when a row changes and it stays in flight.
Observe ==
    overtaken' = {r \in Requests : /\ req'[r] # Idle
                                   /\ \/ r \in overtaken
                                      \/ rows' # rows /\ req'[r] = req[r]}

Next ==
    /\ \/ \E r \in Requests : Handle(r)
       \/ \E o \in Orders : Advance(o) \/ Dispute(o)
    /\ Observe

Spec == Init /\ [][Next]_vars

-------------------------------------------------------------------------------
(* Properties *)

\* Rows and continuations have the shapes of schema.prisma and of the handlers.
TypeOK ==
    /\ crop \in [Crops -> CropRow]
    /\ variety \in [Varieties -> VarietyRow]
    /\ use \in [Uses -> UseRow]
    /\ order \in [Orders -> {"OPEN", "FULFILLED"}]
    /\ review \in [Reviews -> ReviewRow]
    /\ req \in [Requests -> Continuations]
    /\ overtaken \subseteq Requests

\* What a row names exists: no variety without its crop, no cycle, batch or listing
\* without its crop and variety, although remove counts before it deletes.
NoOrphan ==
    /\ \A v \in Varieties : LiveVariety(v) => LiveCrop(variety[v].crop)
    /\ \A u \in Uses : use[u].kind # "NEW" =>
          /\ LiveCrop(use[u].crop)
          /\ use[u].kind # "cycle" => LiveVariety(use[u].variety)

\* The rows of a harvest agree: the variety is one of the crop, the crop is the
\* grower's, a batch's cycle is for its crop and a draft is of its batch's crop.  The
\* schema does not say so; only the lookups of the create handlers do.
RowsAgree ==
    \A u \in Uses : use[u].kind # "NEW" =>
        /\ use[u].owner = crop[use[u].crop].owner
        /\ use[u].variety # None => variety[use[u].variety].crop = use[u].crop
        /\ use[u].of # None => /\ use[use[u].of].crop = use[u].crop
                               /\ use[use[u].of].owner = use[u].owner

\* A request is answered with a 500 only when another one wrote after its check: alone,
\* every refusal of the schema is a 404 or a 409, so remove counts all that could refuse.
ErrorOnlyIfOvertaken == \A r \in Requests : At(r, "error") => r \in overtaken

\* An order has one review at most, although two submissions may both have found none,
\* also when a dispute and a stale advance came between.
OneReview ==
    \A w, x \in Reviews :
        review[w].order # None /\ review[w].order = review[x].order => w = x

===============================================================================
