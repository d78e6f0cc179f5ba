----------------------------- MODULE WebPagesProofs -----------------------------
(* What holds of every page for any number of rows, requests and loads under way. *)
EXTENDS WebPages, SequenceTheorems, WellFoundedInduction, TLAPS

-------------------------------------------------------------------------------
(* Endpoints and handlers: what the pages take for granted of what they call. *)

\* An endpoint moves between known statuses.
Typed(call) ==
    /\ \A st \in DOMAIN call.moves : call.moves[st] \in Statuses
    /\ call.edits \in BOOLEAN /\ call.bare \in BOOLEAN /\ call.unseen \in BOOLEAN

\* It makes no row absent.
Keeps(call) == \A st \in DOMAIN call.moves : call.moves[st] # "ABSENT"

\* What a handler does with the answer turns the copy of the row before the call into the
\* copy of the row after it.
Edits == {"replace", "merge", "move", "note", "mark"}
Suits(call, then) ==
    /\ then \in Edits \cup {"add", "remove", "reload"}
    /\ \A st \in DOMAIN call.moves :
          /\ then \in Edits => st # "ABSENT" /\ call.moves[st] # "ABSENT"
          /\ then = "add" => st = "ABSENT" /\ call.moves[st] # "ABSENT"
          /\ then = "remove" => call.moves[st] = "ABSENT"
          /\ then = "move" => Shown(call.moves[st]) # Shown(st)
          /\ then = "note" => call.moves[st] = st /\ call.edits
          /\ then = "mark" => Shown(call.moves[st]) = Shown(st) /\ ~call.edits

\* An endpoint takes rows of the statuses in from to statuses in to.
Is(call, from, to, edits, bare, unseen) ==
    /\ DOMAIN call.moves = from /\ \A st \in from : call.moves[st] \in to
    /\ call.edits = edits /\ call.bare = bare /\ call.unseen = unseen

LEMMA OrderEndpoints ==
    /\ Is(CancelOrder, {"PLACED", "CONFIRMED"}, {"CANCELLED"}, FALSE, TRUE, FALSE)
    /\ Is(AdvanceOrder, {"PLACED", "CONFIRMED", "UNDERWAY"},
          {"CONFIRMED", "UNDERWAY", "FULFILLED"}, FALSE, FALSE, FALSE)
    /\ Is(ReviewOrder, {"FULFILLED"}, {"REVIEWED"}, FALSE, FALSE, TRUE)
    /\ Is(DisputeOrder("CANCELLED"), OrderStatus \ {"CANCELLED"}, {"CANCELLED"},
          FALSE, TRUE, FALSE)
    /\ Is(DisputeOrder("PLACED"), {}, {"CANCELLED"}, FALSE, TRUE, FALSE)
  BY DEF Is, Endpoint, CancelOrder, AdvanceOrder, ReviewOrder, DisputeOrder

LEMMA ListEndpoints ==
    /\ Is(CancelBooking, {"QUEUED"}, {"WITHDRAWN"}, FALSE, TRUE, FALSE)
    /\ Is(HarvestBooking, {"QUEUED"}, {"AWAITING_PAYMENT"}, FALSE, FALSE, FALSE)
    /\ \A s : Is(SettleBooking(s), {"AWAITING_PAYMENT"}, {s}, FALSE, FALSE, FALSE)
    /\ Is(SuspendUser, {"ACTIVE"}, {"SUSPENDED"}, FALSE, FALSE, FALSE)
    /\ Is(ReactivateUser, {"SUSPENDED"}, {"ACTIVE"}, FALSE, FALSE, FALSE)
    /\ Is(HideReview, {"VISIBLE"}, {"HIDDEN"}, FALSE, FALSE, FALSE)
    /\ Is(UnhideReview, {"HIDDEN"}, {"VISIBLE"}, FALSE, FALSE, FALSE)
  BY DEF Is, Endpoint, CancelBooking, HarvestBooking, SettleBooking, SuspendUser,
     ReactivateUser, HideReview, UnhideReview

LEMMA CatalogEndpoints ==
    /\ Is(CreateRow, {"ABSENT"}, {"FREE"}, FALSE, FALSE, TRUE)
    /\ Is(RenameRow, {"FREE", "USED"}, {"FREE", "USED"}, TRUE, FALSE, TRUE)
    /\ Is(RemoveRow, {"FREE"}, {"ABSENT"}, FALSE, FALSE, TRUE)
    /\ Is(UseRow, {"FREE"}, {"USED"}, FALSE, FALSE, FALSE)
  BY DEF Is, Endpoint, CreateRow, RenameRow, RemoveRow, UseRow

LEMMA BatchEndpoints ==
    /\ Is(CreateBatch, {"ABSENT"}, {"PLANTED"}, FALSE, FALSE, TRUE)
    /\ Is(AdvanceMilestone, {"PLANTED", "GROWING"}, {"GROWING", "GROWN"}, FALSE, FALSE, FALSE)
    /\ Is(CreateDraft, {"GROWN"}, {"LISTED"}, FALSE, FALSE, TRUE)
    /\ Is(ConfirmHarvest, {"LISTED"}, {"HARVESTED"}, FALSE, FALSE, TRUE)
    /\ Is(AddActivity, BatchStatus \ {"ABSENT"}, BatchStatus \ {"ABSENT"}, TRUE, FALSE, FALSE)
    /\ \A st \in BatchStatus \ {"ABSENT"} : AddActivity.moves[st] = st
  BY DEF Is, Endpoint, CreateBatch, AdvanceMilestone, CreateDraft, ConfirmHarvest, AddActivity

LEMMA ListingEndpoints ==
    /\ Is(CreateListing, {"ABSENT"}, {"LIVE"}, FALSE, TRUE, TRUE)
    /\ Is(UpdateListing, {"DRAFT", "LIVE", "CLOSED"}, {"DRAFT", "LIVE", "CLOSED"},
          TRUE, TRUE, FALSE)
    /\ Is(CloseListing, {"DRAFT", "LIVE"}, {"CLOSED"}, FALSE, TRUE, FALSE)
    /\ Is(PublishListing, {"DRAFT"}, {"LIVE"}, FALSE, FALSE, FALSE)
  BY DEF Is, Endpoint, CreateListing, UpdateListing, CloseListing, PublishListing

Endpoints == {CancelOrder, AdvanceOrder, ReviewOrder, DisputeOrder("CANCELLED"),
              DisputeOrder("PLACED"), CancelBooking, HarvestBooking, SettleBooking("BOOKED"),
              SettleBooking("EXPIRED"), SuspendUser, ReactivateUser, HideReview, UnhideReview,
              CreateRow, RenameRow, RemoveRow, UseRow, CreateBatch, AdvanceMilestone,
              CreateDraft, ConfirmHarvest, AddActivity, CreateListing, UpdateListing,
              CloseListing, PublishListing}

LEMMA EndpointsTyped == \A call \in Endpoints : Typed(call)
<1>1. /\ Typed(CancelOrder) /\ Typed(AdvanceOrder) /\ Typed(ReviewOrder)
      /\ Typed(DisputeOrder("CANCELLED")) /\ Typed(DisputeOrder("PLACED"))
  BY OrderEndpoints DEF Is, Typed, Statuses, OrderStatus
<1>2. /\ Typed(CancelBooking) /\ Typed(HarvestBooking) /\ Typed(SettleBooking("BOOKED"))
      /\ Typed(SettleBooking("EXPIRED"))
  <2>1. /\ Is(SettleBooking("BOOKED"), {"AWAITING_PAYMENT"}, {"BOOKED"}, FALSE, FALSE, FALSE)
        /\ Is(SettleBooking("EXPIRED"), {"AWAITING_PAYMENT"}, {"EXPIRED"}, FALSE, FALSE, FALSE)
    BY ListEndpoints
  <2> QED
    BY <2>1, ListEndpoints DEF Is, Typed, Statuses, BookingStatus
<1>3. /\ Typed(SuspendUser) /\ Typed(ReactivateUser)
      /\ Typed(HideReview) /\ Typed(UnhideReview)
  BY ListEndpoints DEF Is, Typed, Statuses, UserStatus, ReviewStatus
<1>4. /\ Typed(CreateRow) /\ Typed(RenameRow) /\ Typed(RemoveRow) /\ Typed(UseRow)
  BY CatalogEndpoints DEF Is, Typed, Statuses, CatalogStatus
<1>5. /\ Typed(CreateBatch) /\ Typed(AdvanceMilestone) /\ Typed(CreateDraft)
      /\ Typed(ConfirmHarvest) /\ Typed(AddActivity)
  BY BatchEndpoints DEF Is, Typed, Statuses, BatchStatus
<1>6. /\ Typed(CreateListing) /\ Typed(UpdateListing) /\ Typed(CloseListing)
      /\ Typed(PublishListing)
  BY ListingEndpoints DEF Is, Typed, Statuses, ListingStatus
<1> QED
  BY <1>1, <1>2, <1>3, <1>4, <1>5, <1>6 DEF Endpoints

\* Flags that hold the id of a row are busyId and cancellingId, on every page.
Consistent(h) == h.keyed <=> h.flag \in {"busyId", "cancellingId"}

\* What a handler calls, what it does with the answer, and whether it needs the editor.
Does(h, call, then, inEditor) ==
    h.call = call /\ h.then = then /\ h.editor = inEditor /\ Consistent(h)

LEMMA OrderHandlers ==
    /\ Does(CustomerCancel, CancelOrder, "merge", FALSE)
    /\ Does(CustomerReview, ReviewOrder, "mark", FALSE)
    /\ Does(VendorCancel, CancelOrder, "merge", FALSE)
    /\ Does(VendorReview, ReviewOrder, "mark", FALSE)
    /\ \A target, shown :
          Does(HandleDispute(target, shown), DisputeOrder(target), "merge", FALSE)
    /\ Does(HandleAdvanceOrder, AdvanceOrder, "replace", FALSE)
  BY DEF Does, Consistent, CustomerCancel, CustomerReview, VendorCancel, VendorReview,
     HandleDispute, HandleAdvanceOrder, RowHandler, Handler

LEMMA ListHandlers ==
    /\ Does(HandleCancelBooking, CancelBooking, "replace", FALSE)
    /\ Does(HandleToggleSuspend(TRUE), ReactivateUser, "replace", FALSE)
    /\ Does(HandleToggleSuspend(FALSE), SuspendUser, "replace", FALSE)
    /\ Does(HandleHide, HideReview, "move", FALSE)
    /\ Does(HandleUnhide, UnhideReview, "move", FALSE)
  BY DEF Does, Consistent, HandleCancelBooking, HandleToggleSuspend, HandleHide, HandleUnhide,
     RowHandler, Handler

CatalogForms == {CropCreate, VarietyCreate, CycleCreate, MilestoneCreate,
                 CustomerAddressCreate, VendorAddressCreate}
CatalogEditors == {CropRename, VarietyRename, CycleRename, MilestoneSave}
CatalogRemovers == {CropDelete, VarietyDelete, CycleDelete, MilestoneDelete}

LEMMA CatalogHandlers ==
    /\ \A h \in CatalogForms : Does(h, CreateRow, "add", FALSE)
    /\ \A h \in CatalogEditors : Does(h, RenameRow, "replace", TRUE)
    /\ \A h \in CatalogRemovers : Does(h, RemoveRow, "remove", FALSE)
<1>1. /\ Does(CropCreate, CreateRow, "add", FALSE) /\ Does(VarietyCreate, CreateRow, "add", FALSE)
      /\ Does(CycleCreate, CreateRow, "add", FALSE)
      /\ Does(MilestoneCreate, CreateRow, "add", FALSE)
      /\ Does(CustomerAddressCreate, CreateRow, "add", FALSE)
      /\ Does(VendorAddressCreate, CreateRow, "add", FALSE)
  BY DEF Does, Consistent, CropCreate, VarietyCreate, CycleCreate, MilestoneCreate,
     CustomerAddressCreate, VendorAddressCreate, Creator, Handler
<1>2. /\ Does(CropRename, RenameRow, "replace", TRUE)
      /\ Does(VarietyRename, RenameRow, "replace", TRUE)
      /\ Does(CycleRename, RenameRow, "replace", TRUE)
      /\ Does(MilestoneSave, RenameRow, "replace", TRUE)
  BY DEF Does, Consistent, CropRename, VarietyRename, CycleRename, MilestoneSave, RowHandler,
     Handler
<1>3. /\ Does(CropDelete, RemoveRow, "remove", FALSE)
      /\ Does(VarietyDelete, RemoveRow, "remove", FALSE)
      /\ Does(CycleDelete, RemoveRow, "remove", FALSE)
      /\ Does(MilestoneDelete, RemoveRow, "remove", FALSE)
  BY DEF Does, Consistent, CropDelete, VarietyDelete, CycleDelete, MilestoneDelete, RowHandler,
     Handler
<1> QED
  BY <1>1, <1>2, <1>3 DEF CatalogForms, CatalogEditors, CatalogRemovers

LEMMA BatchHandlers ==
    /\ Does(HandleCreateBatch, CreateBatch, "add", FALSE)
    /\ Does(HandleAdvance, AdvanceMilestone, "reload", FALSE)
    /\ Does(HandleSetTerms, CreateDraft, "mark", FALSE)
    /\ Does(HandleConfirmHarvest, ConfirmHarvest, "reload", FALSE)
    /\ Does(HandleLogActivity, AddActivity, "note", FALSE)
    /\ Does(HandleCreateListing, CreateListing, "add", FALSE)
    /\ Does(HandleSave, UpdateListing, "merge", TRUE)
    /\ Does(HandleClose, CloseListing, "merge", TRUE)
  BY DEF Does, Consistent, HandleCreateBatch, HandleAdvance, HandleSetTerms, HandleConfirmHarvest,
     HandleLogActivity, HandleCreateListing, HandleSave, HandleClose, Creator, Handler

LEMMA OrderAnswersSuit ==
    /\ Suits(CancelOrder, "merge") /\ Suits(AdvanceOrder, "replace")
    /\ Suits(ReviewOrder, "mark")
    /\ Suits(DisputeOrder("CANCELLED"), "merge") /\ Suits(DisputeOrder("PLACED"), "merge")
  BY OrderEndpoints DEF Is, Suits, Edits, Shown, OrderStatus

LEMMA ListAnswersSuit ==
    /\ Suits(CancelBooking, "replace")
    /\ Suits(SuspendUser, "replace") /\ Suits(ReactivateUser, "replace")
    /\ Suits(HideReview, "move") /\ Suits(UnhideReview, "move")
  BY ListEndpoints DEF Is, Suits, Edits, Shown

LEMMA CatalogAnswersSuit ==
    /\ Suits(CreateRow, "add") /\ Suits(RenameRow, "replace") /\ Suits(RemoveRow, "remove")
  BY CatalogEndpoints DEF Is, Suits, Edits, Shown

LEMMA BatchAnswersSuit ==
    /\ Suits(CreateBatch, "add") /\ Suits(AdvanceMilestone, "reload")
    /\ Suits(CreateDraft, "mark") /\ Suits(ConfirmHarvest, "reload")
    /\ Suits(AddActivity, "note")
  BY BatchEndpoints DEF Is, Suits, Edits, Shown, BatchStatus

LEMMA ListingAnswersSuit ==
    /\ Suits(CreateListing, "add") /\ Suits(UpdateListing, "merge")
    /\ Suits(CloseListing, "merge")
  BY ListingEndpoints DEF Is, Suits, Edits, Shown

\* A button is offered for the statuses its endpoint accepts, as far as the page shows them,
\* and for no other but those of OffersMore.
Mirrors(call, statuses) ==
    \/ call.unseen
    \/ \A st : Shown(st) \in statuses =>
           st \in DOMAIN call.moves \/ OffersMore(call, Shown(st))

LEMMA ButtonsMirror ==
    /\ Mirrors(CancelOrder, {"PLACED", "CONFIRMED"})
    /\ Mirrors(AdvanceOrder, {"PLACED", "CONFIRMED", "UNDERWAY"})
    /\ Mirrors(CancelBooking, {"QUEUED"})
    /\ Mirrors(SuspendUser, {"ACTIVE"}) /\ Mirrors(ReactivateUser, {"SUSPENDED"})
    /\ Mirrors(HideReview, {"VISIBLE"}) /\ Mirrors(UnhideReview, {"HIDDEN"})
    /\ Mirrors(AdvanceMilestone, {"PLANTED", "GROWING"})
    /\ Mirrors(AddActivity, BatchStatus \ {"ABSENT"})
    /\ Mirrors(UpdateListing, ListingStatus \ {"ABSENT"})
    /\ Mirrors(CloseListing, ListingStatus \ {"ABSENT"})
    /\ \A target \in {"PLACED", "CANCELLED"}, shown \in OrderStatus :
          Mirrors(DisputeOrder(target), {shown})
    /\ \A S : /\ Mirrors(ReviewOrder, S) /\ Mirrors(CreateRow, S) /\ Mirrors(RenameRow, S)
              /\ Mirrors(RemoveRow, S) /\ Mirrors(CreateBatch, S) /\ Mirrors(CreateDraft, S)
              /\ Mirrors(ConfirmHarvest, S) /\ Mirrors(CreateListing, S)
<1>1. /\ Mirrors(CancelOrder, {"PLACED", "CONFIRMED"})
      /\ Mirrors(AdvanceOrder, {"PLACED", "CONFIRMED", "UNDERWAY"})
      /\ Mirrors(CancelBooking, {"QUEUED"})
  BY OrderEndpoints, ListEndpoints DEF Is, Mirrors, Shown
<1>2. /\ Mirrors(SuspendUser, {"ACTIVE"}) /\ Mirrors(ReactivateUser, {"SUSPENDED"})
      /\ Mirrors(HideReview, {"VISIBLE"}) /\ Mirrors(UnhideReview, {"HIDDEN"})
  BY ListEndpoints DEF Is, Mirrors, Shown
<1>3. /\ Mirrors(AdvanceMilestone, {"PLANTED", "GROWING"})
      /\ Mirrors(AddActivity, BatchStatus \ {"ABSENT"})
  BY BatchEndpoints DEF Is, Mirrors, Shown, BatchStatus
<1>4. \A S : /\ Mirrors(ReviewOrder, S) /\ Mirrors(CreateRow, S) /\ Mirrors(RenameRow, S)
             /\ Mirrors(RemoveRow, S) /\ Mirrors(CreateBatch, S) /\ Mirrors(CreateDraft, S)
             /\ Mirrors(ConfirmHarvest, S) /\ Mirrors(CreateListing, S)
  BY OrderEndpoints, CatalogEndpoints, BatchEndpoints, ListingEndpoints DEF Is, Mirrors
<1>5. Mirrors(UpdateListing, ListingStatus \ {"ABSENT"})
  BY ListingEndpoints DEF Is, Mirrors, Shown, ListingStatus
<1>6. Mirrors(CloseListing, ListingStatus \ {"ABSENT"})
  <2>1. \A st : Shown(st) \in ListingStatus \ {"ABSENT"} => st \in {"DRAFT", "LIVE", "CLOSED"}
    BY DEF Shown, ListingStatus
  <2>2. OffersMore(CloseListing, Shown("CLOSED"))
    BY DEF OffersMore, Shown
  <2> QED
    BY <2>1, <2>2, ListingEndpoints DEF Is, Mirrors
<1>7. ASSUME NEW target \in {"PLACED", "CANCELLED"}, NEW shown \in OrderStatus
      PROVE  Mirrors(DisputeOrder(target), {shown})
  <2>1. CASE target = "PLACED"
    BY <2>1 DEF OffersMore, Mirrors
  <2>2. CASE target = "CANCELLED"
    <3>1. \A st : Shown(st) = shown => st \in OrderStatus
      BY DEF Shown, OrderStatus
    <3>2. OffersMore(DisputeOrder("CANCELLED"), Shown("CANCELLED"))
      BY DEF OffersMore, Shown, CancelOverride
    <3> QED
      BY <2>2, <3>1, <3>2, OrderEndpoints DEF Is, Mirrors
  <2> QED
    BY <2>1, <2>2
<1> QED
  BY <1>1, <1>2, <1>3, <1>4, <1>5, <1>6, <1>7

\* What the proofs need of a button of page p.
Sound(h, statuses, p) ==
    /\ statuses \subseteq Statuses /\ h.call \in Endpoints /\ Suits(h.call, h.then)
    /\ Consistent(h)
    /\ h.then = "reload" => p = "batch"
    /\ h.call.bare => h.then = "merge" \/ p \in {"bookings", "listings"}
    /\ p = "listings" => /\ Keeps(h.call) /\ (h.editor => "ABSENT" \notin statuses)
                         /\ h.then = "merge" \/ (h = HandleCreateListing /\ h.then = "add")
    /\ Mirrors(h.call, statuses)

LEMMA OrderButtonsSound ==
    /\ Sound(CustomerCancel, {"PLACED", "CONFIRMED"}, "customerOrder")
    /\ Sound(CustomerReview, {"FULFILLED"}, "customerOrder")
    /\ Sound(VendorCancel, {"PLACED", "CONFIRMED"}, "vendorOrder")
    /\ Sound(VendorReview, {"FULFILLED"}, "vendorOrder")
    /\ Sound(HandleAdvanceOrder, {"PLACED", "CONFIRMED", "UNDERWAY"}, "growerOrders")
    /\ \A target \in {"PLACED", "CANCELLED"}, shown \in OrderStatus :
          Sound(HandleDispute(target, shown), {shown}, "adminOrder")
<1>1. /\ {"PLACED", "CONFIRMED", "UNDERWAY"} \subseteq Statuses
      /\ {"PLACED", "CONFIRMED"} \subseteq Statuses
      /\ {"FULFILLED"} \subseteq Statuses /\ OrderStatus \subseteq Statuses
  BY DEF Statuses, OrderStatus
<1>2. /\ CancelOrder \in Endpoints /\ AdvanceOrder \in Endpoints /\ ReviewOrder \in Endpoints
      /\ DisputeOrder("PLACED") \in Endpoints /\ DisputeOrder("CANCELLED") \in Endpoints
  BY DEF Endpoints
<1>3. /\ ~AdvanceOrder.bare /\ ~ReviewOrder.bare
  BY OrderEndpoints DEF Is
<1>4. /\ Sound(CustomerCancel, {"PLACED", "CONFIRMED"}, "customerOrder")
      /\ Sound(VendorCancel, {"PLACED", "CONFIRMED"}, "vendorOrder")
  BY <1>1, <1>2, OrderHandlers, OrderAnswersSuit, ButtonsMirror DEF Does, Sound
<1>5. /\ Sound(CustomerReview, {"FULFILLED"}, "customerOrder")
      /\ Sound(VendorReview, {"FULFILLED"}, "vendorOrder")
  BY <1>1, <1>2, <1>3, OrderHandlers, OrderAnswersSuit, ButtonsMirror DEF Does, Sound
<1>6. Sound(HandleAdvanceOrder, {"PLACED", "CONFIRMED", "UNDERWAY"}, "growerOrders")
  BY <1>1, <1>2, <1>3, OrderHandlers, OrderAnswersSuit, ButtonsMirror DEF Does, Sound
<1>7. ASSUME NEW target \in {"PLACED", "CANCELLED"}, NEW shown \in OrderStatus
      PROVE  Sound(HandleDispute(target, shown), {shown}, "adminOrder")
  BY <1>1, <1>2, OrderHandlers, OrderAnswersSuit, ButtonsMirror DEF Does, Sound
<1> QED
  BY <1>4, <1>5, <1>6, <1>7

LEMMA ListButtonsSound ==
    /\ Sound(HandleCancelBooking, {"QUEUED"}, "bookings")
    /\ Sound(HandleToggleSuspend(TRUE), {"SUSPENDED"}, "users")
    /\ Sound(HandleToggleSuspend(FALSE), {"ACTIVE"}, "users")
    /\ Sound(HandleHide, {"VISIBLE"}, "reviews")
    /\ Sound(HandleUnhide, {"HIDDEN"}, "reviews")
<1>1. /\ {"QUEUED"} \subseteq Statuses
      /\ {"SUSPENDED"} \subseteq Statuses /\ {"ACTIVE"} \subseteq Statuses
      /\ {"VISIBLE"} \subseteq Statuses /\ {"HIDDEN"} \subseteq Statuses
  BY DEF Statuses, BookingStatus, UserStatus, ReviewStatus
<1>2. /\ CancelBooking \in Endpoints
      /\ SuspendUser \in Endpoints /\ ReactivateUser \in Endpoints
      /\ HideReview \in Endpoints /\ UnhideReview \in Endpoints
  BY DEF Endpoints
<1>3. /\ ~SuspendUser.bare /\ ~ReactivateUser.bare
      /\ ~HideReview.bare /\ ~UnhideReview.bare
  BY ListEndpoints DEF Is
<1>4. Sound(HandleCancelBooking, {"QUEUED"}, "bookings")
  BY <1>1, <1>2, ListHandlers, ListAnswersSuit, ButtonsMirror DEF Does, Sound
<1>5. /\ Sound(HandleToggleSuspend(TRUE), {"SUSPENDED"}, "users")
      /\ Sound(HandleToggleSuspend(FALSE), {"ACTIVE"}, "users")
  BY <1>1, <1>2, <1>3, ListHandlers, ListAnswersSuit, ButtonsMirror DEF Does, Sound
<1>6. /\ Sound(HandleHide, {"VISIBLE"}, "reviews")
      /\ Sound(HandleUnhide, {"HIDDEN"}, "reviews")
  BY <1>1, <1>2, <1>3, ListHandlers, ListAnswersSuit, ButtonsMirror DEF Does, Sound
<1> QED
  BY <1>4, <1>5, <1>6

LEMMA CatalogButtonsSound ==
    /\ \A p : p # "listings" => \A h \in CatalogForms : Sound(h, {"ABSENT"}, p)
    /\ \A p : p # "listings" => \A h \in CatalogEditors \cup CatalogRemovers :
          Sound(h, {"FREE", "USED"}, p)
<1>1. {"ABSENT"} \subseteq Statuses /\ {"FREE", "USED"} \subseteq Statuses
  BY DEF Statuses, CatalogStatus
<1>2. CreateRow \in Endpoints /\ RenameRow \in Endpoints /\ RemoveRow \in Endpoints
  BY DEF Endpoints
<1>3. ~CreateRow.bare /\ ~RenameRow.bare /\ ~RemoveRow.bare
  BY CatalogEndpoints DEF Is
<1>4. \A h, p : p # "listings" /\ Does(h, CreateRow, "add", FALSE) => Sound(h, {"ABSENT"}, p)
  BY <1>1, <1>2, <1>3, CatalogAnswersSuit, ButtonsMirror DEF Does, Sound
<1>5. \A h, p : p # "listings" /\ Does(h, RenameRow, "replace", TRUE)
         => Sound(h, {"FREE", "USED"}, p)
  BY <1>1, <1>2, <1>3, CatalogAnswersSuit, ButtonsMirror DEF Does, Sound
<1>6. \A h, p : p # "listings" /\ Does(h, RemoveRow, "remove", FALSE)
         => Sound(h, {"FREE", "USED"}, p)
  BY <1>1, <1>2, <1>3, CatalogAnswersSuit, ButtonsMirror DEF Does, Sound
<1>7. \A p : p # "listings" => \A h \in CatalogForms : Sound(h, {"ABSENT"}, p)
  BY <1>4, CatalogHandlers
<1>8. \A p : p # "listings" => \A h \in CatalogEditors \cup CatalogRemovers :
          Sound(h, {"FREE", "USED"}, p)
  BY <1>5, <1>6, CatalogHandlers
<1> QED
  BY <1>7, <1>8

LEMMA BatchButtonsSound ==
    /\ Sound(HandleCreateBatch, {"ABSENT"}, "batches")
    /\ Sound(HandleAdvance, {"PLANTED", "GROWING"}, "batch")
    /\ Sound(HandleSetTerms, {"GROWN"}, "batch")
    /\ Sound(HandleConfirmHarvest, {"GROWN"}, "batch")
    /\ Sound(HandleLogActivity, BatchStatus \ {"ABSENT"}, "batch")
<1>1. /\ {"ABSENT"} \subseteq Statuses /\ {"PLANTED", "GROWING"} \subseteq Statuses
      /\ {"GROWN"} \subseteq Statuses /\ BatchStatus \ {"ABSENT"} \subseteq Statuses
  BY DEF Statuses, BatchStatus
<1>2. /\ CreateBatch \in Endpoints /\ AdvanceMilestone \in Endpoints /\ CreateDraft \in Endpoints
      /\ ConfirmHarvest \in Endpoints /\ AddActivity \in Endpoints
  BY DEF Endpoints
<1>3. /\ ~CreateBatch.bare /\ ~AdvanceMilestone.bare /\ ~CreateDraft.bare
      /\ ~ConfirmHarvest.bare /\ ~AddActivity.bare
  BY BatchEndpoints DEF Is
<1> QED
  BY <1>1, <1>2, <1>3, BatchHandlers, BatchAnswersSuit, ButtonsMirror DEF Does, Sound

LEMMA ListingButtonsSound ==
    /\ Sound(HandleCreateListing, {"ABSENT"}, "listings")
    /\ Sound(HandleSave, ListingStatus \ {"ABSENT"}, "listings")
    /\ Sound(HandleClose, ListingStatus \ {"ABSENT"}, "listings")
<1>1. {"ABSENT"} \subseteq Statuses /\ ListingStatus \ {"ABSENT"} \subseteq Statuses
  BY DEF Statuses, ListingStatus
<1>2. CreateListing \in Endpoints /\ UpdateListing \in Endpoints /\ CloseListing \in Endpoints
  BY DEF Endpoints
<1>3. Keeps(CreateListing) /\ Keeps(UpdateListing) /\ Keeps(CloseListing)
  BY ListingEndpoints DEF Is, Keeps
<1> QED
  BY <1>1, <1>2, <1>3, BatchHandlers, ListingAnswersSuit, ButtonsMirror DEF Does, Sound

SoundButton(b, p) == Sound(b.handler, b.statuses, p)
SoundScreen(screen, p) == \A b \in screen.buttons : SoundButton(b, p)

LEMMA ScreenFacts ==
    /\ \A S : Screen(S).buttons = S
    /\ \A h, S, p : Sound(h, S, p) => SoundButton(Button(h, S), p)
    /\ \A h, p : Sound(h, {"ABSENT"}, p) => SoundButton(Form(h), p)
  BY DEF Screen, SoundButton, Button, Form

LEMMA OrderScreensSound ==
    /\ SoundScreen(OrderScreen, "customerOrder")
    /\ SoundScreen(VendorOrderScreen, "vendorOrder")
    /\ SoundScreen(AdminOrderScreen, "adminOrder")
    /\ SoundScreen(GrowerOrdersScreen, "growerOrders")
    /\ SoundScreen(OrderListScreen, "orderList")
<1>1. SoundScreen(OrderScreen, "customerOrder")
  BY ScreenFacts, OrderButtonsSound DEF SoundScreen, OrderScreen
<1>2. SoundScreen(VendorOrderScreen, "vendorOrder")
  BY ScreenFacts, OrderButtonsSound DEF SoundScreen, VendorOrderScreen
<1>3. SoundScreen(AdminOrderScreen, "adminOrder")
  <2>1. \A target \in {"PLACED", "CANCELLED"}, shown \in OrderStatus :
          SoundButton(Button(HandleDispute(target, shown), {shown}), "adminOrder")
    BY ScreenFacts, OrderButtonsSound, Zenon
  <2>2. AdminOrderScreen.buttons =
          {Button(HandleDispute("PLACED", shown), {shown}) : shown \in OrderStatus}
            \cup {Button(HandleDispute("CANCELLED", shown), {shown}) : shown \in OrderStatus}
    BY ScreenFacts, Zenon DEF AdminOrderScreen
  <2>3. \A b \in AdminOrderScreen.buttons : \E shown \in OrderStatus :
          b = Button(HandleDispute("PLACED", shown), {shown})
            \/ b = Button(HandleDispute("CANCELLED", shown), {shown})
    BY <2>2
  <2>4. ASSUME NEW b \in AdminOrderScreen.buttons
        PROVE  SoundButton(b, "adminOrder")
    <3>1. PICK shown \in OrderStatus :
            b = Button(HandleDispute("PLACED", shown), {shown})
              \/ b = Button(HandleDispute("CANCELLED", shown), {shown})
      BY <2>3, Zenon
    <3>2. /\ SoundButton(Button(HandleDispute("PLACED", shown), {shown}), "adminOrder")
          /\ SoundButton(Button(HandleDispute("CANCELLED", shown), {shown}), "adminOrder")
      BY <2>1, Zenon
    <3> QED
      BY <3>1, <3>2, Zenon
  <2> QED
    BY <2>4, Zenon DEF SoundScreen
<1>4. SoundScreen(GrowerOrdersScreen, "growerOrders")
  BY ScreenFacts, OrderButtonsSound DEF SoundScreen, GrowerOrdersScreen
<1>5. SoundScreen(OrderListScreen, "orderList")
  BY ScreenFacts DEF SoundScreen, OrderListScreen
<1> QED
  BY <1>1, <1>2, <1>3, <1>4, <1>5

LEMMA ListScreensSound ==
    /\ SoundScreen(BookingsScreen, "bookings")
    /\ SoundScreen(UsersScreen, "users")
    /\ SoundScreen(ReviewsScreen, "reviews")
<1>1. SoundScreen(BookingsScreen, "bookings")
  BY ScreenFacts, ListButtonsSound DEF SoundScreen, BookingsScreen
<1>2. SoundScreen(UsersScreen, "users")
  <2>1. /\ SoundButton(Button(HandleToggleSuspend(TRUE), {"SUSPENDED"}), "users")
        /\ SoundButton(Button(HandleToggleSuspend(FALSE), {"ACTIVE"}), "users")
    BY ScreenFacts, ListButtonsSound, Zenon
  <2>2. UsersScreen.buttons = {Button(HandleToggleSuspend(TRUE), {"SUSPENDED"}),
                               Button(HandleToggleSuspend(FALSE), {"ACTIVE"})}
    BY ScreenFacts, Zenon DEF UsersScreen
  <2>3. \A b \in UsersScreen.buttons : SoundButton(b, "users")
    BY <2>1, <2>2, Zenon
  <2> QED
    BY <2>3, Zenon DEF SoundScreen
<1>3. SoundScreen(ReviewsScreen, "reviews")
  <2>1. ReviewsScreen.buttons = {Button(HandleHide, {"VISIBLE"}),
                                 Button(HandleUnhide, {"HIDDEN"})}
    BY DEF ReviewsScreen, Screen
  <2> QED
    BY <2>1, ScreenFacts, ListButtonsSound DEF SoundScreen
<1> QED
  BY <1>1, <1>2, <1>3

LEMMA CatalogScreensSound ==
    /\ SoundScreen(CropsScreen, "crops") /\ SoundScreen(VarietiesScreen, "varieties")
    /\ SoundScreen(CyclesScreen, "cycles") /\ SoundScreen(CycleScreen, "cycle")
    /\ SoundScreen(AddressesScreen, "addresses")
    /\ SoundScreen(VendorAddressesScreen, "vendorAddresses")
<1>1. /\ \A p : p # "listings" => \A h \in CatalogForms : SoundButton(Form(h), p)
      /\ \A p : p # "listings" => \A h \in CatalogEditors \cup CatalogRemovers :
          SoundButton(Button(h, {"FREE", "USED"}), p)
  BY ScreenFacts, CatalogButtonsSound
<1>2. SoundScreen(CropsScreen, "crops") /\ SoundScreen(VarietiesScreen, "varieties")
  BY <1>1, ScreenFacts DEF SoundScreen, CropsScreen, VarietiesScreen,
     CatalogForms, CatalogEditors, CatalogRemovers
<1>3. SoundScreen(CyclesScreen, "cycles") /\ SoundScreen(CycleScreen, "cycle")
  BY <1>1, ScreenFacts DEF SoundScreen, CyclesScreen, CycleScreen,
     CatalogForms, CatalogEditors, CatalogRemovers
<1>4. /\ SoundScreen(AddressesScreen, "addresses")
      /\ SoundScreen(VendorAddressesScreen, "vendorAddresses")
  BY <1>1, ScreenFacts DEF SoundScreen, AddressesScreen, VendorAddressesScreen,
     CatalogForms, CatalogEditors, CatalogRemovers
<1> QED
  BY <1>2, <1>3, <1>4

LEMMA BatchScreensSound ==
    /\ SoundScreen(BatchesScreen, "batches") /\ SoundScreen(BatchScreen, "batch")
    /\ SoundScreen(ListingsScreen, "listings")
<1>1. SoundScreen(BatchesScreen, "batches") /\ SoundScreen(BatchScreen, "batch")
  <2>1. /\ SoundButton(Form(HandleCreateBatch), "batches")
        /\ SoundButton(Button(HandleAdvance, {"PLANTED", "GROWING"}), "batch")
        /\ SoundButton(Button(HandleSetTerms, {"GROWN"}), "batch")
        /\ SoundButton(Button(HandleConfirmHarvest, {"GROWN"}), "batch")
        /\ SoundButton(Button(HandleLogActivity, BatchStatus \ {"ABSENT"}), "batch")
    BY ScreenFacts, BatchButtonsSound
  <2> QED
    BY <2>1, ScreenFacts DEF SoundScreen, BatchesScreen, BatchScreen
<1>2. SoundScreen(ListingsScreen, "listings")
  <2>1. ListingsScreen.buttons = {Form(HandleCreateListing),
                                  Button(HandleSave, ListingStatus \ {"ABSENT"}),
                                  Button(HandleClose, ListingStatus \ {"ABSENT"})}
    BY DEF ListingsScreen, Screen
  <2>2. /\ SoundButton(Form(HandleCreateListing), "listings")
        /\ SoundButton(Button(HandleSave, ListingStatus \ {"ABSENT"}), "listings")
        /\ SoundButton(Button(HandleClose, ListingStatus \ {"ABSENT"}), "listings")
    BY ScreenFacts, ListingButtonsSound
  <2> QED
    BY <2>1, <2>2 DEF SoundScreen
<1> QED
  BY <1>1, <1>2

\* Of every page: its buttons are sound, the endpoints others use are typed and, where the
\* editor is a panel of its own, make no row absent; only the page of a batch reloads.
LEMMA PagesSound ==
    \A p \in DOMAIN PageOf :
        /\ SoundScreen(PageOf[p].screen, p)
        /\ PageOf[p].others \subseteq Endpoints
        /\ PageOf[p].screen.panel <=> p = "listings"
<1>1. \A l, s, t, o : Page(l, s, t, o).screen = s /\ Page(l, s, t, o).others = o
  BY DEF Page
<1>2. \A p \in DOMAIN PageOf : SoundScreen(PageOf[p].screen, p)
  BY <1>1, OrderScreensSound, ListScreensSound, CatalogScreensSound, BatchScreensSound
  DEF PageOf
<1>3. \A p \in DOMAIN PageOf : PageOf[p].others \subseteq Endpoints
  BY <1>1 DEF PageOf, Endpoints, CancelOverride
<1>4. \A p \in DOMAIN PageOf : PageOf[p].screen.panel <=> p = "listings"
  <2>1. ListingsScreen.panel = TRUE
    BY DEF ListingsScreen, Screen
  <2>2. /\ OrderScreen.panel = FALSE /\ VendorOrderScreen.panel = FALSE
        /\ AdminOrderScreen.panel = FALSE /\ GrowerOrdersScreen.panel = FALSE
        /\ BookingsScreen.panel = FALSE /\ UsersScreen.panel = FALSE
        /\ ReviewsScreen.panel = FALSE /\ OrderListScreen.panel = FALSE
    BY DEF Screen, OrderScreen, VendorOrderScreen, AdminOrderScreen, GrowerOrdersScreen,
       BookingsScreen, UsersScreen, ReviewsScreen, OrderListScreen
  <2>3. /\ CropsScreen.panel = FALSE /\ VarietiesScreen.panel = FALSE
        /\ CyclesScreen.panel = FALSE /\ CycleScreen.panel = FALSE
        /\ BatchesScreen.panel = FALSE /\ BatchScreen.panel = FALSE
        /\ AddressesScreen.panel = FALSE /\ VendorAddressesScreen.panel = FALSE
    BY DEF Screen, CropsScreen, VarietiesScreen, CyclesScreen, CycleScreen, BatchesScreen,
       BatchScreen, AddressesScreen, VendorAddressesScreen
  <2> QED
    BY <1>1, <2>1, <2>2, <2>3 DEF PageOf
<1> QED
  BY <1>2, <1>3, <1>4

LEMMA ListingsKept == \A e \in PageOf["listings"].others : Keeps(e)
<1>1. PageOf["listings"].others = {PublishListing, CloseListing}
  BY DEF PageOf, Page
<1> QED
  BY <1>1, ListingEndpoints DEF Is, Keeps

LEMMA BatchReloads == ~PageOf["batch"].load.guarded
  BY DEF PageOf, Page, BatchReload, Reload

LEMMA StartTyped == \A p \in DOMAIN PageOf : PageOf[p].start \subseteq Statuses
<1>1. \A l, s, t, o : Page(l, s, t, o).start = t
  BY DEF Page
<1>2. \A p \in DOMAIN PageOf :
         PageOf[p].start \in {{"PLACED", "UNDERWAY"}, {"PLACED"}, {"QUEUED"}, UserStatus,
             ReviewStatus, Fixtures, {"ABSENT", "PLANTED"}, {"GROWING"}, {"ABSENT", "DRAFT"},
             {"ABSENT"}}
  BY <1>1 DEF PageOf
<1>3. /\ {"PLACED", "UNDERWAY"} \subseteq Statuses /\ {"PLACED"} \subseteq Statuses
      /\ {"QUEUED"} \subseteq Statuses
  BY DEF Statuses, OrderStatus, BookingStatus
<1>4. /\ UserStatus \subseteq Statuses /\ ReviewStatus \subseteq Statuses
      /\ Fixtures \subseteq Statuses /\ {"ABSENT"} \subseteq Statuses
  BY DEF Statuses, CatalogStatus, Fixtures
<1>5. /\ {"ABSENT", "PLANTED"} \subseteq Statuses /\ {"GROWING"} \subseteq Statuses
      /\ {"ABSENT", "DRAFT"} \subseteq Statuses
  BY DEF Statuses, BatchStatus, ListingStatus
<1> QED
  BY <1>2, <1>3, <1>4, <1>5

\* The page that is open.
LEMMA SoundHere ==
    ASSUME page \in Pages
    PROVE  /\ \A b \in Buttons : Sound(b.handler, b.statuses, page)
           /\ \A h \in Handlers : \E b \in Buttons : b.handler = h
           /\ \A h \in Handlers : Typed(h.call) /\ Suits(h.call, h.then) /\ Consistent(h)
           /\ \A e \in Here.others : Typed(e) /\ (page = "listings" => Keeps(e))
           /\ Here.screen.panel <=> page = "listings"
           /\ page = "batch" => ~Here.load.guarded
<1>1. page \in DOMAIN PageOf
  BY PagesAssumption
<1>2. \A b \in Buttons : Sound(b.handler, b.statuses, page)
  BY <1>1, PagesSound DEF Buttons, Here, SoundScreen, SoundButton
<1>3. \A h \in Handlers : \E b \in Buttons : b.handler = h
  BY DEF Handlers
<1>4. \A h \in Handlers : Typed(h.call) /\ Suits(h.call, h.then) /\ Consistent(h)
  BY <1>2, <1>3, EndpointsTyped DEF Sound
<1>5. \A e \in Here.others : Typed(e) /\ (page = "listings" => Keeps(e))
  BY <1>1, PagesSound, EndpointsTyped, ListingsKept DEF Here
<1>6. Here.screen.panel <=> page = "listings"
  BY <1>1, PagesSound DEF Here
<1>7. page = "batch" => ~Here.load.guarded
  BY BatchReloads DEF Here
<1> QED
  BY <1>2, <1>3, <1>4, <1>5, <1>6, <1>7

\* On the page that is open, handlers that share a flag agree on what it holds.
LEMMA FlagsAgree ==
    ASSUME page \in Pages
    PROVE  \A g, h \in Handlers : g.flag = h.flag => (g.keyed <=> h.keyed)
  BY SoundHere DEF Consistent

-------------------------------------------------------------------------------
(* Sequences of calls and loads *)

IsSequence(s) == s \in Seq({s[i] : i \in DOMAIN s})

LEMMA SequenceFacts ==
    ASSUME NEW s, IsSequence(s)
    PROVE  Len(s) \in Nat /\ DOMAIN s = 1..Len(s) /\ (s = <<>> <=> Len(s) = 0)
  BY LenProperties, EmptySeq DEF IsSequence

LEMMA SequenceOf ==
    ASSUME NEW S, NEW s \in Seq(S)
    PROVE  IsSequence(s)
<1> DEFINE T == {s[i] : i \in DOMAIN s}
<1>1. Len(s) \in Nat /\ DOMAIN s = 1..Len(s) /\ s \in [1..Len(s) -> S]
  BY LenProperties
<1>2. s \in [1..Len(s) -> T]
  BY <1>1
<1>3. s \in UNION {[1..n -> T] : n \in Nat}
  BY <1>1, <1>2
<1>4. s \in Seq(T)
  BY <1>3, SeqDef
<1> QED
  BY <1>4 DEF IsSequence

LEMMA EmptyIsSequence == IsSequence(<<>>) /\ DOMAIN <<>> = {}
<1>1. <<>> \in Seq({})
  BY EmptySeq
<1>2. Len(<<>>) = 0 /\ DOMAIN <<>> = 1..Len(<<>>)
  BY <1>1, EmptySeq, LenProperties
<1>3. {(<<>>)[i] : i \in DOMAIN <<>>} = {}
  BY <1>2
<1> QED
  BY <1>1, <1>2, <1>3 DEF IsSequence

LEMMA Appended ==
    ASSUME NEW s, IsSequence(s), NEW e
    PROVE  /\ IsSequence(Append(s, e)) /\ Append(s, e) # <<>>
           /\ Len(Append(s, e)) = Len(s) + 1
           /\ DOMAIN Append(s, e) = 1..(Len(s) + 1)
           /\ \A i \in 1..Len(s) : Append(s, e)[i] = s[i]
           /\ Append(s, e)[Len(s) + 1] = e
<1> DEFINE T == {s[i] : i \in DOMAIN s} \cup {e}
<1>1. s \in Seq(T)
  BY SeqMonotonic DEF IsSequence
<1>2. e \in T
  OBVIOUS
<1> HIDE DEF T
<1>3. /\ Append(s, e) \in Seq(T) /\ Append(s, e) # <<>>
      /\ Len(Append(s, e)) = Len(s) + 1
      /\ \A i \in 1..Len(s) : Append(s, e)[i] = s[i]
      /\ Append(s, e)[Len(s) + 1] = e
  BY <1>1, <1>2, AppendProperties
<1>4. DOMAIN Append(s, e) = 1..Len(Append(s, e))
  BY <1>3, LenProperties
<1> QED
  BY <1>3, <1>4, SequenceOf

LEMMA Removed ==
    ASSUME NEW s, IsSequence(s), NEW i \in DOMAIN s
    PROVE  /\ IsSequence(RemoveAt(s, i))
           /\ Len(RemoveAt(s, i)) = Len(s) - 1
           /\ DOMAIN RemoveAt(s, i) = 1..(Len(s) - 1)
           /\ \A j \in 1..(Len(s) - 1) :
                 RemoveAt(s, i)[j] = IF j < i THEN s[j] ELSE s[j + 1]
<1> DEFINE T == {s[j] : j \in DOMAIN s}
           a == SubSeq(s, 1, i - 1)
           b == SubSeq(s, i + 1, Len(s))
<1>1. s \in Seq(T) /\ Len(s) \in Nat /\ DOMAIN s = 1..Len(s) /\ i \in 1..Len(s)
  BY SequenceFacts DEF IsSequence
<1>2. \A j \in 1..Len(s) : s[j] \in T
  BY <1>1
<1> HIDE DEF T
<1>3. /\ a \in Seq(T) /\ Len(a) = i - 1
      /\ \A j \in 1..(i - 1) : a[j] = s[j]
  <2>1. 1 \in Int /\ i - 1 \in Int /\ \A j \in 1..(i - 1) : s[j] \in T
    BY <1>1, <1>2
  <2>2. /\ a \in Seq(T) /\ Len(a) = IF 1 <= i - 1 THEN (i - 1) - 1 + 1 ELSE 0
        /\ \A j \in 1..((i - 1) - 1 + 1) : a[j] = s[1 + j - 1]
    BY <2>1, SubSeqProperties
  <2> QED
    BY <1>1, <2>2
<1>4. /\ b \in Seq(T) /\ Len(b) = Len(s) - i
      /\ \A j \in 1..(Len(s) - i) : b[j] = s[i + j]
  <2>1. i + 1 \in Int /\ Len(s) \in Int /\ \A j \in (i + 1)..Len(s) : s[j] \in T
    BY <1>1, <1>2
  <2>2. /\ b \in Seq(T)
        /\ Len(b) = IF i + 1 <= Len(s) THEN Len(s) - (i + 1) + 1 ELSE 0
        /\ \A j \in 1..(Len(s) - (i + 1) + 1) : b[j] = s[(i + 1) + j - 1]
    BY <2>1, SubSeqProperties
  <2> QED
    BY <1>1, <2>2
<1> HIDE DEF a, b
<1>5. /\ a \o b \in Seq(T) /\ Len(a \o b) = Len(a) + Len(b)
      /\ \A j \in 1..(Len(a) + Len(b)) :
            (a \o b)[j] = IF j <= Len(a) THEN a[j] ELSE b[j - Len(a)]
  BY <1>3, <1>4, ConcatProperties
<1>6. DOMAIN (a \o b) = 1..Len(a \o b) /\ IsSequence(a \o b)
  BY <1>5, LenProperties, SequenceOf
<1>7. RemoveAt(s, i) = a \o b
  BY DEF RemoveAt, a, b
<1>8. Len(a \o b) = Len(s) - 1
  BY <1>1, <1>3, <1>4, <1>5
<1>9. ASSUME NEW j \in 1..(Len(s) - 1)
      PROVE  (a \o b)[j] = IF j < i THEN s[j] ELSE s[j + 1]
  <2>1. (a \o b)[j] = IF j <= i - 1 THEN a[j] ELSE b[j - (i - 1)]
    BY <1>1, <1>3, <1>4, <1>5
  <2>2. CASE j < i
    BY <1>1, <1>3, <2>1, <2>2
  <2>3. CASE ~(j < i)
    <3>1. j - (i - 1) \in 1..(Len(s) - i) /\ i + (j - (i - 1)) = j + 1
      BY <1>1, <2>3
    <3>2. b[j - (i - 1)] = s[j + 1]
      BY <1>4, <3>1
    <3> QED
      BY <1>1, <2>1, <2>3, <3>2
  <2> QED
    BY <2>2, <2>3
<1> QED
  BY <1>6, <1>7, <1>8, <1>9

LEMMA Replaced ==
    ASSUME NEW s, IsSequence(s), NEW i \in DOMAIN s, NEW e
    PROVE  /\ IsSequence([s EXCEPT ![i] = e])
           /\ Len([s EXCEPT ![i] = e]) = Len(s)
           /\ DOMAIN [s EXCEPT ![i] = e] = DOMAIN s
           /\ \A j \in DOMAIN s : [s EXCEPT ![i] = e][j] = IF j = i THEN e ELSE s[j]
<1> DEFINE T == {s[j] : j \in DOMAIN s} \cup {e}
<1>1. s \in Seq(T) /\ e \in T
  BY SeqMonotonic DEF IsSequence
<1>2. i \in 1..Len(s) /\ DOMAIN s = 1..Len(s)
  BY SequenceFacts
<1> HIDE DEF T
<1>3. /\ [s EXCEPT ![i] = e] \in Seq(T)
      /\ Len([s EXCEPT ![i] = e]) = Len(s)
      /\ \A j \in 1..Len(s) : [s EXCEPT ![i] = e][j] = IF j = i THEN e ELSE s[j]
  BY <1>1, <1>2, ExceptSeq
<1> QED
  BY <1>2, <1>3, SequenceOf

LEMMA Elementwise ==
    ASSUME NEW S, NEW s, IsSequence(s), \A i \in DOMAIN s : s[i] \in S
    PROVE  s \in Seq(S)
<1>1. Len(s) \in Nat /\ DOMAIN s = 1..Len(s)
  BY SequenceFacts
<1>2. s \in [1..Len(s) -> S]
  <2>1. s = [i \in DOMAIN s |-> s[i]]
    BY LenProperties, Zenon DEF IsSequence
  <2> QED
    BY <1>1, <2>1
<1> QED
  BY <1>1, <1>2, SeqDef

LEMMA TypedSequences ==
    ASSUME NEW S, NEW s \in Seq(S)
    PROVE  /\ Len(s) \in Nat /\ DOMAIN s = 1..Len(s) /\ \A i \in DOMAIN s : s[i] \in S
           /\ \A e \in S : Append(s, e) \in Seq(S) /\ Len(Append(s, e)) = Len(s) + 1
           /\ \A i \in DOMAIN s :
                 /\ RemoveAt(s, i) \in Seq(S) /\ Len(RemoveAt(s, i)) = Len(s) - 1
                 /\ \A e \in S : /\ [s EXCEPT ![i] = e] \in Seq(S)
                                 /\ Len([s EXCEPT ![i] = e]) = Len(s)
<1>1. /\ Len(s) \in Nat /\ DOMAIN s = 1..Len(s) /\ \A i \in DOMAIN s : s[i] \in S
      /\ IsSequence(s)
  BY LenProperties, ElementOfSeq, SequenceOf
<1>2. \A e \in S : Append(s, e) \in Seq(S) /\ Len(Append(s, e)) = Len(s) + 1
  BY AppendProperties
<1>3. ASSUME NEW i \in DOMAIN s
      PROVE  RemoveAt(s, i) \in Seq(S) /\ Len(RemoveAt(s, i)) = Len(s) - 1
  <2>1. /\ IsSequence(RemoveAt(s, i)) /\ Len(RemoveAt(s, i)) = Len(s) - 1
        /\ DOMAIN RemoveAt(s, i) = 1..(Len(s) - 1)
        /\ \A j \in 1..(Len(s) - 1) : RemoveAt(s, i)[j] = IF j < i THEN s[j] ELSE s[j + 1]
    BY <1>1, Removed
  <2>2. \A j \in DOMAIN RemoveAt(s, i) : RemoveAt(s, i)[j] \in S
    BY <1>1, <2>1
  <2> QED
    BY <2>1, <2>2, Elementwise
<1>4. ASSUME NEW i \in DOMAIN s, NEW e \in S
      PROVE  [s EXCEPT ![i] = e] \in Seq(S) /\ Len([s EXCEPT ![i] = e]) = Len(s)
  BY <1>1, ExceptSeq
<1> QED
  BY <1>1, <1>2, <1>3, <1>4

LEMMA LeastNumber ==
    ASSUME NEW N, N \subseteq Nat, N # {}
    PROVE  \E m \in N : \A k \in N : m <= k
<1>1. PICK m \in N : \A k \in N : <<k, m>> \notin OpToRel(<, Nat)
  BY WFMin, NatLessThanWellFounded, Zenon
<1>2. \A k \in N : ~(k < m)
  BY <1>1, Zenon DEF OpToRel
<1> QED
  BY <1>2

\* The definition of InList: kept[n] is what it keeps of the first n copies.
IsKept(kept, s, st, m) ==
    kept = [n \in 0..m |->
              IF n = 0 THEN <<>>
              ELSE IF s[n].st = st THEN Append(kept[n - 1], s[n]) ELSE kept[n - 1]]

LEMMA KeptUnfolds ==
    ASSUME NEW kept, NEW s, NEW st, NEW m \in Nat, IsKept(kept, s, st, m)
    PROVE  /\ kept[0] = <<>>
           /\ \A i \in 1..m :
                 kept[i] = IF s[i].st = st THEN Append(kept[i - 1], s[i]) ELSE kept[i - 1]
<1>1. \A n \in 0..m :
         kept[n] = IF n = 0 THEN <<>>
                   ELSE IF s[n].st = st THEN Append(kept[n - 1], s[n]) ELSE kept[n - 1]
  BY DEF IsKept
<1>2. 0 \in 0..m /\ \A i \in 1..m : i \in 0..m /\ i # 0
  OBVIOUS
<1> QED
  BY <1>1, <1>2

LEMMA KeptExists ==
    ASSUME NEW s, NEW st, NEW m \in Nat
    PROVE  \E kept : IsKept(kept, s, st, m)
<1> DEFINE N == {n \in Nat : ~ \E kept : IsKept(kept, s, st, n)}
<1>1. SUFFICES ASSUME N # {}
               PROVE  FALSE
  OBVIOUS
<1>2. PICK n \in N : \A k \in N : n <= k
  <2>1. N \subseteq Nat
    OBVIOUS
  <2> HIDE DEF N
  <2> QED
    BY <1>1, <2>1, LeastNumber
<1>3. n # 0
  <2>1. IsKept([i \in 0..0 |-> <<>>], s, st, 0)
    BY DEF IsKept
  <2> QED
    BY <2>1
<1>4. n - 1 \in Nat /\ n - 1 \notin N
  BY <1>2, <1>3
<1>5. PICK f : IsKept(f, s, st, n - 1)
  BY <1>4
<1> DEFINE last == IF s[n].st = st THEN Append(f[n - 1], s[n]) ELSE f[n - 1]
           g == [i \in 0..n |-> IF i = n THEN last ELSE f[i]]
<1>6. /\ \A i \in 0..(n - 1) : g[i] = f[i]
      /\ g[n] = last
  BY <1>4
<1>7. /\ f[0] = <<>>
      /\ \A i \in 1..(n - 1) :
            f[i] = IF s[i].st = st THEN Append(f[i - 1], s[i]) ELSE f[i - 1]
  BY <1>4, <1>5, KeptUnfolds
<1> HIDE DEF last
<1>8. \A i \in 0..n :
         g[i] = IF i = 0 THEN <<>>
                ELSE IF s[i].st = st THEN Append(g[i - 1], s[i]) ELSE g[i - 1]
  <2>1. ASSUME NEW i \in 0..n
        PROVE  g[i] = IF i = 0 THEN <<>>
                      ELSE IF s[i].st = st THEN Append(g[i - 1], s[i]) ELSE g[i - 1]
    <3>1. CASE i = 0
      BY <1>3, <1>4, <1>6, <1>7, <3>1
    <3>2. CASE i # 0 /\ i # n
      <4>1. i \in 1..(n - 1) /\ i \in 0..(n - 1) /\ i - 1 \in 0..(n - 1)
        BY <1>4, <3>2
      <4>2. g[i] = f[i] /\ g[i - 1] = f[i - 1]
        BY <1>6, <4>1
      <4> QED
        BY <1>7, <3>2, <4>1, <4>2
    <3>3. CASE i = n
      <4>1. i - 1 \in 0..(n - 1)
        BY <1>4, <3>3
      <4>2. g[i - 1] = f[n - 1]
        BY <1>6, <3>3, <4>1
      <4> QED
        BY <1>3, <1>6, <3>3, <4>2 DEF last
    <3> QED
      BY <3>1, <3>2, <3>3
  <2> QED
    BY <2>1
<1>9. IsKept(g, s, st, n)
  BY <1>8 DEF IsKept
<1> QED
  BY <1>2, <1>9

\* What InList keeps of copies are copies; nothing of one copy in another list.
LEMMA InListFacts ==
    ASSUME NEW S, NEW s \in Seq(S), NEW st
    PROVE  /\ InList(s, st) \in Seq(S)
           /\ Len(s) = 1 /\ s[1].st # st => InList(s, st) = <<>>
<1> DEFINE m == Len(s)
<1>1. m \in Nat /\ \A i \in 1..m : s[i] \in S
  BY LenProperties, ElementOfSeq
<1>2. PICK kept : IsKept(kept, s, st, m) /\ InList(s, st) = kept[m]
  <2> DEFINE kept == CHOOSE f : IsKept(f, s, st, m)
  <2>1. \E f : IsKept(f, s, st, m)
    BY <1>1, KeptExists
  <2>2. IsKept(kept, s, st, m)
    BY <2>1
  <2>3. InList(s, st) = kept[m]
    BY DEF InList, IsKept
  <2> QED
    BY <2>2, <2>3
<1>3. /\ kept[0] = <<>>
      /\ \A i \in 1..m :
            kept[i] = IF s[i].st = st THEN Append(kept[i - 1], s[i]) ELSE kept[i - 1]
  BY <1>1, <1>2, KeptUnfolds
<1> HIDE DEF m
<1> DEFINE N == {n \in 0..m : kept[n] \notin Seq(S)}
<1>4. N = {}
  <2>1. SUFFICES ASSUME N # {}
                 PROVE  FALSE
    OBVIOUS
  <2>2. PICK n \in N : \A k \in N : n <= k
    <3>1. N \subseteq Nat
      BY <1>1
    <3> HIDE DEF N
    <3> QED
      BY <2>1, <3>1, LeastNumber
  <2>3. n # 0
    <3>1. kept[0] \in Seq(S)
      BY <1>3, EmptySeq
    <3> QED
      BY <2>2, <3>1
  <2>4. n \in 1..m /\ n - 1 \in 0..m /\ n - 1 \notin N
    BY <1>1, <2>2, <2>3
  <2>5. kept[n - 1] \in Seq(S) /\ s[n] \in S
    BY <1>1, <2>4
  <2>6. kept[n] \in Seq(S)
    <3>1. Append(kept[n - 1], s[n]) \in Seq(S)
      BY <2>5, AppendProperties
    <3>2. kept[n] = IF s[n].st = st THEN Append(kept[n - 1], s[n]) ELSE kept[n - 1]
      BY <1>3, <2>4
    <3> QED
      BY <2>5, <3>1, <3>2
  <2> QED
    BY <2>2, <2>6
<1>5. m \in 0..m
  BY <1>1
<1>6. InList(s, st) \in Seq(S)
  BY <1>2, <1>4, <1>5
<1>7. m = 1 /\ s[1].st # st => InList(s, st) = <<>>
  BY <1>2, <1>3
<1> QED
  BY <1>6, <1>7 DEF m

-------------------------------------------------------------------------------
(* Loads and the spinner *)

LoadsInv == IsSequence(loads) /\ (isLoading => loads # <<>>)

LEMMA LoadStarts ==
    ASSUME NEW older, IsSequence(older), StartLoad(older)
    PROVE  LoadsInv'
<1>1. loads' = Append(older, NewLoad)
  BY DEF StartLoad
<1> QED
  BY <1>1, Appended DEF LoadsInv

LEMMA LoadEnds ==
    ASSUME LoadsInv, NEW i \in DOMAIN loads, loads' = RemoveAt(loads, i), isLoading' = FALSE
    PROVE  LoadsInv'
  BY Removed DEF LoadsInv

LEMMA LoadsStep ==
    ASSUME LoadsInv, [Step]_vars
    PROVE  LoadsInv'
<1>1. CASE Refresh
  <2>1. IsSequence(<<>>)
    BY EmptyIsSequence
  <2>2. IsSequence(Surviving)
    BY <2>1 DEF Surviving, LoadsInv
  <2> QED
    BY <1>1, <2>2, LoadStarts DEF Refresh
<1>2. ASSUME NEW i \in DOMAIN loads, ReadLoad(i)
      PROVE  LoadsInv'
  <2>1. PICK e : loads' = [loads EXCEPT ![i] = e] /\ isLoading' = isLoading
    BY <1>2 DEF ReadLoad
  <2>2. IsSequence(loads') /\ Len(loads') = Len(loads)
    <3>1. IsSequence(loads)
      BY DEF LoadsInv
    <3>2. /\ IsSequence([loads EXCEPT ![i] = e])
          /\ Len([loads EXCEPT ![i] = e]) = Len(loads)
      BY <3>1, Replaced
    <3> QED
      BY <2>1, <3>2
  <2>3. loads' = <<>> => loads = <<>>
    BY <2>2, SequenceFacts DEF LoadsInv
  <2> QED
    BY <2>1, <2>2, <2>3 DEF LoadsInv
<1>3. ASSUME NEW i \in DOMAIN loads, AnswerLoad(i) \/ FailLoad(i)
      PROVE  LoadsInv'
  BY <1>3, LoadEnds DEF AnswerLoad, FailLoad
<1>4. ASSUME NEW i \in DOMAIN calls, Succeed(i)
      PROVE  LoadsInv'
  <2>1. StartLoad(loads) \/ UNCHANGED <<loads, isLoading>>
    BY <1>4 DEF Succeed
  <2> QED
    BY <2>1, LoadStarts DEF LoadsInv
<1>5. CASE UNCHANGED <<loads, isLoading>>
  BY <1>5 DEF LoadsInv
<1>6. \/ Refresh
      \/ \E i \in DOMAIN loads : ReadLoad(i) \/ AnswerLoad(i) \/ FailLoad(i)
      \/ \E i \in DOMAIN calls : Succeed(i)
      \/ UNCHANGED <<loads, isLoading>>
  BY DEF Step, Click, Confirm, Dismiss, StartEditing, StopEditing, Serve, Fail, Elsewhere,
     screenVars, vars
<1> QED
  BY <1>1, <1>2, <1>3, <1>4, <1>5, <1>6

-------------------------------------------------------------------------------
(* Calls, busy flags and dialogs *)

\* While requests for two rows never met under a flag, it holds the row of its request, so
\* that a second cannot be sent; any flag that is set has a call; and the flag was free
\* for the row of an open dialog when its button was clicked.
CallsInv ==
    /\ page \in Pages
    /\ IsSequence(calls)
    /\ busy \in [Flags -> Rows \cup {NoRow}]
    /\ contested \subseteq Flags
    /\ \A h \in Handlers : h.flag \in contested => h.keyed
    /\ \A i \in DOMAIN calls :
          /\ calls[i].handler \in Handlers /\ calls[i].row \in Rows
          /\ calls[i].handler.flag \notin contested => busy[calls[i].handler.flag] = calls[i].row
    /\ \A d \in dialog :
          /\ d.handler \in Handlers /\ d.row \in Rows
          /\ Enabled(d.handler, d.row)
    /\ \A f \in Flags : busy[f] # NoRow => \E i \in DOMAIN calls : calls[i].handler.flag = f
    /\ Meeting(calls) \subseteq contested
    /\ NoDoubleSubmit

\* The history follows the requests.
Watched ==
    /\ contested \subseteq contested'
    /\ contested' \subseteq contested \cup Meeting(calls')
    /\ Meeting(calls') \subseteq contested'

LEMMA SamePage ==
    ASSUME page' = page
    PROVE  Handlers' = Handlers /\ Flags' = Flags /\ Buttons' = Buttons
  BY DEF Handlers, Flags, Buttons, Here

LEMMA FlagOf == \A h \in Handlers : h.flag \in Flags
  BY DEF Flags

\* Requests that all were there before, for the same rows and by the same handlers.
LEMMA NothingMeets ==
    ASSUME CallsInv, Meeting(calls') \subseteq Meeting(calls), Watched
    PROVE  contested' = contested
  BY DEF CallsInv, Watched

LEMMA CallsStay ==
    ASSUME CallsInv, Watched, UNCHANGED <<page, busy>>, dialog' \subseteq dialog,
           IsSequence(calls'), DOMAIN calls' = DOMAIN calls,
           \A i \in DOMAIN calls : /\ calls'[i].handler = calls[i].handler
                                   /\ calls'[i].row = calls[i].row
    PROVE  CallsInv'
<1>1. Handlers' = Handlers /\ Flags' = Flags /\ Meeting(calls)' = Meeting(calls')
  BY SamePage DEF Meeting
<1>2. Meeting(calls') \subseteq Meeting(calls)
  BY DEF Meeting
<1>3. contested' = contested
  BY <1>2, NothingMeets
<1>4. \A h, k : Enabled(h, k)' <=> Enabled(h, k)
  BY DEF Enabled
<1>5. NoDoubleSubmit'
  BY <1>3 DEF CallsInv, NoDoubleSubmit
<1> QED
  BY <1>1, <1>2, <1>3, <1>4, <1>5 DEF CallsInv, Watched
LEMMA CallAsked ==
    ASSUME CallsInv, Watched, UNCHANGED <<page, busy, calls>>,
           NEW h \in Handlers, NEW k \in Rows, Enabled(h, k),
           NEW seen, dialog' = {[handler |-> h, row |-> k, seen |-> seen]}
    PROVE  CallsInv'
<1>1. Handlers' = Handlers /\ Flags' = Flags /\ Meeting(calls)' = Meeting(calls)
  BY SamePage DEF Meeting
<1>2. Meeting(calls') = Meeting(calls)
  OBVIOUS
<1>3. contested' = contested
  BY <1>2, NothingMeets
<1>4. \A g, r : Enabled(g, r)' <=> Enabled(g, r)
  BY DEF Enabled
<1>5. NoDoubleSubmit'
  BY <1>3 DEF CallsInv, NoDoubleSubmit
<1> QED
  BY <1>1, <1>3, <1>4, <1>5 DEF CallsInv

LEMMA CallSent ==
    ASSUME CallsInv, Watched, page' = page, dialog' = {},
           NEW h \in Handlers, NEW k \in Rows, Enabled(h, k),
           NEW seen, Send(h, k, seen)
    PROVE  CallsInv'
<1> DEFINE c == [handler |-> h, row |-> k, seen |-> seen, phase |-> "sent", got |-> Absent]
           n == Len(calls) + 1
<1>1. c.handler = h /\ c.row = k
  OBVIOUS
<1>2. calls' = Append(calls, c) /\ busy' = [busy EXCEPT ![h.flag] = k]
  BY DEF Send
<1> HIDE DEF c
<1>3. Len(calls) \in Nat /\ DOMAIN calls = 1..Len(calls)
  BY SequenceFacts DEF CallsInv
<1>4. /\ IsSequence(calls') /\ DOMAIN calls' = 1..n
      /\ \A i \in DOMAIN calls : calls'[i] = calls[i]
      /\ calls'[n] = c
  BY <1>2, <1>3, Appended DEF CallsInv
<1>5. /\ busy' \in [Flags -> Rows \cup {NoRow}] /\ busy'[h.flag] = k /\ k # NoRow
      /\ \A f \in Flags \ {h.flag} : busy'[f] = busy[f]
  BY <1>2, FlagOf, NoRowAssumption DEF CallsInv
<1>6. \A i \in DOMAIN calls' : i \in DOMAIN calls \/ i = n
  BY <1>3, <1>4
<1>7. \A i \in DOMAIN calls : i \in DOMAIN calls' /\ i # n
  BY <1>3, <1>4
<1>8. n \in DOMAIN calls'
  BY <1>3, <1>4
<1> HIDE DEF n
<1>9. Handlers' = Handlers /\ Flags' = Flags /\ Meeting(calls)' = Meeting(calls')
  BY SamePage DEF Meeting
\* A request that is under way when the flag is free for k is for another row.
<1>10. ASSUME NEW j \in DOMAIN calls, calls[j].handler.flag = h.flag
       PROVE  calls[j].handler.keyed /\ h.keyed /\ h.flag \in contested'
  <2>1. calls[j].handler \in Handlers /\ calls[j].row \in Rows /\ h.flag \in Flags
    BY FlagOf DEF CallsInv
  <2>2. CASE h.flag \in contested
    BY <1>10, <2>1, <2>2 DEF CallsInv, Watched
  <2>3. CASE h.flag \notin contested
    <3>1. busy[h.flag] = calls[j].row
      BY <1>10, <2>3 DEF CallsInv
    <3>2. h.keyed /\ calls[j].row # k
      BY <2>1, <3>1, NoRowAssumption DEF Enabled
    <3>3. calls'[j].handler.flag = h.flag /\ calls'[n].handler.flag = h.flag
          /\ calls'[j].row # calls'[n].row
      BY <1>1, <1>4, <1>10, <3>2
    <3>4. h.flag \in Meeting(calls')
      BY <1>7, <1>8, <2>1, <3>3 DEF Meeting
    <3> QED
      BY <1>10, <2>1, <3>2, <3>4, FlagsAgree DEF CallsInv, Watched
  <2> QED
    BY <2>2, <2>3
<1>11. NoDoubleSubmit'
  <2>1. ASSUME NEW i \in DOMAIN calls', NEW j \in DOMAIN calls', i # j,
               calls'[i].handler.flag = calls'[j].handler.flag
        PROVE  calls'[i].handler.keyed /\ calls'[i].handler.flag \in contested'
    <3>1. CASE i \in DOMAIN calls /\ j \in DOMAIN calls
      BY <1>4, <2>1, <3>1 DEF CallsInv, NoDoubleSubmit, Watched
    <3>2. CASE i = n /\ j \in DOMAIN calls
      BY <1>1, <1>4, <1>10, <2>1, <3>2
    <3>3. CASE i \in DOMAIN calls /\ j = n
      BY <1>1, <1>4, <1>10, <2>1, <3>3
    <3> QED
      BY <1>6, <2>1, <3>1, <3>2, <3>3
  <2> QED
    BY <2>1 DEF NoDoubleSubmit
<1>12. \A i \in DOMAIN calls' :
         /\ calls'[i].handler \in Handlers /\ calls'[i].row \in Rows
         /\ calls'[i].handler.flag \notin contested'
               => busy'[calls'[i].handler.flag] = calls'[i].row
  <2>1. ASSUME NEW i \in DOMAIN calls
        PROVE  /\ calls'[i].handler \in Handlers /\ calls'[i].row \in Rows
               /\ calls'[i].handler.flag \notin contested'
                     => busy'[calls'[i].handler.flag] = calls'[i].row
    <3>1. calls'[i] = calls[i] /\ calls[i].handler \in Handlers /\ calls[i].row \in Rows
          /\ calls[i].handler.flag \in Flags
      BY <1>4, FlagOf DEF CallsInv
    <3>2. CASE calls[i].handler.flag = h.flag
      BY <1>10, <3>1, <3>2
    <3>3. CASE calls[i].handler.flag # h.flag
      BY <1>5, <3>1, <3>3 DEF CallsInv, Watched
    <3> QED
      BY <3>1, <3>2, <3>3
  <2>2. /\ calls'[n].handler \in Handlers /\ calls'[n].row \in Rows
        /\ busy'[calls'[n].handler.flag] = calls'[n].row
    BY <1>1, <1>4, <1>5
  <2> QED
    BY <1>6, <2>1, <2>2
<1>13. \A f \in Flags : busy'[f] # NoRow => \E i \in DOMAIN calls' : calls'[i].handler.flag = f
  <2>1. calls'[n].handler.flag = h.flag
    BY <1>1, <1>4
  <2>2. ASSUME NEW f \in Flags \ {h.flag}, busy'[f] # NoRow
        PROVE  \E i \in DOMAIN calls' : calls'[i].handler.flag = f
    BY <1>4, <1>5, <1>7, <2>2 DEF CallsInv
  <2> QED
    BY <1>8, <2>1, <2>2
<1>14. contested' \subseteq Flags /\ \A g \in Handlers : g.flag \in contested' => g.keyed
  <2>1. contested' \subseteq Flags
    BY DEF Watched, Meeting, CallsInv
  <2>2. ASSUME NEW g \in Handlers, g.flag \in Meeting(calls')
        PROVE  g.keyed
    <3>1. PICK i, j \in DOMAIN calls' : /\ calls'[i].handler.flag = g.flag
                                        /\ calls'[j].handler.flag = g.flag
                                        /\ calls'[i].row # calls'[j].row
      BY <2>2 DEF Meeting
    <3>2. calls'[i].handler.keyed
      BY <1>11, <3>1 DEF NoDoubleSubmit
    <3> QED
      BY <1>12, <3>1, <3>2, FlagsAgree DEF CallsInv
  <2> QED
    BY <2>1, <2>2 DEF Watched, CallsInv
<1> QED
  BY <1>4, <1>5, <1>9, <1>11, <1>12, <1>13, <1>14 DEF CallsInv, Watched

\* The other requests stay, one place earlier if they came after.
Before(i, j) == IF j < i THEN j ELSE j + 1

LEMMA Settled ==
    ASSUME IsSequence(calls), NEW i \in DOMAIN calls, Settle(i)
    PROVE  /\ IsSequence(calls')
           /\ \A j \in DOMAIN calls' :
                 Before(i, j) \in DOMAIN calls \ {i} /\ calls'[j] = calls[Before(i, j)]
           /\ \A j, k \in DOMAIN calls' : j # k => Before(i, j) # Before(i, k)
           /\ \A k \in DOMAIN calls \ {i} : \E j \in DOMAIN calls' : calls'[j] = calls[k]
<1>1. calls' = RemoveAt(calls, i)
  BY DEF Settle
<1>2. Len(calls) \in Nat /\ DOMAIN calls = 1..Len(calls)
  BY SequenceFacts
<1>3. /\ IsSequence(calls') /\ DOMAIN calls' = 1..(Len(calls) - 1)
      /\ \A j \in 1..(Len(calls) - 1) : calls'[j] = IF j < i THEN calls[j] ELSE calls[j + 1]
  BY <1>1, Removed
<1>4. \A j \in DOMAIN calls' :
         Before(i, j) \in DOMAIN calls \ {i} /\ calls'[j] = calls[Before(i, j)]
  BY <1>2, <1>3 DEF Before
<1>5. \A j, k \in DOMAIN calls' : j # k => Before(i, j) # Before(i, k)
  BY <1>2, <1>3 DEF Before
<1>6. ASSUME NEW k \in DOMAIN calls \ {i}
      PROVE  \E j \in DOMAIN calls' : calls'[j] = calls[k]
  <2>1. CASE k < i
    BY <1>2, <1>3, <2>1
  <2>2. CASE k > i
    <3>1. k - 1 \in DOMAIN calls' /\ ~(k - 1 < i) /\ (k - 1) + 1 = k
      BY <1>2, <1>3, <2>2
    <3> QED
      BY <1>3, <3>1
  <2> QED
    BY <1>2, <2>1, <2>2
<1> QED
  BY <1>3, <1>4, <1>5, <1>6

LEMMA CallSettled ==
    ASSUME CallsInv, Watched, UNCHANGED <<page, dialog>>, NEW i \in DOMAIN calls, Settle(i)
    PROVE  CallsInv'
<1> DEFINE g == calls[i].handler.flag
<1>1. busy' = [busy EXCEPT ![g] = NoRow] /\ g \in Flags
  BY FlagOf DEF Settle, CallsInv
<1>2. /\ IsSequence(calls')
      /\ \A j \in DOMAIN calls' :
            Before(i, j) \in DOMAIN calls \ {i} /\ calls'[j] = calls[Before(i, j)]
      /\ \A j, k \in DOMAIN calls' : j # k => Before(i, j) # Before(i, k)
      /\ \A k \in DOMAIN calls \ {i} : \E j \in DOMAIN calls' : calls'[j] = calls[k]
  BY Settled DEF CallsInv
<1>3. /\ busy' \in [Flags -> Rows \cup {NoRow}] /\ busy'[g] = NoRow
      /\ \A f \in Flags \ {g} : busy'[f] = busy[f]
  BY <1>1 DEF CallsInv
<1>4. Handlers' = Handlers /\ Flags' = Flags /\ Meeting(calls)' = Meeting(calls')
  BY SamePage DEF Meeting
<1>5. Meeting(calls') \subseteq Meeting(calls)
  <2>1. ASSUME NEW f \in Flags, NEW j \in DOMAIN calls', NEW k \in DOMAIN calls',
               calls'[j].handler.flag = f, calls'[k].handler.flag = f,
               calls'[j].row # calls'[k].row
        PROVE  f \in Meeting(calls)
    <3>1. Before(i, j) \in DOMAIN calls /\ calls'[j] = calls[Before(i, j)]
      BY <1>2
    <3>2. Before(i, k) \in DOMAIN calls /\ calls'[k] = calls[Before(i, k)]
      BY <1>2
    <3> QED
      BY <2>1, <3>1, <3>2 DEF Meeting
  <2> QED
    BY <2>1 DEF Meeting
<1>6. contested' = contested
  BY <1>5, NothingMeets
<1>7. NoDoubleSubmit'
  BY <1>2, <1>6 DEF CallsInv, NoDoubleSubmit
<1>8. \A j \in DOMAIN calls' :
         /\ calls'[j].handler \in Handlers /\ calls'[j].row \in Rows
         /\ calls'[j].handler.flag \notin contested
               => busy'[calls'[j].handler.flag] = calls'[j].row
  <2>1. ASSUME NEW j \in DOMAIN calls \ {i}, calls[j].handler.flag \notin contested
        PROVE  busy'[calls[j].handler.flag] = calls[j].row
    <3>1. calls[j].handler.flag # g /\ calls[j].handler.flag \in Flags
      BY <2>1, FlagOf DEF CallsInv, NoDoubleSubmit
    <3> QED
      BY <1>3, <2>1, <3>1 DEF CallsInv
  <2> QED
    BY <1>2, <2>1 DEF CallsInv
<1>9. \A f \in Flags : busy'[f] # NoRow => \E j \in DOMAIN calls' : calls'[j].handler.flag = f
  <2>1. ASSUME NEW f \in Flags, busy'[f] # NoRow
        PROVE  \E j \in DOMAIN calls' : calls'[j].handler.flag = f
    <3>1. f # g /\ busy[f] # NoRow
      BY <1>3, <2>1
    <3>2. PICK k \in DOMAIN calls : calls[k].handler.flag = f
      BY <3>1 DEF CallsInv
    <3> QED
      BY <1>2, <3>1, <3>2
  <2> QED
    BY <2>1
<1>10. ASSUME NEW d \in dialog'
       PROVE  d.handler \in Handlers /\ d.row \in Rows /\ Enabled(d.handler, d.row)'
  <2>1. d.handler \in Handlers /\ d.row \in Rows /\ Enabled(d.handler, d.row)
    BY DEF CallsInv
  <2>2. d.handler.flag \in Flags
    BY <2>1, FlagOf
  <2>3. CASE d.handler.flag = g
    BY <1>3, <2>1, <2>3, NoRowAssumption DEF Enabled
  <2>4. CASE d.handler.flag # g
    BY <1>3, <2>1, <2>2, <2>4 DEF Enabled
  <2> QED
    BY <2>1, <2>3, <2>4
<1> QED
  BY <1>2, <1>3, <1>4, <1>6, <1>7, <1>8, <1>9, <1>10 DEF CallsInv, Watched

LEMMA CallsStep ==
    ASSUME CallsInv, [Next]_vars
    PROVE  CallsInv'
<1>0. Watched
  <2>1. CASE Observe
    BY <2>1 DEF Observe, Watched
  <2>2. CASE UNCHANGED vars
    BY <2>2 DEF vars, Watched, CallsInv
  <2> QED
    BY <2>1, <2>2 DEF Next
<1>1. ASSUME NEW b \in Buttons, NEW k \in Rows, Click(b, k)
      PROVE  CallsInv'
  <2> DEFINE h == b.handler
  <2>1. h \in Handlers /\ dialog = {} /\ page' = page
    BY <1>1 DEF Click, Handlers
  <2>2. Enabled(h, k)
    BY <1>1 DEF Click
  <2>3. \E seen : \/ /\ dialog' = {[handler |-> h, row |-> k, seen |-> seen]}
                     /\ UNCHANGED <<busy, calls>>
                  \/ Send(h, k, seen) /\ UNCHANGED dialog
    BY <1>1 DEF Click
  <2> HIDE DEF h
  <2> QED
    BY <1>0, <2>1, <2>2, <2>3, CallAsked, CallSent
<1>2. ASSUME NEW d \in dialog, Confirm(d)
      PROVE  CallsInv'
  <2>1. page' = page /\ dialog' = {} /\ Send(d.handler, d.row, d.seen)
    BY <1>2 DEF Confirm
  <2>2. /\ d.handler \in Handlers /\ d.row \in Rows
        /\ Enabled(d.handler, d.row)
    BY DEF CallsInv
  <2> QED
    BY <1>0, <2>1, <2>2, CallSent
<1>3. ASSUME NEW i \in DOMAIN calls, Succeed(i) \/ Fail(i)
      PROVE  CallsInv'
  BY <1>0, <1>3, CallSettled DEF Succeed, Fail
<1>4. ASSUME NEW i \in DOMAIN calls, Serve(i)
      PROVE  CallsInv'
  <2>1. PICK phase, got : calls' = [calls EXCEPT ![i] = [calls[i] EXCEPT !.phase = phase,
                                                                        !.got = got]]
    BY <1>4 DEF Serve
  <2>2. /\ [calls[i] EXCEPT !.phase = phase, !.got = got].handler = calls[i].handler
        /\ [calls[i] EXCEPT !.phase = phase, !.got = got].row = calls[i].row
    OBVIOUS
  <2>3. /\ IsSequence(calls') /\ DOMAIN calls' = DOMAIN calls
        /\ \A j \in DOMAIN calls : /\ calls'[j].handler = calls[j].handler
                                   /\ calls'[j].row = calls[j].row
    BY <2>1, <2>2, Replaced DEF CallsInv
  <2>4. UNCHANGED <<page, busy, dialog>>
    BY <1>4 DEF Serve
  <2> QED
    BY <1>0, <2>3, <2>4, CallsStay
<1>5. CASE UNCHANGED <<page, busy, calls>> /\ dialog' \subseteq dialog
  BY <1>0, <1>5, CallsStay DEF CallsInv
<1>6. \/ \E b \in Buttons, k \in Rows : Click(b, k)
      \/ \E d \in dialog : Confirm(d)
      \/ \E i \in DOMAIN calls : Succeed(i) \/ Fail(i) \/ Serve(i)
      \/ UNCHANGED <<page, busy, calls>> /\ dialog' \subseteq dialog
  BY DEF Next, Step, Refresh, ReadLoad, AnswerLoad, FailLoad, Dismiss, StartEditing,
     StopEditing, Elsewhere, userVars, vars
<1> QED
  BY <1>1, <1>2, <1>3, <1>4, <1>5, <1>6

-------------------------------------------------------------------------------
(* Types *)

Copies == [st : Statuses, tag : BOOLEAN, whole : BOOLEAN]
LoadRecord == [read : BOOLEAN, snap : [Rows -> Stored]]
Question == [handler : Handlers, row : Rows, seen : Statuses]
CallRecord == [handler : Handlers, row : Rows, seen : Statuses,
               phase : {"sent", "accepted", "refused"}, got : Stored]

\* While a dialog is open no request is added, so that there is room for its own.
TypeInv ==
    /\ page \in Pages
    /\ db \in [Rows -> Stored] /\ view \in [Rows -> Seq(Copies)]
    /\ loads \in Seq(LoadRecord) /\ Len(loads) <= MaxLoads
    /\ calls \in Seq(CallRecord) /\ Len(calls) <= MaxCalls
    /\ dialog \subseteq Question /\ (dialog # {} => Len(calls) < MaxCalls)
    /\ isLoading \in BOOLEAN /\ loadError \in BOOLEAN /\ done \in BOOLEAN
    /\ editor \in Rows \cup {NoRow}
    /\ excused \subseteq Rows

LEMMA AbsentFacts == Absent \in Stored /\ Absent.st = "ABSENT"
  BY DEF Absent, Stored, Statuses, CatalogStatus

LEMMA ShownTyped == \A st \in Statuses : Shown(st) \in Statuses
<1>1. "FULFILLED" \in Statuses /\ "GROWN" \in Statuses
  BY DEF Statuses, OrderStatus, BatchStatus
<1> QED
  BY <1>1 DEF Shown

LEMMA CopyFacts ==
    ASSUME NEW row \in Stored, NEW whole \in BOOLEAN
    PROVE  /\ Copy(row, whole) \in Copies
           /\ Copy(row, whole).st = Shown(row.st) /\ Copy(row, whole).tag = row.tag
           /\ Copy(row, whole).whole = whole
  BY ShownTyped DEF Copy, Copies, Stored

LEMMA AfterFacts ==
    ASSUME db \in [Rows -> Stored], NEW call, Typed(call), NEW k \in Rows, Accepts(call, k)
    PROVE  /\ After(call, k) \in Stored
           /\ After(call, k).st = call.moves[db[k].st]
           /\ call.moves[db[k].st] # "ABSENT" => After(call, k).tag = (db[k].tag # call.edits)
<1>1. db[k] \in Stored /\ call.moves[db[k].st] \in Statuses /\ db[k].tag \in BOOLEAN
  BY DEF Typed, Accepts, Stored
<1>2. CASE call.moves[db[k].st] = "ABSENT"
  BY <1>2, AbsentFacts DEF After
<1>3. CASE call.moves[db[k].st] # "ABSENT"
  <2>1. After(call, k) = [st |-> call.moves[db[k].st], tag |-> db[k].tag # call.edits]
    BY <1>3 DEF After
  <2>2. (db[k].tag # call.edits) \in BOOLEAN
    OBVIOUS
  <2> HIDE DEF Typed
  <2> QED
    BY <1>1, <2>1, <2>2 DEF Stored
<1> QED
  BY <1>2, <1>3

LEMMA OneElement ==
    ASSUME NEW S, NEW e \in S
    PROVE  <<e>> \in Seq(S) /\ Len(<<e>>) = 1 /\ <<e>>[1] = e
  OBVIOUS

LEMMA ShowingFacts ==
    ASSUME NEW rows \in [Rows -> Stored]
    PROVE  /\ Showing(rows) \in [Rows -> Seq(Copies)]
           /\ \A k \in Rows : Showing(rows)[k] = IF rows[k].st = "ABSENT" THEN <<>>
                                                 ELSE <<Copy(rows[k], TRUE)>>
<1>1. ASSUME NEW k \in Rows
      PROVE  (IF rows[k].st = "ABSENT" THEN <<>> ELSE <<Copy(rows[k], TRUE)>>) \in Seq(Copies)
  <2>1. Copy(rows[k], TRUE) \in Copies
    BY CopyFacts
  <2>2. <<>> \in Seq(Copies) /\ <<Copy(rows[k], TRUE)>> \in Seq(Copies)
    BY <2>1, EmptySeq, OneElement, Zenon
  <2> QED
    BY <2>2
<1> QED
  BY <1>1 DEF Showing

\* What each kind of handler shows of its row.
Merged(old, new) == [i \in DOMAIN old |-> [new EXCEPT !.whole = old[i].whole \/ @]]
Noted(old) == [i \in DOMAIN old |-> [old[i] EXCEPT !.tag = ~@]]

NewCopy(h, got) == Copy(got, ~h.call.bare)

LEMMA ShowsCases ==
    ASSUME NEW h, NEW old, NEW got, Suits(h.call, h.then)
    PROVE  LET new == NewCopy(h, got) IN
           /\ h.then = "replace" => Shows(h, old, got) = [i \in DOMAIN old |-> new]
           /\ h.then = "merge" => Shows(h, old, got) = Merged(old, new)
           /\ h.then = "remove" => Shows(h, old, got) = <<>>
           /\ h.then = "add" => Shows(h, old, got) = Append(old, new)
           /\ h.then = "move" => Shows(h, old, got) = Append(InList(old, new.st), new)
           /\ h.then = "note" => Shows(h, old, got) = Noted(old)
           /\ h.then \in {"mark", "reload"} => Shows(h, old, got) = old
           /\ h.then \in {"replace", "merge", "remove", "add", "move", "note", "mark", "reload"}
  BY DEF Shows, NewCopy, Merged, Noted, Suits, Edits

LEMMA MappedSequence ==
    ASSUME NEW S, NEW T, NEW s \in Seq(S), NEW f, DOMAIN f = DOMAIN s,
           f = [i \in DOMAIN s |-> f[i]], \A i \in DOMAIN s : f[i] \in T
    PROVE  f \in Seq(T) /\ Len(f) = Len(s)
<1>1. Len(s) \in Nat /\ DOMAIN s = 1..Len(s)
  BY LenProperties
<1>2. f \in [1..Len(s) -> T]
  BY <1>1
<1>3. f \in Seq(T)
  BY <1>1, <1>2, SeqDef
<1>4. Len(f) \in Nat /\ DOMAIN f = 1..Len(f)
  BY <1>3, LenProperties
<1> QED
  BY <1>1, <1>3, <1>4

LEMMA ShowsTyped ==
    ASSUME NEW h, NEW old \in Seq(Copies), NEW got \in Stored, Suits(h.call, h.then),
           h.call.bare \in BOOLEAN
    PROVE  Shows(h, old, got) \in Seq(Copies)
<1> DEFINE new == NewCopy(h, got)
<1>1. new \in Copies
  BY CopyFacts DEF NewCopy
<1>2. \A i \in DOMAIN old : old[i] \in Copies
  BY TypedSequences
<1> HIDE DEF new
<1>3. [i \in DOMAIN old |-> new] \in Seq(Copies)
  BY <1>1, MappedSequence
<1>4. Merged(old, new) \in Seq(Copies)
  <2>1. \A i \in DOMAIN old : [new EXCEPT !.whole = old[i].whole \/ @] \in Copies
    BY <1>1, <1>2 DEF Copies
  <2> QED
    BY <2>1, MappedSequence DEF Merged
<1>5. Noted(old) \in Seq(Copies)
  <2>1. \A i \in DOMAIN old : [old[i] EXCEPT !.tag = ~@] \in Copies
    BY <1>2 DEF Copies
  <2> QED
    BY <2>1, MappedSequence DEF Noted
<1>6. Append(old, new) \in Seq(Copies) /\ <<>> \in Seq(Copies)
  BY <1>1, TypedSequences, EmptySeq
<1>7. Append(InList(old, new.st), new) \in Seq(Copies)
  BY <1>1, InListFacts, TypedSequences
<1>8. /\ h.then = "replace" => Shows(h, old, got) = [i \in DOMAIN old |-> new]
      /\ h.then = "merge" => Shows(h, old, got) = Merged(old, new)
      /\ h.then = "remove" => Shows(h, old, got) = <<>>
      /\ h.then = "add" => Shows(h, old, got) = Append(old, new)
      /\ h.then = "move" => Shows(h, old, got) = Append(InList(old, new.st), new)
      /\ h.then = "note" => Shows(h, old, got) = Noted(old)
      /\ h.then \in {"mark", "reload"} => Shows(h, old, got) = old
      /\ h.then \in {"replace", "merge", "remove", "add", "move", "note", "mark", "reload"}
  BY ShowsCases DEF new
<1> QED
  BY <1>3, <1>4, <1>5, <1>6, <1>7, <1>8

LEMMA SameTypes ==
    ASSUME page' = page
    PROVE  /\ Question' = Question /\ CallRecord' = CallRecord
           /\ Handlers' = Handlers /\ Buttons' = Buttons /\ Here' = Here
  BY DEF Question, CallRecord, Handlers, Buttons, Here

LEMMA CallTyped ==
    ASSUME NEW requests \in Seq(CallRecord), NEW i \in DOMAIN requests
    PROVE  /\ requests[i] \in CallRecord
           /\ requests[i].handler \in Handlers /\ requests[i].row \in Rows
           /\ requests[i].seen \in Statuses /\ requests[i].got \in Stored
<1>1. requests[i] \in CallRecord
  BY TypedSequences
<1> QED
  BY <1>1 DEF CallRecord

LEMMA LoadTyped ==
    ASSUME TypeInv, NEW i \in DOMAIN loads
    PROVE  loads[i].snap \in [Rows -> Stored] /\ loads[i].read \in BOOLEAN
<1>1. loads[i] \in LoadRecord
  BY TypedSequences DEF TypeInv
<1> QED
  BY <1>1 DEF LoadRecord

LEMMA RacingTyped ==
    ASSUME NEW requests \in Seq(CallRecord), NEW fetches
    PROVE  Racing(requests, fetches) \subseteq Rows
<1>1. \A i \in DOMAIN requests : requests[i].row \in Rows
  BY CallTyped
<1> QED
  BY <1>1 DEF Racing

LEMMA SeenTyped ==
    ASSUME TypeInv, NEW b \in Buttons, NEW k \in Rows, NEW seen \in SeenBy(b, k)
    PROVE  seen \in Statuses
<1>1. "ABSENT" \in Statuses
  BY DEF Statuses, CatalogStatus
<1>2. b.statuses \subseteq Statuses
  BY SoundHere DEF TypeInv, Sound
<1> QED
  BY <1>1, <1>2 DEF SeenBy

LEMMA LoadTypes ==
    ASSUME TypeInv, NEW older \in Seq(LoadRecord), Len(older) < MaxLoads, StartLoad(older)
    PROVE  /\ loads' \in Seq(LoadRecord) /\ Len(loads') <= MaxLoads
           /\ isLoading' \in BOOLEAN /\ loadError' \in BOOLEAN
<1>1. NewLoad \in LoadRecord
  BY AbsentFacts DEF NewLoad, NoSnap, LoadRecord
<1>2. Len(older) \in Nat /\ MaxLoads \in Nat
  BY TypedSequences, BoundAssumption
<1>3. /\ Append(older, NewLoad) \in Seq(LoadRecord)
      /\ Len(Append(older, NewLoad)) = Len(older) + 1
  BY <1>1, TypedSequences
<1>4. loads' = Append(older, NewLoad)
  BY DEF StartLoad
<1>5. isLoading' \in BOOLEAN /\ loadError' \in BOOLEAN
  BY Zenon DEF StartLoad
<1> QED
  BY <1>2, <1>3, <1>4, <1>5

LEMMA TypeRefresh ==
    ASSUME TypeInv, Refresh
    PROVE  TypeInv'
<1>1. Surviving \in Seq(LoadRecord)
  BY EmptySeq DEF Surviving, TypeInv
<1>2. Len(Surviving) < MaxLoads /\ StartLoad(Surviving)
  BY DEF Refresh
<1>3. UNCHANGED <<page, excused, db, view, busy, calls, dialog, editor, done>>
  BY DEF Refresh, userVars
<1> QED
  BY <1>1, <1>2, <1>3, LoadTypes, SameTypes DEF TypeInv

LEMMA TypeReadLoad ==
    ASSUME TypeInv, NEW i \in DOMAIN loads, ReadLoad(i)
    PROVE  TypeInv'
<1>1. /\ loads' = [loads EXCEPT ![i] = [read |-> TRUE, snap |-> db]]
      /\ excused' = (IF OlderRead(i) THEN excused ELSE {}) \cup Racing(calls, loads')
      /\ UNCHANGED <<page, db, view, isLoading, loadError, busy, calls, dialog, editor, done>>
  BY DEF ReadLoad, userVars
<1>2. [read |-> TRUE, snap |-> db] \in LoadRecord
  BY DEF LoadRecord, TypeInv
<1>3. loads' \in Seq(LoadRecord) /\ Len(loads') = Len(loads)
  BY <1>1, <1>2, TypedSequences DEF TypeInv
<1>4. excused' \subseteq Rows
  BY <1>1, RacingTyped DEF TypeInv
<1> QED
  BY <1>1, <1>3, <1>4, SameTypes DEF TypeInv

LEMMA TypeLoadEnds ==
    ASSUME TypeInv, NEW i \in DOMAIN loads, AnswerLoad(i) \/ FailLoad(i)
    PROVE  TypeInv'
<1>1. /\ loads' = RemoveAt(loads, i)
      /\ UNCHANGED <<page, excused, db, busy, calls, dialog, editor, done>>
      /\ isLoading' = FALSE /\ loadError' \in BOOLEAN
      /\ view' = view \/ view' = Showing(loads[i].snap)
  BY DEF AnswerLoad, FailLoad, userVars, TypeInv
<1>2. /\ loads' \in Seq(LoadRecord) /\ Len(loads') = Len(loads) - 1 /\ Len(loads) \in Nat
      /\ MaxLoads \in Nat
  BY <1>1, TypedSequences, BoundAssumption DEF TypeInv
<1>3. loads[i].snap \in [Rows -> Stored]
  BY LoadTyped
<1>4. view' \in [Rows -> Seq(Copies)]
  BY <1>1, <1>3, ShowingFacts DEF TypeInv
<1>5. Len(loads') <= MaxLoads
  BY <1>2 DEF TypeInv
<1> QED
  BY <1>1, <1>2, <1>4, <1>5, SameTypes DEF TypeInv

LEMMA TypeSend ==
    ASSUME TypeInv, NEW h \in Handlers, NEW k \in Rows, NEW seen \in Statuses, Send(h, k, seen),
           Len(calls) < MaxCalls
    PROVE  calls' \in Seq(CallRecord) /\ Len(calls') <= MaxCalls
<1> DEFINE c == [handler |-> h, row |-> k, seen |-> seen, phase |-> "sent", got |-> Absent]
<1>1. c \in CallRecord
  BY AbsentFacts DEF CallRecord
<1>2. calls' = Append(calls, c)
  BY DEF Send
<1> HIDE DEF c
<1>3. calls' \in Seq(CallRecord) /\ Len(calls') = Len(calls) + 1 /\ Len(calls) \in Nat
      /\ MaxCalls \in Nat
  BY <1>1, <1>2, TypedSequences, BoundAssumption DEF TypeInv
<1> QED
  BY <1>3

LEMMA TypeClick ==
    ASSUME TypeInv, NEW b \in Buttons, NEW k \in Rows, Click(b, k)
    PROVE  TypeInv'
<1> DEFINE h == b.handler
<1>1. /\ h \in Handlers /\ dialog = {} /\ Len(calls) < MaxCalls
      /\ UNCHANGED <<page, excused, db, view, loads, isLoading, loadError, editor, done>>
  BY DEF Click, Handlers, screenVars
<1>2. PICK seen \in SeenBy(b, k) :
         \/ /\ dialog' = {[handler |-> h, row |-> k, seen |-> seen]}
            /\ UNCHANGED <<busy, calls>>
         \/ Send(h, k, seen) /\ UNCHANGED dialog
  BY DEF Click
<1>3. seen \in Statuses
  BY SeenTyped
<1> HIDE DEF h
<1>4. CASE dialog' = {[handler |-> h, row |-> k, seen |-> seen]} /\ calls' = calls
  <2>1. [handler |-> h, row |-> k, seen |-> seen] \in Question
    BY <1>1, <1>3 DEF Question
  <2> QED
    BY <1>1, <1>4, <2>1, SameTypes DEF TypeInv
<1>5. CASE Send(h, k, seen) /\ dialog' = dialog
  <2>1. calls' \in Seq(CallRecord) /\ Len(calls') <= MaxCalls
    BY <1>1, <1>3, <1>5, TypeSend
  <2> QED
    BY <1>1, <1>5, <2>1, SameTypes DEF TypeInv
<1> QED
  BY <1>2, <1>4, <1>5

LEMMA TypeConfirm ==
    ASSUME TypeInv, NEW d \in dialog, Confirm(d)
    PROVE  TypeInv'
<1>1. /\ d.handler \in Handlers /\ d.row \in Rows /\ d.seen \in Statuses
      /\ Len(calls) < MaxCalls
  BY DEF TypeInv, Question
<1>2. /\ Send(d.handler, d.row, d.seen) /\ dialog' = {}
      /\ UNCHANGED <<page, excused, db, view, loads, isLoading, loadError, editor, done>>
  BY DEF Confirm, screenVars
<1>3. calls' \in Seq(CallRecord) /\ Len(calls') <= MaxCalls
  BY <1>1, <1>2, TypeSend
<1> QED
  BY <1>2, <1>3, SameTypes DEF TypeInv

LEMMA TypeServe ==
    ASSUME TypeInv, NEW i \in DOMAIN calls, Serve(i)
    PROVE  TypeInv'
<1> DEFINE c == calls[i]
<1>1. c \in CallRecord /\ c.handler \in Handlers /\ c.row \in Rows
  BY CallTyped DEF TypeInv
<1>2. /\ excused' = excused \cup Racing(calls', loads)
                    \cup ({calls[j].row : j \in DOMAIN calls \ {i}} \cap {c.row})
      /\ UNCHANGED <<page, view, loads, isLoading, loadError, busy, dialog, editor, done>>
  BY DEF Serve, screenVars
<1>3. \/ /\ Accepts(c.handler.call, c.row)
         /\ db' = [db EXCEPT ![c.row] = After(c.handler.call, c.row)]
         /\ calls' = [calls EXCEPT ![i] = [c EXCEPT !.phase = "accepted",
                                           !.got = After(c.handler.call, c.row)]]
      \/ /\ calls' = [calls EXCEPT ![i] = [c EXCEPT !.phase = "refused", !.got = db[c.row]]]
         /\ UNCHANGED db
  BY DEF Serve
<1>4. Typed(c.handler.call) /\ db[c.row] \in Stored
  BY <1>1, SoundHere DEF TypeInv
<1>5. Accepts(c.handler.call, c.row) => After(c.handler.call, c.row) \in Stored
  BY <1>1, <1>4, AfterFacts DEF TypeInv
<1> HIDE DEF c
<1>6. \A got \in Stored : /\ [c EXCEPT !.phase = "accepted", !.got = got] \in CallRecord
                          /\ [c EXCEPT !.phase = "refused", !.got = got] \in CallRecord
  BY <1>1 DEF CallRecord
<1>7. db' \in [Rows -> Stored]
  BY <1>1, <1>3, <1>5 DEF TypeInv
<1>8. calls' \in Seq(CallRecord) /\ Len(calls') = Len(calls)
  <2>1. \A e \in CallRecord : /\ [calls EXCEPT ![i] = e] \in Seq(CallRecord)
                              /\ Len([calls EXCEPT ![i] = e]) = Len(calls)
    BY TypedSequences DEF TypeInv
  <2>2. \E e \in CallRecord : calls' = [calls EXCEPT ![i] = e]
    BY <1>3, <1>4, <1>5, <1>6
  <2> QED
    BY <2>1, <2>2
<1>9. excused' \subseteq Rows
  BY <1>1, <1>2, <1>8, RacingTyped DEF TypeInv
<1> QED
  BY <1>2, <1>7, <1>8, <1>9, SameTypes DEF TypeInv

LEMMA TypeSettle ==
    ASSUME TypeInv, NEW i \in DOMAIN calls, Settle(i)
    PROVE  /\ calls' \in Seq(CallRecord) /\ Len(calls') <= MaxCalls
           /\ Len(calls) < MaxCalls => Len(calls') < MaxCalls
<1>1. /\ calls' \in Seq(CallRecord) /\ Len(calls') = Len(calls) - 1 /\ Len(calls) \in Nat
      /\ MaxCalls \in Nat
  BY TypedSequences, BoundAssumption DEF Settle, TypeInv
<1> QED
  BY <1>1 DEF TypeInv

LEMMA TypeSucceed ==
    ASSUME TypeInv, NEW i \in DOMAIN calls, Succeed(i)
    PROVE  TypeInv'
<1> DEFINE h == calls[i].handler
           k == calls[i].row
<1>1. h \in Handlers /\ k \in Rows /\ calls[i].got \in Stored
  BY CallTyped DEF TypeInv
<1>2. Suits(h.call, h.then) /\ h.call.bare \in BOOLEAN
  BY <1>1, SoundHere DEF TypeInv, Typed
<1>3. Shows(h, view[k], calls[i].got) \in Seq(Copies)
  BY <1>1, <1>2, ShowsTyped DEF TypeInv
<1>4. /\ view' = [view EXCEPT ![k] = Shows(h, view[k], calls[i].got)]
      /\ \/ Len(loads) < MaxLoads /\ StartLoad(loads)
         \/ UNCHANGED <<loads, isLoading, loadError>>
      /\ done' = (done \/ h.then = "mark")
      /\ editor' = (CASE Here.screen.panel -> k [] h.editor -> NoRow [] OTHER -> editor)
      /\ Settle(i)
      /\ UNCHANGED <<page, excused, db, dialog>>
  BY DEF Succeed
<1> HIDE DEF h, k
<1>5. view' \in [Rows -> Seq(Copies)]
  BY <1>1, <1>3, <1>4 DEF TypeInv
<1>6. /\ loads' \in Seq(LoadRecord) /\ Len(loads') <= MaxLoads
      /\ isLoading' \in BOOLEAN /\ loadError' \in BOOLEAN
  BY <1>4, LoadTypes DEF TypeInv
<1>7. done' \in BOOLEAN
  BY <1>4, Zenon
<1>8. editor' \in Rows \cup {NoRow}
  BY <1>1, <1>4 DEF TypeInv
<1>9. /\ calls' \in Seq(CallRecord) /\ Len(calls') <= MaxCalls
      /\ Len(calls) < MaxCalls => Len(calls') < MaxCalls
  BY <1>4, TypeSettle
<1> QED
  BY <1>4, <1>5, <1>6, <1>7, <1>8, <1>9, SameTypes DEF TypeInv

LEMMA TypeFail ==
    ASSUME TypeInv, NEW i \in DOMAIN calls, Fail(i)
    PROVE  TypeInv'
<1>1. calls[i].row \in Rows
  BY CallTyped DEF TypeInv
<1>2. /\ Settle(i)
      /\ UNCHANGED <<page, db, view, loads, isLoading, loadError, dialog, editor>>
      /\ excused' \subseteq excused \cup {calls[i].row}
      /\ done' \in {done, TRUE, FALSE}
  BY DEF Fail, screenVars
<1>3. /\ calls' \in Seq(CallRecord) /\ Len(calls') <= MaxCalls
      /\ Len(calls) < MaxCalls => Len(calls') < MaxCalls
  BY <1>2, TypeSettle
<1>4. done' \in BOOLEAN
  BY <1>2 DEF TypeInv
<1> QED
  BY <1>1, <1>2, <1>3, <1>4, SameTypes DEF TypeInv

LEMMA TypeElsewhere ==
    ASSUME TypeInv, NEW k \in Rows, Elsewhere(k)
    PROVE  TypeInv'
<1>1. PICK e \in Here.others : Accepts(e, k) /\ db' = [db EXCEPT ![k] = After(e, k)]
  BY DEF Elsewhere
<1>2. /\ excused' = excused \cup {k}
      /\ UNCHANGED <<page, view, loads, isLoading, loadError, busy, calls, dialog, editor, done>>
  BY DEF Elsewhere, screenVars, userVars
<1>3. After(e, k) \in Stored
  BY <1>1, SoundHere, AfterFacts DEF TypeInv
<1>4. db' \in [Rows -> Stored]
  BY <1>1, <1>3 DEF TypeInv
<1> QED
  BY <1>2, <1>4, SameTypes DEF TypeInv

LEMMA TypeStep ==
    ASSUME TypeInv, [Step]_vars
    PROVE  TypeInv'
<1>1. CASE UNCHANGED vars
  BY <1>1, SameTypes DEF TypeInv, vars
<1>2. CASE Dismiss
  BY <1>2, SameTypes DEF TypeInv, Dismiss, screenVars
<1>3. ASSUME NEW k \in Rows, StartEditing(k)
      PROVE  TypeInv'
  BY <1>3, SameTypes DEF TypeInv, StartEditing, screenVars
<1>4. CASE StopEditing
  BY <1>4, SameTypes DEF TypeInv, StopEditing, screenVars
<1> QED
  BY <1>1, <1>2, <1>3, <1>4, TypeRefresh, TypeReadLoad, TypeLoadEnds, TypeClick, TypeConfirm,
     TypeServe, TypeSucceed, TypeFail, TypeElsewhere DEF Step

LEMMA TypeInit == Init => TypeInv
<1> SUFFICES ASSUME Init
             PROVE  TypeInv
  OBVIOUS
<1>1. NewLoad \in LoadRecord
  BY AbsentFacts DEF NewLoad, NoSnap, LoadRecord
<1>2. <<NewLoad>> \in Seq(LoadRecord) /\ Len(<<NewLoad>>) = 1
  BY <1>1, OneElement
<1>3. \A S : <<>> \in Seq(S) /\ Len(<<>>) = 0
  BY EmptySeq
<1>4. db \in [Rows -> Stored]
  <2>1. db \in [Rows -> {[st |-> s, tag |-> FALSE] : s \in Here.start \cup {"ABSENT"}}]
    BY DEF Init
  <2>2. Here.start \subseteq Statuses
    BY StartTyped, PagesAssumption DEF Init, Here
  <2>3. "ABSENT" \in Statuses
    BY DEF Statuses, CatalogStatus
  <2>4. ASSUME NEW k \in Rows
        PROVE  db[k] \in Stored
    <3>1. PICK s \in Here.start \cup {"ABSENT"} : db[k] = [st |-> s, tag |-> FALSE]
      BY <2>1
    <3> QED
      BY <2>2, <2>3, <3>1 DEF Stored
  <2> QED
    BY <2>1, <2>4
<1>5. 1 <= MaxLoads /\ 0 <= MaxCalls
  BY BoundAssumption
<1> QED
  BY <1>2, <1>3, <1>4, <1>5 DEF Init, TypeInv

-------------------------------------------------------------------------------
(* Whole rows: only the pages of bookings and of listings show a bare answer as it is. *)

RowsWhole == \A k \in Rows : \A i \in DOMAIN view[k] : view[k][i].whole
WholeInv == page \notin {"bookings", "listings"} => RowsWhole

WholeCopies == {c \in Copies : c.whole}

LEMMA WholeIs ==
    ASSUME TypeInv
    PROVE  RowsWhole <=> \A k \in Rows : view[k] \in Seq(WholeCopies)
<1>1. ASSUME NEW k \in Rows
      PROVE  view[k] \in Seq(WholeCopies) <=> \A i \in DOMAIN view[k] : view[k][i].whole
  <2>1. view[k] \in Seq(Copies)
    BY DEF TypeInv
  <2>2. IsSequence(view[k]) /\ \A i \in DOMAIN view[k] : view[k][i] \in Copies
    BY <2>1, SequenceOf, TypedSequences
  <2>3. ASSUME \A i \in DOMAIN view[k] : view[k][i].whole
        PROVE  view[k] \in Seq(WholeCopies)
    <3>1. \A i \in DOMAIN view[k] : view[k][i] \in WholeCopies
      BY <2>2, <2>3 DEF WholeCopies
    <3> QED
      BY <2>2, <3>1, Elementwise
  <2>4. ASSUME view[k] \in Seq(WholeCopies)
        PROVE  \A i \in DOMAIN view[k] : view[k][i].whole
    <3>1. \A i \in DOMAIN view[k] : view[k][i] \in WholeCopies
      BY <2>4, TypedSequences
    <3> QED
      BY <3>1 DEF WholeCopies
  <2> QED
    BY <2>3, <2>4
<1> QED
  BY <1>1 DEF RowsWhole

LEMMA WholeIsAfter ==
    ASSUME TypeInv'
    PROVE  RowsWhole' <=> \A k \in Rows : view'[k] \in Seq(WholeCopies)
<1>1. (TypeInv => (RowsWhole <=> \A k \in Rows : view[k] \in Seq(WholeCopies)))'
  BY WholeIs, PTL
<1> QED
  BY <1>1

LEMMA ShowsWhole ==
    ASSUME NEW h, NEW old \in Seq(WholeCopies), NEW got \in Stored, Suits(h.call, h.then),
           h.call.bare \in BOOLEAN, h.call.bare => h.then = "merge"
    PROVE  Shows(h, old, got) \in Seq(WholeCopies)
<1> DEFINE new == NewCopy(h, got)
<1>1. new \in Copies /\ (h.then # "merge" => new \in WholeCopies)
  BY CopyFacts DEF NewCopy, WholeCopies
<1>2. \A i \in DOMAIN old : old[i] \in WholeCopies
  BY TypedSequences
<1>3. /\ h.then = "replace" => Shows(h, old, got) = [i \in DOMAIN old |-> new]
      /\ h.then = "merge" => Shows(h, old, got) = Merged(old, new)
      /\ h.then = "remove" => Shows(h, old, got) = <<>>
      /\ h.then = "add" => Shows(h, old, got) = Append(old, new)
      /\ h.then = "move" => Shows(h, old, got) = Append(InList(old, new.st), new)
      /\ h.then = "note" => Shows(h, old, got) = Noted(old)
      /\ h.then \in {"mark", "reload"} => Shows(h, old, got) = old
      /\ h.then \in {"replace", "merge", "remove", "add", "move", "note", "mark", "reload"}
  BY ShowsCases DEF new
<1> HIDE DEF new
<1>4. h.then # "merge" => [i \in DOMAIN old |-> new] \in Seq(WholeCopies)
  BY <1>1, MappedSequence
<1>5. Merged(old, new) \in Seq(WholeCopies)
  <2>1. \A i \in DOMAIN old : [new EXCEPT !.whole = old[i].whole \/ @] \in WholeCopies
    BY <1>1, <1>2 DEF Copies, WholeCopies
  <2> QED
    BY <2>1, MappedSequence DEF Merged
<1>6. Noted(old) \in Seq(WholeCopies)
  <2>1. \A i \in DOMAIN old : [old[i] EXCEPT !.tag = ~@] \in WholeCopies
    BY <1>2 DEF Copies, WholeCopies
  <2> QED
    BY <2>1, MappedSequence DEF Noted
<1>7. <<>> \in Seq(WholeCopies)
  BY EmptySeq
<1>8. h.then # "merge" => Append(old, new) \in Seq(WholeCopies)
  BY <1>1, TypedSequences
<1>9. h.then # "merge" => Append(InList(old, new.st), new) \in Seq(WholeCopies)
  BY <1>1, InListFacts, TypedSequences
<1> QED
  BY <1>3, <1>4, <1>5, <1>6, <1>7, <1>8, <1>9

LEMMA ShowingWhole ==
    ASSUME NEW rows \in [Rows -> Stored]
    PROVE  \A k \in Rows : Showing(rows)[k] \in Seq(WholeCopies)
<1>1. ASSUME NEW k \in Rows
      PROVE  Showing(rows)[k] \in Seq(WholeCopies)
  <2>1. Copy(rows[k], TRUE) \in WholeCopies
    BY CopyFacts DEF WholeCopies
  <2>2. <<>> \in Seq(WholeCopies) /\ <<Copy(rows[k], TRUE)>> \in Seq(WholeCopies)
    BY <2>1, EmptySeq, OneElement, Zenon
  <2> QED
    BY <2>2, ShowingFacts
<1> QED
  BY <1>1

\* The view is replaced by a load, or changed in one row by an answer.
LEMMA ViewMoves ==
    ASSUME [Step]_vars
    PROVE  \/ \E i \in DOMAIN loads : AnswerLoad(i)
           \/ \E i \in DOMAIN calls : Succeed(i)
           \/ view' = view
  BY DEF Step, Refresh, ReadLoad, FailLoad, Click, Confirm, Dismiss, StartEditing, StopEditing,
     Serve, Fail, Elsewhere, vars, screenVars

LEMMA SamePageAlways == [Step]_vars => page' = page
  BY DEF Step, Refresh, ReadLoad, AnswerLoad, FailLoad, Click, Confirm, Dismiss, StartEditing,
     StopEditing, Serve, Succeed, Fail, Elsewhere, vars

LEMMA WholeStep ==
    ASSUME TypeInv, TypeInv', WholeInv, [Step]_vars
    PROVE  WholeInv'
<1>1. SUFFICES ASSUME page \notin {"bookings", "listings"}
               PROVE  \A k \in Rows : view'[k] \in Seq(WholeCopies)
  BY SamePageAlways, WholeIsAfter DEF WholeInv
<1>2. \A k \in Rows : view[k] \in Seq(WholeCopies)
  BY <1>1, WholeIs DEF WholeInv
<1>3. ASSUME NEW i \in DOMAIN loads, AnswerLoad(i)
      PROVE  \A k \in Rows : view'[k] \in Seq(WholeCopies)
  BY <1>3, LoadTyped, ShowingWhole DEF AnswerLoad
<1>4. ASSUME NEW i \in DOMAIN calls, Succeed(i)
      PROVE  \A k \in Rows : view'[k] \in Seq(WholeCopies)
  <2> DEFINE h == calls[i].handler
             k == calls[i].row
  <2>1. h \in Handlers /\ k \in Rows /\ calls[i].got \in Stored
    BY CallTyped DEF TypeInv
  <2>2. Suits(h.call, h.then) /\ Typed(h.call)
    BY <2>1, SoundHere DEF TypeInv
  <2>5. h.call.bare \in BOOLEAN
    BY <2>2 DEF Typed
  <2>6. h.call.bare => h.then = "merge"
    <3>1. PICK b \in Buttons : b.handler = h
      BY <2>1, SoundHere DEF TypeInv
    <3>2. Sound(b.handler, b.statuses, page)
      BY SoundHere DEF TypeInv
    <3> QED
      BY <1>1, <3>1, <3>2 DEF Sound
  <2>3. Shows(h, view[k], calls[i].got) \in Seq(WholeCopies)
    BY <1>2, <2>1, <2>2, <2>5, <2>6, ShowsWhole
  <2>4. view' = [view EXCEPT ![k] = Shows(h, view[k], calls[i].got)]
    BY <1>4 DEF Succeed
  <2> HIDE DEF h, k
  <2> QED
    BY <1>2, <2>3, <2>4 DEF TypeInv
<1> QED
  BY <1>2, <1>3, <1>4, ViewMoves

\* On the page of listings a row that is there keeps what it has of its relations.
LEMMA MergedKeeps ==
    ASSUME NEW old \in Seq(Copies), NEW new \in Copies, NEW i \in DOMAIN Merged(old, new)
    PROVE  Merged(old, new)[i].whole \/ (i \in DOMAIN old /\ ~old[i].whole)
<1>1. i \in DOMAIN old /\ old[i] \in Copies
  BY TypedSequences DEF Merged
<1> QED
  BY <1>1 DEF Merged, Copies

LEMMA KeepsStep ==
    ASSUME TypeInv, TypeInv', WholeInv', [Step]_vars, page # "bookings"
    PROVE  KeepsRelations
<1>1. CASE page # "listings"
  BY <1>1, SamePageAlways DEF WholeInv, RowsWhole, KeepsRelations
<1>2. ASSUME NEW i \in DOMAIN loads, AnswerLoad(i)
      PROVE  KeepsRelations
  <2>1. \A k \in Rows : view'[k] \in Seq(WholeCopies)
    BY <1>2, LoadTyped, ShowingWhole DEF AnswerLoad
  <2>2. RowsWhole'
    BY <2>1, WholeIsAfter
  <2> QED
    BY <2>2 DEF RowsWhole, KeepsRelations
<1>3. ASSUME NEW n \in DOMAIN calls, Succeed(n), page = "listings"
      PROVE  KeepsRelations
  <2> DEFINE h == calls[n].handler
             k == calls[n].row
             old == view[k]
             new == NewCopy(h, calls[n].got)
  <2>1. h \in Handlers /\ k \in Rows /\ calls[n].got \in Stored
    BY CallTyped DEF TypeInv
  <2>2. Suits(h.call, h.then) /\ Typed(h.call)
    BY <2>1, SoundHere DEF TypeInv
  <2>3. h.then = "merge" \/ (h = HandleCreateListing /\ h.then = "add")
    <3>1. PICK b \in Buttons : b.handler = h
      BY <2>1, SoundHere DEF TypeInv
    <3> QED
      BY <1>3, <3>1, SoundHere DEF Sound, TypeInv
  <2>4. old \in Seq(Copies) /\ new \in Copies
    BY <2>1, <2>2, CopyFacts DEF TypeInv, NewCopy, Typed
  <2>5. /\ view' = [view EXCEPT ![k] = Shows(h, old, calls[n].got)]
        /\ h.then = "merge" => Shows(h, old, calls[n].got) = Merged(old, new)
        /\ h.then = "add" => Shows(h, old, calls[n].got) = Append(old, new)
    BY <1>3, <2>1, <2>2, ShowsCases DEF Succeed
  <2>6. view'[k] = Shows(h, old, calls[n].got) /\ \A r \in Rows \ {k} : view'[r] = view[r]
    BY <2>1, <2>5 DEF TypeInv
  <2>7. ASSUME NEW i \in DOMAIN view'[k]
        PROVE  \/ view'[k][i].whole
               \/ i \in DOMAIN old /\ ~old[i].whole
               \/ i = Len(old) + 1 /\ h = HandleCreateListing
    <3> HIDE DEF h, k, old, new
    <3>1. CASE h.then = "merge"
      BY <2>4, <2>5, <2>6, <3>1, MergedKeeps
    <3>2. CASE h = HandleCreateListing /\ h.then = "add"
      <4>1. IsSequence(old) /\ DOMAIN old = 1..Len(old) /\ Len(old) \in Nat
        BY <2>4, SequenceOf, SequenceFacts
      <4>2. /\ DOMAIN view'[k] = 1..(Len(old) + 1)
            /\ \A m \in 1..Len(old) : view'[k][m] = old[m]
        BY <2>5, <2>6, <3>2, <4>1, Appended
      <4>3. i = Len(old) + 1 \/ (i \in DOMAIN old /\ view'[k][i] = old[i])
        BY <4>1, <4>2
      <4> QED
        BY <3>2, <4>3
    <3> QED
      BY <2>3, <3>1, <3>2
  <2> QED
    BY <2>6, <2>7 DEF KeepsRelations
<1>4. CASE view' = view
  BY <1>4 DEF KeepsRelations
<1> QED
  BY <1>1, <1>2, <1>3, <1>4, ViewMoves

-------------------------------------------------------------------------------
(* Where a load, a question and a call come from. *)

LEMMA LoadOrigins ==
    ASSUME TypeInv, [Step]_vars, NEW i \in DOMAIN loads'
    PROVE  \/ \E j \in DOMAIN loads : loads'[i] = loads[j]
           \/ loads'[i] = NewLoad
           \/ (\E n \in DOMAIN loads : ReadLoad(n)) /\ loads'[i] = [read |-> TRUE, snap |-> db]
<1>1. IsSequence(loads) /\ Len(loads) \in Nat /\ DOMAIN loads = 1..Len(loads)
  BY SequenceOf, TypedSequences DEF TypeInv
<1>2. ASSUME NEW older, IsSequence(older), \A j \in DOMAIN older : older[j] = loads[j],
             DOMAIN older \subseteq DOMAIN loads, loads' = Append(older, NewLoad)
      PROVE  (\E j \in DOMAIN loads : loads'[i] = loads[j]) \/ loads'[i] = NewLoad
  <2>1. /\ DOMAIN Append(older, NewLoad) = 1..(Len(older) + 1)
        /\ \A j \in 1..Len(older) : Append(older, NewLoad)[j] = older[j]
        /\ Append(older, NewLoad)[Len(older) + 1] = NewLoad
    BY <1>2, Appended
  <2>2. Len(older) \in Nat /\ DOMAIN older = 1..Len(older)
    BY <1>2, SequenceFacts
  <2>3. i \in DOMAIN older \/ i = Len(older) + 1
    BY <1>2, <2>1, <2>2
  <2> QED
    BY <1>2, <2>1, <2>2, <2>3
<1>3. CASE Refresh
  <2>1. loads' = Append(Surviving, NewLoad)
    BY <1>3 DEF Refresh, StartLoad
  <2>2. IsSequence(Surviving) /\ DOMAIN Surviving \subseteq DOMAIN loads
    BY <1>1, EmptyIsSequence DEF Surviving
  <2>3. \A j \in DOMAIN Surviving : Surviving[j] = loads[j]
    BY EmptyIsSequence DEF Surviving
  <2> QED
    BY <1>2, <2>1, <2>2, <2>3
<1>4. ASSUME NEW n \in DOMAIN calls, Succeed(n)
      PROVE  (\E j \in DOMAIN loads : loads'[i] = loads[j]) \/ loads'[i] = NewLoad
  <2>1. loads' = Append(loads, NewLoad) \/ loads' = loads
    BY <1>4 DEF Succeed, StartLoad
  <2> QED
    BY <1>1, <1>2, <2>1
<1>5. ASSUME NEW n \in DOMAIN loads, ReadLoad(n)
      PROVE  (\E j \in DOMAIN loads : loads'[i] = loads[j])
             \/ loads'[i] = [read |-> TRUE, snap |-> db]
  BY <1>1, <1>5, Replaced DEF ReadLoad
<1>6. ASSUME NEW n \in DOMAIN loads, AnswerLoad(n) \/ FailLoad(n)
      PROVE  \E j \in DOMAIN loads : loads'[i] = loads[j]
  <2>1. loads' = RemoveAt(loads, n)
    BY <1>6 DEF AnswerLoad, FailLoad
  <2>2. i \in 1..(Len(loads) - 1)
        /\ loads'[i] = IF i < n THEN loads[i] ELSE loads[i + 1]
    BY <1>1, <2>1, Removed
  <2>3. i \in DOMAIN loads /\ i + 1 \in DOMAIN loads
    BY <1>1, <2>2
  <2> QED
    BY <2>2, <2>3
<1>7. CASE loads' = loads
  BY <1>7
<1>8. \/ Refresh
      \/ \E n \in DOMAIN loads : ReadLoad(n) \/ AnswerLoad(n) \/ FailLoad(n)
      \/ \E n \in DOMAIN calls : Succeed(n)
      \/ loads' = loads
  BY DEF Step, Click, Confirm, Dismiss, StartEditing, StopEditing, Serve, Fail, Elsewhere,
     screenVars, vars
<1> QED
  BY <1>3, <1>4, <1>5, <1>6, <1>7, <1>8

\* The user clicked the button of h in row k when the row showed seen.
Clicked(h, k, seen) == \E b \in Buttons : b.handler = h /\ k \in Rows /\ seen \in SeenBy(b, k)

LEMMA QuestionOrigins ==
    ASSUME [Step]_vars, NEW d \in dialog'
    PROVE  d \in dialog \/ Clicked(d.handler, d.row, d.seen)
<1>1. ASSUME NEW b \in Buttons, NEW k \in Rows, Click(b, k)
      PROVE  d \in dialog \/ Clicked(d.handler, d.row, d.seen)
  <2>1. PICK seen \in SeenBy(b, k) :
           \/ dialog' = {[handler |-> b.handler, row |-> k, seen |-> seen]}
           \/ dialog' = dialog
    BY <1>1 DEF Click
  <2>2. CASE d = [handler |-> b.handler, row |-> k, seen |-> seen]
    BY <2>2 DEF Clicked
  <2> QED
    BY <2>1, <2>2
<1>2. CASE dialog' \subseteq dialog
  BY <1>2
<1>3. (\E b \in Buttons, k \in Rows : Click(b, k)) \/ dialog' \subseteq dialog
  BY DEF Step, Refresh, ReadLoad, AnswerLoad, FailLoad, Confirm, Dismiss, StartEditing,
     StopEditing, Serve, Succeed, Fail, Elsewhere, vars, userVars
<1> QED
  BY <1>1, <1>2, <1>3

\* The API has just taken, or refused, the request c.
Taken(c, after) ==
    /\ Accepts(c.handler.call, c.row)
    /\ db' = [db EXCEPT ![c.row] = After(c.handler.call, c.row)]
    /\ after.phase = "accepted" /\ after.got = After(c.handler.call, c.row)
Denied(c, after) ==
    /\ Accepts(c.handler.call, c.row) => c.handler.call.unseen
    /\ after.phase = "refused" /\ after.got = db[c.row] /\ db' = db
Same(c, after) == after.handler = c.handler /\ after.row = c.row /\ after.seen = c.seen

LEMMA CallAdded ==
    ASSUME TypeInv, NEW h, NEW k, NEW seen, Send(h, k, seen)
    PROVE  /\ DOMAIN calls \subseteq DOMAIN calls'
           /\ \A j \in DOMAIN calls : calls'[j] = calls[j]
           /\ \A j \in DOMAIN calls' \ DOMAIN calls :
                 calls'[j] = [handler |-> h, row |-> k, seen |-> seen,
                              phase |-> "sent", got |-> Absent]
<1> DEFINE c == [handler |-> h, row |-> k, seen |-> seen, phase |-> "sent", got |-> Absent]
<1>1. calls' = Append(calls, c)
  BY DEF Send
<1> HIDE DEF c
<1>2. IsSequence(calls) /\ Len(calls) \in Nat /\ DOMAIN calls = 1..Len(calls)
  BY SequenceOf, TypedSequences DEF TypeInv
<1>3. /\ DOMAIN calls' = 1..(Len(calls) + 1)
      /\ \A j \in 1..Len(calls) : calls'[j] = calls[j]
      /\ calls'[Len(calls) + 1] = c
  BY <1>1, <1>2, Appended
<1>4. /\ DOMAIN calls \subseteq DOMAIN calls'
      /\ \A j \in DOMAIN calls : calls'[j] = calls[j]
      /\ \A j \in DOMAIN calls' \ DOMAIN calls : calls'[j] = c
  BY <1>2, <1>3
<1> QED
  BY <1>4 DEF c

LEMMA CallServed ==
    ASSUME TypeInv, NEW i \in DOMAIN calls, Serve(i)
    PROVE  /\ DOMAIN calls' = DOMAIN calls
           /\ \A j \in DOMAIN calls \ {i} : calls'[j] = calls[j]
           /\ calls[i].phase = "sent" /\ Same(calls[i], calls'[i])
           /\ Taken(calls[i], calls'[i]) \/ Denied(calls[i], calls'[i])
<1> DEFINE c == calls[i]
<1>1. IsSequence(calls) /\ c \in CallRecord
  BY SequenceOf, CallTyped DEF TypeInv
<1>2. \A e : /\ DOMAIN [calls EXCEPT ![i] = e] = DOMAIN calls
             /\ \A j \in DOMAIN calls : [calls EXCEPT ![i] = e][j] = IF j = i THEN e ELSE calls[j]
  BY <1>1, Replaced
<1>3. c.phase = "sent"
  BY DEF Serve
<1>4. \/ /\ Accepts(c.handler.call, c.row)
         /\ db' = [db EXCEPT ![c.row] = After(c.handler.call, c.row)]
         /\ calls' = [calls EXCEPT ![i] = [c EXCEPT !.phase = "accepted",
                                           !.got = After(c.handler.call, c.row)]]
      \/ /\ Accepts(c.handler.call, c.row) => c.handler.call.unseen
         /\ calls' = [calls EXCEPT ![i] = [c EXCEPT !.phase = "refused", !.got = db[c.row]]]
         /\ db' = db
  BY DEF Serve
<1> HIDE DEF c
<1>5. \A phase, got : LET e == [c EXCEPT !.phase = phase, !.got = got] IN
                      Same(c, e) /\ e.phase = phase /\ e.got = got
  BY <1>1 DEF CallRecord, Same
<1>6. CASE /\ Accepts(c.handler.call, c.row)
           /\ db' = [db EXCEPT ![c.row] = After(c.handler.call, c.row)]
           /\ calls' = [calls EXCEPT ![i] = [c EXCEPT !.phase = "accepted",
                                             !.got = After(c.handler.call, c.row)]]
  <2> DEFINE e == [c EXCEPT !.phase = "accepted", !.got = After(c.handler.call, c.row)]
  <2>1. Same(c, e) /\ e.phase = "accepted" /\ e.got = After(c.handler.call, c.row)
    BY <1>5
  <2>2. calls' = [calls EXCEPT ![i] = e]
    BY <1>6
  <2> HIDE DEF e
  <2>3. calls'[i] = e
    BY <1>2, <2>2
  <2>4. Taken(c, e)
    BY <1>6, <2>1 DEF Taken
  <2> QED
    BY <1>2, <1>3, <2>1, <2>2, <2>3, <2>4 DEF c
<1>7. CASE /\ Accepts(c.handler.call, c.row) => c.handler.call.unseen
           /\ calls' = [calls EXCEPT ![i] = [c EXCEPT !.phase = "refused", !.got = db[c.row]]]
           /\ db' = db
  <2> DEFINE e == [c EXCEPT !.phase = "refused", !.got = db[c.row]]
  <2>1. Same(c, e) /\ e.phase = "refused" /\ e.got = db[c.row]
    BY <1>5
  <2>2. calls' = [calls EXCEPT ![i] = e]
    BY <1>7
  <2> HIDE DEF e
  <2>3. calls'[i] = e
    BY <1>2, <2>2
  <2>4. Denied(c, e)
    BY <1>7, <2>1 DEF Denied
  <2> QED
    BY <1>2, <1>3, <2>1, <2>2, <2>3, <2>4 DEF c
<1> QED
  BY <1>4, <1>6, <1>7

LEMMA CallOrigins ==
    ASSUME TypeInv, [Step]_vars, NEW i \in DOMAIN calls'
    PROVE  LET c == calls'[i] IN
           \/ \E j \in DOMAIN calls : c = calls[j]
           \/ \E j \in DOMAIN calls :
                 Serve(j) /\ Same(calls[j], c) /\ (Taken(calls[j], c) \/ Denied(calls[j], c))
           \/ /\ c.phase = "sent"
              /\ \/ Clicked(c.handler, c.row, c.seen)
                 \/ \E d \in dialog : Same(d, c)
<1>1. ASSUME NEW b \in Buttons, NEW k \in Rows, Click(b, k)
      PROVE  (\E j \in DOMAIN calls : calls'[i] = calls[j])
             \/ (calls'[i].phase = "sent"
                 /\ Clicked(calls'[i].handler, calls'[i].row, calls'[i].seen))
  <2>1. PICK seen \in SeenBy(b, k) : Send(b.handler, k, seen) \/ calls' = calls
    BY <1>1 DEF Click
  <2>2. CASE calls' = calls
    BY <2>2
  <2>3. CASE Send(b.handler, k, seen)
    <3>1. Clicked(b.handler, k, seen)
      BY DEF Clicked
    <3>2. \/ \E j \in DOMAIN calls : calls'[i] = calls[j]
          \/ calls'[i] = [handler |-> b.handler, row |-> k, seen |-> seen,
                          phase |-> "sent", got |-> Absent]
      BY <2>3, CallAdded
    <3> QED
      BY <3>1, <3>2
  <2> QED
    BY <2>1, <2>2, <2>3
<1>2. ASSUME NEW d \in dialog, Confirm(d)
      PROVE  (\E j \in DOMAIN calls : calls'[i] = calls[j])
             \/ (calls'[i].phase = "sent" /\ Same(d, calls'[i]))
  <2>1. \/ \E j \in DOMAIN calls : calls'[i] = calls[j]
        \/ calls'[i] = [handler |-> d.handler, row |-> d.row, seen |-> d.seen,
                        phase |-> "sent", got |-> Absent]
    BY <1>2, CallAdded DEF Confirm
  <2> QED
    BY <2>1 DEF Same
<1>3. ASSUME NEW n \in DOMAIN calls, Serve(n)
      PROVE  \/ \E j \in DOMAIN calls : calls'[i] = calls[j]
             \/ /\ Same(calls[n], calls'[i])
                /\ Taken(calls[n], calls'[i]) \/ Denied(calls[n], calls'[i])
  BY <1>3, CallServed
<1>4. ASSUME NEW n \in DOMAIN calls, Succeed(n) \/ Fail(n)
      PROVE  \E j \in DOMAIN calls : calls'[i] = calls[j]
  <2>1. Settle(n) /\ IsSequence(calls)
    BY <1>4, SequenceOf DEF Succeed, Fail, TypeInv
  <2> QED
    BY <2>1, Settled
<1>5. CASE calls' = calls
  BY <1>5
<1>6. \/ \E b \in Buttons, k \in Rows : Click(b, k)
      \/ \E d \in dialog : Confirm(d)
      \/ \E n \in DOMAIN calls : Serve(n)
      \/ \E n \in DOMAIN calls : Succeed(n) \/ Fail(n)
      \/ calls' = calls
  BY DEF Step, Refresh, ReadLoad, AnswerLoad, FailLoad, Dismiss, StartEditing, StopEditing,
     Elsewhere, userVars, vars
<1> QED
  BY <1>1, <1>2, <1>3, <1>4, <1>5, <1>6

-------------------------------------------------------------------------------
(* A request is refused only if its row moved on after the user saw it. *)

\* The button was offered for what the user saw, or in a panel whose row a load left out.
OfferedFor(h, seen) ==
    \E b \in Buttons : /\ b.handler = h
                       /\ seen \in b.statuses \/ (InPanel(b) /\ seen = "ABSENT")
OfferedInv ==
    /\ \A d \in dialog : OfferedFor(d.handler, d.seen)
    /\ \A i \in DOMAIN calls : OfferedFor(calls[i].handler, calls[i].seen)

\* On the page whose editor is a panel, a row that is absent has been on the page never.
Untouched(k) ==
    /\ view[k] = <<>> /\ editor # k
    /\ \A i \in DOMAIN loads : loads[i].snap[k].st = "ABSENT"
    /\ \A d \in dialog : d.row = k => ~d.handler.editor
    /\ \A i \in DOMAIN calls : calls[i].row = k =>
          ~calls[i].handler.editor /\ calls[i].phase # "accepted"
PanelInv == page = "listings" => \A k \in Rows : db[k].st = "ABSENT" => Untouched(k)

LEMMA ClickOffered ==
    ASSUME page \in Pages, NEW h, NEW k, NEW seen, Clicked(h, k, seen)
    PROVE  OfferedFor(h, seen)
<1>1. PICK b \in Buttons : b.handler = h /\ seen \in SeenBy(b, k)
  BY DEF Clicked
<1> QED
  BY <1>1 DEF SeenBy, OfferedFor

LEMMA OfferedStep ==
    ASSUME TypeInv, OfferedInv, [Step]_vars
    PROVE  OfferedInv'
<1>1. page' = page /\ page \in Pages
  BY SamePageAlways DEF TypeInv
<1>2. Buttons' = Buttons /\ Here' = Here
  BY <1>1, SameTypes
<1>3. \A h, seen : OfferedFor(h, seen)' <=> OfferedFor(h, seen)
  BY <1>2 DEF OfferedFor, InPanel
<1>4. ASSUME NEW d \in dialog'
      PROVE  OfferedFor(d.handler, d.seen)
  BY <1>1, QuestionOrigins, ClickOffered DEF OfferedInv
<1>5. ASSUME NEW i \in DOMAIN calls'
      PROVE  OfferedFor(calls'[i].handler, calls'[i].seen)
  <2>1. CASE \E j \in DOMAIN calls : calls'[i] = calls[j] \/ Same(calls[j], calls'[i])
    BY <2>1 DEF OfferedInv, Same
  <2>2. CASE \E d \in dialog : Same(d, calls'[i])
    BY <2>2 DEF OfferedInv, Same
  <2>3. CASE Clicked(calls'[i].handler, calls'[i].row, calls'[i].seen)
    BY <1>1, <2>3, ClickOffered
  <2> QED
    BY <2>1, <2>2, <2>3, CallOrigins
<1> QED
  BY <1>3, <1>4, <1>5 DEF OfferedInv

\* Nobody removes a listing.
LEMMA ListingsStay ==
    ASSUME TypeInv, [Step]_vars, page = "listings", NEW k \in Rows, db'[k].st = "ABSENT"
    PROVE  db[k].st = "ABSENT"
<1>1. ASSUME NEW call, NEW r \in Rows, Typed(call), Keeps(call), Accepts(call, r),
             db' = [db EXCEPT ![r] = After(call, r)]
      PROVE  db[k].st = "ABSENT"
  <2>1. After(call, r).st # "ABSENT"
    BY <1>1, AfterFacts DEF TypeInv, Keeps, Accepts
  <2> QED
    BY <1>1, <2>1 DEF TypeInv
<1>2. ASSUME NEW i \in DOMAIN calls, Serve(i)
      PROVE  db[k].st = "ABSENT"
  <2> DEFINE c == calls[i]
  <2>1. c.handler \in Handlers /\ c.row \in Rows
    BY CallTyped DEF TypeInv
  <2>2. Typed(c.handler.call)
    BY <2>1, SoundHere DEF TypeInv
  <2>3. Keeps(c.handler.call)
    <3>1. PICK b \in Buttons : b.handler = c.handler
      BY <2>1, SoundHere DEF TypeInv
    <3>2. Sound(b.handler, b.statuses, page)
      BY SoundHere DEF TypeInv
    <3> QED
      BY <3>1, <3>2 DEF Sound
  <2>4. Taken(c, calls'[i]) \/ Denied(c, calls'[i])
    BY <1>2, CallServed
  <2> QED
    BY <1>1, <2>1, <2>2, <2>3, <2>4 DEF Taken, Denied
<1>3. ASSUME NEW r \in Rows, Elsewhere(r)
      PROVE  db[k].st = "ABSENT"
  <2>1. PICK e \in Here.others : Accepts(e, r) /\ db' = [db EXCEPT ![r] = After(e, r)]
    BY <1>3 DEF Elsewhere
  <2>2. Typed(e) /\ Keeps(e)
    BY SoundHere DEF TypeInv
  <2> QED
    BY <1>1, <2>1, <2>2
<1>4. CASE db' = db
  BY <1>4
<1>5. \/ \E i \in DOMAIN calls : Serve(i)
      \/ \E r \in Rows : Elsewhere(r)
      \/ db' = db
  BY DEF Step, Refresh, ReadLoad, AnswerLoad, FailLoad, Click, Confirm, Dismiss, StartEditing,
     StopEditing, Succeed, Fail, vars
<1> QED
  BY <1>2, <1>3, <1>4, <1>5

\* The panel offers its buttons for the row it edits alone.
LEMMA ClickInPanel ==
    ASSUME page \in Pages, page = "listings", NEW h, NEW k, NEW seen, Clicked(h, k, seen),
           h.editor
    PROVE  editor = k
<1>1. PICK b \in Buttons : b.handler = h /\ seen \in SeenBy(b, k)
  BY DEF Clicked
<1>2. "ABSENT" \notin b.statuses
  <2>1. Sound(b.handler, b.statuses, page)
    BY SoundHere
  <2> QED
    BY <1>1, <2>1 DEF Sound
<1> QED
  BY <1>1, <1>2 DEF SeenBy, Offered

LEMMA EditorMoves ==
    ASSUME [Step]_vars, NEW k \in Rows, editor' = k
    PROVE  \/ editor = k \/ view[k] # <<>>
           \/ \E i \in DOMAIN calls : calls[i].row = k /\ calls[i].phase = "accepted"
<1>1. ASSUME NEW i \in DOMAIN calls, Succeed(i)
      PROVE  editor = k \/ (calls[i].row = k /\ calls[i].phase = "accepted")
  BY <1>1, NoRowAssumption DEF Succeed
<1>2. ASSUME NEW r \in Rows, StartEditing(r)
      PROVE  view[k] # <<>>
  BY <1>2 DEF StartEditing
<1>3. CASE StopEditing
  BY <1>3, NoRowAssumption DEF StopEditing
<1>4. \/ \E i \in DOMAIN calls : Succeed(i)
      \/ \E r \in Rows : StartEditing(r)
      \/ StopEditing
      \/ editor' = editor
  BY DEF Step, Refresh, ReadLoad, AnswerLoad, FailLoad, Click, Confirm, Dismiss, Serve, Fail,
     Elsewhere, userVars, vars
<1> QED
  BY <1>1, <1>2, <1>3, <1>4

LEMMA PanelStep ==
    ASSUME TypeInv, PanelInv, [Step]_vars
    PROVE  PanelInv'
<1>1. page' = page /\ page \in Pages
  BY SamePageAlways DEF TypeInv
<1>2. SUFFICES ASSUME page = "listings", NEW k \in Rows, db'[k].st = "ABSENT"
               PROVE  Untouched(k)'
  BY <1>1 DEF PanelInv
<1>3. Untouched(k) /\ db[k].st = "ABSENT"
  BY <1>2, ListingsStay DEF PanelInv
<1>4. view'[k] = <<>>
  <2>1. ASSUME NEW i \in DOMAIN loads, AnswerLoad(i)
        PROVE  view'[k] = <<>>
    <3>1. loads[i].snap \in [Rows -> Stored] /\ loads[i].snap[k].st = "ABSENT"
      BY <1>3, LoadTyped DEF Untouched
    <3> QED
      BY <2>1, <3>1, ShowingFacts DEF AnswerLoad
  <2>2. ASSUME NEW i \in DOMAIN calls, Succeed(i)
        PROVE  view'[k] = <<>>
    <3>1. calls[i].row # k
      BY <1>3, <2>2 DEF Succeed, Untouched
    <3>2. \E copies : view' = [view EXCEPT ![calls[i].row] = copies]
      BY <2>2 DEF Succeed
    <3> QED
      BY <1>3, <3>1, <3>2 DEF Untouched, TypeInv
  <2> QED
    BY <1>3, <2>1, <2>2, ViewMoves DEF Untouched
<1>5. editor' # k
  BY <1>3, EditorMoves DEF Untouched
<1>6. ASSUME NEW i \in DOMAIN loads'
      PROVE  loads'[i].snap[k].st = "ABSENT"
  <2>1. NewLoad.snap[k].st = "ABSENT"
    BY AbsentFacts DEF NewLoad, NoSnap
  <2>2. CASE loads'[i] = [read |-> TRUE, snap |-> db]
    BY <1>3, <2>2
  <2> QED
    BY <1>3, <2>1, <2>2, LoadOrigins DEF Untouched
<1>7. ASSUME NEW d \in dialog', d.row = k
      PROVE  ~d.handler.editor
  BY <1>1, <1>2, <1>3, <1>7, QuestionOrigins, ClickInPanel DEF Untouched
<1>8. ASSUME NEW i \in DOMAIN calls', calls'[i].row = k
      PROVE  ~calls'[i].handler.editor /\ calls'[i].phase # "accepted"
  <2>1. CASE \E j \in DOMAIN calls : calls'[i] = calls[j]
    BY <1>3, <1>8, <2>1 DEF Untouched
  <2>2. ASSUME NEW j \in DOMAIN calls, Same(calls[j], calls'[i]), Taken(calls[j], calls'[i])
        PROVE  FALSE
    <3>1. calls[j].handler \in Handlers /\ calls[j].row = k
      BY <1>8, <2>2, CallTyped DEF TypeInv, Same
    <3>2. db'[k] = After(calls[j].handler.call, k) /\ Accepts(calls[j].handler.call, k)
      BY <2>2, <3>1 DEF Taken, TypeInv
    <3>3. Typed(calls[j].handler.call)
      BY <3>1, SoundHere DEF TypeInv
    <3>4. Keeps(calls[j].handler.call)
      <4>1. PICK b \in Buttons : b.handler = calls[j].handler
        BY <3>1, SoundHere DEF TypeInv
      <4>2. Sound(b.handler, b.statuses, page)
        BY SoundHere DEF TypeInv
      <4> QED
        BY <1>2, <4>1, <4>2 DEF Sound
    <3>5. After(calls[j].handler.call, k).st # "ABSENT"
      BY <3>2, <3>3, <3>4, AfterFacts DEF TypeInv, Keeps, Accepts
    <3> QED
      BY <1>2, <3>2, <3>5
  <2>3. ASSUME NEW j \in DOMAIN calls, Same(calls[j], calls'[i]), Denied(calls[j], calls'[i])
        PROVE  ~calls'[i].handler.editor /\ calls'[i].phase # "accepted"
    BY <1>3, <1>8, <2>3 DEF Untouched, Same, Denied
  <2>4. CASE /\ calls'[i].phase = "sent"
             /\ \/ Clicked(calls'[i].handler, calls'[i].row, calls'[i].seen)
                \/ \E d \in dialog : Same(d, calls'[i])
    <3>1. CASE Clicked(calls'[i].handler, calls'[i].row, calls'[i].seen)
      BY <1>1, <1>2, <1>3, <1>8, <2>4, <3>1, ClickInPanel DEF Untouched
    <3>2. CASE \E d \in dialog : Same(d, calls'[i])
      BY <1>3, <1>8, <2>4, <3>2 DEF Untouched, Same
    <3> QED
      BY <2>4, <3>1, <3>2
  <2> QED
    BY <2>1, <2>2, <2>3, <2>4, CallOrigins
<1> QED
  BY <1>4, <1>5, <1>6, <1>7, <1>8 DEF Untouched

LEMMA RefusedStep ==
    ASSUME TypeInv, OfferedInv, PanelInv, RefusedOnlyIfOvertaken, [Step]_vars
    PROVE  RefusedOnlyIfOvertaken'
<1> DEFINE Excusable(c) == \/ c.handler.call.unseen \/ Shown(c.got.st) # c.seen
                           \/ OffersMore(c.handler.call, c.seen)
<1>1. page' = page /\ page \in Pages
  BY SamePageAlways DEF TypeInv
<1>2. SUFFICES ASSUME NEW i \in DOMAIN calls', calls'[i].phase = "refused"
               PROVE  Excusable(calls'[i])
  BY DEF RefusedOnlyIfOvertaken
<1>3. CASE \E j \in DOMAIN calls : calls'[i] = calls[j]
  BY <1>2, <1>3 DEF RefusedOnlyIfOvertaken
<1>4. ASSUME NEW j \in DOMAIN calls, Same(calls[j], calls'[i]), Denied(calls[j], calls'[i])
      PROVE  Excusable(calls'[i])
  <2> DEFINE h == calls[j].handler
             k == calls[j].row
             seen == calls[j].seen
  <2>1. h \in Handlers /\ k \in Rows /\ db[k].st \in Statuses
    BY CallTyped DEF TypeInv, Stored
  <2>2. SUFFICES ASSUME ~h.call.unseen, ~OffersMore(h.call, seen)
                 PROVE  Shown(db[k].st) # seen
    BY <1>4 DEF Same, Denied
  <2>3. db[k].st \notin DOMAIN h.call.moves
    BY <1>4, <2>2 DEF Denied, Accepts
  <2>4. PICK b \in Buttons : /\ b.handler = h
                             /\ seen \in b.statuses \/ (InPanel(b) /\ seen = "ABSENT")
    BY DEF OfferedInv, OfferedFor
  <2>5. Mirrors(h.call, b.statuses)
    BY <1>1, <2>4, SoundHere DEF Sound
  <2> HIDE DEF h, k, seen
  <2>6. CASE InPanel(b) /\ seen = "ABSENT"
    <3>1. db[k].st # "ABSENT"
      BY <1>1, <2>1, <2>4, <2>6, SoundHere DEF PanelInv, Untouched, InPanel, h, k
    <3>2. Shown(db[k].st) # "ABSENT"
      BY <3>1 DEF Shown
    <3> QED
      BY <2>6, <3>2
  <2>7. CASE seen \in b.statuses
    BY <2>2, <2>3, <2>5, <2>7 DEF Mirrors
  <2> QED
    BY <2>4, <2>6, <2>7
<1> QED
  BY <1>2, <1>3, <1>4, CallOrigins DEF Taken

-------------------------------------------------------------------------------
(* What is shown is what is stored. *)

Agree(copies, row) ==
    IF row.st = "ABSENT" THEN copies = <<>>
    ELSE /\ Len(copies) = 1
         /\ copies[1].st = Shown(row.st) /\ copies[1].tag = row.tag

LEMMA TagFacts ==
    \A t, e \in BOOLEAN : /\ e = TRUE => (t # e) = ~t
                          /\ e = FALSE => (t # e) = t
  OBVIOUS

LEMMA MappedOne ==
    ASSUME NEW s, IsSequence(s), Len(s) = 1, NEW f, DOMAIN f = DOMAIN s,
           f = [i \in DOMAIN s |-> f[i]]
    PROVE  Len(f) = 1
<1>1. DOMAIN s = 1..1
  BY SequenceFacts
<1>2. f \in [1..1 -> {f[1]}]
  BY <1>1
<1>3. f \in Seq({f[1]})
  BY <1>2, SeqDef
<1> QED
  BY <1>1, <1>3, LenProperties

\* The answer turns a copy that was current into one that is.
LEMMA AnswerShows ==
    ASSUME TypeInv, NEW k \in Rows, NEW h, Typed(h.call), Suits(h.call, h.then),
           Agree(view[k], db[k]), Accepts(h.call, k), h.then # "reload"
    PROVE  Agree(Shows(h, view[k], After(h.call, k)), After(h.call, k))
<1> DEFINE st == db[k].st
           to == h.call.moves[st]
           got == After(h.call, k)
           new == NewCopy(h, got)
           old == view[k]
<1>1. /\ got \in Stored /\ got.st = to
      /\ to # "ABSENT" => got.tag = (db[k].tag # h.call.edits)
  BY AfterFacts DEF TypeInv
<1>2. db[k].tag \in BOOLEAN /\ h.call.edits \in BOOLEAN /\ h.call.bare \in BOOLEAN
  BY DEF TypeInv, Stored, Typed
<1>3. new.st = Shown(to) /\ new.tag = got.tag
  BY <1>1, <1>2, CopyFacts DEF NewCopy
<1>4. new \in Copies
  BY <1>1, <1>2, CopyFacts DEF NewCopy
<1>5. /\ h.then \in {"replace", "merge", "move", "note", "mark"} => st # "ABSENT" /\ to # "ABSENT"
      /\ h.then = "add" => st = "ABSENT" /\ to # "ABSENT"
      /\ h.then = "remove" => to = "ABSENT"
      /\ h.then = "move" => Shown(to) # Shown(st)
      /\ h.then = "note" => to = st /\ h.call.edits
      /\ h.then = "mark" => Shown(to) = Shown(st) /\ ~h.call.edits
  BY DEF Suits, Edits, Accepts
<1>6. old \in Seq(Copies) /\ IsSequence(old)
  BY SequenceOf DEF TypeInv
<1>7. st # "ABSENT" => /\ Len(old) = 1 /\ DOMAIN old = 1..1 /\ old[1] \in Copies
                       /\ old[1].st = Shown(st) /\ old[1].tag = db[k].tag
  BY <1>6, TypedSequences DEF Agree
<1>8. st = "ABSENT" => old = <<>>
  BY DEF Agree
<1>9. LET shows == Shows(h, old, got) IN
      /\ h.then = "replace" => shows = [i \in DOMAIN old |-> new]
      /\ h.then = "merge" => shows = Merged(old, new)
      /\ h.then = "remove" => shows = <<>>
      /\ h.then = "add" => shows = Append(old, new)
      /\ h.then = "move" => shows = Append(InList(old, new.st), new)
      /\ h.then = "note" => shows = Noted(old)
      /\ h.then = "mark" => shows = old
      /\ h.then \in {"replace", "merge", "remove", "add", "move", "note", "mark"}
  BY ShowsCases
<1>10. Append(<<>>, new) = <<new>> /\ Len(<<new>>) = 1 /\ <<new>>[1] = new
  OBVIOUS
<1> HIDE DEF new, old, got, to, st
<1>11. SUFFICES Agree(Shows(h, old, got), got)
  BY DEF got, old
<1>12. SUFFICES ASSUME to # "ABSENT", h.then # "remove"
                PROVE  /\ Len(Shows(h, old, got)) = 1
                       /\ Shows(h, old, got)[1].st = Shown(to)
                       /\ Shows(h, old, got)[1].tag = got.tag
  BY <1>1, <1>5, <1>9 DEF Agree
<1>13. CASE h.then = "replace"
  <2>1. Len([i \in DOMAIN old |-> new]) = 1
    BY <1>5, <1>6, <1>7, <1>13, MappedOne
  <2> QED
    BY <1>3, <1>5, <1>7, <1>9, <1>13, <2>1
<1>14. CASE h.then = "merge"
  <2>1. Len(Merged(old, new)) = 1
    BY <1>5, <1>6, <1>7, <1>14, MappedOne DEF Merged
  <2>2. Merged(old, new)[1] = [new EXCEPT !.whole = old[1].whole \/ @]
    BY <1>5, <1>7, <1>14 DEF Merged
  <2>3. Merged(old, new)[1].st = new.st /\ Merged(old, new)[1].tag = new.tag
    BY <1>4, <2>2 DEF Copies
  <2> QED
    BY <1>3, <1>9, <1>14, <2>1, <2>3
<1>15. CASE h.then = "add"
  BY <1>3, <1>5, <1>8, <1>9, <1>10, <1>15
<1>16. CASE h.then = "move"
  <2>1. InList(old, new.st) = <<>>
    BY <1>3, <1>5, <1>6, <1>7, <1>16, InListFacts
  <2> QED
    BY <1>3, <1>9, <1>10, <1>16, <2>1
<1>17. CASE h.then = "note"
  <2>1. Len(Noted(old)) = 1
    BY <1>5, <1>6, <1>7, <1>17, MappedOne DEF Noted
  <2>2. Noted(old)[1] = [old[1] EXCEPT !.tag = ~@]
    BY <1>5, <1>7, <1>17 DEF Noted
  <2>3. Noted(old)[1].st = old[1].st /\ Noted(old)[1].tag = ~old[1].tag
    BY <1>5, <1>7, <1>17, <2>2 DEF Copies
  <2>4. got.tag = ~db[k].tag
    BY <1>1, <1>2, <1>5, <1>12, <1>17, TagFacts
  <2> QED
    BY <1>5, <1>7, <1>9, <1>17, <2>1, <2>3, <2>4
<1>18. CASE h.then = "mark"
  <2>1. got.tag = db[k].tag
    BY <1>1, <1>2, <1>5, <1>12, <1>18, TagFacts
  <2> QED
    BY <1>5, <1>7, <1>9, <1>18, <2>1
<1> QED
  BY <1>9, <1>12, <1>13, <1>14, <1>15, <1>16, <1>17, <1>18

Accepted(i) == calls[i].phase = "accepted"

\* A guarded effect has one run under way.
LoadedOnce == Here.load.guarded => Len(loads) <= 1

\* An executed request is on the page's books as crossed by every load that has read.
ReadsCross ==
    (\E i \in DOMAIN loads : loads[i].read) =>
        \A j \in DOMAIN calls : Accepted(j) => calls[j].row \in excused

\* What a load has read is still stored.
ReadsCurrent ==
    \A i \in DOMAIN loads : loads[i].read =>
        \A k \in Rows \ excused : loads[i].snap[k] = db[k]

\* The answer under way is the row as it is stored, and the only one for it.
AnswersCurrent ==
    \A j \in DOMAIN calls : Accepted(j) /\ calls[j].row \notin excused =>
        /\ calls[j].got = db[calls[j].row]
        /\ \A i \in DOMAIN calls \ {j} : Accepted(i) => calls[i].row # calls[j].row

\* Between loads the copy of a row is as the row is stored, or becomes so with the answer
\* under way.
Current(k) ==
    /\ (\A j \in DOMAIN calls : Accepted(j) => calls[j].row # k) => Agree(view[k], db[k])
    /\ \A j \in DOMAIN calls :
          Accepted(j) /\ calls[j].row = k /\ calls[j].handler.then # "reload" =>
              Agree(Shows(calls[j].handler, view[k], calls[j].got), db[k])
ViewCurrent == loads = <<>> /\ ~loadError => \A k \in Rows \ excused : Current(k)

ShownInv == LoadedOnce /\ ReadsCross /\ ReadsCurrent /\ AnswersCurrent /\ ViewCurrent

\* A request executed now is crossed by every load that has read.
LEMMA RacingFacts ==
    ASSUME NEW requests, NEW fetches, NEW i \in DOMAIN fetches, fetches[i].read,
           NEW j \in DOMAIN requests, requests[j].phase = "accepted"
    PROVE  requests[j].row \in Racing(requests, fetches)
  BY DEF Racing

\* Only a read makes a load one that has read; only an execution makes a request accepted.
LEMMA ReadsKept ==
    ASSUME TypeInv, [Step]_vars, ~ \E n \in DOMAIN loads : ReadLoad(n),
           NEW i \in DOMAIN loads', loads'[i].read
    PROVE  \E j \in DOMAIN loads : loads'[i] = loads[j]
<1>1. ~NewLoad.read
  BY DEF NewLoad
<1> QED
  BY <1>1, LoadOrigins

LEMMA AnswersKept ==
    ASSUME TypeInv, [Step]_vars, ~ \E n \in DOMAIN calls : Serve(n),
           NEW i \in DOMAIN calls', calls'[i].phase = "accepted"
    PROVE  \E j \in DOMAIN calls : calls'[i] = calls[j]
  BY CallOrigins

LEMMA TwoAnswersKept ==
    ASSUME TypeInv, [Step]_vars, ~ \E n \in DOMAIN calls : Serve(n),
           NEW i \in DOMAIN calls', calls'[i].phase = "accepted",
           NEW j \in DOMAIN calls', calls'[j].phase = "accepted", i # j
    PROVE  \E m, n \in DOMAIN calls : m # n /\ calls'[i] = calls[m] /\ calls'[j] = calls[n]
<1>1. ASSUME NEW h, NEW k, NEW seen, Send(h, k, seen)
      PROVE  i \in DOMAIN calls /\ j \in DOMAIN calls
             /\ calls'[i] = calls[i] /\ calls'[j] = calls[j]
  BY <1>1, CallAdded
<1>2. ASSUME NEW n \in DOMAIN calls, Settle(n)
      PROVE  \E a, b \in DOMAIN calls : a # b /\ calls'[i] = calls[a] /\ calls'[j] = calls[b]
  <2>1. IsSequence(calls)
    BY SequenceOf DEF TypeInv
  <2> QED
    BY <1>2, <2>1, Settled
<1>3. CASE calls' = calls
  BY <1>3
<1>4. \/ \E b \in Buttons, k \in Rows : Click(b, k)
      \/ \E d \in dialog : Confirm(d)
      \/ \E n \in DOMAIN calls : Settle(n)
      \/ calls' = calls
  BY DEF Step, Refresh, ReadLoad, AnswerLoad, FailLoad, Dismiss, StartEditing, StopEditing,
     Elsewhere, userVars, vars, Succeed, Fail
<1>5. (\E h, k, seen : Send(h, k, seen)) \/ (\E n \in DOMAIN calls : Settle(n)) \/ calls' = calls
  BY <1>4 DEF Click, Confirm
<1> QED
  BY <1>1, <1>2, <1>3, <1>5

\* The excused rows of a step.
LEMMA ExcusedGrows ==
    ASSUME [Step]_vars, ~ \E n \in DOMAIN loads : ReadLoad(n)
    PROVE  excused \subseteq excused'
  BY DEF Step, Refresh, AnswerLoad, FailLoad, Click, Confirm, Dismiss, StartEditing, StopEditing,
     Serve, Succeed, Fail, Elsewhere, vars

LEMMA StoredMoves ==
    ASSUME TypeInv, [Step]_vars, NEW k \in Rows \ excused', db'[k] # db[k]
    PROVE  \E n \in DOMAIN calls : /\ Serve(n) /\ calls[n].row = k
                                   /\ Taken(calls[n], calls'[n])
<1>1. ASSUME NEW n \in DOMAIN calls, Serve(n)
      PROVE  calls[n].row = k /\ Taken(calls[n], calls'[n])
  BY <1>1, CallServed DEF Taken, Denied, TypeInv
<1>2. ASSUME NEW r \in Rows, Elsewhere(r)
      PROVE  FALSE
  BY <1>2 DEF Elsewhere, TypeInv
<1>3. (\E n \in DOMAIN calls : Serve(n)) \/ (\E r \in Rows : Elsewhere(r)) \/ db' = db
  BY DEF Step, Refresh, ReadLoad, AnswerLoad, FailLoad, Click, Confirm, Dismiss, StartEditing,
     StopEditing, Succeed, Fail, vars
<1> QED
  BY <1>1, <1>2, <1>3

LEMMA OnceStep ==
    ASSUME TypeInv, LoadedOnce, [Step]_vars
    PROVE  LoadedOnce'
<1>1. Here' = Here
  BY SamePageAlways, SameTypes
<1>2. SUFFICES ASSUME Here.load.guarded
               PROVE  Len(loads') <= 1
  BY <1>1 DEF LoadedOnce
<1>3. IsSequence(loads) /\ Len(loads) \in Nat /\ Len(loads) <= 1
  BY <1>2, SequenceOf, TypedSequences DEF LoadedOnce, TypeInv
<1>4. CASE Refresh
  <2>1. loads' = Append(<<>>, NewLoad)
    BY <1>2, <1>4 DEF Refresh, StartLoad, Surviving
  <2>2. Len(Append(<<>>, NewLoad)) = 1
    OBVIOUS
  <2> QED
    BY <2>1, <2>2
<1>5. ASSUME NEW n \in DOMAIN loads, ReadLoad(n)
      PROVE  Len(loads') <= 1
  BY <1>3, <1>5, Replaced DEF ReadLoad
<1>6. ASSUME NEW n \in DOMAIN loads, AnswerLoad(n) \/ FailLoad(n)
      PROVE  Len(loads') <= 1
  <2>1. loads' = RemoveAt(loads, n)
    BY <1>6 DEF AnswerLoad, FailLoad
  <2>2. Len(loads') = Len(loads) - 1
    BY <1>3, <2>1, Removed
  <2> QED
    BY <1>3, <2>2
<1>7. ASSUME NEW n \in DOMAIN calls, Succeed(n)
      PROVE  loads' = loads
  <2>1. calls[n].handler \in Handlers
    BY CallTyped DEF TypeInv
  <2>2. PICK b \in Buttons : b.handler = calls[n].handler
    BY <2>1, SoundHere DEF TypeInv
  <2>3. Sound(b.handler, b.statuses, page)
    BY SoundHere DEF TypeInv
  <2>4. calls[n].handler.then # "reload"
    BY <1>2, <2>2, <2>3, SoundHere DEF TypeInv, Sound
  <2> QED
    BY <1>7, <2>4 DEF Succeed
<1>8. CASE loads' = loads
  BY <1>3, <1>8
<1>9. \/ Refresh
      \/ \E n \in DOMAIN loads : ReadLoad(n) \/ AnswerLoad(n) \/ FailLoad(n)
      \/ \E n \in DOMAIN calls : Succeed(n)
      \/ loads' = loads
  BY DEF Step, Click, Confirm, Dismiss, StartEditing, StopEditing, Serve, Fail, Elsewhere,
     screenVars, vars
<1> QED
  BY <1>3, <1>4, <1>5, <1>6, <1>7, <1>8, <1>9

LEMMA CrossStep ==
    ASSUME TypeInv, ReadsCross, [Step]_vars
    PROVE  ReadsCross'
<1>1. SUFFICES ASSUME NEW i \in DOMAIN loads', loads'[i].read,
                      NEW j \in DOMAIN calls', calls'[j].phase = "accepted"
               PROVE  calls'[j].row \in excused'
  BY DEF ReadsCross, Accepted
<1>2. calls'[j].row \in Racing(calls', loads')
  BY <1>1, RacingFacts
<1>3. ASSUME NEW n \in DOMAIN loads, ReadLoad(n)
      PROVE  calls'[j].row \in excused'
  BY <1>2, <1>3 DEF ReadLoad, userVars
<1>4. ASSUME NEW n \in DOMAIN calls, Serve(n)
      PROVE  calls'[j].row \in excused'
  BY <1>2, <1>4 DEF Serve, screenVars
<1>5. CASE ~(\E n \in DOMAIN loads : ReadLoad(n)) /\ ~(\E n \in DOMAIN calls : Serve(n))
  <2>1. \E n \in DOMAIN loads : loads[n].read
    BY <1>1, <1>5, ReadsKept
  <2>2. PICK m \in DOMAIN calls : calls'[j] = calls[m]
    BY <1>1, <1>5, AnswersKept
  <2>3. calls[m].row \in excused
    BY <1>1, <2>1, <2>2 DEF ReadsCross, Accepted
  <2> QED
    BY <1>5, <2>2, <2>3, ExcusedGrows
<1> QED
  BY <1>3, <1>4, <1>5

LEMMA ReadsStep ==
    ASSUME TypeInv, LoadedOnce, ReadsCurrent, [Step]_vars
    PROVE  ReadsCurrent'
<1>1. SUFFICES ASSUME NEW i \in DOMAIN loads', loads'[i].read, NEW k \in Rows \ excused'
               PROVE  loads'[i].snap[k] = db'[k]
  BY DEF ReadsCurrent
<1>2. ASSUME NEW n \in DOMAIN loads, ReadLoad(n)
      PROVE  loads'[i].snap[k] = db'[k]
  <2>1. /\ loads' = [loads EXCEPT ![n] = [read |-> TRUE, snap |-> db]]
        /\ excused' = (IF OlderRead(n) THEN excused ELSE {}) \cup Racing(calls, loads')
        /\ db' = db
    BY <1>2 DEF ReadLoad
  <2>2. /\ IsSequence(loads) /\ Len(loads) \in Nat /\ DOMAIN loads = 1..Len(loads)
    BY SequenceOf, TypedSequences DEF TypeInv
  <2>3. /\ i \in DOMAIN loads
        /\ loads'[i] = IF i = n THEN [read |-> TRUE, snap |-> db] ELSE loads[i]
    BY <2>1, <2>2, Replaced
  <2>4. CASE i = n
    BY <2>1, <2>3, <2>4
  <2>5. CASE i # n
    <3>1. ~Here.load.guarded
      BY <2>2, <2>3, <2>5 DEF LoadedOnce
    <3>2. OlderRead(n)
      BY <1>1, <2>3, <2>5, <3>1 DEF OlderRead
    <3>3. k \in Rows \ excused
      BY <1>1, <2>1, <3>2
    <3> QED
      BY <1>1, <2>1, <2>3, <2>5, <3>3 DEF ReadsCurrent
  <2> QED
    BY <2>4, <2>5
<1>3. CASE ~ \E n \in DOMAIN loads : ReadLoad(n)
  <2>1. PICK j \in DOMAIN loads : loads'[i] = loads[j]
    BY <1>1, <1>3, ReadsKept
  <2>2. loads[j].snap[k] = db[k]
    BY <1>1, <1>3, <2>1, ExcusedGrows DEF ReadsCurrent
  <2>3. db'[k] = db[k]
    <3>1. SUFFICES ASSUME NEW n \in DOMAIN calls, Serve(n), calls[n].row = k,
                          Taken(calls[n], calls'[n])
                   PROVE  FALSE
      BY StoredMoves
    <3>2. /\ excused' = excused \cup Racing(calls', loads)
                        \cup ({calls[m].row : m \in DOMAIN calls \ {n}} \cap {calls[n].row})
          /\ loads' = loads
      BY <3>1 DEF Serve, screenVars
    <3>3. n \in DOMAIN calls' /\ calls'[n].phase = "accepted" /\ calls'[n].row = k
      BY <3>1, CallServed DEF Taken, Same
    <3>4. k \in Racing(calls', loads')
      BY <1>1, <3>3, RacingFacts
    <3> QED
      BY <1>1, <3>2, <3>4
  <2> QED
    BY <2>1, <2>2, <2>3
<1> QED
  BY <1>2, <1>3

LEMMA AnswersStep ==
    ASSUME TypeInv, AnswersCurrent, [Step]_vars
    PROVE  AnswersCurrent'
<1>1. SUFFICES ASSUME NEW j \in DOMAIN calls', calls'[j].phase = "accepted",
                      calls'[j].row \notin excused'
               PROVE  /\ calls'[j].got = db'[calls'[j].row]
                      /\ \A i \in DOMAIN calls' \ {j} :
                            calls'[i].phase = "accepted" => calls'[i].row # calls'[j].row
  BY DEF AnswersCurrent, Accepted
<1>2. ASSUME NEW n \in DOMAIN loads, ReadLoad(n)
      PROVE  FALSE
  <2>1. /\ loads' = [loads EXCEPT ![n] = [read |-> TRUE, snap |-> db]]
        /\ Racing(calls, loads') \subseteq excused' /\ calls' = calls
    BY <1>2 DEF ReadLoad, userVars
  <2>2. n \in DOMAIN loads' /\ loads'[n] = [read |-> TRUE, snap |-> db]
    BY <2>1, SequenceOf, Replaced DEF TypeInv
  <2>3. calls'[j].row \in Racing(calls', loads')
    BY <1>1, <2>2, RacingFacts
  <2> QED
    BY <1>1, <2>1, <2>3
<1>3. ASSUME NEW n \in DOMAIN calls, Serve(n)
      PROVE  /\ calls'[j].got = db'[calls'[j].row]
             /\ \A i \in DOMAIN calls' \ {j} :
                   calls'[i].phase = "accepted" => calls'[i].row # calls'[j].row
  <2>1. /\ DOMAIN calls' = DOMAIN calls
        /\ \A i \in DOMAIN calls \ {n} : calls'[i] = calls[i]
        /\ Same(calls[n], calls'[n])
        /\ Taken(calls[n], calls'[n]) \/ Denied(calls[n], calls'[n])
    BY <1>3, CallServed
  <2>2. /\ excused \subseteq excused'
        /\ \A i \in DOMAIN calls \ {n} : calls[i].row = calls[n].row => calls[n].row \in excused'
    BY <1>3 DEF Serve
  <2>3. \A i \in DOMAIN calls : calls[i].row \in Rows
    BY CallTyped DEF TypeInv
  <2>4. CASE j = n
    <3>1. Taken(calls[n], calls'[n]) /\ calls'[n].row = calls[n].row
      BY <1>1, <2>1, <2>4 DEF Denied, Same
    <3>2. calls'[j].got = db'[calls'[j].row]
      BY <2>3, <2>4, <3>1 DEF Taken, TypeInv
    <3>3. \A i \in DOMAIN calls' \ {j} : calls'[i].row # calls'[j].row
      BY <1>1, <2>1, <2>2, <2>4, <3>1
    <3> QED
      BY <3>2, <3>3
  <2>5. CASE j # n
    <3>1. /\ j \in DOMAIN calls /\ calls'[j] = calls[j]
          /\ calls[j].row \notin excused /\ calls[j].row # calls[n].row
      BY <1>1, <2>1, <2>2, <2>5
    <3>2. db'[calls[j].row] = db[calls[j].row]
      BY <2>1, <2>3, <3>1 DEF Taken, Denied, TypeInv
    <3>3. /\ calls[j].got = db[calls[j].row]
          /\ \A i \in DOMAIN calls \ {j} : calls[i].phase = "accepted" => calls[i].row # calls[j].row
      BY <1>1, <3>1 DEF AnswersCurrent, Accepted
    <3>4. calls'[n].row = calls[n].row
      BY <2>1 DEF Same
    <3> QED
      BY <2>1, <3>1, <3>2, <3>3, <3>4
  <2> QED
    BY <2>4, <2>5
<1>4. CASE ~(\E n \in DOMAIN loads : ReadLoad(n)) /\ ~(\E n \in DOMAIN calls : Serve(n))
  <2>1. PICK m \in DOMAIN calls : calls'[j] = calls[m]
    BY <1>1, <1>4, AnswersKept
  <2>2. calls[m].row \in Rows /\ calls[m].row \notin excused /\ calls[m].row \notin excused'
    BY <1>1, <1>4, <2>1, CallTyped, ExcusedGrows DEF TypeInv
  <2>3. /\ calls[m].got = db[calls[m].row]
        /\ \A a, b \in DOMAIN calls :
              /\ a # b /\ calls[a].phase = "accepted" /\ calls[b].phase = "accepted"
              /\ calls[b].row \notin excused
              => calls[a].row # calls[b].row
    BY <1>1, <2>1, <2>2 DEF AnswersCurrent, Accepted
  <2>4. db'[calls[m].row] = db[calls[m].row]
    BY <1>4, <2>2, StoredMoves
  <2>5. ASSUME NEW i \in DOMAIN calls' \ {j}, calls'[i].phase = "accepted"
        PROVE  calls'[i].row # calls'[j].row
    <3>1. PICK a, b \in DOMAIN calls : a # b /\ calls'[i] = calls[a] /\ calls'[j] = calls[b]
      BY <1>1, <1>4, <2>5, TwoAnswersKept
    <3> QED
      BY <1>1, <2>1, <2>2, <2>3, <2>5, <3>1
  <2> QED
    BY <2>1, <2>3, <2>4, <2>5
<1> QED
  BY <1>2, <1>3, <1>4

\* The answers under way for row k are the same after the step as before it.
SameAnswers(k) ==
    /\ \A i \in DOMAIN calls' : calls'[i].phase = "accepted" /\ calls'[i].row = k =>
          \E j \in DOMAIN calls : calls'[i] = calls[j]
    /\ \A j \in DOMAIN calls : calls[j].phase = "accepted" /\ calls[j].row = k =>
          \E i \in DOMAIN calls' : calls'[i] = calls[j]

LEMMA CurrentStays ==
    ASSUME NEW k, view'[k] = view[k], db'[k] = db[k], SameAnswers(k), Current(k)
    PROVE  Current(k)'
<1>1. ASSUME \A i \in DOMAIN calls' : calls'[i].phase = "accepted" => calls'[i].row # k
      PROVE  Agree(view'[k], db'[k])
  <2>1. \A j \in DOMAIN calls : calls[j].phase = "accepted" => calls[j].row # k
    BY <1>1 DEF SameAnswers
  <2> QED
    BY <2>1 DEF Current, Accepted
<1>2. ASSUME NEW i \in DOMAIN calls', calls'[i].phase = "accepted", calls'[i].row = k,
             calls'[i].handler.then # "reload"
      PROVE  Agree(Shows(calls'[i].handler, view'[k], calls'[i].got), db'[k])
  <2>1. PICK j \in DOMAIN calls : calls'[i] = calls[j]
    BY <1>2 DEF SameAnswers
  <2>2. Agree(Shows(calls[j].handler, view[k], calls[j].got), db[k])
    BY <1>2, <2>1 DEF Current, Accepted
  <2> QED
    BY <2>1, <2>2
<1> QED
  BY <1>1, <1>2 DEF Current, Accepted

LEMMA ViewAnswered ==
    ASSUME TypeInv, ShownInv, NEW n \in DOMAIN loads, AnswerLoad(n), NEW k \in Rows \ excused
    PROVE  Current(k)'
<1>1. /\ loads[n].read /\ view' = Showing(loads[n].snap) /\ UNCHANGED <<db, calls>>
  BY DEF AnswerLoad, userVars
<1>2. loads[n].snap[k] = db[k] /\ \A j \in DOMAIN calls : Accepted(j) => calls[j].row # k
  BY <1>1 DEF ShownInv, ReadsCurrent, ReadsCross
<1>3. loads[n].snap \in [Rows -> Stored] /\ db[k] \in Stored
  BY LoadTyped DEF TypeInv
<1>4. view'[k] = IF db[k].st = "ABSENT" THEN <<>> ELSE <<Copy(db[k], TRUE)>>
  BY <1>1, <1>2, <1>3, ShowingFacts
<1>5. Copy(db[k], TRUE).st = Shown(db[k].st) /\ Copy(db[k], TRUE).tag = db[k].tag
  BY <1>3, CopyFacts
<1>6. Agree(view'[k], db[k])
  <2> DEFINE copy == Copy(db[k], TRUE)
  <2>1. Len(<<copy>>) = 1 /\ <<copy>>[1] = copy
    OBVIOUS
  <2>2. copy.st = Shown(db[k].st) /\ copy.tag = db[k].tag
    BY <1>5
  <2>3. view'[k] = IF db[k].st = "ABSENT" THEN <<>> ELSE <<copy>>
    BY <1>4
  <2> HIDE DEF copy
  <2> QED
    BY <2>1, <2>2, <2>3 DEF Agree
<1> QED
  BY <1>1, <1>2, <1>6 DEF Current, Accepted

LEMMA ViewSent ==
    ASSUME TypeInv, NEW h, NEW r, NEW seen, Send(h, r, seen), UNCHANGED <<db, view>>,
           NEW k \in Rows, Current(k)
    PROVE  Current(k)'
<1>1. SameAnswers(k)
  BY CallAdded DEF SameAnswers
<1> QED
  BY <1>1, CurrentStays

LEMMA ViewServed ==
    ASSUME TypeInv, NEW n \in DOMAIN calls, Serve(n), NEW k \in Rows \ excused', Current(k)
    PROVE  Current(k)'
<1> DEFINE c == calls[n]
           h == c.handler
<1>1. /\ DOMAIN calls' = DOMAIN calls
      /\ \A i \in DOMAIN calls \ {n} : calls'[i] = calls[i]
      /\ c.phase = "sent" /\ Same(c, calls'[n])
      /\ Taken(c, calls'[n]) \/ Denied(c, calls'[n])
  BY CallServed
<1>2. c.row \in Rows /\ h \in Handlers
  BY CallTyped DEF TypeInv
<1>3. /\ view' = view
      /\ \A i \in DOMAIN calls \ {n} : calls[i].row = c.row => c.row \in excused'
  BY DEF Serve, screenVars
<1>4. CASE Denied(c, calls'[n]) \/ c.row # k
  <2>1. db'[k] = db[k]
    BY <1>1, <1>2, <1>4 DEF Taken, Denied, TypeInv
  <2>2. SameAnswers(k)
    BY <1>1, <1>4 DEF SameAnswers, Same, Denied
  <2> QED
    BY <1>3, <2>1, <2>2, CurrentStays
<1>5. CASE Taken(c, calls'[n]) /\ c.row = k
  <2>1. \A i \in DOMAIN calls \ {n} : calls[i].row # k
    BY <1>3, <1>5
  <2>2. Agree(view[k], db[k])
    BY <1>1, <2>1 DEF Current, Accepted
  <2>3. /\ Accepts(h.call, k) /\ db'[k] = After(h.call, k)
        /\ calls'[n].got = After(h.call, k) /\ calls'[n].phase = "accepted"
        /\ calls'[n].handler = h /\ calls'[n].row = k
    BY <1>1, <1>2, <1>5 DEF Taken, Same, TypeInv
  <2>4. \A i \in DOMAIN calls' : calls'[i].row = k => i = n
    BY <1>1, <2>1
  <2>5. Typed(h.call) /\ Suits(h.call, h.then)
    BY <1>2, SoundHere DEF TypeInv
  <2> HIDE DEF h, c
  <2>6. h.then # "reload" => Agree(Shows(h, view[k], After(h.call, k)), After(h.call, k))
    BY <2>2, <2>3, <2>5, AnswerShows
  <2>7. ASSUME NEW i \in DOMAIN calls', calls'[i].row = k, calls'[i].handler.then # "reload"
        PROVE  Agree(Shows(calls'[i].handler, view'[k], calls'[i].got), db'[k])
    <3>1. i = n
      BY <2>4, <2>7
    <3> QED
      BY <1>3, <2>3, <2>6, <2>7, <3>1
  <2>8. n \in DOMAIN calls'
    BY <1>1
  <2> QED
    BY <2>3, <2>7, <2>8 DEF Current, Accepted
<1> QED
  BY <1>1, <1>4, <1>5

LEMMA ViewSettled ==
    ASSUME TypeInv, AnswersCurrent, NEW n \in DOMAIN calls, Succeed(n) \/ Fail(n),
           loads' = <<>>, NEW k \in Rows \ excused', excused \subseteq excused', Current(k)
    PROVE  Current(k)'
<1> DEFINE c == calls[n]
<1>1. Settle(n) /\ db' = db /\ IsSequence(calls)
  BY SequenceOf DEF Succeed, Fail, TypeInv
<1>2. /\ \A j \in DOMAIN calls' : \E i \in DOMAIN calls \ {n} : calls'[j] = calls[i]
      /\ \A i \in DOMAIN calls \ {n} : \E j \in DOMAIN calls' : calls'[j] = calls[i]
  BY <1>1, Settled
<1>3. c.row \in Rows /\ c.handler \in Handlers
  BY CallTyped DEF TypeInv
<1>4. CASE Fail(n)
  <2>1. view' = view /\ (c.phase = "accepted" => c.row \in excused')
    BY <1>4 DEF Fail, screenVars
  <2>2. SameAnswers(k)
    BY <1>2, <2>1 DEF SameAnswers
  <2> QED
    BY <1>1, <2>1, <2>2, CurrentStays
<1>5. CASE Succeed(n)
  <2>1. /\ c.phase = "accepted"
        /\ view' = [view EXCEPT ![c.row] = Shows(c.handler, view[c.row], c.got)]
    BY <1>5 DEF Succeed
  <2>2. c.handler.then # "reload"
    <3>1. \A s : IsSequence(s) => Append(s, NewLoad) # <<>>
      BY Appended
    <3>2. IsSequence(loads)
      BY SequenceOf DEF TypeInv
    <3> QED
      BY <1>5, <3>1, <3>2 DEF Succeed, StartLoad
  <2>3. CASE c.row # k
    <3>1. view'[k] = view[k]
      BY <2>1, <2>3 DEF TypeInv
    <3>2. SameAnswers(k)
      BY <1>2, <2>3 DEF SameAnswers
    <3> QED
      BY <1>1, <3>1, <3>2, CurrentStays
  <2>4. CASE c.row = k
    <3>1. \A i \in DOMAIN calls \ {n} : calls[i].phase = "accepted" => calls[i].row # k
      BY <2>1, <2>4 DEF AnswersCurrent, Accepted
    <3>2. \A j \in DOMAIN calls' : calls'[j].phase = "accepted" => calls'[j].row # k
      BY <1>2, <3>1
    <3>3. Agree(Shows(c.handler, view[k], c.got), db[k])
      BY <2>1, <2>2, <2>4 DEF Current, Accepted
    <3>4. view'[k] = Shows(c.handler, view[k], c.got)
      BY <1>3, <2>1, <2>4 DEF TypeInv
    <3> QED
      BY <1>1, <3>2, <3>3, <3>4 DEF Current, Accepted
  <2> QED
    BY <2>3, <2>4
<1> QED
  BY <1>4, <1>5

LEMMA ViewStep ==
    ASSUME TypeInv, ShownInv, [Step]_vars
    PROVE  ViewCurrent'
<1>1. SUFFICES ASSUME loads' = <<>>, ~loadError', NEW k \in Rows \ excused'
               PROVE  Current(k)'
  BY DEF ViewCurrent
<1>2. IsSequence(loads) /\ \A s : IsSequence(s) => Append(s, NewLoad) # <<>>
  BY SequenceOf, Appended DEF TypeInv
<1>3. CASE Refresh
  <2>1. loads' = Append(Surviving, NewLoad) /\ IsSequence(Surviving)
    BY <1>2, <1>3, EmptyIsSequence DEF Refresh, StartLoad, Surviving
  <2> QED
    BY <1>1, <1>2, <2>1
<1>4. ASSUME NEW n \in DOMAIN loads, ReadLoad(n)
      PROVE  FALSE
  <2>1. DOMAIN loads' = DOMAIN loads
    BY <1>2, <1>4, Replaced DEF ReadLoad
  <2> QED
    BY <1>1, <2>1, EmptyIsSequence
<1>5. ASSUME NEW n \in DOMAIN loads, FailLoad(n)
      PROVE  FALSE
  BY <1>1, <1>5 DEF FailLoad
<1>6. ASSUME NEW n \in DOMAIN loads, AnswerLoad(n)
      PROVE  Current(k)'
  <2>1. excused' = excused
    BY <1>6 DEF AnswerLoad
  <2> QED
    BY <1>6, <2>1, ViewAnswered
<1>7. ASSUME NEW n \in DOMAIN calls, Succeed(n), calls[n].handler.then = "reload"
      PROVE  FALSE
  BY <1>1, <1>2, <1>7 DEF Succeed, StartLoad
<1>8. ASSUME loads' = loads, loadError' = loadError, excused \subseteq excused'
      PROVE  Current(k)
  BY <1>1, <1>8 DEF ShownInv, ViewCurrent
<1>9. ASSUME NEW n \in DOMAIN calls, Succeed(n) \/ Fail(n)
      PROVE  Current(k)'
  <2>1. loads' = loads /\ loadError' = loadError /\ excused \subseteq excused'
    BY <1>7, <1>9 DEF Succeed, Fail, screenVars
  <2> QED
    BY <1>1, <1>8, <1>9, <2>1, ViewSettled DEF ShownInv
<1>10. ASSUME NEW n \in DOMAIN calls, Serve(n)
       PROVE  Current(k)'
  <2>1. loads' = loads /\ loadError' = loadError /\ excused \subseteq excused'
    BY <1>10 DEF Serve, screenVars
  <2> QED
    BY <1>8, <1>10, <2>1, ViewServed
<1>11. ASSUME NEW r \in Rows, Elsewhere(r)
       PROVE  Current(k)'
  <2>1. /\ loads' = loads /\ loadError' = loadError /\ excused' = excused \cup {r}
        /\ view' = view /\ calls' = calls
    BY <1>11 DEF Elsewhere, screenVars, userVars
  <2>2. db'[k] = db[k]
    BY <1>11, <2>1 DEF Elsewhere, TypeInv
  <2>3. SameAnswers(k)
    BY <2>1 DEF SameAnswers
  <2>4. Current(k)
    BY <1>8, <2>1
  <2> QED
    BY <2>1, <2>2, <2>3, <2>4, CurrentStays
<1>12. ASSUME UNCHANGED <<db, view, loads, loadError, excused>>,
              calls' = calls \/ \E h, r, seen : Send(h, r, seen)
       PROVE  Current(k)'
  <2>1. Current(k)
    BY <1>8, <1>12
  <2>2. CASE calls' = calls
    <3>1. SameAnswers(k)
      BY <2>2 DEF SameAnswers
    <3> QED
      BY <1>12, <2>1, <3>1, CurrentStays
  <2>3. CASE \E h, r, seen : Send(h, r, seen)
    BY <1>12, <2>1, <2>3, ViewSent
  <2> QED
    BY <1>12, <2>2, <2>3
<1>13. \/ Refresh
       \/ \E n \in DOMAIN loads : ReadLoad(n) \/ AnswerLoad(n) \/ FailLoad(n)
       \/ \E n \in DOMAIN calls : Serve(n) \/ Succeed(n) \/ Fail(n)
       \/ \E r \in Rows : Elsewhere(r)
       \/ /\ UNCHANGED <<db, view, loads, loadError, excused>>
          /\ \/ calls' = calls
             \/ \E b \in Buttons, r \in Rows : Click(b, r)
             \/ \E d \in dialog : Confirm(d)
  BY DEF Step, Click, Confirm, Dismiss, StartEditing, StopEditing, screenVars, vars
<1>14. ASSUME calls' # calls, (\E b \in Buttons, r \in Rows : Click(b, r))
                              \/ (\E d \in dialog : Confirm(d))
       PROVE  \E h, r, seen : Send(h, r, seen)
  BY <1>14 DEF Click, Confirm
<1> QED
  BY <1>3, <1>4, <1>5, <1>6, <1>9, <1>10, <1>11, <1>12, <1>13, <1>14

LEMMA ShownStep ==
    ASSUME TypeInv, ShownInv, [Step]_vars
    PROVE  ShownInv'
  BY OnceStep, CrossStep, ReadsStep, AnswersStep, ViewStep DEF ShownInv

-------------------------------------------------------------------------------
(* Theorems *)

PagesInv ==
    LoadsInv /\ CallsInv /\ TypeInv /\ OfferedInv /\ PanelInv /\ ShownInv /\ WholeInv

LEMMA PagesInit == Init => PagesInv /\ RefusedOnlyIfOvertaken
<1> SUFFICES ASSUME Init
             PROVE  PagesInv /\ RefusedOnlyIfOvertaken
  OBVIOUS
<1>1. IsSequence(<<>>) /\ DOMAIN <<>> = {}
  BY EmptyIsSequence
<1>2. /\ loads = <<NewLoad>> /\ calls = <<>> /\ dialog = {} /\ page \in Pages
      /\ busy = [f \in Flags |-> NoRow] /\ view = [k \in Rows |-> <<>>] /\ editor = NoRow
      /\ contested = {}
  BY DEF Init
<1>3. /\ IsSequence(<<NewLoad>>) /\ Len(<<NewLoad>>) = 1 /\ DOMAIN <<NewLoad>> = 1..1
      /\ <<NewLoad>>[1] = NewLoad /\ <<NewLoad>> # <<>>
  <2>1. <<NewLoad>> \in Seq({NewLoad}) /\ <<NewLoad>> # <<>> /\ <<NewLoad>>[1] = NewLoad
        /\ Len(<<NewLoad>>) = 1 /\ DOMAIN <<NewLoad>> = 1..1
    OBVIOUS
  <2> QED
    BY <2>1, SequenceOf
<1>4. ~NewLoad.read /\ \A k \in Rows : NewLoad.snap[k].st = "ABSENT"
  BY AbsentFacts DEF NewLoad, NoSnap
<1>5. LoadsInv /\ CallsInv
  BY <1>1, <1>2, <1>3 DEF LoadsInv, CallsInv, NoDoubleSubmit, Meeting
<1>6. OfferedInv /\ RefusedOnlyIfOvertaken
  BY <1>1, <1>2 DEF OfferedInv, RefusedOnlyIfOvertaken
<1>7. PanelInv
  BY <1>1, <1>2, <1>3, <1>4, NoRowAssumption DEF PanelInv, Untouched
<1>8. ShownInv
  BY <1>1, <1>2, <1>3, <1>4
  DEF ShownInv, LoadedOnce, ReadsCross, ReadsCurrent, AnswersCurrent, ViewCurrent
<1>9. WholeInv
  BY <1>1, <1>2 DEF WholeInv, RowsWhole
<1> QED
  BY <1>5, <1>6, <1>7, <1>8, <1>9, TypeInit DEF PagesInv

LEMMA PagesStep == PagesInv /\ [Next]_vars => PagesInv'
  BY LoadsStep, CallsStep, TypeStep, OfferedStep, PanelStep, ShownStep, WholeStep
  DEF PagesInv, Next

LEMMA PagesInvariance == Spec => []PagesInv
  BY PagesInit, PagesStep, PTL DEF Spec

\* Whatever pages, rows and bounds: the state of a visit has its types, and requests and
\* loads stay within their bounds (a question in a dialog keeps room for its request).
THEOREM PagesTypeCorrect == Spec => []TypeOK
<1>1. PagesInv => TypeOK
  <2> SUFFICES ASSUME PagesInv
               PROVE  TypeOK
    OBVIOUS
  <2>1. TypeInv /\ CallsInv
    BY DEF PagesInv
  <2>2. \A k \in Rows : \A i \in DOMAIN view[k] : view[k][i] \in Copies
    <3>1. \A k \in Rows : view[k] \in Seq(Copies)
      BY <2>1 DEF TypeInv
    <3> QED
      BY <3>1, TypedSequences
  <2>3. \A i \in DOMAIN calls : calls[i].handler \in Handlers /\ calls[i].row \in Rows
    BY <2>1 DEF CallsInv
  <2>4. busy \in [Flags -> Rows \cup {NoRow}] /\ contested \subseteq Flags
    BY <2>1 DEF CallsInv
  <2> QED
    BY <2>1, <2>2, <2>3, <2>4 DEF TypeOK, TypeInv, Copies
<1> QED
  BY <1>1, PagesInvariance, PTL

\* On every page, whatever answers are lost and however loads and handlers overlap: a
\* spinner has a load behind it and a busy flag a request, so neither turns for ever.
THEOREM PagesGoOn == Spec => []NothingStuck
<1>1. PagesInv => NothingStuck
  BY DEF PagesInv, LoadsInv, CallsInv, NothingStuck
<1> QED
  BY <1>1, PagesInvariance, PTL

\* A button has one request under way at most, although its dialog looked at the flag
\* before the user confirmed.  Where a flag holds a row's id, the row it names has its
\* request and no other row has one, until requests for two rows meet under it.
THEOREM SubmittedOnce == Spec => []NoDoubleSubmit
<1>1. PagesInv => NoDoubleSubmit
  BY DEF PagesInv, CallsInv
<1> QED
  BY <1>1, PagesInvariance, PTL

\* On every page but the one of bookings a row keeps the relations the page renders: where
\* an endpoint answers without them the handler merges the answer into the row it has, and
\* only the creation of a listing adds a row that lacks them until the next load.
THEOREM RowsKeepRelations == Spec => RelationsKept
<1>1. PagesInv /\ PagesInv' /\ [Next]_vars => [page # "bookings" => KeepsRelations]_vars
  BY KeepsStep DEF PagesInv, Next
<1> QED
  BY <1>1, PagesInvariance, PTL DEF RelationsKept, Spec

\* The status sets the pages copy from the API are right: it refuses a request for what a
\* button was offered for only if the row moved on after the user saw it, or for a reason
\* no page shows.  The two forms of OffersMore are the only ones that offer more.
THEOREM OffersAreHonoured == Spec => []RefusedOnlyIfOvertaken
<1>1. PagesInv /\ RefusedOnlyIfOvertaken /\ [Next]_vars => RefusedOnlyIfOvertaken'
  BY RefusedStep DEF PagesInv, Next
<1>2. Init => RefusedOnlyIfOvertaken
  BY PagesInit
<1> QED
  BY <1>1, <1>2, PagesInvariance, PTL DEF Spec

\* Once nothing is under way a page shows what is stored, for every page and whatever
\* refreshes, clicks and lost answers came before: what a handler makes of an answer is
\* what a load would have shown, and no superseded load comes after it.
THEOREM PagesShowTheStore == Spec => []ShownIsStored
<1>1. PagesInv => ShownIsStored
  <2> SUFFICES ASSUME PagesInv, loads = <<>>, calls = <<>>, ~loadError,
                      NEW k \in Rows \ excused
               PROVE  Agree(view[k], db[k])
    BY DEF ShownIsStored, Agree
  <2>1. Current(k)
    BY DEF PagesInv, ShownInv, ViewCurrent
  <2> QED
    BY <2>1, EmptyIsSequence DEF Current
<1> QED
  BY <1>1, PagesInvariance, PTL

===============================================================================
