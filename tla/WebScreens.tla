------------------------------- MODULE WebScreens -------------------------------
(*****************************************************************************)
(* The pages of the web client, reduced to what decides their behaviour:     *)
(* how each page loads its rows, which handlers its buttons and forms call,  *)
(* for which rows a button is shown, what the endpoint behind it does, and   *)
(* what the page makes of the answer.  WebPages runs them.                   *)
(*                                                                           *)
(* A row is its status and a tag that stands for the rest of its data; every *)
(* edit of the data flips the tag.  An absent row has status ABSENT.         *)
(*****************************************************************************)

\* Delivery and pick-up are one path here: UNDERWAY is OUT_FOR_DELIVERY or
\* READY_FOR_PICKUP, FULFILLED is DELIVERED or PICKED_UP, and REVIEWED an order
\* FULFILLED that has a review.
OrderStatus == {"PLACED", "CONFIRMED", "UNDERWAY", "FULFILLED", "REVIEWED", "CANCELLED"}
BookingStatus == {"QUEUED", "AWAITING_PAYMENT", "BOOKED", "EXPIRED", "WITHDRAWN"}
UserStatus == {"ACTIVE", "SUSPENDED"}
ReviewStatus == {"VISIBLE", "HIDDEN"}
CatalogStatus == {"ABSENT", "FREE", "USED"}
BatchStatus == {"ABSENT", "PLANTED", "GROWING", "GROWN", "LISTED", "HARVESTED"}
ListingStatus == {"ABSENT", "DRAFT", "LIVE", "CLOSED"}

\* What an answer shows of a status: an order does not tell whether it was reviewed, a
\* batch does not tell whether it has a draft listing.
Shown(st) == CASE st = "REVIEWED" -> "FULFILLED"
               [] st = "LISTED" -> "GROWN"
               [] OTHER -> st

-------------------------------------------------------------------------------
(* Endpoints: the moves an endpoint accepts; whether it edits the row's data; *)
(* whether its answer is bare, without the relations the list has; whether    *)
(* it may refuse for a reason the page cannot see (a name taken, a row in     *)
(* use, no listing terms yet).                                                *)

Endpoint(moves) == [moves |-> moves, edits |-> FALSE, bare |-> FALSE, unseen |-> FALSE]

CancelOrder == [Endpoint([PLACED |-> "CANCELLED", CONFIRMED |-> "CANCELLED"])
                EXCEPT !.bare = TRUE]
AdvanceOrder == Endpoint([PLACED |-> "CONFIRMED", CONFIRMED |-> "UNDERWAY",
                          UNDERWAY |-> "FULFILLED"])
ReviewOrder == [Endpoint([FULFILLED |-> "REVIEWED"]) EXCEPT !.unseen = TRUE]
\* DisputeOrderDto takes CANCELLED alone.
DisputeOrder(target) ==
    LET from == IF target = "CANCELLED" THEN OrderStatus \ {"CANCELLED"} ELSE {}
    IN [Endpoint([st \in from |-> "CANCELLED"]) EXCEPT !.bare = TRUE]

CancelBooking == [Endpoint([QUEUED |-> "WITHDRAWN"]) EXCEPT !.bare = TRUE]
HarvestBooking == Endpoint([QUEUED |-> "AWAITING_PAYMENT"])
SettleBooking(result) == Endpoint([AWAITING_PAYMENT |-> result])

SuspendUser == Endpoint([ACTIVE |-> "SUSPENDED"])
ReactivateUser == Endpoint([SUSPENDED |-> "ACTIVE"])
HideReview == Endpoint([VISIBLE |-> "HIDDEN"])
UnhideReview == Endpoint([HIDDEN |-> "VISIBLE"])

CreateRow == [Endpoint([ABSENT |-> "FREE"]) EXCEPT !.unseen = TRUE]
RenameRow == [Endpoint([FREE |-> "FREE", USED |-> "USED"])
              EXCEPT !.edits = TRUE, !.unseen = TRUE]
RemoveRow == [Endpoint([FREE |-> "ABSENT"]) EXCEPT !.unseen = TRUE]
UseRow == Endpoint([FREE |-> "USED"])

CreateBatch == [Endpoint([ABSENT |-> "PLANTED"]) EXCEPT !.unseen = TRUE]
AdvanceMilestone == Endpoint([PLANTED |-> "GROWING", GROWING |-> "GROWN"])
CreateDraft == [Endpoint([GROWN |-> "LISTED"]) EXCEPT !.unseen = TRUE]
ConfirmHarvest == [Endpoint([LISTED |-> "HARVESTED"]) EXCEPT !.unseen = TRUE]
AddActivity == [Endpoint([st \in BatchStatus \ {"ABSENT"} |-> st]) EXCEPT !.edits = TRUE]

\* create, update and close answer without the crop and the variety.
CreateListing == [Endpoint([ABSENT |-> "LIVE"]) EXCEPT !.bare = TRUE, !.unseen = TRUE]
UpdateListing == [Endpoint([DRAFT |-> "DRAFT", LIVE |-> "LIVE", CLOSED |-> "CLOSED"])
                  EXCEPT !.edits = TRUE, !.bare = TRUE]
CloseListing == [Endpoint([DRAFT |-> "CLOSED", LIVE |-> "CLOSED"]) EXCEPT !.bare = TRUE]
PublishListing == Endpoint([DRAFT |-> "LIVE"])

-------------------------------------------------------------------------------
(* Handlers: the endpoint; the flag that marks it busy and whether the flag   *)
(* holds the id of one row; whether the handler asks in a dialog first (a     *)
(* window.confirm stops the page, so that it is one step with the click) or   *)
(* needs the row's editor open; what it does with the answer.                 *)

Handler(flag, call) == [call |-> call, flag |-> flag, keyed |-> FALSE, asks |-> FALSE,
                        editor |-> FALSE, then |-> "replace"]
RowHandler(call) == [Handler("busyId", call) EXCEPT !.keyed = TRUE]
Creator(call) == [Handler("isCreating", call) EXCEPT !.then = "add"]

\* customer/orders/[id] and vendor/orders/[id]
CustomerCancel == [Handler("isCancelling", CancelOrder)
                   EXCEPT !.asks = TRUE, !.then = "merge"]
CustomerReview == [Handler("isSubmittingReview", ReviewOrder) EXCEPT !.then = "mark"]
VendorCancel == [Handler("isCancelling", CancelOrder) EXCEPT !.asks = TRUE, !.then = "merge"]
VendorReview == [Handler("isSubmittingReview", ReviewOrder) EXCEPT !.then = "mark"]

\* admin/orders/[id]; the override to CANCELLED asks first, unless the order is shown
\* cancelled.  The form starts with the status of the order and offers every other.
HandleDispute(target, shown) ==
    [Handler("isSubmitting", DisputeOrder(target))
     EXCEPT !.asks = (target = "CANCELLED" /\ shown # "CANCELLED"), !.then = "merge"]

\* grower/orders
HandleAdvanceOrder == RowHandler(AdvanceOrder)

\* vendor/prebookings
HandleCancelBooking == [Handler("cancellingId", CancelBooking)
                        EXCEPT !.keyed = TRUE, !.asks = TRUE]

\* admin/users and admin/reviews
HandleToggleSuspend(suspended) ==
    IF suspended THEN RowHandler(ReactivateUser)
    ELSE [RowHandler(SuspendUser) EXCEPT !.asks = TRUE]
HandleHide == [RowHandler(HideReview) EXCEPT !.then = "move"]
HandleUnhide == [RowHandler(UnhideReview) EXCEPT !.then = "move"]

\* grower/crops, grower/crops/[id], grower/cycles, grower/cycles/[id]
CropCreate == Creator(CreateRow)
CropRename == [RowHandler(RenameRow) EXCEPT !.editor = TRUE]
CropDelete == [RowHandler(RemoveRow) EXCEPT !.asks = TRUE, !.then = "remove"]
VarietyCreate == Creator(CreateRow)
VarietyRename == [RowHandler(RenameRow) EXCEPT !.editor = TRUE]
VarietyDelete == [RowHandler(RemoveRow) EXCEPT !.then = "remove"]
CycleCreate == Creator(CreateRow)
CycleRename == [RowHandler(RenameRow) EXCEPT !.editor = TRUE]
CycleDelete == [RowHandler(RemoveRow) EXCEPT !.then = "remove"]
MilestoneCreate == Creator(CreateRow)
MilestoneSave == [RowHandler(RenameRow) EXCEPT !.editor = TRUE]
MilestoneDelete == [RowHandler(RemoveRow) EXCEPT !.asks = TRUE, !.then = "remove"]

\* grower/batches and grower/batches/[id]
HandleCreateBatch == Creator(CreateBatch)
HandleAdvance == [Handler("isAdvancing", AdvanceMilestone) EXCEPT !.then = "reload"]
HandleSetTerms == [Handler("isSettingTerms", CreateDraft) EXCEPT !.then = "mark"]
HandleConfirmHarvest == [Handler("isConfirmingHarvest", ConfirmHarvest)
                         EXCEPT !.then = "reload"]
HandleLogActivity == [Handler("isLoggingActivity", AddActivity) EXCEPT !.then = "note"]

\* grower/listings: the editor stays on the row that was answered
HandleCreateListing == Creator(CreateListing)
HandleSave_Replaces == [Handler("isSaving", UpdateListing) EXCEPT !.editor = TRUE]
HandleSave == [Handler("isSaving", UpdateListing) EXCEPT !.editor = TRUE, !.then = "merge"]
HandleClose == [Handler("isClosing", CloseListing)
                EXCEPT !.editor = TRUE, !.asks = TRUE, !.then = "merge"]

\* customer/addresses and vendor/addresses
CustomerAddressCreate == Creator(CreateRow)
VendorAddressCreate == Creator(CreateRow)

-------------------------------------------------------------------------------
(* Loads: what a run of the effect resets before it fetches, and whether the  *)
(* effect's cleanup makes the answers of an older run void.                   *)

Load(resets) == [resets |-> resets, guarded |-> TRUE]
Reload(resets) == [resets |-> resets, guarded |-> FALSE]
Both == {"isLoading", "loadError"}

OrderLoad == Load({})
VendorOrderLoad == Load({})
AdminOrderLoad == Load({})
GrowerOrdersLoad == Load(Both)
BookingsLoad == Load({})
UsersLoad == Load(Both)
ReviewsLoad == Load({"isLoading"})
CropsLoad == Load(Both)
VarietiesLoad == Load(Both)
CyclesLoad == Load(Both)
CycleReload == Reload(Both)
BatchesLoad == Load({})
BatchReload == Reload({})
ListingsLoad == Load({})
AddressesLoad == Load({})
VendorAddressesLoad == Load({})
OrderListLoad == Load({})

-------------------------------------------------------------------------------
(* Screens: the handlers with the statuses for which their button or form is  *)
(* offered (ABSENT: a form that makes a row), the flags that hide the rows,   *)
(* and whether the editor is a panel of its own instead of a part of the row. *)

Button(handler, statuses) == [handler |-> handler, statuses |-> statuses]
Form(handler) == Button(handler, {"ABSENT"})
Screen(buttons) == [buttons |-> buttons, hides |-> Both, panel |-> FALSE]

OrderScreen == Screen({Button(CustomerCancel, {"PLACED", "CONFIRMED"}),
                       Button(CustomerReview, {"FULFILLED"})})
VendorOrderScreen == Screen({Button(VendorCancel, {"PLACED", "CONFIRMED"}),
                             Button(VendorReview, {"FULFILLED"})})
AdminOrderScreen ==
    Screen({Button(HandleDispute("PLACED", shown), {shown}) : shown \in OrderStatus}
             \cup {Button(HandleDispute("CANCELLED", shown), {shown}) : shown \in OrderStatus})
GrowerOrdersScreen_AllRows == Screen({Button(HandleAdvanceOrder, OrderStatus)})
GrowerOrdersScreen == Screen({Button(HandleAdvanceOrder, {"PLACED", "CONFIRMED", "UNDERWAY"})})
BookingsScreen == Screen({Button(HandleCancelBooking, {"QUEUED"})})
UsersScreen == Screen({Button(HandleToggleSuspend(TRUE), {"SUSPENDED"}),
                       Button(HandleToggleSuspend(FALSE), {"ACTIVE"})})
ReviewsScreen == [Screen({Button(HandleHide, {"VISIBLE"}), Button(HandleUnhide, {"HIDDEN"})})
                  EXCEPT !.hides = {"isLoading"}]

CropsScreen == Screen({Form(CropCreate), Button(CropRename, {"FREE", "USED"}),
                       Button(CropDelete, {"FREE", "USED"})})
VarietiesScreen == Screen({Form(VarietyCreate), Button(VarietyRename, {"FREE", "USED"}),
                           Button(VarietyDelete, {"FREE", "USED"})})
CyclesScreen == Screen({Form(CycleCreate), Button(CycleRename, {"FREE", "USED"}),
                        Button(CycleDelete, {"FREE", "USED"})})
CycleScreen == Screen({Form(MilestoneCreate), Button(MilestoneSave, {"FREE", "USED"}),
                       Button(MilestoneDelete, {"FREE", "USED"})})

BatchesScreen == Screen({Form(HandleCreateBatch)})
BatchScreen == Screen({Button(HandleAdvance, {"PLANTED", "GROWING"}),
                       Button(HandleSetTerms, {"GROWN"}),
                       Button(HandleConfirmHarvest, {"GROWN"}),
                       Button(HandleLogActivity, BatchStatus \ {"ABSENT"})})
ListingsScreen == [Screen({Form(HandleCreateListing),
                           Button(HandleSave, ListingStatus \ {"ABSENT"}),
                           Button(HandleClose, ListingStatus \ {"ABSENT"})})
                   EXCEPT !.panel = TRUE]
AddressesScreen == Screen({Form(CustomerAddressCreate)})
VendorAddressesScreen == Screen({Form(VendorAddressCreate)})
OrderListScreen == Screen({})

-------------------------------------------------------------------------------
(* The pages: load, screen, the statuses a row may have when the page is      *)
(* opened, and what others may do to a row meanwhile.                         *)

Page(load, screen, start, others) ==
    [load |-> load, screen |-> screen, start |-> start, others |-> others]

CancelOverride == DisputeOrder("CANCELLED")
Fixtures == {"ABSENT", "FREE"}
PageOf ==
  [customerOrder |-> Page(OrderLoad, OrderScreen, {"PLACED", "UNDERWAY"},
                          {AdvanceOrder, CancelOverride}),
   vendorOrder |-> Page(VendorOrderLoad, VendorOrderScreen, {"PLACED", "UNDERWAY"},
                        {AdvanceOrder, CancelOverride}),
   adminOrder |-> Page(AdminOrderLoad, AdminOrderScreen, {"PLACED", "UNDERWAY"},
                       {AdvanceOrder, CancelOrder}),
   growerOrders |-> Page(GrowerOrdersLoad, GrowerOrdersScreen, {"PLACED", "UNDERWAY"},
                         {CancelOrder, CancelOverride}),
   orderList |-> Page(OrderListLoad, OrderListScreen, {"PLACED"}, {AdvanceOrder, CancelOrder}),
   bookings |-> Page(BookingsLoad, BookingsScreen, {"QUEUED"},
                     {HarvestBooking, SettleBooking("BOOKED"), SettleBooking("EXPIRED")}),
   users |-> Page(UsersLoad, UsersScreen, UserStatus, {SuspendUser, ReactivateUser}),
   reviews |-> Page(ReviewsLoad, ReviewsScreen, ReviewStatus, {HideReview, UnhideReview}),
   crops |-> Page(CropsLoad, CropsScreen, Fixtures, {UseRow, RemoveRow}),
   varieties |-> Page(VarietiesLoad, VarietiesScreen, Fixtures, {UseRow, RemoveRow}),
   cycles |-> Page(CyclesLoad, CyclesScreen, Fixtures, {UseRow, RemoveRow}),
   cycle |-> Page(CycleReload, CycleScreen, Fixtures, {UseRow, RemoveRow}),
   batches |-> Page(BatchesLoad, BatchesScreen, {"ABSENT", "PLANTED"}, {AdvanceMilestone}),
   batch |-> Page(BatchReload, BatchScreen, {"GROWING"}, {AdvanceMilestone, CreateDraft}),
   listings |-> Page(ListingsLoad, ListingsScreen, {"ABSENT", "DRAFT"},
                     {PublishListing, CloseListing}),
   addresses |-> Page(AddressesLoad, AddressesScreen, {"ABSENT"}, {}),
   vendorAddresses |-> Page(VendorAddressesLoad, VendorAddressesScreen, {"ABSENT"}, {})]
=============================================================================
