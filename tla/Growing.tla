-------------------------------- MODULE Growing --------------------------------
(*****************************************************************************)
(* The grower's side of a harvest: cycle templates with their numbered       *)
(* milestones, batches that take a snapshot of a template, the advance of a  *)
(* batch from milestone to milestone, the draft listing made for a finished  *)
(* batch, and the harvest that publishes it.                                 *)
(*                                                                           *)
(* Each handler checks what it read and writes in a later statement, so      *)
(* requests overtake each other.  What stops a late write is a unique index  *)
(* or a foreign key of schema.prisma, and these are part of the steps that   *)
(* write.  No handler catches such a refusal: the request fails, and the     *)
(* filter of the application answers for it.  What the harvest does to       *)
(* pre-bookings is in PreBookings.                                           *)
(*****************************************************************************)
EXTENDS Integers, FiniteSets

CONSTANTS
    Cycles, Milestones, Batches,    \* ids of rows
    MaxOrder,                       \* milestone numbers are 1 .. MaxOrder
    Requests,                       \* slots for requests in flight
    None                            \* the null of a batch that lost its cycle

ASSUME OrderAssumption == MaxOrder \in Nat
ASSUME NoneAssumption == None \notin Cycles

VARIABLES
    cycle,        \* state of each Cycle row
    milestone,    \* the Milestone rows
    batch,        \* the Batch rows
    progress,     \* BatchMilestoneProgress: batch -> milestone -> number copied from it
    reached,      \* the milestones of each batch with a reachedAt date
    listing,      \* the Listing row made for each batch
    described,    \* batches whose listing has its Mongo content
    req,          \* the continuation of each request in flight
    undescribed   \* history: batches whose request died before it wrote the content

rows == <<cycle, milestone, batch, progress, reached, listing, described>>
vars == <<rows, req, undescribed>>

-------------------------------------------------------------------------------
(* Rows and continuations *)

Orders == 1..MaxOrder
RowState == {"NEW", "LIVE", "DELETED"}
ListingState == {"NONE", "DRAFT", "PUBLISHED"}
Snapshots == UNION {[S -> Orders] : S \in SUBSET Milestones}

Idle == [pc |-> "idle"]
Failed == [pc |-> "failed"]       \* a constraint refused a write, which no handler catches
Continuations ==
    {Idle, Failed}
    \cup [pc : {"addMilestone"}, cycle : Cycles, order : Orders]
    \cup [pc : {"reorder"}, milestone : Milestones, order : Orders]
    \cup [pc : {"removeMilestone"}, milestone : Milestones]
    \cup [pc : {"removeCycle"}, cycle : Cycles]
    \cup [pc : {"plant"}, cycle : Cycles, snapshot : Snapshots]
    \cup [pc : {"advance"}, batch : Batches, milestone : Milestones]
    \cup [pc : {"draft", "content", "harvest"}, batch : Batches]

At(r, pc) == req[r].pc = pc
Becomes(r, cont) == req' = [req EXCEPT ![r] = cont]

Init ==
    /\ cycle = [c \in Cycles |-> "NEW"]
    /\ milestone = [m \in Milestones |-> [state |-> "NEW", cycle |-> None, order |-> 0]]
    /\ batch = [b \in Batches |->
                  [planted |-> FALSE, cycle |-> None, current |-> 0, harvested |-> FALSE]]
    /\ progress = [b \in Batches |-> [m \in {} |-> 0]]
    /\ reached = [b \in Batches |-> {}]
    /\ listing = [b \in Batches |-> "NONE"]
    /\ described = {}
    /\ req = [r \in Requests |-> Idle]
    /\ undescribed = {}

-------------------------------------------------------------------------------
(* Conditions that handlers and constraints share.  Variants named            *)
(* <definition>_<fault> are the definition with one plausible fault; no       *)
(* action uses them.                                                          *)

Live(m) == milestone[m].state = "LIVE"
MilestonesOf(c) == {m \in Milestones : Live(m) /\ milestone[m].cycle = c}
Tracked(b) == DOMAIN progress[b]

\* No other milestone of the cycle has the number: the handlers' check, and the unique
\* index behind it.
NumberFree(c, n, except) ==
    \A m \in MilestonesOf(c) \ except : milestone[m].order # n

\* The foreign key from a batch's progress to the milestone.
InUse_OnlyReached(m) == \E b \in Batches : m \in reached[b]
InUse(m) == \E b \in Batches : m \in Tracked(b)

\* A batch has reached its final milestone.
Finished_ByCount(b) == batch[b].current + 1 >= Cardinality(Tracked(b))
Finished(b) == \A m \in Tracked(b) : progress[b][m] <= batch[b].current

\* The milestone that follows the current one.
Following_AnyLater(b, m) == progress[b][m] > batch[b].current
Following(b, m) == progress[b][m] = batch[b].current + 1

-------------------------------------------------------------------------------
(* CyclesService and MilestonesService *)

CreateCycle(c) ==
    /\ cycle[c] = "NEW"
    /\ cycle' = [cycle EXCEPT ![c] = "LIVE"]
    /\ UNCHANGED <<milestone, batch, progress, reached, listing, described, req>>

StartAddMilestone(r, c, n) ==
    /\ req[r] = Idle
    /\ cycle[c] = "LIVE" /\ NumberFree(c, n, {})
    /\ Becomes(r, [pc |-> "addMilestone", cycle |-> c, order |-> n])
    /\ UNCHANGED rows

AddMilestoneRow(r, m) ==
    /\ At(r, "addMilestone")
    /\ milestone[m].state = "NEW"
    /\ LET c == req[r].cycle
           n == req[r].order
       IN IF cycle[c] = "LIVE" /\ NumberFree(c, n, {})
          THEN /\ milestone' = [milestone EXCEPT ![m] =
                                   [state |-> "LIVE", cycle |-> c, order |-> n]]
               /\ Becomes(r, Idle)
          ELSE UNCHANGED milestone /\ Becomes(r, Failed)
    /\ UNCHANGED <<cycle, batch, progress, reached, listing, described>>

StartReorder(r, m, n) ==
    /\ req[r] = Idle
    /\ Live(m) /\ NumberFree(milestone[m].cycle, n, {m})
    /\ Becomes(r, [pc |-> "reorder", milestone |-> m, order |-> n])
    /\ UNCHANGED rows

\* Only the template changes; batches keep the number they copied.
ReorderRow(r) ==
    /\ At(r, "reorder")
    /\ LET m == req[r].milestone
           n == req[r].order
       IN IF Live(m) /\ NumberFree(milestone[m].cycle, n, {m})
          THEN /\ milestone' = [milestone EXCEPT ![m] = [@ EXCEPT !.order = n]]
               /\ Becomes(r, Idle)
          ELSE UNCHANGED milestone /\ Becomes(r, Failed)
    /\ UNCHANGED <<cycle, batch, progress, reached, listing, described>>

\* remove looks for a batch that reached the milestone ...
StartRemoveMilestone(r, m) ==
    /\ req[r] = Idle
    /\ Live(m) /\ \A b \in Batches : m \notin reached[b]
    /\ Becomes(r, [pc |-> "removeMilestone", milestone |-> m])
    /\ UNCHANGED rows

\* ... and the foreign key for one that tracks it, reached or not.
RemoveMilestoneRow(r) ==
    /\ At(r, "removeMilestone")
    /\ LET m == req[r].milestone IN
       IF Live(m) /\ ~InUse(m)
       THEN /\ milestone' = [milestone EXCEPT ![m] = [@ EXCEPT !.state = "DELETED"]]
            /\ Becomes(r, Idle)
       ELSE UNCHANGED milestone /\ Becomes(r, Failed)
    /\ UNCHANGED <<cycle, batch, progress, reached, listing, described>>

StartRemoveCycle(r, c) ==
    /\ req[r] = Idle
    /\ cycle[c] = "LIVE" /\ \A b \in Batches : batch[b].cycle # c
    /\ Becomes(r, [pc |-> "removeCycle", cycle |-> c])
    /\ UNCHANGED rows

\* One transaction: the milestones, whose foreign key may refuse, then the cycle, whose
\* foreign key sets the cycle of its batches to null.
RemoveCycleTx(r) ==
    /\ At(r, "removeCycle")
    /\ LET c == req[r].cycle IN
       IF cycle[c] = "LIVE" /\ \A m \in MilestonesOf(c) : ~InUse(m)
       THEN /\ milestone' = [m \in Milestones |->
                   IF m \in MilestonesOf(c) THEN [milestone[m] EXCEPT !.state = "DELETED"]
                   ELSE milestone[m]]
            /\ cycle' = [cycle EXCEPT ![c] = "DELETED"]
            /\ batch' = [b \in Batches |->
                   IF batch[b].cycle = c THEN [batch[b] EXCEPT !.cycle = None] ELSE batch[b]]
            /\ Becomes(r, Idle)
       ELSE UNCHANGED <<cycle, milestone, batch>> /\ Becomes(r, Failed)
    /\ UNCHANGED <<progress, reached, listing, described>>

-------------------------------------------------------------------------------
(* BatchesService *)

\* create reads the cycle with its milestones ...
StartPlant(r, c) ==
    /\ req[r] = Idle
    /\ cycle[c] = "LIVE"
    /\ Becomes(r, [pc |-> "plant", cycle |-> c,
                   snapshot |-> [m \in MilestonesOf(c) |-> milestone[m].order]])
    /\ UNCHANGED rows

\* ... and inserts the batch with the milestones it read; the foreign keys refuse a
\* batch whose cycle, or one of whose milestones, is gone.
PlantTx(r, b) ==
    /\ At(r, "plant")
    /\ ~batch[b].planted
    /\ LET c == req[r].cycle
           s == req[r].snapshot
       IN IF cycle[c] = "LIVE" /\ \A m \in DOMAIN s : Live(m)
          THEN /\ batch' = [batch EXCEPT ![b] = [planted |-> TRUE, cycle |-> c,
                                                 current |-> 0, harvested |-> FALSE]]
               /\ progress' = [progress EXCEPT ![b] = s]
               /\ Becomes(r, Idle)
          ELSE UNCHANGED <<batch, progress>> /\ Becomes(r, Failed)
    /\ UNCHANGED <<cycle, milestone, reached, listing, described>>

\* Progress rows keep their number, so the second read of advanceMilestone finds what
\* it would have found at the first.
StartAdvance(r, b, m) ==
    /\ req[r] = Idle
    /\ batch[b].planted /\ m \in Tracked(b) /\ Following(b, m)
    /\ Becomes(r, [pc |-> "advance", batch |-> b, milestone |-> m])
    /\ UNCHANGED rows

\* Both rows are updated by id alone.
AdvanceTx_Increments(r) ==
    /\ At(r, "advance")
    /\ LET b == req[r].batch
           m == req[r].milestone
       IN /\ reached' = [reached EXCEPT ![b] = @ \cup {m}]
          /\ batch' = [batch EXCEPT ![b] = [@ EXCEPT !.current = @ + 1]]
    /\ Becomes(r, Idle)
    /\ UNCHANGED <<cycle, milestone, progress, listing, described>>
AdvanceTx(r) ==
    /\ At(r, "advance")
    /\ LET b == req[r].batch
           m == req[r].milestone
       IN /\ reached' = [reached EXCEPT ![b] = @ \cup {m}]
          /\ batch' = [batch EXCEPT ![b] = [@ EXCEPT !.current = progress[b][m]]]
    /\ Becomes(r, Idle)
    /\ UNCHANGED <<cycle, milestone, progress, listing, described>>

StartHarvest(r, b) ==
    /\ req[r] = Idle
    /\ batch[b].planted /\ ~batch[b].harvested /\ Finished(b)
    /\ Becomes(r, [pc |-> "harvest", batch |-> b])
    /\ UNCHANGED rows

HarvestTx(r) ==
    /\ At(r, "harvest")
    /\ LET b == req[r].batch IN
       IF listing[b] # "NONE"
       THEN /\ batch' = [batch EXCEPT ![b] = [@ EXCEPT !.harvested = TRUE]]
            /\ listing' = [listing EXCEPT ![b] = "PUBLISHED"]
       ELSE UNCHANGED <<batch, listing>>
    /\ Becomes(r, Idle)
    /\ UNCHANGED <<cycle, milestone, progress, reached, described>>

-------------------------------------------------------------------------------
(* ListingsService: the draft of a batch *)

StartDraft(r, b) ==
    /\ req[r] = Idle
    /\ batch[b].planted /\ Finished(b) /\ listing[b] = "NONE"
    /\ Becomes(r, [pc |-> "draft", batch |-> b])
    /\ UNCHANGED rows

\* The unique index on batchId refuses a second draft.
SecondDraft_Replaces(b) == FALSE
SecondDraft(b) == listing[b] # "NONE"

DraftRow_NoContent(r) ==
    /\ At(r, "draft")
    /\ listing' = [listing EXCEPT ![req[r].batch] = IF @ = "NONE" THEN "DRAFT" ELSE @]
    /\ Becomes(r, Idle)
    /\ UNCHANGED <<cycle, milestone, batch, progress, reached, described>>
DraftRow(r) ==
    /\ At(r, "draft")
    /\ LET b == req[r].batch IN
       IF SecondDraft(b) THEN Becomes(r, Failed) /\ UNCHANGED listing
       ELSE /\ listing' = [listing EXCEPT ![b] = "DRAFT"]
            /\ Becomes(r, [pc |-> "content", batch |-> b])
    /\ UNCHANGED <<cycle, milestone, batch, progress, reached, described>>

WriteContent(r) ==
    /\ At(r, "content")
    /\ described' = described \cup {req[r].batch}
    /\ Becomes(r, Idle)
    /\ UNCHANGED <<cycle, milestone, batch, progress, reached, listing>>

\* update writes the content too, and makes it where there is none.
UpdateContent(b) ==
    /\ listing[b] # "NONE"
    /\ described' = described \cup {b}
    /\ UNCHANGED <<cycle, milestone, batch, progress, reached, listing, req>>

\* The public timeline of a batch is shown once its listing is published.
TimelineShown(b) == listing[b] = "PUBLISHED"

-------------------------------------------------------------------------------
(* Failures: a write that was refused is answered with an error, and the     *)
(* process may stop between two awaits; Observe writes the history           *)

Answer(r) == At(r, "failed") /\ Becomes(r, Idle) /\ UNCHANGED rows

Abort(r) == req[r] # Idle /\ Becomes(r, Idle) /\ UNCHANGED rows

Handle(r) ==
    \/ \E c \in Cycles, n \in Orders : StartAddMilestone(r, c, n)
    \/ \E m \in Milestones : AddMilestoneRow(r, m)
    \/ \E m \in Milestones, n \in Orders : StartReorder(r, m, n)
    \/ ReorderRow(r)
    \/ \E m \in Milestones : StartRemoveMilestone(r, m)
    \/ RemoveMilestoneRow(r)
    \/ \E c \in Cycles : StartRemoveCycle(r, c) \/ StartPlant(r, c)
    \/ RemoveCycleTx(r)
    \/ \E b \in Batches : PlantTx(r, b) \/ StartHarvest(r, b) \/ StartDraft(r, b)
    \/ \E b \in Batches, m \in Milestones : StartAdvance(r, b, m)
    \/ AdvanceTx(r) \/ HarvestTx(r) \/ DraftRow(r) \/ WriteContent(r)
    \/ Answer(r) \/ Abort(r)

\* History: the content was still to be written when its request ended.
Observe ==
    undescribed' = undescribed \cup
        {b \in Batches : /\ b \notin described'
                         /\ \E r \in Requests : /\ At(r, "content") /\ req[r].batch = b
                                                /\ req'[r] = Idle}

Step ==
    \/ \E r \in Requests : Handle(r)
    \/ \E c \in Cycles : CreateCycle(c)
    \/ \E b \in Batches : UpdateContent(b)

Next == Step /\ Observe

Spec == Init /\ [][Next]_vars

-------------------------------------------------------------------------------
(* Properties *)

\* Rows and continuations have the shapes of schema.prisma and of the handlers.
TypeOK ==
    /\ cycle \in [Cycles -> RowState]
    /\ milestone \in [Milestones ->
          [state : RowState, cycle : Cycles \cup {None}, order : 0..MaxOrder]]
    /\ batch \in [Batches -> [planted : BOOLEAN, cycle : Cycles \cup {None},
                              current : 0..MaxOrder, harvested : BOOLEAN]]
    /\ progress \in [Batches -> Snapshots]
    /\ reached \in [Batches -> SUBSET Milestones]
    /\ listing \in [Batches -> ListingState]
    /\ described \cup undescribed \subseteq Batches
    /\ req \in [Requests -> Continuations]

\* A batch has been through every milestone up to its current number, whatever advances
\* overlapped and however the template was renumbered meanwhile.
ReachedPrefix ==
    \A b \in Batches : \A m \in Tracked(b) :
        progress[b][m] <= batch[b].current => m \in reached[b]

\* Nothing is listed, harvested or shown to buyers before the batch went through all of
\* its milestones, although the checks of draft and harvest precede their writes and an
\* overtaken advance may set the current number back after them.
GrownBeforeSold ==
    \A b \in Batches :
        listing[b] # "NONE" \/ batch[b].harvested \/ TimelineShown(b)
            => reached[b] = Tracked(b)

\* The template of a batch with milestones outlives it: its cycle and its milestones
\* cannot be deleted, although the check of CyclesService.remove may be overtaken by a
\* planting, and that of MilestonesService.remove lets unreached milestones go.
TemplateKept ==
    \A b \in Batches : \A m \in Tracked(b) :
        /\ Live(m) /\ milestone[m].cycle = batch[b].cycle
        /\ batch[b].cycle # None /\ cycle[batch[b].cycle] = "LIVE"

\* A milestone that no batch has reached can be removed: a removal that passed the check
\* of MilestonesService.remove, and was not overtaken by an advance, is not refused.
UnreachedGoes ==
    [][\A r \in Requests :
          At(r, "removeMilestone") /\ (\A b \in Batches : req[r].milestone \notin reached[b])
              => req'[r] # Failed]_vars

\* A published listing is never a draft again, although two requests for a draft and a
\* harvest may all have passed their checks.
PublishedStays ==
    [][\A b \in Batches : listing[b] = "PUBLISHED" => listing'[b] = "PUBLISHED"]_vars

\* A listing without its description has a request that will write it, or that request
\* died after the SQL row, when the retry is refused because the listing exists.
DescribedUnlessDied ==
    \A b \in Batches : listing[b] # "NONE" =>
        \/ b \in described \cup undescribed
        \/ \E r \in Requests : At(r, "content") /\ req[r].batch = b

===============================================================================
