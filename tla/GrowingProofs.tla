----------------------------- MODULE GrowingProofs -----------------------------
(* What holds of Growing for every set of cycles, milestones, batches and        *)
(* requests, and every number of stages.                                         *)
EXTENDS Growing, TLAPS

MilestoneRow == [state : RowState, cycle : Cycles \cup {None}, order : 0..MaxOrder]
BatchRow == [planted : BOOLEAN, cycle : Cycles \cup {None}, current : 0..MaxOrder,
             harvested : BOOLEAN]

RowTypes ==
    /\ cycle \in [Cycles -> RowState]
    /\ milestone \in [Milestones -> MilestoneRow]
    /\ batch \in [Batches -> BatchRow]
    /\ progress \in [Batches -> Snapshots]
    /\ reached \in [Batches -> SUBSET Milestones]
    /\ listing \in [Batches -> ListingState]

\* The milestones of one cycle have different numbers.
NumbersDiffer ==
    \A m, n \in Milestones :
        /\ Live(m) /\ Live(n)
        /\ milestone[m].cycle = milestone[n].cycle
        /\ milestone[m].order = milestone[n].order
        => m = n

\* A milestone that is there has a number.
LiveNumbered == \A m \in Milestones : Live(m) => milestone[m].order \in Orders

\* Two milestones of one batch never share a number, so an advance is for one milestone.
OneStagePerNumber ==
    \A b \in Batches : \A m, n \in Tracked(b) :
        progress[b][m] = progress[b][n] => m = n

\* A batch reaches milestones of its own, and one not planted has nothing.
BatchShape ==
    \A b \in Batches :
        /\ reached[b] \subseteq Tracked(b)
        /\ ~batch[b].planted => /\ Tracked(b) = {}
                                /\ ~batch[b].harvested
                                /\ listing[b] = "NONE"

RowsInv ==
    /\ NumbersDiffer /\ LiveNumbered /\ OneStagePerNumber /\ BatchShape
    /\ ReachedPrefix /\ GrownBeforeSold /\ TemplateKept

\* What a request in flight relies on: the snapshot is of milestones of the cycle with
\* different numbers, what comes before the milestone it advances to was reached, and
\* what it lists or harvests has been through all of its milestones.
Template(s, c) ==
    \A m \in DOMAIN s :
        /\ milestone[m].state # "NEW" /\ milestone[m].cycle = c
        /\ \A n \in DOMAIN s : s[m] = s[n] => m = n
NextFor(b, m) ==
    /\ batch[b].planted /\ m \in Tracked(b)
    /\ \A n \in Tracked(b) : progress[b][n] < progress[b][m] => n \in reached[b]
Grown(b) == batch[b].planted /\ reached[b] = Tracked(b)

Sound(cont) ==
    /\ cont.pc = "plant" => Template(cont.snapshot, cont.cycle)
    /\ cont.pc = "advance" => NextFor(cont.batch, cont.milestone)
    /\ cont.pc \in {"draft", "content", "harvest"} => Grown(cont.batch)

Inv == TypeOK /\ RowsInv /\ \A r \in Requests : Sound(req[r])

\* Rows grow: nothing that was planted, reached or inserted is taken back.
RowsGrow ==
    /\ \A m \in Milestones : milestone[m].state # "NEW" =>
          milestone'[m].state # "NEW" /\ milestone'[m].cycle = milestone[m].cycle
    /\ \A b \in Batches :
          /\ batch[b].planted => batch'[b].planted /\ progress'[b] = progress[b]
          /\ reached[b] \subseteq reached'[b]

RowsStep == RowTypes' /\ RowsInv' /\ RowsGrow

-------------------------------------------------------------------------------
(* Continuations *)

LEMMA SnapshotType ==
    ASSUME NEW s \in Snapshots
    PROVE  DOMAIN s \subseteq Milestones /\ \A m \in DOMAIN s : s[m] \in Orders
<1>1. PICK S \in SUBSET Milestones : s \in [S -> Orders]
  BY DEF Snapshots
<1> QED
  BY <1>1

LEMMA ContinuationType ==
    ASSUME TypeOK, NEW r \in Requests
    PROVE  /\ req[r].pc \in {"addMilestone", "removeCycle", "plant"} => req[r].cycle \in Cycles
           /\ req[r].pc \in {"addMilestone", "reorder"} => req[r].order \in Orders
           /\ req[r].pc \in {"reorder", "removeMilestone", "advance"} =>
                req[r].milestone \in Milestones
           /\ req[r].pc = "plant" => req[r].snapshot \in Snapshots
           /\ req[r].pc \in {"advance", "draft", "content", "harvest"} =>
                req[r].batch \in Batches
<1>1. req[r] \in Continuations
  BY DEF TypeOK
<1> QED
  BY <1>1 DEF Continuations, Idle, Failed

LEMMA ContinuationsContain ==
    /\ Idle \in Continuations /\ Failed \in Continuations
    /\ \A c \in Cycles, n \in Orders :
          [pc |-> "addMilestone", cycle |-> c, order |-> n] \in Continuations
    /\ \A m \in Milestones, n \in Orders :
          [pc |-> "reorder", milestone |-> m, order |-> n] \in Continuations
    /\ \A m \in Milestones : [pc |-> "removeMilestone", milestone |-> m] \in Continuations
    /\ \A c \in Cycles : [pc |-> "removeCycle", cycle |-> c] \in Continuations
    /\ \A c \in Cycles, s \in Snapshots :
          [pc |-> "plant", cycle |-> c, snapshot |-> s] \in Continuations
    /\ \A b \in Batches, m \in Milestones :
          [pc |-> "advance", batch |-> b, milestone |-> m] \in Continuations
    /\ \A b \in Batches, pc \in {"draft", "content", "harvest"} :
          [pc |-> pc, batch |-> b] \in Continuations
  BY DEF Continuations

LEMMA BecomesType ==
    ASSUME TypeOK, NEW r \in Requests, NEW cont \in Continuations, Becomes(r, cont)
    PROVE  /\ req' \in [Requests -> Continuations]
           /\ req'[r] = cont
           /\ \A s \in Requests \ {r} : req'[s] = req[s]
  BY DEF TypeOK, Becomes

\* What a request relies on survives the steps of others.
LEMMA StaysSound ==
    ASSUME Inv, RowsStep, NEW r \in Requests
    PROVE  Sound(req[r])'  \/ req'[r] # req[r]
<1> SUFFICES ASSUME req'[r] = req[r] PROVE Sound(req[r])'
  OBVIOUS
<1> USE DEF Inv
<1>1. ASSUME req[r].pc = "plant" PROVE Template(req[r].snapshot, req[r].cycle)'
  <2>1. Template(req[r].snapshot, req[r].cycle) /\ req[r].snapshot \in Snapshots
    BY <1>1, ContinuationType DEF Sound
  <2>2. DOMAIN req[r].snapshot \subseteq Milestones
    BY <2>1, SnapshotType
  <2> QED
    BY <2>1, <2>2 DEF Template, RowsStep, RowsGrow
<1>2. ASSUME req[r].pc = "advance" PROVE NextFor(req[r].batch, req[r].milestone)'
  <2>1. NextFor(req[r].batch, req[r].milestone) /\ req[r].batch \in Batches
    BY <1>2, ContinuationType DEF Sound
  <2> QED
    BY <2>1 DEF NextFor, Tracked, RowsStep, RowsGrow
<1>3. ASSUME req[r].pc \in {"draft", "content", "harvest"} PROVE Grown(req[r].batch)'
  <2>1. Grown(req[r].batch) /\ req[r].batch \in Batches
    BY <1>3, ContinuationType DEF Sound
  <2>2. reached'[req[r].batch] \subseteq Tracked(req[r].batch)'
    BY <2>1 DEF RowsStep, RowsInv, BatchShape
  <2> QED
    BY <2>1, <2>2 DEF Grown, Tracked, RowsStep, RowsGrow
<1> QED
  BY <1>1, <1>2, <1>3 DEF Sound

\* A request moves on to a continuation that is sound.
LEMMA MovesOn ==
    ASSUME Inv, RowsStep, described' \subseteq Batches, undescribed' \subseteq Batches,
           NEW r \in Requests, NEW cont \in Continuations, Becomes(r, cont), Sound(cont)'
    PROVE  Inv'
<1>1. /\ req' \in [Requests -> Continuations]
      /\ req'[r] = cont
      /\ \A s \in Requests \ {r} : req'[s] = req[s]
  BY BecomesType DEF Inv
<1>2. ASSUME NEW s \in Requests PROVE Sound(req[s])'
  <2>1. CASE s = r
    BY <1>1, <2>1 DEF Sound, Template, NextFor, Grown, Tracked
  <2>2. CASE s # r
    BY <1>1, <2>2, StaysSound
  <2> QED
    BY <2>1, <2>2
<1>3. TypeOK'
  BY <1>1 DEF TypeOK, RowsStep, RowTypes, MilestoneRow, BatchRow
<1> QED
  BY <1>2, <1>3 DEF Inv, RowsStep

\* The rows of a typed state.
LEMMA RowsTyped == TypeOK => RowTypes
  BY DEF TypeOK, RowTypes, MilestoneRow, BatchRow

LEMMA RowsQuiet ==
    ASSUME Inv, UNCHANGED <<cycle, milestone, batch, progress, reached, listing>>
    PROVE  RowsStep
  BY RowsTyped
     DEF Inv, RowsStep, RowTypes, RowsGrow, RowsInv, NumbersDiffer, LiveNumbered, OneStagePerNumber,
         BatchShape, ReachedPrefix, GrownBeforeSold, TimelineShown, TemplateKept, Live,
         Tracked

-------------------------------------------------------------------------------
(* The steps that write: cycles and milestones *)

LEMMA CreateCycleGrows ==
    ASSUME Inv, NEW c \in Cycles, CreateCycle(c)
    PROVE  RowsStep
<1>1. /\ cycle' \in [Cycles -> RowState]
      /\ \A d \in Cycles : cycle[d] = "LIVE" => cycle'[d] = "LIVE"
  BY DEF CreateCycle, Inv, TypeOK, RowState
<1>2. UNCHANGED <<milestone, batch, progress, reached, listing>>
  BY DEF CreateCycle
<1>3. TemplateKept'
  <2> SUFFICES ASSUME NEW b \in Batches, NEW m \in Tracked(b)
               PROVE  /\ Live(m)' /\ milestone[m].cycle = batch[b].cycle
                      /\ batch[b].cycle # None /\ cycle'[batch[b].cycle] = "LIVE"
    BY <1>2 DEF TemplateKept, Live, Tracked
  <2>1. /\ Live(m) /\ milestone[m].cycle = batch[b].cycle
        /\ batch[b].cycle # None /\ cycle[batch[b].cycle] = "LIVE"
    BY DEF Inv, RowsInv, TemplateKept
  <2>2. batch[b].cycle \in Cycles
    BY <2>1 DEF Inv, TypeOK
  <2> QED
    BY <1>1, <1>2, <2>1, <2>2 DEF Live
<1> QED
  BY <1>1, <1>2, <1>3, RowsTyped
     DEF Inv, RowsStep, RowTypes, RowsGrow, RowsInv, NumbersDiffer, LiveNumbered, OneStagePerNumber,
         BatchShape, ReachedPrefix, GrownBeforeSold, TimelineShown, Live, Tracked

\* Only milestones change, and those that batches track keep all but their number.
LEMMA MilestonesGrow ==
    ASSUME Inv, UNCHANGED <<cycle, batch, progress, reached, listing>>,
           milestone' \in [Milestones -> MilestoneRow],
           NumbersDiffer', LiveNumbered',
           \A m \in Milestones : milestone[m].state # "NEW" =>
               milestone'[m].state # "NEW" /\ milestone'[m].cycle = milestone[m].cycle,
           \A m \in Milestones : Live(m) /\ InUse(m) => Live(m)'
    PROVE  RowsStep
<1>1. TemplateKept'
  <2> SUFFICES ASSUME NEW b \in Batches, NEW m \in Tracked(b)
               PROVE  /\ Live(m)' /\ milestone'[m].cycle = batch[b].cycle
                      /\ batch[b].cycle # None /\ cycle[batch[b].cycle] = "LIVE"
    BY DEF TemplateKept, Tracked
  <2>1. /\ Live(m) /\ milestone[m].cycle = batch[b].cycle
        /\ batch[b].cycle # None /\ cycle[batch[b].cycle] = "LIVE"
    BY DEF Inv, RowsInv, TemplateKept
  <2>2. m \in Milestones
    BY SnapshotType DEF Inv, TypeOK, Tracked
  <2>3. InUse(m)
    BY DEF InUse
  <2> QED
    BY <2>1, <2>2, <2>3 DEF Live
<1> QED
  BY <1>1, RowsTyped
     DEF Inv, RowsStep, RowTypes, RowsGrow, RowsInv, OneStagePerNumber,
         BatchShape, ReachedPrefix, GrownBeforeSold, TimelineShown, Tracked

LEMMA AddMilestoneGrows ==
    ASSUME Inv, NEW r \in Requests, NEW m \in Milestones, AddMilestoneRow(r, m)
    PROVE  RowsStep
<1>1. CASE UNCHANGED milestone
  BY <1>1, RowsQuiet DEF AddMilestoneRow
<1>2. CASE ~UNCHANGED milestone
  <2>1. PICK c \in Cycles, n \in Orders :
           /\ NumberFree(c, n, {})
           /\ milestone' = [milestone EXCEPT ![m] = [state |-> "LIVE", cycle |-> c, order |-> n]]
    BY <1>2, ContinuationType DEF AddMilestoneRow, At, Inv
  <2>2. milestone[m].state = "NEW" /\ UNCHANGED <<cycle, batch, progress, reached, listing>>
    BY DEF AddMilestoneRow
  <2>3. milestone' \in [Milestones -> MilestoneRow]
    BY <2>1, OrderAssumption
       DEF Inv, TypeOK, MilestoneRow, RowState, Orders
  <2>4. \A k \in Milestones \ {m} : milestone'[k] = milestone[k]
    BY <2>1 DEF Inv, TypeOK
  <2>5. milestone'[m] = [state |-> "LIVE", cycle |-> c, order |-> n]
    BY <2>1 DEF Inv, TypeOK
  <2>6. \A k \in Milestones \ {m} :
           Live(k) /\ milestone[k].cycle = c => milestone[k].order # n
    BY <2>1 DEF NumberFree, MilestonesOf
  <2>7. NumbersDiffer'
    BY <2>4, <2>5, <2>6 DEF NumbersDiffer, Live, Inv, RowsInv
  <2>8. LiveNumbered'
    BY <2>1, <2>4, <2>5 DEF LiveNumbered, Live, Inv, RowsInv
  <2> QED
    BY <2>2, <2>3, <2>4, <2>5, <2>7, <2>8, MilestonesGrow DEF Live
<1> QED
  BY <1>1, <1>2

LEMMA ReorderGrows ==
    ASSUME Inv, NEW r \in Requests, ReorderRow(r)
    PROVE  RowsStep
<1>1. CASE UNCHANGED milestone
  BY <1>1, RowsQuiet DEF ReorderRow
<1>2. CASE ~UNCHANGED milestone
  <2>1. PICK m \in Milestones, n \in Orders :
           /\ Live(m) /\ NumberFree(milestone[m].cycle, n, {m})
           /\ milestone' = [milestone EXCEPT ![m] = [milestone[m] EXCEPT !.order = n]]
    BY <1>2, ContinuationType DEF ReorderRow, At, Inv, TypeOK
  <2>2. UNCHANGED <<cycle, batch, progress, reached, listing>>
    BY DEF ReorderRow
  <2>3. milestone[m] \in MilestoneRow /\ n \in 0..MaxOrder
    BY OrderAssumption DEF Inv, TypeOK, MilestoneRow, Orders
  <2>4. /\ [milestone[m] EXCEPT !.order = n] \in MilestoneRow
        /\ [milestone[m] EXCEPT !.order = n].state = milestone[m].state
        /\ [milestone[m] EXCEPT !.order = n].cycle = milestone[m].cycle
        /\ [milestone[m] EXCEPT !.order = n].order = n
    BY <2>3 DEF MilestoneRow
  <2>5. /\ milestone'[m] = [milestone[m] EXCEPT !.order = n]
        /\ \A k \in Milestones \ {m} : milestone'[k] = milestone[k]
        /\ milestone' \in [Milestones -> MilestoneRow]
    BY <2>1, <2>4 DEF Inv, TypeOK, MilestoneRow
  <2>6. \A k \in Milestones \ {m} :
           Live(k) /\ milestone[k].cycle = milestone[m].cycle => milestone[k].order # n
    BY <2>1 DEF NumberFree, MilestonesOf
  <2>7. NumbersDiffer'
    <3> SUFFICES ASSUME NEW k \in Milestones, NEW l \in Milestones,
                        Live(k)', Live(l)', milestone'[k].cycle = milestone'[l].cycle,
                        milestone'[k].order = milestone'[l].order, k # l
                 PROVE  FALSE
      BY DEF NumbersDiffer
    <3>1. /\ Live(k) /\ Live(l) /\ milestone[k].cycle = milestone[l].cycle
      BY <2>4, <2>5 DEF Live
    <3>2. CASE k # m /\ l # m
      BY <2>5, <3>1, <3>2 DEF NumbersDiffer, Inv, RowsInv
    <3>3. CASE k = m
      BY <2>4, <2>5, <2>6, <3>1, <3>3
    <3>4. CASE l = m
      BY <2>4, <2>5, <2>6, <3>1, <3>4
    <3> QED
      BY <3>2, <3>3, <3>4
  <2>8. LiveNumbered'
    BY <2>1, <2>4, <2>5 DEF LiveNumbered, Live, Inv, RowsInv
  <2> QED
    BY <2>2, <2>4, <2>5, <2>7, <2>8, MilestonesGrow DEF Live
<1> QED
  BY <1>1, <1>2

LEMMA RemoveMilestoneGrows ==
    ASSUME Inv, NEW r \in Requests, RemoveMilestoneRow(r)
    PROVE  RowsStep
<1>1. CASE UNCHANGED milestone
  BY <1>1, RowsQuiet DEF RemoveMilestoneRow
<1>2. CASE ~UNCHANGED milestone
  <2>1. PICK m \in Milestones :
           /\ ~InUse(m)
           /\ milestone' = [milestone EXCEPT ![m] = [milestone[m] EXCEPT !.state = "DELETED"]]
    BY <1>2, ContinuationType DEF RemoveMilestoneRow, At, Inv, TypeOK
  <2>2. UNCHANGED <<cycle, batch, progress, reached, listing>>
    BY DEF RemoveMilestoneRow
  <2>3. milestone[m] \in MilestoneRow
    BY DEF Inv, TypeOK, MilestoneRow
  <2>4. /\ [milestone[m] EXCEPT !.state = "DELETED"] \in MilestoneRow
        /\ [milestone[m] EXCEPT !.state = "DELETED"].state = "DELETED"
        /\ [milestone[m] EXCEPT !.state = "DELETED"].cycle = milestone[m].cycle
    BY <2>3 DEF MilestoneRow, RowState
  <2>5. /\ milestone'[m] = [milestone[m] EXCEPT !.state = "DELETED"]
        /\ \A k \in Milestones \ {m} : milestone'[k] = milestone[k]
        /\ milestone' \in [Milestones -> MilestoneRow]
    BY <2>1, <2>4 DEF Inv, TypeOK, MilestoneRow
  <2>6. NumbersDiffer'
    <3>1. \A k \in Milestones : Live(k)' => Live(k) /\ milestone'[k] = milestone[k]
      BY <2>4, <2>5 DEF Live
    <3> QED
      BY <3>1 DEF NumbersDiffer, Inv, RowsInv
  <2>7. LiveNumbered'
    BY <2>4, <2>5 DEF LiveNumbered, Live, Inv, RowsInv
  <2> QED
    BY <2>1, <2>2, <2>4, <2>5, <2>6, <2>7, MilestonesGrow DEF Live
<1> QED
  BY <1>1, <1>2

LEMMA RemoveCycleGrows ==
    ASSUME Inv, NEW r \in Requests, RemoveCycleTx(r)
    PROVE  RowsStep
<1>1. CASE UNCHANGED <<cycle, milestone, batch>>
  BY <1>1, RowsQuiet DEF RemoveCycleTx
<1>2. CASE ~UNCHANGED <<cycle, milestone, batch>>
  <2>1. PICK c \in Cycles :
           /\ \A m \in MilestonesOf(c) : ~InUse(m)
           /\ milestone' = [m \in Milestones |->
                 IF m \in MilestonesOf(c) THEN [milestone[m] EXCEPT !.state = "DELETED"]
                 ELSE milestone[m]]
           /\ cycle' = [cycle EXCEPT ![c] = "DELETED"]
           /\ batch' = [b \in Batches |->
                 IF batch[b].cycle = c THEN [batch[b] EXCEPT !.cycle = None] ELSE batch[b]]
    BY <1>2, ContinuationType DEF RemoveCycleTx, At, Inv
  <2>2. UNCHANGED <<progress, reached, listing>>
    BY DEF RemoveCycleTx
  <2>3. ASSUME NEW m \in Milestones
        PROVE  /\ milestone'[m] \in MilestoneRow
               /\ milestone'[m].cycle = milestone[m].cycle
               /\ milestone'[m].order = milestone[m].order
               /\ milestone'[m].state \in {milestone[m].state, "DELETED"}
               /\ m \notin MilestonesOf(c) => milestone'[m] = milestone[m]
    BY <2>1 DEF Inv, TypeOK, MilestoneRow, RowState
  <2>4. ASSUME NEW b \in Batches
        PROVE  /\ batch'[b] \in BatchRow
               /\ batch'[b].planted = batch[b].planted
               /\ batch'[b].current = batch[b].current
               /\ batch'[b].harvested = batch[b].harvested
               /\ batch[b].cycle # c => batch'[b] = batch[b]
    BY <2>1 DEF Inv, TypeOK, BatchRow
  <2>5. /\ cycle' \in [Cycles -> RowState]
        /\ \A d \in Cycles \ {c} : cycle'[d] = cycle[d]
    BY <2>1 DEF Inv, TypeOK, RowState
  <2>6. TemplateKept'
    <3> SUFFICES ASSUME NEW b \in Batches, NEW m \in Tracked(b)
                 PROVE  /\ Live(m)' /\ milestone'[m].cycle = batch'[b].cycle
                        /\ batch'[b].cycle # None /\ cycle'[batch'[b].cycle] = "LIVE"
      BY <2>2 DEF TemplateKept, Tracked
    <3>1. /\ Live(m) /\ milestone[m].cycle = batch[b].cycle
          /\ batch[b].cycle # None /\ cycle[batch[b].cycle] = "LIVE"
      BY DEF Inv, RowsInv, TemplateKept
    <3>2. m \in Milestones /\ batch[b].cycle \in Cycles
      BY <3>1, SnapshotType DEF Inv, TypeOK, Tracked
    <3>3. InUse(m)
      BY DEF InUse
    <3>4. m \notin MilestonesOf(c) /\ batch[b].cycle # c
      BY <2>1, <3>1, <3>2, <3>3 DEF MilestonesOf
    <3> QED
      BY <2>3, <2>4, <2>5, <3>1, <3>2, <3>4 DEF Live
  <2>7. NumbersDiffer' /\ LiveNumbered'
    BY <2>3 DEF NumbersDiffer, LiveNumbered, Live, Inv, RowsInv
  <2>8. RowTypes'
    <3>1. milestone' \in [Milestones -> MilestoneRow] /\ batch' \in [Batches -> BatchRow]
      BY <2>1, <2>3, <2>4
    <3> QED
      BY <2>2, <2>5, <3>1 DEF RowTypes, Inv, TypeOK
  <2>9. RowsGrow
    BY <2>2, <2>3, <2>4 DEF RowsGrow
  <2> QED
    BY <2>2, <2>4, <2>6, <2>7, <2>8, <2>9
       DEF RowsStep, RowsInv, Inv, OneStagePerNumber, BatchShape, ReachedPrefix,
           GrownBeforeSold, TimelineShown, Tracked
<1> QED
  BY <1>1, <1>2

-------------------------------------------------------------------------------
(* The steps that write: batches and listings *)

LEMMA PlantGrows ==
    ASSUME Inv, NEW r \in Requests, NEW b \in Batches, PlantTx(r, b)
    PROVE  RowsStep
<1>1. CASE UNCHANGED <<batch, progress>>
  BY <1>1, RowsQuiet DEF PlantTx
<1>2. CASE ~UNCHANGED <<batch, progress>>
  <2>1. PICK c \in Cycles, s \in Snapshots :
           /\ c = req[r].cycle /\ s = req[r].snapshot
           /\ cycle[c] = "LIVE" /\ \A m \in DOMAIN s : Live(m)
           /\ batch' = [batch EXCEPT ![b] = [planted |-> TRUE, cycle |-> c,
                                             current |-> 0, harvested |-> FALSE]]
           /\ progress' = [progress EXCEPT ![b] = s]
    BY <1>2, ContinuationType DEF PlantTx, At, Inv
  <2>2. ~batch[b].planted /\ UNCHANGED <<cycle, milestone, reached, listing>>
    BY DEF PlantTx
  <2>3. /\ Template(s, c)
        /\ \A m \in DOMAIN s : m \in Milestones /\ s[m] \in Orders
    BY <2>1, SnapshotType DEF Inv, Sound, PlantTx, At
  <2>4. /\ batch' \in [Batches -> BatchRow]
        /\ progress' \in [Batches -> Snapshots]
        /\ progress'[b] = s
        /\ batch'[b] = [planted |-> TRUE, cycle |-> c, current |-> 0, harvested |-> FALSE]
        /\ \A a \in Batches \ {b} : batch'[a] = batch[a] /\ progress'[a] = progress[a]
    BY <2>1, OrderAssumption DEF Inv, TypeOK, BatchRow
  <2>5. reached[b] = {} /\ listing[b] = "NONE"
    BY <2>2 DEF Inv, RowsInv, BatchShape
  <2>6. OneStagePerNumber'
    BY <2>3, <2>4 DEF OneStagePerNumber, Template, Tracked, Inv, RowsInv
  <2>7. BatchShape'
    BY <2>2, <2>4, <2>5 DEF BatchShape, Tracked, Inv, RowsInv
  <2>8. ReachedPrefix'
    <3> SUFFICES ASSUME NEW a \in Batches, NEW m \in Tracked(a)',
                        progress'[a][m] <= batch'[a].current
                 PROVE  m \in reached[a]
      BY <2>2 DEF ReachedPrefix
    <3>1. CASE a = b
      BY <2>3, <2>4, <3>1 DEF Orders, Tracked
    <3>2. CASE a # b
      BY <2>4, <3>2 DEF ReachedPrefix, Tracked, Inv, RowsInv
    <3> QED
      BY <3>1, <3>2
  <2>9. GrownBeforeSold'
    BY <2>2, <2>4, <2>5 DEF GrownBeforeSold, TimelineShown, Tracked, Inv, RowsInv
  <2>10. TemplateKept'
    <3> SUFFICES ASSUME NEW a \in Batches, NEW m \in Tracked(a)'
                 PROVE  /\ Live(m) /\ milestone[m].cycle = batch'[a].cycle
                        /\ batch'[a].cycle # None /\ cycle[batch'[a].cycle] = "LIVE"
      BY <2>2 DEF TemplateKept, Live
    <3>1. CASE a = b
      BY <2>1, <2>3, <2>4, <3>1, NoneAssumption DEF Template, Tracked
    <3>2. CASE a # b
      BY <2>4, <3>2 DEF TemplateKept, Tracked, Inv, RowsInv
    <3> QED
      BY <3>1, <3>2
  <2>11. RowTypes' /\ RowsGrow /\ NumbersDiffer' /\ LiveNumbered'
    BY <2>2, <2>4 DEF RowTypes, RowsGrow, NumbersDiffer, LiveNumbered, Live, Inv, RowsInv, TypeOK,
                      MilestoneRow
  <2> QED
    BY <2>6, <2>7, <2>8, <2>9, <2>10, <2>11 DEF RowsStep, RowsInv
<1> QED
  BY <1>1, <1>2

\* The current number becomes that of a milestone all of whose predecessors are reached.
LEMMA AdvanceGrows ==
    ASSUME Inv, NEW r \in Requests, AdvanceTx(r)
    PROVE  RowsStep
<1>1. PICK b \in Batches, m \in Milestones :
         /\ b = req[r].batch /\ m = req[r].milestone
         /\ reached' = [reached EXCEPT ![b] = reached[b] \cup {m}]
         /\ batch' = [batch EXCEPT ![b] = [batch[b] EXCEPT !.current = progress[b][m]]]
  BY ContinuationType DEF AdvanceTx, At, Inv
<1>2. UNCHANGED <<cycle, milestone, progress, listing>>
  BY DEF AdvanceTx
<1>3. NextFor(b, m)
  BY <1>1 DEF AdvanceTx, At, Inv, Sound
<1>4. \A k \in Tracked(b) : progress[b][k] \in Orders
  BY SnapshotType DEF Inv, TypeOK, Tracked
<1>5. m \in Tracked(b) /\ progress[b][m] \in 0..MaxOrder
  BY <1>3, <1>4, OrderAssumption DEF NextFor, Orders
<1>6. batch[b] \in BatchRow
  BY DEF Inv, TypeOK, BatchRow
<1>7. /\ [batch[b] EXCEPT !.current = progress[b][m]] \in BatchRow
      /\ [batch[b] EXCEPT !.current = progress[b][m]].current = progress[b][m]
      /\ [batch[b] EXCEPT !.current = progress[b][m]].planted = batch[b].planted
      /\ [batch[b] EXCEPT !.current = progress[b][m]].cycle = batch[b].cycle
      /\ [batch[b] EXCEPT !.current = progress[b][m]].harvested = batch[b].harvested
  BY <1>5, <1>6 DEF BatchRow
<1>8. /\ batch' \in [Batches -> BatchRow]
      /\ batch'[b].current = progress[b][m]
      /\ \A a \in Batches : /\ batch'[a].planted = batch[a].planted
                            /\ batch'[a].cycle = batch[a].cycle
                            /\ batch'[a].harvested = batch[a].harvested
                            /\ a # b => batch'[a].current = batch[a].current
  BY <1>1, <1>7 DEF Inv, TypeOK, BatchRow
<1>9. /\ reached' \in [Batches -> SUBSET Milestones]
      /\ reached'[b] = reached[b] \cup {m}
      /\ \A a \in Batches : reached[a] \subseteq reached'[a]
      /\ \A a \in Batches \ {b} : reached'[a] = reached[a]
  BY <1>1 DEF Inv, TypeOK
<1>10. BatchShape'
  BY <1>2, <1>3, <1>5, <1>8, <1>9 DEF BatchShape, NextFor, Tracked, Inv, RowsInv
<1>11. ReachedPrefix'
  <2> SUFFICES ASSUME NEW a \in Batches, NEW k \in Tracked(a),
                      progress[a][k] <= batch'[a].current
               PROVE  k \in reached'[a]
    BY <1>2 DEF ReachedPrefix, Tracked
  <2>1. CASE a # b
    BY <1>8, <1>9, <2>1 DEF ReachedPrefix, Inv, RowsInv
  <2>2. CASE a = b
    <3>1. progress[b][k] <= progress[b][m]
      BY <1>8, <2>2
    <3>2. progress[b][k] \in Int /\ progress[b][m] \in Int
      BY <1>4, <1>5, <2>2 DEF Orders
    <3>3. CASE progress[b][k] = progress[b][m]
      BY <1>5, <1>9, <2>2, <3>3 DEF OneStagePerNumber, Inv, RowsInv
    <3>4. CASE progress[b][k] < progress[b][m]
      BY <1>3, <1>9, <2>2, <3>4 DEF NextFor
    <3> QED
      BY <3>1, <3>2, <3>3, <3>4
  <2> QED
    BY <2>1, <2>2
<1>12. GrownBeforeSold'
  <2> SUFFICES ASSUME NEW a \in Batches,
                      listing[a] # "NONE" \/ batch[a].harvested \/ TimelineShown(a)
               PROVE  reached'[a] = Tracked(a)
    BY <1>2, <1>8 DEF GrownBeforeSold, TimelineShown, Tracked
  <2>1. reached[a] = Tracked(a)
    BY DEF GrownBeforeSold, Inv, RowsInv
  <2> QED
    BY <1>5, <1>9, <2>1
<1>13. OneStagePerNumber' /\ NumbersDiffer' /\ LiveNumbered'
  BY <1>2 DEF OneStagePerNumber, NumbersDiffer, LiveNumbered, Tracked, Live, Inv, RowsInv
<1>14. TemplateKept'
  BY <1>2, <1>8 DEF TemplateKept, Live, Tracked, Inv, RowsInv
<1>15. RowTypes' /\ RowsGrow
  BY <1>2, <1>8, <1>9 DEF RowTypes, RowsGrow, Inv, TypeOK, MilestoneRow
<1> QED
  BY <1>10, <1>11, <1>12, <1>13, <1>14, <1>15 DEF RowsStep, RowsInv

LEMMA HarvestGrows ==
    ASSUME Inv, NEW r \in Requests, HarvestTx(r)
    PROVE  RowsStep
<1>1. CASE UNCHANGED <<batch, listing>>
  BY <1>1, RowsQuiet DEF HarvestTx
<1>2. CASE ~UNCHANGED <<batch, listing>>
  <2>1. PICK b \in Batches :
           /\ b = req[r].batch
           /\ batch' = [batch EXCEPT ![b] = [batch[b] EXCEPT !.harvested = TRUE]]
           /\ listing' = [listing EXCEPT ![b] = "PUBLISHED"]
    BY <1>2, ContinuationType DEF HarvestTx, At, Inv
  <2>2. UNCHANGED <<cycle, milestone, progress, reached>>
    BY DEF HarvestTx
  <2>3. Grown(b)
    BY <2>1 DEF HarvestTx, At, Inv, Sound
  <2>4. batch[b] \in BatchRow
    BY DEF Inv, TypeOK, BatchRow
  <2>5. /\ [batch[b] EXCEPT !.harvested = TRUE] \in BatchRow
        /\ [batch[b] EXCEPT !.harvested = TRUE].current = batch[b].current
        /\ [batch[b] EXCEPT !.harvested = TRUE].planted = batch[b].planted
        /\ [batch[b] EXCEPT !.harvested = TRUE].cycle = batch[b].cycle
    BY <2>4 DEF BatchRow
  <2>6. /\ batch' \in [Batches -> BatchRow]
        /\ \A a \in Batches : /\ batch'[a].planted = batch[a].planted
                              /\ batch'[a].cycle = batch[a].cycle
                              /\ batch'[a].current = batch[a].current
                              /\ a # b => batch'[a].harvested = batch[a].harvested
    BY <2>1, <2>5 DEF Inv, TypeOK, BatchRow
  <2>7. /\ listing' \in [Batches -> ListingState]
        /\ \A a \in Batches \ {b} : listing'[a] = listing[a]
    BY <2>1 DEF Inv, TypeOK, ListingState
  <2>8. BatchShape'
    BY <2>2, <2>3, <2>6, <2>7 DEF BatchShape, Grown, Tracked, Inv, RowsInv
  <2>9. GrownBeforeSold'
    BY <2>2, <2>3, <2>6, <2>7
       DEF GrownBeforeSold, TimelineShown, Grown, Tracked, Inv, RowsInv
  <2>10. OneStagePerNumber' /\ NumbersDiffer' /\ LiveNumbered'
    BY <2>2 DEF OneStagePerNumber, NumbersDiffer, LiveNumbered, Tracked, Live, Inv, RowsInv
  <2>11. TemplateKept' /\ ReachedPrefix'
    BY <2>2, <2>6 DEF TemplateKept, ReachedPrefix, Live, Tracked, Inv, RowsInv
  <2>12. RowTypes' /\ RowsGrow
    BY <2>2, <2>6, <2>7 DEF RowTypes, RowsGrow, Inv, TypeOK, MilestoneRow
  <2> QED
    BY <2>8, <2>9, <2>10, <2>11, <2>12 DEF RowsStep, RowsInv
<1> QED
  BY <1>1, <1>2

LEMMA DraftGrows ==
    ASSUME Inv, NEW r \in Requests, DraftRow(r)
    PROVE  RowsStep
<1>1. CASE UNCHANGED listing
  BY <1>1, RowsQuiet DEF DraftRow
<1>2. CASE ~UNCHANGED listing
  <2>1. PICK b \in Batches :
           b = req[r].batch /\ listing' = [listing EXCEPT ![b] = "DRAFT"]
    BY <1>2, ContinuationType DEF DraftRow, At, Inv
  <2>2. UNCHANGED <<cycle, milestone, batch, progress, reached>>
    BY DEF DraftRow
  <2>3. Grown(b)
    BY <2>1 DEF DraftRow, At, Inv, Sound
  <2>4. /\ listing' \in [Batches -> ListingState]
        /\ \A a \in Batches \ {b} : listing'[a] = listing[a]
    BY <2>1 DEF Inv, TypeOK, ListingState
  <2>5. BatchShape' /\ GrownBeforeSold'
    BY <2>2, <2>3, <2>4
       DEF BatchShape, GrownBeforeSold, TimelineShown, Grown, Tracked, Inv, RowsInv
  <2>6. OneStagePerNumber' /\ NumbersDiffer' /\ LiveNumbered' /\ TemplateKept' /\ ReachedPrefix'
    BY <2>2 DEF OneStagePerNumber, NumbersDiffer, LiveNumbered, TemplateKept, ReachedPrefix, Tracked,
                Live, Inv, RowsInv
  <2>7. RowTypes' /\ RowsGrow
    BY <2>2, <2>4 DEF RowTypes, RowsGrow, Inv, TypeOK, MilestoneRow, BatchRow
  <2> QED
    BY <2>5, <2>6, <2>7 DEF RowsStep, RowsInv
<1> QED
  BY <1>1, <1>2

-------------------------------------------------------------------------------
(* The steps that read: what the checks of a handler establish *)

\* A request that has read goes on, and no row changes.
LEMMA ReadsOn ==
    ASSUME Inv, described' \subseteq Batches, undescribed' \subseteq Batches,
           UNCHANGED rows, NEW r \in Requests, NEW cont \in Continuations,
           Becomes(r, cont), Sound(cont)
    PROVE  Inv'
<1>1. RowsStep
  BY RowsQuiet DEF rows
<1>2. Sound(cont)'
  BY DEF rows, Sound, Template, NextFor, Grown, Tracked
<1> QED
  BY <1>1, <1>2, MovesOn

LEMMA SnapshotSound ==
    ASSUME Inv, NEW c \in Cycles
    PROVE  LET s == [m \in MilestonesOf(c) |-> milestone[m].order]
           IN  s \in Snapshots /\ Template(s, c)
<1> DEFINE s == [m \in MilestonesOf(c) |-> milestone[m].order]
<1>1. PICK S \in SUBSET Milestones : S = MilestonesOf(c)
  BY DEF MilestonesOf
<1>2. \A m \in S : milestone[m].order \in Orders
  <2>1. \A m \in Milestones : Live(m) => milestone[m].order \in Orders
    BY DEF Inv, RowsInv, LiveNumbered
  <2> QED
    BY <1>1, <2>1 DEF MilestonesOf
<1>3. s \in [S -> Orders]
  BY <1>1, <1>2
<1>4. s \in Snapshots
  BY <1>3 DEF Snapshots
<1>5. Template(s, c)
  BY <1>1 DEF Template, MilestonesOf, NumbersDiffer, Live, Inv, RowsInv
<1> QED
  BY <1>4, <1>5

LEMMA FinishedGrown ==
    ASSUME Inv, NEW b \in Batches, batch[b].planted, Finished(b)
    PROVE  Grown(b)
  BY DEF Grown, Finished, Inv, RowsInv, ReachedPrefix, BatchShape

\* The milestone that follows the current one: what precedes it is not beyond the
\* current number.
LEMMA FollowingNext ==
    ASSUME Inv, NEW b \in Batches, NEW m \in Tracked(b), batch[b].planted, Following(b, m)
    PROVE  NextFor(b, m)
<1>1. \A k \in Tracked(b) : progress[b][k] \in Int
  BY SnapshotType DEF Inv, TypeOK, Tracked, Orders
<1>2. batch[b].current \in Int
  BY DEF Inv, TypeOK
<1>3. ASSUME NEW k \in Tracked(b), progress[b][k] < progress[b][m] PROVE k \in reached[b]
  <2>1. progress[b][k] <= batch[b].current
    BY <1>1, <1>2, <1>3 DEF Following
  <2> QED
    BY <2>1 DEF Inv, RowsInv, ReachedPrefix
<1> QED
  BY <1>3 DEF NextFor

LEMMA ObserveType ==
    ASSUME Inv, NEW r \in Requests, Handle(r), Observe
    PROVE  described' \subseteq Batches /\ undescribed' \subseteq Batches
<1>1. undescribed' \subseteq Batches
  BY DEF Observe, Inv, TypeOK
<1>2. CASE UNCHANGED described
  BY <1>1, <1>2 DEF Inv, TypeOK
<1>3. CASE WriteContent(r)
  BY <1>1, <1>3, ContinuationType DEF WriteContent, At, Inv, TypeOK
<1>4. CASE ~WriteContent(r)
  BY <1>2, <1>4
     DEF Handle, rows, StartAddMilestone, AddMilestoneRow, StartReorder, ReorderRow,
         StartRemoveMilestone, RemoveMilestoneRow, StartRemoveCycle, StartPlant,
         RemoveCycleTx, PlantTx, StartHarvest, StartDraft, StartAdvance, AdvanceTx,
         HarvestTx, DraftRow, Answer, Abort
<1> QED
  BY <1>3, <1>4

\* The end of a request.
LEMMA EndsSound ==
    ASSUME Inv, RowsStep, described' \subseteq Batches, undescribed' \subseteq Batches,
           NEW r \in Requests, Becomes(r, Idle) \/ Becomes(r, Failed)
    PROVE  Inv'
<1>1. Sound(Idle)' /\ Sound(Failed)'
  BY DEF Sound, Idle, Failed
<1> QED
  BY <1>1, MovesOn, ContinuationsContain

-------------------------------------------------------------------------------
(* The invariant *)

LEMMA InvInit == Init => Inv
<1> SUFFICES ASSUME Init PROVE Inv
  OBVIOUS
<1>1. \A b \in Batches : progress[b] \in [{} -> Orders] /\ Tracked(b) = {}
  BY DEF Init, Tracked
<1>2. progress \in [Batches -> Snapshots]
  <2>1. [m \in {} |-> 0] \in [{} -> Orders]
    OBVIOUS
  <2>2. [m \in {} |-> 0] \in Snapshots
    BY <2>1 DEF Snapshots
  <2> QED
    BY <2>2 DEF Init
<1>3. TypeOK
  BY <1>2, OrderAssumption, ContinuationsContain
     DEF TypeOK, Init, RowState, ListingState
<1>4. RowsInv
  BY <1>1 DEF RowsInv, Init, NumbersDiffer, LiveNumbered, OneStagePerNumber, BatchShape,
              ReachedPrefix, GrownBeforeSold, TimelineShown, TemplateKept, Live
<1>5. \A r \in Requests : Sound(req[r])
  BY DEF Init, Sound, Idle
<1> QED
  BY <1>3, <1>4, <1>5 DEF Inv

LEMMA ReadStep ==
    ASSUME Inv, NEW r \in Requests, UNCHANGED rows,
           described' \subseteq Batches, undescribed' \subseteq Batches
    PROVE  /\ \A c \in Cycles, n \in Orders : StartAddMilestone(r, c, n) => Inv'
           /\ \A m \in Milestones, n \in Orders : StartReorder(r, m, n) => Inv'
           /\ \A m \in Milestones : StartRemoveMilestone(r, m) => Inv'
           /\ \A c \in Cycles : StartRemoveCycle(r, c) \/ StartPlant(r, c) => Inv'
           /\ \A b \in Batches : StartHarvest(r, b) \/ StartDraft(r, b) => Inv'
           /\ \A b \in Batches, m \in Milestones : StartAdvance(r, b, m) => Inv'
           /\ Answer(r) \/ Abort(r) => Inv'
<1>1. ASSUME NEW c \in Cycles, NEW n \in Orders, StartAddMilestone(r, c, n) PROVE Inv'
  <2>1. Sound([pc |-> "addMilestone", cycle |-> c, order |-> n])
    BY DEF Sound
  <2> QED
    BY <1>1, <2>1, ReadsOn, ContinuationsContain DEF StartAddMilestone
<1>2. ASSUME NEW m \in Milestones, NEW n \in Orders, StartReorder(r, m, n) PROVE Inv'
  <2>1. Sound([pc |-> "reorder", milestone |-> m, order |-> n])
    BY DEF Sound
  <2> QED
    BY <1>2, <2>1, ReadsOn, ContinuationsContain DEF StartReorder
<1>3. ASSUME NEW m \in Milestones, StartRemoveMilestone(r, m) PROVE Inv'
  <2>1. Sound([pc |-> "removeMilestone", milestone |-> m])
    BY DEF Sound
  <2> QED
    BY <1>3, <2>1, ReadsOn, ContinuationsContain DEF StartRemoveMilestone
<1>4. ASSUME NEW c \in Cycles, StartRemoveCycle(r, c) PROVE Inv'
  <2>1. Sound([pc |-> "removeCycle", cycle |-> c])
    BY DEF Sound
  <2> QED
    BY <1>4, <2>1, ReadsOn, ContinuationsContain DEF StartRemoveCycle
<1>5. ASSUME NEW c \in Cycles, StartPlant(r, c) PROVE Inv'
  <2>1. PICK s \in Snapshots :
           Template(s, c) /\ Becomes(r, [pc |-> "plant", cycle |-> c, snapshot |-> s])
    BY <1>5, SnapshotSound DEF StartPlant
  <2>2. Sound([pc |-> "plant", cycle |-> c, snapshot |-> s])
    BY <2>1 DEF Sound
  <2> QED
    BY <2>1, <2>2, ReadsOn, ContinuationsContain
<1>6. ASSUME NEW b \in Batches, StartHarvest(r, b) PROVE Inv'
  <2>1. Sound([pc |-> "harvest", batch |-> b])
    BY <1>6, FinishedGrown DEF StartHarvest, Sound
  <2> QED
    BY <1>6, <2>1, ReadsOn, ContinuationsContain DEF StartHarvest
<1>7. ASSUME NEW b \in Batches, StartDraft(r, b) PROVE Inv'
  <2>1. Sound([pc |-> "draft", batch |-> b])
    BY <1>7, FinishedGrown DEF StartDraft, Sound
  <2> QED
    BY <1>7, <2>1, ReadsOn, ContinuationsContain DEF StartDraft
<1>8. ASSUME NEW b \in Batches, NEW m \in Milestones, StartAdvance(r, b, m) PROVE Inv'
  <2>1. Sound([pc |-> "advance", batch |-> b, milestone |-> m])
    BY <1>8, FollowingNext DEF StartAdvance, Sound
  <2> QED
    BY <1>8, <2>1, ReadsOn, ContinuationsContain DEF StartAdvance
<1>9. ASSUME Answer(r) \/ Abort(r) PROVE Inv'
  <2>1. RowsStep
    BY RowsQuiet DEF rows
  <2> QED
    BY <1>9, <2>1, EndsSound DEF Answer, Abort
<1> QED
  BY <1>1, <1>2, <1>3, <1>4, <1>5, <1>6, <1>7, <1>8, <1>9

\* A draft that was inserted goes on to the content of its listing.
LEMMA DraftOn ==
    ASSUME Inv, NEW r \in Requests, DraftRow(r),
           described' \subseteq Batches, undescribed' \subseteq Batches
    PROVE  Inv'
<1>1. RowsStep
  BY DraftGrows
<1>2. CASE Becomes(r, Failed)
  BY <1>1, <1>2, EndsSound
<1>3. CASE ~Becomes(r, Failed)
  <2>1. PICK b \in Batches : b = req[r].batch /\ Becomes(r, [pc |-> "content", batch |-> b])
    BY <1>3, ContinuationType DEF DraftRow, At, Inv
  <2>2. reached'[b] = Tracked(b)' /\ batch'[b].planted
    BY <2>1 DEF DraftRow, At, Inv, Sound, Grown, Tracked
  <2>3. Sound([pc |-> "content", batch |-> b])'
    BY <2>2 DEF Sound, Grown, Tracked
  <2> QED
    BY <1>1, <2>1, <2>3, MovesOn, ContinuationsContain
<1> QED
  BY <1>2, <1>3

LEMMA HandleStep ==
    ASSUME Inv, Observe, NEW r \in Requests, Handle(r)
    PROVE  Inv'
<1>0. described' \subseteq Batches /\ undescribed' \subseteq Batches
  BY ObserveType
<1> USE <1>0
<1>1. ASSUME UNCHANGED rows,
             \/ \E c \in Cycles, n \in Orders : StartAddMilestone(r, c, n)
             \/ \E m \in Milestones, n \in Orders : StartReorder(r, m, n)
             \/ \E m \in Milestones : StartRemoveMilestone(r, m)
             \/ \E c \in Cycles : StartRemoveCycle(r, c) \/ StartPlant(r, c)
             \/ \E b \in Batches : StartHarvest(r, b) \/ StartDraft(r, b)
             \/ \E b \in Batches, m \in Milestones : StartAdvance(r, b, m)
             \/ Answer(r) \/ Abort(r)
      PROVE  Inv'
  BY <1>1, ReadStep
<1>2. ASSUME NEW m \in Milestones, AddMilestoneRow(r, m) PROVE Inv'
  BY <1>2, AddMilestoneGrows, EndsSound DEF AddMilestoneRow
<1>3. CASE ReorderRow(r)
  BY <1>3, ReorderGrows, EndsSound DEF ReorderRow
<1>4. CASE RemoveMilestoneRow(r)
  BY <1>4, RemoveMilestoneGrows, EndsSound DEF RemoveMilestoneRow
<1>5. CASE RemoveCycleTx(r)
  BY <1>5, RemoveCycleGrows, EndsSound DEF RemoveCycleTx
<1>6. ASSUME NEW b \in Batches, PlantTx(r, b) PROVE Inv'
  BY <1>6, PlantGrows, EndsSound DEF PlantTx
<1>7. CASE AdvanceTx(r)
  BY <1>7, AdvanceGrows, EndsSound DEF AdvanceTx
<1>8. CASE HarvestTx(r)
  BY <1>8, HarvestGrows, EndsSound DEF HarvestTx
<1>9. CASE DraftRow(r)
  BY <1>9, DraftOn
<1>10. CASE WriteContent(r)
  <2>1. RowsStep
    BY <1>10, RowsQuiet DEF WriteContent
  <2> QED
    BY <1>10, <2>1, EndsSound DEF WriteContent
<1>11. ASSUME \/ \E c \in Cycles, n \in Orders : StartAddMilestone(r, c, n)
              \/ \E m \in Milestones, n \in Orders : StartReorder(r, m, n)
              \/ \E m \in Milestones : StartRemoveMilestone(r, m)
              \/ \E c \in Cycles : StartRemoveCycle(r, c) \/ StartPlant(r, c)
              \/ \E b \in Batches : StartHarvest(r, b) \/ StartDraft(r, b)
              \/ \E b \in Batches, m \in Milestones : StartAdvance(r, b, m)
              \/ Answer(r) \/ Abort(r)
       PROVE  UNCHANGED rows
  BY <1>11 DEF StartAddMilestone, StartReorder, StartRemoveMilestone, StartRemoveCycle,
               StartPlant, StartHarvest, StartDraft, StartAdvance, Answer, Abort
<1> QED
  BY <1>1, <1>2, <1>3, <1>4, <1>5, <1>6, <1>7, <1>8, <1>9, <1>10, <1>11 DEF Handle

\* A step in which no request moves.
LEMMA NobodyMoves ==
    ASSUME Inv, RowsStep, UNCHANGED req, described' \subseteq Batches,
           undescribed' \subseteq Batches
    PROVE  Inv'
<1>1. TypeOK'
  BY DEF TypeOK, RowsStep, RowTypes, MilestoneRow, BatchRow, Inv
<1> QED
  BY <1>1, StaysSound DEF Inv, RowsStep

LEMMA InvStep == Inv /\ [Next]_vars => Inv'
<1> SUFFICES ASSUME Inv, [Next]_vars PROVE Inv'
  OBVIOUS
<1>1. ASSUME NEW r \in Requests, Handle(r), Observe PROVE Inv'
  BY <1>1, HandleStep
<1>2. Observe => undescribed' \subseteq Batches
  BY DEF Observe, Inv, TypeOK
<1>3. ASSUME NEW c \in Cycles, CreateCycle(c), Observe PROVE Inv'
  <2>1. UNCHANGED req /\ described' \subseteq Batches
    BY <1>3 DEF CreateCycle, Inv, TypeOK
  <2> QED
    BY <1>2, <1>3, <2>1, CreateCycleGrows, NobodyMoves
<1>4. ASSUME NEW b \in Batches, UpdateContent(b), Observe PROVE Inv'
  <2>1. UNCHANGED req /\ described' \subseteq Batches
    BY <1>4 DEF UpdateContent, Inv, TypeOK
  <2>2. RowsStep
    BY <1>4, RowsQuiet DEF UpdateContent
  <2> QED
    BY <1>2, <1>4, <2>1, <2>2, NobodyMoves
<1>5. ASSUME UNCHANGED vars PROVE Inv'
  <2>1. RowsStep /\ UNCHANGED req
    BY <1>5, RowsQuiet DEF vars, rows
  <2>2. described' \subseteq Batches /\ undescribed' \subseteq Batches
    BY <1>5 DEF vars, rows, Inv, TypeOK
  <2> QED
    BY <2>1, <2>2, NobodyMoves
<1> QED
  BY <1>1, <1>3, <1>4, <1>5 DEF Next, Step

\* Every reachable state has the inductive invariant.
LEMMA InvHolds == Spec => []Inv
  BY InvInit, InvStep, PTL DEF Spec

-------------------------------------------------------------------------------
(* Theorems *)

\* Rows and continuations of BatchesService, CyclesService and ListingsService keep
\* their types, whatever requests overlap.
THEOREM GrowingTypeCorrect == Spec => []TypeOK
  BY InvHolds, PTL DEF Inv

\* advanceMilestone never leaves a stage out: a batch has reached every milestone up to
\* its current number, for any number of overlapping advances and renumberings.
THEOREM StagesReached == Spec => []ReachedPrefix
<1>1. Inv => ReachedPrefix
  BY DEF Inv, RowsInv
<1> QED
  BY <1>1, InvHolds, PTL

\* No batch is listed, harvested or shown to buyers before it went through all of its
\* milestones, though ListingsService.createDraftFromBatch and
\* BatchesService.confirmHarvest check that in a statement before the one that writes.
THEOREM SoldWhenGrown == Spec => []GrownBeforeSold
<1>1. Inv => GrownBeforeSold
  BY DEF Inv, RowsInv
<1> QED
  BY <1>1, InvHolds, PTL

\* The cycle and the milestones a batch grows by are never deleted, though the checks of
\* CyclesService.remove and MilestonesService.remove may be overtaken by a planting.
THEOREM TemplateStays == Spec => []TemplateKept
<1>1. Inv => TemplateKept
  BY DEF Inv, RowsInv
<1> QED
  BY <1>1, InvHolds, PTL

\* Only a listing that is not there becomes a draft.
LEMMA PublishedStep ==
    ASSUME TypeOK, [Next]_vars, NEW b \in Batches, listing[b] = "PUBLISHED"
    PROVE  listing'[b] = "PUBLISHED"
<1>1. ASSUME NEW r \in Requests, DraftRow(r) PROVE listing'[b] = "PUBLISHED"
  <2>1. CASE UNCHANGED listing
    BY <2>1
  <2>2. CASE ~UNCHANGED listing
    <3>1. PICK a \in Batches :
             listing[a] = "NONE" /\ listing' = [listing EXCEPT ![a] = "DRAFT"]
      BY <1>1, <2>2, ContinuationType DEF DraftRow, At, SecondDraft
    <3> QED
      BY <3>1 DEF TypeOK
  <2> QED
    BY <2>1, <2>2
<1>2. ASSUME NEW r \in Requests, HarvestTx(r) PROVE listing'[b] = "PUBLISHED"
  <2>1. CASE UNCHANGED listing
    BY <2>1
  <2>2. CASE ~UNCHANGED listing
    <3>1. PICK a \in Batches : listing' = [listing EXCEPT ![a] = "PUBLISHED"]
      BY <1>2, <2>2, ContinuationType DEF HarvestTx, At
    <3> QED
      BY <3>1 DEF TypeOK
  <2> QED
    BY <2>1, <2>2
<1>3. ASSUME NEW r \in Requests, Handle(r), ~DraftRow(r), ~HarvestTx(r)
      PROVE  UNCHANGED listing
  BY <1>3
     DEF Handle, rows, StartAddMilestone, AddMilestoneRow, StartReorder, ReorderRow,
         StartRemoveMilestone, RemoveMilestoneRow, StartRemoveCycle, StartPlant,
         RemoveCycleTx, PlantTx, StartHarvest, StartDraft, StartAdvance, AdvanceTx,
         WriteContent, Answer, Abort
<1>4. ASSUME \/ \E c \in Cycles : CreateCycle(c)
             \/ \E a \in Batches : UpdateContent(a)
             \/ UNCHANGED vars
      PROVE  UNCHANGED listing
  BY <1>4 DEF CreateCycle, UpdateContent, vars, rows
<1> QED
  BY <1>1, <1>2, <1>3, <1>4 DEF Next, Step

\* A published listing is never a draft again: createDraftFromBatch inserts, under the unique
\* index of Listing.batchId, and never updates.
THEOREM PublishedForever == Spec => PublishedStays
<1>1. TypeOK /\ [Next]_vars => [\A b \in Batches :
         listing[b] = "PUBLISHED" => listing'[b] = "PUBLISHED"]_vars
  BY PublishedStep
<1> QED
  BY <1>1, GrowingTypeCorrect, PTL DEF PublishedStays, Spec

\* The description of a listing: while it is to be written, its request is there.
ToDescribe(b) == \E r \in Requests : At(r, "content") /\ req[r].batch = b

LEMMA ContentStays ==
    ASSUME TypeOK, NEW r \in Requests, At(r, "content"), [Next]_vars
    PROVE  req'[r] = req[r] \/ req'[r] = Idle
<1>1. ASSUME NEW s \in Requests, Handle(s)
      PROVE  req'[r] = req[r] \/ req'[r] = Idle
  <2>1. \E cont : Becomes(s, cont)
    BY <1>1 DEF Handle, StartAddMilestone, AddMilestoneRow, StartReorder, ReorderRow,
       StartRemoveMilestone, RemoveMilestoneRow, StartRemoveCycle, RemoveCycleTx, StartPlant,
       PlantTx, StartAdvance, AdvanceTx, StartHarvest, HarvestTx, StartDraft, DraftRow,
       WriteContent, Answer, Abort
  <2>2. CASE s # r
    BY <2>1, <2>2 DEF Becomes, TypeOK
  <2>3. CASE s = r
    <3>1. req[r] # Idle
      BY DEF At, Idle
    <3>2. WriteContent(r) \/ Abort(r)
      BY <1>1, <2>3, <3>1 DEF Handle, StartAddMilestone, AddMilestoneRow, StartReorder,
         ReorderRow, StartRemoveMilestone, RemoveMilestoneRow, StartRemoveCycle, RemoveCycleTx,
         StartPlant, PlantTx, StartAdvance, AdvanceTx, StartHarvest, HarvestTx, StartDraft,
         DraftRow, Answer, At
    <3> QED
      BY <3>2 DEF WriteContent, Abort, Becomes, TypeOK
  <2> QED
    BY <2>2, <2>3
<1>2. CASE UNCHANGED req
  BY <1>2
<1>3. UNCHANGED req \/ \E s \in Requests : Handle(s)
  BY DEF Next, Step, CreateCycle, UpdateContent, vars
<1> QED
  BY <1>1, <1>2, <1>3

LEMMA ListedByDraft ==
    ASSUME TypeOK, NEW b \in Batches, listing[b] = "NONE", listing'[b] # "NONE", [Next]_vars
    PROVE  ToDescribe(b)'
<1>1. PICK r \in Requests : DraftRow(r) \/ HarvestTx(r)
  BY DEF Next, Step, Handle, StartAddMilestone, AddMilestoneRow, StartReorder, ReorderRow,
     StartRemoveMilestone, RemoveMilestoneRow, StartRemoveCycle, RemoveCycleTx, StartPlant,
     PlantTx, StartAdvance, AdvanceTx, StartHarvest, StartDraft, WriteContent, Answer, Abort,
     CreateCycle, UpdateContent, rows, vars
<1>2. PICK a \in Batches : a = req[r].batch
  BY <1>1, ContinuationType DEF DraftRow, HarvestTx, At
<1>3. CASE HarvestTx(r)
  BY <1>2, <1>3 DEF HarvestTx, TypeOK
<1>4. CASE DraftRow(r)
  <2>1. /\ listing' = [listing EXCEPT ![a] = "DRAFT"]
        /\ Becomes(r, [pc |-> "content", batch |-> a])
    BY <1>2, <1>4 DEF DraftRow
  <2>2. a = b
    BY <2>1 DEF TypeOK
  <2>3. req'[r] = [pc |-> "content", batch |-> b]
    BY <2>1, <2>2 DEF Becomes, TypeOK
  <2> QED
    BY <2>3 DEF ToDescribe, At
<1> QED
  BY <1>1, <1>3, <1>4

LEMMA DescribedStep ==
    ASSUME TypeOK, DescribedUnlessDied, [Next]_vars
    PROVE  DescribedUnlessDied'
<1>1. described \subseteq described' /\ undescribed \subseteq undescribed'
  BY DEF Next, Observe, Step, Handle, StartAddMilestone, AddMilestoneRow, StartReorder,
     ReorderRow, StartRemoveMilestone, RemoveMilestoneRow, StartRemoveCycle, RemoveCycleTx,
     StartPlant, PlantTx, StartAdvance, AdvanceTx, StartHarvest, HarvestTx, StartDraft,
     DraftRow, WriteContent, Answer, Abort, CreateCycle, UpdateContent, rows, vars
<1>2. ASSUME NEW b \in Batches, ToDescribe(b)
      PROVE  b \in described' \cup undescribed' \/ ToDescribe(b)'
  <2>1. PICK r \in Requests : At(r, "content") /\ req[r].batch = b
    BY <1>2 DEF ToDescribe
  <2>2. CASE req'[r] = req[r]
    BY <2>1, <2>2 DEF ToDescribe, At
  <2>3. CASE req'[r] = Idle /\ req'[r] # req[r]
    <3>1. Observe
      BY <2>3 DEF Next, vars
    <3> QED
      BY <1>1, <2>1, <2>3, <3>1 DEF Observe
  <2> QED
    BY <2>1, <2>2, <2>3, ContentStays
<1>3. ASSUME NEW b \in Batches, listing'[b] # "NONE"
      PROVE  b \in described' \cup undescribed' \/ ToDescribe(b)'
  <2>1. CASE listing[b] = "NONE"
    BY <1>3, <2>1, ListedByDraft
  <2>2. CASE listing[b] # "NONE"
    <3>1. b \in described \cup undescribed \/ ToDescribe(b)
      BY <2>2 DEF DescribedUnlessDied, ToDescribe
    <3> QED
      BY <1>1, <1>2, <3>1
  <2> QED
    BY <2>1, <2>2
<1> QED
  BY <1>3 DEF DescribedUnlessDied, ToDescribe

\* A listing lacks its description only while its request is about to write it, or when
\* that request died: drafts, harvests and other batches do not come between.
THEOREM DescribedOrDied == Spec => []DescribedUnlessDied
<1>1. Init => DescribedUnlessDied
  BY DEF Init, DescribedUnlessDied
<1>2. TypeOK /\ DescribedUnlessDied /\ [Next]_vars => DescribedUnlessDied'
  BY DescribedStep
<1> QED
  BY <1>1, <1>2, GrowingTypeCorrect, PTL DEF Spec

===============================================================================
