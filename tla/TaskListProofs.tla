--------------------------- MODULE TaskListProofs ---------------------------
(***************************************************************************)
(* Proofs about TaskList for any tasks, requests, callers and bounds: the  *)
(* two sides of links agree, blockers come first, and answers stand.       *)
(***************************************************************************)
EXTENDS TaskList, TLAPS

\* A list that the process may go on with, in memory, in the file or encoded;
\* torn are the links it holds one side of.
Sound(list, torn) ==
  Closed(list) /\ Agree(list, halves \cup torn) /\ InOrder(list, afterStart)

ListsAreSound ==
  raced \/ /\ Sound(items, Half)
           /\ Sound(file.items, file.torn)
           /\ \A c \in Callers : Sound(call[c].list, call[c].torn)

\* What a call that is about to write to the list has read of it still holds,
\* but for the links it has written itself.
CopyHolds(c) ==
  LET id == call[c].id
      item == call[c].item
      half == call[c].half
  IN /\ \A t \in Tasks :
          /\ <<t, id>> \notin half => (t \in item.by <=> t \in items[id].by)
          /\ <<id, t>> \notin half => (t \in item.blocks <=> t \in items[id].blocks)
          /\ t # id /\ <<t, id>> \in half => t \in item.by /\ id \in items[t].blocks
          /\ t # id /\ <<id, t>> \in half => t \in item.blocks /\ id \in items[t].by
     /\ item.by \subseteq Listed(items)
     /\ item.status # "absent"
     /\ \/ id \notin Listed(items) /\ \A d \in Callers \ {c} : call[d].id # id
        \/ id \in Listed(items) /\ Allowed(items[id].status, item.status)
     /\ item.status \in Started =>
          \A b \in item.by : \/ items[b].status = "completed"
                             \/ <<b, id>> \in afterStart \cup half

CopiesHold == raced \/ \A c \in Callers \ behind : At(c, "ready") => CopyHolds(c)

\* The links of a call are its task's, and with tasks of the list; only a call
\* that has yet to write them has any, and only a listed task blocks others.
LinksAreKnown ==
  raced \/ \A c \in Callers :
    /\ call[c].by \cup call[c].blocks \subseteq Listed(items)
    /\ call[c].blocks # {} => call[c].id \in Listed(items)
    /\ \A p \in call[c].half : p[1] = call[c].id \/ p[2] = call[c].id
    /\ At(c, "ready") \/ call[c].by \cup call[c].blocks \cup call[c].half = {}

\* A list has what the call c has done to its task.
Has(list, c) ==
  /\ call[c].id \in Listed(list)
  /\ call[c].item.status \in Terminal => list[call[c].id].status = call[c].item.status

Saving(c) == call[c].at \in {"encoded", "emptied"}

WorkIsKept ==
  raced \/ \A c \in Callers :
    /\ Saving(c) \/ At(c, "applied") => Has(items, c) /\ call[c].item.status # "absent"
    /\ Saving(c) => Has(call[c].list, c)

\* The lists that are not out of date have what was answered.
AnswersKept ==
  raced \/ lost \/
    /\ Stand(answered, items)
    /\ outdated \/ Stand(answered, file.items)
    /\ \A c \in Callers \ overtaken : Saving(c) => Stand(answered, call[c].list)

Inv == TypeOK /\ ListsAreSound /\ CopiesHold /\ LinksAreKnown /\ WorkIsKept /\ AnswersKept
-----------------------------------------------------------------------------
(***************************************************************************)
(* Facts about lists.                                                      *)
(***************************************************************************)
LEMMA TypeFacts ==
  ASSUME TypeOK
  PROVE  /\ items \in [Tasks -> Item]
         /\ file \in [whole : BOOLEAN, items : [Tasks -> Item],
                      torn : SUBSET (Tasks \X Tasks)]
         /\ call \in [Callers -> CallRecord]
         /\ \A c \in Callers : call[c].at = "idle" \/ call[c].id \in Tasks
         /\ calls \in 0..MaxCalls /\ faults \in 0..MaxFaults
         /\ behind \subseteq Callers /\ overtaken \subseteq Callers
         /\ raced \in BOOLEAN /\ outdated \in BOOLEAN /\ lost \in BOOLEAN
         /\ answered \in [Tasks -> Statuses \cup {"absent"}]
         /\ halves \cup afterStart \subseteq Tasks \X Tasks
BY DEF TypeOK, At

\* More links written one side of, and more exceptions.
LEMMA StaysSound ==
  ASSUME NEW list, NEW torn, NEW more, Sound(list, torn), halves \subseteq halves',
         afterStart \subseteq afterStart', torn \subseteq more \cup halves'
  PROVE  Closed(list) /\ Agree(list, halves' \cup more) /\ InOrder(list, afterStart')
BY DEF Sound, Agree, InOrder

LEMMA NoTasksIsSound ==
  /\ NoTasks \in [Tasks -> Item]
  /\ \A h, a : Closed(NoTasks) /\ Agree(NoTasks, h) /\ InOrder(NoTasks, a)
BY DEF NoTasks, NoTask, Item, Closed, Agree, InOrder, Listed, Started

\* The links under way after a step of the call c.
LEMMA HalfOf ==
  ASSUME NEW c \in Callers, \A d \in Callers \ {c} : call'[d] = call[d]
  PROVE  /\ Half \subseteq Half' \cup call[c].half
         /\ Half' \subseteq Half \cup call'[c].half
         /\ call'[c].half \subseteq Half' /\ call[c].half \subseteq Half
BY DEF Half

\* The tasks that are linked before an unknown id are in the list.
LEMMA KnownAreListed ==
  ASSUME NEW ids \in Seq(Ids)
  PROVE  Known(ids) \subseteq Listed(items) /\ Listed(items) \subseteq Tasks
<1>1. \A k \in DOMAIN ids : k \in 1..k
  OBVIOUS
<1> QED
  BY <1>1 DEF Known, Listed

\* What writing the other sides of links does to the list.
LEMMA ReverseWrites ==
  ASSUME items \in [Tasks -> Item], NEW id \in Tasks, NEW by \in SUBSET Tasks,
         NEW blocks \in SUBSET Tasks
  PROVE  /\ ReverseLinks(id, by, blocks) \in [Tasks -> Item]
         /\ \A t \in Tasks :
              LET new == ReverseLinks(id, by, blocks)[t]
              IN /\ new.status = items[t].status
                 /\ new.blocks = items[t].blocks \cup (IF t \in by THEN {id} ELSE {})
                 /\ new.by = items[t].by \cup (IF t \in blocks THEN {id} ELSE {})
         /\ Pairs(id, by, blocks) \subseteq Tasks \X Tasks
<1>1. \A t \in Tasks : items[t] \in Item
  OBVIOUS
<1>2. Pairs(id, by, blocks) \subseteq Tasks \X Tasks
  BY DEF Pairs
<1> QED
  BY <1>1, <1>2 DEF ReverseLinks, Item

\* One side of some links leaves the list sound, but for these.
LEMMA LinkIsSound ==
  ASSUME items \in [Tasks -> Item], Sound(items, Half), NEW id \in Tasks,
         NEW by \in SUBSET Listed(items), NEW blocks \in SUBSET Listed(items),
         blocks # {} => id \in Listed(items),
         NEW but, halves \cup Half \cup Pairs(id, by, blocks) \subseteq but,
         NEW started, afterStart \subseteq started,
         {p \in Pairs(id, {}, blocks) : items[p[2]].status \in Started} \subseteq started,
         NEW new, new = ReverseLinks(id, by, blocks)
  PROVE  Closed(new) /\ Agree(new, but) /\ InOrder(new, started)
<1>1. Listed(items) \subseteq Tasks
  BY DEF Listed
<1>2. \A t \in Tasks :
        /\ new[t].status = items[t].status
        /\ new[t].blocks = items[t].blocks \cup (IF t \in by THEN {id} ELSE {})
        /\ new[t].by = items[t].by \cup (IF t \in blocks THEN {id} ELSE {})
  BY DEF ReverseLinks
<1>3. Closed(items) /\ Agree(items, halves \cup Half) /\ InOrder(items, afterStart)
  BY DEF Sound
<1>4. Listed(new) = Listed(items)
  BY <1>2 DEF Listed
<1>5. Closed(new)
  BY <1>1, <1>2, <1>3, <1>4 DEF Closed
<1>6. Agree(new, but)
  <2> SUFFICES ASSUME NEW t \in Tasks, NEW u \in Tasks, <<t, u>> \notin but
               PROVE  u \in new[t].blocks <=> t \in new[u].by
    BY DEF Agree
  <2>1. u \in items[t].blocks <=> t \in items[u].by
    BY <1>3 DEF Agree
  <2>2. ~(t \in by /\ u = id) /\ ~(t = id /\ u \in blocks)
    BY DEF Pairs
  <2> QED
    BY <1>2, <2>1, <2>2
<1>7. InOrder(new, started)
  <2> SUFFICES ASSUME NEW t \in Tasks, new[t].status \in Started, NEW b \in new[t].by
               PROVE  new[b].status = "completed" \/ <<b, t>> \in started
    BY DEF InOrder
  <2>1. CASE b \in items[t].by
    <3>1. items[b].status = "completed" \/ <<b, t>> \in afterStart
      BY <1>2, <1>3, <2>1 DEF InOrder
    <3>2. b \in Tasks
      BY <2>1 DEF Item
    <3> QED
      BY <1>2, <3>1, <3>2
  <2>2. CASE b \notin items[t].by
    <3>1. b = id /\ t \in blocks /\ items[t].status \in Started
      BY <1>2, <2>2
    <3>2. <<b, t>> \in Pairs(id, {}, blocks)
      BY <3>1 DEF Pairs
    <3> QED
      BY <3>1, <3>2
  <2> QED
    BY <2>1, <2>2
<1> QED
  BY <1>5, <1>6, <1>7

\* What Apply writes.
LEMMA ApplyWrites ==
  ASSUME TypeOK, NEW c \in Callers, Apply(c),
         call[c].by \cup call[c].blocks \subseteq Listed(items)
  PROVE  LET id == call[c].id
             by == call[c].by
             blocks == call[c].blocks
             pairs == call[c].half \cup Pairs(id, by, blocks)
         IN /\ id \in Tasks /\ items' \in [Tasks -> Item]
            /\ \A t \in Tasks \ {id} :
                 /\ items'[t].status = items[t].status
                 /\ items'[t].blocks = items[t].blocks \cup (IF t \in by THEN {id} ELSE {})
                 /\ items'[t].by = items[t].by \cup (IF t \in blocks THEN {id} ELSE {})
            /\ items'[id].status = call[c].item.status
            /\ items'[id].by = call[c].item.by \cup by
            /\ items'[id].blocks = call[c].item.blocks \cup blocks
            /\ halves \subseteq halves' /\ halves' \subseteq Tasks \X Tasks
            /\ <<id, id>> \in pairs => <<id, id>> \in halves'
            /\ afterStart \subseteq afterStart' /\ afterStart' \subseteq Tasks \X Tasks
            /\ \A t, u \in Tasks :
                 <<t, u>> \in pairs /\ items'[u].status \in Started => <<t, u>> \in afterStart'
<1> DEFINE id == call[c].id
           by == call[c].by
           blocks == call[c].blocks
           pairs == call[c].half \cup Pairs(id, by, blocks)
           new == ReverseLinks(id, by, blocks)
           item == [status |-> call[c].item.status, by |-> call[c].item.by \cup by,
                    blocks |-> call[c].item.blocks \cup blocks]
<1>1. /\ At(c, "ready")
      /\ items' = [new EXCEPT ![id] = item]
      /\ halves' = halves \cup {p \in pairs : p[1] = p[2]}
      /\ afterStart' = afterStart \cup {p \in pairs : items'[p[2]].status \in Started}
  BY DEF Apply
<1>2. /\ id \in Tasks /\ call[c].item \in Item /\ items \in [Tasks -> Item]
      /\ by \in SUBSET Tasks /\ blocks \in SUBSET Tasks
      /\ call[c].half \subseteq Tasks \X Tasks
  BY <1>1, TypeFacts DEF At, CallRecord
<1>3. item \in Item
  BY <1>2 DEF Item
<1>4. /\ new \in [Tasks -> Item]
      /\ \A t \in Tasks :
           /\ new[t].status = items[t].status
           /\ new[t].blocks = items[t].blocks \cup (IF t \in by THEN {id} ELSE {})
           /\ new[t].by = items[t].by \cup (IF t \in blocks THEN {id} ELSE {})
      /\ Pairs(id, by, blocks) \subseteq Tasks \X Tasks
  <2> HIDE DEF id, by, blocks
  <2> QED
    BY <1>2, ReverseWrites
<1>5. halves \cup afterStart \subseteq Tasks \X Tasks /\ pairs \subseteq Tasks \X Tasks
  BY <1>2, <1>4, TypeFacts
<1> HIDE DEF new, pairs
<1>6. /\ items' \in [Tasks -> Item] /\ items'[id] = item
      /\ \A t \in Tasks \ {id} : items'[t] = new[t]
  BY <1>1, <1>2, <1>3, <1>4
<1>7. /\ halves \subseteq halves' /\ halves' \subseteq Tasks \X Tasks
      /\ afterStart \subseteq afterStart' /\ afterStart' \subseteq Tasks \X Tasks
  BY <1>1, <1>5
<1>8. <<id, id>> \in pairs => <<id, id>> \in halves'
  BY <1>1
<1>9. \A t, u \in Tasks :
        <<t, u>> \in pairs /\ items'[u].status \in Started => <<t, u>> \in afterStart'
  BY <1>1
<1> QED
  BY <1>2, <1>4, <1>6, <1>7, <1>8, <1>9 DEF pairs

\* A call whose copy still holds leaves the list sound.
LEMMA ApplyIsSound ==
  ASSUME TypeOK, Sound(items, Half), LinksAreKnown, ~raced, NEW c \in Callers, Apply(c),
         CopyHolds(c)
  PROVE  Closed(items') /\ Agree(items', (halves \cup Half)') /\ InOrder(items', afterStart')
<1> DEFINE id == call[c].id
           item == call[c].item
           by == call[c].by
           blocks == call[c].blocks
           half == call[c].half
           pairs == half \cup Pairs(id, by, blocks)
<1>0. /\ by \subseteq Listed(items) /\ blocks \subseteq Listed(items)
      /\ blocks # {} => id \in Listed(items)
      /\ \A p \in half : p[1] = id \/ p[2] = id
  BY DEF LinksAreKnown
<1>1. /\ id \in Tasks /\ items' \in [Tasks -> Item]
      /\ \A t \in Tasks \ {id} :
           /\ items'[t].status = items[t].status
           /\ items'[t].blocks = items[t].blocks \cup (IF t \in by THEN {id} ELSE {})
           /\ items'[t].by = items[t].by \cup (IF t \in blocks THEN {id} ELSE {})
      /\ items'[id].status = item.status
      /\ items'[id].by = item.by \cup by
      /\ items'[id].blocks = item.blocks \cup blocks
      /\ halves \subseteq halves'
      /\ <<id, id>> \in pairs => <<id, id>> \in halves'
      /\ afterStart \subseteq afterStart'
      /\ \A t, u \in Tasks :
           <<t, u>> \in pairs /\ items'[u].status \in Started => <<t, u>> \in afterStart'
  BY <1>0, ApplyWrites
<1>2. /\ \A t \in Tasks :
           /\ <<t, id>> \notin half => (t \in item.by <=> t \in items[id].by)
           /\ <<id, t>> \notin half => (t \in item.blocks <=> t \in items[id].blocks)
           /\ t # id /\ <<t, id>> \in half => t \in item.by /\ id \in items[t].blocks
           /\ t # id /\ <<id, t>> \in half => t \in item.blocks /\ id \in items[t].by
      /\ item.by \subseteq Listed(items)
      /\ item.status # "absent"
      /\ id \in Listed(items) => Allowed(items[id].status, item.status)
      /\ item.status \in Started =>
           \A b \in item.by : items[b].status = "completed" \/ <<b, id>> \in afterStart \cup half
  BY DEF CopyHolds
<1>3. Closed(items) /\ Agree(items, halves \cup Half) /\ InOrder(items, afterStart)
  BY DEF Sound
<1>4. Half \subseteq Half' \cup half
  <2>1. \A d \in Callers \ {c} : call'[d] = call[d]
    BY TypeFacts DEF Apply
  <2> QED
    BY <2>1, HalfOf
<1>5. \A t, u \in Tasks : <<t, u>> \in Pairs(id, by, blocks) <=>
                             (t \in by /\ u = id) \/ (t = id /\ u \in blocks)
  BY DEF Pairs
<1>10. items \in [Tasks -> Item]
  BY TypeFacts
<1> HIDE DEF id, item, by, blocks, half
<1>6. Listed(items') = Listed(items) \cup {id} /\ Listed(items) \subseteq Tasks
  BY <1>1, <1>2 DEF Listed
<1>7. Closed(items')
  <2> SUFFICES ASSUME NEW t \in Tasks
               PROVE  /\ items'[t].by \subseteq Listed(items')
                      /\ t \notin Listed(items') => items'[t].by \cup items'[t].blocks = {}
    BY DEF Closed
  <2>1. /\ items[t].by \subseteq Listed(items)
        /\ t \notin Listed(items) => items[t].by \cup items[t].blocks = {}
    BY <1>3 DEF Closed
  <2>2. CASE t = id
    BY <1>0, <1>1, <1>2, <1>6, <2>1, <2>2
  <2>3. CASE t # id
    BY <1>0, <1>1, <1>6, <2>1, <2>3
  <2> QED
    BY <2>2, <2>3
<1>8. Agree(items', (halves \cup Half)')
  <2> SUFFICES ASSUME NEW t \in Tasks, NEW u \in Tasks, <<t, u>> \notin halves' \cup Half'
               PROVE  u \in items'[t].blocks <=> t \in items'[u].by
    BY DEF Agree
  <2>1. <<t, u>> \notin half => (u \in items[t].blocks <=> t \in items[u].by)
    BY <1>1, <1>3, <1>4 DEF Agree
  <2>2. CASE t = id /\ u = id
    BY <1>1, <1>2, <1>5, <2>1, <2>2
  <2>3. CASE t = id /\ u # id
    <3>1. u \in items'[t].blocks <=> u \in item.blocks \/ u \in blocks
      BY <1>1, <2>3
    <3>2. t \in items'[u].by <=> t \in items[u].by \/ u \in blocks
      BY <1>1, <2>3
    <3>3. CASE <<t, u>> \in half
      BY <1>2, <2>3, <3>1, <3>2, <3>3
    <3>4. CASE <<t, u>> \notin half
      BY <1>2, <2>1, <2>3, <3>1, <3>2, <3>4
    <3> QED
      BY <3>3, <3>4
  <2>4. CASE t # id /\ u = id
    <3>1. u \in items'[t].blocks <=> u \in items[t].blocks \/ t \in by
      BY <1>1, <2>4
    <3>2. t \in items'[u].by <=> t \in item.by \/ t \in by
      BY <1>1, <2>4
    <3>3. CASE <<t, u>> \in half
      BY <1>2, <2>4, <3>1, <3>2, <3>3
    <3>4. CASE <<t, u>> \notin half
      BY <1>2, <2>1, <2>4, <3>1, <3>2, <3>4
    <3> QED
      BY <3>3, <3>4
  <2>5. CASE t # id /\ u # id
    BY <1>0, <1>1, <2>1, <2>5
  <2> QED
    BY <2>2, <2>3, <2>4, <2>5
<1>9. InOrder(items', afterStart')
  <2> SUFFICES ASSUME NEW t \in Tasks, items'[t].status \in Started, NEW b \in items'[t].by
               PROVE  items'[b].status = "completed" \/ <<b, t>> \in afterStart'
    BY DEF InOrder
  <2>1. ASSUME NEW a \in Tasks, items[a].status = "completed"
        PROVE  items'[a].status = "completed"
    <3>1. CASE a = id
      BY <1>1, <1>2, <2>1, <3>1 DEF Allowed, Listed
    <3>2. CASE a # id
      BY <1>1, <2>1, <3>2
    <3> QED
      BY <3>1, <3>2
  <2>2. b \in Tasks
    BY <1>1 DEF Item
  <2>3. CASE t = id
    <3>1. CASE b \in by
      BY <1>1, <1>5, <2>2, <2>3, <3>1
    <3>2. CASE b \in item.by
      <4>1. items[b].status = "completed" \/ <<b, id>> \in afterStart \cup half
        BY <1>1, <1>2, <2>3, <3>2
      <4> QED
        BY <1>1, <2>1, <2>2, <2>3, <4>1
    <3> QED
      BY <1>1, <2>3, <3>1, <3>2
  <2>4. CASE t # id
    <3>1. CASE b \in items[t].by
      <4>1. items[b].status = "completed" \/ <<b, t>> \in afterStart
        BY <1>1, <1>3, <2>4, <3>1 DEF InOrder
      <4> QED
        BY <1>1, <2>1, <2>2, <4>1
    <3>2. CASE b \notin items[t].by
      <4>1. b = id /\ t \in blocks
        BY <1>1, <2>4, <3>2
      <4> QED
        BY <1>1, <1>5, <2>2, <4>1
    <3> QED
      BY <3>1, <3>2
  <2> QED
    BY <2>3, <2>4
<1> QED
  BY <1>7, <1>8, <1>9
-----------------------------------------------------------------------------
LEMMA NoCallIsTyped ==
  /\ NoCall \in CallRecord
  /\ NoCall.at = "idle" /\ NoCall.id = Unknown /\ NoCall.list = NoTasks
  /\ NoCall.by = {} /\ NoCall.blocks = {} /\ NoCall.half = {} /\ NoCall.torn = {}
BY NoTasksIsSound DEF NoCall, CallRecord, Places, Ids, NoTask, Item

LEMMA InitInv == Init => Inv
<1> SUFFICES ASSUME Init PROVE Inv
  OBVIOUS
<1> USE DEF Init
<1>1. /\ items \in [Tasks -> Item]
      /\ Closed(items) /\ Agree(items, {}) /\ InOrder(items, {})
  BY TaskListAssumption
<1>2. /\ call \in [Callers -> CallRecord]
      /\ \A c \in Callers : /\ call[c] = NoCall /\ call[c].at = "idle"
                            /\ call[c].by \cup call[c].blocks \cup call[c].half = {}
                            /\ call[c].list = NoTasks /\ call[c].torn = {}
  BY NoCallIsTyped
<1>3. Half = {}
  BY <1>2 DEF Half
<1>4. TypeOK
  <2>1. file \in [whole : BOOLEAN, items : [Tasks -> Item], torn : SUBSET (Tasks \X Tasks)]
    BY <1>1
  <2>2. answered \in [Tasks -> Statuses \cup {"absent"}]
    <3>1. \A t \in Tasks : items[t].status \in Statuses \cup {"absent"}
      BY <1>1 DEF Item
    <3> QED
      BY <3>1
  <2>3. calls \in 0..MaxCalls /\ faults \in 0..MaxFaults
    BY TaskListAssumption
  <2> QED
    BY <1>1, <1>2, <2>1, <2>2, <2>3 DEF TypeOK, At
<1>5. ListsAreSound
  <2>1. file.items = items /\ file.torn = {}
    OBVIOUS
  <2> QED
    BY <1>1, <1>2, <1>3, <2>1, NoTasksIsSound DEF ListsAreSound, Sound
<1>6. CopiesHold /\ LinksAreKnown /\ WorkIsKept
  BY <1>2 DEF CopiesHold, LinksAreKnown, WorkIsKept, At, Saving
<1>7. AnswersKept
  BY <1>1, <1>2 DEF AnswersKept, Stand, Listed, Saving
<1> QED
  BY <1>4, <1>5, <1>6, <1>7 DEF Inv

\* What a call knows when it begins.
LEMMA BeginIs ==
  ASSUME Inv, NEW c \in Callers, Create(c) \/ Update(c)
  PROVE  \E id \in Tasks, item \in Item, by \in SUBSET Listed(items),
            blocks \in SUBSET Listed(items), fails \in BOOLEAN :
           /\ Begin(c, id, item, by, blocks, fails)
           /\ item.by = items[id].by /\ item.blocks = items[id].blocks
           /\ item.status # "absent"
           /\ \/ id \notin Listed(items) /\ \A d \in Callers : call[d].id # id
              \/ id \in Listed(items) /\ Allowed(items[id].status, item.status)
           /\ item.status \in Started =>
                \A b \in item.by : items[b].status = "completed" \/ <<b, id>> \in afterStart
           /\ blocks # {} => id \in Listed(items)
<1>1. /\ TypeOK /\ ~raced /\ Closed(items) /\ InOrder(items, afterStart)
  BY DEF Inv, ListsAreSound, Sound, Create, Update, Begin
<1>2. items \in [Tasks -> Item]
  BY <1>1, TypeFacts
<1>3. CASE Create(c)
  <2> DEFINE item == [status |-> "pending", by |-> {}, blocks |-> {}]
  <2>1. PICK id \in Tasks, by \in Creates :
          /\ id \notin Listed(items)
          /\ \A d \in Callers : call[d].id # id
          /\ ToSet(by) \subseteq Listed(items)
          /\ Begin(c, id, item, ToSet(by), {}, FALSE)
    BY <1>3 DEF Create, Fresh, AllKnown
  <2>2. items[id].by = {} /\ items[id].blocks = {}
    BY <1>1, <2>1 DEF Closed
  <2>3. item \in Item /\ item.by = {} /\ item.blocks = {} /\ item.status = "pending"
    BY DEF Item, Statuses
  <2> HIDE DEF item
  <2>4. /\ Begin(c, id, item, ToSet(by), {}, FALSE)
        /\ item.by = items[id].by /\ item.blocks = items[id].blocks
        /\ item.status # "absent" /\ item.status \notin Started
        /\ ToSet(by) \in SUBSET Listed(items) /\ {} \in SUBSET Listed(items)
    BY <2>1, <2>2, <2>3 DEF Started
  <2> QED
    BY <2>1, <2>3, <2>4
<1>4. CASE Update(c)
  <2>1. PICK id \in Listed(items), request \in Updates :
          LET status == IF request.status = "none" THEN items[id].status ELSE request.status
          IN /\ Allowed(items[id].status, status)
             /\ request.status = "in_progress" => BlockersDone(items[id])
             /\ Begin(c, id, [items[id] EXCEPT !.status = status], Known(request.by),
                      IF AllKnown(request.by) THEN Known(request.blocks) ELSE {},
                      ~AllKnown(request.by) \/ ~AllKnown(request.blocks))
    BY <1>4 DEF Update
  <2> DEFINE status == IF request.status = "none" THEN items[id].status ELSE request.status
             item == [items[id] EXCEPT !.status = status]
             blocks == IF AllKnown(request.by) THEN Known(request.blocks) ELSE {}
             fails == ~AllKnown(request.by) \/ ~AllKnown(request.blocks)
  <2>2. id \in Tasks /\ items[id] \in Item /\ items[id].status # "absent"
    BY <1>2, <2>1 DEF Listed
  <2>3. /\ request.status \in Statuses \cup {"none"}
        /\ request.by \in Seq(Ids) /\ request.blocks \in Seq(Ids)
    BY TaskListAssumption
  <2>4. /\ item \in Item /\ item.by = items[id].by /\ item.blocks = items[id].blocks
        /\ item.status = status
    BY <2>2, <2>3 DEF Item
  <2>5. status # "absent"
    BY <2>2, <2>3 DEF Statuses
  <2>6. ASSUME status \in Started, NEW b \in items[id].by
        PROVE  items[b].status = "completed" \/ <<b, id>> \in afterStart
    <3>1. b \in Listed(items)
      BY <1>1, <2>2 DEF Closed
    <3>2. CASE request.status = "in_progress"
      BY <2>1, <3>1, <3>2 DEF BlockersDone, Listed
    <3>3. CASE request.status # "in_progress"
      <4>1. items[id].status \in Started
        BY <2>1, <2>6, <3>3 DEF Allowed, Started
      <4> QED
        BY <1>1, <2>2, <4>1 DEF InOrder
    <3> QED
      BY <3>2, <3>3
  <2>7. Begin(c, id, item, Known(request.by), blocks, fails) /\ Allowed(items[id].status, status)
    BY <2>1
  <2>8. /\ Known(request.by) \in SUBSET Listed(items) /\ blocks \in SUBSET Listed(items)
        /\ fails \in BOOLEAN
    BY <2>3, KnownAreListed
  <2> HIDE DEF status, item, blocks, fails
  <2> QED
    BY <2>1, <2>2, <2>4, <2>5, <2>6, <2>7, <2>8
<1> QED
  BY <1>3, <1>4

\* A record of calls, and what changing one of them leaves alone.
LEMMA CallChanges ==
  ASSUME TypeOK, NEW c \in Callers, NEW r, call' = [call EXCEPT ![c] = r]
  PROVE  /\ call'[c] = r
         /\ \A d \in Callers \ {c} : call'[d] = call[d]
         /\ r \in CallRecord /\ (r.at = "idle" \/ r.id \in Tasks)
            => /\ call' \in [Callers -> CallRecord]
               /\ \A d \in Callers : call'[d].at = "idle" \/ call'[d].id \in Tasks
<1>1. /\ call \in [Callers -> CallRecord]
      /\ \A d \in Callers : call[d].at = "idle" \/ call[d].id \in Tasks
  BY TypeFacts
<1> QED
  BY <1>1

\* A call that ends; no call of a task has the id of NoCall.
LEMMA CallEnds ==
  ASSUME TypeOK, NEW c \in Callers, call' = [call EXCEPT ![c] = NoCall]
  PROVE  /\ call' \in [Callers -> CallRecord]
         /\ \A d \in Callers : call'[d].at = "idle" \/ call'[d].id \in Tasks
         /\ \A d \in Callers \ {c} : call'[d] = call[d]
         /\ call'[c].at = "idle" /\ call'[c].list = NoTasks /\ call'[c].id \notin Tasks
         /\ call'[c].by = {} /\ call'[c].blocks = {} /\ call'[c].half = {}
         /\ call'[c].torn = {}
<1>1. call'[c] = NoCall /\ \A d \in Callers \ {c} : call'[d] = call[d]
  BY CallChanges
<1> QED
  BY <1>1, CallChanges, NoCallIsTyped, TaskListAssumption

LEMMA BeginStep ==
  ASSUME Inv, NEW c \in Callers, Create(c) \/ Update(c)
  PROVE  Inv'
<1>1. PICK id \in Tasks, item \in Item, by \in SUBSET Listed(items),
           blocks \in SUBSET Listed(items), fails \in BOOLEAN :
        /\ Begin(c, id, item, by, blocks, fails)
        /\ item.by = items[id].by /\ item.blocks = items[id].blocks
        /\ item.status # "absent"
        /\ \/ id \notin Listed(items) /\ \A d \in Callers : call[d].id # id
           \/ id \in Listed(items) /\ Allowed(items[id].status, item.status)
        /\ item.status \in Started =>
             \A b \in item.by : items[b].status = "completed" \/ <<b, id>> \in afterStart
        /\ blocks # {} => id \in Listed(items)
  BY BeginIs
<1> DEFINE r == [at |-> "ready", id |-> id, item |-> item, by |-> by, blocks |-> blocks,
                 fails |-> fails, half |-> {}, list |-> NoTasks, torn |-> {}]
<1>2. /\ ~raced /\ At(c, "idle") /\ calls < MaxCalls /\ calls' = calls + 1
      /\ call' = [call EXCEPT ![c] = r]
      /\ behind' = behind \ {c}
      /\ UNCHANGED <<items, file, faults, raced, overtaken, outdated, answered, lost,
                     halves, afterStart>>
  BY <1>1 DEF Begin
<1>3. TypeOK /\ ListsAreSound /\ CopiesHold /\ LinksAreKnown /\ WorkIsKept /\ AnswersKept
  BY DEF Inv
<1>4. /\ r \in CallRecord
      /\ r.at = "ready" /\ r.id = id /\ r.item = item /\ r.by = by /\ r.blocks = blocks
      /\ r.list = NoTasks /\ r.half = {} /\ r.torn = {}
  <2>1. by \in SUBSET Tasks /\ blocks \in SUBSET Tasks
    BY DEF Listed
  <2> QED
    BY <2>1, NoTasksIsSound DEF Places, Ids, CallRecord
<1> HIDE DEF r
<1>5. /\ call' \in [Callers -> CallRecord]
      /\ \A d \in Callers : call'[d].at = "idle" \/ call'[d].id \in Tasks
      /\ \A d \in Callers \ {c} : call'[d] = call[d]
      /\ call'[c] = r
  BY <1>2, <1>3, <1>4, CallChanges
<1>6. Half' = Half
  <2>1. call[c].half = {}
    BY <1>2, <1>3 DEF LinksAreKnown, At
  <2> QED
    BY <1>4, <1>5, <2>1, HalfOf
<1>7. TypeOK'
  <2>1. calls' \in 0..MaxCalls
    BY <1>2, <1>3, TypeFacts, TaskListAssumption
  <2> QED
    BY <1>2, <1>3, <1>5, <2>1, TypeFacts DEF TypeOK, At
<1>8. ListsAreSound'
  BY <1>2, <1>3, <1>4, <1>5, <1>6, NoTasksIsSound DEF ListsAreSound, Sound
<1>9. CopiesHold'
  <2> SUFFICES ASSUME NEW d \in Callers \ behind', call'[d].at = "ready"
               PROVE  CopyHolds(d)'
    BY DEF CopiesHold, At
  <2>1. CASE d = c
    BY <1>1, <1>2, <1>3, <1>4, <1>5, <2>1 DEF CopyHolds, ListsAreSound, Sound, Closed
  <2>2. CASE d # c
    <3>1. CopyHolds(d) /\ call'[d] = call[d]
      BY <1>2, <1>3, <1>5, <2>2 DEF CopiesHold, At
    <3>2. call[d].id \in Listed(items) \/ call[d].id # id
      BY <1>1, <2>2
    <3> QED
      BY <1>2, <1>4, <1>5, <3>1, <3>2 DEF CopyHolds
  <2> QED
    BY <2>1, <2>2
<1>10. LinksAreKnown'
  BY <1>1, <1>2, <1>3, <1>4, <1>5 DEF LinksAreKnown, At
<1>11. WorkIsKept'
  BY <1>2, <1>3, <1>4, <1>5 DEF WorkIsKept, Has, Saving, At
<1>12. AnswersKept'
  BY <1>2, <1>3, <1>4, <1>5 DEF AnswersKept, Stand, Saving
<1> QED
  BY <1>7, <1>8, <1>9, <1>10, <1>11, <1>12 DEF Inv

\* A list that has what was done to a task keeps it when the task's statuses
\* that end stay and none leaves the list.
LEMMA KeptByStatus ==
  ASSUME NEW list, NEW new, Listed(list) \subseteq Listed(new),
         \A t \in Listed(list) : list[t].status \in Terminal => new[t].status = list[t].status
  PROVE  /\ \A d \in Callers : Has(list, d) => Has(new, d)
         /\ \A tasks : Stand(tasks, list) => Stand(tasks, new)
BY DEF Has, Stand

LEMMA RacedIsEnd == TypeOK' /\ raced' => Inv'
<1>1. ASSUME raced'
      PROVE  ListsAreSound' /\ CopiesHold' /\ LinksAreKnown' /\ WorkIsKept' /\ AnswersKept'
  <2>1. ListsAreSound'
    BY <1>1 DEF ListsAreSound
  <2>2. CopiesHold'
    BY <1>1 DEF CopiesHold
  <2>3. LinksAreKnown'
    BY <1>1 DEF LinksAreKnown
  <2>4. WorkIsKept'
    BY <1>1 DEF WorkIsKept
  <2>5. AnswersKept'
    BY <1>1 DEF AnswersKept
  <2> QED
    BY <2>1, <2>2, <2>3, <2>4, <2>5
<1> QED
  BY <1>1 DEF Inv

\* The file and the encoded lists stay sound while exceptions are added.
LEMMA OthersStaySound ==
  ASSUME ListsAreSound, ~raced, halves \subseteq halves', afterStart \subseteq afterStart',
         file' = file,
         \A d \in Callers : \/ call'[d].list = call[d].list /\ call'[d].torn = call[d].torn
                            \/ call'[d].list = NoTasks
  PROVE  Sound(file.items, file.torn)' /\ \A d \in Callers : Sound(call[d].list, call[d].torn)'
<1>1. Sound(file.items, file.torn)'
  <2>1. Sound(file.items, file.torn)
    BY DEF ListsAreSound
  <2> QED
    BY <2>1, StaysSound DEF Sound
<1>2. ASSUME NEW d \in Callers
      PROVE  Sound(call[d].list, call[d].torn)'
  <2>1. Sound(call[d].list, call[d].torn)
    BY DEF ListsAreSound
  <2>2. CASE call'[d].list = call[d].list /\ call'[d].torn = call[d].torn
    BY <2>1, <2>2, StaysSound DEF Sound
  <2>3. CASE call'[d].list = NoTasks
    BY <2>3, NoTasksIsSound DEF Sound
  <2> QED
    BY <2>2, <2>3
<1> QED
  BY <1>1, <1>2

LEMMA GrowStep ==
  ASSUME Inv, NEW c \in Callers, Grow(c)
  PROVE  Inv'
<1>1. /\ ~raced /\ At(c, "ready")
      /\ raced' = (c \in behind)
      /\ behind' = behind \cup {d \in Callers \ {c} : At(d, "ready")}
      /\ UNCHANGED <<items, file, call, calls, faults, overtaken, outdated, answered, lost,
                     halves, afterStart>>
  BY DEF Grow, Overwrites
<1>2. TypeOK /\ ListsAreSound /\ CopiesHold /\ LinksAreKnown /\ WorkIsKept /\ AnswersKept
  BY DEF Inv
<1>3. TypeOK'
  <2>1. raced' \in BOOLEAN /\ behind' \subseteq Callers
    BY <1>1, <1>2, TypeFacts
  <2> QED
    BY <1>1, <1>2, <2>1, TypeFacts DEF TypeOK, At
<1>4. Half' = Half
  BY <1>1 DEF Half
<1>5. ListsAreSound'
  BY <1>1, <1>2, <1>4 DEF ListsAreSound, Sound
<1>6. CopiesHold'
  <2> SUFFICES ASSUME NEW d \in Callers \ behind', call'[d].at = "ready"
               PROVE  CopyHolds(d)'
    BY DEF CopiesHold, At
  <2>1. CopyHolds(d)
    BY <1>1, <1>2 DEF CopiesHold, At
  <2> QED
    BY <1>1, <2>1 DEF CopyHolds
<1>7. LinksAreKnown' /\ WorkIsKept' /\ AnswersKept'
  BY <1>1, <1>2 DEF LinksAreKnown, WorkIsKept, AnswersKept, Has, Saving, At
<1> QED
  BY <1>3, <1>5, <1>6, <1>7 DEF Inv

LEMMA LinkStep ==
  ASSUME Inv, NEW c \in Callers, LinkNext(c)
  PROVE  Inv'
<1>1. PICK by \in SUBSET call[c].by, blocks \in SUBSET call[c].blocks : Link(c, by, blocks)
  <2>1. ASSUME NEW b \in call[c].by, Link(c, {b}, {})
        PROVE  {b} \in SUBSET call[c].by /\ {} \in SUBSET call[c].blocks
    OBVIOUS
  <2>2. ASSUME NEW b \in call[c].blocks, Link(c, {}, {b})
        PROVE  {} \in SUBSET call[c].by /\ {b} \in SUBSET call[c].blocks
    OBVIOUS
  <2> QED
    BY <2>1, <2>2 DEF LinkNext
<1> DEFINE id == call[c].id
           half == Pairs(id, by, blocks)
<1>2. /\ ~raced /\ At(c, "ready")
      /\ items' = ReverseLinks(id, by, blocks)
      /\ raced' = (c \in behind)
      /\ behind' = behind \cup {d \in Callers \ {c} : At(d, "ready")}
      /\ afterStart' = afterStart \cup {p \in Pairs(id, {}, blocks) :
                                          items[p[2]].status \in Started}
      /\ UNCHANGED <<file, calls, faults, overtaken, outdated, answered, lost, halves>>
  BY <1>1 DEF Link, Overwrites
<1>3. TypeOK /\ ListsAreSound /\ CopiesHold /\ LinksAreKnown /\ WorkIsKept /\ AnswersKept
  BY DEF Inv
<1> DEFINE new == Linked(call[c], by, blocks)
<1>4. /\ by \in SUBSET Tasks /\ blocks \in SUBSET Tasks /\ half \subseteq Tasks \X Tasks
       /\ new \in CallRecord /\ id \in Tasks
       /\ new.at = "ready" /\ new.id = id
       /\ new.item.status = call[c].item.status
       /\ new.item.by = call[c].item.by \cup by
       /\ new.item.blocks = call[c].item.blocks \cup blocks
       /\ new.by = call[c].by \ by /\ new.blocks = call[c].blocks \ blocks
       /\ new.half = call[c].half \cup half
       /\ new.list = call[c].list /\ new.torn = call[c].torn
  <2>1. /\ call[c] \in CallRecord /\ id \in Tasks /\ call[c].at = "ready"
        /\ call[c].item \in Item /\ by \in SUBSET Tasks /\ blocks \in SUBSET Tasks
        /\ call[c].half \subseteq Tasks \X Tasks
    <3>1. call[c] \in CallRecord /\ id \in Tasks /\ call[c].at = "ready"
      BY <1>2, <1>3, TypeFacts DEF At
    <3> QED
      BY <3>1 DEF CallRecord
  <2>2. half \subseteq Tasks \X Tasks
    <3> HIDE DEF id
    <3> QED
      BY <2>1 DEF Pairs
  <2>3. [status |-> call[c].item.status, by |-> call[c].item.by \cup by,
         blocks |-> call[c].item.blocks \cup blocks] \in Item
    BY <2>1 DEF Item
  <2> QED
    BY <2>1, <2>2, <2>3 DEF Linked, CallRecord
<1>5. /\ by \in SUBSET Tasks /\ blocks \in SUBSET Tasks /\ half \subseteq Tasks \X Tasks
      /\ call' \in [Callers -> CallRecord]
      /\ \A d \in Callers : call'[d].at = "idle" \/ call'[d].id \in Tasks
      /\ \A d \in Callers \ {c} : call'[d] = call[d]
      /\ call'[c].at = "ready" /\ call'[c].id = id /\ id \in Tasks
      /\ call'[c].item.status = call[c].item.status
      /\ call'[c].item.by = call[c].item.by \cup by
      /\ call'[c].item.blocks = call[c].item.blocks \cup blocks
      /\ call'[c].by = call[c].by \ by /\ call'[c].blocks = call[c].blocks \ blocks
      /\ call'[c].half = call[c].half \cup half
      /\ call'[c].list = call[c].list /\ call'[c].torn = call[c].torn
  <2>1. call' = [call EXCEPT ![c] = new]
    BY <1>1 DEF Link
  <2> HIDE DEF new, half
  <2>2. /\ call' \in [Callers -> CallRecord] /\ call'[c] = new
        /\ \A d \in Callers : call'[d].at = "idle" \/ call'[d].id \in Tasks
        /\ \A d \in Callers \ {c} : call'[d] = call[d]
    <3>1. new.at = "idle" \/ new.id \in Tasks
      BY <1>4
    <3> QED
      BY <1>3, <1>4, <2>1, <3>1, CallChanges
  <2> QED
    BY <1>4, <2>2
<1> HIDE DEF new
<1>6. /\ items' \in [Tasks -> Item]
      /\ \A t \in Tasks :
           /\ items'[t].status = items[t].status
           /\ items'[t].blocks = items[t].blocks \cup (IF t \in by THEN {id} ELSE {})
           /\ items'[t].by = items[t].by \cup (IF t \in blocks THEN {id} ELSE {})
  <2>1. items \in [Tasks -> Item] /\ id \in Tasks
    BY <1>3, <1>5, TypeFacts
  <2> HIDE DEF id
  <2>2. ReverseLinks(id, by, blocks) \in [Tasks -> Item]
    BY <1>5, <2>1, ReverseWrites
  <2> QED
    BY <1>2, <2>2 DEF ReverseLinks
<1>7. Pairs(id, {}, blocks) \subseteq half
  BY DEF Pairs
<1>8. TypeOK'
  <2>1. raced' \in BOOLEAN /\ behind' \subseteq Callers
    BY <1>2, <1>3, TypeFacts
  <2>2. halves' \cup afterStart' \subseteq Tasks \X Tasks
    BY <1>2, <1>3, <1>5, <1>7, TypeFacts
  <2> QED
    BY <1>2, <1>3, <1>5, <1>6, <2>1, <2>2, TypeFacts DEF TypeOK, At
<1>9. CASE raced'
  BY <1>8, <1>9, RacedIsEnd
<1>10. CASE ~raced'
  <2>1. CopyHolds(c) /\ Sound(items, Half)
    BY <1>2, <1>3, <1>10 DEF CopiesHold, ListsAreSound
  <2>2. /\ by \in SUBSET Listed(items) /\ blocks \in SUBSET Listed(items)
        /\ blocks # {} => id \in Listed(items)
    BY <1>2, <1>3 DEF LinksAreKnown
  <2>3. Listed(items') = Listed(items)
    BY <1>6 DEF Listed
  <2>4. Half' \subseteq Half \cup call'[c].half /\ Half \subseteq Half' /\ half \subseteq Half'
    <3>1. /\ Half \subseteq Half' \cup call[c].half /\ call'[c].half \subseteq Half'
          /\ Half' \subseteq Half \cup call'[c].half
      BY <1>5, HalfOf
    <3> QED
      BY <1>5, <3>1
  <2>5. ListsAreSound'
    <3>1. Sound(items, Half)'
      <4>1. /\ halves \cup Half \cup Pairs(id, by, blocks) \subseteq halves' \cup Half'
            /\ afterStart \subseteq afterStart'
            /\ {p \in Pairs(id, {}, blocks) : items[p[2]].status \in Started}
                 \subseteq afterStart'
            /\ items \in [Tasks -> Item] /\ items' = ReverseLinks(id, by, blocks)
            /\ id \in Tasks
        BY <1>2, <1>3, <1>5, <2>4, TypeFacts
      <4> HIDE DEF id, half
      <4> QED
        BY <2>1, <2>2, <4>1, LinkIsSound DEF Sound
    <3>2. Sound(file.items, file.torn)' /\ \A d \in Callers : Sound(call[d].list, call[d].torn)'
      BY <1>2, <1>3, <1>5, OthersStaySound
    <3> QED
      BY <3>1, <3>2 DEF ListsAreSound
  <2>6. CopiesHold'
    <3> SUFFICES ASSUME NEW d \in Callers \ behind', call'[d].at = "ready"
                 PROVE  CopyHolds(d)'
      BY DEF CopiesHold, At
    <3>1. d = c
      BY <1>2, <1>5 DEF At
    <3>2. \A t, u \in Tasks : <<t, u>> \in half <=>
                                (t \in by /\ u = id) \/ (t = id /\ u \in blocks)
      BY DEF Pairs
    <3>3. /\ \A t \in Tasks :
               /\ <<t, id>> \notin call[c].half =>
                    (t \in call[c].item.by <=> t \in items[id].by)
               /\ <<id, t>> \notin call[c].half =>
                    (t \in call[c].item.blocks <=> t \in items[id].blocks)
               /\ t # id /\ <<t, id>> \in call[c].half =>
                    t \in call[c].item.by /\ id \in items[t].blocks
               /\ t # id /\ <<id, t>> \in call[c].half =>
                    t \in call[c].item.blocks /\ id \in items[t].by
          /\ call[c].item.by \subseteq Listed(items)
          /\ call[c].item.status # "absent"
          /\ \/ id \notin Listed(items) /\ \A e \in Callers \ {c} : call[e].id # id
             \/ id \in Listed(items) /\ Allowed(items[id].status, call[c].item.status)
          /\ call[c].item.status \in Started =>
               \A b \in call[c].item.by : \/ items[b].status = "completed"
                                          \/ <<b, id>> \in afterStart \cup call[c].half
      BY <2>1 DEF CopyHolds
    <3> HIDE DEF id, half
    <3>4. ASSUME NEW t \in Tasks
          PROVE  /\ <<t, id>> \notin call'[c].half =>
                      (t \in call'[c].item.by <=> t \in items'[id].by)
                 /\ <<id, t>> \notin call'[c].half =>
                      (t \in call'[c].item.blocks <=> t \in items'[id].blocks)
                 /\ t # id /\ <<t, id>> \in call'[c].half =>
                      t \in call'[c].item.by /\ id \in items'[t].blocks
                 /\ t # id /\ <<id, t>> \in call'[c].half =>
                      t \in call'[c].item.blocks /\ id \in items'[t].by
      <4>1. /\ <<t, id>> \in half <=> t \in by \/ (t = id /\ id \in blocks)
            /\ <<id, t>> \in half <=> t \in blocks \/ (t = id /\ id \in by)
        BY <1>5, <3>2
      <4> QED
        BY <1>5, <1>6, <3>3, <4>1
    <3>5. /\ call'[c].item.by \subseteq Listed(items')
          /\ call'[c].item.status # "absent"
          /\ \/ id \notin Listed(items') /\ \A e \in Callers \ {c} : call'[e].id # id
             \/ id \in Listed(items') /\ Allowed(items'[id].status, call'[c].item.status)
      BY <1>5, <1>6, <2>2, <2>3, <3>3
    <3>6. ASSUME call'[c].item.status \in Started, NEW b \in call'[c].item.by
          PROVE  items'[b].status = "completed" \/ <<b, id>> \in afterStart' \cup call'[c].half
      <4>1. b \in Tasks
        BY <3>5 DEF Listed
      <4>2. CASE b \in by
        BY <1>5, <3>2, <4>1, <4>2
      <4>3. CASE b \notin by
        BY <1>2, <1>5, <1>6, <3>3, <3>6, <4>1, <4>3
      <4> QED
        BY <4>2, <4>3
    <3> QED
      BY <1>5, <3>1, <3>4, <3>5, <3>6 DEF CopyHolds
  <2>7. LinksAreKnown'
    <3> SUFFICES ASSUME NEW d \in Callers
                 PROVE  /\ call'[d].by \cup call'[d].blocks \subseteq Listed(items')
                        /\ call'[d].blocks # {} => call'[d].id \in Listed(items')
                        /\ \A p \in call'[d].half : p[1] = call'[d].id \/ p[2] = call'[d].id
                        /\ \/ At(d, "ready")'
                           \/ call'[d].by \cup call'[d].blocks \cup call'[d].half = {}
      BY DEF LinksAreKnown
    <3>1. CASE d = c
      <4>1. \A p \in half : p[1] = id \/ p[2] = id
        BY DEF Pairs
      <4> QED
        BY <1>2, <1>3, <1>5, <2>3, <3>1, <4>1 DEF LinksAreKnown, At
    <3>2. CASE d # c
      BY <1>2, <1>3, <1>5, <2>3, <3>2 DEF LinksAreKnown, At
    <3> QED
      BY <3>1, <3>2
  <2>8. Listed(items) \subseteq Listed(items') /\
        \A t \in Listed(items) : items[t].status \in Terminal => items'[t].status = items[t].status
    BY <1>6, <2>3 DEF Listed
  <2>9. WorkIsKept'
    <3>1. \A d \in Callers : Has(items, d) => Has(items', d)
      BY <2>8, KeptByStatus
    <3> SUFFICES ASSUME NEW d \in Callers
                 PROVE  /\ Saving(d)' \/ At(d, "applied")' =>
                             Has(items, d)' /\ call'[d].item.status # "absent"
                        /\ Saving(d)' => Has(call[d].list, d)'
      BY DEF WorkIsKept
    <3>2. CASE d = c
      BY <1>5, <3>2 DEF Saving, At
    <3>3. CASE d # c
      <4>1. call'[d] = call[d]
        BY <1>5, <3>3
      <4>2. /\ Saving(d) \/ At(d, "applied") => Has(items, d) /\ call[d].item.status # "absent"
            /\ Saving(d) => Has(call[d].list, d)
        BY <1>2, <1>3 DEF WorkIsKept
      <4> QED
        BY <3>1, <4>1, <4>2 DEF Has, Saving, At
    <3> QED
      BY <3>2, <3>3
  <2>10. AnswersKept'
    <3>1. Stand(answered, items) => Stand(answered, items')
      BY <2>8, KeptByStatus
    <3>2. \A d \in Callers : call'[d].list = call[d].list /\ (Saving(d)' => Saving(d))
      BY <1>5 DEF Saving
    <3> QED
      BY <1>2, <1>3, <3>1, <3>2 DEF AnswersKept
  <2> QED
    BY <1>8, <2>5, <2>6, <2>7, <2>9, <2>10 DEF Inv
<1> QED
  BY <1>9, <1>10

LEMMA ApplyStep ==
  ASSUME Inv, NEW c \in Callers, Apply(c)
  PROVE  Inv'
<1>1. /\ ~raced /\ At(c, "ready")
      /\ call' = [call EXCEPT ![c] = [@ EXCEPT !.at = "applied", !.by = {}, !.blocks = {},
                                               !.half = {}]]
      /\ raced' = (c \in behind)
      /\ behind' = behind \cup {d \in Callers \ {c} : At(d, "ready")}
      /\ UNCHANGED <<file, calls, faults, overtaken, outdated, answered, lost>>
  BY DEF Apply, Overwrites
<1>2. TypeOK /\ ListsAreSound /\ CopiesHold /\ LinksAreKnown /\ WorkIsKept /\ AnswersKept
  BY DEF Inv
<1> DEFINE id == call[c].id
<1>3. /\ call' \in [Callers -> CallRecord]
      /\ \A d \in Callers : call'[d].at = "idle" \/ call'[d].id \in Tasks
      /\ \A d \in Callers \ {c} : call'[d] = call[d]
      /\ call'[c].at = "applied" /\ call'[c].id = id /\ call'[c].item = call[c].item
      /\ call'[c].by = {} /\ call'[c].blocks = {} /\ call'[c].half = {}
      /\ call'[c].list = call[c].list /\ call'[c].torn = call[c].torn
  <2> DEFINE r == [call[c] EXCEPT !.at = "applied", !.by = {}, !.blocks = {}, !.half = {}]
  <2>1. call' = [call EXCEPT ![c] = r]
    BY <1>1
  <2>2. call[c] \in CallRecord /\ id \in Tasks
    BY <1>1, <1>2, TypeFacts DEF At
  <2>3. /\ r \in CallRecord
        /\ r.at = "applied" /\ r.id = id /\ r.item = call[c].item
        /\ r.by = {} /\ r.blocks = {} /\ r.half = {}
        /\ r.list = call[c].list /\ r.torn = call[c].torn
    BY <2>2 DEF CallRecord, Places
  <2> HIDE DEF r
  <2>4. r.at = "idle" \/ r.id \in Tasks
    BY <2>2, <2>3
  <2> QED
    BY <1>2, <2>1, <2>3, <2>4, CallChanges
<1>4. /\ id \in Tasks /\ items' \in [Tasks -> Item]
      /\ \A t \in Tasks \ {id} : items'[t].status = items[t].status
      /\ items'[id].status = call[c].item.status
      /\ halves \subseteq halves' /\ halves' \subseteq Tasks \X Tasks
      /\ afterStart \subseteq afterStart' /\ afterStart' \subseteq Tasks \X Tasks
  <2>1. call[c].by \cup call[c].blocks \subseteq Listed(items)
    BY <1>1, <1>2 DEF LinksAreKnown
  <2> QED
    BY <1>2, <2>1, ApplyWrites
<1>5. TypeOK'
  <2>1. raced' \in BOOLEAN /\ behind' \subseteq Callers
    BY <1>1, <1>2, TypeFacts
  <2> QED
    BY <1>1, <1>2, <1>3, <1>4, <2>1, TypeFacts DEF TypeOK, At
<1>6. CASE raced'
  BY <1>5, <1>6, RacedIsEnd
<1>7. CASE ~raced'
  <2>1. CopyHolds(c) /\ Sound(items, Half)
    BY <1>1, <1>2, <1>7 DEF CopiesHold, ListsAreSound
  <2>2. /\ call[c].item.status # "absent"
        /\ id \in Listed(items) => Allowed(items[id].status, call[c].item.status)
    BY <2>1 DEF CopyHolds
  <2> HIDE DEF id
  <2>3. /\ Listed(items) \subseteq Listed(items') /\ id \in Listed(items')
        /\ \A t \in Listed(items) :
             items[t].status \in Terminal => items'[t].status = items[t].status
    BY <1>4, <2>2 DEF Listed, Allowed, Terminal
  <2>4. ListsAreSound'
    <3>1. Sound(items, Half)'
      BY <1>1, <1>2, <2>1, ApplyIsSound DEF Sound
    <3>2. Sound(file.items, file.torn)' /\ \A d \in Callers : Sound(call[d].list, call[d].torn)'
      BY <1>1, <1>2, <1>3, <1>4, OthersStaySound
    <3> QED
      BY <3>1, <3>2 DEF ListsAreSound
  <2>5. CopiesHold'
    BY <1>1, <1>3 DEF CopiesHold, At
  <2>6. LinksAreKnown'
    <3> SUFFICES ASSUME NEW d \in Callers
                 PROVE  /\ call'[d].by \cup call'[d].blocks \subseteq Listed(items')
                        /\ call'[d].blocks # {} => call'[d].id \in Listed(items')
                        /\ \A p \in call'[d].half : p[1] = call'[d].id \/ p[2] = call'[d].id
                        /\ \/ At(d, "ready")'
                           \/ call'[d].by \cup call'[d].blocks \cup call'[d].half = {}
      BY DEF LinksAreKnown
    <3>1. CASE d = c
      BY <1>3, <3>1
    <3>2. CASE d # c
      BY <1>1, <1>2, <1>3, <2>3, <3>2 DEF LinksAreKnown, At
    <3> QED
      BY <3>1, <3>2
  <2>7. WorkIsKept'
    <3>1. \A d \in Callers : Has(items, d) => Has(items', d)
      BY <2>3, KeptByStatus
    <3> SUFFICES ASSUME NEW d \in Callers
                 PROVE  /\ Saving(d)' \/ At(d, "applied")' =>
                             Has(items, d)' /\ call'[d].item.status # "absent"
                        /\ Saving(d)' => Has(call[d].list, d)'
      BY DEF WorkIsKept
    <3>2. CASE d = c
      BY <1>3, <1>4, <2>2, <2>3, <3>2 DEF Has, Saving, At
    <3>3. CASE d # c
      <4>1. call'[d] = call[d]
        BY <1>3, <3>3
      <4>2. /\ Saving(d) \/ At(d, "applied") => Has(items, d) /\ call[d].item.status # "absent"
            /\ Saving(d) => Has(call[d].list, d)
        BY <1>1, <1>2 DEF WorkIsKept
      <4> QED
        BY <3>1, <4>1, <4>2 DEF Has, Saving, At
    <3> QED
      BY <3>2, <3>3
  <2>8. AnswersKept'
    <3>1. Stand(answered, items) => Stand(answered, items')
      BY <2>3, KeptByStatus
    <3>2. \A d \in Callers : call'[d].list = call[d].list /\ (Saving(d)' => Saving(d))
      BY <1>3 DEF Saving
    <3> QED
      BY <1>1, <1>2, <3>1, <3>2 DEF AnswersKept
  <2> QED
    BY <1>5, <2>4, <2>5, <2>6, <2>7, <2>8 DEF Inv
<1> QED
  BY <1>6, <1>7

\* What a call that fails leaves behind.
LEMMA ApplyFailsWrites ==
  ASSUME TypeOK, NEW c \in Callers, ApplyFails(c)
  PROVE  LET id == call[c].id
             by == call[c].by
             blocks == call[c].blocks
         IN /\ id \in Tasks /\ items' \in [Tasks -> Item]
            /\ items' = ReverseLinks(id, by, blocks)
            /\ \A t \in Tasks : items'[t].status = items[t].status
            /\ halves' = halves \cup call[c].half \cup Pairs(id, by, blocks)
            /\ afterStart \subseteq afterStart'
            /\ {p \in Pairs(id, {}, blocks) : items[p[2]].status \in Started} \subseteq afterStart'
            /\ halves' \cup afterStart' \subseteq Tasks \X Tasks
<1> DEFINE id == call[c].id
           by == call[c].by
           blocks == call[c].blocks
<1>1. /\ At(c, "ready")
      /\ items' = ReverseLinks(id, by, blocks)
      /\ halves' = halves \cup call[c].half \cup Pairs(id, by, blocks)
      /\ afterStart' = afterStart \cup {p \in Pairs(id, {}, blocks) :
                                          items[p[2]].status \in Started}
  BY DEF ApplyFails
<1>2. /\ id \in Tasks /\ items \in [Tasks -> Item]
      /\ by \in SUBSET Tasks /\ blocks \in SUBSET Tasks
      /\ call[c].half \subseteq Tasks \X Tasks
      /\ halves \cup afterStart \subseteq Tasks \X Tasks
  BY <1>1, TypeFacts DEF At, CallRecord
<1> HIDE DEF id, by, blocks
<1>3. ReverseLinks(id, by, blocks) \in [Tasks -> Item] /\ Pairs(id, by, blocks) \subseteq Tasks \X Tasks
  BY <1>2, ReverseWrites
<1>4. \A t \in Tasks : items'[t].status = items[t].status
  BY <1>1 DEF ReverseLinks
<1>5. Pairs(id, {}, blocks) \subseteq Pairs(id, by, blocks)
  BY DEF Pairs
<1> QED
  BY <1>1, <1>2, <1>3, <1>4, <1>5 DEF id, by, blocks

LEMMA ApplyFailsStep ==
  ASSUME Inv, NEW c \in Callers, ApplyFails(c)
  PROVE  Inv'
<1>1. /\ ~raced /\ At(c, "ready")
      /\ call' = [call EXCEPT ![c] = NoCall]
      /\ \/ items' = items /\ raced' = raced /\ behind' = behind
         \/ /\ raced' = (c \in behind)
            /\ behind' = behind \cup {d \in Callers \ {c} : At(d, "ready")}
      /\ UNCHANGED <<file, calls, faults, overtaken, outdated, answered, lost>>
  BY DEF ApplyFails, Overwrites
<1>2. TypeOK /\ ListsAreSound /\ CopiesHold /\ LinksAreKnown /\ WorkIsKept /\ AnswersKept
  BY DEF Inv
<1> DEFINE id == call[c].id
           by == call[c].by
           blocks == call[c].blocks
           pairs == Pairs(id, by, blocks)
<1>3. /\ by \in SUBSET Listed(items) /\ blocks \in SUBSET Listed(items)
      /\ blocks # {} => id \in Listed(items)
  BY <1>1, <1>2 DEF LinksAreKnown
<1>4. /\ call' \in [Callers -> CallRecord]
      /\ \A d \in Callers : call'[d].at = "idle" \/ call'[d].id \in Tasks
      /\ \A d \in Callers \ {c} : call'[d] = call[d]
      /\ call'[c].at = "idle" /\ call'[c].list = NoTasks /\ call'[c].id \notin Tasks
      /\ call'[c].by = {} /\ call'[c].blocks = {} /\ call'[c].half = {}
  BY <1>1, <1>2, CallEnds
<1>5. /\ id \in Tasks /\ items' \in [Tasks -> Item]
      /\ items' = ReverseLinks(id, by, blocks)
      /\ \A t \in Tasks : items'[t].status = items[t].status
      /\ halves' = halves \cup call[c].half \cup pairs
      /\ afterStart \subseteq afterStart'
      /\ {p \in Pairs(id, {}, blocks) : items[p[2]].status \in Started} \subseteq afterStart'
      /\ halves' \cup afterStart' \subseteq Tasks \X Tasks
  BY <1>2, ApplyFailsWrites
<1>6. Listed(items') = Listed(items)
  BY <1>5 DEF Listed
<1>7. TypeOK'
  <2>1. behind' \subseteq Callers
    BY <1>1, <1>2, TypeFacts
  <2>2. raced' \in BOOLEAN
    <3>1. raced \in BOOLEAN /\ (c \in behind) \in BOOLEAN
      BY <1>2, TypeFacts
    <3>2. raced' = raced \/ raced' = (c \in behind)
      BY <1>1
    <3> QED
      BY <3>1, <3>2
  <2> QED
    BY <1>1, <1>2, <1>4, <1>5, <2>1, <2>2, TypeFacts DEF TypeOK, At
<1>8. ListsAreSound'
  <2>1. Sound(items, Half)'
    <3>1. Half \subseteq Half' \cup call[c].half
      BY <1>4, HalfOf
    <3>2. halves \cup Half \cup pairs \subseteq halves' \cup Half'
      BY <1>5, <3>1
    <3>3. Sound(items, Half) /\ items \in [Tasks -> Item]
      BY <1>1, <1>2, TypeFacts DEF ListsAreSound
    <3> HIDE DEF id, by, blocks
    <3>4. /\ halves \cup Half \cup Pairs(id, by, blocks) \subseteq halves' \cup Half'
          /\ afterStart \subseteq afterStart'
          /\ {p \in Pairs(id, {}, blocks) : items[p[2]].status \in Started} \subseteq afterStart'
          /\ items' = ReverseLinks(id, by, blocks) /\ id \in Tasks
      BY <1>5, <3>2
    <3> HIDE DEF pairs
    <3> QED
      BY <1>3, <3>3, <3>4, LinkIsSound DEF Sound
  <2>2. Sound(file.items, file.torn)' /\ \A d \in Callers : Sound(call[d].list, call[d].torn)'
    <3>1. \A d \in Callers : \/ call'[d].list = call[d].list /\ call'[d].torn = call[d].torn
                             \/ call'[d].list = NoTasks
      BY <1>4
    <3> QED
      BY <1>1, <1>2, <1>5, <3>1, OthersStaySound
  <2> QED
    BY <2>1, <2>2 DEF ListsAreSound
<1>9. CopiesHold'
  <2> SUFFICES ASSUME NEW d \in Callers \ behind', call'[d].at = "ready"
               PROVE  CopyHolds(d)'
    BY DEF CopiesHold, At
  <2>1. d # c /\ call'[d] = call[d] /\ call[d].id \in Tasks
    BY <1>4
  <2>2. items' = items /\ behind' = behind
    BY <1>1, <2>1 DEF At
  <2>3. CopyHolds(d)
    BY <1>1, <1>2, <2>1, <2>2 DEF CopiesHold, At
  <2> QED
    BY <1>4, <1>5, <2>1, <2>2, <2>3 DEF CopyHolds
<1>10. LinksAreKnown'
  BY <1>1, <1>2, <1>4, <1>6 DEF LinksAreKnown, At
<1>11. \A t \in Listed(items) :
         items[t].status \in Terminal => items'[t].status = items[t].status
  BY <1>5 DEF Listed
<1>12. WorkIsKept'
  <2>1. \A d \in Callers : Has(items, d) => Has(items', d)
    BY <1>6, <1>11, KeptByStatus
  <2> SUFFICES ASSUME NEW d \in Callers
               PROVE  /\ Saving(d)' \/ At(d, "applied")' =>
                           Has(items, d)' /\ call'[d].item.status # "absent"
                      /\ Saving(d)' => Has(call[d].list, d)'
    BY DEF WorkIsKept
  <2>2. CASE d = c
    BY <1>4, <2>2 DEF Saving, At
  <2>3. CASE d # c
    BY <1>1, <1>2, <1>4, <2>1, <2>3 DEF WorkIsKept, Has, Saving, At
  <2> QED
    BY <2>2, <2>3
<1>13. AnswersKept'
  <2>1. Stand(answered, items) => Stand(answered, items')
    BY <1>6, <1>11, KeptByStatus
  <2>2. \A d \in Callers : Saving(d)' => call'[d].list = call[d].list /\ Saving(d)
    BY <1>4 DEF Saving
  <2> QED
    BY <1>1, <1>2, <2>1, <2>2 DEF AnswersKept
<1> QED
  BY <1>7, <1>8, <1>9, <1>10, <1>12, <1>13 DEF Inv

\* A step that leaves the list and the exceptions alone, and only takes a call
\* out of its place before the list, keeps what the others have read.
LEMMA CopiesStay ==
  ASSUME TypeOK, ~raced, CopiesHold, LinksAreKnown, NEW c \in Callers, ~At(c, "ready"),
         UNCHANGED <<items, behind, raced, afterStart>>,
         \A d \in Callers \ {c} : call'[d] = call[d],
         call'[c].at # "ready", call'[c].id = call[c].id \/ call'[c].id \notin Tasks,
         call'[c].by = {} /\ call'[c].blocks = {} /\ call'[c].half = {}
  PROVE  CopiesHold' /\ LinksAreKnown' /\ Half' = Half
<1>1. CopiesHold'
  <2> SUFFICES ASSUME NEW d \in Callers \ behind', call'[d].at = "ready"
               PROVE  CopyHolds(d)'
    BY DEF CopiesHold, At
  <2>1. d # c /\ call'[d] = call[d] /\ call[d].id \in Tasks
    BY TypeFacts
  <2>2. CopyHolds(d)
    BY <2>1 DEF CopiesHold, At
  <2> QED
    BY <2>1, <2>2 DEF CopyHolds
<1>2. LinksAreKnown'
  BY DEF LinksAreKnown, At
<1>3. Half' = Half
  <2>1. call[c].half = {}
    BY DEF LinksAreKnown
  <2> QED
    BY <2>1, HalfOf
<1> QED
  BY <1>1, <1>2, <1>3

LEMMA EncodeStep ==
  ASSUME Inv, NEW c \in Callers, Encode(c)
  PROVE  Inv'
<1>1. /\ ~raced /\ At(c, "applied")
      /\ call' = [call EXCEPT ![c] = [@ EXCEPT !.at = "encoded", !.list = items, !.torn = Half]]
      /\ overtaken' = overtaken \ {c}
      /\ UNCHANGED <<items, file, calls, faults, behind, raced, outdated, answered, lost,
                     halves, afterStart>>
  BY DEF Encode
<1>2. TypeOK /\ ListsAreSound /\ CopiesHold /\ LinksAreKnown /\ WorkIsKept /\ AnswersKept
  BY DEF Inv
<1>3. /\ call' \in [Callers -> CallRecord]
      /\ \A d \in Callers : call'[d].at = "idle" \/ call'[d].id \in Tasks
      /\ \A d \in Callers \ {c} : call'[d] = call[d]
      /\ call'[c].at = "encoded" /\ call'[c].id = call[c].id /\ call'[c].item = call[c].item
      /\ call'[c].list = items /\ call'[c].torn = Half
      /\ call'[c].by = {} /\ call'[c].blocks = {} /\ call'[c].half = {}
  <2> DEFINE r == [call[c] EXCEPT !.at = "encoded", !.list = items, !.torn = Half]
  <2>1. call' = [call EXCEPT ![c] = r]
    BY <1>1
  <2>2. /\ call[c] \in CallRecord /\ call[c].id \in Tasks /\ items \in [Tasks -> Item]
        /\ Half \subseteq Tasks \X Tasks
    <3>1. call \in [Callers -> CallRecord] /\ items \in [Tasks -> Item]
      BY <1>2, TypeFacts
    <3>2. \A d \in Callers : call[d].half \subseteq Tasks \X Tasks
      BY <3>1 DEF CallRecord
    <3>3. call[c].id \in Tasks
      BY <1>1, <1>2, TypeFacts DEF At
    <3> QED
      BY <3>1, <3>2, <3>3 DEF Half
  <2>3. call[c].by = {} /\ call[c].blocks = {} /\ call[c].half = {}
    BY <1>1, <1>2 DEF LinksAreKnown, At
  <2>4. /\ r \in CallRecord /\ r.at = "encoded" /\ r.id = call[c].id
        /\ r.item = call[c].item /\ r.list = items /\ r.torn = Half
        /\ r.by = call[c].by /\ r.blocks = call[c].blocks /\ r.half = call[c].half
    BY <2>2 DEF CallRecord, Places
  <2> HIDE DEF r
  <2>5. r.at = "idle" \/ r.id \in Tasks
    BY <2>2, <2>4
  <2> QED
    BY <1>2, <2>1, <2>3, <2>4, <2>5, CallChanges
<1>4. TypeOK'
  BY <1>1, <1>2, <1>3, TypeFacts DEF TypeOK, At
<1>5. CopiesHold' /\ LinksAreKnown' /\ Half' = Half
  BY <1>1, <1>2, <1>3, CopiesStay DEF At
<1>6. ListsAreSound'
  BY <1>1, <1>2, <1>3, <1>5 DEF ListsAreSound, Sound
<1>7. WorkIsKept'
  BY ZenonT(40), <1>1, <1>2, <1>3 DEF WorkIsKept, Has, Saving, At
<1>8. AnswersKept'
  BY <1>1, <1>2, <1>3 DEF AnswersKept, Saving
<1> QED
  BY <1>4, <1>6, <1>5, <1>7, <1>8 DEF Inv

LEMMA TruncateStep ==
  ASSUME Inv, NEW c \in Callers, Truncate(c)
  PROVE  Inv'
<1>1. /\ ~raced /\ At(c, "encoded")
      /\ file' = [file EXCEPT !.whole = FALSE]
      /\ call' = [call EXCEPT ![c].at = "emptied"]
      /\ UNCHANGED <<items, calls, faults, behind, raced, overtaken, outdated, answered,
                     lost, halves, afterStart>>
  BY DEF Truncate
<1>2. TypeOK /\ ListsAreSound /\ CopiesHold /\ LinksAreKnown /\ WorkIsKept /\ AnswersKept
  BY DEF Inv
<1>3. /\ call' \in [Callers -> CallRecord]
      /\ \A d \in Callers : call'[d].at = "idle" \/ call'[d].id \in Tasks
      /\ \A d \in Callers \ {c} : call'[d] = call[d]
      /\ call'[c].at = "emptied" /\ call'[c].id = call[c].id /\ call'[c].item = call[c].item
      /\ call'[c].list = call[c].list /\ call'[c].torn = call[c].torn
      /\ call'[c].by = {} /\ call'[c].blocks = {} /\ call'[c].half = {}
  <2> DEFINE r == [call[c] EXCEPT !.at = "emptied"]
  <2>1. call' = [call EXCEPT ![c] = r]
    BY <1>1
  <2>2. call[c] \in CallRecord /\ call[c].id \in Tasks
    BY <1>1, <1>2, TypeFacts DEF At
  <2>3. call[c].by = {} /\ call[c].blocks = {} /\ call[c].half = {}
    BY <1>1, <1>2 DEF LinksAreKnown, At
  <2>4. /\ r \in CallRecord /\ r.at = "emptied" /\ r.id = call[c].id
        /\ r.item = call[c].item /\ r.list = call[c].list /\ r.torn = call[c].torn
        /\ r.by = call[c].by /\ r.blocks = call[c].blocks /\ r.half = call[c].half
    BY <2>2 DEF CallRecord, Places
  <2> HIDE DEF r
  <2>5. r.at = "idle" \/ r.id \in Tasks
    BY <2>2, <2>4
  <2> QED
    BY <1>2, <2>1, <2>3, <2>4, <2>5, CallChanges
<1>4. /\ file' \in [whole : BOOLEAN, items : [Tasks -> Item], torn : SUBSET (Tasks \X Tasks)]
      /\ file'.items = file.items /\ file'.torn = file.torn
  BY <1>1, <1>2, TypeFacts
<1>5. TypeOK'
  BY <1>1, <1>2, <1>3, <1>4, TypeFacts DEF TypeOK, At
<1>6. CopiesHold' /\ LinksAreKnown' /\ Half' = Half
  <2>1. ~At(c, "ready") /\ call'[c].at # "ready"
    BY <1>1, <1>3 DEF At
  <2> QED
    BY <1>1, <1>2, <1>3, <2>1, CopiesStay
<1>7. ListsAreSound'
  <2>1. \A d \in Callers : call'[d].list = call[d].list /\ call'[d].torn = call[d].torn
    BY <1>3
  <2> QED
    BY <1>1, <1>2, <1>4, <1>6, <2>1 DEF ListsAreSound, Sound
<1>8. WorkIsKept'
  <2> SUFFICES ASSUME NEW d \in Callers, Saving(d)' \/ At(d, "applied")'
               PROVE  /\ Has(items, d)' /\ call'[d].item.status # "absent"
                      /\ Saving(d)' => Has(call[d].list, d)'
    BY DEF WorkIsKept, Saving, At
  <2>1. /\ call'[d].id = call[d].id /\ call'[d].item = call[d].item
        /\ call'[d].list = call[d].list
    BY <1>3
  <2>2. Saving(d)' => Saving(d)
    BY <1>1, <1>3 DEF Saving, At
  <2>3. Saving(d) \/ At(d, "applied")
    BY <1>1, <1>3 DEF Saving, At
  <2>4. /\ Has(items, d) /\ call[d].item.status # "absent"
        /\ Saving(d) => Has(call[d].list, d)
    BY <1>1, <1>2, <2>3 DEF WorkIsKept
  <2> QED
    BY <1>1, <2>1, <2>2, <2>4 DEF Has
<1>9. AnswersKept'
  BY <1>1, <1>2, <1>3, <1>4 DEF AnswersKept, Saving, At
<1> QED
  BY <1>5, <1>7, <1>6, <1>8, <1>9 DEF Inv

LEMMA WrittenStep ==
  ASSUME Inv, NEW c \in Callers, Written(c)
  PROVE  Inv'
<1> DEFINE id == call[c].id
<1>1. PICK whole \in {TRUE, ~file.whole} :
        /\ ~raced /\ At(c, "emptied")
        /\ file' = [whole |-> whole, items |-> call[c].list, torn |-> call[c].torn]
        /\ call' = [call EXCEPT ![c] = NoCall]
        /\ answered' = [answered EXCEPT ![id] = call[c].item.status]
        /\ outdated' = (c \in overtaken)
        /\ overtaken' = overtaken \cup
             {d \in Callers \ {c} : At(d, "encoded") \/ At(d, "emptied")}
        /\ UNCHANGED <<items, calls, faults, behind, raced, lost, halves, afterStart>>
  BY DEF Written
<1>2. TypeOK /\ ListsAreSound /\ CopiesHold /\ LinksAreKnown /\ WorkIsKept /\ AnswersKept
  BY DEF Inv
<1>3. /\ call' \in [Callers -> CallRecord]
      /\ \A d \in Callers : call'[d].at = "idle" \/ call'[d].id \in Tasks
      /\ \A d \in Callers \ {c} : call'[d] = call[d]
      /\ call'[c].at = "idle" /\ call'[c].list = NoTasks /\ call'[c].id \notin Tasks
      /\ call'[c].by = {} /\ call'[c].blocks = {} /\ call'[c].half = {}
  BY <1>1, <1>2, CallEnds
<1>4. /\ file' \in [whole : BOOLEAN, items : [Tasks -> Item], torn : SUBSET (Tasks \X Tasks)]
      /\ file'.items = call[c].list /\ file'.torn = call[c].torn
  <2>1. /\ whole \in BOOLEAN /\ call[c].list \in [Tasks -> Item]
        /\ call[c].torn \in SUBSET (Tasks \X Tasks)
    BY <1>1, <1>2, TypeFacts DEF CallRecord
  <2> QED
    BY <1>1, <2>1
<1>5. /\ id \in Tasks
      /\ answered' \in [Tasks -> Statuses \cup {"absent"}]
      /\ answered'[id] = call[c].item.status
      /\ \A t \in Tasks \ {id} : answered'[t] = answered[t]
  <2>1. id \in Tasks /\ call[c].item.status \in Statuses \cup {"absent"}
    BY <1>1, <1>2, TypeFacts DEF At, Item, CallRecord
  <2>2. answered \in [Tasks -> Statuses \cup {"absent"}]
    BY <1>2, TypeFacts
  <2> QED
    BY <1>1, <2>1, <2>2
<1>6. TypeOK'
  <2>1. outdated' \in BOOLEAN /\ overtaken' \subseteq Callers
    BY <1>1, <1>2, TypeFacts
  <2> QED
    BY <1>1, <1>2, <1>3, <1>4, <1>5, <2>1, TypeFacts DEF TypeOK, At
<1>7. CopiesHold' /\ LinksAreKnown' /\ Half' = Half
  BY <1>1, <1>2, <1>3, CopiesStay DEF At
<1>8. ListsAreSound'
  <2>1. \A d \in Callers : Sound(call[d].list, call[d].torn)'
    BY <1>1, <1>2, <1>3, NoTasksIsSound DEF ListsAreSound, Sound
  <2> QED
    BY <1>1, <1>2, <1>4, <1>7, <2>1 DEF ListsAreSound, Sound
<1>9. WorkIsKept'
  BY <1>1, <1>2, <1>3 DEF WorkIsKept, Has, Saving, At
<1>10. AnswersKept'
  <2>1. Has(items, c) /\ Has(call[c].list, c)
    BY <1>1, <1>2 DEF WorkIsKept, Saving, At
  <2>2. ASSUME NEW list, Stand(answered, list), Has(list, c)
        PROVE  Stand(answered', list)
    BY <1>5, <2>2 DEF Stand, Has
  <2>3. ASSUME ~lost'
        PROVE  Stand(answered', items')
    BY <1>1, <1>2, <2>1, <2>2, <2>3 DEF AnswersKept
  <2>4. ASSUME ~lost', ~outdated'
        PROVE  Stand(answered', file'.items)
    BY <1>1, <1>2, <1>4, <2>1, <2>2, <2>4 DEF AnswersKept, Saving, At
  <2>5. \A d \in Callers \ overtaken' : ~Saving(d)'
    BY <1>1, <1>3 DEF Saving, At
  <2> QED
    BY <2>3, <2>4, <2>5 DEF AnswersKept
<1> QED
  BY <1>6, <1>8, <1>7, <1>9, <1>10 DEF Inv

LEMMA SaveFailsStep ==
  ASSUME Inv, NEW c \in Callers, SaveFails(c)
  PROVE  Inv'
<1>1. /\ ~raced /\ ~At(c, "ready")
      /\ faults < MaxFaults /\ faults' = faults + 1
      /\ file' = file \/ file' = [file EXCEPT !.whole = FALSE]
      /\ call' = [call EXCEPT ![c] = NoCall]
      /\ UNCHANGED <<items, calls, behind, raced, overtaken, outdated, answered,
                     lost, halves, afterStart>>
  BY DEF SaveFails, At
<1>2. TypeOK /\ ListsAreSound /\ CopiesHold /\ LinksAreKnown /\ WorkIsKept /\ AnswersKept
  BY DEF Inv
<1>3. /\ call' \in [Callers -> CallRecord]
      /\ \A d \in Callers : call'[d].at = "idle" \/ call'[d].id \in Tasks
      /\ \A d \in Callers \ {c} : call'[d] = call[d]
      /\ call'[c].at = "idle" /\ call'[c].list = NoTasks /\ call'[c].id \notin Tasks
      /\ call'[c].by = {} /\ call'[c].blocks = {} /\ call'[c].half = {}
  BY <1>1, <1>2, CallEnds
<1>4. /\ file' \in [whole : BOOLEAN, items : [Tasks -> Item], torn : SUBSET (Tasks \X Tasks)]
      /\ file'.items = file.items /\ file'.torn = file.torn
  BY <1>1, <1>2, TypeFacts
<1>5. TypeOK'
  <2>1. faults' \in 0..MaxFaults
    BY <1>1, <1>2, TypeFacts, TaskListAssumption
  <2> QED
    BY <1>1, <1>2, <1>3, <1>4, <2>1, TypeFacts DEF TypeOK, At
<1>6. CopiesHold' /\ LinksAreKnown' /\ Half' = Half
  BY <1>1, <1>2, <1>3, CopiesStay
<1>7. ListsAreSound'
  <2>1. \A d \in Callers : Sound(call[d].list, call[d].torn)'
    BY <1>1, <1>2, <1>3, NoTasksIsSound DEF ListsAreSound, Sound
  <2> QED
    BY <1>1, <1>2, <1>4, <1>6, <2>1 DEF ListsAreSound, Sound
<1>8. WorkIsKept'
  BY <1>1, <1>2, <1>3 DEF WorkIsKept, Has, Saving, At
<1>9. AnswersKept'
  BY <1>1, <1>2, <1>3, <1>4 DEF AnswersKept, Saving
<1> QED
  BY <1>5, <1>7, <1>6, <1>8, <1>9 DEF Inv

LEMMA RestartStep ==
  ASSUME Inv, Restart
  PROVE  Inv'
<1>1. /\ ~raced /\ faults < MaxFaults /\ faults' = faults + 1
      /\ items' = IF file.whole THEN file.items ELSE NoTasks
      /\ call' = [c \in Callers |-> NoCall]
      /\ behind' = {} /\ overtaken' = {}
      /\ lost' = (lost \/ outdated \/ ~file.whole)
      /\ halves' = halves \cup file.torn
      /\ UNCHANGED <<file, calls, raced, outdated, answered, afterStart>>
  BY DEF Restart
<1>2. TypeOK /\ ListsAreSound /\ AnswersKept
  BY DEF Inv
<1>3. /\ \A c \in Callers : /\ call'[c].at = "idle" /\ call'[c].list = NoTasks
                            /\ call'[c].by \cup call'[c].blocks \cup call'[c].half = {}
      /\ call' \in [Callers -> CallRecord]
  BY <1>1, NoCallIsTyped
<1>4. items' \in [Tasks -> Item]
  BY <1>1, <1>2, TypeFacts, NoTasksIsSound
<1>5. TypeOK'
  <2>1. faults' \in 0..MaxFaults /\ lost' \in BOOLEAN
    BY <1>1, <1>2, TypeFacts, TaskListAssumption
  <2>2. halves' \cup afterStart' \subseteq Tasks \X Tasks
    BY <1>1, <1>2, TypeFacts
  <2> QED
    BY <1>1, <1>2, <1>3, <1>4, <2>1, <2>2, TypeFacts DEF TypeOK, At
<1>6. ListsAreSound'
  <2>1. Half' = {}
    BY <1>3 DEF Half
  <2>2. Sound(file.items, file.torn)
    BY <1>1, <1>2 DEF ListsAreSound
  <2>3. Sound(items, Half)'
    <3>1. Closed(file.items) /\ Agree(file.items, halves' \cup {}) /\ InOrder(file.items, afterStart')
      BY <1>1, <2>2, StaysSound
    <3> QED
      BY <1>1, <2>1, <3>1, NoTasksIsSound DEF Sound
  <2>4. Sound(file.items, file.torn)'
    BY <1>1, <2>2, StaysSound DEF Sound
  <2>5. \A c \in Callers : Sound(call[c].list, call[c].torn)'
    BY <1>3, NoTasksIsSound DEF Sound
  <2> QED
    BY <2>3, <2>4, <2>5 DEF ListsAreSound
<1>7. CopiesHold' /\ LinksAreKnown' /\ WorkIsKept'
  BY <1>3 DEF CopiesHold, LinksAreKnown, WorkIsKept, Saving, At
<1>8. AnswersKept'
  BY <1>1, <1>2, <1>3 DEF AnswersKept, Saving
<1> QED
  BY <1>5, <1>6, <1>7, <1>8 DEF Inv

LEMMA NextInv == Inv /\ [Next]_vars => Inv'
<1> SUFFICES ASSUME Inv, [Next]_vars
             PROVE  Inv'
  OBVIOUS
<1>1. CASE \E c \in Callers : Create(c) \/ Update(c)
  BY <1>1, BeginStep
<1>2. CASE \E c \in Callers : Grow(c) \/ LinkNext(c)
  BY <1>2, GrowStep, LinkStep
<1>3. CASE \E c \in Callers : Apply(c) \/ ApplyFails(c)
  BY <1>3, ApplyStep, ApplyFailsStep
<1>4. CASE \E c \in Callers : Encode(c) \/ Truncate(c)
  BY <1>4, EncodeStep, TruncateStep
<1>5. CASE \E c \in Callers : Written(c) \/ SaveFails(c)
  BY <1>5, WrittenStep, SaveFailsStep
<1>6. CASE Restart
  BY <1>6, RestartStep
<1>7. CASE UNCHANGED vars
  <2>1. TypeOK' /\ AnswersKept' /\ WorkIsKept'
    BY <1>7 DEF vars, Inv, TypeOK, WorkIsKept, Has, Saving, AnswersKept, At
  <2>2. ListsAreSound'
    <3>1. Half' = Half
      BY <1>7 DEF vars, Half
    <3> QED
      BY <1>7, <3>1 DEF vars, Inv, ListsAreSound, Sound
  <2>3. CopiesHold'
    <3> SUFFICES ASSUME ~raced, NEW d \in Callers \ behind, call[d].at = "ready"
                 PROVE  CopyHolds(d)'
      BY <1>7 DEF vars, CopiesHold, At
    <3>1. CopyHolds(d)
      BY DEF Inv, CopiesHold, At
    <3> QED
      BY <1>7, <3>1 DEF vars, CopyHolds
  <2>4. LinksAreKnown'
    BY <1>7 DEF vars, Inv, LinksAreKnown, At
  <2> QED
    BY <2>1, <2>2, <2>3, <2>4 DEF Inv
<1> QED
  BY <1>1, <1>2, <1>3, <1>4, <1>5, <1>6, <1>7 DEF Next

LEMMA Invariance == Spec => []Inv
BY InitInv, NextInv, PTL DEF Spec
-----------------------------------------------------------------------------
(***************************************************************************)
(* The two sides of a dependency agree at every step of handleCreate and   *)
(* handleUpdate, but for the links under way, those written before an      *)
(* unknown id, those that a save took half-written into a list that a      *)
(* restart begins from, and links of a task to itself.                     *)
(***************************************************************************)
THEOREM LinksAlwaysAgree == Spec => []LinksAgree
<1>1. Inv => LinksAgree
  BY DEF Inv, ListsAreSound, Sound, LinksAgree
<1> QED
  BY <1>1, Invariance, PTL

(***************************************************************************)
(* A task that was started never has an unfinished blocker but those       *)
(* linked after its start: checkBlockers looks at a copy of the list, and  *)
(* no call that does not race can have made it wrong.                      *)
(***************************************************************************)
THEOREM BlockersAlwaysFirst == Spec => []BlockersComeFirst
<1>1. Inv => BlockersComeFirst
  BY DEF Inv, ListsAreSound, Sound, BlockersComeFirst
<1> QED
  BY <1>1, Invariance, PTL

(***************************************************************************)
(* What TaskCreate and TaskUpdate have answered PASS for stays, through    *)
(* later calls, failed writes and restarts that find the latest list.      *)
(***************************************************************************)
THEOREM AnswersAlwaysStand == Spec => []AnswersStand
<1>1. Inv => AnswersStand
  BY DEF Inv, AnswersKept, AnswersStand
<1> QED
  BY <1>1, Invariance, PTL
=============================================================================
