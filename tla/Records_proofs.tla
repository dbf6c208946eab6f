--------------------------- MODULE Records_proofs ---------------------------
(***************************************************************************)
(* Theorems about the steps of module Records, for any desks that keep the  *)
(* assumptions of that module, any callers, and any number of rows, calls   *)
(* and requests in flight.                                                  *)
(***************************************************************************)
EXTENDS Records, TLAPS, NaturalsInduction, WellFoundedInduction, FiniteSetTheorems

-----------------------------------------------------------------------------
(* The inductive invariant, in parts.                                      *)

Ents == {"none", "platform", "e1", "e2"} \cup Named \cup {who.ent : who \in Callers}
Kinds(d) == {o.kind : o \in Writes(d)}
Statuses(d) == {"none"} \cup {o.to : o \in Writes(d)} \cup {o.above : o \in Writes(d)}
RowSet(d) ==
    [kind : {"none"} \cup Kinds(d), life : {"absent", "live", "deleted"}, ent : Ents,
     status : Statuses(d), text : Texts, mark : BOOLEAN, under : Ids \cup {NoRow}]

(* What a row may be; the statuses it has had are statuses, and end with    *)
(* its own; a table belongs to the platform or its rows have an enterprise. *)
RowOK(r) ==
    /\ row[r].status \in was[r]
    /\ row[r].life = "absent" => row[r] = Absent /\ was[r] = {"none"}
    /\ row[r].life # "absent" =>
           /\ row[r].kind \in Kinds(desk)
           /\ row[r].ent # "none"
           /\ row[r].kind \in SharedKinds(desk) <=> row[r].ent = "platform"
RowsOK ==
    /\ desk \in DOMAIN Desks
    /\ row \in [Ids -> RowSet(desk)]
    /\ was \in [Ids -> SUBSET Statuses(desk)]
    /\ sent \in [Ids -> Texts \cup {"never"}]
    /\ raced \in SUBSET Ids
    /\ \A r \in Ids : RowOK(r)

(* What a call remembers: the image of a row that was not absent, in a      *)
(* status the operation accepts and the row has had.                        *)
ChangeOK(k) ==
    /\ k.row \in Ids /\ row[k.row].kind = k.op.kind
    /\ k.seen \in RowSet(desk) /\ k.seen.kind = k.op.kind
    /\ k.seen.life \in {"live", "deleted"} /\ (k.op.find # "blind" => k.seen.life = "live")
    /\ k.seen.ent = row[k.row].ent /\ (k.op.find = "own" => k.seen.ent = k.who.ent)
    /\ k.seen.status \in was[k.row]
    /\ k.op.from # AnyStatus => k.seen.status \in k.op.from
(* A row that belongs to its parent has one.                               *)
ParentThere(op, parent) ==
    op.find = "parent" =>
        parent \in Ids /\ row[parent].kind = op.needs /\ row[parent].life # "absent"
CallOK(k) ==
    /\ k.op \in Writes(desk) /\ k.who \in MayCall(k.op)
    /\ k.parent \in Ids \cup {NoRow} /\ ParentThere(k.op, k.parent)
    /\ IF Inserts(k.op) THEN k.row = NoRow /\ OwnerOf(k.op, k.who, k.parent) # "none"
       ELSE ChangeOK(k)
CallsOK == \A c \in InFlight : CallOK(call[c])

(* Calls that touch one row, as the row or as its parent, have raced.       *)
PairsRaced ==
    \A c, d \in InFlight : c # d =>
        {call[c].row, call[c].parent} \cap {call[d].row, call[d].parent} \subseteq raced \cup {NoRow}

(* With every status of the ladder, a row has had the one below it.        *)
LadderKept ==
    desk \notin Direct => \A r \in Ids : row[r].kind \in DOMAIN Ladder =>
        \A s \in was[r] \cap DOMAIN Ladder[row[r].kind] : Ladder[row[r].kind][s] \in was[r]

(* An image of a department or a request that was read is still the row,    *)
(* unless calls raced on it.                                                *)
Fresh ==
    \A c \in InFlight :
        ~Inserts(call[c].op) /\ call[c].op.kind \in {"department", "request"} /\ call[c].row \notin raced
            => call[c].seen = row[call[c].row]

(* A submitted request is what was submitted.                              *)
SubmittedAsSent ==
    \A r \in Ids \ raced :
        row[r].kind = "request" /\ row[r].status \in {"pending_approval", "approved"}
            => row[r].text = sent[r]

(* Departments hang under departments, a call under way holds a live parent *)
(* and no department is being deleted that has children, but for races.     *)
IsDepartment(p) == p = NoRow \/ (p \in Ids /\ row[p].kind = "department")
ParentsOK ==
    /\ \A r \in Ids \ raced : row[r].kind = "department" => IsDepartment(row[r].under)
    /\ \A c \in InFlight : call[c].op.kind = "department" =>
          /\ IsDepartment(call[c].parent)
          /\ call[c].parent \notin raced \cup {NoRow} => Live(call[c].parent)
          /\ call[c].op.via = "remove" /\ call[c].row \notin raced =>
                \A s \in Ids \ raced : row[s].kind = "department" /\ Live(s)
                                           => row[s].under # call[c].row

RecordsInv ==
    RowsOK /\ CallsOK /\ PairsRaced /\ LadderKept /\ Fresh /\ SubmittedAsSent /\ ParentsOK
    /\ ParentOutlivesChild

-----------------------------------------------------------------------------
(* Lemmas about the operators.                                             *)

NewCall(op, who, r, parent) ==
    [op |-> op, who |-> who, row |-> r, parent |-> parent,
     seen |-> IF r = NoRow THEN Absent ELSE row[r]]
Begins(c, op, who, r, parent) ==
    /\ Begin(c, op, who, r, parent) /\ left > 0
    /\ op \in Writes(desk) /\ who \in MayCall(op) /\ parent \in Parents(op, who)
    /\ IF Inserts(op) THEN r = NoRow ELSE r \in Finds(op, who)

(* A nonempty set of numbers has a least one.                              *)
LEMMA NatMin ==
  ASSUME NEW T \in SUBSET Nat, T # {}
  PROVE  Min(T) \in T /\ \A y \in T : Min(T) <= y
<1>1. IsWellFoundedOn(OpToRel(<, Nat), Nat)
  BY NatLessThanWellFounded
<1>2. PICK x \in T : \A y \in T : ~ (<<y, x>> \in OpToRel(<, Nat))
  BY <1>1, WFMin, Zenon
<1>3. \A y \in T : ~ (y < x)
  BY <1>2 DEF OpToRel
<1>4. \A y \in T : x <= y
  BY <1>3
<1> QED BY <1>4 DEF Min

(* A step begins a call, ends one, or touches neither rows nor calls.      *)
LEMMA NextCases ==
  ASSUME [Next]_vars
  PROVE  \/ \E c, op, who, r, parent : Begins(c, op, who, r, parent)
         \/ \E c : Store(c)
         \/ \E c : Fail(c)
         \/ UNCHANGED <<desk, row, call, left, was, sent, raced>>
<1>1. CASE UNCHANGED vars
  BY <1>1 DEF vars
<1>2. ASSUME left > 0,
             NEW op \in Desks[desk], NEW who \in MayCall(op), NEW c,
             BeginInsert(c, op, who) \/ BeginChange(c, op, who)
      PROVE  \E r, parent : Begins(c, op, who, r, parent)
  <2>1. CASE BeginInsert(c, op, who)
    <3>1. PICK parent \in Parents(op, who) : Begin(c, op, who, NoRow, parent)
      BY <2>1 DEF BeginInsert
    <3>2. op \in Writes(desk) /\ Inserts(op)
      BY <2>1 DEF BeginInsert, Inserts, Writes
    <3> QED BY <1>2, <3>1, <3>2 DEF Begins
  <2>2. CASE BeginChange(c, op, who)
    <3>1. PICK r \in Finds(op, who), parent \in Parents(op, who) : Begin(c, op, who, r, parent)
      BY <2>2 DEF BeginChange
    <3>2. op \in Writes(desk) /\ ~Inserts(op)
      BY <2>2 DEF BeginChange, Lookup, Writes
    <3> QED BY <1>2, <3>1, <3>2 DEF Begins
  <2> QED BY <1>2, <2>1, <2>2
<1>3. ASSUME NEW op, NEW who, NEW size, StartWalk(op, who, size)
      PROVE  UNCHANGED <<desk, row, call, left, was, sent, raced>>
  BY <1>3 DEF StartWalk
<1>4. ASSUME ReadPage
      PROVE  UNCHANGED <<desk, row, call, left, was, sent, raced>>
  BY <1>4 DEF ReadPage
<1> QED BY <1>1, <1>2, <1>3, <1>4 DEF Next

(* The columns an operation does not name stay.                            *)
LEMMA ChangedRow ==
  ASSUME desk \in DOMAIN Desks, NEW image \in RowSet(desk), NEW k, k.op \in Writes(desk),
         k.parent \in Ids \cup {NoRow}
  PROVE  /\ Changed(image, k) \in RowSet(desk)
         /\ Changed(image, k).kind = image.kind
         /\ Changed(image, k).life = image.life
         /\ Changed(image, k).ent = image.ent
         /\ Changed(image, k).status
              = IF "status" \in k.op.columns /\ k.op.to # Same THEN k.op.to ELSE image.status
         /\ Changed(image, k).text
              = IF "text" \in k.op.columns THEN Other(k.seen.text) ELSE image.text
         /\ Changed(image, k).under
              = IF "under" \in k.op.columns THEN k.parent ELSE image.under
<1>1. Other(k.seen.text) \in Texts
  BY DEF Other, Texts
<1> QED BY <1>1 DEF Changed, RowSet, Statuses

(* The calls in flight after one begins and after one ends.                *)
LEMMA BegunCalls ==
  ASSUME NEW c, NEW op, NEW who, NEW r, NEW parent, Begin(c, op, who, r, parent)
  PROVE  /\ DOMAIN call' = InFlight \cup {c}
         /\ call'[c] = NewCall(op, who, r, parent)
         /\ \A d \in InFlight : d # c => call'[d] = call[d]
BY DEF Begin, NewCall, InFlight

(* The calls that are left in flight are as they were.                      *)
LEMMA EndedCalls ==
  ASSUME NEW c, call' = Others(c)
  PROVE  DOMAIN call' = InFlight \ {c} /\ \A d \in DOMAIN call' : call'[d] = call[d]
BY DEF Others, InFlight, Restrict

(* A call is a request of one of the callers, or the timer's.              *)
LEMMA CallerTypes ==
  ASSUME NEW d \in DOMAIN Desks, NEW op \in Writes(d), NEW who \in MayCall(op)
  PROVE  /\ who.ent \in Ents /\ who.ent # "platform"
         /\ op.gate = Scheduled => who = Timer
         /\ op.gate # Scheduled => RequirePermission(who.role, op.gate)
                                   /\ (op.tenant => who.ent # "none")
<1>1. CASE op.gate = Scheduled
  BY <1>1 DEF MayCall, Ents, Timer
<1>2. CASE op.gate # Scheduled
  <2>1. /\ who \in Requests /\ RequirePermission(who.role, op.gate)
        /\ (op.tenant => who.ent # "none")
    BY <1>2 DEF MayCall
  <2>2. PICK c \in Callers :
            who \in {[ent |-> e, role |-> c.role, home |-> c.ent, granted |-> c.granted] :
                        e \in Named \cup {c.ent}}
    BY <2>1 DEF Requests
  <2>3. who.ent \in Named \cup {c.ent}
    BY <2>2
  <2> QED BY <1>2, <2>1, <2>3, OwnersAssumption DEF Ents
<1> QED BY <1>1, <1>2

(* A row belongs to the platform just in the tables without an enterprise,  *)
(* whose rows are not a parent's.                                           *)
LEMMA OwnerTypes ==
  ASSUME RowsOK, NEW op \in Writes(desk), NEW who \in MayCall(op), NEW parent,
         ParentThere(op, parent)
  PROVE  /\ OwnerOf(op, who, parent) \in Ents
         /\ OwnerOf(op, who, parent) = "platform" <=> op.find = "shared"
         /\ op.find = "parent" => OwnerOf(op, who, parent) # "none"
<1>1. desk \in DOMAIN Desks
  BY DEF RowsOK
<1>2. CASE op.find = "shared"
  BY <1>2 DEF OwnerOf, Ents
<1>3. CASE op.find = "parent"
  <2>1. parent \in Ids /\ row[parent].kind = op.needs /\ row[parent].life # "absent"
    BY <1>3 DEF ParentThere
  <2>2. row[parent] \in RowSet(desk) /\ RowOK(parent)
    BY <2>1 DEF RowsOK
  <2>3. op.needs \notin SharedKinds(desk)
    BY <1>1, <1>3, OwnersAssumption
  <2>4. row[parent].ent \in Ents \ {"none", "platform"}
    BY <2>1, <2>2, <2>3 DEF RowOK, RowSet
  <2> QED BY <1>3, <2>4 DEF OwnerOf
<1>4. CASE op.find \notin {"shared", "parent"}
  BY <1>1, <1>4, CallerTypes DEF OwnerOf
<1> QED BY <1>2, <1>3, <1>4

-----------------------------------------------------------------------------
(* What one statement does to one row.                                     *)

Rewritten(k, r, new) ==
    /\ ~Inserts(k.op) /\ r = k.row
    /\ \/ k.op.via = "save" /\ new = Changed(k.seen, k)
       \/ /\ Meets(k)
          /\ \/ k.op.via = "columns" /\ Live(r) /\ new = Changed(row[r], k)
             \/ k.op.via = "raw" /\ new = Changed(row[r], k)
             \/ k.op.via = "restore" /\ new = [row[r] EXCEPT !.life = "live"]
             \/ k.op.via = "remove" /\ Live(r) /\ new = [row[r] EXCEPT !.life = "deleted"]
Placed(k, r, new) ==
    /\ Inserts(k.op)
    /\ \/ Replaced(k, r) /\ new = [row[r] EXCEPT !.life = "deleted"]
       \/ Raised(k, r) /\ new = [row[r] EXCEPT !.status = k.op.above]
       \/ /\ row[r].life = "absent"
          /\ \E end : new = NewRow(k.op, OwnerOf(k.op, k.who, k.parent), k.parent, end)

(* An update or delete leaves the row alone or rewrites it.                *)
LEMMA AlteredRow ==
  ASSUME NEW k, ~Inserts(k.op), k.op.via \in {"save", "columns", "raw", "restore", "remove"}
  PROVE  Altered(k) = row[k.row] \/ Rewritten(k, k.row, Altered(k))
<1> DEFINE saved    == Changed(k.seen, k)
           restored == [row[k.row] EXCEPT !.life = "live"]
           changed  == Changed(row[k.row], k)
           removed  == [row[k.row] EXCEPT !.life = "deleted"]
<1>1. Altered(k) =
          IF k.op.via = "save" THEN saved
          ELSE IF ~Meets(k) \/ (k.op.via \notin {"restore", "raw"} /\ ~Live(k.row)) THEN row[k.row]
          ELSE CASE k.op.via = "restore" -> restored
                 [] k.op.via \in {"columns", "raw"} -> changed
                 [] k.op.via = "remove"  -> removed
  BY DEF Altered
<1>2. Rewritten(k, k.row, Altered(k)) <=>
         \/ k.op.via = "save" /\ Altered(k) = saved
         \/ /\ Meets(k)
            /\ \/ k.op.via = "columns" /\ Live(k.row) /\ Altered(k) = changed
               \/ k.op.via = "raw" /\ Altered(k) = changed
               \/ k.op.via = "restore" /\ Altered(k) = restored
               \/ k.op.via = "remove" /\ Live(k.row) /\ Altered(k) = removed
  BY DEF Rewritten
<1> HIDE DEF saved, restored, changed, removed
<1> QED BY <1>1, <1>2

(* A statement leaves a row alone, writes the row of its call, or is an     *)
(* insert: of a new row, of the end of the siblings, of the parent's status. *)
LEMMA StoredRow ==
  ASSUME RowsOK, CallsOK, NEW c, Store(c)
  PROVE  /\ c \in InFlight /\ CallOK(call[c])
         /\ call' = Others(c)
         /\ row' = [r \in Ids |-> row'[r]]
         /\ \A r \in Ids : \/ row'[r] = row[r]
                           \/ Rewritten(call[c], r, row'[r])
                           \/ Placed(call[c], r, row'[r])
<1> DEFINE k == call[c]
<1>1. c \in InFlight /\ CallOK(k) /\ call' = Others(c)
  BY DEF Store, CallsOK
<1>2. PICK end \in k.op.ends :
          row' = IF Inserts(k.op) THEN Added(k, end) ELSE [row EXCEPT ![k.row] = Altered(k)]
  BY DEF Store
<1>3. DOMAIN row = Ids
  BY DEF RowsOK
<1>4. CASE Inserts(k.op)
  <2>1. row' = Added(k, end) /\ row' = [r \in Ids |-> row'[r]]
    BY <1>2, <1>4 DEF Added
  <2>2. Unused # {} /\ Min(Unused) \in Unused
    <3>1. Unused \in SUBSET Nat
      BY DesksAssumption DEF Unused, Ids
    <3>2. Unused # {}
      BY <1>4 DEF Store
    <3> QED BY <3>1, <3>2, NatMin
  <2>3. ASSUME NEW r \in Ids
        PROVE  row'[r] = row[r] \/ Placed(k, r, row'[r])
    <3> DEFINE new == NewRow(k.op, OwnerOf(k.op, k.who, k.parent), k.parent, end)
    <3>1. row'[r] = CASE Replaced(k, r) -> [row[r] EXCEPT !.life = "deleted"]
                      [] Raised(k, r)   -> [row[r] EXCEPT !.status = k.op.above]
                      [] r = Min(Unused) /\ end # "cleared" -> new
                      [] OTHER          -> row[r]
      BY <2>1 DEF Added
    <3>2. \/ row'[r] = row[r]
          \/ Replaced(k, r) /\ row'[r] = [row[r] EXCEPT !.life = "deleted"]
          \/ Raised(k, r) /\ row'[r] = [row[r] EXCEPT !.status = k.op.above]
          \/ r = Min(Unused) /\ row'[r] = new
      <4> HIDE DEF new, k
      <4> QED BY <3>1
    <3>3. r = Min(Unused) => row[r].life = "absent"
      BY <2>2 DEF Unused
    <3> QED BY <1>4, <3>2, <3>3 DEF Placed
  <2> QED BY <1>1, <2>1, <2>3
<1>5. CASE ~Inserts(k.op)
  <2>1. row' = [row EXCEPT ![k.row] = Altered(k)]
    BY <1>2, <1>5
  <2>2. k.row \in Ids /\ k.op.via \in {"save", "columns", "raw", "restore", "remove"}
    BY <1>1, <1>5, DesksAssumption DEF CallOK, ChangeOK, RowsOK, Inserts
  <2>3. \/ Altered(k) = row[k.row]
        \/ Rewritten(k, k.row, Altered(k))
    BY <1>5, <2>2, AlteredRow
  <2>4. row' = [r \in Ids |-> row'[r]]
    BY <1>3, <2>1
  <2>5. \A r \in Ids : row'[r] = IF r = k.row THEN Altered(k) ELSE row[r]
    BY <1>3, <2>1
  <2> QED BY <1>1, <2>2, <2>3, <2>4, <2>5
<1> QED BY <1>4, <1>5

(* A row keeps its kind and its enterprise, and is never absent again.     *)
LEMMA StoredFacts ==
  ASSUME RowsOK, CallsOK, NEW c, Store(c), NEW r \in Ids
  PROVE  /\ row'[r] \in RowSet(desk)
         /\ row[r].life # "absent" => /\ row'[r].life # "absent" /\ row'[r].kind = row[r].kind
                                      /\ row'[r].ent = row[r].ent
         /\ row[r].life = "absent" =>
               \/ row'[r] = row[r]
               \/ \E end : /\ Inserts(call[c].op)
                           /\ row'[r] = NewRow(call[c].op,
                                               OwnerOf(call[c].op, call[c].who, call[c].parent),
                                               call[c].parent, end)
<1> DEFINE k == call[c]
<1>1. CallOK(k) /\ (row'[r] = row[r] \/ Rewritten(k, r, row'[r]) \/ Placed(k, r, row'[r]))
  BY StoredRow
<1>2. row[r] \in RowSet(desk) /\ desk \in DOMAIN Desks /\ RowOK(r)
  BY DEF RowsOK
<1>3. k.op \in Writes(desk) /\ k.parent \in Ids \cup {NoRow}
  BY <1>1 DEF CallOK
<1>4. k.op.kind # "none"
  BY <1>2, <1>3, DesksAssumption
<1>5. CASE row'[r] = row[r]
  BY <1>2, <1>5
<1>6. CASE Rewritten(k, r, row'[r])
  <2>1. ~Inserts(k.op) /\ ChangeOK(k) /\ r = k.row
    BY <1>1, <1>6 DEF Rewritten, CallOK
  <2>2. row[r].life # "absent"
    BY <1>2, <1>4, <2>1 DEF ChangeOK, RowOK, Absent
  <2>3. k.seen \in RowSet(desk) /\ k.seen.kind = row[r].kind /\ k.seen.ent = row[r].ent
        /\ k.seen.life # "absent"
    BY <2>1 DEF ChangeOK
  <2>4. ASSUME row'[r] = Changed(k.seen, k) \/ row'[r] = Changed(row[r], k)
        PROVE  /\ row'[r] \in RowSet(desk) /\ row'[r].life # "absent"
               /\ row'[r].kind = row[r].kind /\ row'[r].ent = row[r].ent
    <3> HIDE DEF k
    <3>1. CASE row'[r] = Changed(k.seen, k)
      BY <1>2, <1>3, <2>3, <3>1, ChangedRow
    <3>2. CASE row'[r] = Changed(row[r], k)
      BY <1>2, <1>3, <2>2, <3>2, ChangedRow
    <3> QED BY <2>4, <3>1, <3>2
  <2>5. ASSUME NEW life \in {"live", "deleted"}, row'[r] = [row[r] EXCEPT !.life = life]
        PROVE  /\ row'[r] \in RowSet(desk) /\ row'[r].life # "absent"
               /\ row'[r].kind = row[r].kind /\ row'[r].ent = row[r].ent
    BY <1>2, <2>5 DEF RowSet
  <2> QED BY <1>6, <2>2, <2>4, <2>5 DEF Rewritten
<1>7. CASE Placed(k, r, row'[r])
  <2>1. CASE Replaced(k, r) /\ row'[r] = [row[r] EXCEPT !.life = "deleted"]
    BY <1>2, <2>1 DEF RowSet, Replaced, Live
  <2>2. CASE Raised(k, r) /\ row'[r] = [row[r] EXCEPT !.status = k.op.above]
    <3>1. k.op.above \in Statuses(desk)
      BY <1>3 DEF Statuses
    <3> QED BY <1>2, <2>2, <3>1 DEF RowSet, Raised, Live
  <2>3. ASSUME row[r].life = "absent",
               NEW end, row'[r] = NewRow(k.op, OwnerOf(k.op, k.who, k.parent), k.parent, end)
        PROVE  row'[r] \in RowSet(desk)
    <3>1. OwnerOf(k.op, k.who, k.parent) \in Ents
      BY <1>1, <1>2, OwnerTypes DEF CallOK
    <3>2. k.op.kind \in Kinds(desk) /\ k.op.to \in Statuses(desk)
      BY <1>3 DEF Kinds, Statuses
    <3> QED BY <1>3, <2>3, <3>1, <3>2 DEF NewRow, RowSet, Texts
  <2> QED BY <1>7, <2>1, <2>2, <2>3 DEF Placed
<1> QED BY <1>1, <1>5, <1>6, <1>7

-----------------------------------------------------------------------------
(* The beginning of a call.                                                *)

(* A parent that is looked up is a live row, of the request's enterprise or *)
(* the platform unless the row is to be its, and there is none unless the   *)
(* operation asks for one.                                                  *)
LEMMA ParentTypes ==
  ASSUME RowsOK, NEW op, NEW who, NEW parent \in Parents(op, who)
  PROVE  /\ parent \in Ids \cup {NoRow}
         /\ op.needs # "none" =>
               /\ parent \in Ids /\ row[parent].kind = op.needs /\ Live(parent)
               /\ op.find = "parent" \/ row[parent].ent \in {who.ent, "platform"}
         /\ op.needs = "none" /\ op.above = Same => parent = NoRow
BY DEF Parents, Ids, NoRow

(* An insert that is begun gives its row an enterprise.                    *)
LEMMA InsertHasOwner ==
  ASSUME RowsOK, NEW op \in Writes(desk), Inserts(op), NEW who \in MayCall(op),
         NEW parent \in Parents(op, who)
  PROVE  ParentThere(op, parent) /\ OwnerOf(op, who, parent) # "none"
<1>1. desk \in DOMAIN Desks
  BY DEF RowsOK
<1>2. op.gate # Scheduled
  BY <1>1, DesksAssumption DEF Inserts
<1>3. op.tenant => who.ent # "none"
  BY <1>1, <1>2, CallerTypes
<1>4. ParentThere(op, parent)
  <2> SUFFICES ASSUME op.find = "parent"
               PROVE  parent \in Ids /\ row[parent].kind = op.needs /\ row[parent].life # "absent"
    BY DEF ParentThere
  <2>1. op.needs # "none"
    BY <1>1, DesksAssumption
  <2> QED BY <2>1, ParentTypes DEF Live
<1> SUFFICES OwnerOf(op, who, parent) # "none"
  BY <1>4
<1>5. CASE op.find = "shared"
  BY <1>5 DEF OwnerOf
<1>6. CASE op.find \notin {"shared", "parent"} /\ op.tenant
  BY <1>3, <1>6 DEF OwnerOf
<1>7. CASE op.find \notin {"shared", "parent"} /\ op.needs # "none"
           /\ op.needs \notin SharedKinds(desk)
  <2>1. parent \in Ids /\ row[parent].kind = op.needs /\ Live(parent)
        /\ row[parent].ent \in {who.ent, "platform"}
    BY <1>7, ParentTypes
  <2>2. row[parent].ent # "none" /\ row[parent].ent # "platform"
    BY <1>7, <2>1 DEF RowsOK, RowOK, Live
  <2> QED BY <1>7, <2>1, <2>2 DEF OwnerOf
<1>8. CASE op.find = "parent"
  BY <1>4, <1>8, OwnerTypes
<1> QED BY <1>1, <1>2, <1>5, <1>6, <1>7, <1>8, OwnersAssumption

(* A row that is found is not absent, and is live unless it was not read.  *)
LEMMA FoundRow ==
  ASSUME RowsOK, NEW op \in Writes(desk), ~Inserts(op), NEW who, NEW r \in Finds(op, who)
  PROVE  /\ r \in Ids /\ row[r].kind = op.kind /\ row[r].life \in {"live", "deleted"}
         /\ op.find # "parent" /\ (op.find # "blind" => Live(r))
         /\ op.find = "own" => row[r].ent = who.ent
         /\ op.from # AnyStatus => row[r].status \in op.from
         /\ op.leaf => NoChildren(r)
<1>1. desk \in DOMAIN Desks /\ op.find \in {"own", "shared", "unmarked", "blind"} /\ op.kind # "none"
  BY DesksAssumption DEF RowsOK, Inserts
<1>2. /\ r \in Ids /\ row[r].kind = op.kind
      /\ CASE op.find = "own"      -> Live(r) /\ row[r].ent = who.ent
           [] op.find = "shared"   -> Live(r)
           [] op.find = "unmarked" -> Live(r) /\ ~row[r].mark
           [] op.find = "blind"    -> TRUE
      /\ op.from # AnyStatus => row[r].status \in op.from
      /\ op.leaf => NoChildren(r)
  BY DEF Finds, Accepts
<1>3. (op.find # "blind" => Live(r)) /\ (op.find = "own" => row[r].ent = who.ent)
  BY <1>1, <1>2
<1>4. row[r] \in RowSet(desk) /\ RowOK(r)
  BY <1>2 DEF RowsOK
<1>5. row[r].life # "absent"
  BY <1>1, <1>2, <1>4 DEF RowOK, Absent
<1>6. row[r].life \in {"live", "deleted"}
  BY <1>4, <1>5 DEF RowSet
<1> QED BY <1>1, <1>2, <1>3, <1>6

(* What the new call remembers is in order.                                *)
LEMMA NewCallOK ==
  ASSUME RowsOK, NEW c, NEW op, NEW who, NEW r, NEW parent, Begins(c, op, who, r, parent)
  PROVE  CallOK(NewCall(op, who, r, parent)) /\ {r, parent} \subseteq Ids \cup {NoRow}
<1> DEFINE k == NewCall(op, who, r, parent)
<1>1. op \in Writes(desk) /\ who \in MayCall(op) /\ parent \in Parents(op, who)
      /\ (IF Inserts(op) THEN r = NoRow ELSE r \in Finds(op, who))
  BY DEF Begins
<1>2. k.op = op /\ k.who = who /\ k.row = r /\ k.parent = parent
      /\ k.seen = IF r = NoRow THEN Absent ELSE row[r]
  BY DEF NewCall
<1>3. parent \in Ids \cup {NoRow}
  BY <1>1, ParentTypes
<1>4. CASE Inserts(op)
  BY <1>1, <1>2, <1>3, <1>4, InsertHasOwner DEF CallOK
<1>5. CASE ~Inserts(op)
  <2>1. r \in Finds(op, who)
    BY <1>1, <1>5
  <2>2. r # NoRow
    BY <2>1, DesksAssumption DEF Finds, Ids, NoRow
  <2>3. r \in Ids /\ row[r] \in RowSet(desk) /\ row[r].status \in was[r]
    BY <2>1 DEF Finds, RowsOK, RowOK
  <2>4. ChangeOK(k) /\ ParentThere(op, parent)
    BY <1>1, <1>2, <1>5, <2>1, <2>2, <2>3, FoundRow DEF ChangeOK, Live, ParentThere
  <2> QED BY <1>1, <1>2, <1>3, <1>5, <2>3, <2>4 DEF CallOK
<1> QED BY <1>4, <1>5

(* A call that begins changes no row; what it remembers is in order, and    *)
(* what it shares with another call is raced from then on.                  *)
LEMMA BeginKeepsRowsAndCalls ==
  ASSUME RowsOK, CallsOK, PairsRaced, LadderKept, SubmittedAsSent,
         NEW c, NEW op, NEW who, NEW r, NEW parent, Begins(c, op, who, r, parent)
  PROVE  RowsOK' /\ CallsOK' /\ PairsRaced' /\ LadderKept' /\ SubmittedAsSent'
<1>1. /\ DOMAIN call' = InFlight \cup {c}
      /\ call'[c] = NewCall(op, who, r, parent)
      /\ \A d \in InFlight : d # c => call'[d] = call[d]
  BY BegunCalls DEF Begins
<1>2. /\ raced' = raced \cup (({r, parent} \ {NoRow}) \cap
                                UNION {{call[d].row, call[d].parent} : d \in InFlight})
      /\ UNCHANGED <<desk, row, was, sent>>
  BY DEF Begins, Begin
<1>3. CallOK(NewCall(op, who, r, parent)) /\ {r, parent} \subseteq Ids \cup {NoRow}
  BY NewCallOK
<1>4. RowsOK'
  BY <1>2, <1>3 DEF RowsOK, RowOK
<1>5. CallsOK'
  <2>1. \A d \in DOMAIN call' : CallOK(call'[d])
    BY <1>1, <1>3 DEF CallsOK
  <2>2. ASSUME NEW d \in DOMAIN call'
        PROVE  CallOK(call[d])'
    BY <1>2, <2>1 DEF CallOK, ChangeOK, ParentThere, OwnerOf
  <2> QED BY <2>2 DEF CallsOK, InFlight
<1>6. PairsRaced'
  <2> DEFINE both(k) == {k.row, k.parent}
  <2>1. both(call'[c]) = {r, parent}
    BY <1>1 DEF NewCall
  <2>2. ASSUME NEW d \in InFlight, d # c
        PROVE  both(call'[d]) \cap both(call'[c]) \subseteq raced' \cup {NoRow}
    BY <1>1, <1>2, <2>1, <2>2
  <2>3. ASSUME NEW d \in InFlight, NEW e \in InFlight, d # c, e # c, d # e
        PROVE  both(call'[d]) \cap both(call'[e]) \subseteq raced' \cup {NoRow}
    BY <1>1, <1>2, <2>3 DEF PairsRaced
  <2>4. \A d, e \in DOMAIN call' : d # e =>
           both(call'[d]) \cap both(call'[e]) \subseteq raced' \cup {NoRow}
    BY <1>1, <2>2, <2>3
  <2> QED BY <2>4 DEF PairsRaced, InFlight
<1>7. LadderKept' /\ SubmittedAsSent'
  BY <1>2 DEF LadderKept, SubmittedAsSent
<1> QED BY <1>4, <1>5, <1>6, <1>7

(* A call that begins has just read its row and found its parent live, and  *)
(* a department it is to delete without children.                           *)
LEMMA BeginKeepsImages ==
  ASSUME RowsOK, Fresh, ParentsOK, ParentOutlivesChild,
         NEW c, NEW op, NEW who, NEW r, NEW parent, Begins(c, op, who, r, parent)
  PROVE  Fresh' /\ ParentsOK' /\ ParentOutlivesChild'
<1>1. /\ DOMAIN call' = InFlight \cup {c}
      /\ call'[c] = NewCall(op, who, r, parent)
      /\ \A d \in InFlight : d # c => call'[d] = call[d]
  BY BegunCalls DEF Begins
<1>2. raced \subseteq raced' /\ UNCHANGED <<desk, row, was, sent>>
  BY DEF Begins, Begin
<1>3. /\ op \in Writes(desk) /\ parent \in Parents(op, who)
      /\ IF Inserts(op) THEN r = NoRow ELSE r \in Finds(op, who)
  BY DEF Begins
<1>4. Fresh'
  <2>1. ~Inserts(op) => NewCall(op, who, r, parent).seen = row[r]
    BY <1>3, DesksAssumption DEF NewCall, Finds, Ids, NoRow
  <2>2. ~Inserts(call'[c].op) => call'[c].seen = row'[call'[c].row]
    BY <1>1, <1>2, <2>1 DEF NewCall
  <2> QED BY <1>1, <1>2, <2>2 DEF Fresh, InFlight
<1>5. ParentsOK'
  <2>1. ASSUME op.kind = "department"
        PROVE  /\ IsDepartment(parent)
               /\ parent # NoRow => Live(parent)
               /\ op.via = "remove" =>
                     \A s \in Ids : row[s].kind = "department" /\ Live(s) => row[s].under # r
    <3>1. desk \in DOMAIN Desks /\ op \in {p \in Writes(desk) : p.kind = "department"}
      BY <1>3, <2>1 DEF RowsOK
    <3>2. op.above = Same /\ op.needs \in {"none", "department"} /\ (op.via = "remove" => op.leaf)
      BY <3>1, DepartmentsAssumption
    <3>3. IsDepartment(parent) /\ (parent # NoRow => Live(parent))
      BY <1>3, <3>2, ParentTypes DEF IsDepartment
    <3>4. op.via = "remove" => NoChildren(r) /\ row[r].kind = "department"
      BY <1>3, <2>1, <3>2, FoundRow DEF Inserts
    <3> QED BY <3>3, <3>4 DEF NoChildren
  <2>2. NewCall(op, who, r, parent).op = op /\ NewCall(op, who, r, parent).row = r
        /\ NewCall(op, who, r, parent).parent = parent
    BY DEF NewCall
  <2>3. \A s \in Ids \ raced' : row'[s].kind = "department" => IsDepartment(row'[s].under)
    BY <1>2 DEF ParentsOK
  <2>4. ASSUME NEW d \in DOMAIN call', call'[d].op.kind = "department"
        PROVE  /\ IsDepartment(call'[d].parent)
               /\ call'[d].parent \notin raced' \cup {NoRow} => Live(call'[d].parent)
               /\ call'[d].op.via = "remove" /\ call'[d].row \notin raced' =>
                     \A s \in Ids \ raced' : row'[s].kind = "department" /\ Live(s)
                                               => row'[s].under # call'[d].row
    <3>1. CASE d = c
      BY <1>1, <1>2, <2>1, <2>2, <2>4, <3>1
    <3>2. CASE d # c
      <4>1. d \in InFlight /\ call'[d] = call[d]
        BY <1>1, <3>2
      <4>2. /\ IsDepartment(call[d].parent)
            /\ call[d].parent \notin raced \cup {NoRow} => Live(call[d].parent)
            /\ call[d].op.via = "remove" /\ call[d].row \notin raced =>
                  \A s \in Ids \ raced : row[s].kind = "department" /\ Live(s)
                                             => row[s].under # call[d].row
        BY <2>4, <4>1 DEF ParentsOK
      <4> QED BY <1>2, <4>1, <4>2
    <3> QED BY <3>1, <3>2
  <2> QED BY <1>2, <2>3, <2>4 DEF ParentsOK, InFlight, IsDepartment, Live
<1>6. ParentOutlivesChild'
  BY <1>2 DEF ParentOutlivesChild, Live
<1> QED BY <1>4, <1>5, <1>6

-----------------------------------------------------------------------------
(* The end of a call.                                                      *)

(* Rows stay rows of their tables, with an enterprise or the platform.      *)
LEMMA StoreKeepsRows ==
  ASSUME RowsOK, CallsOK, NEW c, Store(c)
  PROVE  RowsOK'
<1> DEFINE k == call[c]
<1>1. CallOK(k) /\ row' = [r \in Ids |-> row'[r]]
  BY StoredRow
<1>2. /\ was' = [r \in Ids |-> IF row'[r].status = row[r].status THEN was[r]
                               ELSE was[r] \cup {row'[r].status}]
      /\ sent' = [r \in Ids |-> IF row'[r].status = "pending_approval"
                                   /\ row[r].status # "pending_approval"
                                THEN row'[r].text ELSE sent[r]]
      /\ UNCHANGED <<desk, raced>>
  BY DEF Store
<1>3. desk \in DOMAIN Desks
  BY DEF RowsOK
<1>4. row' \in [Ids -> RowSet(desk)]
  BY <1>1, StoredFacts
<1>5. was' \in [Ids -> SUBSET Statuses(desk)] /\ sent' \in [Ids -> Texts \cup {"never"}]
  <2>1. \A r \in Ids : row'[r].status \in Statuses(desk) /\ row'[r].text \in Texts
    BY <1>4 DEF RowSet
  <2> QED BY <1>2, <2>1 DEF RowsOK
<1>6. ASSUME NEW r \in Ids
      PROVE  RowOK(r)'
  <2>1. RowOK(r) /\ row'[r].status \in was'[r]
    BY <1>2 DEF RowsOK, RowOK
  <2>2. CASE row[r].life # "absent"
    BY <1>2, <2>1, <2>2, StoredFacts DEF RowOK
  <2>3. CASE row'[r] = row[r]
    BY <1>2, <2>1, <2>3 DEF RowOK
  <2>4. ASSUME Inserts(k.op),
               NEW end, row'[r] = NewRow(k.op, OwnerOf(k.op, k.who, k.parent), k.parent, end)
        PROVE  RowOK(r)'
    <3>1. row'[r].life # "absent" /\ row'[r].kind = k.op.kind
          /\ row'[r].ent = OwnerOf(k.op, k.who, k.parent)
      BY <2>4 DEF NewRow
    <3>2. /\ k.op \in Writes(desk) /\ OwnerOf(k.op, k.who, k.parent) # "none"
          /\ OwnerOf(k.op, k.who, k.parent) = "platform" <=> k.op.find = "shared"
      BY <1>1, <1>3, <2>4, OwnerTypes DEF CallOK
    <3>3. k.op.kind \in Kinds(desk)
      BY <3>2 DEF Kinds
    <3>4. k.op.kind \in SharedKinds(desk) <=> OwnerOf(k.op, k.who, k.parent) = "platform"
      <4>1. CASE k.op.find = "shared"
        BY <3>2, <4>1 DEF SharedKinds, Writes
      <4>2. CASE k.op.find # "shared"
        BY <1>3, <3>2, <4>2, OwnersAssumption
      <4> QED BY <4>1, <4>2
    <3> QED BY <1>2, <2>1, <3>1, <3>2, <3>3, <3>4 DEF RowOK
  <2> QED BY <2>2, <2>3, <2>4, StoredFacts
<1> QED BY <1>2, <1>4, <1>5, <1>6 DEF RowsOK

(* The row of a call is there.                                             *)
LEMMA CallRowPresent ==
  ASSUME RowsOK, NEW k, CallOK(k), ~Inserts(k.op)
  PROVE  k.row \in Ids /\ row[k.row].life # "absent" /\ ChangeOK(k)
<1>1. desk \in DOMAIN Desks /\ k.op \in Writes(desk) /\ ChangeOK(k)
  BY DEF CallOK, RowsOK
<1>2. k.op.kind # "none" /\ k.row \in Ids /\ row[k.row].kind = k.op.kind
  BY <1>1, DesksAssumption DEF ChangeOK
<1>3. RowOK(k.row)
  BY <1>2 DEF RowsOK
<1> QED BY <1>1, <1>2, <1>3 DEF RowOK, Absent

(* What the other calls remember stays in order: kinds and enterprises of   *)
(* rows do not change and the statuses a row has had are not forgotten.     *)
LEMMA StoreKeepsCalls ==
  ASSUME RowsOK, CallsOK, PairsRaced, NEW c, Store(c)
  PROVE  CallsOK' /\ PairsRaced'
<1>1. DOMAIN call' = InFlight \ {c} /\ \A d \in DOMAIN call' : call'[d] = call[d]
  BY EndedCalls DEF Store
<1>2. UNCHANGED <<desk, raced>> /\ \A r \in Ids : was[r] \subseteq was'[r]
  BY DEF Store
<1>3. ASSUME NEW d \in DOMAIN call'
      PROVE  CallOK(call[d])'
  <2> DEFINE k == call[d]
  <2>1. CallOK(k) /\ call'[d] = k
    BY <1>1, <1>3 DEF CallsOK
  <2>4. /\ k.op.find = "parent" => row'[k.parent].ent = row[k.parent].ent
        /\ ParentThere(k.op, k.parent)'
    <3> SUFFICES ASSUME k.op.find = "parent"
                 PROVE  /\ row'[k.parent].ent = row[k.parent].ent
                        /\ row'[k.parent].kind = row[k.parent].kind
                        /\ row'[k.parent].life # "absent" /\ k.parent \in Ids
                        /\ row[k.parent].kind = k.op.needs
      BY <2>1 DEF ParentThere
    <3>1. k.parent \in Ids /\ row[k.parent].kind = k.op.needs /\ row[k.parent].life # "absent"
      BY <2>1 DEF CallOK, ParentThere
    <3> QED BY <3>1, StoredFacts
  <2>2. CASE Inserts(k.op)
    <3>1. OwnerOf(k.op, k.who, k.parent)' = OwnerOf(k.op, k.who, k.parent)
      BY <2>1, <2>4 DEF OwnerOf
    <3> QED BY <1>2, <2>1, <2>2, <2>4, <3>1 DEF CallOK
  <2>3. CASE ~Inserts(k.op)
    <3>1. k.row \in Ids /\ row[k.row].life # "absent" /\ ChangeOK(k)
      BY <2>1, <2>3, CallRowPresent
    <3>2. row'[k.row].kind = row[k.row].kind /\ row'[k.row].ent = row[k.row].ent
      BY <3>1, StoredFacts
    <3> QED BY <1>2, <2>1, <2>3, <2>4, <3>1, <3>2 DEF CallOK, ChangeOK
  <2> QED BY <2>2, <2>3
<1>4. CallsOK'
  BY <1>3 DEF CallsOK, InFlight
<1>5. PairsRaced'
  BY <1>1, <1>2 DEF PairsRaced, InFlight
<1> QED BY <1>4, <1>5

(* The status a statement gives a row: the one it had, one the image had,   *)
(* the operation's own.                                                     *)
LEMMA StoredStatus ==
  ASSUME RowsOK, CallsOK, NEW c, Store(c), NEW r \in Ids
  PROVE  \/ row'[r].status = row[r].status
         \/ /\ Rewritten(call[c], r, row'[r])
            /\ \/ row'[r].status = call[c].seen.status
               \/ "status" \in call[c].op.columns /\ row'[r].status = call[c].op.to
         \/ Raised(call[c], r) /\ row'[r].status = call[c].op.above
         \/ /\ Inserts(call[c].op) /\ row[r].life = "absent"
            /\ row'[r].status = call[c].op.to /\ row'[r].kind = call[c].op.kind
<1> DEFINE k == call[c]
<1>1. CallOK(k) /\ (row'[r] = row[r] \/ Rewritten(k, r, row'[r]) \/ Placed(k, r, row'[r]))
  BY StoredRow
<1>2. desk \in DOMAIN Desks /\ row[r] \in RowSet(desk)
  BY DEF RowsOK
<1>3. CASE Rewritten(k, r, row'[r])
  <2>1. k.seen \in RowSet(desk) /\ k.op \in Writes(desk) /\ k.parent \in Ids \cup {NoRow}
    BY <1>1, <1>3 DEF CallOK, ChangeOK, Rewritten
  <2>2. Changed(k.seen, k).status
            = IF "status" \in k.op.columns /\ k.op.to # Same THEN k.op.to ELSE k.seen.status
    <3> HIDE DEF k
    <3> QED BY <1>2, <2>1, ChangedRow
  <2>3. Changed(row[r], k).status
            = IF "status" \in k.op.columns /\ k.op.to # Same THEN k.op.to ELSE row[r].status
    <3> HIDE DEF k
    <3> QED BY <1>2, <2>1, ChangedRow
  <2>4. [row[r] EXCEPT !.life = "live"].status = row[r].status
        /\ [row[r] EXCEPT !.life = "deleted"].status = row[r].status
    BY <1>2 DEF RowSet
  <2>5. \/ row'[r] = Changed(k.seen, k) \/ row'[r] = Changed(row[r], k)
        \/ row'[r] = [row[r] EXCEPT !.life = "live"]
        \/ row'[r] = [row[r] EXCEPT !.life = "deleted"]
    BY <1>3 DEF Rewritten
  <2>6. \/ row'[r].status = row[r].status
        \/ row'[r].status = Changed(k.seen, k).status
        \/ row'[r].status = Changed(row[r], k).status
    BY <2>4, <2>5, Zenon
  <2>7. \/ row'[r].status \in {row[r].status, k.seen.status}
        \/ "status" \in k.op.columns /\ row'[r].status = k.op.to
    BY <2>2, <2>3, <2>6
  <2> QED BY <1>3, <2>7
<1>4. CASE Placed(k, r, row'[r])
  <2>1. [row[r] EXCEPT !.life = "deleted"].status = row[r].status
    BY <1>2 DEF RowSet
  <2>2. [row[r] EXCEPT !.status = k.op.above].status = k.op.above
    BY <1>2 DEF RowSet
  <2>3. \A end : NewRow(k.op, OwnerOf(k.op, k.who, k.parent), k.parent, end).status = k.op.to
                /\ NewRow(k.op, OwnerOf(k.op, k.who, k.parent), k.parent, end).kind = k.op.kind
    BY DEF NewRow
  <2>4. CASE Replaced(k, r) /\ row'[r] = [row[r] EXCEPT !.life = "deleted"]
    BY <2>1, <2>4
  <2>5. CASE Raised(k, r) /\ row'[r] = [row[r] EXCEPT !.status = k.op.above]
    BY <2>2, <2>5
  <2> QED BY <1>4, <2>3, <2>4, <2>5 DEF Placed
<1> QED BY <1>1, <1>3, <1>4

(* A call writes the status of its operation only with an image in a status *)
(* that the operation starts from, which is not below it unless the row has *)
(* had what comes between.                                                  *)
LEMMA StoreKeepsLadder ==
  ASSUME RowsOK, CallsOK, LadderKept, NEW c, Store(c)
  PROVE  LadderKept'
<1> SUFFICES ASSUME desk \notin Direct, NEW r \in Ids, row'[r].kind \in DOMAIN Ladder,
                    NEW s \in was'[r] \cap DOMAIN Ladder[row'[r].kind]
             PROVE  Ladder[row'[r].kind][s] \in was'[r]
  BY DEF LadderKept, Store
<1> DEFINE k == call[c]
           kind == row'[r].kind
           steps == Ladder[kind]
<1>1. /\ was'[r] = IF row'[r].status = row[r].status THEN was[r] ELSE was[r] \cup {row'[r].status}
      /\ CallOK(k) /\ RowOK(r) /\ desk \in DOMAIN Desks
  BY StoredRow DEF Store, RowsOK
<1>2. /\ "none" \notin DOMAIN steps
      /\ \A o \in Writes(desk) :
            /\ o.kind = kind /\ o.to \in DOMAIN steps /\ "status" \in o.columns =>
                  o.from # AnyStatus /\ \A f \in o.from : Below(steps, f, o.to)
            /\ o.kind = kind /\ o.via = "insert" => o.to \notin DOMAIN steps
            /\ kind = "service" => o.above \notin DOMAIN steps
  BY <1>1, LadderAssumption DEF Served
<1>3. k.op \in Writes(desk)
  BY <1>1 DEF CallOK
<1>4. CASE row[r].life = "absent"
  <2>1. was[r] = {"none"} /\ row[r].status = "none"
    BY <1>1, <1>4 DEF RowOK, Absent
  <2>2. s \notin was[r]
    BY <1>2, <2>1
  <2>3. s = row'[r].status /\ row'[r].status # row[r].status
    BY <1>1, <2>1, <2>2
  <2>4. ~Raised(k, r) /\ ~Rewritten(k, r, row'[r])
    BY <1>1, <1>4, CallRowPresent DEF Raised, Rewritten, Live
  <2>5. Inserts(k.op) /\ s = k.op.to /\ kind = k.op.kind
    BY <2>3, <2>4, StoredStatus
  <2> QED BY <1>2, <1>3, <2>5 DEF Inserts
<1>5. CASE row[r].life # "absent"
  <2>1. row[r].kind = kind
    BY <1>5, StoredFacts
  <2>2. \A t \in was[r] \cap DOMAIN steps : steps[t] \in was[r]
    BY <2>1 DEF LadderKept
  <2>3. CASE s \in was[r]
    BY <1>1, <2>2, <2>3
  <2>4. CASE s \notin was[r]
    <3>1. s = row'[r].status /\ row'[r].status # row[r].status
      BY <1>1, <2>4
    <3>2. CASE Raised(k, r) /\ s = k.op.above
      BY <1>2, <1>3, <2>1, <3>2 DEF Raised
    <3>3. CASE Rewritten(k, r, row'[r]) /\ s = k.seen.status
      BY <1>1, <2>4, <3>3 DEF Rewritten, CallOK, ChangeOK
    <3>4. CASE Rewritten(k, r, row'[r]) /\ "status" \in k.op.columns /\ s = k.op.to
      <4> DEFINE f == k.seen.status
                 all == DOMAIN steps \cup {steps[t] : t \in DOMAIN steps} \cup {f}
                 S == was[r] \cap all
      <4>1. r = k.row /\ ChangeOK(k)
        BY <1>1, <3>4 DEF Rewritten, CallOK
      <4>2. f \in was[r] /\ k.op.kind = kind /\ (k.op.from # AnyStatus => f \in k.op.from)
        BY <2>1, <4>1 DEF ChangeOK
      <4>3. Below(steps, f, s)
        BY <1>2, <1>3, <3>4, <4>2
      <4>4. S \in SUBSET all /\ f \in S /\ (\A t \in S \cap DOMAIN steps : steps[t] \in S)
        BY <2>2, <4>2
      <4>5. steps[s] \in S
        BY <4>3, <4>4 DEF Below
      <4> QED BY <1>1, <4>5
    <3> QED BY <1>5, <3>1, <3>2, <3>3, <3>4, StoredStatus
  <2> QED BY <2>3, <2>4
<1> QED BY <1>4, <1>5

(* Departments and requests are written only by calls on them: a statement  *)
(* that changes one is an insert of it or writes the row of its call.       *)
LEMMA QuietChange ==
  ASSUME RowsOK, CallsOK, NEW c, Store(c), NEW r \in Ids, row'[r] # row[r],
         row'[r].kind \in {"department", "request"}
  PROVE  /\ call[c].op.kind = row'[r].kind /\ CallOK(call[c])
         /\ \/ /\ Rewritten(call[c], r, row'[r])
               /\ row[r].kind = row'[r].kind /\ row[r].life # "absent" /\ ChangeOK(call[c])
            \/ /\ Inserts(call[c].op) /\ row[r].life = "absent"
               /\ \E end : row'[r] = NewRow(call[c].op,
                                            OwnerOf(call[c].op, call[c].who, call[c].parent),
                                            call[c].parent, end)
<1> DEFINE k == call[c]
<1>1. CallOK(k) /\ (Rewritten(k, r, row'[r]) \/ Placed(k, r, row'[r]))
  BY StoredRow
<1>2. desk \in DOMAIN Desks /\ k.op \in Writes(desk)
  BY <1>1 DEF RowsOK, CallOK
<1>3. CASE Rewritten(k, r, row'[r])
  <2>1. r = k.row /\ row[r].life # "absent" /\ ChangeOK(k)
    BY <1>1, <1>3, CallRowPresent DEF Rewritten
  <2>2. row'[r].kind = row[r].kind /\ row[r].kind = k.op.kind
    BY <2>1, StoredFacts DEF ChangeOK
  <2> QED BY <1>1, <1>3, <2>1, <2>2
<1>4. CASE Placed(k, r, row'[r]) /\ row[r].life # "absent"
  <2>1. row'[r].kind = row[r].kind
    BY <1>4, StoredFacts
  <2>2. Replaced(k, r) \/ Raised(k, r)
    BY <1>4 DEF Placed
  <2>3. ~Raised(k, r)
    BY <2>1 DEF Raised
  <2>4. k.op.clears /\ k.op.kind = row'[r].kind
    BY <2>1, <2>2, <2>3 DEF Replaced
  <2> QED BY <1>2, <2>4, DepartmentsAssumption, RequestsAssumption
<1>5. CASE Placed(k, r, row'[r]) /\ row[r].life = "absent"
  <2>1. ~Replaced(k, r) /\ ~Raised(k, r)
    BY <1>5 DEF Replaced, Raised, Live
  <2>2. PICK end : row'[r] = NewRow(k.op, OwnerOf(k.op, k.who, k.parent), k.parent, end)
    BY <1>5, <2>1 DEF Placed
  <2>3. row'[r].kind = k.op.kind
    BY <2>2 DEF NewRow
  <2> QED BY <1>1, <1>5, <2>2, <2>3 DEF Placed
<1> QED BY <1>1, <1>3, <1>4, <1>5

(* A row that another call holds, as its row or as its parent, is left as   *)
(* it is, unless the two have raced.                                        *)
LEMMA Undisturbed ==
  ASSUME RowsOK, CallsOK, PairsRaced, NEW c, Store(c), NEW d \in InFlight, d # c,
         NEW p \in Ids \ raced, p \in {call[d].row, call[d].parent},
         row[p].kind \in {"department", "request"}
  PROVE  row'[p] = row[p]
<1> SUFFICES ASSUME row'[p] # row[p]
             PROVE  FALSE
  OBVIOUS
<1>1. RowOK(p) /\ p # NoRow
  BY DesksAssumption DEF RowsOK, Ids, NoRow
<1>2. row[p].life # "absent"
  BY <1>1 DEF RowOK, Absent
<1>3. row'[p].kind = row[p].kind
  BY <1>2, StoredFacts
<1>4. Rewritten(call[c], p, row'[p]) /\ c \in InFlight
  BY <1>2, <1>3, QuietChange, StoredRow
<1>5. p = call[c].row
  BY <1>4 DEF Rewritten
<1>6. p \in {call[c].row, call[c].parent} \cap {call[d].row, call[d].parent}
  BY <1>5
<1> QED BY <1>1, <1>4, <1>6 DEF PairsRaced

(* A statement leaves the images of the other calls fresh, unless they have *)
(* raced with it.                                                           *)
LEMMA StoreKeepsFresh ==
  ASSUME RowsOK, CallsOK, PairsRaced, Fresh, NEW c, Store(c)
  PROVE  Fresh'
<1>1. DOMAIN call' = InFlight \ {c} /\ (\A d \in DOMAIN call' : call'[d] = call[d])
      /\ UNCHANGED raced
  BY EndedCalls DEF Store
<1>2. ASSUME NEW d \in InFlight, d # c, ~Inserts(call[d].op),
             call[d].op.kind \in {"department", "request"}, call[d].row \notin raced
      PROVE  call[d].seen = row'[call[d].row]
  <2>1. CallOK(call[d])
    BY DEF CallsOK
  <2>2. call[d].row \in Ids \ raced /\ row[call[d].row].kind \in {"department", "request"}
    BY <1>2, <2>1 DEF CallOK, ChangeOK
  <2>3. row'[call[d].row] = row[call[d].row]
    BY <1>2, <2>2, Undisturbed
  <2> QED BY <1>2, <2>3 DEF Fresh
<1> QED BY <1>1, <1>2 DEF Fresh, InFlight

(* The text and the status of a row after its own call, if none raced.     *)
LEMMA OwnChange ==
  ASSUME RowsOK, CallsOK, Fresh, NEW c, Store(c), NEW r \in Ids \ raced, row'[r] # row[r],
         row'[r].kind \in {"department", "request"}, Rewritten(call[c], r, row'[r]), ChangeOK(call[c])
  PROVE  LET k == call[c]
             new == Changed(row[r], k)
         IN  /\ r = k.row /\ k.seen = row[r]
             /\ \/ k.op.via \in {"save", "columns", "raw"} /\ row'[r] = new
                \/ k.op.via = "restore" /\ row'[r] = [row[r] EXCEPT !.life = "live"]
                \/ k.op.via = "remove" /\ row'[r] = [row[r] EXCEPT !.life = "deleted"]
<1> DEFINE k == call[c]
<1>1. c \in InFlight /\ ~Inserts(k.op) /\ r = k.row /\ k.op.kind \in {"department", "request"}
  BY QuietChange, StoredRow DEF Rewritten
<1>2. k.seen = row[r]
  BY <1>1 DEF Fresh
<1> QED BY <1>1, <1>2 DEF Rewritten

(* A fresh image tells the status of the row, and no operation writes the   *)
(* text of a row that is submitted or approved.                             *)
LEMMA StoreKeepsSubmitted ==
  ASSUME RowsOK, CallsOK, Fresh, SubmittedAsSent, NEW c, Store(c)
  PROVE  SubmittedAsSent'
<1> DEFINE late == {"pending_approval", "approved"}
           k == call[c]
<1> SUFFICES ASSUME NEW r \in Ids \ raced, row'[r].kind = "request", row'[r].status \in late
             PROVE  row'[r].text = sent'[r]
  BY DEF SubmittedAsSent, Store
<1>1. sent'[r] = IF row'[r].status = "pending_approval" /\ row[r].status # "pending_approval"
                 THEN row'[r].text ELSE sent[r]
  BY DEF Store
<1>2. CASE row'[r] = row[r]
  BY <1>1, <1>2 DEF SubmittedAsSent
<1>3. CASE row'[r] # row[r]
  <2>1. k.op \in {o \in Writes(desk) : o.kind = "request"} /\ desk \in DOMAIN Desks
    BY <1>3, QuietChange DEF CallOK, RowsOK
  <2>2. /\ k.op.find # "blind" /\ ~k.op.clears
        /\ k.op.via = "insert" => k.op.to \notin late
        /\ "text" \in k.op.columns =>
              k.op.from # AnyStatus /\ k.op.from \cap late = {} /\ k.op.to # "approved"
        /\ "status" \in k.op.columns /\ k.op.to = "approved" =>
              k.op.from # AnyStatus /\ k.op.from \subseteq late
    BY <2>1, RequestsAssumption
  <2>3. /\ Rewritten(k, r, row'[r]) /\ row[r].kind = "request" /\ ChangeOK(k)
    <3>1. ASSUME Inserts(k.op), NEW end,
                 row'[r] = NewRow(k.op, OwnerOf(k.op, k.who, k.parent), k.parent, end)
          PROVE  FALSE
      BY <2>2, <3>1 DEF NewRow, Inserts
    <3> QED BY <1>3, <3>1, QuietChange
  <2>4. /\ k.seen = row[r]
        /\ \/ row'[r] = Changed(row[r], k)
           \/ row'[r] = [row[r] EXCEPT !.life = "live"]
           \/ row'[r] = [row[r] EXCEPT !.life = "deleted"]
    BY <1>3, <2>3, OwnChange
  <2>5. row[r] \in RowSet(desk) /\ k.parent \in Ids \cup {NoRow} /\ k.op \in Writes(desk)
    BY <1>3, <2>1, QuietChange DEF RowsOK, CallOK
  <2>6. k.op.from # AnyStatus => row[r].status \in k.op.from
    BY <2>3, <2>4 DEF ChangeOK
  <2>7. CASE row'[r] = Changed(row[r], k)
    <3>1. /\ row'[r].status
                = IF "status" \in k.op.columns /\ k.op.to # Same THEN k.op.to ELSE row[r].status
          /\ row'[r].text = IF "text" \in k.op.columns THEN Other(k.seen.text) ELSE row[r].text
      <4> HIDE DEF k
      <4> QED BY <2>1, <2>5, <2>7, ChangedRow
    <3>2. CASE row'[r].status = row[r].status
      <4>1. "text" \notin k.op.columns
        BY <2>2, <2>6, <3>2
      <4> QED BY <1>1, <2>3, <3>1, <3>2, <4>1 DEF SubmittedAsSent
    <3>3. CASE row'[r].status # row[r].status /\ row'[r].status = "approved"
      <4>1. "status" \in k.op.columns /\ k.op.to = "approved"
        BY <3>1, <3>3
      <4>2. "text" \notin k.op.columns /\ row[r].status \in late
        BY <2>2, <2>6, <4>1
      <4> QED BY <1>1, <2>3, <3>1, <3>3, <4>2 DEF SubmittedAsSent
    <3>4. CASE row'[r].status # row[r].status /\ row'[r].status = "pending_approval"
      BY <1>1, <3>4
    <3> QED BY <3>2, <3>3, <3>4
  <2>8. CASE \/ row'[r] = [row[r] EXCEPT !.life = "live"]
             \/ row'[r] = [row[r] EXCEPT !.life = "deleted"]
    <3>1. row'[r].status = row[r].status /\ row'[r].text = row[r].text
      BY <2>5, <2>8 DEF RowSet
    <3> QED BY <1>1, <2>3, <3>1 DEF SubmittedAsSent
  <2> QED BY <2>4, <2>7, <2>8
<1> QED BY <1>2, <1>3

(* A department stays one.                                                 *)
LEMMA StillDepartment ==
  ASSUME RowsOK, CallsOK, NEW c, Store(c), NEW p, IsDepartment(p)
  PROVE  p = NoRow \/ (p \in Ids /\ row'[p].kind = "department")
<1>1. CASE p = NoRow
  BY <1>1
<1>2. CASE p \in Ids /\ row[p].kind = "department"
  <2>1. row[p].life # "absent"
    BY <1>2 DEF RowsOK, RowOK, Absent
  <2> QED BY <1>2, <2>1, StoredFacts
<1> QED BY <1>1, <1>2 DEF IsDepartment

(* What a statement does to a department on which no calls raced.          *)
LEMMA DepartmentChange ==
  ASSUME RowsOK, CallsOK, Fresh, NEW c, Store(c), NEW r \in Ids \ raced, row'[r] # row[r],
         row'[r].kind = "department"
  PROVE  /\ call[c].op.kind = "department" /\ c \in InFlight
         /\ \/ /\ row'[r].under = call[c].parent
               /\ row[r].life # "absent" => row'[r].life = row[r].life
            \/ /\ row[r].kind = "department" /\ row'[r].under = row[r].under
               /\ row'[r].life = row[r].life
            \/ /\ call[c].op.via = "remove" /\ r = call[c].row /\ row'[r].life = "deleted"
               /\ ~Inserts(call[c].op)
<1> DEFINE k == call[c]
<1>1. k.op.kind = "department" /\ CallOK(k) /\ c \in InFlight
  BY QuietChange, StoredRow
<1>2. /\ desk \in DOMAIN Desks /\ row[r] \in RowSet(desk)
      /\ k.op \in Writes(desk) /\ k.parent \in Ids \cup {NoRow}
  BY <1>1 DEF RowsOK, CallOK
<1>3. k.op.via # "restore"
  BY <1>1, <1>2, DepartmentsAssumption
<1>4. CASE Inserts(k.op) /\ row[r].life = "absent"
           /\ \E end : row'[r] = NewRow(k.op, OwnerOf(k.op, k.who, k.parent), k.parent, end)
  <2>1. row'[r].under = k.parent
    BY <1>4 DEF NewRow
  <2> QED BY <1>1, <1>4, <2>1
<1>5. CASE Rewritten(k, r, row'[r]) /\ row[r].kind = row'[r].kind /\ ChangeOK(k)
  <2>1. \/ row'[r] = Changed(row[r], k)
        \/ k.op.via = "remove" /\ r = k.row /\ row'[r] = [row[r] EXCEPT !.life = "deleted"]
    BY <1>3, <1>5, OwnChange
  <2>2. CASE row'[r] = Changed(row[r], k)
    <3>1. row'[r].life = row[r].life
          /\ row'[r].under = IF "under" \in k.op.columns THEN k.parent ELSE row[r].under
      <4> HIDE DEF k
      <4> QED BY <1>2, <2>2, ChangedRow
    <3> QED BY <1>1, <1>5, <3>1
  <2>3. CASE k.op.via = "remove" /\ r = k.row /\ row'[r] = [row[r] EXCEPT !.life = "deleted"]
    <3>1. row'[r].life = "deleted"
      BY <1>2, <2>3 DEF RowSet
    <3> QED BY <1>1, <2>3, <3>1 DEF Inserts
  <2> QED BY <2>1, <2>2, <2>3
<1> QED BY <1>4, <1>5, QuietChange

(* A statement does not take the parent of another call away, nor put a     *)
(* child under a department another call deletes, unless they have raced.   *)
LEMMA StoreKeepsParents ==
  ASSUME RowsOK, CallsOK, PairsRaced, Fresh, ParentsOK, NEW c, Store(c)
  PROVE  ParentsOK'
<1>1. DOMAIN call' = InFlight \ {c} /\ (\A d \in DOMAIN call' : call'[d] = call[d])
      /\ UNCHANGED raced
  BY EndedCalls DEF Store
<1>2. \A d \in InFlight : call[d].op.kind = "department" =>
         /\ IsDepartment(call[d].parent)
         /\ call[d].parent \notin raced \cup {NoRow} => Live(call[d].parent)
         /\ call[d].op.via = "remove" /\ call[d].row \notin raced =>
               \A s \in Ids \ raced : row[s].kind = "department" /\ Live(s)
                                          => row[s].under # call[d].row
  BY DEF ParentsOK
<1>3. ASSUME NEW r \in Ids \ raced, row'[r].kind = "department"
      PROVE  row'[r].under = NoRow
             \/ (row'[r].under \in Ids /\ row'[row'[r].under].kind = "department")
  <2>1. IsDepartment(row'[r].under)
    <3>1. CASE row'[r] = row[r]
      BY <1>3, <3>1 DEF ParentsOK
    <3>2. ASSUME row'[r] # row[r], row'[r].life = "deleted", call[c].op.via = "remove",
                 r = call[c].row, ~Inserts(call[c].op)
          PROVE  row'[r].under = row[r].under /\ row[r].kind = "department"
      <4>1. Rewritten(call[c], r, row'[r]) /\ row[r].kind = "department" /\ ChangeOK(call[c])
        BY <1>3, <3>2, QuietChange
      <4>2. row'[r] = [row[r] EXCEPT !.life = "deleted"]
        BY <3>2, <4>1 DEF Rewritten
      <4>3. row[r] \in RowSet(desk)
        BY DEF RowsOK
      <4> QED BY <4>1, <4>2, <4>3 DEF RowSet
    <3>3. CASE row'[r] # row[r]
      <4>1. call[c].op.kind = "department" /\ c \in InFlight
        BY <1>3, <3>3, DepartmentChange
      <4>2. \/ row'[r].under = call[c].parent
            \/ row[r].kind = "department" /\ row'[r].under = row[r].under
        BY <1>3, <3>2, <3>3, DepartmentChange
      <4> QED BY <1>2, <4>1, <4>2 DEF ParentsOK
    <3> QED BY <3>1, <3>3
  <2> QED BY <2>1, StillDepartment
<1>4. ASSUME NEW d \in InFlight, d # c, call[d].op.kind = "department"
      PROVE  call[d].parent = NoRow
             \/ (call[d].parent \in Ids /\ row'[call[d].parent].kind = "department")
  BY <1>2, <1>4, StillDepartment
<1>5. ASSUME NEW d \in InFlight, d # c, call[d].op.kind = "department",
             call[d].parent \notin raced \cup {NoRow}
      PROVE  row'[call[d].parent].life = "live"
  <2>1. call[d].parent \in Ids \ raced /\ row[call[d].parent].kind = "department"
    BY <1>2, <1>5 DEF IsDepartment
  <2>2. row'[call[d].parent] = row[call[d].parent]
    BY <1>5, <2>1, Undisturbed
  <2> QED BY <1>2, <1>5, <2>2 DEF Live
<1>6. ASSUME NEW d \in InFlight, d # c, call[d].op.kind = "department",
             call[d].op.via = "remove", call[d].row \notin raced,
             NEW s \in Ids \ raced, row'[s].kind = "department", row'[s].life = "live"
      PROVE  row'[s].under # call[d].row
  <2> SUFFICES ASSUME row'[s].under = call[d].row
               PROVE  FALSE
    OBVIOUS
  <2>1. CallOK(call[d]) /\ ~Inserts(call[d].op)
    BY <1>6 DEF CallsOK, Inserts
  <2>2. call[d].row \in Ids /\ call[d].row # NoRow
    BY <2>1, DesksAssumption DEF CallOK, ChangeOK, Ids, NoRow
  <2>3. row[s].kind = "department" /\ Live(s) => row[s].under # call[d].row
    BY <1>2, <1>6
  <2>4. row'[s] # row[s]
    BY <1>6, <2>3 DEF Live
  <2>5. c \in InFlight /\ row'[s].under = call[c].parent
    BY <1>6, <2>3, <2>4, DepartmentChange DEF Live
  <2>6. call[d].row \in {call[c].row, call[c].parent} \cap {call[d].row, call[d].parent}
    BY <2>5
  <2> QED BY <1>6, <2>2, <2>5, <2>6 DEF PairsRaced
<1> QED BY <1>1, <1>3, <1>4, <1>5, <1>6 DEF ParentsOK, IsDepartment, Live, InFlight

(* A department that stops being live had no live children left but those   *)
(* that raced with its deletion.                                            *)
LEMMA StoreKeepsChildren ==
  ASSUME RowsOK, CallsOK, PairsRaced, Fresh, ParentsOK, ParentOutlivesChild, NEW c, Store(c)
  PROVE  ParentOutlivesChild'
<1> SUFFICES ASSUME NEW r \in Ids \ raced, row'[r].kind = "department", row'[r].life = "live",
                    NEW p, p = row'[r].under, p # NoRow, p \notin raced
             PROVE  row'[p].life = "live"
  BY DEF ParentOutlivesChild, Live, Store
<1>1. \A d \in InFlight : call[d].op.kind = "department" =>
         /\ IsDepartment(call[d].parent)
         /\ call[d].parent \notin raced \cup {NoRow} => Live(call[d].parent)
         /\ call[d].op.via = "remove" /\ call[d].row \notin raced =>
               \A s \in Ids \ raced : row[s].kind = "department" /\ Live(s)
                                          => row[s].under # call[d].row
  BY DEF ParentsOK
<1>2. /\ row[r].kind = "department" => IsDepartment(row[r].under)
      /\ row[r].kind = "department" /\ Live(r) /\ row[r].under = p => Live(p)
  BY DEF ParentsOK, ParentOutlivesChild
<1>3. Live(p) /\ IsDepartment(p)
  <2>1. CASE row'[r] = row[r]
    BY <1>2, <2>1 DEF Live
  <2>2. CASE row'[r] # row[r]
    BY <1>1, <1>2, <2>2, DepartmentChange DEF Live
  <2> QED BY <2>1, <2>2
<1>4. p \in Ids \ raced /\ row[p].kind = "department" /\ row'[p].kind = "department"
  BY <1>3, StillDepartment DEF IsDepartment
<1>5. CASE row'[p] = row[p]
  BY <1>3, <1>5 DEF Live
<1>6. CASE row'[p] # row[p]
  <2>1. SUFFICES ASSUME row'[p].life # "live"
                 PROVE  FALSE
    OBVIOUS
  <2>2. /\ call[c].op.kind = "department" /\ c \in InFlight
        /\ call[c].op.via = "remove" /\ p = call[c].row /\ ~Inserts(call[c].op)
    BY <1>3, <1>4, <1>6, <2>1, DepartmentChange DEF Live
  <2>3. r # p
    BY <2>1
  <2>4. row'[r] = row[r]
    BY <2>2, <2>3, StoredRow DEF Rewritten, Placed
  <2> QED BY <1>1, <2>2, <2>4 DEF Live
<1> QED BY <1>5, <1>6

-----------------------------------------------------------------------------
(* The invariant is inductive.                                             *)

(* It holds of the rows the desks begin with.                               *)
LEMMA InitRecordsInv == Init => RecordsInv
<1> SUFFICES ASSUME Init PROVE RecordsInv
  OBVIOUS
<1> DEFINE first(r) == [ent |-> IF r = 1 THEN "e1" ELSE "e2"]
<1>1. PICK op \in {o \in Desks[desk] : Inserts(o) /\ o.needs = "none"} :
          row = [r \in Ids |-> IF r > 2 THEN Absent
                               ELSE NewRow(op, OwnerOf(op, first(r), NoRow), NoRow, "done")]
  BY DEF Init
<1>2. /\ desk \in DOMAIN Desks /\ call = <<>> /\ raced = {}
      /\ was = [r \in Ids |-> {row[r].status}] /\ sent = [r \in Ids |-> "never"]
  BY DEF Init
<1>3. op \in Writes(desk) /\ op.via = "insert" /\ op.kind # "none" /\ op.find # "parent"
  BY <1>1, <1>2, DesksAssumption DEF Writes, Inserts
<1>4. /\ op.kind \in Kinds(desk) /\ op.to \in Statuses(desk) /\ "none" \in Statuses(desk)
  BY <1>3 DEF Kinds, Statuses
<1>5. ASSUME NEW r \in Ids
      PROVE  /\ OwnerOf(op, first(r), NoRow) \in Ents \ {"none"}
             /\ op.kind \in SharedKinds(desk) <=> OwnerOf(op, first(r), NoRow) = "platform"
  <2>1. CASE op.find = "shared"
    BY <1>3, <2>1 DEF OwnerOf, SharedKinds, Writes, Ents
  <2>2. CASE op.find # "shared"
    BY <1>2, <1>3, <2>2, OwnersAssumption DEF OwnerOf, Ents
  <2> QED BY <2>1, <2>2
<1>6. ASSUME NEW r \in Ids
      PROVE  \/ row[r] = Absent
             \/ /\ row[r].kind = op.kind /\ row[r].life = "live" /\ row[r].status = op.to
                /\ row[r].ent = OwnerOf(op, first(r), NoRow) /\ row[r].under = NoRow
                /\ row[r].text = "a" /\ row[r] \in RowSet(desk)
  <2>1. CASE r > 2
    BY <1>1, <2>1
  <2>2. CASE ~(r > 2)
    <3>1. row[r] = NewRow(op, OwnerOf(op, first(r), NoRow), NoRow, "done")
      BY <1>1, <2>2
    <3> HIDE DEF first
    <3> QED BY <1>4, <1>5, <3>1 DEF NewRow, RowSet, Texts
  <2> QED BY <2>1, <2>2
<1>7. Absent \in RowSet(desk)
  BY <1>4 DEF Absent, RowSet, Ents, Texts
<1> HIDE DEF first
<1>8. Absent.kind = "none" /\ Absent.life = "absent" /\ Absent.status = "none"
  BY DEF Absent
<1>9. /\ \A r \in Ids : was[r] = {row[r].status}
      /\ \A r \in Ids : row[r] = Absent
            \/ (row[r].kind = op.kind /\ row[r].status = op.to /\ row[r].under = NoRow)
  BY <1>2, <1>6
<1>10. RowsOK
  <2>1. row \in [Ids -> RowSet(desk)]
    BY <1>1, <1>6, <1>7
  <2>2. ASSUME NEW r \in Ids
        PROVE  RowOK(r)
    <3>1. CASE row[r] = Absent
      BY <1>8, <1>9, <3>1 DEF RowOK
    <3>2. CASE row[r] # Absent
      <4>1. row[r].kind = op.kind /\ row[r].life = "live" /\ row[r].ent = OwnerOf(op, first(r), NoRow)
        BY <1>6, <3>2
      <4> QED BY <1>9, <1>4, <1>5, <4>1 DEF RowOK
    <3> QED BY <3>1, <3>2
  <2>3. was \in [Ids -> SUBSET Statuses(desk)]
    BY <1>2, <2>1 DEF RowSet
  <2> QED BY <1>2, <2>1, <2>2, <2>3 DEF RowsOK
<1>11. CallsOK /\ PairsRaced /\ Fresh
  BY <1>2 DEF CallsOK, PairsRaced, Fresh, InFlight
<1>12. LadderKept
  <2> SUFFICES ASSUME desk \notin Direct, NEW r \in Ids, row[r].kind \in DOMAIN Ladder
               PROVE  was[r] \cap DOMAIN Ladder[row[r].kind] = {}
    BY DEF LadderKept
  <2>1. "none" \notin DOMAIN Ladder[row[r].kind]
        /\ (row[r].kind = op.kind => op.to \notin DOMAIN Ladder[row[r].kind])
    BY <1>2, <1>3, LadderAssumption DEF Served
  <2> QED BY <1>8, <1>9, <2>1
<1>13. SubmittedAsSent
  <2>1. op.kind = "request" => op.to \notin {"pending_approval", "approved"}
    <3>1. op.kind = "request" => op \in {p \in Writes(desk) : p.kind = "request"}
      BY <1>3
    <3> QED BY <1>2, <1>3, <3>1, RequestsAssumption
  <2> QED BY <1>8, <1>9, <2>1 DEF SubmittedAsSent
<1>14. ParentsOK /\ ParentOutlivesChild
  BY <1>2, <1>8, <1>9 DEF ParentsOK, ParentOutlivesChild, IsDepartment, InFlight
<1> QED BY <1>10, <1>11, <1>12, <1>13, <1>14 DEF RecordsInv

(* A call that fails takes nothing with it but what it remembered.          *)
LEMMA FailKeeps ==
  ASSUME RecordsInv, NEW c, Fail(c)
  PROVE  RecordsInv'
<1>1. /\ DOMAIN call' = InFlight \ {c} /\ (\A d \in DOMAIN call' : call'[d] = call[d])
      /\ UNCHANGED <<desk, row, left, walk, was, sent, raced>>
  BY EndedCalls DEF Fail
<1>2. RowsOK' /\ LadderKept' /\ SubmittedAsSent' /\ ParentOutlivesChild'
  BY <1>1 DEF RecordsInv, RowsOK, RowOK, LadderKept, SubmittedAsSent, ParentOutlivesChild, Live
<1>3. CallsOK'
  <2>1. ASSUME NEW d \in DOMAIN call'
        PROVE  CallOK(call[d])'
    <3>1. CallOK(call[d]) /\ call'[d] = call[d]
      BY <1>1, <2>1 DEF RecordsInv, CallsOK
    <3> QED BY <1>1, <3>1 DEF CallOK, ChangeOK, ParentThere, OwnerOf
  <2> QED BY <2>1 DEF CallsOK, InFlight
<1>4. PairsRaced' /\ Fresh'
  BY <1>1 DEF RecordsInv, PairsRaced, Fresh, InFlight
<1>5. ParentsOK'
  BY <1>1 DEF RecordsInv, ParentsOK, IsDepartment, Live, InFlight
<1> QED BY <1>2, <1>3, <1>4, <1>5 DEF RecordsInv

(* Every step keeps it.                                                     *)
LEMMA NextKeepsRecordsInv == RecordsInv /\ [Next]_vars => RecordsInv'
<1> SUFFICES ASSUME RecordsInv, [Next]_vars PROVE RecordsInv'
  OBVIOUS
<1> USE DEF RecordsInv
<1>1. ASSUME NEW c, NEW op, NEW who, NEW r, NEW parent, Begins(c, op, who, r, parent)
      PROVE  RecordsInv'
  BY <1>1, BeginKeepsRowsAndCalls, BeginKeepsImages
<1>2. ASSUME NEW c, Store(c)
      PROVE  RecordsInv'
  BY <1>2, StoreKeepsRows, StoreKeepsCalls, StoreKeepsLadder, StoreKeepsFresh,
     StoreKeepsSubmitted, StoreKeepsParents, StoreKeepsChildren
<1>3. ASSUME NEW c, Fail(c)
      PROVE  RecordsInv'
  BY <1>3, FailKeeps
<1>4. CASE UNCHANGED <<desk, row, call, left, was, sent, raced>>
  <2>1. RowsOK' /\ LadderKept' /\ SubmittedAsSent' /\ ParentOutlivesChild'
    BY <1>4 DEF RowsOK, RowOK, LadderKept, SubmittedAsSent, ParentOutlivesChild, Live
  <2>2. CallsOK' /\ PairsRaced' /\ Fresh' /\ ParentsOK'
    BY <1>4 DEF CallsOK, CallOK, ChangeOK, ParentThere, OwnerOf, PairsRaced, Fresh, ParentsOK,
                IsDepartment, Live, InFlight
  <2> QED BY <2>1, <2>2
<1> QED BY <1>1, <1>2, <1>3, <1>4, NextCases

(* The inductive invariant holds in every reachable state.                  *)
THEOREM RecordsInvHolds == Spec => []RecordsInv
BY InitRecordsInv, NextKeepsRecordsInv, PTL DEF Spec

-----------------------------------------------------------------------------
(* Theorems.                                                               *)

(* A status is reached with the one below it: a call writes its own status  *)
(* only over an image in a status that has it below, however late.          *)
THEOREM StatusesAreClimbed == Spec => []NoStatusSkipped
<1>1. RecordsInv => NoStatusSkipped
  BY DEF RecordsInv, LadderKept, NoStatusSkipped
<1> QED BY <1>1, RecordsInvHolds, PTL

(* What is approved is what was submitted, where no calls raced on the row. *)
THEOREM ApprovalIsOfTheSubmission == Spec => []ApprovedAsSubmitted
<1>1. RecordsInv => ApprovedAsSubmitted
  BY DEF RecordsInv, SubmittedAsSent, ApprovedAsSubmitted
<1> QED BY <1>1, RecordsInvHolds, PTL

(* No department is deleted under another, where no calls raced on the two. *)
THEOREM ChildrenKeepTheirParent == Spec => []ParentOutlivesChild
<1>1. RecordsInv => ParentOutlivesChild
  BY DEF RecordsInv
<1> QED BY <1>1, RecordsInvHolds, PTL

(* Every row keeps to its tables, and the calls in flight were made.       *)
CallsCounted ==
    /\ left \in Nat /\ IsFiniteSet(InFlight)
    /\ left + Cardinality(InFlight) <= MaxCalls

(* Every row is a row of one of the desk's kinds, and no more calls are in  *)
(* flight than were made (CallsCounted counts them).                        *)
THEOREM RecordsTypeOK == Spec => []TypeOK
<1>1. Init => CallsCounted
  <2>1. ASSUME Init PROVE InFlight = {} /\ left = MaxCalls
    BY <2>1 DEF Init, InFlight
  <2> QED BY <2>1, FS_EmptySet, DesksAssumption DEF CallsCounted
<1>2. CallsCounted /\ [Next]_vars => CallsCounted'
  <2> SUFFICES ASSUME CallsCounted, [Next]_vars PROVE CallsCounted'
    OBVIOUS
  <2>1. left \in Nat /\ MaxCalls \in Nat /\ IsFiniteSet(InFlight) /\ Cardinality(InFlight) \in Nat
        /\ left + Cardinality(InFlight) <= MaxCalls
    BY FS_CardinalityType, DesksAssumption DEF CallsCounted
  <2>2. ASSUME NEW c, NEW op, NEW who, NEW r, NEW parent, Begins(c, op, who, r, parent)
        PROVE  CallsCounted'
    <3>1. DOMAIN call' = InFlight \cup {c} /\ left' = left - 1 /\ left > 0
      BY <2>2, BegunCalls DEF Begins, Begin
    <3>2. /\ IsFiniteSet(InFlight \cup {c})
          /\ Cardinality(InFlight \cup {c})
               = IF c \in InFlight THEN Cardinality(InFlight) ELSE Cardinality(InFlight) + 1
      BY <2>1, FS_AddElement
    <3> QED BY <2>1, <3>1, <3>2 DEF CallsCounted, InFlight
  <2>3. ASSUME NEW c, Store(c) \/ Fail(c)
        PROVE  CallsCounted'
    <3>1. DOMAIN call' = InFlight \ {c} /\ left' = left
      BY <2>3, EndedCalls DEF Store, Fail
    <3>2. /\ IsFiniteSet(InFlight \ {c})
          /\ Cardinality(InFlight \ {c})
               = IF c \in InFlight THEN Cardinality(InFlight) - 1 ELSE Cardinality(InFlight)
      BY <2>1, FS_RemoveElement
    <3> QED BY <2>1, <3>1, <3>2 DEF CallsCounted, InFlight
  <2>4. CASE UNCHANGED <<desk, row, call, left, was, sent, raced>>
    BY <2>4 DEF CallsCounted, InFlight
  <2> QED BY <2>2, <2>3, <2>4, NextCases
<1>3. RecordsInv /\ CallsCounted => TypeOK
  <2> SUFFICES ASSUME RecordsInv, CallsCounted PROVE TypeOK
    OBVIOUS
  <2>1. Kinds(desk) \subseteq {o.kind : o \in Desks[desk]}
    BY DEF Kinds, Writes
  <2>2. ASSUME NEW r \in Ids
        PROVE  /\ row[r].life \in {"absent", "live", "deleted"}
               /\ row[r].life # "absent" => row[r].kind \in {o.kind : o \in Desks[desk]}
               /\ row[r].text \in Texts /\ row[r].under \in Ids \cup {NoRow}
               /\ sent[r] \in Texts \cup {"never"} /\ row[r].status \in was[r]
    <3>1. row[r] \in RowSet(desk) /\ RowOK(r) /\ sent[r] \in Texts \cup {"never"}
      BY DEF RecordsInv, RowsOK
    <3> QED BY <2>1, <3>1 DEF RowSet, RowOK
  <2> QED BY <2>2 DEF TypeOK, RecordsInv, RowsOK, CallsCounted
<1> QED BY <1>1, <1>2, <1>3, RecordsInvHolds, PTL DEF Spec

(* A step ends the call it stores, and one that stores nothing changes no   *)
(* row.                                                                     *)
LEMMA RowChange ==
  ASSUME RecordsInv, [Next]_vars, NEW r \in Ids, row'[r] # row[r]
  PROVE  \E c : /\ Store(c) /\ c \in InFlight /\ CallOK(call[c]) /\ DOMAIN call' = InFlight \ {c}
                /\ Rewritten(call[c], r, row'[r]) \/ Placed(call[c], r, row'[r])
<1>1. ASSUME NEW c, Store(c)
      PROVE  /\ c \in InFlight /\ CallOK(call[c]) /\ DOMAIN call' = InFlight \ {c}
             /\ Rewritten(call[c], r, row'[r]) \/ Placed(call[c], r, row'[r])
  BY <1>1, StoredRow, EndedCalls DEF RecordsInv
<1>2. ASSUME NEW c, NEW op, NEW who, NEW p, NEW parent, Begins(c, op, who, p, parent)
      PROVE  FALSE
  BY <1>2 DEF Begins, Begin
<1>3. ASSUME NEW c, Fail(c)
      PROVE  FALSE
  BY <1>3 DEF Fail
<1>4. \E c : Store(c)
  BY <1>2, <1>3, NextCases
<1> QED BY <1>1, <1>4

(* A row is written only by a request that carries its enterprise, by the   *)
(* timer, or as the grant of a role: the condition of the statement holds   *)
(* of the row as it is by then.                                             *)
LEMMA WriterOwnsRow ==
  ASSUME RecordsInv, [Next]_vars, NEW r \in Ids, row'[r] # row[r], row'[r].ent # "platform"
  PROVE  /\ row'[r].ent # "none"
         /\ Live(r) => row'[r].ent = row[r].ent
         /\ \E c \in InFlight : /\ c \notin DOMAIN call'
                                /\ \/ call[c].who.ent = row'[r].ent
                                   \/ call[c].who = Timer
                                   \/ row'[r].kind = "role grants"
<1>1. PICK c : /\ Store(c) /\ c \in InFlight /\ CallOK(call[c]) /\ DOMAIN call' = InFlight \ {c}
               /\ Rewritten(call[c], r, row'[r]) \/ Placed(call[c], r, row'[r])
  BY RowChange
<1> DEFINE k == call[c]
<1>2. RowsOK' /\ RowOK(r)' /\ RowOK(r) /\ desk' = desk /\ desk \in DOMAIN Desks
  <2>1. RowsOK'
    BY <1>1, StoreKeepsRows DEF RecordsInv
  <2>2. RowOK(r)'
    BY <2>1 DEF RowsOK
  <2> QED BY <1>1, <2>1, <2>2 DEF RecordsInv, RowsOK, Store
<1>3. /\ row[r].life # "absent" => row'[r].life # "absent" /\ row'[r].kind = row[r].kind
                                   /\ row'[r].ent = row[r].ent
      /\ row[r].life = "absent" =>
            /\ row'[r].life # "absent" /\ row'[r].kind = k.op.kind
            /\ row'[r].ent = OwnerOf(k.op, k.who, k.parent)
  <2>1. \A ent, end : /\ NewRow(k.op, ent, k.parent, end).life # "absent"
                      /\ NewRow(k.op, ent, k.parent, end).kind = k.op.kind
                      /\ NewRow(k.op, ent, k.parent, end).ent = ent
    BY DEF NewRow
  <2> HIDE DEF k
  <2>2. row[r].life = "absent" =>
            \E end : row'[r] = NewRow(k.op, OwnerOf(k.op, k.who, k.parent), k.parent, end)
    BY <1>1, StoredFacts DEF RecordsInv, k
  <2>3. row[r].life # "absent" => row'[r].life # "absent" /\ row'[r].kind = row[r].kind
                                  /\ row'[r].ent = row[r].ent
    BY <1>1, StoredFacts DEF RecordsInv
  <2> QED BY <2>1, <2>2, <2>3
<1>4. row'[r].life # "absent"
  BY <1>3
<1>5. row'[r].ent # "none"
  BY <1>2, <1>4 DEF RowOK
<1>6. Live(r) => row'[r].ent = row[r].ent
  BY <1>3 DEF Live
<1>7. k.who.ent = row'[r].ent \/ k.who = Timer \/ row'[r].kind = "role grants"
  <2>1. CASE Rewritten(k, r, row'[r])
    <3>1. /\ r = k.row /\ row[r].life # "absent" /\ ChangeOK(k) /\ ~Inserts(k.op)
          /\ k.op \in Writes(desk) /\ k.who \in MayCall(k.op)
      BY <1>1, <2>1, CallRowPresent DEF Rewritten, RecordsInv, CallOK
    <3>2. row'[r].ent = row[r].ent
      BY <1>3, <3>1
    <3>3. CASE k.op.find = "own"
      BY <3>1, <3>2, <3>3 DEF ChangeOK
    <3>4. CASE k.op.find = "blind"
      <4>1. k.op.via # "save"
        BY <1>2, <3>1, <3>4, DesksAssumption
      <4>2. Meets(k)
        BY <2>1, <4>1 DEF Rewritten
      <4> QED BY <3>1, <3>2, <3>4, <4>2 DEF Meets
    <3>5. CASE k.op.find = "unmarked"
      BY <1>2, <3>1, <3>5, DesksAssumption, CallerTypes
    <3>6. CASE k.op.find = "shared"
      <4>1. row[r].kind \in SharedKinds(desk)
        BY <3>1, <3>6 DEF ChangeOK, SharedKinds, Writes
      <4> QED BY <1>2, <3>1, <3>2, <4>1 DEF RowOK
    <3> QED BY <1>2, <3>1, <3>3, <3>4, <3>5, <3>6, DesksAssumption DEF Inserts
  <2>2. CASE Placed(k, r, row'[r])
    <3>4. k.op.find = "parent" => k.op.kind = "role grants"
      BY <1>1, <1>2, GrantsAssumption DEF CallOK
    <3>1. CASE Replaced(k, r)
      <4>1. row'[r].ent = OwnerOf(k.op, k.who, k.parent) /\ row'[r].kind = k.op.kind
        BY <1>3, <3>1 DEF Replaced, Live
      <4> QED BY <3>4, <4>1 DEF OwnerOf
    <3>2. CASE Raised(k, r)
      BY <1>3, <3>2 DEF Raised, Live
    <3>3. CASE row[r].life = "absent"
      <4>1. row'[r].ent = OwnerOf(k.op, k.who, k.parent) /\ row'[r].kind = k.op.kind
        BY <1>3, <3>3
      <4> QED BY <3>4, <4>1 DEF OwnerOf
    <3> QED BY <2>2, <3>1, <3>2, <3>3 DEF Placed
  <2> QED BY <1>1, <2>1, <2>2
<1> QED BY <1>1, <1>5, <1>6, <1>7

(* Whatever requests for two enterprises interleave, a row is created,      *)
(* changed or deleted only by a request that carries its enterprise, by the *)
(* timer, or as the grant of a role.                                        *)
THEOREM TenantsAreApart == Spec => TenantsStayApart
<1>1. RecordsInv /\ [Next]_vars =>
         [\A r \in Ids : row'[r] # row[r] /\ row'[r].ent # "platform" =>
             /\ row'[r].ent # "none"
             /\ Live(r) => row'[r].ent = row[r].ent
             /\ \E c \in InFlight : /\ c \notin DOMAIN call'
                                    /\ \/ call[c].who.ent = row'[r].ent
                                       \/ call[c].who = Timer
                                       \/ row'[r].kind = "role grants"]_vars
  BY WriterOwnsRow
<1> QED BY <1>1, RecordsInvHolds, PTL DEF Spec, TenantsStayApart

(* A deleted row of a table that is written by columns stays deleted.      *)
THEOREM DeletionIsFinal == Spec => DeletedStaysDeleted
<1>1. ASSUME RecordsInv, [Next]_vars, NEW r \in Ids, desk \notin Direct,
             row[r].kind \in ColumnTables, row[r].life = "deleted"
      PROVE  row'[r].life = "deleted"
  <2> SUFFICES ASSUME row'[r] # row[r] PROVE row'[r].life = "deleted"
    BY <1>1
  <2>1. PICK c : /\ CallOK(call[c])
                 /\ Rewritten(call[c], r, row'[r]) \/ Placed(call[c], r, row'[r])
    BY <1>1, RowChange
  <2>2. ~Live(r) /\ row[r].life # "absent"
    BY <1>1 DEF Live
  <2>3. Rewritten(call[c], r, row'[r]) /\ ~Inserts(call[c].op)
    BY <2>1, <2>2 DEF Placed, Replaced, Raised, Rewritten
  <2>4. call[c].op.kind = row[r].kind /\ call[c].op \in Writes(desk) /\ desk \in Served
    BY <1>1, <2>1, <2>3 DEF CallOK, ChangeOK, Rewritten, RecordsInv, RowsOK, Served
  <2>5. call[c].op.via \notin {"save", "restore"}
    BY <1>1, <2>4, ColumnsAssumption
  <2>6. row'[r] = Changed(row[r], call[c])
    BY <2>2, <2>3, <2>5 DEF Rewritten
  <2>7. /\ desk \in DOMAIN Desks /\ row[r] \in RowSet(desk) /\ call[c].op \in Writes(desk)
        /\ call[c].parent \in Ids \cup {NoRow}
    BY <1>1, <2>1, <2>4 DEF RecordsInv, RowsOK, CallOK
  <2> QED BY <1>1, <2>6, <2>7, ChangedRow
<1>2. RecordsInv /\ [Next]_vars =>
         [\A r \in Ids : desk \notin Direct /\ row[r].kind \in ColumnTables /\ row[r].life = "deleted"
                            => row'[r].life = "deleted"]_vars
  BY <1>1
<1> QED BY <1>2, RecordsInvHolds, PTL DEF Spec, DeletedStaysDeleted

(* An employee's request, but by an operation that reads nothing and asks   *)
(* for no permission, changes no row of a kind that is closed to employees. *)
THEOREM EmployeesAreReaders == Spec => EmployeesOnlyRead
<1>1. ASSUME RecordsInv, [Next]_vars, NEW c \in InFlight,
             call[c].who.role = "employee", ~Unguarded(call[c].op), c \notin DOMAIN call',
             NEW r \in Ids, row[r].kind \in Restricted \/ row'[r].kind \in Restricted
      PROVE  row'[r] = row[r]
  <2> SUFFICES ASSUME row'[r] # row[r] PROVE FALSE
    OBVIOUS
  <2> DEFINE k == call[c]
  <2>1. PICK d : /\ Store(d) /\ CallOK(call[d]) /\ DOMAIN call' = InFlight \ {d}
                 /\ Rewritten(call[d], r, row'[r]) \/ Placed(call[d], r, row'[r])
    BY <1>1, RowChange
  <2>2. d = c /\ CallOK(k) /\ (Rewritten(k, r, row'[r]) \/ Placed(k, r, row'[r])) /\ Store(c)
    BY <1>1, <2>1
  <2>3. k.op \in Writes(desk) /\ k.who \in MayCall(k.op) /\ desk \in DOMAIN Desks
    BY <1>1, <2>2 DEF CallOK, RecordsInv, RowsOK
  <2>4. k.op.kind \notin Restricted
    <3>1. k.op.gate # Scheduled
      BY <1>1, <2>3, CallerTypes DEF Timer
    <3>2. RequirePermission("employee", k.op.gate)
      BY <1>1, <2>3, <3>1, CallerTypes
    <3> QED BY <1>1, <2>3, <3>2, EmployeesAssumption
  <2>5. CASE row[r].life = "absent"
    <3>1. RowOK(r)
      BY <1>1 DEF RecordsInv, RowsOK
    <3>2. row[r].kind \notin Restricted
      BY <2>5, <3>1, EmployeesAssumption DEF RowOK, Absent
    <3>3. row'[r].kind = k.op.kind
      <4>1. PICK end : row'[r] = NewRow(k.op, OwnerOf(k.op, k.who, k.parent), k.parent, end)
        BY <1>1, <2>2, <2>5, StoredFacts DEF RecordsInv
      <4> QED BY <4>1 DEF NewRow
    <3> QED BY <1>1, <2>4, <3>2, <3>3
  <2>6. CASE row[r].life # "absent"
    <3>1. row'[r].kind = row[r].kind
      BY <1>1, <2>2, <2>6, StoredFacts DEF RecordsInv
    <3>2. Rewritten(k, r, row'[r]) => row[r].kind = k.op.kind
      BY <2>2 DEF Rewritten, CallOK, ChangeOK
    <3>3. Placed(k, r, row'[r]) => row[r].kind \in {k.op.kind, "service"}
      BY <2>6 DEF Placed, Replaced, Raised
    <3> QED BY <1>1, <2>2, <2>4, <3>1, <3>2, <3>3, EmployeesAssumption
  <2> QED BY <2>5, <2>6
<1>2. RecordsInv /\ [Next]_vars =>
         [\A c \in InFlight : call[c].who.role = "employee" /\ ~Unguarded(call[c].op)
                                /\ c \notin DOMAIN call' =>
             \A r \in Ids : row[r].kind \in Restricted \/ row'[r].kind \in Restricted
                                 => row'[r] = row[r]]_vars
  BY <1>1
<1> QED BY <1>2, RecordsInvHolds, PTL DEF Spec, EmployeesOnlyRead

-----------------------------------------------------------------------------
(* Reading page after page.                                                *)

(* A row has a place in a list, which a longer list does not bring forward. *)
LEMMA Places ==
  ASSUME NEW L \in SUBSET Ids
  PROVE  /\ IsFiniteSet(L) /\ Cardinality(L) \in Nat /\ Cardinality(L) <= MaxRow
         /\ \A r \in Ids : Newer(r, L) \in Nat
         /\ \A r \in L : Newer(r, L) < Cardinality(L)
         /\ \A K \in SUBSET L : \A r \in Ids : Newer(r, K) <= Newer(r, L)
<1>1. IsFiniteSet(Ids) /\ Cardinality(Ids) = MaxRow /\ Ids \subseteq Nat
  BY FS_Interval, DesksAssumption DEF Ids
<1>2. IsFiniteSet(L) /\ Cardinality(L) \in Nat /\ Cardinality(L) <= MaxRow
  BY <1>1, FS_Subset, FS_CardinalityType
<1>3. ASSUME NEW K \in SUBSET L, NEW r \in Ids
      PROVE  Newer(r, K) \in Nat /\ Newer(r, L) \in Nat /\ Newer(r, K) <= Newer(r, L)
  <2> DEFINE above(S) == {s \in S : s > r}
  <2>1. above(L) \subseteq L /\ above(K) \subseteq above(L)
    OBVIOUS
  <2>2. IsFiniteSet(above(L)) /\ IsFiniteSet(above(K))
    BY <1>2, <2>1, FS_Subset
  <2> QED BY <2>1, <2>2, FS_Subset, FS_CardinalityType DEF Newer
<1>4. ASSUME NEW r \in L PROVE Newer(r, L) < Cardinality(L)
  <2> DEFINE above == {s \in L : s > r}
  <2>1. above \subseteq L /\ r \notin above
    BY <1>1
  <2>2. Cardinality(above) <= Cardinality(L) /\ Cardinality(above) # Cardinality(L)
    BY <1>2, <2>1, FS_Subset
  <2>3. Cardinality(above) \in Nat
    BY <1>2, <2>1, FS_Subset, FS_CardinalityType
  <2> QED BY <1>2, <2>2, <2>3 DEF Newer
<1> QED BY <1>2, <1>3, <1>4

(* The first i rows of a list.                                             *)
Top(L, i) == {r \in L : Newer(r, L) < i}
(* Behind the first i rows comes the newest of the others, at the place i.  *)
LEMMA TopStep ==
  ASSUME NEW L \in SUBSET Ids, NEW i \in Nat, i < Cardinality(L), Cardinality(Top(L, i)) = i
  PROVE  Cardinality(Top(L, i + 1)) = i + 1
<1> DEFINE rest == L \ Top(L, i)
           bounds == {u \in Nat : \A r \in rest : r <= u}
<1>1. L \subseteq Ids /\ Ids \subseteq Nat /\ MaxRow \in Nat /\ \A r \in Ids : r <= MaxRow
  BY DesksAssumption DEF Ids
<1>2. IsFiniteSet(L) /\ IsFiniteSet(Top(L, i)) /\ Top(L, i) \subseteq L
  BY Places, FS_Subset DEF Top
<1>3. rest # {}
  BY <1>2
<1>4. PICK m \in rest : \A r \in rest : r <= m
  <2>1. bounds \in SUBSET Nat /\ MaxRow \in bounds
    BY <1>1
  <2>2. Min(bounds) \in bounds /\ \A u \in bounds : Min(bounds) <= u
    BY <2>1, NatMin
  <2> DEFINE least == Min(bounds)
  <2>3. least \in rest
    <3> SUFFICES ASSUME least \notin rest PROVE FALSE
      OBVIOUS
    <3>1. least \in Nat /\ \A r \in rest : r \in Nat /\ r <= least
      BY <1>1, <2>2
    <3> HIDE DEF least
    <3>2. \A r \in rest : r < least
      BY <3>1
    <3>3. least # 0 /\ least - 1 \in Nat /\ \A r \in rest : r <= least - 1
      BY <1>3, <3>1, <3>2
    <3>4. least - 1 \in bounds
      BY <3>3
    <3> QED BY <2>2, <3>1, <3>4 DEF least
  <2> QED BY <2>2, <2>3
<1>5. m \in L /\ m \in Nat /\ ~(Newer(m, L) < i) /\ \A r \in L : r \in Nat /\ Newer(r, L) \in Nat
  BY <1>1, <1>4, Places DEF Top
<1>6. ASSUME NEW r \in L, NEW s \in L, r < s PROVE Newer(s, L) < Newer(r, L)
  <2> DEFINE above(x) == {y \in L : y > x}
  <2>1. above(s) \subseteq above(r) /\ s \in above(r) /\ s \notin above(s) /\ above(r) \subseteq L
    <3>1. \A y \in L : y > s => y > r
      BY <1>5, <1>6
    <3>2. s > r /\ ~(s > s)
      BY <1>5, <1>6
    <3> QED BY <3>1, <3>2
  <2>2. IsFiniteSet(above(r))
    BY <1>2, <2>1, FS_Subset
  <2>3. Cardinality(above(s)) <= Cardinality(above(r)) /\ Cardinality(above(s)) # Cardinality(above(r))
    BY <2>1, <2>2, FS_Subset
  <2>4. Newer(s, L) = Cardinality(above(s)) /\ Newer(r, L) = Cardinality(above(r))
    BY DEF Newer
  <2> HIDE DEF above
  <2> QED BY <1>5, <2>3, <2>4
<1>7. {s \in L : s > m} = Top(L, i)
  <2>1. ASSUME NEW s \in L, s > m PROVE s \in Top(L, i)
    BY <1>4, <1>5, <2>1
  <2>2. ASSUME NEW s \in Top(L, i) PROVE s > m
    <3>1. s \in L /\ Newer(s, L) < i /\ s # m /\ s \in Nat
      BY <1>2, <1>4, <1>5 DEF Top
    <3>2. CASE s < m
      BY <1>5, <1>6, <3>1, <3>2
    <3> QED BY <1>5, <3>1, <3>2
  <2> QED BY <1>2, <2>1, <2>2
<1>8. Newer(m, L) = i
  BY <1>7 DEF Newer
<1>9. Top(L, i + 1) = Top(L, i) \cup {m}
  <2>1. ASSUME NEW r \in L, Newer(r, L) < i + 1 PROVE r \in Top(L, i) \/ r = m
    <3>1. CASE r < m
      BY <1>5, <1>6, <1>8, <2>1, <3>1
    <3>2. CASE r > m
      BY <1>7, <3>2
    <3> QED BY <1>5, <3>1, <3>2
  <2>2. m \in Top(L, i + 1) /\ Top(L, i) \subseteq Top(L, i + 1)
    <3>1. \A r \in L : Newer(r, L) < i => Newer(r, L) < i + 1
      BY <1>5
    <3>2. i < i + 1
      OBVIOUS
    <3> QED BY <1>5, <1>8, <3>1, <3>2 DEF Top
  <2>3. Top(L, i + 1) \subseteq Top(L, i) \cup {m}
    BY <2>1 DEF Top
  <2> QED BY <2>2, <2>3
<1> QED BY <1>2, <1>4, <1>9, FS_AddElement

(* So they are i rows.                                                      *)
LEMMA TopCount ==
  ASSUME NEW L \in SUBSET Ids, NEW i \in Nat, i <= Cardinality(L)
  PROVE  Cardinality(Top(L, i)) = i
<1> DEFINE wrong == {k \in Nat : k <= Cardinality(L) /\ Cardinality(Top(L, k)) # k}
<1> SUFFICES ASSUME wrong # {} PROVE FALSE
  OBVIOUS
<1>1. Min(wrong) \in wrong /\ \A k \in wrong : Min(wrong) <= k
  BY NatMin
<1> DEFINE least == Min(wrong)
<1>2. least \in Nat /\ least <= Cardinality(L) /\ Cardinality(Top(L, least)) # least
  BY <1>1
<1>3. Cardinality(L) \in Nat
  BY Places
<1>4. Top(L, 0) = {}
  <2>1. \A r \in L : Newer(r, L) \in Nat
    BY Places
  <2> QED BY <2>1 DEF Top
<1>5. least # 0
  BY <1>2, <1>4, FS_EmptySet
<1> HIDE DEF least
<1>6. least - 1 \in Nat /\ least - 1 < Cardinality(L) /\ least = (least - 1) + 1
  BY <1>2, <1>3, <1>5
<1>7. least - 1 \notin wrong
  BY <1>1, <1>2 DEF least
<1>8. Cardinality(Top(L, least - 1)) = least - 1
  BY <1>3, <1>6, <1>7
<1>9. Cardinality(Top(L, (least - 1) + 1)) = (least - 1) + 1
  BY <1>6, <1>8, TopStep
<1> QED BY <1>2, <1>6, <1>9

(* A page is full as long as a row comes behind it.                         *)
LEMMA PageIsFull ==
  ASSUME NEW L \in SUBSET Ids, NEW a \in Nat, NEW size \in Nat, NEW x \in L, Newer(x, L) >= a + size
  PROVE  Cardinality({r \in L : Newer(r, L) \in a..(a + size - 1)}) = size
<1> DEFINE page == {r \in L : Newer(r, L) \in a..(a + size - 1)}
<1>1. /\ IsFiniteSet(L) /\ Cardinality(L) \in Nat /\ Newer(x, L) < Cardinality(L)
      /\ \A r \in L : Newer(r, L) \in Nat
  BY Places
<1>2. a + size \in Nat /\ a + size <= Cardinality(L) /\ a <= Cardinality(L)
  BY <1>1
<1>3. Cardinality(Top(L, a + size)) = a + size /\ Cardinality(Top(L, a)) = a
  BY <1>2, TopCount
<1>4. page = Top(L, a + size) \ Top(L, a) /\ Top(L, a + size) \cap Top(L, a) = Top(L, a)
  BY <1>1 DEF Top
<1>5. IsFiniteSet(Top(L, a + size))
  BY <1>1, FS_Subset DEF Top
<1>6. Cardinality(page) = (a + size) - a
  <2> DEFINE T == Top(L, a + size)
             B == Top(L, a)
  <2> HIDE DEF page, T, B
  <2>1. Cardinality(T \ B) = Cardinality(T) - Cardinality(T \cap B)
    BY <1>5, FS_Difference DEF T
  <2>2. page = T \ B /\ T \cap B = B /\ Cardinality(T) = a + size /\ Cardinality(B) = a
    BY <1>3, <1>4 DEF T, B
  <2> QED BY <2>1, <2>2
<1> QED BY <1>6

(* A reader that has not ended has got what it is owed, or it comes behind  *)
(* the pages that were read; one that has ended has got it.                 *)
WalkForm ==
    /\ walk = [page |-> walk.page, size |-> walk.size, kind |-> walk.kind, ent |-> walk.ent,
               got |-> walk.got, owed |-> walk.owed, list |-> walk.list]
    /\ walk.page \in Nat /\ walk.owed \subseteq walk.list /\ walk.list \subseteq Ids
StillAhead(x) == Newer(x, walk.list) >= (walk.page - 1) * walk.size
WalkInv ==
    /\ WalkForm
    /\ walk.page # 0 => walk.size \in Nat \ {0}
    /\ walk.page \in 1..(MaxRow + 1) => \A x \in walk.owed : x \in walk.got \/ StillAhead(x)
    /\ PageWalkMissesNothing

(* At the start all that is owed is ahead.                                  *)
LEMMA StartsAhead ==
  ASSUME WalkInv, desk \in DOMAIN Desks, NEW op \in Desks[desk], Lookup(op), NEW who, NEW size \in PageSizes,
         StartWalk(op, who, size)
  PROVE  WalkInv'
<1> DEFINE w == [page |-> 1, size |-> PageSize(op.pages, size), kind |-> op.kind,
                 ent |-> OwnerOf(op, who, NoRow), got |-> {}, owed |-> {}, list |-> {}]
           first == Listed(w)
<1>1. walk' = [w EXCEPT !.owed = first, !.list = first]
  BY DEF StartWalk
<1>2. first \subseteq Ids
  BY DEF Listed
<1>3. PageSize(op.pages, size) \in Nat \ {0}
  BY PagesAssumption DEF StartWalk, Lookup, PageSize
<1> HIDE DEF first
<1>4. /\ walk'.page = 1 /\ walk'.size = PageSize(op.pages, size) /\ walk'.owed = first /\ walk'.list = first
      /\ WalkForm'
  BY <1>1, <1>2 DEF WalkForm
<1>5. \A x \in walk'.owed : Newer(x, walk'.list) >= (walk'.page - 1) * walk'.size
  <2>1. \A x \in first : Newer(x, first) \in Nat
    BY <1>2, Places
  <2>2. (walk'.page - 1) * walk'.size = 0
    BY <1>3, <1>4
  <2> QED BY <1>4, <2>1, <2>2
<1>6. ~(walk'.page > MaxRow + 1)
  BY <1>4, DesksAssumption
<1> QED BY <1>3, <1>4, <1>5, <1>6 DEF WalkInv, StillAhead, PageWalkMissesNothing

(* A page takes what is next, and leaves ahead what is behind it.           *)
LEMMA ReadsOn ==
  ASSUME WalkInv, ReadPage
  PROVE  WalkInv'
<1> DEFINE L == Listed(walk)
           p == walk.page
           size == walk.size
           a == (p - 1) * size
           page == PageOf(L, p, size)
<1>1. /\ p \in 1..(MaxRow + 1)
      /\ walk' = [walk EXCEPT !.got = @ \cup page,
                              !.owed = IF walk.list \subseteq L THEN @ ELSE {},
                              !.list = L,
                              !.page = IF Cardinality(page) < size THEN MaxRow + 2 ELSE @ + 1]
  BY DEF ReadPage
<1>2. L \subseteq Ids
  BY DEF Listed
<1>3. /\ MaxRow \in Nat /\ p \in Nat /\ p >= 1 /\ p <= MaxRow + 1 /\ size \in Nat \ {0}
      /\ walk.list \subseteq Ids /\ walk.owed \subseteq walk.list
  BY <1>1, DesksAssumption DEF WalkInv, WalkForm
<1>4. a \in Nat /\ a = (p - 1) * size /\ p * size = a + size /\ ((p + 1) - 1) * size = a + size
  BY <1>3
<1> HIDE DEF a
<1>5. page = {r \in L : Newer(r, L) \in a..(a + size - 1)}
  <2>1. PageNo(p) = p
    BY <1>3 DEF PageNo
  <2>2. p * size - 1 = a + size - 1
    BY <1>3, <1>4
  <2>3. PageOf(L, p, size) = {r \in L : Newer(r, L) \in ((p - 1) * size)..(p * size - 1)}
    BY <2>1 DEF PageOf
  <2> QED BY <1>4, <2>2, <2>3
<1>6. page \subseteq L
  BY <1>5
<1> HIDE DEF L, page
<1>7. /\ walk'.got = walk.got \cup page /\ walk'.list = L /\ walk'.size = size
      /\ walk'.owed = IF walk.list \subseteq L THEN walk.owed ELSE {}
      /\ walk'.page = IF Cardinality(page) < size THEN MaxRow + 2 ELSE p + 1
      /\ WalkForm'
  <2> DEFINE owed == IF walk.list \subseteq L THEN walk.owed ELSE {}
             next == IF Cardinality(page) < size THEN MaxRow + 2 ELSE p + 1
  <2>1. next \in Nat /\ owed \subseteq L
    BY <1>3
  <2>2. walk' = [walk EXCEPT !.got = @ \cup page, !.owed = owed, !.list = L, !.page = next]
    BY <1>1
  <2> HIDE DEF owed, next
  <2>3. walk' = [page |-> next, size |-> size, kind |-> walk.kind, ent |-> walk.ent,
                 got |-> walk.got \cup page, owed |-> owed, list |-> L]
    BY <2>2 DEF WalkInv, WalkForm
  <2>4. /\ walk'.got = walk.got \cup page /\ walk'.list = L /\ walk'.size = size
        /\ walk'.owed = owed /\ walk'.page = next /\ WalkForm'
    BY <1>2, <2>1, <2>3 DEF WalkForm
  <2> QED BY <2>4 DEF owed, next
<1>8. ASSUME NEW x \in walk'.owed, x \notin walk'.got PROVE Newer(x, L) >= a + size /\ x \in L /\ Newer(x, L) \in Nat
  <2>1. x \in walk.owed /\ walk.list \subseteq L /\ x \notin walk.got /\ x \notin page /\ x \in L /\ x \in Ids
    BY <1>2, <1>3, <1>7, <1>8
  <2>2. Newer(x, walk.list) >= a
    BY <1>1, <2>1 DEF WalkInv, StillAhead, a
  <2>3. Newer(x, walk.list) <= Newer(x, L) /\ Newer(x, L) \in Nat /\ Newer(x, walk.list) \in Nat
    BY <1>2, <1>3, <2>1, Places
  <2>4. ~(Newer(x, L) \in a..(a + size - 1))
    BY <1>5, <2>1
  <2> QED BY <1>3, <1>4, <2>1, <2>2, <2>3, <2>4
<1>9. walk'.page \in 1..(MaxRow + 1) => \A x \in walk'.owed : x \in walk'.got \/ StillAhead(x)'
  <2> SUFFICES ASSUME walk'.page \in 1..(MaxRow + 1), NEW x \in walk'.owed, x \notin walk'.got
               PROVE  StillAhead(x)'
    OBVIOUS
  <2>1. walk'.page = p + 1
    BY <1>3, <1>7
  <2>2. (walk'.page - 1) * walk'.size = a + size
    BY <1>4, <1>7, <2>1
  <2> QED BY <1>7, <1>8, <2>2 DEF StillAhead
<1>10. walk'.page > MaxRow + 1 => walk'.owed \subseteq walk'.got
  <2> SUFFICES ASSUME walk'.page > MaxRow + 1, NEW x \in walk'.owed, x \notin walk'.got
               PROVE  FALSE
    OBVIOUS
  <2>1. Newer(x, L) >= a + size /\ x \in L /\ Newer(x, L) \in Nat
    BY <1>8
  <2>2. Cardinality(page) = size
    BY <1>2, <1>3, <1>4, <1>5, <2>1, PageIsFull
  <2>3. p = MaxRow + 1
    BY <1>3, <1>7, <2>2
  <2>4. a = MaxRow * size /\ a >= MaxRow
    BY <1>3, <2>3 DEF a
  <2>5. Newer(x, L) < MaxRow
    BY <1>2, <1>3, <2>1, Places
  <2> QED BY <1>3, <1>4, <2>1, <2>4, <2>5
<1>11. walk'.page # 0 => walk'.size \in Nat \ {0}
  BY <1>3, <1>7
<1> QED BY <1>7, <1>9, <1>10, <1>11 DEF WalkInv, PageWalkMissesNothing

(* A client that reads a list to its end has seen every row that was there  *)
(* when it began, if none left it between two pages: rows that are added    *)
(* push the others back, where later pages find them, and only the page     *)
(* behind the last row comes back short.                                    *)
THEOREM PagesMissNothing == Spec => []PageWalkMissesNothing
<1>1. Init => WalkInv
  BY DesksAssumption DEF Init, NotWalking, WalkInv, WalkForm, PageWalkMissesNothing
<1>2. ASSUME RecordsInv, WalkInv, [Next]_vars PROVE WalkInv'
  <2>1. desk \in DOMAIN Desks
    BY <1>2 DEF RecordsInv, RowsOK
  <2>2. ASSUME UNCHANGED walk PROVE WalkInv'
    BY <1>2, <2>2 DEF WalkInv, WalkForm, StillAhead, PageWalkMissesNothing
  <2>3. \/ UNCHANGED walk \/ ReadPage
        \/ \E op \in {o \in Desks[desk] : Lookup(o)} :
              \E who \in MayCall(op), size \in PageSizes : StartWalk(op, who, size)
    BY <1>2 DEF Next, vars, BeginInsert, BeginChange, Begin, Store, Fail
  <2> QED BY <1>2, <2>1, <2>2, <2>3, StartsAhead, ReadsOn
<1>3. WalkInv => PageWalkMissesNothing
  BY DEF WalkInv
<1> QED BY <1>1, <1>2, <1>3, RecordsInvHolds, PTL DEF Spec

=============================================================================
