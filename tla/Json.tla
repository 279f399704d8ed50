-------------------------------- MODULE Json --------------------------------
(***************************************************************************)
(* The JSON codec (src/esf/codec/json): one handle, its table of value ids  *)
(* and the table of the string values whose text stays in the Memory       *)
(* Manager.  parson, the library underneath, keeps the trees; what the     *)
(* codec adds is the bookkeeping that has to follow every change of them.  *)
(*                                                                         *)
(* The calls on one handle are not thread-safe (Json.adoc:4333), so a call *)
(* is one action.  A tree node is a number, 0 is NULL and, as an id,       *)
(* ESF_JSON_VALUE_INVALID.  Numbers, booleans and null are "scalar", and   *)
(* a text is kept only when it is a marker: JSON_PLACEHOLDER_<id>.         *)
(***************************************************************************)
EXTENDS Integers, Sequences, FiniteSets, SequencesExt

CONSTANTS
  MaxNodes,    \* bound: nodes that exist at once (malloc fails beyond)
  MaxValues,   \* ESF_JSON_VALUE_MAX
  MaxSlots,    \* CONFIG_EXTERNAL_CODEC_JSON_MEM_HANDLE_MAX
  Keys,        \* the names of members
  MemSizes,    \* the sizes of the data behind a Memory Manager handle
  Base,        \* the base an id is written in: 10
  PrefixSize,  \* the length of JSON_PLACEHOLDER_
  TextSize     \* the length of a text that is no marker

VARIABLES
  open,   \* EsfJsonOpen has been called
  node,   \* what parson keeps: the kind, the members and the marker of a node
  table,  \* EsfJsonValueContainer.data
  slots   \* EsfJsonValueContainer.mem_info

jsonVars == <<open, node, table, slots>>

Nodes == 1 .. MaxNodes
SlotSet == 1 .. MaxSlots

NoNode == [kind |-> "free", kids |-> <<>>, mark |-> 0]
NoSlot == [id |-> 0, size |-> 0]
NoEntry == [id |-> 0, node |-> 0]

-----------------------------------------------------------------------------
(* The trees of parson. *)

KidSet(n) == {node[n].kids[i].node : i \in DOMAIN node[n].kids}

\* The nodes below n, n included: the least set that has n and the kids of
\* all it has.
Closed(S) == \A k \in S : KidSet(k) \subseteq S
Tree(n) == {m \in Nodes : \A S \in SUBSET Nodes : n \in S /\ Closed(S) => m \in S}

Below(n) == Tree(n) \ {n}

Parents(n) == {p \in Nodes : n \in KidSet(p)}
HasParent(n) == Parents(n) # {}

Free == {n \in Nodes : node[n].kind = "free"}
Fresh == CHOOSE n \in Free : \A k \in Free : n <= k

\* nd after json_value_free of the nodes dead.
Freed(nd, dead) == [n \in Nodes |-> IF n \in dead THEN NoNode ELSE nd[n]]

Leaf(kind) == [NoNode EXCEPT !.kind = kind]
Marker(v) == [Leaf("string") EXCEPT !.mark = v]

\* The members kids, each with the node that link gives for its own.
Relinked(kids, link) ==
  [i \in DOMAIN kids |-> [key |-> kids[i].key, node |-> link[kids[i].node]]]

\* The path of parent links from p up: where n may not be put.
Above(p) == {n \in Nodes : p \in Tree(n)}

-----------------------------------------------------------------------------
(* The table of ids. *)

Live(v) == v # 0 /\ \E i \in DOMAIN table : table[i].id = v

\* EsfJsonValueFind
NodeOf(v) == table[CHOOSE i \in DOMAIN table : table[i].id = v].node

Ids == {v \in 1 .. Len(table) : Live(v)}

\* EsfJsonValueLookup
Managed(n) == \E i \in DOMAIN table : table[i].node = n
IdOf(n) == table[CHOOSE i \in DOMAIN table : table[i].node = n].id

\* EsfJsonValueLookupRemove of the nodes dead: their ids and their slots.
TableWithout(dead) ==
  [i \in DOMAIN table |-> IF table[i].node \in dead THEN NoEntry ELSE table[i]]

SlotsWithout(ids) ==
  [s \in SlotSet |-> IF slots[s].id \in ids \ {0} THEN NoSlot ELSE slots[s]]

IdsOf(dead) == {table[i].id : i \in {j \in DOMAIN table : table[j].node \in dead}}

EsfJsonValueLookupRemove(dead) ==
  /\ table' = TableWithout(dead)
  /\ slots' = SlotsWithout(IdsOf(dead))

\* EsfJsonValueAdd: an id is a position, and no position is used again.
HasRoom == Len(table) < MaxValues
NewId == Len(table) + 1
EsfJsonValueAdd(n) == table' = Append(table, [id |-> NewId, node |-> n])

\* Mutant: the slot of the value is not given back.
ReplaceKeepsSlot(v, dead, n) ==
  /\ table' = [TableWithout(dead) EXCEPT ![v].node = n]
  /\ slots' = SlotsWithout(IdsOf(dead))

\* EsfJsonValueReplace: value v, whose descendants dead are gone, is node n.
EsfJsonValueReplace(v, dead, n) ==
  /\ table' = [TableWithout(dead) EXCEPT ![v].node = n]
  /\ slots' = SlotsWithout(IdsOf(dead) \cup {v})

\* EsfJsonFindEmptyMemHandleInfo
HasSlot(v) == \E s \in SlotSet : slots[s].id = v
FirstSlot(v) ==
  CHOOSE s \in SlotSet : slots[s].id = v /\ \A r \in SlotSet : slots[r].id = v => s <= r

-----------------------------------------------------------------------------
EsfJsonValueContainerInit ==
  /\ node = [n \in Nodes |-> NoNode]
  /\ table = <<>>
  /\ slots = [s \in SlotSet |-> NoSlot]

JsonInit == open = FALSE /\ EsfJsonValueContainerInit

EsfJsonOpen ==
  /\ ~open
  /\ open' = TRUE
  /\ node' = [n \in Nodes |-> NoNode]
  /\ table' = <<>>
  /\ slots' = [s \in SlotSet |-> NoSlot]

\* The trees whose root has an id are freed, then the tables.
EsfJsonValueContainerFree ==
  LET roots == {n \in Nodes : Managed(n) /\ ~HasParent(n)}
  IN  /\ node' = Freed(node, UNION {Tree(n) : n \in roots})
      /\ table' = <<>>
      /\ slots' = [s \in SlotSet |-> NoSlot]

EsfJsonClose ==
  /\ open
  /\ open' = FALSE
  /\ EsfJsonValueContainerFree

-----------------------------------------------------------------------------
(* New values. *)

ValueInit(kind) ==
  /\ open /\ HasRoom /\ Free # {}
  /\ node' = [node EXCEPT ![Fresh] = Leaf(kind)]
  /\ EsfJsonValueAdd(Fresh)
  /\ UNCHANGED <<open, slots>>

EsfJsonObjectInit == ValueInit("object")
EsfJsonArrayInit == ValueInit("array")
EsfJsonStringInit == ValueInit("string")
EsfJsonIntegerInit == ValueInit("scalar")
EsfJsonRealInit == ValueInit("scalar")
EsfJsonBooleanInit == ValueInit("scalar")
EsfJsonNullInit == ValueInit("scalar")

\* A container with one string in it is parsed; only its root gets an id.
EsfJsonDeserialize(kind, key) ==
  /\ open /\ HasRoom /\ Cardinality(Free) > 1
  /\ LET root == Fresh
         text == CHOOSE n \in Free \ {root} : TRUE
     IN  /\ node' = [node EXCEPT
                       ![root] = [Leaf(kind) EXCEPT
                                    !.kids = <<[key |-> key, node |-> text]>>],
                       ![text] = Leaf("string")]
         /\ EsfJsonValueAdd(root)
  /\ UNCHANGED <<open, slots>>

\* A string whose text is behind a Memory Manager handle: a string "tmp" takes
\* the id, a marker takes its place, and the first free slot is the id's.
EsfJsonStringInitHandleProcess(size) ==
  /\ open /\ HasSlot(0) /\ HasRoom /\ Free # {}
  /\ node' = [node EXCEPT ![Fresh] = Marker(NewId)]
  /\ EsfJsonValueAdd(Fresh)
  /\ slots' = [slots EXCEPT ![FirstSlot(0)] = [id |-> NewId, size |-> size]]
  /\ UNCHANGED open

\* The marker cannot be made: the id that was given out is lost.
MarkerFails ==
  /\ open /\ HasSlot(0) /\ HasRoom /\ Free # {}
  /\ table' = Append(table, NoEntry)
  /\ UNCHANGED <<open, node, slots>>

EsfJsonStringInitHandle(size) == EsfJsonStringInitHandleProcess(size) \/ MarkerFails
EsfJsonStringInitFileIO(size) == EsfJsonStringInitHandleProcess(size) \/ MarkerFails

\* json_value_deep_copy: the texts are copied, markers too, and no slot is taken.
EsfJsonValueCopy(v) ==
  LET tree == Tree(NodeOf(v))
      copy == CHOOSE f \in Injection(tree, Free) : TRUE
      Source(n) == CHOOSE o \in tree : copy[o] = n
  IN  /\ open /\ Live(v) /\ HasRoom /\ Injection(tree, Free) # {}
      /\ node' = [n \in Nodes |->
                    IF \A o \in tree : n # copy[o] THEN node[n]
                    ELSE [node[Source(n)] EXCEPT !.kids = Relinked(@, copy)]]
      /\ EsfJsonValueAdd(copy[NodeOf(v)])
      /\ UNCHANGED <<open, slots>>

-----------------------------------------------------------------------------
(* A value is given another content. *)

\* node with new in n's place, EsfJsonValueDataSet: n's tree is freed.
EsfJsonValueDataSet(n, new, content) ==
  LET link == [m \in Nodes |-> IF m = n THEN new ELSE m]
      inPlace == [p \in Nodes |-> [node[p] EXCEPT !.kids = Relinked(@, link)]]
  IN  [Freed(inPlace, Tree(n)) EXCEPT ![new] = content]

\* The ids below are dropped first, whether or not the new node can be made.
ValueSet(v, kind) ==
  /\ open /\ Live(v)
  /\ LET old == NodeOf(v)
     IN  \/ /\ Free # {}
            /\ node' = EsfJsonValueDataSet(old, Fresh, Leaf(kind))
            /\ EsfJsonValueReplace(v, Below(old), Fresh)
         \/ /\ EsfJsonValueLookupRemove(Below(old))
            /\ UNCHANGED node
  /\ UNCHANGED open

EsfJsonStringSet(v) == ValueSet(v, "string")
EsfJsonIntegerSet(v) == ValueSet(v, "scalar")
EsfJsonRealSet(v) == ValueSet(v, "scalar")
EsfJsonBooleanSet(v) == ValueSet(v, "scalar")
EsfJsonNullSet(v) == ValueSet(v, "scalar")

\* Mutant: the ids of the members outlive them.
ClearKeepsIds(v, kind) ==
  LET n == NodeOf(v)
  IN  /\ open /\ Live(v)
      /\ \/ /\ node[n].kind = kind
            /\ node' = [Freed(node, Below(n)) EXCEPT ![n].kids = <<>>]
            /\ UNCHANGED <<open, table, slots>>
         \/ node[n].kind # kind /\ ValueSet(v, kind)

\* A container of the kind is emptied in place, any other value replaced.
Clear(v, kind) ==
  LET n == NodeOf(v)
  IN  /\ open /\ Live(v)
      /\ \/ /\ node[n].kind = kind
            /\ node' = [Freed(node, Below(n)) EXCEPT ![n].kids = <<>>]
            /\ EsfJsonValueLookupRemove(Below(n))
            /\ UNCHANGED open
         \/ node[n].kind # kind /\ ValueSet(v, kind)

EsfJsonObjectClear(v) == Clear(v, "object")
EsfJsonArrayClear(v) == Clear(v, "array")

\* Only a value that has a slot can be given another handle.
EsfJsonStringSetHandleInternal(v) ==
  /\ Free # {}
  /\ node' = EsfJsonValueDataSet(NodeOf(v), Fresh, Marker(v))
  /\ table' = [TableWithout(Below(NodeOf(v))) EXCEPT ![v].node = Fresh]

EsfJsonStringSetHandleProcess(v, size) ==
  /\ open /\ Live(v) /\ HasSlot(v)
  /\ EsfJsonStringSetHandleInternal(v)
  /\ slots' = [slots EXCEPT ![FirstSlot(v)] = [id |-> v, size |-> size]]
  /\ UNCHANGED open

EsfJsonStringSetHandle(v, size) == EsfJsonStringSetHandleProcess(v, size)
EsfJsonStringSetFileIO(v, size) == EsfJsonStringSetHandleProcess(v, size)

-----------------------------------------------------------------------------
(* Members. *)

HasKey(n, key) == \E i \in DOMAIN node[n].kids : node[n].kids[i].key = key
At(n, key) == CHOOSE i \in DOMAIN node[n].kids : node[n].kids[i].key = key

EsfJsonValueNotHaveParentGet(v) == Live(v) /\ ~HasParent(NodeOf(v))
\* Mutant: only the value itself is refused, its ancestors are not.
CanAddAncestor(n, p) == n # p

EsfJsonCanJsonAddToJson(n, p) == n \notin Above(p)

\* What parent and value must be for value to become a member of parent.
CanHold(parent, kind, v) ==
  /\ open /\ Live(parent)
  /\ EsfJsonValueNotHaveParentGet(v)
  /\ EsfJsonCanJsonAddToJson(NodeOf(v), NodeOf(parent))
  /\ node[NodeOf(parent)].kind = kind

\* Member i of p becomes v: the ids of the old one are dropped, the old one freed.
ReplaceMember(p, i, v) ==
  LET gone == node[p].kids[i].node
  IN  /\ node' = [Freed(node, Tree(gone)) EXCEPT ![p].kids[i].node = NodeOf(v)]
      /\ EsfJsonValueLookupRemove(Tree(gone))

EsfJsonObjectSet(parent, key, v) ==
  /\ CanHold(parent, "object", v)
  /\ LET p == NodeOf(parent)
     IN  \/ HasKey(p, key) /\ ReplaceMember(p, At(p, key), v)
         \/ /\ ~HasKey(p, key)
            /\ node' = [node EXCEPT ![p].kids =
                          Append(@, [key |-> key, node |-> NodeOf(v)])]
            /\ UNCHANGED <<table, slots>>
  /\ UNCHANGED open

EsfJsonArrayAppend(parent, v) ==
  /\ CanHold(parent, "array", v)
  /\ node' = [node EXCEPT ![NodeOf(parent)].kids =
                Append(@, [key |-> "", node |-> NodeOf(v)])]
  /\ UNCHANGED <<open, table, slots>>

EsfJsonArrayReplace(parent, index, v) ==
  /\ CanHold(parent, "array", v)
  /\ index \in DOMAIN node[NodeOf(parent)].kids
  /\ ReplaceMember(NodeOf(parent), index, v)
  /\ UNCHANGED open

RemoveMember(p, i) ==
  LET gone == node[p].kids[i].node
  IN  /\ node' = [Freed(node, Tree(gone)) EXCEPT ![p].kids = RemoveAt(@, i)]
      /\ EsfJsonValueLookupRemove(Tree(gone))
      /\ UNCHANGED open

\* parson moves the last member of an object into the gap.
Swapped(kids, i) ==
  [j \in 1 .. Len(kids) - 1 |-> IF j = i THEN kids[Len(kids)] ELSE kids[j]]

EsfJsonObjectRemove(parent, key) ==
  /\ open /\ Live(parent)
  /\ LET p == NodeOf(parent)
         i == At(p, key)
         gone == node[p].kids[i].node
     IN  /\ node[p].kind = "object" /\ HasKey(p, key)
         /\ node' = [Freed(node, Tree(gone)) EXCEPT ![p].kids = Swapped(@, i)]
         /\ EsfJsonValueLookupRemove(Tree(gone))
  /\ UNCHANGED open

EsfJsonArrayRemove(parent, index) ==
  /\ open /\ Live(parent)
  /\ node[NodeOf(parent)].kind = "array"
  /\ index \in DOMAIN node[NodeOf(parent)].kids
  /\ RemoveMember(NodeOf(parent), index)

\* The member gets an id the first time it is asked for.
EsfJsonValueNotManagedAdd(n) ==
  /\ ~Managed(n) /\ HasRoom
  /\ EsfJsonValueAdd(n)
  /\ UNCHANGED <<open, node, slots>>

EsfJsonObjectGet(parent, key) ==
  /\ open /\ Live(parent)
  /\ LET p == NodeOf(parent)
     IN  /\ node[p].kind = "object" /\ HasKey(p, key)
         /\ EsfJsonValueNotManagedAdd(node[p].kids[At(p, key)].node)

GetAt(parent, kind, index) ==
  /\ open /\ Live(parent)
  /\ LET p == NodeOf(parent)
     IN  /\ node[p].kind = kind /\ index \in DOMAIN node[p].kids
         /\ EsfJsonValueNotManagedAdd(node[p].kids[index].node)

EsfJsonObjectGetAt(parent, index) == GetAt(parent, "object", index)
EsfJsonArrayGet(parent, index) == GetAt(parent, "array", index)

-----------------------------------------------------------------------------
(* The text of a value, with the data of its handle strings put in.  The    *)
(* strings of the text in order are all the codec looks at.                 *)

Strings[n \in Nodes] ==
  IF node[n].kind = "string" THEN <<n>>
  ELSE FlattenSeq([i \in DOMAIN node[n].kids |-> Strings[node[n].kids[i].node]])

StringSet(n) == ToSet(Strings[n])

\* A string nobody has asked for has no id, and both walks refuse it.
EsfJsonCheckStringReplace(n) ==
  IF \E s \in StringSet(n) : ~Managed(s) THEN "InternalError"
  ELSE IF \E s \in StringSet(n) : HasSlot(IdOf(s)) THEN "included" ELSE "plain"

\* The ids whose digits the digits of id v begin with, v itself left out.
Shortened(v) == {a \in 1 .. v : \E k \in 1 .. v : a = v \div Base ^ k}

MarkerLength(v) == PrefixSize + Cardinality(Shortened(v)) + 1
LengthOf(mark) == IF mark = 0 THEN TextSize ELSE MarkerLength(mark)
Total(lengths) == FoldSeq(LAMBDA a, b : a + b, 0, lengths)
TextLength(n) == Total([i \in DOMAIN Strings[n] |-> LengthOf(node[Strings[n][i]].mark)])

Distance(a, b) == IF a >= b THEN a - b ELSE b - a

\* Mutant: the marker that goes is not subtracted.
MarkerCounts(s) == IF HasSlot(IdOf(s)) THEN slots[FirstSlot(IdOf(s))].size ELSE 0

\* The data of a slot counts by its distance from the marker's length.
EsfJsonReplacementStringSizeGet(s) ==
  IF HasSlot(IdOf(s))
  THEN Distance(slots[FirstSlot(IdOf(s))].size, MarkerLength(IdOf(s))) ELSE 0

EsfJsonConvertedStringSizeGet(n) ==
  Total([i \in DOMAIN Strings[n] |-> EsfJsonReplacementStringSizeGet(Strings[n][i])])

EsfJsonSerializeIncludesHandle(v) == EsfJsonCheckStringReplace(NodeOf(v))

\* 0 stands for the refusal.
EsfJsonSerializeSizeGet(v) ==
  IF EsfJsonSerializeIncludesHandle(v) = "InternalError" THEN 0
  ELSE TextLength(NodeOf(v)) + EsfJsonConvertedStringSizeGet(NodeOf(v))

\* The slots are taken in their order up to the first free one, and each
\* looks for its marker behind the place of the one before (at).  strstr finds
\* JSON_PLACEHOLDER_1 in JSON_PLACEHOLDER_12 as well.
Slotted == {s \in SlotSet : \A r \in 1 .. s : slots[r].id # 0}
Finds(s, mark) == slots[s].id = mark \/ slots[s].id \in Shortened(mark)
Hits(marks, s, at) == {i \in at + 1 .. Len(marks) : Finds(s, marks[i])}
Substituted(marks) ==
  LET From[p \in (1 .. MaxSlots + 1) \X (0 .. Len(marks))] ==
        LET s == p[1]
            hits == Hits(marks, s, p[2])
            first == CHOOSE i \in hits : \A k \in hits : i <= k
        IN  IF s \notin Slotted THEN {}
            ELSE IF hits = {} THEN From[<<s + 1, p[2]>>]
            ELSE {<<first, s>>} \cup From[<<s + 1, first>>]
  IN  From[<<1, 0>>]

\* The data of a slot in place of what strstr found; digits behind it stay.
PutIn(s, mark) == slots[s].size + LengthOf(mark) - MarkerLength(slots[s].id)

EsfJsonSerializeConversionString(n) ==
  LET marks == [i \in DOMAIN Strings[n] |-> node[Strings[n][i]].mark]
      pairs == Substituted(marks)
      At1(i) == {p[2] : p \in {q \in pairs : q[1] = i}}
  IN  [i \in DOMAIN marks |->
         IF At1(i) = {} THEN LengthOf(marks[i])
         ELSE PutIn(CHOOSE s \in At1(i) : TRUE, marks[i])]

\* The length of what is written; 0 stands for the refusal.
Written(v) ==
  LET included == EsfJsonSerializeIncludesHandle(v)
  IN  IF included = "InternalError" THEN 0
      ELSE IF included = "plain" THEN TextLength(NodeOf(v))
      ELSE Total(EsfJsonSerializeConversionString(NodeOf(v)))

\* A handle that can be mapped, one that is a file, a file the caller opened.
EsfJsonSerializeHandleMemMap(v) == Written(v)
EsfJsonSerializeHandleFileIO(v) == Written(v)
EsfJsonSerializeFileIO(v) == Written(v)

EsfJsonSerializeHandle(v) ==
  {EsfJsonSerializeHandleMemMap(v), EsfJsonSerializeHandleFileIO(v)}

-----------------------------------------------------------------------------
JsonNext ==
  \/ EsfJsonOpen \/ EsfJsonClose
  \/ EsfJsonObjectInit \/ EsfJsonArrayInit \/ EsfJsonStringInit
  \/ EsfJsonIntegerInit \/ EsfJsonRealInit \/ EsfJsonBooleanInit \/ EsfJsonNullInit
  \/ \E key \in Keys : EsfJsonDeserialize("object", key)
  \/ EsfJsonDeserialize("array", "")
  \/ \E size \in MemSizes : EsfJsonStringInitHandle(size) \/ EsfJsonStringInitFileIO(size)
  \/ \E v \in Ids :
       \/ EsfJsonValueCopy(v)
       \/ EsfJsonStringSet(v) \/ EsfJsonIntegerSet(v) \/ EsfJsonRealSet(v)
       \/ EsfJsonBooleanSet(v) \/ EsfJsonNullSet(v)
       \/ EsfJsonObjectClear(v) \/ EsfJsonArrayClear(v)
       \/ \E size \in MemSizes :
            EsfJsonStringSetHandle(v, size) \/ EsfJsonStringSetFileIO(v, size)
       \/ \E key \in Keys : EsfJsonObjectRemove(v, key) \/ EsfJsonObjectGet(v, key)
       \/ \E i \in Nodes :
            EsfJsonArrayRemove(v, i) \/ EsfJsonObjectGetAt(v, i) \/ EsfJsonArrayGet(v, i)
       \/ \E w \in Ids :
            \/ EsfJsonArrayAppend(v, w)
            \/ \E key \in Keys : EsfJsonObjectSet(v, key, w)
            \/ \E i \in Nodes : EsfJsonArrayReplace(v, i, w)

JsonSpec == JsonInit /\ [][JsonNext]_jsonVars

-----------------------------------------------------------------------------
\* An id leads to a value that exists, and no value has two ids: whatever a
\* call frees, itself or through the value it replaces, loses its ids first.
IdsNameValues ==
  \A i \in DOMAIN table : table[i].id # 0 =>
     /\ table[i].id = i
     /\ table[i].node \in Nodes \ Free
     /\ \A j \in DOMAIN table : table[j].node = table[i].node => j = i

\* No value is its own ancestor or has two parents, and a value without parent
\* has an id, so that EsfJsonClose frees every value there is.
EveryTreeIsOwned ==
  /\ \A n \in Nodes \ Free :
       /\ Cardinality(Parents(n)) <= 1 /\ n \notin Parents(n)
       /\ ~HasParent(n) => open /\ Managed(n)
       /\ HasParent(n) => \E root \in Nodes : ~HasParent(root) /\ n \in Tree(root)
  /\ ~open => Free = Nodes

\* A slot that is taken belongs to a value that still is its marker: the data
\* behind a handle never shows up in a value that was given other content.
SlotsHaveMarkers ==
  \A s \in SlotSet : slots[s].id # 0 =>
     /\ Live(slots[s].id)
     /\ node[NodeOf(slots[s].id)].mark = slots[s].id
     /\ \A r \in SlotSet : slots[r].id = slots[s].id => r = s

\* The strings of v are what the codec can put the data into: each marker has
\* its slot, the markers come in the order of the slots, no slot before them is
\* free, no data is shorter than its marker, and no slot before a marker's own
\* finds it, unless that slot has its own marker in v, which then comes first.
Regular(v) ==
  LET strings == Strings[NodeOf(v)]
      Marked == {i \in DOMAIN strings : node[strings[i]].mark # 0}
      SlotOf(i) == FirstSlot(node[strings[i]].mark)
  IN  /\ \A i \in Marked :
           /\ Managed(strings[i]) /\ IdOf(strings[i]) = node[strings[i]].mark
           /\ HasSlot(node[strings[i]].mark)
           /\ SlotOf(i) \in Slotted
           /\ slots[SlotOf(i)].size >= MarkerLength(node[strings[i]].mark)
           /\ \A s \in 1 .. SlotOf(i) - 1 :
                Finds(s, node[strings[i]].mark) => \E j \in Marked : SlotOf(j) = s
      /\ \A i, j \in Marked : i < j => SlotOf(i) < SlotOf(j)

\* EsfJsonSerializeSizeGet answers the length of what the serialization into a
\* memory handle or a file writes (Json.adoc:1142), and refuses what it refuses.
SizeIsText ==
  \A v \in Ids : Regular(v) =>
     \A length \in EsfJsonSerializeHandle(v) \cup {EsfJsonSerializeFileIO(v)} :
        EsfJsonSerializeSizeGet(v) = length

\* The container, the slots of the handle strings and the trees agree after
\* every call, a call that failed half-way included (json_internal.c).
ContainerIsSound == IdsNameValues /\ EveryTreeIsOwned /\ SlotsHaveMarkers

=============================================================================
