------------------------------ MODULE ECSWorld ------------------------------
(***************************************************************************)
(* The single-threaded core of pe::World<Tag> (src/src/ecs.cpp): the      *)
(* entity-id counter, the archetype store of type-erased tables of flat    *)
(* hash-map columns, the archetype index (bitwise trie), the entity        *)
(* registry, Entity handles (construct, move, destroy, Get, Set) and one   *)
(* components_view iterator driven by a client loop.                       *)
(*                                                                         *)
(* Data abstraction: a component bitmask is the set of component ids whose *)
(* bits are set; a column (FlatHashMap<entity_t, C>) is the sequence of    *)
(* its <<eid, value>> entries in iteration order, so that two columns with *)
(* the same insert/erase history iterate in the same order.                *)
(***************************************************************************)
EXTENDS Naturals, SequencesExt, FiniteSetsExt

CONSTANTS
    Components,     \* component ids (component_traits<C>::id)
    Shapes,         \* component sets of the entity types the program declares
    HasDefault,     \* HasDefault[s]: the C with a Default<s, C>::value
    Handles,        \* Entity objects (storage slots) the client may use
    MaxId,          \* bound on s_next_entity_id
    Queries,        \* component sets the client builds components_view over
    ZeroValue,      \* a value-initialised component, C{}
    DefaultValue,   \* the value of a Default<s, C> specialisation
    SetValues,      \* values the client passes to Entity::Set
    MoveHandles,    \* whether the client move-constructs Entity objects
    Throws          \* whether a step of World::Register may throw

ASSUME /\ Shapes \subseteq (SUBSET Components \ {{}})
       /\ Queries \subseteq (SUBSET Components \ {{}})
       /\ HasDefault \in [Shapes -> SUBSET Components]
       /\ MaxId \in Nat /\ MoveHandles \in BOOLEAN
       /\ Throws \in BOOLEAN

Ids == 0 .. (MaxId - 1)
Values == {ZeroValue, DefaultValue} \cup SetValues
NoId == MaxId
NoRead == [h |-> NoId, c |-> 0, v |-> ZeroValue]

VARIABLES
    next_id,     \* World::s_next_entity_id
    trie,        \* World::s_component_trie: the set of indexed masks
    archetypes,  \* World::s_component_archetype_map: mask -> [c -> column]
    registry,    \* World::s_entity_archetype_map: entity id -> mask
    handles,     \* Entity objects: lifecycle, m_id, shape; last is ghost
    got,         \* the handle, component and value of the last Entity::Get
    view,        \* the client's components_view Iterator (GeneratorContext)
    yielded      \* the rows the current view iteration has produced

vars == <<next_id, trie, archetypes, registry, handles, got, view, yielded>>

Stages == {"Idle", "BeginArchetype", "NextArchetype", "NextRow", "Finished", "Overrun"}

(***************************************************************************)
(* Columns: FlatHashMap<entity_t, C> as a sequence of <<eid, value>>.      *)
(***************************************************************************)
Column == Seq(Ids \X Values)
KeysOf(col) == [i \in DOMAIN col |-> col[i][1]]
HasKey(col, e) == \E i \in DOMAIN col : col[i][1] = e
ValueAt(col, e) == (CHOOSE p \in ToSet(col) : p[1] = e)[2]

\* map[id] = value: overwrite in place, or insert a new entry at the end.
Upsert(col, e, v) ==
    IF HasKey(col, e)
    THEN [i \in DOMAIN col |-> IF col[i][1] = e THEN <<e, v>> ELSE col[i]]
    ELSE Append(col, <<e, v>>)

\* map.erase(id)
Erase(col, e) == SelectSeq(col, LAMBDA p : p[1] # e)

\* map[id] on a read: inserts a value-initialised entry when id is absent.
GetCell(col, e) == IF HasKey(col, e) THEN col ELSE Append(col, <<e, ZeroValue>>)

(***************************************************************************)
(* Archetype rows: add_row seeds every column with Default<s, C>::value or *)
(* C{}; drop_row clears the entity from every column of the static shape.  *)
(***************************************************************************)
\* Mutant: add_row ignores the Default<s, C> specialisation.
CellDefaultIgnoringTrait(s, c) == ZeroValue

CellDefault(s, c) == IF c \in HasDefault[s] THEN DefaultValue ELSE ZeroValue

\* The order add_row's fold visits the shape's component tuple. The model
\* declares every shape's components in ascending id order.
ShapeOrder(s) == SetToSortSeq(s, LAMBDA a, b : a < b)

\* The first n set_cell calls of add_row's fold.
AddCells(table, s, e, n) ==
    LET done == {ShapeOrder(s)[i] : i \in 1 .. n}
    IN [c \in DOMAIN table |->
          IF c \in done THEN Upsert(table[c], e, CellDefault(s, c)) ELSE table[c]]

AddRow(table, s, e) == AddCells(table, s, e, Cardinality(s))

\* Mutant: drop_row clears only the first column of the shape.
DropRowFirstOnly(table, s, e) ==
    [c \in DOMAIN table |-> IF c = Min(s) THEN Erase(table[c], e) ELSE table[c]]

DropRow(table, s, e) ==
    [c \in DOMAIN table |-> IF c \in s THEN Erase(table[c], e) ELSE table[c]]

EmptyTable(s) == [c \in s |-> <<>>]

\* Mutant: Register skips the find() and always installs a fresh table.
RegisterStoreAlwaysNew(arch, s) == (s :> EmptyTable(s)) @@ arch

(***************************************************************************)
(* World::Register: create and index the archetype if its mask is new,     *)
(* link the id to the mask (insert never overwrites), then add_row.        *)
(***************************************************************************)
RegisterStore(arch, s) ==
    IF s \in DOMAIN arch THEN arch ELSE arch @@ (s :> EmptyTable(s))

\* Mutant: the new archetype's mask is never inserted into the trie.
RegisterNoIndex(e, s) ==
    LET store == RegisterStore(archetypes, s)
    IN /\ UNCHANGED trie
       /\ registry' = IF e \in DOMAIN registry THEN registry
                      ELSE registry @@ (e :> s)
       /\ archetypes' = [store EXCEPT ![s] = AddRow(store[s], s, e)]

\* Register's effects when an exception leaves it at step p: 1 the map
\* insert of a new archetype, 2 the trie insert (both only when find()
\* missed), 3 the registry insert, then one set_cell per component. Steps
\* before p are done; an insert that throws leaves its container
\* unchanged. The set_cell that throws runs map[id] = value: when stray,
\* operator[] has already inserted a C{} cell before the copy throws.
RegisterSteps(e, s, p, stray) ==
    LET new == s \notin DOMAIN archetypes
        store == IF p > 1 THEN RegisterStore(archetypes, s) ELSE archetypes
        failed == {ShapeOrder(s)[k] : k \in {i \in {p - 3} : stray /\ i \in 1 .. Cardinality(s)}}
        Cells(t) == [c \in DOMAIN t |-> IF c \in failed THEN GetCell(t[c], e) ELSE t[c]]
    IN /\ trie' = IF new /\ p > 2 THEN trie \cup {s} ELSE trie
       /\ registry' = IF p <= 3 \/ e \in DOMAIN registry THEN registry
                      ELSE registry @@ (e :> s)
       /\ archetypes' = IF s \in DOMAIN store
                        THEN [store EXCEPT ![s] = Cells(AddCells(@, s, e, Max({p - 4, 0})))]
                        ELSE store

\* The last step of Register, and one past it: the whole of Register.
LastStep(s) == 3 + Cardinality(s)

Register(e, s) == RegisterSteps(e, s, LastStep(s) + 1, FALSE)

\* World::Unregister: look the mask up in the registry and drop_row; the
\* registry entry itself is left in place.
Unregister(e, s) ==
    LET mask == registry[e]
    IN /\ archetypes' = [archetypes EXCEPT ![mask] = DropRow(@, s, e)]
       /\ UNCHANGED <<trie, registry>>

(***************************************************************************)
(* Entity handle operations.                                               *)
(***************************************************************************)
ViewIdle == view.stage = "Idle"

\* The client contract of spec section 5: handles are constructed, moved
\* and destroyed only while no view iteration is alive.
NoViewAlive == ViewIdle

\* Ghost: what section 3 of the spec says a new entity's cells hold.
PromisedInitial(s) ==
    [c \in Components |-> IF c \in HasDefault[s] THEN DefaultValue ELSE ZeroValue]

\* Entity(): m_id{AllocateID()} then Register(*this, mask of the shape).
\* Structural changes are made outside a view iteration (the client
\* contract of section 5 of the spec).
Construct(h, s) ==
    /\ handles[h].st = "unborn"
    /\ next_id < MaxId
    /\ NoViewAlive
    /\ next_id' = next_id + 1
    /\ Register(next_id, s)
    /\ handles' = [handles EXCEPT ![h] =
            [st |-> "live", id |-> next_id, shape |-> s,
             last |-> PromisedInitial(s)]]
    /\ UNCHANGED <<got, view, yielded>>

\* Mutant: the id of a failed construction is handed out again.
ConstructThrowsKeepsId(h, s, p) ==
    /\ Throws
    /\ handles[h].st = "unborn"
    /\ next_id < MaxId
    /\ NoViewAlive
    /\ p > 2 \/ s \notin DOMAIN archetypes
    /\ UNCHANGED next_id
    /\ \E stray \in BOOLEAN : RegisterSteps(next_id, s, p, stray)
    /\ UNCHANGED <<handles, got, view, yielded>>

\* Entity() when step p of Register throws: a set_cell whose copy of
\* Default<s, C>::value or C{} throws, or an insert that runs out of
\* memory. The exception leaves the constructor after m_id was allocated,
\* so no object exists and no ~Entity() will undo what Register did; the
\* client may catch it and construct again in the same storage. Steps 1
\* and 2 run only when the mask is new.
ConstructThrows(h, s, p) ==
    /\ Throws
    /\ handles[h].st = "unborn"
    /\ next_id < MaxId
    /\ NoViewAlive
    /\ p > 2 \/ s \notin DOMAIN archetypes
    /\ next_id' = next_id + 1
    /\ \E stray \in BOOLEAN : RegisterSteps(next_id, s, p, stray)
    /\ UNCHANGED <<handles, got, view, yielded>>

\* Entity(Entity&&) = default: the new object copies m_id; the moved-from
\* object keeps it and will still run ~Entity().
MoveConstruct(h, h2) ==
    /\ MoveHandles
    /\ handles[h].st = "live" /\ handles[h2].st = "unborn"
    /\ NoViewAlive
    /\ handles' = [handles EXCEPT ![h2] = handles[h], ![h].st = "moved"]
    /\ UNCHANGED <<next_id, trie, archetypes, registry, got, view, yielded>>

\* ~Entity(): World::Unregister(*this).
Destroy(h) ==
    /\ handles[h].st \in {"live", "moved"}
    /\ NoViewAlive
    /\ Unregister(handles[h].id, handles[h].shape)
    /\ handles' = [handles EXCEPT ![h].st = "dead"]
    /\ UNCHANGED <<next_id, got, view, yielded>>

\* Entity::Get<C>(): registry[m_id], archetype map[mask], column map[m_id].
\* A moved-from object still holds m_id and may be used.
Get(h, c) ==
    LET e == handles[h].id
        mask == registry[e]
        col == GetCell(archetypes[mask][c], e)
    IN /\ handles[h].st \in {"live", "moved"}
       /\ c \in handles[h].shape
       /\ archetypes' = [archetypes EXCEPT ![mask][c] = col]
       /\ got' = [h |-> h, c |-> c, v |-> ValueAt(col, e)]
       /\ UNCHANGED <<next_id, trie, registry, handles, view, yielded>>

\* Entity::Set<C>(value): column map[m_id] = value.
Set(h, c, v) ==
    LET e == handles[h].id
        mask == registry[e]
    IN /\ handles[h].st \in {"live", "moved"}
       /\ c \in handles[h].shape
       /\ archetypes' = [archetypes EXCEPT ![mask][c] = Upsert(@, e, v)]
       /\ handles' = [handles EXCEPT ![h].last[c] = v]
       /\ UNCHANGED <<next_id, trie, registry, got, view, yielded>>

(***************************************************************************)
(* components_view: the archetype iterator walks the masks the trie        *)
(* matches, and a ColumnSetIterator walks the columns of Q in lockstep.    *)
(* The GeneratorContext is [stage, q, archs, ai, pos]: archs is the        *)
(* matched-mask sequence, ai the archetype iterator, pos[c] the position   *)
(* of the iterator into column c.                                          *)
(***************************************************************************)
\* The integer value of a mask: component_bitfield_t{1} << id, or-ed.
MaskValue(m) == SumSet({2^c : c \in m})

\* trie_view_match_mask over s_component_trie: the indexed masks with every
\* bit of q set, in depth-first (ascending) order.
MatchingArchetypes(q) ==
    SetToSortSeq({m \in trie : q \subseteq m},
                 LAMBDA a, b : MaskValue(a) < MaskValue(b))

Col(ctx, c) == archetypes[ctx.archs[ctx.ai]][c]

\* ColumnSetIterator ==: every column iterator equals its end().
AtEnd(ctx) == \A c \in ctx.q : ctx.pos[c] = Len(Col(ctx, c)) + 1

\* Columns out of lockstep: one iterator is at its end() and another is
\* not, so the set never compares equal to end() and the next ++ walks
\* past end() (undefined behaviour). The model stops the loop there, in
\* the Overrun stage, after yielding that row.
Ragged(ctx) == ~AtEnd(ctx) /\ \E c \in ctx.q : ctx.pos[c] > Len(Col(ctx, c))

\* Mutant: ++ advances only the first column iterator.
AdvanceFirstOnly(ctx) ==
    [ctx EXCEPT !.pos = [c \in ctx.q |-> IF c = Min(ctx.q) THEN @[c] + 1 ELSE @[c]]]

\* ColumnSetIterator ++: advance every column iterator.
Advance(ctx) == [ctx EXCEPT !.pos = [c \in ctx.q |-> @[c] + 1]]

\* Mutant: an empty archetype ends the iteration instead of moving on.
BeginArchetypeStopOnEmpty(ctx) ==
    IF ctx.ai > Len(ctx.archs) THEN [ctx EXCEPT !.stage = "Finished"]
    ELSE LET b == [ctx EXCEPT !.pos = [c \in ctx.q |-> 1]]
         IN IF AtEnd(b) THEN [b EXCEPT !.stage = "Finished"]
            ELSE [b EXCEPT !.stage = "NextRow"]

RECURSIVE NextRow(_), BeginArchetype(_)

\* case eBeginArchetype: finish when the archetype iterator is exhausted,
\* else take the table's begin/end rows and skip it when empty.
BeginArchetype(ctx) ==
    IF ctx.ai > Len(ctx.archs) THEN [ctx EXCEPT !.stage = "Finished"]
    ELSE LET b == [ctx EXCEPT !.pos = [c \in ctx.q |-> 1]]
         IN CASE AtEnd(b) -> NextRow([b EXCEPT !.stage = "NextArchetype"])
              [] Ragged(b) -> [b EXCEPT !.stage = "Overrun"]
              [] OTHER -> [b EXCEPT !.stage = "NextRow"]

\* Iterator::next_row(): eNextArchetype advances the archetype iterator
\* and falls through to eBeginArchetype; eNextRow advances the row and
\* moves to the next archetype at the end of the table.
NextRow(ctx) ==
    CASE ctx.stage = "NextArchetype" -> BeginArchetype([ctx EXCEPT !.ai = @ + 1])
      [] ctx.stage = "BeginArchetype" -> BeginArchetype(ctx)
      [] ctx.stage = "NextRow" ->
            LET n == Advance(ctx)
            IN CASE AtEnd(n) -> NextRow([n EXCEPT !.stage = "NextArchetype"])
                 [] Ragged(n) -> [n EXCEPT !.stage = "Overrun"]
                 [] OTHER -> n

\* The entity id column c's iterator points at; NoId past its end.
EidAt(ctx, c) ==
    IF ctx.pos[c] \in DOMAIN Col(ctx, c) THEN Col(ctx, c)[ctx.pos[c]][1] ELSE NoId

\* Iterator operator*: the eid of the first column, and (for the check)
\* the entity each column's reference belongs to.
Deref(ctx) == [eid |-> EidAt(ctx, Min(ctx.q)), ids |-> [c \in ctx.q |-> EidAt(ctx, c)]]

Yield(ctx) == IF ctx.stage \in {"NextRow", "Overrun"} THEN <<Deref(ctx)>> ELSE <<>>

\* components_view::begin(): Iterator(begin, end) runs next_row() once.
ViewBegin(q) ==
    LET n == NextRow([stage |-> "BeginArchetype", q |-> q,
                      archs |-> MatchingArchetypes(q), ai |-> 1,
                      pos |-> [c \in q |-> 1]])
    IN /\ ViewIdle
       /\ view' = n
       /\ yielded' = Yield(n)
       /\ UNCHANGED <<next_id, trie, archetypes, registry, handles, got>>

\* Mutant: operator++ returns without calling next_row().
ViewNextNoAdvance ==
    /\ view.stage = "NextRow"
    /\ UNCHANGED vars

\* Iterator operator++ while it != end() (end() is a Finished iterator).
ViewNext ==
    /\ view.stage = "NextRow"
    /\ view' = NextRow(view)
    /\ yielded' = yielded \o Yield(view')
    /\ UNCHANGED <<next_id, trie, archetypes, registry, handles, got>>

\* The client leaves the loop or drops the view (its only "cancellation").
ViewDrop ==
    /\ ~ViewIdle
    /\ view' = [stage |-> "Idle", q |-> {}, archs |-> <<>>, ai |-> 1, pos |-> <<>>]
    /\ yielded' = <<>>
    /\ UNCHANGED <<next_id, trie, archetypes, registry, handles, got>>

(***************************************************************************)
(* The specification.                                                      *)
(***************************************************************************)
Init ==
    /\ next_id = 0
    /\ trie = {}
    /\ archetypes = <<>>
    /\ registry = <<>>
    /\ handles = [h \in Handles |-> [st |-> "unborn", id |-> NoId, shape |-> {},
                                     last |-> [c \in Components |-> ZeroValue]]]
    /\ got = NoRead
    /\ view = [stage |-> "Idle", q |-> {}, archs |-> <<>>, ai |-> 1, pos |-> <<>>]
    /\ yielded = <<>>

Next ==
    \/ \E h \in Handles :
          \/ \E s \in Shapes : Construct(h, s)
          \/ \E s \in Shapes : \E p \in 1 .. LastStep(s) : ConstructThrows(h, s, p)
          \/ \E h2 \in Handles : MoveConstruct(h, h2)
          \/ Destroy(h)
          \/ \E c \in Components : Get(h, c) \/ \E v \in SetValues : Set(h, c, v)
    \/ \E q \in Queries : ViewBegin(q)
    \/ ViewNext
    \/ ViewDrop

\* The client loop calls ++ until it reaches end(): ViewNext is weakly fair.
Spec == Init /\ [][Next]_vars /\ WF_vars(ViewNext)

(***************************************************************************)
(* Properties.                                                             *)
(***************************************************************************)
Live(h) == handles[h].st = "live"

TypeOK ==
    /\ next_id \in 0 .. MaxId
    /\ trie \subseteq Shapes
    /\ DOMAIN archetypes = trie
    /\ \A m \in DOMAIN archetypes : archetypes[m] \in [m -> Column]
    /\ DOMAIN registry \subseteq Ids /\ \A e \in DOMAIN registry : registry[e] \in Shapes
    /\ handles \in [Handles -> [st : {"unborn", "live", "moved", "dead"},
                                id : Ids \cup {NoId}, shape : Shapes \cup {{}},
                                last : [Components -> Values]]]
    /\ got \in [h : Handles, c : Components, v : Values] \cup {NoRead}
    /\ view.stage \in Stages \ {"BeginArchetype", "NextArchetype"}

\* P1/P5 (add_row, drop_row, Entity::Get/Set): the columns of every
\* archetype table hold the same entity ids in the same iteration order,
\* which is what lets ColumnSetIterator walk them in lockstep.
RowConsistency ==
    \A m \in DOMAIN archetypes : \A c1, c2 \in m :
        KeysOf(archetypes[m][c1]) = KeysOf(archetypes[m][c2])

\* P3/P6/P7 (Entity(), World::Register/Unregister): every live handle's id
\* is linked in the registry to its shape, the shape is indexed, and every
\* column of that archetype holds a row for it, whatever other entities
\* were created and destroyed before.
RegisteredLive ==
    \A h \in Handles : Live(h) =>
        LET e == handles[h].id
            s == handles[h].shape
        IN /\ e \in DOMAIN registry /\ registry[e] = s /\ s \in trie
           /\ \A c \in s : HasKey(archetypes[s][c], e)

\* P4/P5 (components_view::Iterator::next_row, ColumnSetIterator): every
\* row a view yields pairs references of one entity that is live and has
\* every queried component, no entity is yielded twice, and when the
\* iterator reaches end() it has yielded every such entity.
MatchingLive(q) == {handles[h].id : h \in {g \in Handles : Live(g) /\ q \subseteq handles[g].shape}}

ViewSound ==
    /\ \A i \in DOMAIN yielded :
          /\ yielded[i].eid \in MatchingLive(view.q)
          /\ \A c \in view.q : yielded[i].ids[c] = yielded[i].eid
    /\ \A i, j \in DOMAIN yielded : i # j => yielded[i].eid # yielded[j].eid
    /\ view.stage = "Finished" =>
          {yielded[i].eid : i \in DOMAIN yielded} = MatchingLive(view.q)

\* Entity::Get (with add_row's Default<s, C> seeding and Entity::Set): a
\* Get returns the value last Set through the handle, or the shape's
\* default, or C{} when the shape has none.
GetSeesLastWrite ==
    [][got' # got => got'.v = handles[got'.h].last[got'.c]]_vars

\* components_view::Iterator: a started iteration the client keeps
\* advancing reaches end().
ViewTerminates == (view.stage = "NextRow") ~> (view.stage \in {"Finished", "Idle"})

\* P3 as the spec states it (World::Unregister): every id in the entity
\* registry maps to an archetype whose columns all hold that id.
EntityRegistryConsistent ==
    \A e \in DOMAIN registry :
        /\ registry[e] \in DOMAIN archetypes
        /\ \A c \in registry[e] : HasKey(archetypes[registry[e]][c], e)

\* The objects holding id e: constructed ones, moved-from ones and
\* destroyed ones.
Holders(e) == {h \in Handles : handles[h].st # "unborn" /\ handles[h].id = e}

\* Entity(), Entity(Entity&&), ~Entity(), Get and Set together with
\* constructions whose Register threw (add_row half done, no rollback) and
\* moved-from objects that keep m_id: that damage stays on the ids it was
\* done to. An entity whose constructor returned, and whose id no other
\* object holds, is linked to its shape and has a cell in every column of
\* its table and in no column of any other table.
DamageConfined ==
    \A h \in Handles :
        Live(h) /\ Holders(handles[h].id) = {h} =>
            LET e == handles[h].id
                s == handles[h].shape
            IN /\ e \in DOMAIN registry /\ registry[e] = s
               /\ \A m \in DOMAIN archetypes : \A c \in m :
                     HasKey(archetypes[m][c], e) <=> m = s

(***************************************************************************)
(* Refinement: the World implements the abstract EntityDatabase. A live   *)
(* entity is the id of a live Entity object, with the shape its registry  *)
(* entry names and the values its columns hold; the last get is the last *)
(* Entity::Get; a query has answered once its iterator reaches end().     *)
(***************************************************************************)
LiveIds == {handles[h].id : h \in {g \in Handles : Live(g)}}

CellOf(m, c, e) == IF HasKey(archetypes[m][c], e) THEN ValueAt(archetypes[m][c], e) ELSE ZeroValue

DbOf == [e \in LiveIds |-> [shape |-> registry[e],
                            val |-> [c \in registry[e] |-> CellOf(registry[e], c, e)]]]

ReadOf == IF got = NoRead THEN [e |-> MaxId, c |-> 0, v |-> ZeroValue]
          ELSE [e |-> handles[got.h].id, c |-> got.c, v |-> got.v]

AnswerOf == IF view.stage = "Finished"
            THEN [q |-> view.q, ids |-> {yielded[i].eid : i \in DOMAIN yielded}]
            ELSE [q |-> {}, ids |-> {}]

Database == INSTANCE EntityDatabase
                WITH issued <- next_id, db <- DbOf, read <- ReadOf, answer <- AnswerOf

\* The whole World (Entity(), ~Entity(), Entity::Get/Set, components_view)
\* behaves as the abstract database: ids are fresh, a new entity holds its
\* shape's defaults, a Get returns what the entity's cell holds in the
\* abstract store, a Set changes only that cell, and a finished iteration
\* has yielded exactly the live entities whose shape contains the query.
ImplementsDatabase == Database!Spec

=============================================================================
