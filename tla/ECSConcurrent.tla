---------------------------- MODULE ECSConcurrent ----------------------------
(***************************************************************************)
(* Several threads sharing one World (spec section 5 and scenario 6).     *)
(* Each worker thread runs the lifetime of one Entity: Entity(), that is  *)
(* m_id{AllocateID()}, a relaxed but atomic fetch_add, then                *)
(* World::Register step by step (find the mask in the archetype map,      *)
(* insert a new archetype, insert its mask into the trie, insert          *)
(* id -> mask into the registry, add_row one set_cell per component);     *)
(* later ~Entity(), that is World::Unregister (look the mask up in the    *)
(* registry, then drop_row one Clear per component). Viewer threads run   *)
(* one components_view loop each: begin(), then ++ until end().           *)
(* Nothing of this is synchronised by the code; the spec requires callers *)
(* to hold an external mutex around registration, destruction and view    *)
(* iteration, modelled by UseMutex. Each hash map or trie operation is    *)
(* one atomic step: an optimistic reading of what, without the mutex, is  *)
(* a data race.                                                            *)
(***************************************************************************)
EXTENDS Naturals, SequencesExt, FiniteSetsExt

CONSTANTS
    Components, Shapes, HasDefault, ZeroValue, DefaultValue,
    Threads,       \* worker threads, each owning one Entity for a while
    ThreadShape,   \* ThreadShape[t]: the shape of the Entity thread t builds
    Viewers,       \* threads each iterating one components_view
    ViewQuery,     \* ViewQuery[v]: the components viewer v iterates
    UseMutex,      \* whether callers hold the external mutex
    NoThread

ASSUME /\ ThreadShape \in [Threads -> Shapes] /\ UseMutex \in BOOLEAN
       /\ ViewQuery \in [Viewers -> SUBSET Components \ {{}}]

MaxId == Cardinality(Threads)
Ids == 0 .. (MaxId - 1)

VARIABLES
    next_id, trie, archetypes, registry,   \* the World statics
    pc,        \* where each worker is in Entity() or ~Entity()
    tid,       \* the m_id each worker allocated
    creating,  \* whether the worker's find() missed the mask
    pending,   \* the components add_row or drop_row has still to visit
    mask,      \* the mask ~Entity() read from the registry
    lock,      \* holder of the caller's mutex
    vpc,       \* where each viewer is in its loop
    vctx,      \* each viewer's Iterator (GeneratorContext)
    seen       \* the rows each viewer's loop body has received

vars == <<next_id, trie, archetypes, registry, pc, tid, creating, pending,
          mask, lock, vpc, vctx, seen>>
wvars == <<next_id, trie, archetypes, registry, tid, creating, pending, mask>>

\* Operators on columns, rows and iterators are those of the
\* single-threaded model.
W == INSTANCE ECSWorld WITH
        Handles <- Threads, MaxId <- Cardinality(Threads), Queries <- {},
        SetValues <- {}, MoveHandles <- FALSE, Throws <- FALSE,
        handles <- [t \in Threads |-> 0], got <- 0, view <- 0, yielded <- <<>>

IdleCtx == [stage |-> "Idle", q |-> {}, archs |-> <<>>, ai |-> 1, pos |-> <<>>]

\* The mutex: free, or held by one thread. Without it the steps still run.
Free == UseMutex => lock = NoThread
Take(x) == lock' = IF UseMutex THEN x ELSE NoThread

\* Taking the mutex around registration (after m_id{AllocateID()}) and
\* around ~Entity().
Lock(t) ==
    /\ pc[t] \in {"lock", "live"} /\ Free /\ Take(t)
    /\ pc' = [pc EXCEPT ![t] = IF @ = "lock" THEN "find" ELSE "lookup"]
    /\ UNCHANGED <<wvars, vpc, vctx, seen>>

\* Mutant: s_next_entity_id++ as a plain load and a later store; the
\* loaded value is kept in tid[t] between the two steps.
AllocSplit(t) ==
    /\ pc[t] = "alloc"
    /\ \/ /\ tid[t] = MaxId
          /\ tid' = [tid EXCEPT ![t] = next_id]
          /\ UNCHANGED <<next_id, pc>>
       \/ /\ tid[t] # MaxId
          /\ next_id' = tid[t] + 1
          /\ pc' = [pc EXCEPT ![t] = "lock"]
          /\ UNCHANGED tid
    /\ UNCHANGED <<trie, archetypes, registry, creating, pending, mask, lock, vpc, vctx, seen>>

\* Mutant: the allocator returns the incremented value.
AllocPreIncrement(t) ==
    /\ pc[t] = "alloc"
    /\ tid' = [tid EXCEPT ![t] = next_id + 1] /\ next_id' = next_id + 1
    /\ pc' = [pc EXCEPT ![t] = "lock"]
    /\ UNCHANGED <<trie, archetypes, registry, creating, pending, mask, lock, vpc, vctx, seen>>

\* World::AllocateID: s_next_entity_id.fetch_add(1, relaxed), run by the
\* member initializer of m_id, before the caller's mutex is taken (spec
\* section 5: allocation is the one synchronised operation).
Alloc(t) ==
    /\ pc[t] = "alloc"
    /\ tid' = [tid EXCEPT ![t] = next_id] /\ next_id' = next_id + 1
    /\ pc' = [pc EXCEPT ![t] = "lock"]
    /\ UNCHANGED <<trie, archetypes, registry, creating, pending, mask, lock, vpc, vctx, seen>>

\* s_component_archetype_map.find(components) == end
Find(t) ==
    LET absent == ThreadShape[t] \notin DOMAIN archetypes
    IN /\ pc[t] = "find"
       /\ creating' = [creating EXCEPT ![t] = absent]
       /\ pc' = [pc EXCEPT ![t] = IF absent THEN "map_insert" ELSE "link"]
       /\ UNCHANGED <<next_id, trie, archetypes, registry, tid, pending, mask, lock, vpc, vctx, seen>>

\* s_component_archetype_map.insert(make_pair(components, new archetype)):
\* insert leaves an entry another thread made since the find().
MapInsert(t) ==
    /\ pc[t] = "map_insert"
    /\ archetypes' = W!RegisterStore(archetypes, ThreadShape[t])
    /\ pc' = [pc EXCEPT ![t] = "trie_insert"]
    /\ UNCHANGED <<next_id, trie, registry, tid, creating, pending, mask, lock, vpc, vctx, seen>>

\* s_component_trie.Insert(components)
TrieInsert(t) ==
    /\ pc[t] = "trie_insert"
    /\ trie' = trie \cup {ThreadShape[t]}
    /\ pc' = [pc EXCEPT ![t] = "link"]
    /\ UNCHANGED <<next_id, archetypes, registry, tid, creating, pending, mask, lock, vpc, vctx, seen>>

\* Mutant: the registry insert is left out.
LinkNoRegistry(t) ==
    /\ pc[t] = "link"
    /\ pending' = [pending EXCEPT ![t] = W!ShapeOrder(ThreadShape[t])]
    /\ pc' = [pc EXCEPT ![t] = "add_row"]
    /\ UNCHANGED <<next_id, trie, archetypes, registry, tid, creating, mask, lock, vpc, vctx, seen>>

\* Mutant: the caller's lock scope ends before add_row.
LinkReleasesLock(t) ==
    /\ pc[t] = "link"
    /\ registry' = IF tid[t] \in DOMAIN registry THEN registry
                   ELSE registry @@ (tid[t] :> ThreadShape[t])
    /\ pending' = [pending EXCEPT ![t] = W!ShapeOrder(ThreadShape[t])]
    /\ pc' = [pc EXCEPT ![t] = "add_row"] /\ lock' = NoThread
    /\ UNCHANGED <<next_id, trie, archetypes, tid, creating, mask, vpc, vctx, seen>>

\* s_entity_archetype_map.insert(make_pair(m_id, components)), then add_row.
Link(t) ==
    /\ pc[t] = "link"
    /\ registry' = IF tid[t] \in DOMAIN registry THEN registry
                   ELSE registry @@ (tid[t] :> ThreadShape[t])
    /\ pending' = [pending EXCEPT ![t] = W!ShapeOrder(ThreadShape[t])]
    /\ pc' = [pc EXCEPT ![t] = "add_row"]
    /\ UNCHANGED <<next_id, trie, archetypes, tid, creating, mask, lock, vpc, vctx, seen>>

\* add_row::set_cell<C> for the next component: one column upsert.
AddCell(t) ==
    LET s == ThreadShape[t]
        c == Head(pending[t])
    IN /\ pc[t] = "add_row"
       /\ archetypes' = [archetypes EXCEPT ![s][c] =
                            W!Upsert(@, tid[t], W!CellDefault(s, c))]
       /\ pending' = [pending EXCEPT ![t] = Tail(@)]
       /\ pc' = [pc EXCEPT ![t] = IF Tail(pending[t]) # <<>> THEN "add_row" ELSE "unlock"]
       /\ UNCHANGED <<next_id, trie, registry, tid, creating, mask, lock, vpc, vctx, seen>>

\* World::Unregister: components = s_entity_archetype_map[m_id].
Lookup(t) ==
    /\ pc[t] = "lookup"
    /\ mask' = [mask EXCEPT ![t] = registry[tid[t]]]
    /\ pending' = [pending EXCEPT ![t] = W!ShapeOrder(ThreadShape[t])]
    /\ pc' = [pc EXCEPT ![t] = "drop_row"]
    /\ UNCHANGED <<next_id, trie, archetypes, registry, tid, creating, lock, vpc, vctx, seen>>

\* Mutant: drop_row stops before the shape's last component.
ClearCellStopEarly(t) ==
    LET c == Head(pending[t])
    IN /\ pc[t] = "drop_row"
       /\ archetypes' = [archetypes EXCEPT ![mask[t]][c] = W!Erase(@, tid[t])]
       /\ pending' = [pending EXCEPT ![t] = Tail(@)]
       /\ pc' = [pc EXCEPT ![t] = IF Len(pending[t]) > 2 THEN "drop_row" ELSE "dunlock"]
       /\ UNCHANGED <<next_id, trie, registry, tid, creating, mask, lock, vpc, vctx, seen>>

\* drop_row: archetype.Clear<C>(eid) for the next component of the shape.
ClearCell(t) ==
    LET c == Head(pending[t])
    IN /\ pc[t] = "drop_row"
       /\ archetypes' = [archetypes EXCEPT ![mask[t]][c] = W!Erase(@, tid[t])]
       /\ pending' = [pending EXCEPT ![t] = Tail(@)]
       /\ pc' = [pc EXCEPT ![t] = IF Tail(pending[t]) # <<>> THEN "drop_row" ELSE "dunlock"]
       /\ UNCHANGED <<next_id, trie, registry, tid, creating, mask, lock, vpc, vctx, seen>>

\* Releasing the mutex after Entity() or after ~Entity().
Unlock(t) ==
    /\ pc[t] \in {"unlock", "dunlock"}
    /\ lock' = NoThread
    /\ pc' = [pc EXCEPT ![t] = IF @ = "unlock" THEN "live" ELSE "done"]
    /\ UNCHANGED <<wvars, vpc, vctx, seen>>

(***************************************************************************)
(* Viewers: for (auto&& row : components_view<World, Cs...>{}) { ... }    *)
(***************************************************************************)
VLock(v) ==
    /\ vpc[v] = "vlock" /\ Free /\ Take(v)
    /\ vpc' = [vpc EXCEPT ![v] = "begin"]
    /\ UNCHANGED <<wvars, pc, vctx, seen>>

\* The iterator stands on a row, or has reached end(); past an Overrun
\* (undefined behaviour) the model follows the loop no further.
Continue(ctx) == IF ctx.stage \in {"Finished", "Overrun"} THEN "vunlock" ELSE "next"

\* Mutant: the mutex is held for begin() only, not for the whole loop.
VBeginUnlocking(v) ==
    LET n == W!NextRow([stage |-> "BeginArchetype", q |-> ViewQuery[v],
                        archs |-> W!MatchingArchetypes(ViewQuery[v]), ai |-> 1,
                        pos |-> [c \in ViewQuery[v] |-> 1]])
    IN /\ vpc[v] = "begin"
       /\ vctx' = [vctx EXCEPT ![v] = n]
       /\ seen' = [seen EXCEPT ![v] = W!Yield(n)]
       /\ vpc' = [vpc EXCEPT ![v] = Continue(n)] /\ lock' = NoThread
       /\ UNCHANGED <<wvars, pc>>

\* components_view() and begin(): match the trie, then next_row() once.
VBegin(v) ==
    LET n == W!NextRow([stage |-> "BeginArchetype", q |-> ViewQuery[v],
                        archs |-> W!MatchingArchetypes(ViewQuery[v]), ai |-> 1,
                        pos |-> [c \in ViewQuery[v] |-> 1]])
    IN /\ vpc[v] = "begin"
       /\ vctx' = [vctx EXCEPT ![v] = n]
       /\ seen' = [seen EXCEPT ![v] = W!Yield(n)]
       /\ vpc' = [vpc EXCEPT ![v] = Continue(n)]
       /\ UNCHANGED <<wvars, pc, lock>>

\* Mutant: operator++ returns without calling next_row().
VNextNoAdvance(v) ==
    /\ vpc[v] = "next"
    /\ UNCHANGED vars

\* ++it, that is next_row(), while it != end().
VNext(v) ==
    LET n == W!NextRow(vctx[v])
    IN /\ vpc[v] = "next"
       /\ vctx' = [vctx EXCEPT ![v] = n]
       /\ seen' = [seen EXCEPT ![v] = @ \o W!Yield(n)]
       /\ vpc' = [vpc EXCEPT ![v] = Continue(n)]
       /\ UNCHANGED <<wvars, pc, lock>>

\* The loop is left and the view dropped; the mutex is released.
VUnlock(v) ==
    /\ vpc[v] = "vunlock"
    /\ lock' = IF lock = v THEN NoThread ELSE lock
    /\ vpc' = [vpc EXCEPT ![v] = "vdone"] /\ vctx' = [vctx EXCEPT ![v] = IdleCtx]
    /\ UNCHANGED <<wvars, pc, seen>>

Step(t) == Lock(t) \/ Alloc(t) \/ Find(t) \/ MapInsert(t) \/ TrieInsert(t)
           \/ Link(t) \/ AddCell(t) \/ Unlock(t) \/ Lookup(t) \/ ClearCell(t)

VStep(v) == VLock(v) \/ VBegin(v) \/ VNext(v) \/ VUnlock(v)

AllFinished == (\A t \in Threads : pc[t] = "done") /\ \A v \in Viewers : vpc[v] = "vdone"

\* Every thread has returned: the program stops here.
Terminating == AllFinished /\ UNCHANGED vars

Init ==
    /\ next_id = 0 /\ trie = {} /\ archetypes = <<>> /\ registry = <<>>
    /\ pc = [t \in Threads |-> "alloc"]
    /\ tid = [t \in Threads |-> MaxId]
    /\ creating = [t \in Threads |-> FALSE]
    /\ pending = [t \in Threads |-> <<>>]
    /\ mask = [t \in Threads |-> {}]
    /\ lock = NoThread
    /\ vpc = [v \in Viewers |-> "vlock"]
    /\ vctx = [v \in Viewers |-> IdleCtx]
    /\ seen = [v \in Viewers |-> <<>>]

Next == (\E t \in Threads : Step(t)) \/ (\E v \in Viewers : VStep(v)) \/ Terminating

\* Threads are scheduled by the OS: every thread that can step eventually
\* does; a viewer's range-for calls ++ until end().
Spec == Init /\ [][Next]_vars
        /\ \A t \in Threads : WF_vars(Step(t))
        /\ \A v \in Viewers : WF_vars(VStep(v))

(***************************************************************************)
(* Properties.                                                             *)
(***************************************************************************)
PCs == {"lock", "alloc", "find", "map_insert", "trie_insert", "link",
        "add_row", "unlock", "live", "lookup", "drop_row", "dunlock", "done"}

Allocated(t) == pc[t] # "alloc"

TypeOK ==
    /\ next_id \in 0 .. MaxId
    /\ pc \in [Threads -> PCs]
    /\ tid \in [Threads -> Ids \cup {MaxId}]
    /\ \A t \in Threads : Allocated(t) => tid[t] \in Ids
    /\ lock \in Threads \cup Viewers \cup {NoThread}
    /\ trie \subseteq Shapes /\ DOMAIN archetypes \subseteq Shapes
    /\ vpc \in [Viewers -> {"vlock", "begin", "next", "vunlock", "vdone"}]

\* P6 (AllocateID, scenario 6): threads constructing entities at the same
\* time, allocating their ids outside the mutex, never receive the same
\* entity id.
IdsUnique == \A t1, t2 \in Threads :
    t1 # t2 /\ Allocated(t1) /\ Allocated(t2) => tid[t1] # tid[t2]

\* P1/P5 under concurrent add_row and drop_row: while a row is half added
\* or half dropped its id is missing from some columns, but any two columns
\* of a table list the ids they both hold in the same order, so that once
\* every add_row and drop_row has finished the columns are in lockstep.
ColumnsAgreeOnOrder ==
    \A m \in DOMAIN archetypes : \A c1, c2 \in m :
        LET k1 == W!KeysOf(archetypes[m][c1])
            k2 == W!KeysOf(archetypes[m][c2])
        IN SelectSeq(k1, LAMBDA e : W!HasKey(archetypes[m][c2], e))
           = SelectSeq(k2, LAMBDA e : W!HasKey(archetypes[m][c1], e))

\* P3 (World::Register): once a thread's constructor has returned, and
\* until its destructor starts, its id is registered under its shape, the
\* mask is indexed and every column of the table holds its row.
ConstructedRegistered == \A t \in Threads : pc[t] = "live" =>
    LET s == ThreadShape[t]
    IN /\ tid[t] \in DOMAIN registry /\ registry[tid[t]] = s /\ s \in trie
       /\ \A c \in s : W!HasKey(archetypes[s][c], tid[t])

\* P4/P7 with spec section 5 (view iteration under the mutex): when a
\* viewer's iterator reaches end(), its loop body has received exactly the
\* entities whose constructor has returned and whose destructor has not
\* started and whose shape contains the query, each once, every row
\* pairing cells of one entity.
ViewSeesSnapshot == \A v \in Viewers : vpc[v] = "vunlock" =>
    LET q == ViewQuery[v]
        rows == seen[v]
    IN /\ {rows[i].eid : i \in DOMAIN rows} =
            {tid[t] : t \in {x \in Threads : pc[x] = "live" /\ q \subseteq ThreadShape[x]}}
       /\ \A i, j \in DOMAIN rows : i # j => rows[i].eid # rows[j].eid
       /\ \A i \in DOMAIN rows : \A c \in q : rows[i].ids[c] = rows[i].eid

\* Every Entity is constructed and destroyed and every view loop reaches
\* end(): no thread waits forever on the mutex.
AllDone == <>AllFinished

=============================================================================
