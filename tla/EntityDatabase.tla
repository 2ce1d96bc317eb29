--------------------------- MODULE EntityDatabase ---------------------------
(***************************************************************************)
(* What the ECS database promises its clients (spec sections 3 and 4),     *)
(* with no tables, columns, index or iterators: a set of entities, each    *)
(* with a fixed shape and a value per component of the shape. Creating an  *)
(* entity gives it a fresh id and its shape's defaults; a query over a     *)
(* component set answers, at once, every entity whose shape contains it.   *)
(***************************************************************************)
EXTENDS Naturals, FiniteSets

CONSTANTS
    Components, Shapes, HasDefault, ZeroValue, DefaultValue, SetValues,
    MaxId, Queries

Values == {ZeroValue, DefaultValue} \cup SetValues
NoEntity == MaxId
NoRead == [e |-> NoEntity, c |-> 0, v |-> ZeroValue]
NoAnswer == [q |-> {}, ids |-> {}]

VARIABLES
    issued,   \* how many ids have been handed out; ids are never reused
    db,       \* entity id -> [shape, val]: the live entities
    read,     \* the entity, component and value of the last get
    answer    \* the last completed query and the entities it answered

dbvars == <<issued, db, read, answer>>

\* The cells of a new entity: Default<shape, C>::value where specialised,
\* a value-initialised C otherwise.
Initial(s) == [c \in s |-> IF c \in HasDefault[s] THEN DefaultValue ELSE ZeroValue]

Create(s) ==
    /\ issued < MaxId
    /\ answer = NoAnswer
    /\ db' = [e \in DOMAIN db \cup {issued} |->
                IF e = issued THEN [shape |-> s, val |-> Initial(s)] ELSE db[e]]
    /\ issued' = issued + 1
    /\ UNCHANGED <<read, answer>>

Drop(e) ==
    /\ e \in DOMAIN db
    /\ answer = NoAnswer
    /\ db' = [x \in DOMAIN db \ {e} |-> db[x]]
    /\ UNCHANGED <<issued, read, answer>>

Get(e, c) ==
    /\ e \in DOMAIN db /\ c \in db[e].shape
    /\ read' = [e |-> e, c |-> c, v |-> db[e].val[c]]
    /\ UNCHANGED <<issued, db, answer>>

Set(e, c, v) ==
    /\ e \in DOMAIN db /\ c \in db[e].shape
    /\ db' = [db EXCEPT ![e].val[c] = v]
    /\ UNCHANGED <<issued, read, answer>>

Query(q) ==
    /\ answer = NoAnswer
    /\ answer' = [q |-> q, ids |-> {e \in DOMAIN db : q \subseteq db[e].shape}]
    /\ UNCHANGED <<issued, db, read>>

Forget ==
    /\ answer # NoAnswer
    /\ answer' = NoAnswer
    /\ UNCHANGED <<issued, db, read>>

Init ==
    /\ issued = 0
    /\ db = [e \in {} |-> [shape |-> {}, val |-> <<>>]]
    /\ read = NoRead
    /\ answer = NoAnswer

Next ==
    \/ \E s \in Shapes : Create(s)
    \/ \E e \in DOMAIN db : Drop(e)
    \/ \E e \in DOMAIN db, c \in Components :
          Get(e, c) \/ \E v \in SetValues : Set(e, c, v)
    \/ \E q \in Queries : Query(q)
    \/ Forget

Spec == Init /\ [][Next]_dbvars

=============================================================================
