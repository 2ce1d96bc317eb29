---------------------------- MODULE ComponentMask ----------------------------
(***************************************************************************)
(* Component ids, component bitmasks and the archetype index query of      *)
(* src/src/ecs.cpp, at the bit level:                                      *)
(*  - ecs_component_id<C>() (the stateful Counter<Id> trick) and           *)
(*    component_traits<C>::id with its static_assert against               *)
(*    kMaxComponents;                                                      *)
(*  - component_bitfield<Tuple>: (component_bitfield_t{1} << id) | ...;    *)
(*  - the masks Entity() inserts into s_component_trie;                    *)
(*  - shape composition: WithComponent<Derived, C> mixins, and            *)
(*    InheritComponents<Derived, Base>, which re-tags every WithComponent *)
(*    of Base as a WithComponent of Derived.                               *)
(* Width stands for both kMaxComponents and the bit width of               *)
(* component_bitfield_t (both 128 in the code), scaled down.              *)
(***************************************************************************)
EXTENDS Integers, SequencesExt, FiniteSetsExt, Bitwise

CONSTANTS
    Types,        \* the component types the program names, as model values
    EntityTypes,  \* the entity types (Derived of Entity<Derived>) it declares
    Mixins,       \* Mixins[E]: E's mixin bases in order: a component type T
                  \* for WithComponent<E, T>, an entity type B for
                  \* InheritComponents<E, B>
    Width         \* kMaxComponents = bit width of component_bitfield_t

ASSUME /\ Width \in Nat \ {0}
       /\ Mixins \in [EntityTypes -> Seq(Types \cup EntityTypes)]

Masks == 0 .. (2^Width - 1)

(***************************************************************************)
(* Shape composition. A base is a WithComponent<Derived, C>, the record   *)
(* <<Derived, C>>; base_list_t<E> lists the bases registered for E.       *)
(***************************************************************************)
\* transform_components<Derived, Tuple>: WithComponent<Derived, C> for the
\* component C of every base of the tuple.
TransformComponents(D, bases) == [i \in DOMAIN bases |-> <<D, bases[i][2]>>]

\* base_list_t<E> (meta module, not in src/): the WithComponent<E, C>
\* bases E derives from, directly or through the InheritAll of an
\* InheritComponents<E, B>, in declaration order.
RECURSIVE BaseList(_)
BaseList(E) ==
    LET mixed == [i \in DOMAIN Mixins[E] |->
                    IF Mixins[E][i] \in Types THEN <<<<E, Mixins[E][i]>>>>
                    ELSE TransformComponents(E, BaseList(Mixins[E][i]))]
    IN SelectSeq(FlattenSeq(mixed), LAMBDA b : b[1] = E)

\* components_from_bases<Tuple>: the component type of every base.
ComponentsFromBases(bases) == [i \in DOMAIN bases |-> bases[i][2]]

\* components_from_bases_t<base_list_t<E>>, the components_type of Entity().
ComponentsOf(E) == ComponentsFromBases(BaseList(E))

\* The component tuples of the declared entity types.
ShapeDecls == {ComponentsOf(E) : E \in EntityTypes}

VARIABLES
    defined,   \* the Counter<Id> whose is_defined friend has been generated
    idOf,      \* component_traits<T>::id of each instantiated type
    rejected,  \* types whose component_traits<T> failed the static_assert
    trie       \* the keys inserted into s_component_trie

vars == <<defined, idOf, rejected, trie>>

(***************************************************************************)
(* ecs_component_id<C, Id>(): while Counter<Id>::exists(Id) recurse with   *)
(* Id + 1; the first Counter that does not exist yet generates its         *)
(* is_defined friend (the exists(...) overload) and gives the id.         *)
(***************************************************************************)
\* Mutant: the exists() test never sees a generated Counter.
EcsComponentIdNoProbe(def, id) == id

RECURSIVE EcsComponentId(_, _)
EcsComponentId(def, id) == IF id \in def THEN EcsComponentId(def, id + 1) ELSE id

\* Mutant: the static_assert compares with <= kMaxComponents.
InstantiateNoAssert(T) ==
    LET id == EcsComponentId(defined, 0)
    IN /\ T \notin DOMAIN idOf \cup rejected
       /\ defined' = defined \cup {id}
       /\ IF id <= Width
          THEN /\ idOf' = idOf @@ (T :> id) /\ UNCHANGED rejected
          ELSE /\ rejected' = rejected \cup {T} /\ UNCHANGED idOf
       /\ UNCHANGED trie

\* Instantiating component_traits<T>::id: evaluates ecs_component_id<T>()
\* once (the Counter it reaches becomes defined) and static_asserts the id.
Instantiate(T) ==
    LET id == EcsComponentId(defined, 0)
    IN /\ T \notin DOMAIN idOf \cup rejected
       /\ defined' = defined \cup {id}
       /\ IF id < Width
          THEN /\ idOf' = idOf @@ (T :> id) /\ UNCHANGED rejected
          ELSE /\ rejected' = rejected \cup {T} /\ UNCHANGED idOf
       /\ UNCHANGED trie

(***************************************************************************)
(* component_bitfield<std::tuple<Args...>>::helper: the empty tuple gives  *)
(* 0, Head contributes component_bitfield_t{1} << id or-ed with the tail.  *)
(***************************************************************************)
Shift(id) == (2^id) % 2^Width

RECURSIVE Bitfield(_)
Bitfield(ids) == IF ids = <<>> THEN 0 ELSE Shift(Head(ids)) | Bitfield(Tail(ids))

\* ecs_component_mask<components_type>() of a shape's component tuple.
ShapeMask(S) == Bitfield([i \in DOMAIN S |-> idOf[S[i]]])

\* Entity() computes the mask of its shape; World::Register inserts it into
\* s_component_trie when find() misses it (a set of keys: Insert of a key
\* already there changes nothing).
RegisterShape(S) ==
    /\ \A i \in DOMAIN S : S[i] \in DOMAIN idOf
    /\ trie' = trie \cup {ShapeMask(S)}
    /\ UNCHANGED <<defined, idOf, rejected>>

Init ==
    /\ defined = {}
    /\ idOf = <<>>
    /\ rejected = {}
    /\ trie = {}

Next == \/ \E T \in Types : Instantiate(T)
        \/ \E S \in ShapeDecls : RegisterShape(S)

Spec == Init /\ [][Next]_vars

(***************************************************************************)
(* Properties.                                                             *)
(***************************************************************************)
TypeOK ==
    /\ defined \subseteq 0 .. Cardinality(Types)
    /\ idOf \in [DOMAIN idOf -> 0 .. (Width - 1)] /\ DOMAIN idOf \subseteq Types
    /\ rejected \subseteq Types
    /\ trie \subseteq Masks

\* component_traits / ecs_component_id (spec 4.1): distinct types get
\* distinct ids, the ids are dense from 0 whatever the order in which the
\* types are first used, and a type is rejected only once Width types hold
\* every id below Width.
IdsDenseUnique ==
    /\ \A T1, T2 \in DOMAIN idOf : T1 # T2 => idOf[T1] # idOf[T2]
    /\ {idOf[T] : T \in DOMAIN idOf} = 0 .. (Cardinality(DOMAIN idOf) - 1)
    /\ rejected # {} => Cardinality(DOMAIN idOf) = Width

=============================================================================
