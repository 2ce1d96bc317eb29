\* Component id assignment over every order in which four types can be
\* first used, width 3, interleaved with the registration of the masks
\* of nine entity types.
CONSTANTS
    t1 = t1
    t2 = t2
    t3 = t3
    t4 = t4
    eA = eA
    eB = eB
    eC = eC
    eD = eD
    eE = eE
    eF = eF
    eG = eG
    eH = eH
    eI = eI
    Types <- MCTypes
    EntityTypes <- MCEntityTypes
    Mixins <- MCMixins
    Width = 3

SPECIFICATION Spec

INVARIANT TypeOK
INVARIANT IdsDenseUnique
