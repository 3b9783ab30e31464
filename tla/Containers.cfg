\* One container in each behaviour: a hash set of five keys that grows to
\* eleven slots, a hash map that grows to seven, a heap of up to seven elements,
\* a list of up to six nodes whose count wraps at 4.
CHECK_DEADLOCK FALSE  \* a program that has crashed or ended takes no step
CONSTANTS
    k1 = k1  k2 = k2  k3 = k3  k4 = k4  k5 = k5  v1 = v1
    NoKey = NoKey
    Key = {k1, k2, k3, k4, k5}
    Value = {v1, 0}
    Hash <- HashOf
    InitSize = {0, 1}
    DefaultSlots = 2
    Oom = {"slots", "grow", "entry"}
    CritLoadFactor = 1
    FirstEntries = 1
    AllowOom = FALSE
    h1 = h1  h2 = h2  h3 = h3  h4 = h4  h5 = h5  h6 = h6  h7 = h7
    FAIL = FAIL
    Absent = {0, FAIL}
    HeapKey = {h1, h2, h3, h4, h5, h6, h7}
    HeapData = {1, 2, 3}
    FirstElems = 2
    MaxElems = 7
    n1 = n1  n2 = n2  n3 = n3  n4 = n4  n5 = n5  n6 = n6
    NULL = NULL
    Node = {n1, n2, n3, n4, n5, n6}
    NumModulus = 4
SPECIFICATION Spec
INVARIANTS
    SetInPlace
    MapGetExact
    HeapInv
    ListLinked
PROPERTIES
    SetIterExact
    SetIsDictionary
    MapIsDictionary
    HeapIsPriorityQueue
    ListIsSequence
VIEW View
