SPECIFICATION Spec
CONSTANTS
    Tabs = {t1}
    Items = {i1}
    MaxLists = 1
    MaxFlips = 1
    MaxWrites = 1
    Custody = FALSE
    t1 = t1
    i1 = i1

    
    
PROPERTIES
    ViewConverges
CHECK_DEADLOCK FALSE
