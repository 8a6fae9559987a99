SPECIFICATION CaseSpec
CONSTANTS
    Writers = {w1, w2}
    Kinds = {"rename", "set-bbox", "autoname", "merge", "pin-aoi"}
    Layers = {a, b}
    Titles = {t1}
    Boxes = {x}
    Untitled = Untitled
    NoBox = NoBox
    NoCase = NoCase
    NoJob = NoJob
INVARIANTS
    UpdatesLand
PROPERTY
    DeletionIsFinal
SYMMETRY Interchangeable
