CONSTANTS
    File = {f1, f2}
    Text = {t1, t2}
    OwnLocale = Own
    Locale = {Zh, Own}
    NoLocale = NoLocale
    ZhLocale = Zh
    Settings <- MCSettings
    None = None
    MaxQueue = 2
SYMMETRY Symmetry
SPECIFICATION Spec
INVARIANTS TypeOK ShownFresh DeclsFresh IndexTracksDisk UnitsKnown
