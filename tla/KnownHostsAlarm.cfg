CONSTANTS
    None = None
    Workers = {w}
    UI = UI
    h1 = h1
    h2 = h2
    k1 = k1
    k2 = k2
    Hosts = {h1, h2}
    Keys = {k1, k2}
    Presents <- MCPresents
    System <- MCSystem
SPECIFICATION Spec
PROPERTY AlarmMeansOutside
