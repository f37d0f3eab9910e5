SPECIFICATION Spec
CONSTANTS
    red = red
    green = green
    c1 = c1
    c2 = c2
    c3 = c3
    cli = cli
    daemon = daemon
    Devices = {red, green}
    Creds = {c1, c2, c3}
    Procs = {cli, daemon}
    Nothing = Nothing
INVARIANTS OneKeyPerDevice
PROPERTIES RefusedOnlyWithoutKey UnlocksWithWhatAnswered
SYMMETRY Symmetry
CONSTRAINT OneFailedProbe
