\* Two shells, so that two calls of amplify() can overlap, and a count that
\* wraps within reach and is wider than the increments that overlap at a time:
\* of three, two of which may be followed by more.
CONSTANTS
    Shells = {usb, tcp}
    Main = Main
    Morse = Morse
    CountWidth = 4
SPECIFICATION Spec
SYMMETRY Symmetry
INVARIANTS TypeOK PinsAtRest CountAdvances
