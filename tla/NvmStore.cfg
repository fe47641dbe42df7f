\* Two shells; a body with two contents, and lists of at most one entry, with
\* which the image is at the limit of loadNvm: an edit keeps the size of the
\* image, grows it or shrinks it.
CONSTANTS
    Shells = {usb, tcp}
    Boot = Boot
    Bodies = {zero, edited}
    FactoryBody = zero
    MaxEntries = 1
    LoadLimit = 1
    None = None
SPECIFICATION Spec
SYMMETRY Symmetry
INVARIANTS TypeOK DurableAtRest NeverDiscarded
PROPERTY BootRestores
