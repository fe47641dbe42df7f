\* Two shells; fields of two characters, so that a text can be shorter than
\* its field, as long, or too long.
CONSTANTS
    Shells = {s1, s2}
    Letters = {"b"}
    Nul = "nul"
    Junk = "junk"
    SsidSize = 2
    PasswdSize = 2
    Rest <- MCRest
SPECIFICATION Spec
SYMMETRY Symmetry
INVARIANTS
    TypeOK
    StationGetsWhatWasSet
