\* A shell and the start at boot, which can both be in applyNetIf(), with the
\* address, the netmask and the DNS servers.
CONSTANTS
    Shells = {s1}
    Boot = Boot
    Addresses = {Zero, a1}
    Servers = {Zero, a1}
    Zero = Zero
SPECIFICATION Spec
INVARIANTS TypeOK AppliesWhatIsSet SurvivesRestart
