SPECIFICATION IrSpec
CONSTANTS
    Lines = {0, 1, 10, 12}
    FirmwareMasks <- MCFirmwareMasks
    KEYBOARD_BUF_SIZE = 3
    Scancodes = {30, 158}
    Printable = {30, 32}
    None = None
PROPERTIES
    NoUnhandledVector
    KeyQueueSpec
    KeyboardServed
    KeysReachTheLoop
\* An interrupt without handler ends in the double fault handler, which halts.
CHECK_DEADLOCK FALSE
