SPECIFICATION WireSpec
CONSTANTS
    Followers = {"CMD_ACK", "ERROR", "BLE_IN_RANGE_LIST", "GPIO_SET", "UART_SEND"}
    Items = {0, 2}
    Pulses <- MCPulses
    MaxPulses = 3
    MaxFrames = 2
    Presets = {"exact", "fine", "coarse", "31"}
    Resolutions = {31}
INVARIANTS
    Understood
    GlitchFree
CHECK_DEADLOCK FALSE
