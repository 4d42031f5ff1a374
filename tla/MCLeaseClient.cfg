SPECIFICATION Spec
CONSTANTS
    llama = llama
    ocr = ocr
    gateway = gateway
    command = command
    sibling = sibling
    Runtimes = {llama, ocr}
    Nobody = Nobody
    Clients = {gateway, command, sibling}
    Of <- MCOf
    Wingpu = {gateway, command}
    Faults = {"unreach", "lost", "timeout"}
    MaxFaults = 2
    MaxLoads = 3
INVARIANTS
    TypeOK
    
PROPERTIES
    WarnedForReason
