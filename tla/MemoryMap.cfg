SPECIFICATION Spec
INVARIANTS FilterAgreesWithDecoder OneSlave ApbBehindBridge DriversReachTheirRegister OneRegisterPerAddress
