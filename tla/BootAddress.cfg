CONSTANTS
  Address = {rom, iram, d}
  DEFAULT_BOOT_ADDR = rom
  Rom = rom
  Iram = iram
  RamSize = 9
  TextLines = 1
SPECIFICATION BootSpec
INVARIANTS TypeOK BootsWhereTold DataInPlace
