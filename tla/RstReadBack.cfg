CONSTANTS
  Address = {rom, iram, d1, d2}
  DEFAULT_BOOT_ADDR = rom
SPECIFICATION Spec
PROPERTIES ReadKeepsBootAddress
