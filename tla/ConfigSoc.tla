------------------------------ MODULE ConfigSoc ------------------------------
(***************************************************************************)
(* The memory map of tb/inc/config_soc.v in pages of 64 KB, which divide   *)
(* every region: the AHB slaves (boot ROM, debug module, printf dump,      *)
(* instruction RAM, data RAM, APB bridge) and the APB slaves behind the    *)
(* bridge (GPIO, UART, timer, event unit, reset control).                  *)
(***************************************************************************)
EXTENDS Integers

AhbSlave == 0..5
AhbBase == [s \in AhbSlave |->                           \* 0x1A00 ... 0x4000
              <<6656, 6912, 7168, 8192, 12288, 16384>>[s + 1]]
AhbLast == [s \in AhbSlave |-> AhbBase[s] + IF s < 3 THEN 0 ELSE 15]

Bridge == 5               \* the AHB slave that is the APB bridge

ApbSlave == 0..4

\* Mutation: an APB_BASE_ADDR_ALL that does not follow the bridge.
ApbBase_moved == [s \in ApbSlave |-> 16396 + s]

\* Mutation: one entry of APB_BASE_ADDR_ALL copied into the next.
ApbBase_repeated == [s \in ApbSlave |-> 16384 + (IF s = 4 THEN 3 ELSE s)]

ApbBase == [s \in ApbSlave |-> 16384 + s]                \* 0x4000 ... 0x4004

ApbLast == ApbBase
===============================================================================
