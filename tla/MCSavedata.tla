----------------------------- MODULE MCSavedata -----------------------------
(* Games and the habits of their users, for TLC.                             *)
EXTENDS Savedata

CONSTANTS v1, v2

Game(type, forced, size, values, habits) ==
  [type |-> type, forced |-> forced, size |-> size, writes |-> values, may |-> habits]

\* Where the save file may hold erased cells at first, one value is enough to see it
\* change; a flash chip can be told to change it back.
Sane ==
  { Game("SRAM", TRUE, 0, {v1, v2}, {"load", "temp", "reset"}),
    Game("SRAM", FALSE, 1, {v1, v2}, {"restore", "early", "reset"}),
    Game("FLASH512", FALSE, 1, {v1}, {"load", "reset"}),
    Game("FLASH1M", TRUE, 2, {v1}, {"restore"}),
    Game("FLASH1M", FALSE, 1, {v1}, {"moves", "reset"}),
    Game("EEPROM", FALSE, 2, {v1}, {"load", "restore", "temp", "reset"}),
    Game("EEPROM", FALSE, 0, {v1}, {"temp", "reset"}) }

\* A state is loaded right after the game has saved.
Hasty == { Game("SRAM", FALSE, 1, {v1, v2}, {"load", "hasty"}) }
=============================================================================
